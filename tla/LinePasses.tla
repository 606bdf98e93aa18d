----------------------------- MODULE LinePasses -----------------------------
(* The compaction passes over one tool output (src/pkg/nts/pipeline.go and    *)
(* the passes it runs).  A text is a sequence of symbols: a letter, a control *)
(* character, or a marker that the passes look for, each of size one; a line  *)
(* ends with LF.  The passes before the last only drop symbols and are        *)
(* functions here.  The last, which collapses repeated lines, is modelled as  *)
(* the code runs it: in place, over a buffer whose written prefix may overlap *)
(* the line it still compares with.                                           *)
EXTENDS Integers, Sequences, FiniteSets, SequencesExt

CONSTANTS
    Texts,       \* tool outputs
    Letters,     \* alphanumeric symbols
    ShortLine,   \* lines up to this size are never repeats (3)
    NoticeSize,  \* size of the notice without its count and line feed (40)
    Threshold,   \* dedup_threshold
    Enabled,     \* the passes that are switched on
    Categories   \* of the tool the text comes from

VARIABLES
    given,     \* the text as it came
    category,  \* generic, file_read or file_write
    pass,      \* the pass that runs next
    buf,       \* the buffer
    w, r,      \* write and read cursor of the last pass
    last,      \* span of the line that is compared with
    repeats    \* how often it has been seen

passVars == <<given, category, pass, buf, w, r, last, repeats>>

LF == "lf"
CR == "cr"
Space == "sp"
ESC == "esc"
Blank == {Space, CR}

(********************************* Lines ************************************)

\* Cut a text after its line feeds; a last line may have none.
AddSymbol(lines, s) ==
    IF lines # <<>> /\ Last(Last(lines)) # LF
    THEN Append(Front(lines), Append(Last(lines), s))
    ELSE Append(lines, <<s>>)
Lines(text) == FoldLeft(AddSymbol, <<>>, text)

Joined(lines) == FlattenSeq(lines)

Has(line, s) == s \in ToSet(line)

\* A line without what TrimLeft takes off it.
Trimmed(line) ==
    LET start == {i \in DOMAIN line : line[i] # Space}
    IN IF start = {} THEN <<>>
       ELSE SubSeq(line, CHOOSE i \in start : \A j \in start : i <= j, Len(line))
Starts(line, s) == Trimmed(line) # <<>> /\ Trimmed(line)[1] = s

\* A line without its line feed and the blanks before it.
WithoutEnd(line) ==
    LET kept == {i \in DOMAIN line : line[i] \notin Blank \cup {LF}}
    IN IF kept = {} THEN <<>>
       ELSE SubSeq(line, 1, CHOOSE i \in kept : \A j \in kept : j <= i)

(********************************* Passes ***********************************)

\* Mutant: a symbol that starts no known sequence is kept.
AnsiStepKeeps(acc, s) ==
    CASE acc.mode = "text" ->
            IF s = ESC THEN [acc EXCEPT !.mode = "escape"]
            ELSE [acc EXCEPT !.out = Append(@, s)]
      [] acc.mode = "escape" /\ s \in {"[", "]", "("} ->
            [acc EXCEPT !.mode = CASE s = "[" -> "csi" [] s = "]" -> "osc"
                                   [] OTHER -> "charset"]
      [] acc.mode = "escape" -> [out |-> Append(acc.out, s), mode |-> "text"]
      [] acc.mode = "csi" ->
            [acc EXCEPT !.mode = IF s \in Letters THEN "text" ELSE "csi"]
      [] acc.mode = "osc" -> [acc EXCEPT !.mode = IF s = "bel" THEN "text" ELSE "osc"]
      [] OTHER -> [acc EXCEPT !.mode = "text"]

\* StripANSIInPlace: CSI up to a final byte, OSC up to BEL or ESC \, a
\* character set with its name, ESC with any other symbol.  A sequence that
\* does not end takes the rest of the text.
AnsiStep(acc, s) ==
    CASE acc.mode = "text" ->
            IF s = ESC THEN [acc EXCEPT !.mode = "escape"]
            ELSE [acc EXCEPT !.out = Append(@, s)]
      [] acc.mode = "escape" ->
            [acc EXCEPT !.mode = CASE s = "[" -> "csi" [] s = "]" -> "osc"
                                   [] s = "(" -> "charset" [] OTHER -> "text"]
      [] acc.mode = "csi" ->
            [acc EXCEPT !.mode = IF s \in Letters THEN "text" ELSE "csi"]
      [] acc.mode = "osc" ->
            [acc EXCEPT !.mode = CASE s = "bel" -> "text" [] s = ESC -> "oscescape"
                                   [] OTHER -> "osc"]
      [] acc.mode = "oscescape" ->
            [acc EXCEPT !.mode = CASE s \in {"bel", "\\"} -> "text"
                                   [] s = ESC -> "oscescape" [] OTHER -> "osc"]
      [] OTHER -> [acc EXCEPT !.mode = "text"]
StripANSI(text) == FoldLeft(AnsiStep, [out |-> <<>>, mode |-> "text"], text).out

\* ResolveCarriageReturnsInPlace: CR LF is a line feed, any other CR takes the
\* line back to its start.
ResolveLine(line) ==
    LET crs == {i \in DOMAIN line :
                  line[i] = CR /\ ~(i < Len(line) /\ line[i + 1] = LF)}
        rest == IF crs = {} THEN line
                ELSE SubSeq(line, 1 + CHOOSE i \in crs : \A j \in crs : j <= i, Len(line))
    IN SelectSeq(rest, LAMBDA s : s # CR)
ResolveCarriageReturns(text) ==
    LET lines == Lines(text)
    IN Joined([i \in DOMAIN lines |-> ResolveLine(lines[i])])

\* StripToolBoilerplateInPlace: notices and hints go; inside error details, so
\* does everything from the search content to the end of the details, which is
\* all that follows when they do not end.
BoilerplateStep(acc, line) ==
    LET inside == acc.inside \/ Has(line, "<details>") IN
    CASE acc.skipping /\ Has(line, "</details>") ->
            [out |-> Append(acc.out, <<"</details>", LF>>),
             inside |-> FALSE, skipping |-> FALSE]
      [] acc.skipping -> acc
      [] Has(line, "notice") \/ Has(line, "nodehint") -> acc
      [] inside /\ Starts(line, "search") ->
            [acc EXCEPT !.inside = TRUE, !.skipping = TRUE]
      [] OTHER -> [acc EXCEPT !.out = Append(@, line),
                              !.inside = inside /\ ~Has(line, "</details>")]
StripToolBoilerplate(text) ==
    Joined(FoldLeft(BoilerplateStep,
                    [out |-> <<>>, inside |-> FALSE, skipping |-> FALSE],
                    Lines(text)).out)

\* The Go tests a text says passed or were skipped; skips are looked for only
\* in a text with a pass.
GoPassed(lines) ==
    LET Says(s) == {i \in DOMAIN lines : Starts(lines[i], s) /\ Len(Trimmed(lines[i])) > 1}
    IN IF ~\E i \in DOMAIN lines : Has(lines[i], "PASS") THEN {}
       ELSE {Trimmed(lines[i])[2] : i \in Says("PASS") \cup Says("SKIP")}

\* Mutant: a line of pytest is not looked through for a failure.
PassingLineBlindly(line, passed) ==
    \/ /\ Starts(line, "RUN")
       /\ Len(Trimmed(line)) > 1 /\ Trimmed(line)[2] \in passed
    \/ Starts(line, "test") /\ Last(<<"">> \o WithoutEnd(line)) = "ok"
    \/ Has(line, "::") /\ Has(line, "PASSED")
    \/ Starts(line, "check")

\* The lines of a passing test that say nothing.
PassingLine(line, passed) ==
    \/ /\ Starts(line, "RUN")
       /\ Len(Trimmed(line)) > 1 /\ Trimmed(line)[2] \in passed
    \/ Starts(line, "test") /\ Last(<<"">> \o WithoutEnd(line)) = "ok"
    \/ Has(line, "::") /\ Has(line, "PASSED") /\ ~Has(line, "FAIL")
    \/ Starts(line, "check")

CollapseVerboseTests(text) ==
    LET lines == Lines(text)
    IN Joined(SelectSeq(lines, LAMBDA l : ~PassingLine(l, GoPassed(lines))))

\* NormalizeWhitespaceInPlace: blanks before a line feed go, and so do blank
\* lines after a blank line, a blank last line, and all but one last line feed.
WhitespaceStep(acc, line) ==
    LET kept == WithoutEnd(line)
        end == IF Last(line) = LF THEN <<LF>> ELSE <<>>
    IN IF kept # <<>> THEN [out |-> acc.out \o kept \o end, blank |-> FALSE]
       ELSE [out |-> IF acc.blank THEN acc.out ELSE acc.out \o end, blank |-> TRUE]
OneLineFeed(text) ==
    LET n == Len(text)
    IN IF n > 1 /\ text[n] = LF /\ text[n - 1] = LF THEN SubSeq(text, 1, n - 1) ELSE text
NormalizeWhitespace(text) ==
    OneLineFeed(FoldLeft(WhitespaceStep, [out |-> <<>>, blank |-> FALSE], Lines(text)).out)

(************************** Collapsing repeated lines ***********************)

Meaningful(line) ==
    Len(line) > ShortLine /\ \E i \in DOMAIN line : line[i] \in Letters

\* The buffer with s written from position w + 1 on (memmove).
Written(b, at, s) ==
    [i \in DOMAIN b |-> IF i > at /\ i <= at + Len(s) THEN s[i - at] ELSE b[i]]

Span(b, span) == SubSeq(b, span[1], span[2])
NoSpan == <<1, 0>>
SpanSize(span) == span[2] - span[1] + 1

\* The end of the line that starts after position i, without its line feed.
LineEnd(b, i) ==
    LET feeds == {j \in (i + 1)..Len(b) : b[j] = LF}
    IN IF feeds = {} THEN Len(b) ELSE (CHOOSE j \in feeds : \A k \in feeds : j <= k) - 1

\* The notice that stands for n more lines; its count is one symbol here.
CollapseNotice(n) == [i \in 1..NoticeSize |-> "..."] \o <<ToString(n)>>

\* flushRepeats when the notice is shorter than the lines it stands for.
DroppedBytes(n, size, feed) ==
    IF feed THEN n * (size + 1) ELSE (n - 1) * (size + 1) + size
NoticeLength(feed) == NoticeSize + 1 + (IF feed THEN 1 ELSE 0)
\* Mutant: the notice may be longer than what it stands for.
CollapsesAlways(n, size, feed) == n + 1 >= Threshold

Collapses(n, size, feed) ==
    n + 1 >= Threshold /\ DroppedBytes(n, size, feed) > NoticeLength(feed)

End(feed) == IF feed THEN <<LF>> ELSE <<>>

\* Write the held-back lines again, one by one, each read from the buffer as
\* the ones before it have left it.
Reemit(b, at, span, n, feed) ==
    LET Again(acc, k) ==
            LET line == Span(acc.b, span) \o (IF k < n THEN <<LF>> ELSE End(feed))
            IN [b |-> Written(acc.b, acc.at, line), at |-> acc.at + Len(line)]
    IN FoldLeft(Again, [b |-> b, at |-> at], [k \in 1..n |-> k])

\* Mutant: the notice takes the place of the line as well.
FlushReplacesLine(feed) ==
    LET n == repeats - 1
        notice == CollapseNotice(n) \o End(feed)
        start == w - SpanSize(last) - 1
    IN CASE n = 0 -> [b |-> buf, at |-> w]
         [] n > 0 /\ Collapses(n, SpanSize(last), feed) ->
                [b |-> Written(buf, start, notice), at |-> start + Len(notice)]
         [] OTHER -> Reemit(buf, w, last, n, feed)

FlushRepeats(feed) ==
    LET n == repeats - 1
        notice == CollapseNotice(n) \o End(feed)
    IN CASE n = 0 -> [b |-> buf, at |-> w]
         [] n > 0 /\ Collapses(n, SpanSize(last), feed) ->
                [b |-> Written(buf, w, notice), at |-> w + Len(notice)]
         [] OTHER -> Reemit(buf, w, last, n, feed)

(*********************************** Process ********************************)

\* The passes in their order; before the first, "start".
Order == <<"start", "ansi", "cr", "boilerplate", "tests", "whitespace", "repeats">>
After(name) ==
    LET i == CHOOSE k \in DOMAIN Order : Order[k] = name IN Order[i + 1]

Apply(name, text) ==
    CASE name = "ansi" -> StripANSI(text)
      [] name = "cr" -> ResolveCarriageReturns(text)
      [] name = "boilerplate" -> StripToolBoilerplate(text)
      [] name = "tests" -> CollapseVerboseTests(text)
      [] name = "whitespace" -> NormalizeWhitespace(text)

\* Tests are collapsed in the output of generic tools only.
Runs(name) == name \in Enabled /\ (name = "tests" => category = "generic")

\* PreserveFileReads and PreserveFileWrites, which are on.
Preserved == {"file_read", "file_write"}

Init ==
    /\ given \in Texts
    /\ category \in Categories
    /\ pass = "start"
    /\ buf = given
    /\ w = 0
    /\ r = 0
    /\ last = NoSpan
    /\ repeats = 1

Start ==
    /\ pass = "start"
    /\ pass' = IF category \in Preserved THEN "done" ELSE After(pass)
    /\ UNCHANGED <<given, category, buf, w, r, last, repeats>>

Pass ==
    /\ pass \notin {"start", "repeats", "done"}
    /\ buf' = IF Runs(pass) THEN Apply(pass, buf) ELSE buf
    /\ pass' = After(pass)
    /\ UNCHANGED <<given, category, w, r, last, repeats>>

Collapsing ==
    pass = "repeats" /\ "repeats" \in Enabled /\ Threshold > 1 /\ buf # <<>>

\* The last pass is switched off.
KeepRepeats ==
    /\ pass = "repeats" /\ ~Collapsing
    /\ pass' = "done"
    /\ UNCHANGED <<given, category, buf, w, r, last, repeats>>

\* CollapseDuplicatesInPlace: the next line repeats the last one ...
RepeatedLine ==
    /\ Collapsing
    /\ r < Len(buf)
    /\ LET end == LineEnd(buf, r)
           line == SubSeq(buf, r + 1, end)
       IN /\ last # NoSpan /\ Meaningful(line) /\ line = Span(buf, last)
          /\ r' = IF end < Len(buf) THEN end + 1 ELSE end
    /\ repeats' = repeats + 1
    /\ UNCHANGED <<given, category, pass, buf, w, last>>

\* ... or is new: what was held back is written, then the line.
NewLine ==
    /\ Collapsing
    /\ r < Len(buf)
    /\ LET end == LineEnd(buf, r)
           line == SubSeq(buf, r + 1, end)
           feed == end < Len(buf)
           flushed == FlushRepeats(TRUE)
           moved == SubSeq(flushed.b, r + 1, end) \o End(feed)
       IN /\ last = NoSpan \/ ~Meaningful(line) \/ line # Span(buf, last)
          /\ buf' = Written(flushed.b, flushed.at, moved)
          /\ w' = flushed.at + Len(moved)
          /\ r' = IF feed THEN end + 1 ELSE end
          /\ last' = <<r + 1, end>>
    /\ repeats' = 1
    /\ UNCHANGED <<given, category, pass>>

LastRepeats ==
    /\ Collapsing
    /\ r = Len(buf)
    /\ LET flushed == FlushRepeats(buf # <<>> /\ Last(buf) = LF)
       IN /\ buf' = [i \in DOMAIN buf \cap (1..flushed.at) |-> flushed.b[i]]
          /\ w' = flushed.at
    /\ pass' = "done"
    /\ repeats' = 1
    /\ UNCHANGED <<given, category, r, last>>

Next == Start \/ Pass \/ KeepRepeats \/ RepeatedLine \/ NewLine \/ LastRepeats

Spec == Init /\ [][Next]_passVars
(******************************** Properties ********************************)

Finished == pass = "done" /\ category \notin Preserved

\* The write cursor, and the lines still held back, never pass the read cursor.
CursorsOrdered ==
    /\ pass = "repeats" => w + (repeats - 1) * SpanSize(last) <= r
    /\ pass = "done" => w <= r

\* A text with none of the symbols that stand for markers or controls.
Ordinary(text) == ToSet(text) \subseteq Letters \cup {LF, "-"}

\* In an ordinary text, the lines that do not repeat the one before them all
\* come out, in their order.
FirstLinesKept ==
    Finished /\ Ordinary(given) =>
        LET before == Lines(NormalizeWhitespace(given))
            firsts == {i \in DOMAIN before :
                        i > 1 => WithoutEnd(before[i]) # WithoutEnd(before[i - 1])}
            Keep(acc, line) ==
                IF acc # <<>> /\ WithoutEnd(line) = WithoutEnd(Head(acc))
                THEN Tail(acc) ELSE acc
        IN FoldLeft(Keep, [k \in 1..Cardinality(firsts) |->
            before[CHOOSE i \in firsts : Cardinality({j \in firsts : j < i}) = k - 1]], Lines(buf)) = <<>>

\* A line that reports a failure, and the start of a test that never reports a
\* pass (a panic), are in what is sent, unless a notice, a hint or the search
\* content of error details is around them.
FailuresKept ==
    Finished /\ ToSet(given) \cap {ESC, CR, "search", "notice", "nodehint"} = {} =>
        LET lines == Lines(given)
            Loud(line) == \/ Has(line, "FAIL")
                          \/ /\ Starts(line, "RUN")
                             /\ \A i \in DOMAIN lines :
                                    (Starts(lines[i], "PASS") \/ Starts(lines[i], "SKIP"))
                                        => ~Has(lines[i], Last(WithoutEnd(line)))
            out == {WithoutEnd(l) : l \in ToSet(Lines(buf))}
        IN \A i \in DOMAIN lines :
            (Loud(lines[i]) /\ Len(WithoutEnd(lines[i])) > 1)
                => WithoutEnd(lines[i]) \in out

\* No control sequence is sent, whichever way sequences are nested or cut off.
ControlGone == Finished => ToSet(buf) \cap {ESC, CR} = {}

\* Six passes over one buffer, each overwriting what it reads (dedup.go: "in
\* place ... guaranteed w <= r"), keep its cursors apart and lose repetitions
\* and noise only: the first of equal lines and every failure come through.
\* That a line comes through unaltered is left to LinesVerbatim.
LinesKept == CursorsOrdered /\ FirstLinesKept /\ FailuresKept /\ ControlGone

\* Collapsed or not, every line that is sent is a line of the text or the
\* notice for repeated ones.
LinesVerbatim ==
    Finished /\ Ordinary(given) =>
        \A line \in ToSet(Lines(buf)) :
            \/ Has(line, "...")
            \/ WithoutEnd(line) \in {WithoutEnd(l) : l \in ToSet(Lines(given))}
=============================================================================
