---------------------------- MODULE MCSuppression ----------------------------
(* TLC instances of Suppression and LinePasses, one at a time: a behaviour    *)
(* either plays a scene, that is one part of the transformer (reads and       *)
(* writes of files, reasoning and failing tails, tool outputs and reminder    *)
(* tables), or runs the line passes over one text.                            *)
EXTENDS Suppression

CONSTANTS Texts, Letters, ShortLine, NoticeSize, Threshold, Enabled, Categories

VARIABLES given, category, pass, buf, w, r, last, repeats

Passes == INSTANCE LinePasses

Plain(body) == [body |-> body, size |-> 2, error |-> "none", noise |-> FALSE,
                table |-> None]
Output == Plain("output")
NoisyOutput == [Output EXCEPT !.noise = TRUE, !.size = 3]
ShortOutput == [Plain("short") EXCEPT !.size = 1]
Failure == [Plain("failure") EXCEPT !.error = "prefix"]
Signature == [Plain("signature") EXCEPT !.error = "signature"]
Table(t) == [Plain("details") EXCEPT !.table = t]

Call(tool, file, range) == [id |-> None, tool |-> tool, file |-> file, range |-> range]
Read(f) == Call("read", f, None)
ReadLines(f) == Call("read", f, "1-10")
Write(f) == Call("write", f, None)
Run == Call("run", None, None)

Text(words, thought) == [type |-> "text", words |-> words, thought |-> thought,
                         cache |-> FALSE]
Thinking(thought, cache) == [type |-> "thinking", words |-> 0, thought |-> thought,
                             cache |-> cache]
Turn(content, parts, field, calls) ==
    [role |-> "assistant", content |-> content, parts |-> parts, field |-> field,
     calls |-> calls, mark |-> FALSE]
Calling(calls) == Turn("none", <<>>, 0, calls)
Thought(n) == Turn("none", <<>>, n, <<Run>>)

Result_(role, text) == [role |-> role, text |-> text, failed |-> FALSE]
Flagged(role, text) == [role |-> role, text |-> text, failed |-> TRUE]

\* retention: RecommendedRetentionTurns of the agent's profile.
Defaults ==
    [stale |-> TRUE, depth |-> 1, preserveCache |-> TRUE, strip |-> TRUE,
     keep |-> 1, retention |-> 0, preserveKickoff |-> TRUE, minKickoff |-> 4, scanTurns |-> 2,
     minSubstantial |-> 2, freeze |-> TRUE, hysteresis |-> FALSE,
     reminders |-> TRUE, refresh |-> 2, dedup |-> TRUE, minBytes |-> 2]

Scene(options, answers, results, prompts, length) ==
    [options |-> options, caching |-> TRUE, answers |-> answers,
     results |-> results, prompts |-> prompts, length |-> length]

Reading ==
    Scene([Defaults EXCEPT !.strip = FALSE, !.reminders = FALSE],
          {Calling(<<c>>) : c \in {Read("f"), ReadLines("f"), Write("f"), Read("g"),
                                   Write("g")}}
            \cup {Calling(<<Read("f"), Write("f")>>)},
          {Result_("block", Output), Flagged("tool", Output)}, {}, 8)

ReadingDeep == [Reading EXCEPT !.options.depth = 0, !.caching = FALSE, !.length = 10,
                               !.answers = {Calling(<<c>>) : c \in {Read("f"), Write("f")}}]

Reasons(options, thoughts) ==
    Scene(options, {Thought(n) : n \in thoughts}, {Result_("tool", Output), Result_("tool", Failure)}, {}, 10)

Sliding == Reasons(Defaults, {0, 2, 4})
Watermarks == Reasons([Defaults EXCEPT !.hysteresis = TRUE], {1, 2})

SlidingByCatalogue ==
    [Reasons([Defaults EXCEPT !.keep = -1], {0, 2}) EXCEPT !.length = 8]
WatermarksByProfile ==
    Reasons([Defaults EXCEPT !.keep = -1, !.retention = 1, !.hysteresis = TRUE], {1, 2})

Shapes ==
    Scene([Defaults EXCEPT !.keep = 0],
          {Turn("list", <<Thinking(2, c), Text(n, 0)>>, 0, <<>>) : c \in BOOLEAN, n \in {1}}
            \cup {Turn("list", <<Thinking(2, TRUE)>>, 0, calls) : calls \in {<<>>, <<Run>>}}
            \cup {Turn("string", <<Text(n, 3)>>, f, calls) :
                    n \in {0, 1}, f \in {0, 2}, calls \in {<<>>, <<Run>>}}
            \cup {Turn("list", <<Text(0, 2)>>, 0, <<>>)}
            \cup {Turn(content, <<>>, 2, calls) :
                    content \in {"none", "list", "string"}, calls \in {<<>>, <<Run>>}},
          {Result_("block", Signature)}, {Plain("go on"), Signature}, 5)

Outputs ==
    Scene([Defaults EXCEPT !.strip = FALSE],
          {Calling(<<Run>>), Calling(<<Read("f")>>)},
          {Result_("tool", Output), Result_("block", NoisyOutput),
           Result_("tool", ShortOutput), Result_("tool", Failure)},
          {Table("A"), Table("B")}, 7)

\* Tables in the results themselves, which may be evicted or replaced.
Tables ==
    [Outputs EXCEPT
        !.results = {Result_(role, [Output EXCEPT !.table = t]) :
                        role \in {"block", "tool"}, t \in {"A", "B"}},
        !.length = 7]

AllScenes ==
    {Reading, ReadingDeep, Sliding, SlidingByCatalogue, Watermarks, WatermarksByProfile,
     Shapes, Outputs, Tables}

Nothing == [Scene(Defaults, {}, {}, {}, 0) EXCEPT !.caching = FALSE]
ScenesOrNone == AllScenes \cup {Nothing}

\* Lines of repeats, control sequences, and markers of the other passes.
Repeat(line, n) == FlattenSeq([i \in 1..n |-> line \o <<"lf">>])
Group == {Repeat(line, n) : line \in {<<"a", "a">>, <<"a", "b">>, <<"-", "-">>}, n \in 1..4}
            \cup {<<"a", "lf">>, <<"lf">>}
Repetitions == {x \o y \o z : x, y, z \in Group} \cup {<<"a", "b", "lf", "a", "b">>}
Controls == UNION {[1..n -> {"a", "esc", "[", "]", "(", "bel", "\\", "cr", "lf"}] : n \in 1..4}
Reports ==
    LET Line == {<<"RUN", "t1">>, <<"PASS", "t1">>, <<"SKIP", "t1">>, <<"FAIL", "t1">>,
                 <<"sp", "RUN", "t2">>, <<"test", "t2", "ok">>, <<"test", "FAIL">>,
                 <<"::", "PASSED">>, <<"::", "PASSED", "FAIL">>, <<"check">>, <<"notice">>,
                 <<"nodehint">>, <<"search">>, <<"<details>">>, <<"</details>">>}
    IN {x \o <<"lf">> \o y \o <<"lf">> \o z : x, y, z \in Line}
AllTexts == Repetitions \cup Controls \cup Reports
AllPasses == {"ansi", "cr", "boilerplate", "tests", "whitespace", "repeats"}
SmallLetters == {"a", "b"}

\* A shift by a collapse and then lines that are too few to collapse.
Shifted == {Repeat(x, m) \o Repeat(<<"a", "b">>, n) :
                x \in {<<"a", "a">>, <<"a", "a", "a", "a">>}, m, n \in 1..5}

allVars == <<scene, history, sent, pruned, given, category, pass, buf, w, r, last, repeats>>
PassesIdle == /\ given = <<>> /\ category = "generic" /\ pass = "done" /\ buf = <<>>
              /\ w = 0 /\ r = 0 /\ last = <<1, 0>> /\ repeats = 1

MCInit == Init /\ (scene # Nothing => PassesIdle) /\ (scene = Nothing => Passes!Init)
MCNext == \/ scene # Nothing /\ Next /\ UNCHANGED <<given, category, pass, buf, w, r, last, repeats>>
          \/ scene = Nothing /\ Passes!Next /\ UNCHANGED vars
MCSpec == MCInit /\ [][MCNext]_allVars

LinesKept == Passes!LinesKept
LinesVerbatim == Passes!LinesVerbatim

OnlyNothing == {Nothing}
=============================================================================
