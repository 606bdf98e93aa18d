----------------------------- MODULE Suppression -----------------------------
(* Noise-token suppression of a growing conversation (src/pkg/nts): before    *)
(* every request the daemon evicts superseded file reads, prunes the          *)
(* reasoning of past turns, compacts and deduplicates tool outputs and        *)
(* replaces unchanged reminder tables.  It keeps no state between requests:   *)
(* each one carries the whole history, and what a request sends is a          *)
(* function of that history and the settings.                                 *)
(*                                                                            *)
(* A text is a record: body names what it says, size its bytes, error the way *)
(* it can be told to be an error, noise whether the line passes (LinePasses)  *)
(* shorten it, table its REMINDERS table.  64-bit hashes do not collide here. *)
EXTENDS Integers, Sequences, FiniteSets, SequencesExt

CONSTANTS
    Scenes,       \* settings, and what the agent, its tools and its user say
    Cap,          \* messages the reasoning pass looks at (512)
    Files,        \* distinct files the stale-read scan remembers (256)
    CounterSize,  \* values of its read counters (256)
    LowWatermark, HighWatermark,  \* of the agent registry's catalogue
    None

ASSUME CapAssumption == Cap \in Nat \ {0}
ASSUME FilesAssumption == Files \in Nat \ {0}
ASSUME CounterAssumption == CounterSize \in Nat \ {0}
ASSUME WatermarkAssumption == LowWatermark \in Nat /\ HighWatermark \in Nat

VARIABLES
    scene,    \* the scene being played
    history,  \* the conversation as the agent holds it
    sent,     \* what the last request sent of it
    pruned    \* messages whose reasoning the last request pruned

vars == <<scene, history, sent, pruned>>

Larger(a, b) == IF a > b THEN a ELSE b
Options == scene.options

(****************************** Messages ************************************)

IsAssistant(m) == m.role = "assistant"
\* A tool result: a message of its own, or a block of a user message.
IsResult(m) == m.role \in {"tool", "block"}

\* The size of a thinking block, or of the whole text of any other part.
PartSize(p) == p.thought + p.words

\* How much reasoning an assistant message carries: its reasoning field, its
\* thinking blocks, and each text with an inline thought.
ReasoningSize(m) ==
    FoldLeft(LAMBDA n, p : IF p.thought > 0 THEN n + PartSize(p) ELSE n,
             m.field, m.parts)

HasReasoning(m) == m.field > 0 \/ \E i \in DOMAIN m.parts : m.parts[i].thought > 0

\* Error recognition of the reasoning pass: the flag, a signature of the
\* registry in any message, a universal prefix in a tool's output only.
IsToolErrorMessage(m) ==
    IF IsResult(m) THEN m.failed \/ m.text.error # "none"
    ELSE m.text.error = "signature"

\* Error recognition of eviction and deduplication.
IsToolError(text, failed) == failed \/ text.error # "none"

CallsOf(m) == IF IsAssistant(m) THEN m.calls ELSE <<>>

AllCalls(msgs) == FoldLeft(LAMBDA cs, m : cs \o CallsOf(m), <<>>, msgs)

\* The name of the tool a result answers, by the identifier of its call.
ToolOf(msgs, id) ==
    LET named == {c \in ToSet(AllCalls(msgs)) : c.id = id}
    IN IF named = {} THEN "unknown" ELSE (CHOOSE c \in named : TRUE).tool

CategorizeToolName(tool) ==
    CASE tool = "write" -> "file_write"
      [] tool = "read" -> "file_read"
      [] OTHER -> "generic"

(******************************* Stale reads ********************************)

\* The calls the scan collects: reads and writes that name a file.
FileCalls(msgs) == SelectSeq(AllCalls(msgs), LAMBDA c : c.tool \in {"read", "write"})

Counted(counts, key) == key \in DOMAIN counts
Count(counts, key) == (counts[key] + 1) % CounterSize
Remember(counts, key) ==
    CASE Counted(counts, key) -> [counts EXCEPT ![key] = Count(counts, key)]
      [] Cardinality(DOMAIN counts) < Files ->
            [k \in DOMAIN counts \cup {key} |-> IF k = key THEN 1 ELSE counts[k]]
      [] OTHER -> counts

Stale(scan, c) == [scan EXCEPT !.stale = @ \cup {c.id}]

\* Mutant: one write is remembered.
ScanLastWrite(scan, c) ==
    IF scan.writes # {} THEN scan ELSE [scan EXCEPT !.writes = {c.file}]

ScanWrite(scan, c) ==
    IF Cardinality(scan.writes \cup {c.file}) > Files THEN scan
    ELSE [scan EXCEPT !.writes = @ \cup {c.file}]

\* Mutant: the read that fills the depth is stale already.
ScanFullReadEarly(scan, c, depth) ==
    LET next == [scan EXCEPT !.full = Remember(@, c.file)]
    IN IF next.full[c.file] >= depth THEN Stale(next, c) ELSE next

\* A read of a whole file: stale beyond the depth most recent ones.
ScanFullRead(scan, c, depth) ==
    LET next == [scan EXCEPT !.full = Remember(@, c.file)]
    IN IF Counted(scan.full, c.file) /\ next.full[c.file] > depth
       THEN Stale(next, c) ELSE next

\* A read of some lines: stale, uncounted, once enough full reads follow it.
ScanRangedRead(scan, c, depth) ==
    LET key == <<c.file, c.range>>
        next == [scan EXCEPT !.ranged = Remember(@, key)]
    IN IF Counted(scan.full, c.file) /\ scan.full[c.file] >= depth
       THEN Stale(scan, c)
       ELSE IF Counted(scan.ranged, key) /\ next.ranged[key] > depth
       THEN Stale(next, c) ELSE next

\* Mutant: writes do not supersede reads.
ScanReadsOnly(scan, c, depth) ==
    CASE c.tool = "write" -> ScanWrite(scan, c)
      [] c.range = None -> ScanFullRead(scan, c, depth)
      [] OTHER -> ScanRangedRead(scan, c, depth)

ScanCall(scan, c, depth) ==
    CASE c.tool = "write" -> ScanWrite(scan, c)
      [] c.file \in scan.writes -> Stale(scan, c)
      [] c.range = None -> ScanFullRead(scan, c, depth)
      [] OTHER -> ScanRangedRead(scan, c, depth)

NothingSeen == [writes |-> {}, full |-> [f \in {} |-> 0],
                ranged |-> [f \in {} |-> 0], stale |-> {}]

\* Backwards over the calls, whatever their results were.
IdentifySupersededCalls(calls, depth) ==
    FoldRight(LAMBDA c, scan : ScanCall(scan, c, depth), calls, NothingSeen).stale

\* The default depth of the transformer, when the setting is not positive.
StaleReadDepth == IF Options.depth <= 0 THEN 3 ELSE Options.depth

IdentifyStaleToolCallIDs(msgs) ==
    LET calls == FileCalls(msgs)
    IN IF Len(calls) <= 1 THEN {} ELSE IdentifySupersededCalls(calls, StaleReadDepth)

(**************************** Past reasoning ********************************)

\* Mutant: a negative setting counts as zero.
NegativeKeepsNothing == Larger(Options.keep, 0)

\* keep_recent_reasoning_turns: a negative setting asks the agent's profile,
\* then the catalogue; only an explicit zero keeps none.
KeepTurns ==
    CASE Options.keep >= 0 -> Options.keep
      [] Options.keep < 0 /\ Options.retention > 0 -> Options.retention
      [] OTHER -> IF LowWatermark > 0 THEN LowWatermark ELSE 2

Assistants(msgs, n) == {i \in 1..n : IsAssistant(msgs[i])}

\* The candidates: every message with reasoning.
Reasoned(msgs, n) == {i \in Assistants(msgs, n) : HasReasoning(msgs[i])}

\* The kickoff anchor: the longest reasoning of the first turns, the first of
\* equally long ones; 0 when there is none.
Kickoff(msgs, n) ==
    LET early == {i \in Reasoned(msgs, n) :
                    /\ Cardinality(Assistants(msgs, i)) <= Options.scanTurns
                    /\ ReasoningSize(msgs[i]) >= Options.minKickoff}
        longest == {i \in early : \A j \in early :
                        ReasoningSize(msgs[j]) <= ReasoningSize(msgs[i])}
    IN IF ~Options.preserveKickoff \/ early = {} THEN 0
       ELSE CHOOSE i \in longest : \A j \in longest : i <= j

Weighty(msgs, n) ==
    {i \in Reasoned(msgs, n) : ReasoningSize(msgs[i]) >= Options.minSubstantial}

\* The turns that count against the budget: the weighty ones, or all of them
\* when none is.
Substantial(msgs, n) ==
    IF Weighty(msgs, n) = {} THEN Reasoned(msgs, n) ELSE Weighty(msgs, n)

\* How many turns are said to count: without a weighty one, all assistant
\* turns, those without reasoning included.
TotalSubstantial(msgs, n) ==
    LET total == CASE Weighty(msgs, n) # {} -> Cardinality(Weighty(msgs, n))
                   [] Reasoned(msgs, n) # {} -> Cardinality(Assistants(msgs, n))
                   [] OTHER -> 0
    IN IF Kickoff(msgs, n) \in Substantial(msgs, n) THEN total - 1 ELSE total

\* Some message between an assistant turn and the one before it is an error.
PrecededByToolError(msgs, i) ==
    \E j \in 1..(i - 1) :
        /\ ~IsAssistant(msgs[j]) /\ IsToolErrorMessage(msgs[j])
        /\ \A k \in (j + 1)..(i - 1) : ~IsAssistant(msgs[k])

\* Mutant: a turn that answers an error ends the tail.
TailStopsAtError(msgs, tail, i) ==
    LET m == msgs[i] IN
    CASE tail.done -> tail
      [] ~IsAssistant(m) ->
            [tail EXCEPT !.tool = TRUE, !.failing = @ \/ IsToolErrorMessage(m)]
      [] OTHER -> [tail EXCEPT !.done = TRUE,
                               !.setup = IF tail.failing THEN {i} ELSE {}]

\* Mutant: a failing tail reaches back to the beginning.
TailNeverSettles(msgs, tail, i) ==
    LET m == msgs[i] IN
    CASE tail.done -> tail
      [] ~IsAssistant(m) ->
            [tail EXCEPT !.tool = TRUE, !.failing = @ \/ IsToolErrorMessage(m)]
      [] tail.failing -> [tail EXCEPT !.streak = @ \cup {i}]
      [] OTHER -> [tail EXCEPT !.done = TRUE]

\* The tail of the history, backwards: while it is failing, the turns that
\* answer an error (streak) and the turn before them (setup).
TailStep(msgs, tail, i) ==
    LET m == msgs[i] IN
    CASE tail.done -> tail
      [] ~IsAssistant(m) ->
            [tail EXCEPT !.tool = TRUE, !.failing = @ \/ IsToolErrorMessage(m)]
      [] tail.tool /\ ~tail.failing -> [tail EXCEPT !.done = TRUE]
      [] PrecededByToolError(msgs, i) ->
            [tail EXCEPT !.failing = TRUE, !.streak = @ \cup {i}]
      [] OTHER -> [tail EXCEPT !.done = TRUE,
                               !.setup = IF tail.failing THEN {i} ELSE {}]

FailingTail(msgs, n) ==
    LET clean == [tool |-> FALSE, failing |-> FALSE, done |-> FALSE,
                  streak |-> {}, setup |-> {}]
    IN IF ~Options.freeze THEN clean
       ELSE FoldRight(LAMBDA i, tail : TailStep(msgs, tail, i),
                      [i \in 1..n |-> i], clean)

\* The length of the cycle of a hysteresis window.
HysteresisStep ==
    IF HighWatermark - LowWatermark <= 0 THEN 4 ELSE HighWatermark - LowWatermark

\* Mutant: one step is pruned, however many are due.
BudgetOneStep(effective) ==
    IF ~Options.hysteresis THEN KeepTurns ELSE effective - HysteresisStep

RemainingBudget(effective) ==
    IF ~Options.hysteresis THEN KeepTurns
    ELSE effective - ((effective - KeepTurns) \div HysteresisStep) * HysteresisStep

\* Mutant: every message costs.
SpareMessages(acc, i, counted, kickoff) ==
    IF acc.budget <= 0 THEN acc
    ELSE [prune |-> acc.prune \ {i}, budget |-> acc.budget - 1]

\* Backwards, while the budget lasts: a turn is spared; a counted one costs.
SpareStep(acc, i, counted, kickoff) ==
    IF acc.budget <= 0 THEN acc
    ELSE [prune |-> acc.prune \ {i},
          budget |-> IF i \in counted /\ (i \in acc.prune \/ i # kickoff)
                     THEN acc.budget - 1 ELSE acc.budget]

\* The messages whose reasoning a request prunes.
IdentifyHistoricalReasoningIndices(msgs) ==
    LET n == IF Len(msgs) > Cap THEN Cap ELSE Len(msgs)
        kickoff == Kickoff(msgs, n)
        tail == FailingTail(msgs, n)
        counted == Substantial(msgs, n) \ tail.streak
        lost == Cardinality((Substantial(msgs, n) \cap tail.streak) \ {kickoff})
        effective == Larger(TotalSubstantial(msgs, n) - lost, 0)
        candidates == Reasoned(msgs, n) \ ({kickoff} \cup tail.streak \cup tail.setup)
    IN IF ~Options.strip THEN {}
       ELSE IF KeepTurns = 0 THEN Reasoned(msgs, n)
       ELSE IF Options.hysteresis /\ effective < KeepTurns + HysteresisStep THEN {}
       ELSE FoldRight(LAMBDA i, acc : SpareStep(acc, i, counted, kickoff),
                      [i \in 1..n |-> i],
                      [prune |-> candidates,
                       budget |-> RemainingBudget(effective)]).prune

\* DefaultSilentTurnMessage.
SilentTurn == [type |-> "text", words |-> 1, thought |-> 0, cache |-> FALSE]

StripInlineThinking(p) == [p EXCEPT !.thought = 0]

\* Mutant: the cache mark of a thinking block goes with it.
PruneBlocksAndMark(m) ==
    LET left == SelectSeq(m.parts, LAMBDA p : p.type = "text")
        kept == [i \in DOMAIN left |-> StripInlineThinking(left[i])]
    IN IF kept # <<>> \/ m.calls # <<>> THEN [m EXCEPT !.parts = kept]
       ELSE [m EXCEPT !.parts = <<SilentTurn>>]

\* Content blocks: thinking goes, its cache mark moves to the first block left,
\* (a call is a block as well), and a message left without a block says it
\* proceeds.  Text that was all inline thinking stays, empty.
PruneBlocks(m) ==
    LET thoughts == SelectSeq(m.parts, LAMBDA p : p.type = "thinking")
        left == SelectSeq(m.parts, LAMBDA p : p.type = "text")
        kept == [i \in DOMAIN left |-> StripInlineThinking(left[i])]
        mark == /\ Options.preserveCache
                /\ \E i \in DOMAIN thoughts : thoughts[i].cache
    IN CASE m.parts = <<>> -> m
         [] kept # <<>> -> [m EXCEPT !.parts = [kept EXCEPT ![1].cache = @ \/ mark]]
         [] m.calls # <<>> -> [m EXCEPT !.parts = <<>>, !.mark = @ \/ mark]
         [] OTHER -> [m EXCEPT !.parts = <<[SilentTurn EXCEPT !.cache = mark]>>]

\* Mutant: an emptied string stays empty.
PruneStringOnly(m) ==
    IF m.parts = <<>> THEN m
    ELSE IF m.parts[1].words > 0
    THEN [m EXCEPT !.parts = <<StripInlineThinking(m.parts[1])>>]
    ELSE [m EXCEPT !.parts = <<>>]

\* A string of content: emptied, it says it proceeds unless calls follow it.  A
\* string that was empty before stays as it is.
PruneString(m) ==
    IF m.parts = <<>> \/ m.parts[1].thought = 0 THEN m
    ELSE IF m.parts[1].words > 0
    THEN [m EXCEPT !.parts = <<StripInlineThinking(m.parts[1])>>]
    ELSE [m EXCEPT !.parts = IF m.calls = <<>> THEN <<SilentTurn>> ELSE <<>>]

PruneAssistantReasoning(m) ==
    LET bare == [m EXCEPT !.field = 0]
    IN CASE m.content = "list" -> PruneBlocks(bare)
         [] m.content = "string" -> PruneString(bare)
         [] m.calls = <<>> /\ m.field > 0 ->
                [bare EXCEPT !.content = "string", !.parts = <<SilentTurn>>]
         [] OTHER -> bare

(****************************** Tool outputs ********************************)

Notice(body, size) ==
    [body |-> body, size |-> size, error |-> "none", noise |-> FALSE, table |-> None]
StaleFileReadNotice == Notice("evicted", 1)
DuplicateNotice == Notice("duplicate", 1)

\* The line passes leave the output of file tools alone.
CompactToolContent(text, category) ==
    IF category = "generic" /\ text.noise
    THEN [text EXCEPT !.noise = FALSE, !.size = @ - 1] ELSE text

\* Mutant: errors are evicted as well.
EvictErrorsToo(m, stale, marked) ==
    m.id \in stale /\ ~(Options.preserveCache /\ marked)

\* Eviction spares errors and marked results.
TryEvictStaleRead(m, stale, marked) ==
    /\ m.id \in stale
    /\ ~(Options.preserveCache /\ marked)
    /\ ~IsToolError(m.text, m.failed)

\* What passes from message to message while a request is transformed.
Fresh == [out |-> <<>>, seen |-> {}, table |-> None, since |-> 0]

Emit(acc, m) == [acc EXCEPT !.out = Append(@, m)]

\* Mutant: outputs of every tool are candidates.
EmitAnyTool(acc, m, tool) ==
    IF /\ Options.dedup /\ m.text.size >= Options.minBytes
       /\ ~IsToolError(m.text, m.failed)
    THEN IF m.text \in acc.seen THEN Emit(acc, [m EXCEPT !.text = DuplicateNotice])
         ELSE Emit([acc EXCEPT !.seen = @ \cup {m.text}], m)
    ELSE Emit(acc, m)

\* Deduplicate: the second of two identical outputs of generic tools.
EmitResult(acc, m, tool) ==
    IF /\ Options.dedup /\ tool # "unknown"
       /\ CategorizeToolName(tool) = "generic"
       /\ m.text.size >= Options.minBytes
       /\ ~IsToolError(m.text, m.failed)
    THEN IF m.text \in acc.seen THEN Emit(acc, [m EXCEPT !.text = DuplicateNotice])
         ELSE Emit([acc EXCEPT !.seen = @ \cup {m.text}], m)
    ELSE Emit(acc, m)

\* The interval after which a full table is sent again.
RefreshInterval == IF Options.refresh <= 0 THEN 10 ELSE Options.refresh

\* CompactReminders: whether a table is the one sent last.
Unchanged(acc, text) ==
    /\ text.table # None
    /\ acc.table = text.table
    /\ acc.since < RefreshInterval

CompactReminders(acc, text) ==
    IF Unchanged(acc, text) THEN [text EXCEPT !.table = "unchanged"] ELSE text

\* Mutant: the first table stays the one that is compared with.
SeeFirstTable(acc, text) ==
    CASE text.table = None -> acc
      [] Unchanged(acc, text) -> [acc EXCEPT !.since = @ + 1]
      [] OTHER -> [acc EXCEPT !.since = 1,
                              !.table = IF @ = None THEN text.table ELSE @]

SeeTable(acc, text) ==
    CASE text.table = None -> acc
      [] Unchanged(acc, text) -> [acc EXCEPT !.since = @ + 1]
      [] OTHER -> [acc EXCEPT !.table = text.table, !.since = 1]

\* Reminder tables are compacted in user messages and in result blocks; a tool
\* message is left with its table.
RemindersStep(acc, m) ==
    IF Options.reminders /\ m.role \in {"user", "block"}
    THEN <<SeeTable(acc, m.text), [m EXCEPT !.text = CompactReminders(acc, @)]>>
    ELSE <<acc, m>>

ResultStep(acc, m, msgs, stale, marked) ==
    LET tool == ToolOf(msgs, m.id)
        r == RemindersStep(acc, m)
        compacted == [r[2] EXCEPT
                        !.text = CompactToolContent(@, CategorizeToolName(tool))]
    IN IF TryEvictStaleRead(r[2], stale, marked)
       THEN Emit(r[1], [m EXCEPT !.text = StaleFileReadNotice])
       ELSE EmitResult(r[1], compacted, tool)

\* processMessages; the agent marks its last message for the provider's cache
\* when it uses one.
ProcessMessages(msgs) ==
    LET stale == IF Options.stale THEN IdentifyStaleToolCallIDs(msgs) ELSE {}
        prune == IdentifyHistoricalReasoningIndices(msgs)
        Step(acc, i) ==
            LET m == msgs[i] IN
            CASE IsAssistant(m) ->
                    Emit(acc, IF i \in prune THEN PruneAssistantReasoning(m) ELSE m)
              [] IsResult(m) ->
                    ResultStep(acc, m, msgs, stale, scene.caching /\ i = Len(msgs))
              [] OTHER -> LET r == RemindersStep(acc, m) IN Emit(r[1], r[2])
    IN FoldLeft(Step, Fresh, [i \in DOMAIN msgs |-> i]).out

(******************************* Conversation *******************************)

Answered == {history[i].id : i \in {j \in DOMAIN history : IsResult(history[j])}}
Pending == SelectSeq(AllCalls(history), LAMBDA c : c.id \notin Answered)

Room == Len(history) < scene.length

Request(msgs) ==
    /\ sent' = ProcessMessages(msgs)
    /\ pruned' = IdentifyHistoricalReasoningIndices(msgs)

Init ==
    /\ scene \in Scenes
    /\ history = <<>>
    /\ sent = <<>>
    /\ pruned = {}

\* The model answers the last request; its calls get fresh identifiers.
Answer ==
    /\ Room
    /\ history # <<>> => ~IsAssistant(Last(history))
    /\ Pending = <<>>
    /\ \E m \in scene.answers :
         LET named == [i \in DOMAIN m.calls |->
                         [id |-> <<Len(history) + 1, i>>, tool |-> m.calls[i].tool,
                          file |-> m.calls[i].file, range |-> m.calls[i].range]]
         IN history' = Append(history, [m EXCEPT !.calls = named])
    /\ UNCHANGED <<scene, sent, pruned>>

\* The agent has run the next call; with the last result it asks again.
Result ==
    /\ Pending # <<>>
    /\ \E r \in scene.results :
         LET m == [role |-> r.role, id |-> Pending[1].id, text |-> r.text,
                   failed |-> r.failed]
         IN /\ history' = Append(history, m)
            /\ IF Len(Pending) = 1 THEN Request(history')
               ELSE UNCHANGED <<sent, pruned>>
    /\ UNCHANGED scene

\* The user speaks.
Prompt ==
    /\ Room
    /\ Pending = <<>>
    /\ \E text \in scene.prompts :
         history' = Append(history, [role |-> "user", text |-> text])
    /\ Request(history')
    /\ UNCHANGED scene

Next == Answer \/ Result \/ Prompt

Spec == Init /\ [][Next]_vars
(******************************** Properties ********************************)

Positions == DOMAIN sent
Results == {i \in Positions : IsResult(history[i])}
Turns == {i \in Positions : IsAssistant(history[i])}
Asked == SubSeq(history, 1, Len(sent))

CallAnswered(i) == CHOOSE c \in ToSet(AllCalls(Asked)) : c.id = history[i].id
\* The calls of the history after the one message i answers, same file only.
Later(i) ==
    LET calls == FileCalls(Asked)
        me == CHOOSE k \in DOMAIN calls : calls[k].id = history[i].id
    IN {k \in DOMAIN calls : k > me /\ calls[k].file = calls[me].file}
IsRead(i) == CallAnswered(i).tool = "read"
LaterWrite(i) == \E k \in Later(i) : FileCalls(Asked)[k].tool = "write"
EvictedResults == {i \in Results : sent[i].text.body = "evicted"}

\* Types: a request sends one message for each it was given, and prunes
\* assistant turns only.
TypeOK ==
    /\ scene \in Scenes
    /\ Len(sent) <= Len(history)
    /\ \A i \in Positions : sent[i].role = history[i].role
    /\ pruned \subseteq Turns

\* The most recent reads of a file that was not written since, as many as the
\* setting keeps, are sent word for word, but for a reminder table.
RecentReadsKept ==
    \A i \in Results :
        /\ IsRead(i) /\ ~LaterWrite(i) /\ Cardinality(Later(i)) < StaleReadDepth
        => [sent[i].text EXCEPT !.table = history[i].text.table] = history[i].text

\* Of one file, no more whole reads are sent than the setting keeps, errors and
\* the marked result aside; before a write, none.
StaleReadsGone ==
    LET Sent(f) == {i \in Results \ EvictedResults :
                      /\ IsRead(i) /\ CallAnswered(i).file = f
                      /\ CallAnswered(i).range = None
                      /\ ~IsToolError(history[i].text, history[i].failed)
                      /\ i # Len(sent)}
    IN Options.stale =>
        \A i \in Results : IsRead(i) =>
            LET kept == Sent(CallAnswered(i).file) IN
            /\ Cardinality(kept) <= StaleReadDepth
            /\ \A j \in kept : ~LaterWrite(j)

\* A failure is neither evicted nor replaced by a reference to another one.
ErrorsKept ==
    \A i \in Results :
        IsToolError(history[i].text, history[i].failed)
            => sent[i].text.body = history[i].text.body

\* What the model reads of a file is current (stale_reads.go): the most recent
\* reads reach it whole, those that a later read or write supersedes are gone
\* from every shape of conversation, and a failure stays visible.
ReadsCurrent == TypeOK /\ RecentReadsKept /\ StaleReadsGone /\ ErrorsKept

\* A duplicate has its output above it, sent in full; a table in it aside.
DuplicateHasOriginal ==
    \A i \in Results : sent[i].text.body = "duplicate" =>
        \E j \in Results :
            /\ j < i
            /\ sent[j].text.body = history[i].text.body
            /\ ~IsRead(j)

\* The last table sent in full above the notice is the one it stands for, of
\* the tables compaction reads; unless a result that held this one and came
\* after it was evicted or replaced, and the notice is left without a table.
UnchangedHasTable ==
    LET Tables(i) == {j \in 1..(i - 1) : /\ history[j].role \in {"user", "block"}
                                         /\ history[j].text.table # None}
        Full(i) == {j \in Tables(i) : sent[j].text.table = history[j].text.table}
        Gone(i) == {j \in Tables(i) :
                       /\ sent[j].text.body \in {"evicted", "duplicate"}
                       /\ history[j].text.table = history[i].text.table}
    IN \A i \in Positions \ Turns : sent[i].text.table = "unchanged" =>
        \E j \in Full(i) \cup Gone(i) :
            /\ history[j].text.table = history[i].text.table
            /\ \A k \in Full(i) : k <= j

\* Every reference resolves: "identical to the output above" (dedup_tools.go)
\* and "same as the last full list above" (reminders.go) name something the
\* model is sent in this very request, after evictions and compactions.  The
\* exceptions of the code are those the two conjuncts name: a table that left
\* with the result that held it, and tables in outputs that are duplicates.
ReferencesResolve == DuplicateHasOriginal /\ UnchangedHasTable

\* While the tail of the history is failing, no turn of the failing run loses
\* its reasoning: not the retries, and not the turn that led to them.
RetryContextKept ==
    LET LastTurn == CHOOSE i \in Turns : \A j \in Turns : j <= i
        failing == Turns # {} /\ \E i \in Positions :
                        i > LastTurn /\ IsToolErrorMessage(history[i])
        run == {i \in Turns : \A j \in Turns :
                    j > i => PrecededByToolError(history, j)}
    IN (failing /\ Options.freeze /\ Options.keep # 0 /\ Len(sent) <= Cap)
            => run \cap pruned = {}

\* The most recent turns with weighty reasoning keep it, and the kickoff plan
\* with them.
RecentReasoningKept ==
    LET weighty == Weighty(Asked, Len(sent))
        recent == {i \in weighty : Cardinality({j \in weighty : j > i}) < KeepTurns}
    IN (Options.keep # 0 /\ Len(sent) <= Cap)
            => pruned \cap (recent \cup {Kickoff(Asked, Len(sent))}) = {}

\* Apart from the kickoff and a failing tail, the weighty turns that keep their
\* reasoning are bounded by the window or by the watermark of the hysteresis.
ReasoningBounded ==
    LET n == Len(sent)
        tail == FailingTail(Asked, n)
        spared == Weighty(Asked, n)
                    \ (pruned \cup tail.streak \cup tail.setup \cup {Kickoff(Asked, n)})
    IN (Options.strip /\ n <= Cap) =>
        Cardinality(spared) <= KeepTurns +
            (IF Options.hysteresis /\ KeepTurns > 0 THEN HysteresisStep - 1 ELSE 0)

\* Reasoning goes by age and stays where it is needed (transformer.go): it does
\* not pile up, the recent turns and the kickoff plan keep theirs, and so does
\* every turn of a run of failing retries.  Only an explicit setting of zero
\* turns strips them too.
ReasoningWhereNeeded == RetryContextKept /\ RecentReasoningKept /\ ReasoningBounded

\* Pruning takes reasoning and nothing else (transformer.go): the words, the
\* calls and the cache marks of a turn are all sent, and a turn that lost its
\* reasoning still has a call or something to say, with no empty text block
\* ("content cannot be empty") -- but for the two shapes the code leaves empty:
\* an empty string or list beside a reasoning field, without a call, and a text
\* block that was inline thinking only.
TurnsIntact ==
    LET Words(m) == FoldLeft(LAMBDA n, p : n + p.words, 0, m.parts)
        Marked(m) == m.mark \/ \E k \in DOMAIN m.parts : m.parts[k].cache
        EmptyText(p) == p.type = "text" /\ p.words = 0
        Voiceless(m) == m.parts = <<>> /\ m.calls = <<>>
    IN /\ \A i \in Turns :
            /\ sent[i].calls = history[i].calls
            /\ Words(sent[i]) >= Words(history[i])
            /\ (Options.preserveCache /\ Marked(history[i])) => Marked(sent[i])
       /\ \A i \in pruned :
            /\ Voiceless(sent[i]) =>
                 Voiceless(history[i]) /\ history[i].content # "none"
            /\ (\E p \in ToSet(sent[i].parts) : EmptyText(p)) =>
                 \E p \in ToSet(history[i].parts) :
                    EmptyText(p) /\ history[i].content = "list"

\* The prefix a provider has cached is not rewritten back: a read that was
\* evicted stays evicted in every later request, and reasoning that was pruned
\* stays pruned, once a turn has been weighty enough to count.
VerdictsStay ==
    [][/\ EvictedResults \subseteq EvictedResults'
       /\ Weighty(Asked, Len(sent)) # {} => pruned \subseteq pruned']_vars
=============================================================================
