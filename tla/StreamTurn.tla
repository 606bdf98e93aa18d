------------------------------ MODULE StreamTurn ------------------------------
(***************************************************************************)
(* One streaming answer on its way to the client: the stream normalizer    *)
(* (pkg/server/stream_normalizer.go), the peek and the relay of            *)
(* handleStreaming (dispatch_stream.go) and the recovery streams of a      *)
(* thought slap (thought_slap.go).                                         *)
(*                                                                         *)
(* A line of the upstream is a Line, by what the normalizer tells apart: a *)
(* data chunk may join reasoning, text, a tool call, a finish_reason and   *)
(* usage.  Read is two steps, ReadLine (processLine) and one of the        *)
(* deliveries, because the caller looks at the cycle breaker in between.   *)
(* Which calls lead here, and what a stream handed to another tier costs,  *)
(* is in Dispatch; how n-grams are counted is left open: any delta may     *)
(* complete a loop.                                                        *)
(***************************************************************************)
EXTENDS Naturals, Sequences

CONSTANTS
  MaxPeek,       \* bound: events in the 2048 bytes of the peek
  MaxAttempts,   \* thought_slap.max_attempts
  MaxTurnCalls,  \* maxGlobalTurnCalls
  TurnRetries,   \* cycle retries a turn may have behind it
  Lines          \* the lines an upstream may send

Finishes == {"stop", "length"}
Partial == {"lt", "tag"}

(***************************************************************************)
(* A line by what processLine reads in it.  In a chunk: the reasoning and  *)
(* the text of its delta ("lt": no more than a "<", "tag": no more than    *)
(* another beginning of a delimiter; both are kept back), whether it       *)
(* carries a tool call, a finish_reason and usage.  Text that follows      *)
(* reasoning in one chunk is not looked through for delimiters.            *)
(***************************************************************************)
Line == [kind : {"comment", "prelude", "done", "chunk"},
         reason : {"none", "text"} \cup Partial,
         text : {"none", "prose", "blank"} \cup Partial,
         tool : BOOLEAN, finish : {"none"} \cup Finishes, usage : BOOLEAN]

ASSUME LimitsAssumption ==
    /\ MaxPeek \in Nat /\ MaxAttempts \in Nat /\ MaxTurnCalls \in Nat
    /\ TurnRetries \subseteq Nat

ASSUME LinesAssumption ==
    /\ Lines \subseteq Line
    /\ \A l \in Lines :
         /\ l.kind # "chunk" => /\ l.reason = "none" /\ l.text = "none"
                               /\ ~l.tool /\ l.finish = "none" /\ ~l.usage
         /\ l.reason # "none" => l.text \notin Partial

VARIABLES
  turn,      \* what the request and the tier decide, see Turns
  phase,     \* position of handleStreaming
  norm,      \* the normalizer being read: the first, or the last recovery
  held,      \* the terminal the slap answers is still held
  peek,      \* events peeked before the response head was sent
  attempts,  \* thought slaps sent
  notices,   \* thought slap notices sent
  outcome,   \* how the slaps ended
  client,    \* what the client has been sent
  unclosed,  \* normalizers (0: the first) that hold pooled buffers
  reported,  \* streams whose upstream reported its usage
  tallied    \* streams whose usage is in the turn's total

vars == <<turn, phase, norm, held, peek, attempts, notices, outcome, client,
          unclosed, reported, tallied>>

Turns == [slap : BOOLEAN, raw : BOOLEAN, shield : BOOLEAN, killer : BOOLEAN,
          fallback : BOOLEAN, local : BOOLEAN, retries : TurnRetries]

Events == {"chunk", "speech", "finish", "notice", "done"}
Phases == {"peek", "judge", "relay", "after", "slap", "wait", "rescue",
           "verdict", "handed", "closed"}
Recovered == {"tool_call", "content"}
Outcomes == Recovered \cup {"exhausted", "upstream_error", "cancelled"}
Reading == {"peek", "relay", "rescue"}

NewNormalizer(defer, suppress) ==
  [content |-> FALSE, nonblank |-> FALSE, tools |-> FALSE, native |-> FALSE,
   thinking |-> FALSE, pending |-> "none", finish |-> "none",
   held |-> FALSE, out |-> <<>>, done |-> FALSE, ended |-> "no",
   violated |-> FALSE, usage |-> FALSE, defer |-> defer,
   prelude |-> suppress]

Silence == [said |-> FALSE, over |-> FALSE, done |-> FALSE, late |-> FALSE]

(* Mutant: content does not count. *)
TruncatedByReason(n) == n.finish = "length" /\ ~n.tools

IsEmptyTruncatedTurn(n) == n.finish = "length" /\ ~n.tools /\ ~n.nonblank

Truncated(n) == n.held /\ IsEmptyTruncatedTurn(n) /\ n.defer

Put(n, events) == [n EXCEPT !.out = @ \o events]

(***************************************************************************)
(* What the record* methods note of a delta; trips is the verdict of the   *)
(* cycle breaker, if one is attached.                                      *)
(***************************************************************************)
Observe(n, trips) == [n EXCEPT !.violated = @ \/ trips]

RecordProse(n, visible, trips) ==
  [Observe(n, trips) EXCEPT !.content = TRUE, !.nonblank = @ \/ visible]

RecordTool(n, trips) == [Observe(n, trips) EXCEPT !.tools = TRUE]

(***************************************************************************)
(* A pending part of a delimiter is dropped when it is a known one, or     *)
(* when the turn ends in a tool call; a lone "<" was text after all.       *)
(***************************************************************************)
FlushPendingDelimiter(n, skipIfToolCalls, trips) ==
  LET text == n.pending = "lt" /\ ~(skipIfToolCalls /\ n.tools)
      clear == [n EXCEPT !.pending = "none"]
  IN CASE text /\ n.thinking -> Put(Observe(clear, trips), <<"chunk">>)
       [] text /\ ~n.thinking ->
            Put(RecordProse(clear, TRUE, trips), <<"speech">>)
       [] OTHER -> clear

FlushHeldTerminal(n) ==
  IF ~n.held \/ Truncated(n) THEN n
  ELSE Put([n EXCEPT !.held = FALSE],
           IF IsEmptyTruncatedTurn(n) THEN <<"notice", "finish">>
           ELSE <<"finish">>)

(* Mutant: the early return of a deferred terminal is missing. *)
DoneRegardless(n, trips, synthesize) ==
  LET flushed == [FlushPendingDelimiter(n, TRUE, trips)
                    EXCEPT !.thinking = FALSE, !.done = TRUE]
  IN Put(FlushHeldTerminal(flushed), <<"done">>)

(* Mutant: flushHeldTerminal reports a terminal it has written as held. *)
DoneSwallowed(n, trips, synthesize) ==
  LET flushed == [FlushPendingDelimiter(n, TRUE, trips)
                    EXCEPT !.thinking = FALSE, !.done = TRUE]
  IN IF flushed.held THEN FlushHeldTerminal(flushed)
     ELSE Put(flushed, <<"done">>)

(* [DONE]: flush, synthesize a tool call from the prose, let go of the     *)
(* terminal; a deferred terminal keeps [DONE] back with it.                *)
HandleDone(n, trips, synthesize) ==
  LET flushed == [FlushPendingDelimiter(n, TRUE, trips)
                    EXCEPT !.thinking = FALSE, !.done = TRUE]
      called == IF synthesize
                THEN Put([flushed EXCEPT !.tools = TRUE],
                         <<"speech", "finish">>)
                ELSE flushed
  IN IF Truncated(called) THEN FlushHeldTerminal(called)
     ELSE Put(FlushHeldTerminal(called), <<"done">>)

(* What a chunk is written as, by whether its delta shows the client text. *)
Written(line, speaks) ==
  LET parts == (IF line.tool \/ speaks THEN <<"speech">> ELSE <<>>)
                 \o (IF line.finish # "none" THEN <<"finish">> ELSE <<>>)
  IN IF parts = <<>> THEN <<"chunk">> ELSE parts

(* Mutant: a finish_reason in a chunk of reasoning is written, and held.   *)
FinishTwice(n, line, trips) ==
  Put([Observe(n, trips) EXCEPT !.thinking = TRUE, !.pending = "none",
                                !.held = line.finish # "none"],
      Written(line, line.text = "prose"))

(* Reasoning takes what is pending along; the text beside it is recorded.  *)
ReasonPart(n, line, trips) ==
  LET thought == [Observe(n, trips) EXCEPT
                    !.thinking = TRUE,
                    !.pending = IF line.reason = "text" THEN "none"
                                ELSE line.reason]
  IN Put(IF line.text = "none" THEN thought
         ELSE RecordProse(thought, line.text = "prose", trips),
         Written(line, line.text = "prose"))

(* A content delta ends structured reasoning and completes what was        *)
(* pending; one that is only the beginning of a delimiter records nothing. *)
ContentPart(n, line, trips) ==
  LET whole == n.pending # "none"  \* pending text precedes the delta
      joined == [n EXCEPT !.thinking = FALSE,
                          !.pending = IF line.text \in Partial THEN line.text
                                      ELSE "none"]
  IN IF line.text \in Partial /\ ~whole THEN Put(joined, Written(line, FALSE))
     ELSE Put(RecordProse(joined, whole \/ line.text = "prose", trips),
              Written(line, whole \/ line.text = "prose"))

(* A finish_reason that comes alone, before any text or tool call, is      *)
(* held, with everything that follows it but [DONE]; one that shares its   *)
(* chunk with reasoning or text is written with it.                        *)
ChunkPart(n, line, trips) ==
  LET ended == IF line.finish = "none" THEN n
               ELSE [n EXCEPT !.finish = line.finish]
      called == IF line.tool
                THEN [RecordTool(ended, trips) EXCEPT !.pending = "none"]
                ELSE ended
  IN CASE line.reason # "none" -> ReasonPart(called, line, trips)
       [] line.reason = "none" /\ line.text # "none" ->
            ContentPart(called, line, trips)
       [] OTHER ->
            IF line.finish # "none" /\ ~called.content /\ ~called.tools
            THEN [called EXCEPT !.held = TRUE]
            ELSE Put(called, Written(line, FALSE))

(* Mutant: the usage of a chunk that is held back is not captured. *)
UsageAfterHold(n, line, trips) ==
  IF n.held THEN n
  ELSE ChunkPart([n EXCEPT !.prelude = FALSE,
                           !.native = @ \/ line.tool,
                           !.usage = @ \/ line.usage], line, trips)

DataLine(n, line, trips) ==
  LET m == [n EXCEPT !.prelude = FALSE,
                     !.native = @ \/ line.tool,
                     !.usage = @ \/ line.usage]
  IN CASE n.prelude /\ line.kind = "prelude" -> [n EXCEPT !.prelude = FALSE]
       [] n.held -> m
       [] OTHER -> ChunkPart(m, line, trips)

ProcessLine(n, line, trips, synthesize) ==
  CASE turn.raw -> Put([n EXCEPT !.done = @ \/ line.kind = "done"],
                       IF line.kind = "done" THEN <<"done">>
                       ELSE Written(line, line.text # "none"))
    [] ~turn.raw /\ line.kind = "comment" ->
         IF n.held THEN n ELSE Put(n, <<"chunk">>)
    [] ~turn.raw /\ line.kind = "done" -> HandleDone(n, trips, synthesize)
    [] OTHER -> DataLine(n, line, trips)

(***************************************************************************)
(* The client after a write.                                               *)
(***************************************************************************)
Sent(c, events) ==
  LET At(e) == {i \in DOMAIN events : events[i] = e}
  IN [said |-> c.said \/ At("speech") # {},
      over |-> c.over \/ At("finish") # {},
      done |-> c.done \/ At("done") # {},
      late |-> \/ c.late
               \/ c.done /\ events # <<>>
               \/ \E i \in At("done") : i < Len(events)]

StreamId == IF phase = "rescue" THEN attempts + 1 ELSE 0

(* The upstream sends a line and the normalizer processes it.  [DONE] is   *)
(* its last line, and it gives one finish_reason at most.                  *)
(***************************************************************************)
Recorded(n, line) ==
  \/ line.tool \/ line.reason = "text" \/ line.text \in {"prose", "blank"}
  \/ line.kind = "done" /\ n.pending = "lt"
  \/ (line.reason # "none" \/ line.text # "none") /\ n.pending # "none"

ReadLine(line, trips, synthesize) ==
  /\ phase \in Reading
  /\ norm.out = <<>> /\ norm.ended = "no" /\ ~norm.done
  /\ line.finish # "none" => norm.finish = "none"
  /\ trips => turn.killer /\ ~turn.raw /\ Recorded(norm, line)
  /\ synthesize =>
       /\ turn.shield /\ phase # "rescue"
       /\ line.kind = "done" /\ ~norm.native
       /\ norm.content \/ norm.pending = "lt"
  /\ norm' = ProcessLine(norm, line, trips, synthesize)
  /\ reported' = IF line.usage THEN reported \cup {StreamId} ELSE reported
  /\ UNCHANGED <<turn, phase, held, peek, attempts, notices, outcome, client,
                 unclosed, tallied>>

(* The end of the upstream: what is pending is flushed, a deferred terminal
   stays. *)
ReadEnd(trips) ==
  /\ phase \in Reading
  /\ norm.out = <<>> /\ norm.ended = "no"
  /\ trips => turn.killer /\ ~turn.raw /\ norm.pending = "lt" /\ ~norm.done
  /\ norm' = FlushHeldTerminal(
               [FlushPendingDelimiter(norm, FALSE, trips)
                  EXCEPT !.thinking = FALSE, !.ended = "eof"])
  /\ UNCHANGED <<turn, phase, held, peek, attempts, notices, outcome, client,
                 unclosed, reported, tallied>>

(* The connection breaks: nothing is flushed. *)
ReadError ==
  /\ phase \in Reading
  /\ norm.out = <<>> /\ norm.ended = "no"
  /\ norm' = [norm EXCEPT !.ended = "error"]
  /\ UNCHANGED <<turn, phase, held, peek, attempts, notices, outcome, client,
                 unclosed, reported, tallied>>

Returned == norm.out # <<>> \/ norm.ended # "no"
Drained == [norm EXCEPT !.out = <<>>]
AtEnd == norm.ended # "no"

(***************************************************************************)
(* The peek: up to 2048 bytes, or the end, or a cycle.                     *)
(***************************************************************************)
Peek ==
  /\ phase = "peek" /\ Returned
  /\ peek' = peek \o norm.out
  /\ norm' = Drained
  /\ phase' \in IF AtEnd \/ norm.violated \/ Len(peek') >= MaxPeek
                THEN {"judge"}
                ELSE IF peek' = <<"done">> THEN {"peek"} ELSE {"peek", "judge"}
  /\ UNCHANGED <<turn, held, attempts, notices, outcome, client, unclosed,
                 reported, tallied>>

EmptyLocal == /\ turn.local /\ ~turn.fallback
              /\ \/ peek = <<"done">>
                 \/ peek = <<>> /\ norm.ended = "eof"

Caught == turn.killer /\ ~turn.fallback /\ norm.violated

(* The stream is thrown away and another call answers: the default tier    *)
(* for an empty local stream, a retry or the default tier for a cycle.     *)
HandOver ==
  /\ phase = "judge"
  /\ EmptyLocal \/ Caught
  /\ phase' = "handed"
  /\ unclosed' = unclosed \ {0}
  /\ UNCHANGED <<turn, norm, held, peek, attempts, notices, outcome, client,
                 reported, tallied>>

(* No tier is left to take over: the loop notice is all the client gets. *)
SeverPeeked(toolLoop) ==
  /\ phase = "judge" /\ Caught
  /\ client' = Sent(client, IF toolLoop THEN <<"chunk", "notice", "done">>
                            ELSE <<"notice", "finish", "done">>)
  /\ phase' = "closed"
  /\ unclosed' = unclosed \ {0}
  /\ tallied' = IF norm.usage THEN tallied \cup {0} ELSE tallied
  /\ UNCHANGED <<turn, norm, held, peek, attempts, notices, outcome, reported>>

(* The head is sent, then what was peeked; nothing reads that again. *)
SendHead ==
  /\ phase = "judge" /\ ~Caught
  /\ client' = Sent(client, peek)
  /\ phase' = IF AtEnd THEN "after" ELSE "relay"
  /\ IF EmptyLocal
     THEN unclosed' = unclosed \ {0} /\ norm' = [norm EXCEPT !.held = FALSE]
     ELSE UNCHANGED <<unclosed, norm>>
  /\ peek' = <<>>
  /\ UNCHANGED <<turn, held, attempts, notices, outcome, reported, tallied>>

Relay ==
  /\ phase = "relay" /\ Returned
  /\ ~(norm.violated /\ turn.killer)
  /\ client' = Sent(client, norm.out)
  /\ norm' = Drained
  /\ phase' = IF AtEnd THEN "after" ELSE "relay"
  /\ UNCHANGED <<turn, held, peek, attempts, notices, outcome, unclosed,
                 reported, tallied>>

(* A cycle during the relay: what Read returned is dropped, the loop
   notice ends the stream. *)
Sever(toolLoop) ==
  /\ phase = "relay" /\ Returned
  /\ norm.violated /\ turn.killer
  /\ client' = Sent(client, IF toolLoop THEN <<"chunk", "notice", "done">>
                            ELSE <<"notice", "finish", "done">>)
  /\ norm' = [Drained EXCEPT !.held = FALSE]
  /\ unclosed' = unclosed \ {0}
  /\ phase' = "after"
  /\ UNCHANGED <<turn, held, peek, attempts, notices, outcome, reported,
                 tallied>>

(* The first stream is over.  A held terminal starts the recovery. *)
After ==
  /\ phase = "after"
  /\ tallied' = IF norm.usage THEN tallied \cup {0} ELSE tallied
  /\ held' = norm.held
  /\ IF norm.held THEN phase' = "slap" /\ UNCHANGED unclosed
     ELSE phase' = "closed" /\ unclosed' = unclosed \ {0}
  /\ UNCHANGED <<turn, norm, peek, attempts, notices, outcome, client,
                 reported>>

(***************************************************************************)
(* executeThoughtSlapRecoveryStream.                                       *)
(***************************************************************************)
SlapLimit == IF turn.slap THEN MaxAttempts ELSE 0
CapReached == 1 + turn.retries + attempts >= MaxTurnCalls

(* Mutant: the attempts are not counted against the limit. *)
SlapUnlimited ==
  /\ phase = "slap"
  /\ held /\ ~CapReached
  /\ client' = Sent(client, <<"notice">>)
  /\ notices' = notices + 1
  /\ phase' = "wait"
  /\ UNCHANGED <<turn, norm, held, peek, attempts, outcome, unclosed,
                 reported, tallied>>

SlapAgain ==
  /\ phase = "slap"
  /\ held /\ attempts < SlapLimit /\ ~CapReached
  /\ client' = Sent(client, <<"notice">>)
  /\ notices' = notices + 1
  /\ phase' = "wait"
  /\ UNCHANGED <<turn, norm, held, peek, attempts, outcome, unclosed,
                 reported, tallied>>

(* The loop is over, the cap is reached, or the client has gone. *)
SlapStops ==
  /\ phase = "slap"
  /\ \/ ~(held /\ attempts < SlapLimit) /\ UNCHANGED outcome
     \/ held /\ attempts < SlapLimit /\ CapReached /\ outcome' = "exhausted"
     \/ held /\ attempts < SlapLimit /\ ~CapReached
        /\ outcome' = "cancelled"
  /\ phase' = "verdict"
  /\ UNCHANGED <<turn, norm, held, peek, attempts, notices, client, unclosed,
                 reported, tallied>>

(* The ticker of the goroutine that writes while the call is in flight. *)
KeepAlive ==
  /\ phase = "wait"
  /\ client' = Sent(client, <<"chunk">>)
  /\ UNCHANGED <<turn, phase, norm, held, peek, attempts, notices, outcome,
                 unclosed, reported, tallied>>

(* Mutant: a failed recovery call is made again at once. *)
RecoveryRetried ==
  /\ phase = "wait"
  /\ outcome' \in {"upstream_error", "cancelled"}
  /\ UNCHANGED <<turn, phase, norm, held, peek, attempts, notices, client,
                 unclosed, reported, tallied>>

RecoveryFails ==
  /\ phase = "wait"
  /\ outcome' \in {"upstream_error", "cancelled"}
  /\ phase' = "verdict"
  /\ UNCHANGED <<turn, norm, held, peek, attempts, notices, client, unclosed,
                 reported, tallied>>

RecoveryAnswers ==
  /\ phase = "wait"
  /\ norm' = NewNormalizer(TRUE, TRUE)
  /\ unclosed' = unclosed \cup {attempts + 1}
  /\ phase' = "rescue"
  /\ UNCHANGED <<turn, held, peek, attempts, notices, outcome, client,
                 reported, tallied>>

RelayRecovery ==
  /\ phase = "rescue" /\ Returned
  /\ ~AtEnd /\ ~(norm.violated /\ turn.killer)
  /\ client' = Sent(client, norm.out)
  /\ norm' = Drained
  /\ UNCHANGED <<turn, phase, held, peek, attempts, notices, outcome,
                 unclosed, reported, tallied>>

(* Mutant: the normalizer of the attempt before is dropped, not closed. *)
RecoveryDropsLast ==
  /\ phase = "rescue" /\ Returned /\ AtEnd
  /\ client' = Sent(client, norm.out)
  /\ attempts' = attempts + 1
  /\ norm' = Drained
  /\ held' = norm.held
  /\ phase' = IF norm.held THEN "slap" ELSE "verdict"
  /\ UNCHANGED <<turn, peek, notices, outcome, unclosed, reported, tallied>>

(* The recovery stream ends, or its own cycle breaker cuts it short with   *)
(* nothing more sent; its usage is added, the one before it is closed.     *)
RecoveryEnds ==
  /\ phase = "rescue" /\ Returned
  /\ \/ norm.violated /\ turn.killer /\ UNCHANGED client
     \/ ~(norm.violated /\ turn.killer) /\ AtEnd
        /\ client' = Sent(client, norm.out)
  /\ attempts' = attempts + 1
  /\ tallied' = IF norm.usage THEN tallied \cup {attempts + 1} ELSE tallied
  /\ unclosed' = IF attempts > 0 THEN unclosed \ {attempts} ELSE unclosed
  /\ norm' = Drained
  /\ held' = norm.held
  /\ \/ norm.tools /\ outcome' = "tool_call" /\ phase' = "verdict"
     \/ ~norm.tools /\ norm.nonblank
        /\ outcome' = "content" /\ phase' = "verdict"
     \/ ~norm.tools /\ ~norm.nonblank
        /\ phase' = "slap" /\ UNCHANGED outcome
  /\ UNCHANGED <<turn, peek, notices, reported>>

(* An exhausted recovery ends with the truncation notice and a terminal of
   its own; a successful one has sent its own. *)
Verdict ==
  /\ phase = "verdict"
  /\ client' = IF outcome \in Recovered THEN client
               ELSE Sent(client, <<"notice", "finish", "chunk", "done">>)
  /\ unclosed' = unclosed \ {0, attempts}
  /\ phase' = "closed"
  /\ UNCHANGED <<turn, norm, held, peek, attempts, notices, outcome, reported,
                 tallied>>

Init ==
  /\ turn \in Turns
  /\ phase = "peek"
  /\ norm = NewNormalizer(turn.slap, FALSE)
  /\ held = FALSE /\ peek = <<>>
  /\ attempts = 0 /\ notices = 0 /\ outcome = "exhausted"
  /\ client = Silence
  /\ unclosed = {0} /\ reported = {} /\ tallied = {}

UpstreamStep ==
  \/ \E line \in Lines, trips, synthesize \in BOOLEAN :
       ReadLine(line, trips, synthesize)
  \/ \E trips \in BOOLEAN : ReadEnd(trips)
  \/ ReadError

RelayStep ==
  \/ Peek \/ HandOver \/ SendHead \/ Relay \/ After
  \/ \E toolLoop \in BOOLEAN : SeverPeeked(toolLoop) \/ Sever(toolLoop)

SlapStep ==
  \/ SlapAgain \/ SlapStops \/ KeepAlive \/ RecoveryFails \/ RecoveryAnswers
  \/ RelayRecovery \/ RecoveryEnds \/ Verdict

Next == UpstreamStep \/ RelayStep \/ SlapStep

Spec == Init /\ [][Next]_vars

(***************************************************************************)
(* Fairness: the handler runs, a call in flight ends, and an upstream that *)
(* goes on sending ends some time (it stops, or its request is cancelled). *)
(***************************************************************************)
FairSpec ==
  /\ Spec
  /\ WF_vars(RelayStep)
  /\ WF_vars(SlapAgain \/ SlapStops \/ RelayRecovery \/ RecoveryEnds
             \/ Verdict)
  /\ WF_vars(RecoveryFails \/ RecoveryAnswers)
  /\ SF_vars((\E trips \in BOOLEAN : ReadEnd(trips)) \/ ReadError)

(***************************************************************************)
(* Type invariant: every variable stays in its set.                        *)
(***************************************************************************)
TypeOK ==
  /\ turn \in Turns /\ phase \in Phases
  /\ norm.out \in Seq(Events) /\ peek \in Seq(Events)
  /\ held \in BOOLEAN /\ outcome \in Outcomes
  /\ attempts \in 0 .. MaxAttempts /\ notices \in 0 .. MaxAttempts
  /\ client \in [said : BOOLEAN, over : BOOLEAN, done : BOOLEAN,
                late : BOOLEAN]
  /\ unclosed \subseteq 0 .. MaxAttempts
  /\ reported \subseteq 0 .. MaxAttempts /\ tallied \subseteq reported

(* The two streams that do end twice: a recovery that said nothing and had *)
(* no terminal held has relayed its [DONE] when the exhausted terminal     *)
(* brings another; and where no tier is left to take over a loop, one that *)
(* is noticed in the text [DONE] flushes is severed after its [DONE].      *)
EndsTwice ==
  /\ norm.done /\ ~norm.held
  /\ \/ attempts > 0 /\ ~norm.violated /\ ~norm.tools /\ ~norm.nonblank
     \/ attempts = 0 /\ norm.violated /\ turn.fallback

Silent == ~client.said /\ ~client.over /\ ~client.done

(* The client of a local model that was taken for an empty stream, with no *)
(* other tier to take over, has not been told anything.                    *)
EmptyBody == turn.local /\ ~turn.fallback /\ notices = 0 /\ Silent

(* The client gets one [DONE] at most and nothing after it, however the    *)
(* stream, its recovery and the keep-alive goroutine end, but for the two  *)
(* streams of EndsTwice; and a stream that came to its [DONE] ends with    *)
(* [DONE] for the client too: a terminal that is held back for a slap is   *)
(* replaced or sent, never lost, unless the recovery was cut off as a loop *)
(* or the body was left empty (EmptyBody).                                 *)
OneDone ==
  /\ client.late => EndsTwice
  /\ phase = "closed" /\ norm.done /\ ~norm.violated /\ ~EmptyBody
       => client.done

(* Nothing is left over when a turn ends, whichever way its recovery loop  *)
(* is left: every normalizer it opened has given its pooled buffers back,  *)
(* and its usage counts every stream whose upstream reported it, also in a *)
(* chunk that was held back with its terminal.                             *)
NothingLeaks ==
  /\ TypeOK
  /\ phase \in {"handed", "closed"} => unclosed = {}
  /\ phase = "closed" /\ ~turn.raw => tallied = reported

(* A turn ends, whatever the upstream sends and however its recoveries go. *)
StreamEnds == <>(phase \in {"handed", "closed"})

(* What the client of a stream was promised: no more than so many slaps,   *)
(* each while nothing has been said and before the client is told, by a    *)
(* finish_reason or by [DONE], that the answer is over.                    *)
Promise == INSTANCE ClientStream WITH
  MaxSlaps <- MaxAttempts, said <- client.said, slaps <- notices,
  over <- client.over \/ client.done, done <- client.done

KeepsPromise == Promise!Spec

==========================================================================
