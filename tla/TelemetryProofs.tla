--------------------------- MODULE TelemetryProofs ---------------------------
(***************************************************************************)
(* Theorems about Telemetry, for any number of turns, requests and starts  *)
(* and any capacities.                                                     *)
(***************************************************************************)
EXTENDS Telemetry, FiniteSetTheorems, TLAPS

(* What the proof needs of the types. *)
Shape == /\ serving \in Nat
         /\ mode \in Modes
         /\ DOMAIN history = DOMAIN InitHistory

(* Once Shutdown has returned, only requests it gave up on are in progress. *)
Left == mode \in Stopping \ {"shutdown"} => serving = 0 \/ history.overran

(* The queue is closed only after that. *)
ClosedLate == ~open => mode \in {"drain", "closeLog"}

RecordInv == Shape /\ Left /\ ClosedLate /\ NoRecordAfterClose

(* The steps that change nothing the invariant speaks of. *)
Aside == /\ UNCHANGED <<mode, serving, open>>
         /\ DOMAIN history' = DOMAIN history
         /\ history'.overran = history.overran
         /\ history'.panicked = history.panicked

LEMMA HistoryFields ==
  DOMAIN InitHistory = {"lost", "purged", "condemned", "ordered", "overran",
                        "panicked", "orderly"}
BY DEF InitHistory

LEMMA InitRecord == Init => RecordInv
BY DEF Init, Volatile, InitHistory, RecordInv, Shape, Left, ClosedLate,
       NoRecordAfterClose, Modes, Stopping, Booting, Running

LEMMA AsideKeeps == RecordInv /\ Aside => RecordInv'
BY DEF Aside, RecordInv, Shape, Left, ClosedLate, NoRecordAfterClose

(* The worker, the logger, the periodic sync and the management requests    *)
(* neither serve nor stop.                                                  *)
LEMMA BackgroundAside ==
  ASSUME Shape, WorkerNext \/ LogNext \/ SaverNext \/ AdminNext
  PROVE  Aside
<1> USE HistoryFields DEF Shape, Aside, daemon, tracker
<1>1. CASE WorkerNext
  <2>1. CASE WorkerEmitLog
    BY <2>1 DEF WorkerEmitLog
  <2>2. CASE WorkerReceive \/ WorkerCount \/ WorkerEmitRing
    BY <2>2 DEF WorkerReceive, WorkerCount, WorkerEmitRing
  <2>3. QED BY <1>1, <2>1, <2>2 DEF WorkerNext
<1>2. CASE LogNext
  BY <1>2 DEF LogNext, LogWrite, LogTick
<1>3. CASE SaverNext
  BY <1>3 DEF SaverNext, SaverTick, SaverSave, SaverFails
<1>4. CASE AdminNext
  <2>1. CASE StatsResetStarts \/ RecalculateStarts \/ TuneStarts \/ PurgeStarts
    BY <2>1 DEF StatsResetStarts, RecalculateStarts, TuneStarts, PurgeStarts,
                AdminStarts
  <2>2. CASE ResetStats \/ ReadRecords \/ RecalculateFromRecords
    BY <2>2 DEF ResetStats, ReadRecords, RecalculateFromRecords
  <2>3. CASE ResetRing \/ ReplayRecord \/ AdminSnapshot \/ AdminSaves
    BY <2>3 DEF ResetRing, ReplayRecord, AdminSnapshot, AdminSaves
  <2>4. CASE TuneFlush \/ PurgeDirective
    BY <2>4 DEF TuneFlush, PurgeDirective
  <2>5. QED BY <1>4, <2>1, <2>2, <2>3, <2>4 DEF AdminNext
<1>5. QED BY <1>1, <1>2, <1>3, <1>4

LEMMA NextRecord == RecordInv /\ [Next]_vars => RecordInv'
<1> SUFFICES ASSUME RecordInv, [Next]_vars PROVE RecordInv'
  OBVIOUS
<1> USE HistoryFields DEF RecordInv, Shape, Left, ClosedLate,
        NoRecordAfterClose, Modes, Running, Booting, Stopping
<1>1. CASE HandlerNext
  <2>1. CASE Arrive
    BY <2>1 DEF Arrive, daemon, tracker
  <2>2. CASE Record
    <3>1. CASE open
      BY <2>2, <3>1 DEF Record, daemon
    <3>2. CASE ~open
      BY <2>2, <3>2 DEF Record, daemon
    <3>3. QED BY <3>1, <3>2
  <2>3. CASE EndUnrecorded
    BY <2>3 DEF EndUnrecorded, daemon, tracker
  <2>4. QED BY <1>1, <2>1, <2>2, <2>3 DEF HandlerNext
<1>2. CASE WorkerNext \/ LogNext \/ SaverNext \/ AdminNext
  BY <1>2, BackgroundAside, AsideKeeps
<1>3. CASE Stop
  BY <1>3 DEF Stop, Goes, tracker
<1>4. CASE StopNext
  <2>1. CASE ShutdownDone
    BY <2>1 DEF ShutdownDone, Goes, Quiet, tracker
  <2>2. CASE ShutdownTimeout
    BY <2>2 DEF ShutdownTimeout, Goes, tracker
  <2>3. CASE StopSnapshot \/ StopSaves \/ WorkerDone
    BY <2>3 DEF StopSnapshot, StopSaves, WorkerDone, Goes, tracker
  <2>4. CASE CloseTracker
    BY <2>4 DEF CloseTracker, Goes
  <2>5. CASE CloseLog
    BY <2>5 DEF CloseLog, Goes, Gone
  <2>6. QED BY <1>4, <2>1, <2>2, <2>3, <2>4, <2>5 DEF StopNext
<1>5. CASE Exit
  BY <1>5 DEF Exit, Gone
<1>6. CASE BootNext
  <2>1. CASE Boot
    BY <2>1 DEF Boot, tracker
  <2>2. CASE RotateLogs
    BY <2>2 DEF RotateLogs, Goes, tracker
  <2>3. CASE RemoveStats \/ WipeDirective \/ Load
    BY <2>3 DEF RemoveStats, WipeDirective, Load, Goes, tracker
  <2>4. QED BY <1>6, <2>1, <2>2, <2>3 DEF BootNext
<1>7. CASE UNCHANGED vars
  BY <1>7, AsideKeeps DEF vars, daemon, tracker, Aside
<1>8. QED
  BY <1>1, <1>2, <1>3, <1>4, <1>5, <1>6, <1>7 DEF Next

(* A handler meets a closed queue only if Shutdown gave up on it: whatever  *)
(* the capacities and the number of requests, Stop closes the queue after   *)
(* Shutdown, and no request begins from then on (main.go, program.Stop).    *)
THEOREM ClosedQueueUnused == Spec => []NoRecordAfterClose
<1>1. Init => RecordInv
  BY InitRecord
<1>2. RecordInv /\ [Next]_vars => RecordInv'
  BY NextRecord
<1>3. RecordInv => NoRecordAfterClose
  BY DEF RecordInv
<1>4. QED BY <1>1, <1>2, <1>3, PTL DEF Spec

----------------------------------------------------------------------------
(* What a sequence holds after the operations the model uses. *)

LEMMA Holds ==
  ASSUME NEW S, NEW s \in Seq(S), NEW x
  PROVE  x \in ToSet(s) <=> \E i \in 1 .. Len(s) : s[i] = x
BY DEF ToSet

LEMMA HoldsAppend ==
  ASSUME NEW S, NEW s \in Seq(S), NEW x \in S
  PROVE  Append(s, x) \in Seq(S) /\ ToSet(Append(s, x)) = ToSet(s) \cup {x}
<1>1. /\ Append(s, x) \in Seq(S)
      /\ Len(Append(s, x)) = Len(s) + 1 /\ Len(s) \in Nat
      /\ Append(s, x)[Len(s) + 1] = x
      /\ \A i \in 1 .. Len(s) : Append(s, x)[i] = s[i]
  OBVIOUS
<1>2. ASSUME NEW y, y \in ToSet(Append(s, x)) PROVE y \in ToSet(s) \/ y = x
  <2>1. PICK i \in 1 .. Len(Append(s, x)) : Append(s, x)[i] = y
    BY <1>1, <1>2, Holds
  <2>2. CASE i \in 1 .. Len(s)
    BY <1>1, <2>1, <2>2, Holds
  <2>3. CASE i = Len(s) + 1
    BY <1>1, <2>1, <2>3
  <2>4. QED BY <1>1, <2>2, <2>3
<1>3. ASSUME NEW y, y \in ToSet(s) PROVE y \in ToSet(Append(s, x))
  <2>1. PICK i \in 1 .. Len(s) : s[i] = y
    BY <1>3, Holds
  <2>2. i \in 1 .. Len(Append(s, x)) /\ Append(s, x)[i] = y
    BY <1>1, <2>1
  <2>3. QED BY <1>1, <2>2, Holds
<1>4. x \in ToSet(Append(s, x))
  <2>1. Len(s) + 1 \in 1 .. Len(Append(s, x))
    BY <1>1
  <2>2. QED BY <1>1, <2>1, Holds
<1>5. QED BY <1>1, <1>2, <1>3, <1>4

LEMMA HoldsConcat ==
  ASSUME NEW S, NEW s \in Seq(S), NEW u \in Seq(S)
  PROVE  s \o u \in Seq(S) /\ ToSet(s \o u) = ToSet(s) \cup ToSet(u)
<1>1. /\ s \o u \in Seq(S)
      /\ Len(s \o u) = Len(s) + Len(u) /\ Len(s) \in Nat /\ Len(u) \in Nat
      /\ \A i \in 1 .. Len(s) : (s \o u)[i] = s[i]
      /\ \A i \in 1 .. Len(u) : (s \o u)[Len(s) + i] = u[i]
  OBVIOUS
<1>2. ASSUME NEW y, y \in ToSet(s \o u) PROVE y \in ToSet(s) \/ y \in ToSet(u)
  <2>1. PICK i \in 1 .. Len(s \o u) : (s \o u)[i] = y
    BY <1>1, <1>2, Holds
  <2>2. CASE i <= Len(s)
    BY <1>1, <2>1, <2>2, Holds
  <2>3. CASE i > Len(s)
    <3>1. i - Len(s) \in 1 .. Len(u) /\ u[i - Len(s)] = y
      BY <1>1, <2>1, <2>3
    <3>2. QED BY <3>1, Holds
  <2>4. QED BY <1>1, <2>1, <2>2, <2>3
<1>3. ASSUME NEW y, y \in ToSet(s) PROVE y \in ToSet(s \o u)
  <2>1. PICK i \in 1 .. Len(s) : s[i] = y
    BY <1>3, Holds
  <2>2. i \in 1 .. Len(s \o u) /\ (s \o u)[i] = y
    BY <1>1, <2>1
  <2>3. QED BY <1>1, <2>2, Holds
<1>4. ASSUME NEW y, y \in ToSet(u) PROVE y \in ToSet(s \o u)
  <2>1. PICK i \in 1 .. Len(u) : u[i] = y
    BY <1>4, Holds
  <2>2. Len(s) + i \in 1 .. Len(s \o u) /\ (s \o u)[Len(s) + i] = y
    BY <1>1, <2>1
  <2>3. QED BY <1>1, <2>2, Holds
<1>5. QED BY <1>1, <1>2, <1>3, <1>4

LEMMA HoldsHeadTail ==
  ASSUME NEW S, NEW s \in Seq(S), s # <<>>
  PROVE  /\ Tail(s) \in Seq(S) /\ Head(s) \in S
         /\ ToSet(s) \subseteq {Head(s)} \cup ToSet(Tail(s))
<1>1. /\ Tail(s) \in Seq(S) /\ Head(s) \in S /\ Head(s) = s[1]
      /\ Len(s) \in Nat \ {0} /\ Len(Tail(s)) = Len(s) - 1
      /\ \A i \in 1 .. Len(Tail(s)) : Tail(s)[i] = s[i + 1]
  OBVIOUS
<1>2. ASSUME NEW y, y \in ToSet(s) PROVE y = Head(s) \/ y \in ToSet(Tail(s))
  <2>1. PICK i \in 1 .. Len(s) : s[i] = y
    BY <1>2, Holds
  <2>2. CASE i = 1
    BY <1>1, <2>1, <2>2
  <2>3. CASE i # 1
    <3>1. i - 1 \in 1 .. Len(Tail(s)) /\ Tail(s)[i - 1] = y
      BY <1>1, <2>1, <2>3
    <3>2. QED BY <1>1, <3>1, Holds
  <2>4. QED BY <2>2, <2>3
<1>3. QED BY <1>1, <1>2

----------------------------------------------------------------------------
(* Where the record of an accepted turn can be. *)
Held == IF worker.stage = 0 THEN {} ELSE {worker.turn}
Places == ToSet(file) \cup ToSet(logBuffer) \cup ToSet(logQueue)
            \cup ToSet(queue) \cup Held \cup history.lost \cup history.purged

Carried == /\ recorded \in Nat
           /\ queue \in Seq(Nat) /\ logQueue \in Seq(Nat)
           /\ logBuffer \in Seq(Nat) /\ file \in Seq(Nat)
           /\ worker \in [stage : 0 .. 3, turn : Nat]
Kept == 1 .. recorded \subseteq Places

Empty == queue = <<>> /\ logQueue = <<>> /\ logBuffer = <<>> /\ worker.stage = 0

(* Nothing is in memory unless the daemon runs, and the worker has nothing  *)
(* left when the logger is closed.                                          *)
Phases == /\ mode \notin Running => Empty
          /\ mode \in {"drain", "closeLog"} => ~open
          /\ mode = "closeLog" => queue = <<>> /\ worker.stage = 0
          /\ history.orderly => mode = "off"

LogInv == Shape /\ Carried /\ Kept /\ Phases

(* The steps that move no record. *)
Still == /\ UNCHANGED <<recorded, queue, worker, logQueue, logBuffer, file>>
         /\ DOMAIN history' = DOMAIN history
         /\ history'.lost = history.lost
         /\ history'.purged = history.purged

LEMMA HoldsNothing == ToSet(<<>>) = {}
BY DEF ToSet

LEMMA InitLog == Init => LogInv
BY HoldsNothing DEF Init, Volatile, InitHistory, LogInv, Shape, Carried, Kept,
   Places, Held, Phases, Empty, Modes, Stopping, Booting, Running

LEMMA StillKeeps == Carried /\ Kept /\ Still => Carried' /\ Kept'
BY DEF Still, Carried, Kept, Places, Held

LEMMA Stages ==
  /\ WorkerStages[1] = "count" /\ WorkerStages[2] = "ring"
  /\ WorkerStages[3] = "log" /\ Len(WorkerStages) = 3
BY DEF WorkerStages

LEMMA LogImplies == LogInv => LogComplete
BY HoldsNothing DEF LogInv, Shape, Kept, Places, Held, Phases, Empty,
   LogComplete, Running, Stopping

LEMMA WorkerKeeps ==
  ASSUME LogInv, WorkerNext
  PROVE  Carried' /\ Kept' /\ Phases'
<1> USE HistoryFields DEF LogInv, Shape, Carried, Kept, Places, Held, Phases,
        daemon, logger
<1>1. mode \in Running /\ mode' = mode /\ open' = open /\ recorded' = recorded
  BY DEF WorkerNext, WorkerReceive, WorkerCount, WorkerEmitRing, WorkerEmitLog,
         At
<1>a. worker.stage \in 0 .. 3 /\ worker.turn \in Nat
      /\ DOMAIN worker = {"stage", "turn"}
  OBVIOUS
<1>2. CASE WorkerReceive
  <2>1. /\ Tail(queue) \in Seq(Nat) /\ Head(queue) \in Nat
        /\ ToSet(queue) \subseteq {Head(queue)} \cup ToSet(Tail(queue))
    BY <1>2, HoldsHeadTail DEF WorkerReceive
  <2>2. QED BY <1>1, <1>2, <2>1 DEF WorkerReceive
<1>3. CASE WorkerCount \/ WorkerEmitRing
  <2>1. worker.stage \in {1, 2}
    <3>1. /\ worker.stage \in 1 .. 3
          /\ WorkerStages[worker.stage] \in {"count", "ring"}
      BY ONLY <1>a, <1>3 DEF WorkerCount, WorkerEmitRing, At
    <3>2. worker.stage = 1 \/ worker.stage = 2 \/ worker.stage = 3
      BY ONLY <3>1
    <3>3. CASE worker.stage = 3
      BY ONLY <3>1, <3>3, Stages
    <3>4. QED BY <3>2, <3>3
  <2>2. worker' = [worker EXCEPT !.stage = @ + 1]
    BY <1>3, <2>1, Stages DEF WorkerCount, WorkerEmitRing, Advance
  <2>3. worker' \in [stage : 0 .. 3, turn : Nat] /\ worker'.turn = worker.turn
        /\ worker'.stage # 0
    <3>1. worker \in [stage : 0 .. 3, turn : Nat]
      OBVIOUS
    <3>2. CASE worker.stage = 1
      BY ONLY <2>2, <3>1, <3>2
    <3>3. CASE worker.stage = 2
      BY ONLY <2>2, <3>1, <3>3
    <3>4. QED BY <2>1, <3>2, <3>3
  <2>4. QED BY <1>1, <1>3, <2>1, <2>3 DEF WorkerCount, WorkerEmitRing
<1>4. CASE WorkerEmitLog
  <2>1. worker.stage = 3 /\ worker' = [stage |-> 0, turn |-> 0]
    <3>1. /\ worker.stage \in 1 .. 3
          /\ WorkerStages[worker.stage] = "log" /\ Advance
      BY ONLY <1>a, <1>4 DEF WorkerEmitLog, At
    <3>2. worker.stage = 3
      <4>1. worker.stage = 1 \/ worker.stage = 2 \/ worker.stage = 3
        BY ONLY <3>1
      <4>2. CASE worker.stage = 1
        BY ONLY <3>1, <4>2, Stages
      <4>3. CASE worker.stage = 2
        BY ONLY <3>1, <4>3, Stages
      <4>4. QED BY <4>1, <4>2, <4>3
    <3>3. QED BY ONLY <3>1, <3>2, Stages DEF Advance
  <2>2. CASE Len(logQueue) < LogCap
    <3>1. /\ logQueue' \in Seq(Nat)
          /\ ToSet(logQueue') = ToSet(logQueue) \cup {worker.turn}
      <4>1. logQueue' = Append(logQueue, worker.turn) /\ logQueue \in Seq(Nat)
        BY <1>4, <2>2 DEF WorkerEmitLog
      <4>2. QED BY ONLY <1>a, <4>1, HoldsAppend
    <3>2. QED BY <1>1, <1>4, <2>1, <2>2, <3>1 DEF WorkerEmitLog
  <2>3. CASE ~(Len(logQueue) < LogCap)
    <3>1. /\ history'.lost = history.lost \cup {worker.turn}
          /\ history'.purged = history.purged
          /\ history'.orderly = history.orderly
          /\ UNCHANGED <<recorded, queue, logQueue, logBuffer, file>>
      BY <1>1, <1>4, <2>3 DEF WorkerEmitLog
    <3>2. QED BY <1>1, <2>1, <3>1
  <2>4. QED BY <2>2, <2>3
<1>5. QED BY <1>2, <1>3, <1>4 DEF WorkerNext

LEMMA LoggerKeeps ==
  ASSUME LogInv, LogNext
  PROVE  Carried' /\ Kept' /\ Phases'
<1> USE DEF LogInv, Carried, Kept, Places, Held, Phases, daemon, tracker
<1>1. CASE LogWrite
  <2>1. /\ Tail(logQueue) \in Seq(Nat) /\ Head(logQueue) \in Nat
        /\ ToSet(logQueue) \subseteq {Head(logQueue)} \cup ToSet(Tail(logQueue))
    BY <1>1, HoldsHeadTail DEF LogWrite
  <2>2. /\ logBuffer' \in Seq(Nat)
        /\ ToSet(logBuffer') = ToSet(logBuffer) \cup {Head(logQueue)}
    BY <1>1, <2>1, HoldsAppend DEF LogWrite
  <2>3. QED BY <1>1, <2>1, <2>2 DEF LogWrite
<1>2. CASE LogTick
  <2>1. /\ file' \in Seq(Nat)
        /\ ToSet(file') = ToSet(file) \cup ToSet(logBuffer)
    BY <1>2, HoldsConcat DEF LogTick
  <2>2. QED BY <1>2, <2>1, HoldsNothing DEF LogTick
<1>3. QED BY <1>1, <1>2 DEF LogNext

(* The file after a flush that drains the queue. *)
LEMMA DrainedHolds ==
  ASSUME Carried
  PROVE  /\ file \o logBuffer \o logQueue \in Seq(Nat)
         /\ ToSet(file \o logBuffer \o logQueue) =
              ToSet(file) \cup ToSet(logBuffer) \cup ToSet(logQueue)
<1>1. /\ file \o logBuffer \in Seq(Nat)
      /\ ToSet(file \o logBuffer) = ToSet(file) \cup ToSet(logBuffer)
  BY HoldsConcat DEF Carried
<1>2. /\ file \o logBuffer \o logQueue \in Seq(Nat)
      /\ ToSet(file \o logBuffer \o logQueue) =
           ToSet(file \o logBuffer) \cup ToSet(logQueue)
  <2> DEFINE fb == file \o logBuffer
  <2>1. fb \in Seq(Nat) /\ logQueue \in Seq(Nat)
    BY <1>1 DEF Carried
  <2> HIDE DEF fb
  <2>2. fb \o logQueue \in Seq(Nat)
        /\ ToSet(fb \o logQueue) = ToSet(fb) \cup ToSet(logQueue)
    BY ONLY <2>1, HoldsConcat
  <2>3. QED BY <2>2 DEF fb
<1>3. QED BY <1>1, <1>2

LEMMA AdminKeeps ==
  ASSUME LogInv, AdminNext
  PROVE  Carried' /\ Kept' /\ Phases'
<1> USE HistoryFields DEF LogInv, Shape
<1>1. CASE TuneFlush /\ LogDrained
  <2>1. QED BY <1>1, DrainedHolds, HoldsNothing
            DEF TuneFlush, LogDrained, Carried, Kept, Places, Held, Phases,
                Empty, daemon, tracker
<1>2. CASE PurgeDirective
  <2>1. Still /\ UNCHANGED <<mode, open>> /\ history'.orderly = history.orderly
    BY <1>2 DEF PurgeDirective, Still, daemon, tracker, logger
  <2>2. QED BY <2>1, StillKeeps DEF Still, Phases, Empty
<1>3. CASE \/ StatsResetStarts \/ RecalculateStarts \/ TuneStarts \/ PurgeStarts
           \/ ResetStats \/ ReadRecords \/ RecalculateFromRecords
           \/ ResetRing \/ ReplayRecord \/ AdminSnapshot \/ AdminSaves
           \/ (TuneFlush /\ ~LogDrained)
  <2>1. Still /\ UNCHANGED <<mode, open, history>>
    <3>1. CASE StatsResetStarts \/ RecalculateStarts \/ TuneStarts \/ PurgeStarts
      BY <3>1 DEF StatsResetStarts, RecalculateStarts, TuneStarts, PurgeStarts,
                  AdminStarts, Still, daemon, tracker, logger
    <3>2. CASE ResetStats \/ ReadRecords \/ RecalculateFromRecords
      BY <3>2 DEF ResetStats, ReadRecords, RecalculateFromRecords, Still,
                  daemon, tracker, logger
    <3>3. CASE ResetRing \/ ReplayRecord \/ AdminSnapshot \/ AdminSaves
      BY <3>3 DEF ResetRing, ReplayRecord, AdminSnapshot, AdminSaves, Still,
                  daemon, tracker, logger
    <3>4. CASE TuneFlush /\ ~LogDrained
      BY <3>4 DEF TuneFlush, Still, daemon, tracker, logger
    <3>5. QED BY <1>3, <3>1, <3>2, <3>3, <3>4
  <2>2. QED BY <2>1, StillKeeps DEF Still, Phases, Empty
<1>4. QED BY <1>1, <1>2, <1>3 DEF AdminNext

LEMMA HandlerKeeps ==
  ASSUME LogInv, HandlerNext
  PROVE  Carried' /\ Kept' /\ Phases'
<1> USE HistoryFields DEF LogInv, Shape
<1>1. CASE Record /\ queue' = Append(queue, recorded + 1) /\ open
  <2>1. /\ queue' \in Seq(Nat)
        /\ ToSet(queue') = ToSet(queue) \cup {recorded + 1}
    <3>1. queue' = Append(queue, recorded + 1) /\ queue \in Seq(Nat)
          /\ recorded + 1 \in Nat
      BY <1>1 DEF Carried
    <3>2. QED BY ONLY <3>1, HoldsAppend
  <2>2. recorded' \in {recorded, recorded + 1} /\ recorded' \in Nat
        /\ UNCHANGED <<mode, open, worker, logQueue, logBuffer, file>>
        /\ mode \in Running
        /\ history' = history
    BY <1>1 DEF Record, daemon, logger, Carried
  <2>3. 1 .. recorded' \subseteq (1 .. recorded) \cup {recorded + 1}
    BY <2>2 DEF Carried
  <2>4. QED BY <1>1, <2>1, <2>2, <2>3 DEF Carried, Kept, Places, Held, Phases
<1>2. CASE \/ Arrive \/ EndUnrecorded
           \/ (Record /\ ~(queue' = Append(queue, recorded + 1) /\ open))
  <2>1. /\ Still /\ UNCHANGED <<mode, open>>
        /\ history'.orderly = history.orderly
    BY <1>2 DEF Arrive, EndUnrecorded, Record, Still, daemon, tracker, logger
  <2>2. QED BY <2>1, StillKeeps DEF Still, Phases, Empty
<1>3. QED BY <1>1, <1>2 DEF HandlerNext

LEMMA StopKeeps ==
  ASSUME LogInv, Stop \/ StopNext
  PROVE  Carried' /\ Kept' /\ Phases'
<1> USE HistoryFields DEF LogInv, Shape
<1>1. CASE CloseLog
  BY <1>1, DrainedHolds, HoldsNothing
     DEF CloseLog, Goes, Gone, Carried, Kept, Places, Held, Phases, Empty,
         Running, Stopping
<1>2. CASE Stop \/ ShutdownDone \/ ShutdownTimeout \/ StopSnapshot \/ StopSaves
           \/ CloseTracker \/ WorkerDone
  <2>1. /\ Still /\ mode # "off" /\ history'.orderly = history.orderly
        /\ mode' \in Running
        /\ mode' \in {"drain", "closeLog"} => ~open'
        /\ mode' = "closeLog" => queue = <<>> /\ worker.stage = 0
    BY <1>2 DEF Stop, ShutdownDone, ShutdownTimeout, StopSnapshot, StopSaves,
                CloseTracker, WorkerDone, Goes, Still, tracker, logger, Phases,
                Running, Stopping
  <2>2. QED BY <2>1, StillKeeps DEF Still, Phases, Running, Stopping
<1>3. QED BY <1>1, <1>2 DEF StopNext

LEMMA BootKeeps ==
  ASSUME LogInv, BootNext
  PROVE  Carried' /\ Kept' /\ Phases'
<1> USE HistoryFields DEF LogInv, Shape
<1>1. CASE RotateLogs /\ file' = <<>>
           /\ history' = [history EXCEPT !.purged = @ \cup ToSet(file)]
  BY <1>1, HoldsNothing
     DEF RotateLogs, Goes, Carried, Kept, Places, Held, Phases, Empty, tracker,
         Running, Stopping
<1>2. CASE Boot \/ RemoveStats \/ WipeDirective \/ Load
           \/ (RotateLogs /\ UNCHANGED <<file, history>>)
  <2>1. /\ Still /\ ~history'.orderly
        /\ mode \notin Running
        /\ mode' \notin {"drain", "closeLog", "off"}
    BY <1>2 DEF Boot, RemoveStats, WipeDirective, Load, RotateLogs, Goes, Still,
                tracker, logger, Phases, Running, Stopping
  <2>2. QED BY <2>1, StillKeeps DEF Still, Phases, Empty
<1>3. QED BY <1>1, <1>2 DEF BootNext, RotateLogs

LEMMA ExitKeeps ==
  ASSUME LogInv, Exit
  PROVE  Carried' /\ Kept' /\ Phases'
BY HistoryFields, HoldsNothing
   DEF Exit, Gone, LogInv, Shape, Carried, Kept, Places, Held, Phases, Empty

LEMMA NextLog == RecordInv /\ LogInv /\ [Next]_vars => LogInv'
<1> SUFFICES ASSUME RecordInv, LogInv, [Next]_vars PROVE LogInv'
  OBVIOUS
<1>1. Shape'
  BY NextRecord DEF RecordInv
<1>2. CASE SaverNext \/ UNCHANGED vars
  <2>1. Still /\ UNCHANGED <<mode, open, history>>
    BY <1>2 DEF SaverNext, SaverTick, SaverSave, SaverFails, vars, Still,
                daemon, tracker, logger
  <2>2. QED BY <1>1, <2>1, StillKeeps DEF LogInv, Still, Phases, Empty
<1>3. QED
  BY <1>1, <1>2, WorkerKeeps, LoggerKeeps, AdminKeeps, HandlerKeeps, StopKeeps,
     BootKeeps, ExitKeeps DEF Next, LogInv

(* An orderly stop loses no record: whatever the capacities, the traffic    *)
(* log holds every accepted turn but those its own queue was too full for,  *)
(* those an earlier exit lost and those that were purged (main.go,          *)
(* program.Stop).                                                           *)
THEOREM StopKeepsLog == Spec => []LogComplete
<1>1. Init => RecordInv /\ LogInv
  BY InitRecord, InitLog
<1>2. RecordInv /\ LogInv /\ [Next]_vars => RecordInv' /\ LogInv'
  BY NextRecord, NextLog
<1>3. LogInv => LogComplete
  BY LogImplies
<1>4. QED BY <1>1, <1>2, <1>3, PTL DEF Spec

----------------------------------------------------------------------------
(* What a purge may take.  A directive that outlives its daemon condemns    *)
(* the turns accepted before the exit; the log then holds no others until   *)
(* the directive is wiped, however often the start is repeated.             *)
Seen == ToSet(file) \cup ToSet(logBuffer) \cup ToSet(logQueue)
          \cup ToSet(queue) \cup Held

Purging == {"rotate", "unstat", "wipe"}

Accepted == /\ Seen \subseteq 1 .. recorded
            /\ history.condemned \subseteq 1 .. recorded

Condemning ==
    /\ directive => history.ordered \/ mode \in {"off"} \cup Purging
    /\ directive /\ mode \in {"off"} \cup Purging
         => ToSet(file) \subseteq history.condemned
    /\ mode \in Purging => directive

PurgeInv == Accepted /\ Condemning /\ PurgeSparesLater

LEMMA HoldsLess ==
  ASSUME NEW S, NEW s \in Seq(S), s # <<>>
  PROVE  {Head(s)} \cup ToSet(Tail(s)) \subseteq ToSet(s)
<1>1. /\ Tail(s) \in Seq(S) /\ Head(s) = s[1]
      /\ Len(s) \in Nat \ {0} /\ Len(Tail(s)) = Len(s) - 1
      /\ \A i \in 1 .. Len(Tail(s)) : Tail(s)[i] = s[i + 1]
  OBVIOUS
<1>2. Head(s) \in ToSet(s)
  <2>1. 1 \in 1 .. Len(s)
    BY <1>1
  <2>2. QED BY <1>1, <2>1, Holds
<1>3. ASSUME NEW y, y \in ToSet(Tail(s)) PROVE y \in ToSet(s)
  <2>1. PICK i \in 1 .. Len(Tail(s)) : Tail(s)[i] = y
    BY <1>1, <1>3, Holds
  <2>2. i + 1 \in 1 .. Len(s) /\ s[i + 1] = y
    BY <1>1, <2>1
  <2>3. QED BY <2>2, Holds
<1>4. QED BY <1>2, <1>3

(* The steps that bring no record, condemn nobody and purge nothing. *)
Harmless == /\ Still
            /\ UNCHANGED <<mode, directive>>
            /\ history'.condemned = history.condemned
            /\ history'.ordered = history.ordered

LEMMA HarmlessKeeps == PurgeInv /\ Harmless => PurgeInv'
BY DEF Harmless, Still, PurgeInv, Accepted, Seen, Held, Condemning,
       PurgeSparesLater

LEMMA InitPurge == Init => PurgeInv
BY HoldsNothing DEF Init, Volatile, InitHistory, PurgeInv, Accepted, Seen,
   Held, Condemning, Purging, PurgeSparesLater

(* Records move on towards the file; only Record brings a new one. *)
LEMMA MovesAccepted ==
  ASSUME LogInv, PurgeInv, Seen' \subseteq Seen, recorded' = recorded,
         UNCHANGED <<mode, directive>>, file' = file \/ mode \in Running,
         history'.condemned = history.condemned,
         history'.ordered = history.ordered,
         history'.purged = history.purged
  PROVE  PurgeInv'
BY DEF PurgeInv, Accepted, Condemning, PurgeSparesLater, Purging, Running,
       Stopping

LEMMA WorkerPurges ==
  ASSUME LogInv, PurgeInv, WorkerNext
  PROVE  PurgeInv'
<1> USE HistoryFields DEF LogInv, Shape, Carried, daemon, logger, management
<1>1. CASE WorkerReceive
  <2>1. {Head(queue)} \cup ToSet(Tail(queue)) \subseteq ToSet(queue)
    BY <1>1, HoldsLess DEF WorkerReceive
  <2>2. Seen' \subseteq Seen
    BY <1>1, <2>1 DEF WorkerReceive, Seen, Held
  <2>3. QED BY <1>1, <2>2, MovesAccepted DEF WorkerReceive
<1>2. CASE WorkerCount \/ WorkerEmitRing
  <2>1. worker.stage # 0 /\ worker'.turn \in {0, worker.turn}
        /\ (worker'.stage # 0 => worker'.turn = worker.turn)
    BY <1>2, Stages DEF WorkerCount, WorkerEmitRing, At, Advance
  <2>2. Seen' \subseteq Seen
    BY <1>2, <2>1 DEF WorkerCount, WorkerEmitRing, Seen, Held
  <2>3. QED BY <1>2, <2>2, MovesAccepted DEF WorkerCount, WorkerEmitRing, At
<1>3. CASE WorkerEmitLog
  <2>1. worker.stage # 0 /\ worker'.turn \in {0, worker.turn}
        /\ (worker'.stage # 0 => worker'.turn = worker.turn)
    BY <1>3, Stages DEF WorkerEmitLog, At, Advance
  <2>2. ToSet(logQueue') \subseteq ToSet(logQueue) \cup {worker.turn}
    <3>1. CASE logQueue' = logQueue
      BY <3>1
    <3>2. CASE logQueue' = Append(logQueue, worker.turn)
      <4>1. logQueue \in Seq(Nat) /\ worker.turn \in Nat
        OBVIOUS
      <4>2. QED BY ONLY <3>2, <4>1, HoldsAppend
    <3>3. QED BY <1>3, <3>1, <3>2 DEF WorkerEmitLog
  <2>3. Seen' \subseteq Seen
    BY <1>3, <2>1, <2>2 DEF WorkerEmitLog, Seen, Held
  <2>4. /\ history'.condemned = history.condemned
        /\ history'.ordered = history.ordered
        /\ history'.purged = history.purged
    BY <1>3 DEF WorkerEmitLog
  <2>5. QED BY <1>3, <2>3, <2>4, MovesAccepted DEF WorkerEmitLog, At
<1>4. QED BY <1>1, <1>2, <1>3 DEF WorkerNext

LEMMA LoggerPurges ==
  ASSUME LogInv, PurgeInv, LogNext
  PROVE  PurgeInv'
<1> USE DEF LogInv, Carried, daemon, tracker, management
<1>1. CASE LogWrite
  <2>1. /\ {Head(logQueue)} \cup ToSet(Tail(logQueue)) \subseteq ToSet(logQueue)
        /\ Head(logQueue) \in Nat
    BY <1>1, HoldsLess, HoldsHeadTail DEF LogWrite
  <2>2. ToSet(logBuffer') = ToSet(logBuffer) \cup {Head(logQueue)}
    BY <1>1, <2>1, HoldsAppend DEF LogWrite
  <2>3. Seen' \subseteq Seen
    BY <1>1, <2>1, <2>2 DEF LogWrite, Seen, Held
  <2>4. QED BY <1>1, <2>3, MovesAccepted DEF LogWrite
<1>2. CASE LogTick
  <2>1. ToSet(file') = ToSet(file) \cup ToSet(logBuffer)
    BY <1>2, HoldsConcat DEF LogTick
  <2>2. Seen' \subseteq Seen
    BY <1>2, <2>1, HoldsNothing DEF LogTick, Seen, Held
  <2>3. QED BY <1>2, <2>2, MovesAccepted DEF LogTick
<1>3. QED BY <1>1, <1>2 DEF LogNext

LEMMA AdminPurges ==
  ASSUME LogInv, PurgeInv, AdminNext
  PROVE  PurgeInv'
<1> USE HistoryFields DEF LogInv, Shape
<1>1. CASE TuneFlush /\ LogDrained
  <2>1. Seen' \subseteq Seen
    BY <1>1, DrainedHolds, HoldsNothing
       DEF TuneFlush, LogDrained, Seen, Held, tracker
  <2>2. QED BY <1>1, <2>1, MovesAccepted
            DEF TuneFlush, AdminAt, daemon
<1>2. CASE PurgeDirective
  <2>1. Still /\ mode' = mode /\ mode \in Running
        /\ history'.condemned = history.condemned
    BY <1>2 DEF PurgeDirective, AdminAt, Still, daemon, tracker, logger
  <2>2. \/ directive' = TRUE /\ history'.ordered = TRUE
        \/ directive' = directive /\ history'.ordered = history.ordered
    BY <1>2 DEF PurgeDirective
  <2>3. QED BY <2>1, <2>2
            DEF Still, PurgeInv, Accepted, Seen, Held, Condemning, Purging,
                PurgeSparesLater, Running, Stopping
<1>3. CASE \/ StatsResetStarts \/ RecalculateStarts \/ TuneStarts \/ PurgeStarts
           \/ ResetStats \/ ReadRecords \/ RecalculateFromRecords
           \/ ResetRing \/ ReplayRecord \/ AdminSnapshot \/ AdminSaves
           \/ (TuneFlush /\ ~LogDrained)
  <2>1. Harmless
    <3>1. CASE StatsResetStarts \/ RecalculateStarts \/ TuneStarts \/ PurgeStarts
      BY <3>1 DEF StatsResetStarts, RecalculateStarts, TuneStarts, PurgeStarts,
                  AdminStarts, Harmless, Still, daemon, tracker, logger
    <3>2. CASE ResetStats \/ ReadRecords \/ RecalculateFromRecords
      BY <3>2 DEF ResetStats, ReadRecords, RecalculateFromRecords, Harmless,
                  Still, daemon, tracker, logger
    <3>3. CASE ResetRing \/ ReplayRecord \/ AdminSnapshot \/ AdminSaves
      BY <3>3 DEF ResetRing, ReplayRecord, AdminSnapshot, AdminSaves, Harmless,
                  Still, daemon, tracker, logger
    <3>4. CASE TuneFlush /\ ~LogDrained
      BY <3>4 DEF TuneFlush, Harmless, Still, daemon, tracker, logger
    <3>5. QED BY <1>3, <3>1, <3>2, <3>3, <3>4
  <2>2. QED BY <2>1, HarmlessKeeps
<1>4. QED BY <1>1, <1>2, <1>3 DEF AdminNext

LEMMA HandlerPurges ==
  ASSUME LogInv, PurgeInv, HandlerNext
  PROVE  PurgeInv'
<1> USE HistoryFields DEF LogInv, Shape
<1>1. CASE Record /\ queue' = Append(queue, recorded + 1)
           /\ recorded' = recorded + 1
  <2>1. ToSet(queue') = ToSet(queue) \cup {recorded + 1}
    <3>1. queue' = Append(queue, recorded + 1) /\ queue \in Seq(Nat)
          /\ recorded + 1 \in Nat
      BY <1>1 DEF Carried
    <3>2. QED BY ONLY <3>1, HoldsAppend
  <2>2. /\ recorded \in Nat /\ recorded' = recorded + 1
        /\ UNCHANGED <<mode, directive, worker, logQueue, logBuffer, file>>
        /\ history'.condemned = history.condemned
        /\ history'.ordered = history.ordered
        /\ history'.purged = history.purged
    BY <1>1 DEF Record, daemon, logger, management, Carried
  <2>3. 1 .. recorded \subseteq 1 .. recorded' /\ recorded + 1 \in 1 .. recorded'
    BY <2>2
  <2>4. QED BY <2>1, <2>2, <2>3 DEF PurgeInv, Accepted, Seen, Held, Condemning,
               PurgeSparesLater
<1>2. CASE \/ Arrive \/ EndUnrecorded
           \/ (Record /\ ~(queue' = Append(queue, recorded + 1)
                           /\ recorded' = recorded + 1))
  <2>1. Harmless
    BY <1>2 DEF Arrive, EndUnrecorded, Record, Harmless, Still, daemon, tracker,
                logger, management
  <2>2. QED BY <2>1, HarmlessKeeps
<1>3. QED BY <1>1, <1>2 DEF HandlerNext

(* An exit, orderly or not, of a daemon that has written a directive        *)
(* condemns every turn accepted so far.                                     *)
LEMMA ExitCondemns ==
  ASSUME LogInv, PurgeInv, mode # "off", mode' = "off",
         UNCHANGED <<recorded, directive>>,
         queue' = <<>>, logQueue' = <<>>, logBuffer' = <<>>,
         worker' = [stage |-> 0, turn |-> 0],
         ToSet(file') \subseteq Seen,
         file' = file \/ mode \in Running,
         history'.condemned = Condemned,
         history'.ordered = history.ordered,
         history'.purged = history.purged
  PROVE  PurgeInv'
<1>1. Seen' \subseteq 1 .. recorded'
  BY HoldsNothing DEF Seen, Held, PurgeInv, Accepted
<1>2. /\ history.condemned \subseteq history'.condemned
      /\ history'.condemned \subseteq 1 .. recorded'
  BY DEF Condemned, PurgeInv, Accepted
<1>3. directive => ToSet(file') \subseteq history'.condemned
  <2>1. CASE history.ordered
    BY <2>1 DEF Condemned, PurgeInv, Accepted
  <2>2. CASE ~history.ordered
    BY <2>2 DEF Condemned, PurgeInv, Condemning, Purging, Running, Stopping
  <2>3. QED BY <2>1, <2>2
<1>4. QED BY <1>1, <1>2, <1>3 DEF PurgeInv, Accepted, Condemning, Purging,
             PurgeSparesLater

LEMMA StopPurges ==
  ASSUME LogInv, PurgeInv, Stop \/ StopNext
  PROVE  PurgeInv'
<1> USE HistoryFields DEF LogInv, Shape
<1>1. CASE CloseLog
  <2>1. ToSet(file') \subseteq Seen
    BY <1>1, DrainedHolds DEF CloseLog, Seen
  <2>2. /\ history'.condemned = Condemned
        /\ history'.ordered = history.ordered
        /\ history'.purged = history.purged
    BY <1>1 DEF CloseLog
  <2>3. QED BY <1>1, <2>1, <2>2, ExitCondemns
            DEF CloseLog, Goes, Gone, Running, Stopping
<1>2. CASE Stop \/ ShutdownDone \/ ShutdownTimeout \/ StopSnapshot \/ StopSaves
           \/ CloseTracker \/ WorkerDone
  <2>1. /\ Still /\ directive' = directive
        /\ mode \in Running /\ mode' \in Running
        /\ history'.condemned = history.condemned
        /\ history'.ordered = history.ordered
    BY <1>2 DEF Stop, ShutdownDone, ShutdownTimeout, StopSnapshot, StopSaves,
                CloseTracker, WorkerDone, Goes, Still, tracker, logger,
                management, Running, Stopping
  <2>2. QED BY <2>1 DEF Still, PurgeInv, Accepted, Seen, Held, Condemning,
               Purging, PurgeSparesLater, Running, Stopping
<1>3. QED BY <1>1, <1>2 DEF StopNext

LEMMA BootPurges ==
  ASSUME LogInv, PurgeInv, BootNext
  PROVE  PurgeInv'
<1> USE HistoryFields DEF LogInv, Shape
<1>1. CASE Boot
  <2>1. /\ Still /\ directive' = directive
        /\ mode = "off"
        /\ IF directive THEN mode' = "rotate" ELSE mode' = "load"
        /\ history'.condemned = history.condemned
    BY <1>1 DEF Boot, Still, tracker, logger, management
  <2>2. QED BY <2>1 DEF Still, PurgeInv, Accepted, Seen, Held, Condemning,
               Purging, PurgeSparesLater
<1>2. CASE RotateLogs
  <2>1. /\ UNCHANGED <<recorded, queue, worker, logQueue, logBuffer, directive>>
        /\ mode = "rotate" /\ mode' = "unstat"
        /\ history'.condemned = history.condemned
        /\ history'.ordered = history.ordered
        /\ ToSet(file') \subseteq ToSet(file)
        /\ history'.purged \subseteq history.purged \cup ToSet(file)
    BY <1>2, HoldsNothing DEF RotateLogs, Goes, tracker, management
  <2>2. QED BY <2>1 DEF PurgeInv, Accepted, Seen, Held, Condemning, Purging,
               PurgeSparesLater
<1>3. CASE RemoveStats \/ WipeDirective \/ Load
  <2>1. /\ Still /\ history' = history
        /\ \/ mode = "unstat" /\ mode' = "wipe" /\ directive' = directive
           \/ mode = "wipe" /\ mode' = "load" /\ directive' = FALSE
           \/ mode = "load" /\ mode' = "up" /\ directive' = directive
    BY <1>3 DEF RemoveStats, WipeDirective, Load, Goes, Still, tracker, logger,
                management
  <2>2. QED BY <2>1 DEF Still, PurgeInv, Accepted, Seen, Held, Condemning,
               Purging, PurgeSparesLater
<1>4. QED BY <1>1, <1>2, <1>3 DEF BootNext

LEMMA ExitPurges ==
  ASSUME LogInv, PurgeInv, Exit
  PROVE  PurgeInv'
<1>1. /\ history'.condemned = Condemned
      /\ history'.ordered = history.ordered
      /\ history'.purged = history.purged
  BY HistoryFields DEF Exit, LogInv, Shape
<1>2. QED BY <1>1, ExitCondemns DEF Exit, Gone, Seen

LEMMA NextPurge == LogInv /\ PurgeInv /\ [Next]_vars => PurgeInv'
<1> SUFFICES ASSUME LogInv, PurgeInv, [Next]_vars PROVE PurgeInv'
  OBVIOUS
<1>1. CASE SaverNext \/ UNCHANGED vars
  <2>1. Harmless
    BY <1>1 DEF SaverNext, SaverTick, SaverSave, SaverFails, vars, Harmless,
                Still, daemon, tracker, logger, management
  <2>2. QED BY <2>1, HarmlessKeeps
<1>2. QED
  BY <1>1, WorkerPurges, LoggerPurges, AdminPurges, HandlerPurges, StopPurges,
     BootPurges, ExitPurges DEF Next

(* A cold purge spares what later daemons recorded: whatever crashes fall   *)
(* between the request and the wipe of its directive, and however often a   *)
(* start repeats it, only turns accepted before the exit of the daemon that *)
(* left the directive are purged (cmd/nacho-flow/directive.go).             *)
THEOREM PurgeOnlyCondemned == Spec => []PurgeSparesLater
<1>1. Init => RecordInv /\ LogInv /\ PurgeInv
  BY InitRecord, InitLog, InitPurge
<1>2. RecordInv /\ LogInv /\ PurgeInv /\ [Next]_vars
        => RecordInv' /\ LogInv' /\ PurgeInv'
  BY NextRecord, NextLog, NextPurge
<1>3. PurgeInv => PurgeSparesLater
  BY DEF PurgeInv
<1>4. QED BY <1>1, <1>2, <1>3, PTL DEF Spec

----------------------------------------------------------------------------
(* Where a turn still has to be counted, listed and logged. *)

\* Turns that are not in any total: not yet accepted, or not yet counted.
Fresh == {t \in Turns : t > recorded} \cup ToSet(queue)
           \cup (IF worker.stage = 1 THEN {worker.turn} ELSE {})

\* Turns that are not among the recent routes.
Unlisted == Fresh \cup (IF worker.stage \in {1, 2} THEN {worker.turn} ELSE {})

\* Turns that have not reached the traffic log.
Unlogged == {t \in Turns : t > recorded} \cup ToSet(queue) \cup Held

\* The traffic log, from the file to the end of its queue.
Log == file \o logBuffer \o logQueue

TypeInv ==
  /\ mode \in Modes /\ boots \in 0 .. MaxBoots
  /\ serving \in 0 .. MaxServing /\ recorded \in Nat
  /\ recorded + serving <= MaxTurns
  /\ open \in BOOLEAN /\ worker \in [stage : 0 .. 3, turn : 0 .. MaxTurns]
  /\ worker.stage # 0 => worker.turn \in Turns
  /\ admins \in 0 .. MaxAdmin /\ directive \in BOOLEAN
  /\ queue \in Seq(Turns) /\ Len(queue) <= QueueCap
  /\ logQueue \in Seq(Turns) /\ Len(logQueue) <= LogCap
  /\ logBuffer \in Seq(Turns) /\ file \in Seq(Turns)
  /\ ring \in Seq(Turns) /\ Len(ring) <= RingCap
  /\ DOMAIN history = DOMAIN InitHistory
  /\ history.lost \subseteq Turns /\ history.purged \subseteq Turns
  /\ history.condemned \subseteq Turns

\* A turn is at most once in the queue and at most once on its way to the
\* log, and it comes to the log last.
PlaceInv ==
  /\ IsInjective(queue) /\ IsInjective(Log)
  /\ ToSet(Log) \cap Unlogged = {}
  /\ worker.stage # 0 => worker.turn \notin ToSet(queue)
  /\ ToSet(queue) \cup Held \subseteq 1 .. recorded

\* A total, in memory, in a snapshot or on disk.
Once(c) == c \in [Turns -> {0, 1}] /\ \A t \in Fresh : c[t] = 0

TotalsInv ==
  /\ DOMAIN saver = {"at", "snap"}
  /\ Once(stats) /\ Once(saved) /\ Once(saver.snap) /\ Once(stopSnap)
  /\ Once(admin.snap)

\* The records of a management request, and the recent routes.
ReplayInv ==
  /\ DOMAIN admin = {"op", "at", "records", "snap"}
  /\ admin.records \in Seq(Turns) /\ Len(admin.records) <= MaxTurns
  /\ IsInjective(admin.records) /\ ToSet(admin.records) \cap Unlisted = {}
  /\ IsInjective(ring) /\ ToSet(ring) \cap Unlisted = {}
  /\ admin.at = "replay" => ToSet(ring) \cap ToSet(admin.records) = {}
  /\ mode \notin Running => admin = Idle

OnceInv == TypeInv /\ PlaceInv /\ TotalsInv /\ ReplayInv

----------------------------------------------------------------------------
(* Sequences without repetition. *)

\* The first-order form of induction: T is the set of numbers a fact holds of.
LEMMA Inductive ==
  ASSUME NEW T, 0 \in T, \A i \in Nat : i \in T => i + 1 \in T
  PROVE  Nat \subseteq T
<1> DEFINE Rest == Nat \ T
<1>1. ASSUME Rest # {} PROVE FALSE
  <2>1. IsWellFoundedOn(OpToRel(<, Nat), Nat)
    BY NatLessThanWellFounded
  <2>2. Rest \subseteq Nat
    OBVIOUS
  <2>3. \E i \in Rest : \A j \in Rest : ~(<<j, i>> \in OpToRel(<, Nat))
    <3> HIDE DEF Rest
    <3>1. QED BY <1>1, <2>1, <2>2, WFMin
  <2>4. PICK i \in Rest : \A j \in Rest : ~(<<j, i>> \in OpToRel(<, Nat))
    BY <2>3
  <2>5. i \in Nat /\ i # 0 /\ i - 1 \in Nat /\ i - 1 < i
    OBVIOUS
  <2>6. i - 1 \notin Rest
    BY <2>4, <2>5 DEF OpToRel
  <2>7. (i - 1) + 1 \in T
    BY <2>5, <2>6
  <2>8. QED BY <2>5, <2>7
<1>2. QED BY <1>1

LEMMA Nothing ==
  ASSUME NEW S
  PROVE  /\ <<>> \in Seq(S) /\ Len(<<>>) = 0
         /\ IsInjective(<<>>) /\ ToSet(<<>>) = {}
<1>1. <<>> \in Seq(S) /\ Len(<<>>) = 0 /\ DOMAIN <<>> = {}
  OBVIOUS
<1>2. QED BY <1>1, HoldsNothing DEF IsInjective

\* Injectivity over the places of a sequence.
LEMMA Distinct ==
  ASSUME NEW S, NEW s \in Seq(S)
  PROVE  IsInjective(s) <=> \A i, j \in 1 .. Len(s) : s[i] = s[j] => i = j
BY DEF IsInjective

LEMMA DistinctAppend ==
  ASSUME NEW S, NEW s \in Seq(S), NEW x \in S, IsInjective(s),
         x \notin ToSet(s)
  PROVE  IsInjective(Append(s, x))
<1>1. /\ Append(s, x) \in Seq(S)
      /\ Len(Append(s, x)) = Len(s) + 1 /\ Len(s) \in Nat
      /\ Append(s, x)[Len(s) + 1] = x
      /\ \A i \in 1 .. Len(s) : Append(s, x)[i] = s[i] /\ s[i] # x
  BY Holds
<1>2. ASSUME NEW i \in 1 .. Len(s) + 1, NEW j \in 1 .. Len(s) + 1,
             Append(s, x)[i] = Append(s, x)[j]
      PROVE  i = j
  <2>1. CASE i \in 1 .. Len(s) /\ j \in 1 .. Len(s)
    BY <1>1, <1>2, <2>1, Distinct
  <2>2. CASE i = Len(s) + 1 \/ j = Len(s) + 1
    BY <1>1, <1>2, <2>2
  <2>3. QED BY <1>1, <2>1, <2>2
<1>3. QED BY <1>1, <1>2, Distinct

LEMMA DistinctTail ==
  ASSUME NEW S, NEW s \in Seq(S), s # <<>>, IsInjective(s)
  PROVE  /\ Tail(s) \in Seq(S) /\ Head(s) \in S /\ Len(Tail(s)) = Len(s) - 1
         /\ IsInjective(Tail(s)) /\ Head(s) \notin ToSet(Tail(s))
         /\ ToSet(s) = {Head(s)} \cup ToSet(Tail(s))
<1>1. /\ Tail(s) \in Seq(S) /\ Head(s) \in S /\ Head(s) = s[1]
      /\ Len(s) \in Nat \ {0} /\ Len(Tail(s)) = Len(s) - 1
      /\ \A i \in 1 .. Len(Tail(s)) : Tail(s)[i] = s[i + 1]
  OBVIOUS
<1>2. ASSUME NEW i \in 1 .. Len(Tail(s)), NEW j \in 1 .. Len(Tail(s)),
             Tail(s)[i] = Tail(s)[j]
      PROVE  i = j
  <2>1. i + 1 \in 1 .. Len(s) /\ j + 1 \in 1 .. Len(s) /\ s[i + 1] = s[j + 1]
    BY <1>1, <1>2
  <2>2. i + 1 = j + 1
    BY <2>1, Distinct
  <2>3. QED BY <1>1, <2>2
<1>3. ASSUME NEW i \in 1 .. Len(Tail(s)), Tail(s)[i] = Head(s)
      PROVE  FALSE
  <2>1. i + 1 \in 1 .. Len(s) /\ 1 \in 1 .. Len(s) /\ s[i + 1] = s[1]
    BY <1>1, <1>3
  <2>2. i + 1 = 1
    BY <2>1, Distinct
  <2>3. QED BY <1>1, <2>2
<1>4. Head(s) \notin ToSet(Tail(s))
  <2> DEFINE u == Tail(s)
             x == Head(s)
  <2>1. u \in Seq(S) /\ \A i \in 1 .. Len(u) : u[i] # x
    BY <1>1, <1>3
  <2> HIDE DEF u, x
  <2>2. x \notin ToSet(u)
    BY ONLY <2>1, Holds
  <2>3. QED BY <2>2 DEF u, x
<1>5. QED BY <1>1, <1>2, <1>4, Distinct, HoldsHeadTail, HoldsLess

LEMMA DistinctConcat ==
  ASSUME NEW S, NEW s \in Seq(S), NEW u \in Seq(S)
  PROVE  /\ s \o u \in Seq(S) /\ Len(s \o u) = Len(s) + Len(u)
         /\ ToSet(s \o u) = ToSet(s) \cup ToSet(u)
         /\ IsInjective(s \o u)
              <=> /\ IsInjective(s) /\ IsInjective(u)
                  /\ ToSet(s) \cap ToSet(u) = {}
<1>1. /\ s \o u \in Seq(S)
      /\ Len(s \o u) = Len(s) + Len(u) /\ Len(s) \in Nat /\ Len(u) \in Nat
      /\ \A i \in 1 .. Len(s) : (s \o u)[i] = s[i]
      /\ \A i \in 1 .. Len(u) : (s \o u)[Len(s) + i] = u[i]
  OBVIOUS
<1>2. ASSUME IsInjective(s \o u)
      PROVE  IsInjective(s) /\ IsInjective(u) /\ ToSet(s) \cap ToSet(u) = {}
  <2>1. \A i, j \in 1 .. Len(s \o u) : (s \o u)[i] = (s \o u)[j] => i = j
    BY <1>1, <1>2, Distinct
  <2>2. ASSUME NEW i \in 1 .. Len(s), NEW j \in 1 .. Len(s), s[i] = s[j]
        PROVE  i = j
    BY <1>1, <2>1, <2>2
  <2>3. ASSUME NEW i \in 1 .. Len(u), NEW j \in 1 .. Len(u), u[i] = u[j]
        PROVE  i = j
    <3>1. /\ Len(s) + i \in 1 .. Len(s \o u) /\ Len(s) + j \in 1 .. Len(s \o u)
          /\ (s \o u)[Len(s) + i] = (s \o u)[Len(s) + j]
      BY <1>1, <2>3
    <3>2. Len(s) + i = Len(s) + j
      BY <2>1, <3>1
    <3>3. QED BY <1>1, <3>2
  <2>4. ASSUME NEW i \in 1 .. Len(s), NEW j \in 1 .. Len(u), s[i] = u[j]
        PROVE  FALSE
    <3>1. /\ i \in 1 .. Len(s \o u) /\ Len(s) + j \in 1 .. Len(s \o u)
          /\ (s \o u)[i] = (s \o u)[Len(s) + j]
      BY <1>1, <2>4
    <3>2. i = Len(s) + j
      BY <2>1, <3>1
    <3>3. QED BY <1>1, <3>2
  <2>5. ToSet(s) \cap ToSet(u) = {}
    BY <2>4, Holds
  <2>6. QED BY <2>2, <2>3, <2>5, Distinct
<1>3. ASSUME IsInjective(s), IsInjective(u), ToSet(s) \cap ToSet(u) = {}
      PROVE  IsInjective(s \o u)
  <2>1. /\ \A i, j \in 1 .. Len(s) : s[i] = s[j] => i = j
        /\ \A i, j \in 1 .. Len(u) : u[i] = u[j] => i = j
        /\ \A i \in 1 .. Len(s), j \in 1 .. Len(u) : s[i] # u[j]
    BY <1>3, Distinct, Holds
  <2>2. ASSUME NEW i \in 1 .. Len(s \o u)
        PROVE  \/ i \in 1 .. Len(s) /\ (s \o u)[i] = s[i]
               \/ /\ i - Len(s) \in 1 .. Len(u)
                  /\ (s \o u)[i] = u[i - Len(s)]
    <3>1. CASE i <= Len(s)
      BY <1>1, <3>1
    <3>2. CASE i > Len(s)
      <4>1. i - Len(s) \in 1 .. Len(u) /\ Len(s) + (i - Len(s)) = i
        BY <1>1, <3>2
      <4>2. (s \o u)[Len(s) + (i - Len(s))] = u[i - Len(s)]
        BY ONLY <1>1, <4>1
      <4>3. QED BY <4>1, <4>2
    <3>3. QED BY <1>1, <3>1, <3>2
  <2>3. ASSUME NEW i \in 1 .. Len(s \o u), NEW j \in 1 .. Len(s \o u),
               (s \o u)[i] = (s \o u)[j]
        PROVE  i = j
    <3>1. CASE i - Len(s) \in 1 .. Len(u) /\ j - Len(s) \in 1 .. Len(u)
      <4>1. /\ (s \o u)[i] = u[i - Len(s)] /\ (s \o u)[j] = u[j - Len(s)]
        BY <1>1, <2>2, <3>1
      <4>2. i - Len(s) = j - Len(s)
        BY <2>1, <2>3, <3>1, <4>1
      <4>3. QED BY <1>1, <4>2
    <3>2. CASE ~(i - Len(s) \in 1 .. Len(u) /\ j - Len(s) \in 1 .. Len(u))
      BY <2>1, <2>2, <2>3, <3>2
    <3>3. QED BY <3>1, <3>2
  <2>4. QED BY <1>1, <2>3, Distinct
<1>4. QED BY <1>1, <1>2, <1>3, HoldsConcat

LEMMA DistinctPart ==
  ASSUME NEW S, NEW s \in Seq(S), NEW n \in Nat, Len(s) > n, IsInjective(s)
  PROVE  LET p == SubSeq(s, Len(s) - n + 1, Len(s))
         IN  /\ p \in Seq(S) /\ Len(p) = n /\ IsInjective(p)
             /\ ToSet(p) \subseteq ToSet(s)
<1> DEFINE p == SubSeq(s, Len(s) - n + 1, Len(s))
<1>1. /\ p \in Seq(S) /\ Len(p) = n /\ Len(s) \in Nat
      /\ \A i \in 1 .. n : p[i] = s[Len(s) - n + i]
                           /\ Len(s) - n + i \in 1 .. Len(s)
  OBVIOUS
<1> HIDE DEF p
<1>2. ASSUME NEW i \in 1 .. n, NEW j \in 1 .. n, p[i] = p[j] PROVE i = j
  <2>1. s[Len(s) - n + i] = s[Len(s) - n + j]
    BY <1>1, <1>2
  <2>2. Len(s) - n + i = Len(s) - n + j
    BY <1>1, <2>1, Distinct
  <2>3. QED BY <1>1, <2>2
<1>3. ToSet(p) \subseteq ToSet(s)
  <2>1. ASSUME NEW x \in ToSet(p) PROVE x \in ToSet(s)
    <3>1. PICK i \in 1 .. n : p[i] = x
      BY <1>1, Holds
    <3>2. QED BY <1>1, <3>1, Holds
  <2>2. QED BY <2>1
<1>4. IsInjective(p)
  BY <1>1, <1>2, Distinct
<1>5. QED BY <1>1, <1>3, <1>4 DEF p

\* A sequence of turns without repetition is no longer than the turns are many.
LEMMA DistinctShort ==
  ASSUME NEW s \in Seq(Turns), IsInjective(s)
  PROVE  Len(s) <= MaxTurns
<1>1. MaxTurns \in Nat /\ Len(s) \in Nat
  BY BoundsAssumption
<1>2. s \in Injection(1 .. Len(s), Turns)
  <2>1. s \in [1 .. Len(s) -> Turns]
    OBVIOUS
  <2>2. \A i, j \in 1 .. Len(s) : s[i] = s[j] => i = j
    BY Distinct
  <2>3. QED BY <2>1, <2>2 DEF Injection, IsInjective
<1>3. ASSUME NEW n \in Nat PROVE IsFiniteSet(1 .. n) /\ Cardinality(1 .. n) = n
  <2>1. /\ IsFiniteSet(1 .. n)
        /\ Cardinality(1 .. n) = IF 1 > n THEN 0 ELSE n - 1 + 1
    BY FS_Interval
  <2>2. QED BY <2>1
<1>4. IsFiniteSet(Turns) /\ Cardinality(Turns) = MaxTurns
  BY <1>1, <1>3 DEF Turns
<1>5. Cardinality(1 .. Len(s)) = Len(s)
  BY <1>1, <1>3
<1>6. Cardinality(1 .. Len(s)) <= Cardinality(Turns)
  BY <1>2, <1>4, FS_Injection
<1>7. QED BY <1>1, <1>4, <1>5, <1>6

----------------------------------------------------------------------------
(* Folds.  FoldLeft is a recursive function over sets of places; what it   *)
(* computes is shown with a set for the induction hypothesis.              *)

LEMMA LastPlace ==
  ASSUME NEW m \in Nat, NEW s, s \subseteq 1 .. m, s # {}
  PROVE  Max(s) \in s /\ \A i \in s : Max(s) >= i
<1> DEFINE T == {k \in Nat : \A u \in SUBSET (1 .. k) :
                   u # {} => \E x \in u : \A y \in u : x >= y}
<1>1. 0 \in T
  <2>1. \A u \in SUBSET (1 .. 0) : u = {}
    OBVIOUS
  <2>2. QED BY <2>1
<1>2. ASSUME NEW k \in Nat, k \in T PROVE k + 1 \in T
  <2>1. ASSUME NEW u \in SUBSET (1 .. k + 1), u # {}
        PROVE  \E x \in u : \A y \in u : x >= y
    <3>1. CASE k + 1 \in u
      <4>1. \A y \in u : k + 1 >= y
        OBVIOUS
      <4>2. QED BY <3>1, <4>1
    <3>2. CASE k + 1 \notin u
      <4>1. u \subseteq 1 .. k
        BY <3>2
      <4>2. QED BY <1>2, <2>1, <4>1
    <3>3. QED BY <3>1, <3>2
  <2>2. QED BY <2>1
<1>3. Nat \subseteq T
  <2> HIDE DEF T
  <2>1. QED BY <1>1, <1>2, Inductive
<1>4. \E x \in s : \A y \in s : x >= y
  BY <1>3
<1>5. QED BY <1>4 DEF Max

LEMMA LastOfInterval ==
  ASSUME NEW n \in Nat
  PROVE  /\ 1 .. n + 1 # {} /\ Max(1 .. n + 1) = n + 1
         /\ (1 .. n + 1) \ {n + 1} = 1 .. n
<1>1. 1 .. n + 1 # {} /\ (1 .. n + 1) \ {n + 1} = 1 .. n
  <2>1. n + 1 \in 1 .. n + 1
    OBVIOUS
  <2>2. (1 .. n + 1) \ {n + 1} = 1 .. n
    OBVIOUS
  <2>3. QED BY <2>1, <2>2
<1>2. /\ Max(1 .. n + 1) \in 1 .. n + 1
      /\ \A i \in 1 .. n + 1 : Max(1 .. n + 1) >= i
  <2>1. n + 1 \in Nat /\ 1 .. n + 1 \subseteq 1 .. n + 1
    OBVIOUS
  <2>2. QED BY <1>1, <2>1, LastPlace
<1>3. n + 1 \in 1 .. n + 1
  OBVIOUS
<1>4. Max(1 .. n + 1) = n + 1
  BY <1>2, <1>3
<1>5. QED BY <1>1, <1>4

\* it solves the recursion of a fold: it gives every set of places up to n
\* the value of the fold over them.
Folds(it, n, base, step) ==
  \A s \in SUBSET (1 .. n) :
    it[s] = IF s = {} THEN base ELSE step[Max(s)][it[s \ {Max(s)}]]

\* The recursion has a solution.
LEMMA Foldable ==
  ASSUME NEW S, NEW base \in S, NEW n \in Nat,
         NEW step \in [1 .. n -> [S -> S]]
  PROVE  \E it \in [SUBSET (1 .. n) -> S] : Folds(it, n, base, step)
<1> DEFINE Solves(it, k) == Folds(it, k, base, step)
           T == {k \in Nat : k <= n =>
                   \E it \in [SUBSET (1 .. k) -> S] : Solves(it, k)}
<1>1. 0 \in T
  <2> DEFINE it == [s \in SUBSET (1 .. 0) |-> base]
  <2>1. \A s \in SUBSET (1 .. 0) : s = {}
    OBVIOUS
  <2>2. it \in [SUBSET (1 .. 0) -> S] /\ Solves(it, 0)
    BY <2>1 DEF Folds
  <2>3. 0 \in Nat
    OBVIOUS
  <2> HIDE DEF it, Solves
  <2>4. QED BY <2>2, <2>3
<1>2. ASSUME NEW k \in Nat, k \in T PROVE k + 1 \in T
  <2> SUFFICES ASSUME k + 1 <= n
               PROVE  \E it \in [SUBSET (1 .. k + 1) -> S] : Solves(it, k + 1)
    <3>1. k + 1 \in Nat
      OBVIOUS
    <3> HIDE DEF Solves
    <3>2. QED BY <3>1
  <2>1. PICK it \in [SUBSET (1 .. k) -> S] : Solves(it, k)
    <3>1. k <= n
      OBVIOUS
    <3>2. QED BY <1>2, <3>1
  <2> DEFINE more == [s \in SUBSET (1 .. k + 1) |->
                        IF k + 1 \in s THEN step[k + 1][it[s \ {k + 1}]]
                        ELSE it[s]]
  <2>2. \A s \in SUBSET (1 .. k + 1) :
           IF k + 1 \in s THEN s \ {k + 1} \in SUBSET (1 .. k)
           ELSE s \in SUBSET (1 .. k)
    OBVIOUS
  <2>3. k + 1 \in 1 .. n /\ step[k + 1] \in [S -> S]
    OBVIOUS
  <2>4. more \in [SUBSET (1 .. k + 1) -> S]
    BY <2>1, <2>2, <2>3
  <2>5. ASSUME NEW s \in SUBSET (1 .. k)
        PROVE  more[s] = it[s]
    <3>1. s \in SUBSET (1 .. k + 1) /\ k + 1 \notin s
      OBVIOUS
    <3>2. QED BY <3>1
  <2>6. ASSUME NEW s \in SUBSET (1 .. k + 1)
        PROVE  more[s] = IF s = {} THEN base
                         ELSE step[Max(s)][more[s \ {Max(s)}]]
    <3>1. CASE k + 1 \in s
      <4>1. Max(s) \in s /\ \A i \in s : Max(s) >= i
        <5>1. k + 1 \in Nat /\ s \subseteq 1 .. k + 1 /\ s # {}
          BY <3>1
        <5>2. QED BY <5>1, LastPlace
      <4>2. Max(s) = k + 1
        <5>1. Max(s) \in 1 .. k + 1 /\ Max(s) >= k + 1
          BY <3>1, <4>1
        <5>2. QED BY <5>1
      <4>3. more[s] = step[k + 1][it[s \ {k + 1}]]
        BY <3>1
      <4>4. more[s \ {k + 1}] = it[s \ {k + 1}]
        BY <2>2, <2>5, <3>1
      <4> HIDE DEF more
      <4>5. QED BY <3>1, <4>2, <4>3, <4>4
    <3>2. CASE k + 1 \notin s
      <4>1. s \in SUBSET (1 .. k) /\ more[s] = it[s]
        BY <2>2, <2>5, <3>2
      <4>2. it[s] = IF s = {} THEN base
                    ELSE step[Max(s)][it[s \ {Max(s)}]]
        BY <2>1, <4>1 DEF Folds
      <4>3. more[s \ {Max(s)}] = it[s \ {Max(s)}]
        BY <2>5, <4>1
      <4> HIDE DEF more
      <4>4. QED BY <4>1, <4>2, <4>3
    <3>3. QED BY <3>1, <3>2
  <2>7. Solves(more, k + 1)
    <3> HIDE DEF more
    <3>1. QED BY <2>6 DEF Folds
  <2> HIDE DEF more, Solves
  <2>8. QED BY <2>4, <2>7
<1>3. Nat \subseteq T
  <2> HIDE DEF T
  <2>1. QED BY <1>1, <1>2, Inductive
<1>4. n <= n
  OBVIOUS
<1>5. \E it \in [SUBSET (1 .. n) -> S] : Solves(it, n)
  <2> HIDE DEF Solves
  <2>1. QED BY <1>3, <1>4
<1>6. QED BY <1>5

\* The same, step by step: h[i] is the fold of the first i places.
StepsOf(h, it, n) ==
  /\ h[0] = it[{}] /\ h[n] = it[1 .. n]
  /\ \A i \in 1 .. n :
       /\ h[i] = it[1 .. i] /\ h[i - 1] = it[(1 .. i) \ {Max(1 .. i)}]
       /\ Max(1 .. i) = i /\ 1 .. i # {} /\ 1 .. i \in SUBSET (1 .. n)

LEMMA FoldSteps ==
  ASSUME NEW n \in Nat, NEW it, NEW h, h = [i \in 0 .. n |-> it[1 .. i]]
  PROVE  StepsOf(h, it, n)
<1>1. h[0] = it[{}] /\ h[n] = it[1 .. n]
  <2>1. 1 .. 0 = {} /\ 0 \in 0 .. n /\ n \in 0 .. n
    OBVIOUS
  <2>2. QED BY <2>1
<1>2. ASSUME NEW i \in 1 .. n
      PROVE  /\ h[i] = it[1 .. i] /\ h[i - 1] = it[(1 .. i) \ {Max(1 .. i)}]
             /\ Max(1 .. i) = i /\ 1 .. i # {}
             /\ 1 .. i \in SUBSET (1 .. n)
  <2>1. i \in 0 .. n /\ i - 1 \in 0 .. n /\ i - 1 \in Nat /\ (i - 1) + 1 = i
    OBVIOUS
  <2>2. 1 .. i # {} /\ Max(1 .. i) = i /\ (1 .. i) \ {i} = 1 .. i - 1
    BY ONLY <2>1, LastOfInterval
  <2>3. 1 .. i \in SUBSET (1 .. n)
    OBVIOUS
  <2>4. h[i] = it[1 .. i] /\ h[i - 1] = it[1 .. i - 1]
    BY <2>1
  <2>5. QED BY <2>2, <2>3, <2>4
<1>3. QED BY <1>1, <1>2 DEF StepsOf

\* Counting records one after the other.
LEMMA RecountSteps ==
  ASSUME NEW records \in Seq(Turns)
  PROVE  \E h : /\ h[0] = NoCount /\ h[Len(records)] = Recounted(records)
                /\ \A i \in 1 .. Len(records) :
                     h[i] = Counted(h[i - 1], records[i])
<1> DEFINE n == Len(records)
           S == [Turns -> Nat]
           step == [i \in 1 .. n |-> [c \in S |-> Counted(c, records[i])]]
           Solves(it) == it = [s \in SUBSET (1 .. n) |->
                                 IF s = {} THEN NoCount
                                 ELSE Counted(it[s \ {Max(s)}],
                                              records[Max(s)])]
           it == CHOOSE it : Solves(it)
           h == [i \in 0 .. n |-> it[1 .. i]]
<1>1. n \in Nat /\ DOMAIN records = 1 .. n /\ NoCount \in S
  BY DEF NoCount
<1>2. step \in [1 .. n -> [S -> S]]
  <2>1. ASSUME NEW c \in S, NEW i \in 1 .. n PROVE Counted(c, records[i]) \in S
    BY DEF Counted
  <2>2. QED BY <2>1
<1>3. PICK f \in [SUBSET (1 .. n) -> S] : Folds(f, n, NoCount, step)
  <2> HIDE DEF n, S, step
  <2>1. QED BY <1>1, <1>2, Foldable
<1>4. Solves(f)
  <2>1. ASSUME NEW s \in SUBSET (1 .. n), s # {}
        PROVE  step[Max(s)][f[s \ {Max(s)}]] =
                 Counted(f[s \ {Max(s)}], records[Max(s)])
    <3>1. Max(s) \in 1 .. n
      BY <1>1, <2>1, LastPlace
    <3>2. f[s \ {Max(s)}] \in S
      BY <1>3
    <3> HIDE DEF S, n
    <3>3. QED BY <3>1, <3>2
  <2>2. \A s \in SUBSET (1 .. n) :
          f[s] = IF s = {} THEN NoCount
                 ELSE Counted(f[s \ {Max(s)}], records[Max(s)])
    <3> HIDE DEF step
    <3>1. QED BY <1>3, <2>1 DEF Folds
  <2> HIDE DEF S, n, step
  <2>3. QED BY <1>3, <2>2
<1>5. Solves(it)
  <2> HIDE DEF Solves
  <2>1. QED BY <1>4
<1>6. Recounted(records) = it[1 .. n]
  BY <1>1, Zenon DEF Recounted, FoldLeft, MapThenFoldSet
<1>7. \A s \in SUBSET (1 .. n) :
        it[s] = IF s = {} THEN NoCount
                ELSE Counted(it[s \ {Max(s)}], records[Max(s)])
  <2> HIDE DEF it, n
  <2>1. QED BY <1>5
<1> HIDE DEF it, n
<1>8. StepsOf(h, it, n)
  BY <1>1, FoldSteps
<1> HIDE DEF h
<1>9. h[0] = NoCount /\ h[n] = it[1 .. n]
  BY <1>7, <1>8 DEF StepsOf
<1>10. ASSUME NEW i \in 1 .. n PROVE h[i] = Counted(h[i - 1], records[i])
  BY <1>7, <1>8 DEF StepsOf
<1>11. QED BY <1>6, <1>9, <1>10 DEF n

\* Records without repetition are counted once each, and nothing else is.
LEMMA RecountOnce ==
  ASSUME NEW records \in Seq(Turns), IsInjective(records)
  PROVE  /\ Recounted(records) \in [Turns -> {0, 1}]
         /\ \A t \in Turns \ ToSet(records) : Recounted(records)[t] = 0
<1> DEFINE n == Len(records)
           Up(i) == {records[k] : k \in 1 .. i}
<1>1. n \in Nat /\ \A i \in 1 .. n : records[i] \in Turns
  OBVIOUS
<1>2. PICK h : /\ h[0] = NoCount /\ h[n] = Recounted(records)
               /\ \A i \in 1 .. n : h[i] = Counted(h[i - 1], records[i])
  BY RecountSteps
<1> DEFINE T == {i \in Nat : i <= n =>
                   /\ h[i] \in [Turns -> {0, 1}]
                   /\ \A t \in Turns \ Up(i) : h[i][t] = 0}
<1>3. 0 \in T
  BY <1>2 DEF NoCount
<1>4. ASSUME NEW i \in Nat, i \in T PROVE i + 1 \in T
  <2> SUFFICES ASSUME i + 1 <= n
               PROVE  /\ h[i + 1] \in [Turns -> {0, 1}]
                      /\ \A t \in Turns \ Up(i + 1) : h[i + 1][t] = 0
    <3>1. i + 1 \in Nat
      OBVIOUS
    <3> HIDE DEF n, Up
    <3>2. QED BY <3>1
  <2>1. i <= n /\ i + 1 \in 1 .. n /\ (i + 1) - 1 = i
    BY <1>1
  <2>2. h[i] \in [Turns -> {0, 1}] /\ \A t \in Turns \ Up(i) : h[i][t] = 0
    BY <1>4, <2>1
  <2>3. h[i + 1] = [h[i] EXCEPT ![records[i + 1]] = @ + 1]
    <3>1. h[i + 1] = Counted(h[(i + 1) - 1], records[i + 1])
      BY <1>2, <2>1
    <3>2. QED BY <2>1, <3>1 DEF Counted
  <2>4. records[i + 1] \in Turns /\ records[i + 1] \notin Up(i)
    <3>1. ASSUME NEW k \in 1 .. i, records[k] = records[i + 1] PROVE FALSE
      <4>1. k \in 1 .. n /\ k # i + 1
        BY <1>1, <2>1
      <4>2. QED BY <2>1, <3>1, <4>1, Distinct
    <3>2. QED BY <1>1, <2>1, <3>1
  <2>5. h[i][records[i + 1]] = 0
    BY <2>2, <2>4
  <2>6. Up(i) \subseteq Up(i + 1) /\ records[i + 1] \in Up(i + 1)
    OBVIOUS
  <2> HIDE DEF Up
  <2>7. h[i + 1] \in [Turns -> {0, 1}]
    BY <2>2, <2>3, <2>4, <2>5
  <2>8. ASSUME NEW t \in Turns \ Up(i + 1) PROVE h[i + 1][t] = 0
    BY <2>2, <2>3, <2>4, <2>6
  <2>9. QED BY <2>7, <2>8
<1>5. Nat \subseteq T
  <2> HIDE DEF T
  <2>1. QED BY <1>3, <1>4, Inductive
<1>6. n \in T /\ n <= n
  <2> HIDE DEF T
  <2>1. QED BY <1>1, <1>5
<1>7. Up(n) \subseteq ToSet(records)
  BY Holds
<1>8. /\ h[n] \in [Turns -> {0, 1}]
      /\ \A t \in Turns \ Up(n) : h[n][t] = 0
  <2> HIDE DEF Up
  <2>1. QED BY <1>6
<1> HIDE DEF Up, T, n
<1>9. QED BY <1>2, <1>7, <1>8

----------------------------------------------------------------------------
(* The recent routes and the records read back. *)

\* A sequence of turns without repetition that holds only turns of d.
Listing(r, d) == r \in Seq(Turns) /\ IsInjective(r) /\ ToSet(r) \subseteq d

\* The ring is such a list, and not too long.
Routes(r, d) == Listing(r, d) /\ Len(r) <= RingCap

\* The ring takes a record it does not hold.
LEMMA EmitKeeps ==
  ASSUME NEW d, NEW r, Routes(r, d), NEW t \in Turns, t \notin ToSet(r)
  PROVE  Routes(Emitted(r, t), d \cup {t})
<1>1. r \in Seq(Turns) /\ IsInjective(r) /\ Len(r) <= RingCap
      /\ ToSet(r) \subseteq d /\ Len(r) \in Nat
  BY DEF Routes, Listing
<1>2. RingCap \in Nat \ {0}
  BY BoundsAssumption
<1>3. CASE Len(r) < RingCap
  <2>1. Emitted(r, t) = Append(r, t)
    BY <1>3 DEF Emitted
  <2>2. /\ Append(r, t) \in Seq(Turns) /\ IsInjective(Append(r, t))
        /\ ToSet(Append(r, t)) = ToSet(r) \cup {t}
    BY <1>1, DistinctAppend, HoldsAppend
  <2>3. Len(Append(r, t)) = Len(r) + 1
    BY <1>1
  <2>4. QED BY <1>1, <1>2, <1>3, <2>1, <2>2, <2>3 DEF Routes, Listing
<1>4. CASE ~(Len(r) < RingCap)
  <2>1. Emitted(r, t) = Append(Tail(r), t)
    BY <1>4 DEF Emitted
  <2>2. r # <<>>
    BY <1>1, <1>2, <1>4
  <2>3. /\ Tail(r) \in Seq(Turns) /\ Len(Tail(r)) = Len(r) - 1
        /\ IsInjective(Tail(r)) /\ ToSet(Tail(r)) \subseteq ToSet(r)
    BY <1>1, <2>2, DistinctTail
  <2> DEFINE u == Tail(r)
  <2> HIDE DEF u
  <2>4. u \in Seq(Turns) /\ IsInjective(u) /\ t \notin ToSet(u)
        /\ Len(u) = Len(r) - 1 /\ ToSet(u) \subseteq ToSet(r)
    BY <2>3 DEF u
  <2>5. /\ Append(u, t) \in Seq(Turns) /\ IsInjective(Append(u, t))
        /\ ToSet(Append(u, t)) = ToSet(u) \cup {t}
    BY <2>4, DistinctAppend, HoldsAppend
  <2>6. Len(Append(u, t)) = Len(u) + 1
    BY <2>4
  <2>7. Routes(Append(u, t), d \cup {t})
    BY <1>1, <1>2, <2>4, <2>5, <2>6 DEF Routes, Listing
  <2>8. QED BY <2>1, <2>7 DEF u
<1>5. QED BY <1>3, <1>4

\* The groups read so far: lists of records of d, none empty, and never two
\* of the same session.
Grouped(g, d) ==
  /\ g \in Seq(Seq(Turns))
  /\ \A a \in 1 .. Len(g) : g[a] # <<>> /\ Listing(g[a], d)
  /\ \A a, b \in 1 .. Len(g) :
       \A x \in ToSet(g[a]), y \in ToSet(g[b]) :
         SessionOf[x] = SessionOf[y] <=> a = b

LEMMA TailPlaces ==
  ASSUME NEW S, NEW s \in Seq(S), s # <<>>
  PROVE  /\ Tail(s) \in Seq(S) /\ Len(Tail(s)) = Len(s) - 1
         /\ \A a \in 1 .. Len(s) - 1 : Tail(s)[a] = s[a + 1]
OBVIOUS

\* A record that was not read yet joins its session or opens a group.
LEMMA SessionAdds ==
  ASSUME NEW d, NEW g, Grouped(g, d), NEW t \in Turns, t \notin d
  PROVE  Grouped(AddToSession(g, t), d \cup {t})
<1> DEFINE e == d \cup {t}
           new == AddToSession(g, t)
           mine(i) == SessionOf[g[i][1]] = SessionOf[t]
<1>1. /\ g \in Seq(Seq(Turns)) /\ Len(g) \in Nat /\ DOMAIN g = 1 .. Len(g)
      /\ \A a \in 1 .. Len(g) : g[a] \in Seq(Turns)
  BY DEF Grouped
<1>2. ASSUME NEW a \in 1 .. Len(g)
      PROVE  /\ g[a] # <<>> /\ IsInjective(g[a]) /\ ToSet(g[a]) \subseteq d
             /\ g[a][1] \in ToSet(g[a]) /\ Listing(g[a], e)
  <2>1. g[a] # <<>> /\ Listing(g[a], d)
    BY DEF Grouped
  <2>2. g[a] \in Seq(Turns) /\ IsInjective(g[a]) /\ ToSet(g[a]) \subseteq d
    BY <2>1 DEF Listing
  <2>3. 1 \in 1 .. Len(g[a])
    BY <2>1, <2>2
  <2>4. g[a][1] \in ToSet(g[a])
    BY <2>2, <2>3, Holds
  <2>5. QED BY <2>1, <2>2, <2>4 DEF Listing
<1>3. ASSUME NEW a \in 1 .. Len(g), NEW b \in 1 .. Len(g),
             NEW x \in ToSet(g[a]), NEW y \in ToSet(g[b])
      PROVE  SessionOf[x] = SessionOf[y] <=> a = b
  BY DEF Grouped
<1>4. ASSUME NEW a \in 1 .. Len(g), NEW x \in ToSet(g[a])
      PROVE  SessionOf[x] = SessionOf[t] <=> mine(a)
  <2>1. SessionOf[x] = SessionOf[g[a][1]]
    <3>1. g[a][1] \in ToSet(g[a])
      BY <1>2
    <3>2. SessionOf[x] = SessionOf[g[a][1]] <=> a = a
      BY <1>3, <3>1
    <3>3. QED BY ONLY <3>2
  <2>2. QED BY ONLY <2>1 DEF mine
<1>5. CASE \E i \in 1 .. Len(g) : mine(i)
  <2>1. PICK i \in 1 .. Len(g) : mine(i)
    BY <1>5, Zenon
  <2>2. new = [j \in 1 .. Len(g) |-> IF mine(j) THEN Append(g[j], t) ELSE g[j]]
    BY <1>1, <1>5 DEF AddToSession
  <2>3. ASSUME NEW j \in 1 .. Len(g)
        PROVE  mine(j) <=> j = i
    <3>1. g[i][1] \in ToSet(g[i]) /\ g[j][1] \in ToSet(g[j])
      BY <1>2
    <3>2. SessionOf[g[j][1]] = SessionOf[g[i][1]] <=> j = i
      BY <1>3, <3>1
    <3>3. QED BY <2>1, <3>2
  <2>4. ASSUME NEW j \in 1 .. Len(g)
        PROVE  /\ new[j] = IF j = i THEN Append(g[i], t) ELSE g[j]
               /\ new[j] \in Seq(Turns)
    <3>1. new[j] = IF mine(j) THEN Append(g[j], t) ELSE g[j]
      BY <2>2
    <3> HIDE DEF mine, new
    <3>2. new[j] = IF j = i THEN Append(g[i], t) ELSE g[j]
      BY <2>3, <3>1
    <3>3. QED BY <1>1, <3>2
  <2>5. new \in Seq(Seq(Turns)) /\ Len(new) = Len(g)
    <3>1. new = [j \in 1 .. Len(g) |-> new[j]]
      BY <2>2
    <3> HIDE DEF new
    <3>2. QED BY <1>1, <2>4, <3>1
  <2>6. /\ Append(g[i], t) \in Seq(Turns) /\ Append(g[i], t) # <<>>
        /\ IsInjective(Append(g[i], t))
        /\ ToSet(Append(g[i], t)) = ToSet(g[i]) \cup {t}
    <3>1. g[i] \in Seq(Turns) /\ IsInjective(g[i]) /\ t \notin ToSet(g[i])
      BY <1>1, <1>2
    <3> DEFINE u == g[i]
    <3> HIDE DEF u
    <3>2. u \in Seq(Turns) /\ IsInjective(u) /\ t \notin ToSet(u)
      BY <3>1 DEF u
    <3>3. /\ Append(u, t) \in Seq(Turns) /\ Append(u, t) # <<>>
          /\ IsInjective(Append(u, t))
          /\ ToSet(Append(u, t)) = ToSet(u) \cup {t}
      BY <3>2, DistinctAppend, HoldsAppend
    <3>4. QED BY <3>3 DEF u
  <2>7. ASSUME NEW a \in 1 .. Len(g)
        PROVE  /\ new[a] # <<>> /\ Listing(new[a], e)
               /\ \A x \in ToSet(new[a]) : SessionOf[x] = SessionOf[g[a][1]]
    <3>1. CASE a = i
      <4>1. new[a] = Append(g[i], t)
        BY <2>4, <3>1
      <4>2. \A x \in ToSet(g[i]) \cup {t} : SessionOf[x] = SessionOf[g[i][1]]
        BY <1>4, <2>1
      <4>3. ToSet(g[i]) \subseteq e /\ t \in e
        BY <1>2
      <4> HIDE DEF new, mine, e
      <4>4. QED BY <2>6, <3>1, <4>1, <4>2, <4>3 DEF Listing
    <3>2. CASE a # i
      <4>1. new[a] = g[a]
        BY <2>4, <3>2
      <4>2. \A x \in ToSet(g[a]) : SessionOf[x] = SessionOf[g[a][1]]
        BY <1>2, <1>3
      <4> HIDE DEF new, mine, e
      <4>3. QED BY <1>2, <4>1, <4>2
    <3>3. QED BY <3>1, <3>2
  <2>8. ASSUME NEW a \in 1 .. Len(g), NEW b \in 1 .. Len(g),
               NEW x \in ToSet(new[a]), NEW y \in ToSet(new[b])
        PROVE  SessionOf[x] = SessionOf[y] <=> a = b
    <3>1. /\ SessionOf[x] = SessionOf[g[a][1]]
          /\ SessionOf[y] = SessionOf[g[b][1]]
          /\ g[a][1] \in ToSet(g[a]) /\ g[b][1] \in ToSet(g[b])
      BY <1>2, <2>7
    <3>2. SessionOf[g[a][1]] = SessionOf[g[b][1]] <=> a = b
      BY <1>3, <3>1
    <3>3. QED BY <3>1, <3>2
  <2> HIDE DEF new, e
  <2>9. /\ \A a \in 1 .. Len(new) : new[a] # <<>> /\ Listing(new[a], e)
        /\ \A a, b \in 1 .. Len(new) :
             \A x \in ToSet(new[a]), y \in ToSet(new[b]) :
               SessionOf[x] = SessionOf[y] <=> a = b
    <3>1. \A a \in 1 .. Len(new) : new[a] # <<>> /\ Listing(new[a], e)
      BY <2>5, <2>7
    <3>2. \A a, b \in 1 .. Len(g) :
            \A x \in ToSet(new[a]), y \in ToSet(new[b]) :
              SessionOf[x] = SessionOf[y] <=> a = b
      BY <2>8
    <3>3. Len(new) = Len(g)
      BY <2>5
    <3>4. QED BY ONLY <3>1, <3>2, <3>3
  <2>10. new \in Seq(Seq(Turns))
    BY <2>5
  <2>11. Grouped(new, e)
    BY ONLY <2>9, <2>10 DEF Grouped
  <2>12. QED BY ONLY <2>11 DEF new, e
<1>6. CASE ~\E i \in 1 .. Len(g) : mine(i)
  <2> DEFINE k == IF Len(g) = HydrateSessions THEN 1 ELSE 0
             old == IF Len(g) = HydrateSessions THEN Tail(g) ELSE g
             m == Len(g) - k
  <2>1. HydrateSessions \in Nat \ {0}
    BY BoundsAssumption
  <2>2. new = Append(old, <<t>>)
    BY <1>1, <1>6 DEF AddToSession
  <2>3. /\ k \in {0, 1} /\ m \in Nat /\ k + m = Len(g)
        /\ old \in Seq(Seq(Turns)) /\ Len(old) = m
        /\ \A a \in 1 .. m : old[a] = g[a + k] /\ a + k \in 1 .. Len(g)
    <3>1. CASE Len(g) = HydrateSessions
      <4>1. g # <<>> /\ k = 1 /\ old = Tail(g)
        BY <2>1, <3>1
      <4>2. /\ Tail(g) \in Seq(Seq(Turns)) /\ Len(Tail(g)) = Len(g) - 1
            /\ \A a \in 1 .. Len(g) - 1 : Tail(g)[a] = g[a + 1]
        <5>1. g \in Seq(Seq(Turns)) /\ g # <<>>
          BY <1>1, <4>1
        <5>2. QED BY ONLY <5>1, TailPlaces, Zenon
      <4>3. m = Len(g) - 1 /\ Len(g) \in Nat \ {0}
        BY <1>1, <2>1, <3>1, <4>1
      <4> HIDE DEF k, old, m
      <4>4. \A a \in 1 .. m : a + k \in 1 .. Len(g)
        BY ONLY <4>1, <4>3
      <4>5. \A a \in 1 .. m : old[a] = g[a + k]
        BY ONLY <4>1, <4>2, <4>3
      <4>6. k \in {0, 1} /\ m \in Nat /\ k + m = Len(g)
        BY ONLY <4>1, <4>3
      <4>7. QED BY <4>1, <4>2, <4>3, <4>4, <4>5, <4>6
    <3>2. CASE Len(g) # HydrateSessions
      <4>1. k = 0 /\ old = g /\ m = Len(g)
        BY <1>1, <3>2
      <4> HIDE DEF k, old, m
      <4>2. \A a \in 1 .. m : old[a] = g[a + k] /\ a + k \in 1 .. Len(g)
        BY <1>1, <4>1
      <4>3. QED BY <1>1, <4>1, <4>2
    <3>3. QED BY <3>1, <3>2
  <2> HIDE DEF k, old, m
  <2> DEFINE one == <<t>>
  <2>4. one \in Seq(Turns) /\ one # <<>> /\ Listing(one, e)
        /\ ToSet(one) = {t}
    <3> DEFINE none == <<>>
    <3>1. none \in Seq(Turns) /\ IsInjective(none) /\ ToSet(none) = {}
      BY Nothing
    <3>2. one = Append(none, t) /\ one # <<>>
      OBVIOUS
    <3> HIDE DEF none, one, new, old
    <3>3. /\ Append(none, t) \in Seq(Turns) /\ IsInjective(Append(none, t))
          /\ ToSet(Append(none, t)) = ToSet(none) \cup {t}
      BY <3>1, DistinctAppend, HoldsAppend
    <3>4. QED BY <3>1, <3>2, <3>3 DEF Listing
  <2>5. /\ new \in Seq(Seq(Turns)) /\ Len(new) = m + 1 /\ new[m + 1] = one
        /\ \A a \in 1 .. m : new[a] = g[a + k] /\ a + k \in 1 .. Len(g)
    <3> HIDE DEF one, new
    <3>1. one \in Seq(Turns) /\ new = Append(old, one)
      BY <2>2, <2>4 DEF one
    <3>2. /\ Append(old, one) \in Seq(Seq(Turns))
          /\ Len(Append(old, one)) = m + 1 /\ Append(old, one)[m + 1] = one
          /\ \A a \in 1 .. m : Append(old, one)[a] = old[a]
      BY ONLY <2>3, <3>1
    <3>3. QED BY ONLY <2>3, <3>1, <3>2
  <2> HIDE DEF one, new, e
  <2>6. ASSUME NEW a \in 1 .. m + 1
        PROVE  \/ a = m + 1 /\ new[a] = one
               \/ a \in 1 .. m /\ a + k \in 1 .. Len(g) /\ new[a] = g[a + k]
    BY <2>3, <2>5
  <2>7. ASSUME NEW a \in 1 .. m + 1
        PROVE  new[a] # <<>> /\ Listing(new[a], e)
    BY <1>2, <2>4, <2>6
  <2>8. ASSUME NEW a \in 1 .. m + 1, NEW b \in 1 .. m + 1,
               NEW x \in ToSet(new[a]), NEW y \in ToSet(new[b])
        PROVE  SessionOf[x] = SessionOf[y] <=> a = b
    <3>1. ASSUME NEW c \in 1 .. Len(g), NEW z \in ToSet(g[c])
          PROVE  SessionOf[z] # SessionOf[t]
      BY <1>4, <1>6
    <3>2. CASE a = m + 1 /\ b = m + 1
      BY <2>4, <2>5, <3>2
    <3>3. CASE a = m + 1 /\ b # m + 1
      <4>1. x = t /\ b + k \in 1 .. Len(g) /\ y \in ToSet(g[b + k])
        <5>1. new[a] = one
          BY <2>5, <3>3
        <5>2. b + k \in 1 .. Len(g) /\ new[b] = g[b + k]
          BY <2>6, <3>3
        <5>3. QED BY <2>4, <5>1, <5>2
      <4>2. QED BY <3>1, <3>3, <4>1
    <3>4. CASE a # m + 1 /\ b = m + 1
      <4>1. y = t /\ a + k \in 1 .. Len(g) /\ x \in ToSet(g[a + k])
        <5>1. new[b] = one
          BY <2>5, <3>4
        <5>2. a + k \in 1 .. Len(g) /\ new[a] = g[a + k]
          BY <2>6, <3>4
        <5>3. QED BY <2>4, <5>1, <5>2
      <4>2. QED BY <3>1, <3>4, <4>1
    <3>5. CASE a # m + 1 /\ b # m + 1
      <4>1. /\ a + k \in 1 .. Len(g) /\ x \in ToSet(g[a + k])
            /\ b + k \in 1 .. Len(g) /\ y \in ToSet(g[b + k])
        BY <2>6, <3>5
      <4>2. SessionOf[x] = SessionOf[y] <=> a + k = b + k
        BY <1>3, <4>1
      <4>3. QED BY <2>3, <4>2
    <3>6. QED BY <3>2, <3>3, <3>4, <3>5
  <2>9. QED BY <2>5, <2>7, <2>8 DEF Grouped, new, e
<1>7. QED BY <1>5, <1>6

LEMMA FunctionsAsSeqs ==
  ASSUME NEW S, NEW n \in Nat, NEW f \in [1 .. n -> S]
  PROVE  f \in Seq(S) /\ Len(f) = n
OBVIOUS

\* Whatever is read, the groups are sequences of turns.
LEMMA SessionTyped ==
  ASSUME NEW g \in Seq(Seq(Turns)), NEW t \in Turns
  PROVE  AddToSession(g, t) \in Seq(Seq(Turns))
<1> DEFINE one == <<t>>
<1>1. one \in Seq(Turns) /\ DOMAIN g = 1 .. Len(g) /\ Len(g) \in Nat
  OBVIOUS
<1> HIDE DEF one
<1>2. Append(g, one) \in Seq(Seq(Turns))
  BY <1>1
<1>3. CASE \E i \in DOMAIN g : SessionOf[g[i][1]] = SessionOf[t]
  <2>1. ASSUME NEW i \in 1 .. Len(g)
        PROVE  g[i] \in Seq(Turns) /\ Append(g[i], t) \in Seq(Turns)
    <3>1. g[i] \in Seq(Turns)
      OBVIOUS
    <3> DEFINE u == g[i]
    <3> HIDE DEF u
    <3>2. u \in Seq(Turns) => Append(u, t) \in Seq(Turns)
      BY HoldsAppend, Zenon
    <3>3. QED BY <3>1, <3>2 DEF u
  <2>2. AddToSession(g, t) =
          [i \in 1 .. Len(g) |-> IF SessionOf[g[i][1]] = SessionOf[t]
                                 THEN Append(g[i], t) ELSE g[i]]
    BY <1>1, <1>3 DEF AddToSession
  <2>3. AddToSession(g, t) \in [1 .. Len(g) -> Seq(Turns)]
    <3> DEFINE v(i) == IF SessionOf[g[i][1]] = SessionOf[t]
                       THEN Append(g[i], t) ELSE g[i]
    <3>1. \A i \in 1 .. Len(g) : v(i) \in Seq(Turns)
      BY <2>1, Zenon
    <3> HIDE DEF v
    <3>2. [i \in 1 .. Len(g) |-> v(i)] \in [1 .. Len(g) -> Seq(Turns)]
      BY ONLY <3>1
    <3>3. QED BY <2>2, <3>2, Zenon DEF v
  <2> DEFINE new == AddToSession(g, t)
  <2> HIDE DEF new
  <2>4. new \in [1 .. Len(g) -> Seq(Turns)] => new \in Seq(Seq(Turns))
    BY <1>1, FunctionsAsSeqs
  <2>5. QED BY <2>3, <2>4 DEF new
<1>4. CASE ~\E i \in DOMAIN g : SessionOf[g[i][1]] = SessionOf[t]
  <2>1. CASE Len(g) = HydrateSessions
    <3>1. AddToSession(g, t) = Append(Tail(g), one)
      BY <1>4, <2>1 DEF AddToSession, one
    <3>2. g # <<>>
      BY <2>1, BoundsAssumption
    <3>3. Tail(g) \in Seq(Seq(Turns))
      BY <3>2, TailPlaces
    <3> DEFINE u == Tail(g)
    <3> HIDE DEF u
    <3>4. u \in Seq(Seq(Turns)) => Append(u, one) \in Seq(Seq(Turns))
      BY <1>1
    <3>5. QED BY <3>1, <3>3, <3>4 DEF u
  <2>2. CASE Len(g) # HydrateSessions
    <3>1. AddToSession(g, t) = Append(g, one)
      BY <1>4, <2>2 DEF AddToSession, one
    <3>2. QED BY <1>2, <3>1
  <2>3. QED BY <2>1, <2>2
<1>5. QED BY <1>3, <1>4

\* ... and the ring is one.
LEMMA EmitTyped ==
  ASSUME NEW r \in Seq(Turns), NEW t \in Turns
  PROVE  Emitted(r, t) \in Seq(Turns)
<1>1. CASE Len(r) < RingCap
  BY <1>1 DEF Emitted
<1>2. CASE ~(Len(r) < RingCap)
  <2>1. r # <<>>
    BY <1>2, BoundsAssumption
  <2>2. Tail(r) \in Seq(Turns)
    BY <2>1
  <2>3. QED BY <1>2, <2>2 DEF Emitted
<1>3. QED BY <1>1, <1>2

\* The groups of the records read, and the recent routes after a replay.
Sessions(records) == FoldLeft(AddToSession, <<>>, records)
Replayed(records) == FoldLeft(Emitted, <<>>, records)

\* Reading records one after the other.
LEMMA SessionSteps ==
  ASSUME NEW records \in Seq(Turns)
  PROVE  \E h : /\ h[0] = <<>> /\ h[Len(records)] = Sessions(records)
                /\ \A i \in 1 .. Len(records) :
                     h[i] = AddToSession(h[i - 1], records[i])
<1> DEFINE n == Len(records)
           S == Seq(Seq(Turns))
           none == <<>>
           step == [i \in 1 .. n |-> [c \in S |-> AddToSession(c, records[i])]]
           Solves(it) == it = [s \in SUBSET (1 .. n) |->
                                 IF s = {} THEN <<>>
                                 ELSE AddToSession(it[s \ {Max(s)}],
                                              records[Max(s)])]
           it == CHOOSE it : Solves(it)
           h == [i \in 0 .. n |-> it[1 .. i]]
<1>1. n \in Nat /\ DOMAIN records = 1 .. n /\ none \in S
  OBVIOUS
<1>2. step \in [1 .. n -> [S -> S]]
  <2>1. ASSUME NEW c \in S, NEW i \in 1 .. n
        PROVE  AddToSession(c, records[i]) \in S
    <3>1. records[i] \in Turns
      OBVIOUS
    <3>2. QED BY <3>1, SessionTyped
  <2> HIDE DEF S
  <2>2. QED BY <2>1
<1>3. PICK f \in [SUBSET (1 .. n) -> S] : Folds(f, n, none, step)
  <2> HIDE DEF n, S, step, none
  <2>1. QED BY <1>1, <1>2, Foldable
<1>4. Solves(f)
  <2>1. ASSUME NEW s \in SUBSET (1 .. n), s # {}
        PROVE  step[Max(s)][f[s \ {Max(s)}]] =
                 AddToSession(f[s \ {Max(s)}], records[Max(s)])
    <3>1. Max(s) \in 1 .. n
      BY <1>1, <2>1, LastPlace
    <3>2. f[s \ {Max(s)}] \in S
      BY <1>3
    <3> HIDE DEF S, n
    <3>3. QED BY <3>1, <3>2
  <2>2. \A s \in SUBSET (1 .. n) :
          f[s] = IF s = {} THEN none
                 ELSE AddToSession(f[s \ {Max(s)}], records[Max(s)])
    <3> HIDE DEF step, none
    <3>1. QED BY <1>3, <2>1 DEF Folds
  <2> HIDE DEF S, n, step
  <2>3. QED BY <1>3, <2>2
<1>5. Solves(it)
  <2> HIDE DEF Solves
  <2>1. QED BY <1>4
<1>6. Sessions(records) = it[1 .. n]
  BY <1>1, Zenon DEF Sessions, FoldLeft, MapThenFoldSet
<1>7. \A s \in SUBSET (1 .. n) :
        it[s] = IF s = {} THEN none
                ELSE AddToSession(it[s \ {Max(s)}], records[Max(s)])
  <2> HIDE DEF it, n
  <2>1. QED BY <1>5
<1> HIDE DEF it, n, none
<1>8. StepsOf(h, it, n)
  BY <1>1, FoldSteps
<1> HIDE DEF h
<1>9. h[0] = none /\ h[n] = it[1 .. n]
  BY <1>7, <1>8 DEF StepsOf
<1>10. ASSUME NEW i \in 1 .. n PROVE h[i] = AddToSession(h[i - 1], records[i])
  BY <1>7, <1>8 DEF StepsOf
<1>11. QED BY <1>6, <1>9, <1>10 DEF n, none

\* Replaying records one after the other.
LEMMA ReplaySteps ==
  ASSUME NEW records \in Seq(Turns)
  PROVE  \E h : /\ h[0] = <<>> /\ h[Len(records)] = Replayed(records)
                /\ \A i \in 1 .. Len(records) :
                     h[i] = Emitted(h[i - 1], records[i])
<1> DEFINE n == Len(records)
           S == Seq(Turns)
           none == <<>>
           step == [i \in 1 .. n |-> [c \in S |-> Emitted(c, records[i])]]
           Solves(it) == it = [s \in SUBSET (1 .. n) |->
                                 IF s = {} THEN <<>>
                                 ELSE Emitted(it[s \ {Max(s)}],
                                              records[Max(s)])]
           it == CHOOSE it : Solves(it)
           h == [i \in 0 .. n |-> it[1 .. i]]
<1>1. n \in Nat /\ DOMAIN records = 1 .. n /\ none \in S
  OBVIOUS
<1>2. step \in [1 .. n -> [S -> S]]
  <2>1. ASSUME NEW c \in S, NEW i \in 1 .. n
        PROVE  Emitted(c, records[i]) \in S
    <3>1. records[i] \in Turns
      OBVIOUS
    <3>2. QED BY <3>1, EmitTyped
  <2> HIDE DEF S
  <2>2. QED BY <2>1
<1>3. PICK f \in [SUBSET (1 .. n) -> S] : Folds(f, n, none, step)
  <2> HIDE DEF n, S, step, none
  <2>1. QED BY <1>1, <1>2, Foldable
<1>4. Solves(f)
  <2>1. ASSUME NEW s \in SUBSET (1 .. n), s # {}
        PROVE  step[Max(s)][f[s \ {Max(s)}]] =
                 Emitted(f[s \ {Max(s)}], records[Max(s)])
    <3>1. Max(s) \in 1 .. n
      BY <1>1, <2>1, LastPlace
    <3>2. f[s \ {Max(s)}] \in S
      BY <1>3
    <3> HIDE DEF S, n
    <3>3. QED BY <3>1, <3>2
  <2>2. \A s \in SUBSET (1 .. n) :
          f[s] = IF s = {} THEN none
                 ELSE Emitted(f[s \ {Max(s)}], records[Max(s)])
    <3> HIDE DEF step, none
    <3>1. QED BY <1>3, <2>1 DEF Folds
  <2> HIDE DEF S, n, step
  <2>3. QED BY <1>3, <2>2
<1>5. Solves(it)
  <2> HIDE DEF Solves
  <2>1. QED BY <1>4
<1>6. Replayed(records) = it[1 .. n]
  BY <1>1, Zenon DEF Replayed, FoldLeft, MapThenFoldSet
<1>7. \A s \in SUBSET (1 .. n) :
        it[s] = IF s = {} THEN none
                ELSE Emitted(it[s \ {Max(s)}], records[Max(s)])
  <2> HIDE DEF it, n
  <2>1. QED BY <1>5
<1> HIDE DEF it, n, none
<1>8. StepsOf(h, it, n)
  BY <1>1, FoldSteps
<1> HIDE DEF h
<1>9. h[0] = none /\ h[n] = it[1 .. n]
  BY <1>7, <1>8 DEF StepsOf
<1>10. ASSUME NEW i \in 1 .. n PROVE h[i] = Emitted(h[i - 1], records[i])
  BY <1>7, <1>8 DEF StepsOf
<1>11. QED BY <1>6, <1>9, <1>10 DEF n, none

\* The records before place i of a list, and the one at it.
LEMMA ListingGrows ==
  ASSUME NEW records \in Seq(Turns), IsInjective(records),
         NEW i \in Nat, i + 1 <= Len(records)
  PROVE  LET up == {records[k] : k \in 1 .. i}
         IN  /\ records[i + 1] \in Turns /\ records[i + 1] \notin up
             /\ {records[k] : k \in 1 .. i + 1} = up \cup {records[i + 1]}
<1> DEFINE up == {records[k] : k \in 1 .. i}
           more == {records[k] : k \in 1 .. i + 1}
<1>1. i + 1 \in 1 .. Len(records) /\ records[i + 1] \in Turns
  OBVIOUS
<1>2. ASSUME NEW k \in 1 .. i, records[k] = records[i + 1] PROVE FALSE
  <2>1. k \in 1 .. Len(records) /\ k # i + 1
    BY <1>1
  <2>2. QED BY <1>1, <1>2, <2>1, Distinct
<1>3. records[i + 1] \notin up
  BY <1>2
<1>4. more \subseteq up \cup {records[i + 1]}
  <2>1. ASSUME NEW k \in 1 .. i + 1
        PROVE  k \in 1 .. i \/ k = i + 1
    OBVIOUS
  <2>2. QED BY <2>1
<1>5. up \cup {records[i + 1]} \subseteq more
  OBVIOUS
<1>6. QED BY <1>1, <1>3, <1>4, <1>5

\* The sessions of a list of records are groups of it.
LEMMA SessionsGrouped ==
  ASSUME NEW records \in Seq(Turns), IsInjective(records)
  PROVE  Grouped(Sessions(records), ToSet(records))
<1> DEFINE n == Len(records)
           Up(i) == {records[k] : k \in 1 .. i}
<1>1. n \in Nat
  OBVIOUS
<1>2. PICK h : /\ h[0] = <<>> /\ h[n] = Sessions(records)
               /\ \A i \in 1 .. n : h[i] = AddToSession(h[i - 1], records[i])
  BY SessionSteps
<1> DEFINE T == {i \in Nat : i <= n => Grouped(h[i], Up(i))}
<1>3. 0 \in T
  <2>1. Grouped(<<>>, Up(0))
    BY DEF Grouped
  <2>2. QED BY <1>2, <2>1
<1>4. ASSUME NEW i \in Nat, i \in T PROVE i + 1 \in T
  <2> SUFFICES ASSUME i + 1 <= n PROVE Grouped(h[i + 1], Up(i + 1))
    <3>1. i + 1 \in Nat
      OBVIOUS
    <3> HIDE DEF n, Up
    <3>2. QED BY <3>1
  <2>1. i <= n /\ i + 1 \in 1 .. n /\ (i + 1) - 1 = i
    BY <1>1
  <2>2. /\ records[i + 1] \in Turns /\ records[i + 1] \notin Up(i)
        /\ Up(i + 1) = Up(i) \cup {records[i + 1]}
    BY ListingGrows
  <2>3. h[i + 1] = AddToSession(h[i], records[i + 1])
    <3> HIDE DEF n
    <3>1. h[i + 1] = AddToSession(h[(i + 1) - 1], records[i + 1])
      BY <1>2, <2>1
    <3>2. QED BY <2>1, <3>1
  <2>4. Grouped(h[i], Up(i))
    BY <1>4, <2>1
  <2> HIDE DEF Up
  <2>5. QED BY <2>2, <2>3, <2>4, SessionAdds
<1>5. Nat \subseteq T
  <2> HIDE DEF T
  <2>1. QED BY <1>3, <1>4, Inductive
<1>6. Grouped(h[n], Up(n))
  <2>1. n \in T /\ n <= n
    <3> HIDE DEF T
    <3>1. QED BY <1>1, <1>5
  <2> HIDE DEF Up
  <2>2. QED BY <2>1
<1>7. Up(n) = ToSet(records)
  <2>1. ASSUME NEW x PROVE x \in Up(n) <=> x \in ToSet(records)
    BY Holds
  <2> HIDE DEF Up
  <2>2. QED BY <2>1
<1> HIDE DEF Up, T, n
<1>8. QED BY <1>2, <1>6, <1>7

\* Replaying a list of records gives recent routes among them.
LEMMA ReplayLists ==
  ASSUME NEW records \in Seq(Turns), IsInjective(records)
  PROVE  Routes(Replayed(records), ToSet(records))
<1> DEFINE n == Len(records)
           Up(i) == {records[k] : k \in 1 .. i}
<1>1. n \in Nat
  OBVIOUS
<1>2. PICK h : /\ h[0] = <<>> /\ h[n] = Replayed(records)
               /\ \A i \in 1 .. n : h[i] = Emitted(h[i - 1], records[i])
  BY ReplaySteps
<1> DEFINE T == {i \in Nat : i <= n => Routes(h[i], Up(i))}
<1>3. 0 \in T
  <2>1. Routes(<<>>, Up(0))
    <3> DEFINE none == <<>>
    <3>1. /\ none \in Seq(Turns) /\ Len(none) = 0 /\ IsInjective(none)
          /\ ToSet(none) = {}
      BY Nothing
    <3>2. 0 <= RingCap
      BY BoundsAssumption
    <3> HIDE DEF none, Up
    <3>3. Routes(none, Up(0))
      BY <3>1, <3>2 DEF Routes, Listing
    <3>4. QED BY <3>3 DEF none
  <2> HIDE DEF Up
  <2>2. QED BY <1>2, <2>1
<1>4. ASSUME NEW i \in Nat, i \in T PROVE i + 1 \in T
  <2> SUFFICES ASSUME i + 1 <= n PROVE Routes(h[i + 1], Up(i + 1))
    <3>1. i + 1 \in Nat
      OBVIOUS
    <3> HIDE DEF n, Up
    <3>2. QED BY <3>1
  <2>1. i <= n /\ i + 1 \in 1 .. n /\ (i + 1) - 1 = i
    BY <1>1
  <2>2. /\ records[i + 1] \in Turns /\ records[i + 1] \notin Up(i)
        /\ Up(i + 1) = Up(i) \cup {records[i + 1]}
    BY ListingGrows
  <2>3. h[i + 1] = Emitted(h[i], records[i + 1])
    <3> HIDE DEF n
    <3>1. h[i + 1] = Emitted(h[(i + 1) - 1], records[i + 1])
      BY <1>2, <2>1
    <3>2. QED BY <2>1, <3>1
  <2>4. Routes(h[i], Up(i))
    BY <1>4, <2>1
  <2>5. records[i + 1] \notin ToSet(h[i])
    BY <2>2, <2>4 DEF Routes, Listing
  <2> HIDE DEF Up
  <2>6. QED BY <2>2, <2>3, <2>4, <2>5, EmitKeeps
<1>5. Nat \subseteq T
  <2> HIDE DEF T
  <2>1. QED BY <1>3, <1>4, Inductive
<1>6. Routes(h[n], Up(n))
  <2>1. n \in T /\ n <= n
    <3> HIDE DEF T
    <3>1. QED BY <1>1, <1>5
  <2> HIDE DEF Up
  <2>2. QED BY <2>1
<1>7. Up(n) = ToSet(records)
  <2>1. ASSUME NEW x PROVE x \in Up(n) <=> x \in ToSet(records)
    BY Holds
  <2> HIDE DEF Up
  <2>2. QED BY <2>1
<1> HIDE DEF Up, T, n
<1>8. QED BY <1>2, <1>6, <1>7

\* The first groups of g, one after the other, up to group i.
Reads(r, g, d, i) ==
  /\ Listing(r, d)
  /\ \A x \in ToSet(r) : \E a \in 1 .. i : x \in ToSet(g[a])

\* Groups written one after the other repeat nothing.
LEMMA FlattenLists ==
  ASSUME NEW d, NEW g, Grouped(g, d)
  PROVE  Listing(FlattenSeq(g), d)
<1> DEFINE n == Len(g)
           none == <<>>
           S == Seq(Turns)
           step == [i \in 1 .. n |->
                      [r \in S |-> IF i = 1 THEN g[i] ELSE r \o g[i]]]
           Solves(f) == f = [i \in 1 .. n |->
                               IF i = 1 THEN g[i] ELSE f[i - 1] \o g[i]]
           f == CHOOSE f : Solves(f)
<1>1. /\ g \in Seq(S) /\ n \in Nat /\ none \in S
      /\ \A i \in 1 .. n : g[i] \in S /\ Listing(g[i], d)
  BY DEF Grouped
<1>2. CASE n = 0
  <2>1. FlattenSeq(g) = g /\ g = none
    BY <1>1, <1>2 DEF FlattenSeq
  <2>2. none \in S /\ IsInjective(none) /\ ToSet(none) = {}
    BY Nothing
  <2> HIDE DEF none
  <2>3. QED BY <2>1, <2>2 DEF Listing
<1>3. CASE n # 0
  <2>1. step \in [1 .. n -> [S -> S]]
    <3>1. ASSUME NEW r \in S, NEW i \in 1 .. n
          PROVE  (IF i = 1 THEN g[i] ELSE r \o g[i]) \in S
      <4>1. g[i] \in S
        BY <1>1
      <4> DEFINE u == g[i]
      <4> HIDE DEF u
      <4>2. u \in S => r \o u \in S
        OBVIOUS
      <4>3. QED BY <4>1, <4>2 DEF u
    <3> HIDE DEF S, n
    <3>2. QED BY <3>1
  <2>2. PICK it \in [SUBSET (1 .. n) -> S] : Folds(it, n, none, step)
    <3> HIDE DEF n, S, step, none
    <3>1. QED BY <1>1, <2>1, Foldable
  <2> DEFINE h == [i \in 0 .. n |-> it[1 .. i]]
             e == [i \in 1 .. n |-> h[i]]
  <2>3. StepsOf(h, it, n)
    <3> HIDE DEF n
    <3>1. QED BY <1>1, FoldSteps
  <2>4. ASSUME NEW i \in 1 .. n
        PROVE  h[i - 1] \in S
               /\ h[i] = IF i = 1 THEN g[i] ELSE h[i - 1] \o g[i]
    <3> HIDE DEF n, S
    <3>1. i - 1 \in 0 .. n /\ 1 .. i - 1 \in SUBSET (1 .. n)
      BY <1>1
    <3>2. h[i - 1] \in S
      BY <2>2, <3>1
    <3> HIDE DEF h
    <3>3. h[i] = step[i][h[i - 1]]
      <4> HIDE DEF step
      <4>1. QED BY <2>2, <2>3 DEF Folds, StepsOf
    <3>4. QED BY <3>2, <3>3
  <2>5. Solves(e)
    <3>1. ASSUME NEW i \in 1 .. n
          PROVE  e[i] = IF i = 1 THEN g[i] ELSE e[i - 1] \o g[i]
      <4>1. CASE i = 1
        <5> HIDE DEF h
        <5>1. QED BY <2>4, <4>1
      <4>2. CASE i # 1
        <5>1. i - 1 \in 1 .. n
          BY <1>1, <4>2
        <5> HIDE DEF h
        <5>2. QED BY <2>4, <4>2, <5>1
      <4>3. QED BY <4>1, <4>2
    <3>2. e = [i \in 1 .. n |-> e[i]]
      OBVIOUS
    <3> HIDE DEF e, n
    <3>3. QED BY <3>1, <3>2
  <2>6. Solves(f)
    <3> HIDE DEF Solves
    <3>1. QED BY <2>5
  <2>7. FlattenSeq(g) = f[n]
    BY <1>3, Zenon DEF FlattenSeq
  <2>8. ASSUME NEW i \in 1 .. n
        PROVE  f[i] = IF i = 1 THEN g[i] ELSE f[i - 1] \o g[i]
    <3> HIDE DEF f, n
    <3>1. QED BY <2>6
  <2> HIDE DEF f
  <2> DEFINE T == {i \in Nat : i + 1 <= n => Reads(f[i + 1], g, d, i + 1)}
  <2>9. 0 \in T
    <3>1. 1 \in 1 .. n /\ f[1] = g[1]
      BY <1>1, <1>3, <2>8
    <3>2. Listing(g[1], d)
      BY <1>1, <3>1
    <3>3. Reads(g[1], g, d, 1)
      <4> HIDE DEF n, S
      <4>1. 1 \in 1 .. 1
        OBVIOUS
      <4>2. QED BY <3>2, <4>1 DEF Reads
    <3>4. 0 + 1 = 1 /\ 0 \in Nat
      OBVIOUS
    <3> HIDE DEF n
    <3>5. QED BY <3>1, <3>3, <3>4
  <2>10. ASSUME NEW i \in Nat, i \in T PROVE i + 1 \in T
    <3> SUFFICES ASSUME (i + 1) + 1 <= n
                 PROVE  Reads(f[(i + 1) + 1], g, d, (i + 1) + 1)
      <4>1. i + 1 \in Nat
        OBVIOUS
      <4> HIDE DEF n
      <4>2. QED BY <4>1
    <3> DEFINE j == i + 1
               m == j + 1
    <3>1. /\ m \in 1 .. n /\ m # 1 /\ m - 1 = j /\ j <= n
          /\ 1 .. j \subseteq 1 .. n /\ 1 .. j \subseteq 1 .. m /\ m \in 1 .. m
          /\ m \notin 1 .. j
      BY <1>1
    <3>2. Reads(f[j], g, d, j)
      BY <2>10, <3>1
    <3> HIDE DEF n, m, j
    <3>3. f[m] = f[j] \o g[m]
      <4>1. f[m] = f[m - 1] \o g[m]
        BY <2>8, <3>1
      <4>2. QED BY <3>1, <4>1
    <3> DEFINE r == f[j]
               u == g[m]
    <3>4. /\ Listing(r, d)
          /\ \A x \in ToSet(r) : \E a \in 1 .. j : x \in ToSet(g[a])
      BY <3>2 DEF Reads
    <3>5. Listing(u, d)
      BY <1>1, <3>1
    <3>6. ToSet(r) \cap ToSet(u) = {}
      <4>1. ASSUME NEW x \in ToSet(r), x \in ToSet(u) PROVE FALSE
        <5>1. PICK a \in 1 .. j : x \in ToSet(g[a])
          BY <3>4
        <5>2. a \in 1 .. Len(g) /\ m \in 1 .. Len(g) /\ a # m
          BY <3>1 DEF n
        <5>3. x \in ToSet(g[m])
          BY <4>1
        <5>4. SessionOf[x] = SessionOf[x] <=> a = m
          BY <5>1, <5>2, <5>3 DEF Grouped
        <5>5. QED BY <5>2, <5>4
      <4>2. QED BY <4>1
    <3> HIDE DEF r, u, S
    <3>7. Listing(r \o u, d) /\ ToSet(r \o u) = ToSet(r) \cup ToSet(u)
      <4>1. r \in Seq(Turns) /\ u \in Seq(Turns) /\ IsInjective(r)
            /\ IsInjective(u) /\ ToSet(r) \subseteq d /\ ToSet(u) \subseteq d
        BY <3>4, <3>5 DEF Listing
      <4>2. /\ r \o u \in Seq(Turns) /\ IsInjective(r \o u)
            /\ ToSet(r \o u) = ToSet(r) \cup ToSet(u)
        BY <3>6, <4>1, DistinctConcat
      <4>3. QED BY <4>1, <4>2 DEF Listing
    <3>8. ASSUME NEW x \in ToSet(r \o u)
          PROVE  \E a \in 1 .. m : x \in ToSet(g[a])
      <4>1. CASE x \in ToSet(r)
        BY <3>1, <3>4, <4>1
      <4>2. CASE x \in ToSet(u)
        BY <3>1, <4>2 DEF u
      <4>3. QED BY <3>7, <4>1, <4>2
    <3>9. Reads(r \o u, g, d, m)
      BY <3>7, <3>8 DEF Reads
    <3>10. f[m] = r \o u
      BY <3>3 DEF r, u
    <3>11. QED BY <3>9, <3>10 DEF m, j
  <2>11. Nat \subseteq T
    <3> HIDE DEF T
    <3>1. QED BY <2>9, <2>10, Inductive
  <2>12. Reads(f[n], g, d, n)
    <3>1. n - 1 \in Nat /\ (n - 1) + 1 = n /\ n <= n
      BY <1>1, <1>3
    <3>2. n - 1 \in T
      <4> HIDE DEF T
      <4>1. QED BY <2>11, <3>1
    <3> HIDE DEF n
    <3>3. QED BY <3>1, <3>2
  <2>13. QED BY <2>7, <2>12 DEF Reads
<1>4. QED BY <1>2, <1>3

\* A restart hydrates the ring with records of the log, each once.
LEMMA HydrateLists ==
  ASSUME NEW records \in Seq(Turns), IsInjective(records)
  PROVE  Routes(FoldLeft(Emitted, <<>>, ReadCompleteSessions(records)),
                ToSet(records))
<1> DEFINE read == FlattenSeq(Sessions(records))
<1>1. FoldLeft(Emitted, <<>>, ReadCompleteSessions(records)) = Replayed(read)
  BY Zenon DEF Replayed, ReadCompleteSessions, Sessions
<1>2. Listing(read, ToSet(records))
  BY SessionsGrouped, FlattenLists
<1> HIDE DEF read
<1>3. Routes(Replayed(read), ToSet(read))
  BY <1>2, ReplayLists DEF Listing
<1>4. ToSet(read) \subseteq ToSet(records)
  BY <1>2 DEF Listing
<1>5. Routes(Replayed(read), ToSet(records))
  BY <1>3, <1>4 DEF Routes, Listing
<1>6. QED BY <1>1, <1>5

----------------------------------------------------------------------------
(* Sequences that are moved in parts. *)

LEMMA ConcatNothing ==
  ASSUME NEW S, NEW s \in Seq(S)
  PROVE  s \o <<>> = s /\ <<>> \o s = s
OBVIOUS

LEMMA ConcatAppend ==
  ASSUME NEW S, NEW s \in Seq(S), NEW u \in Seq(S), NEW x \in S
  PROVE  s \o Append(u, x) = Append(s \o u, x)
OBVIOUS

LEMMA ConcatPlaces ==
  ASSUME NEW S, NEW s \in Seq(S), NEW u \in Seq(S)
  PROVE  /\ s \o u \in Seq(S) /\ Len(s \o u) = Len(s) + Len(u)
         /\ \A i \in 1 .. Len(s) : (s \o u)[i] = s[i]
         /\ \A i \in 1 .. Len(u) : (s \o u)[Len(s) + i] = u[i]
OBVIOUS

LEMMA ConcatHead ==
  ASSUME NEW S, NEW s \in Seq(S), NEW u \in Seq(S), u # <<>>
  PROVE  Append(s, Head(u)) \o Tail(u) = s \o u
<1>1. /\ Tail(u) \in Seq(S) /\ Head(u) \in S /\ Head(u) = u[1]
      /\ Len(u) \in Nat \ {0} /\ Len(Tail(u)) = Len(u) - 1
      /\ \A i \in 1 .. Len(Tail(u)) : Tail(u)[i] = u[i + 1]
  OBVIOUS
<1> DEFINE x == Head(u)
           v == Tail(u)
           a == Append(s, x)
<1> HIDE DEF x, v
<1>2. /\ v \in Seq(S) /\ x \in S /\ x = u[1] /\ Len(v) = Len(u) - 1
      /\ \A i \in 1 .. Len(v) : v[i] = u[i + 1]
      /\ Len(u) \in Nat \ {0} /\ Len(s) \in Nat
  BY <1>1 DEF x, v
<1>3. /\ a \in Seq(S) /\ Len(a) = Len(s) + 1 /\ a[Len(s) + 1] = x
      /\ \A i \in 1 .. Len(s) : a[i] = s[i]
  BY <1>2
<1> HIDE DEF a
<1> DEFINE p == a \o v
           q == s \o u
<1>4. /\ p \in Seq(S) /\ q \in Seq(S)
      /\ Len(p) = Len(s) + Len(u) /\ Len(q) = Len(s) + Len(u)
      /\ \A i \in 1 .. Len(a) : p[i] = a[i]
      /\ \A i \in 1 .. Len(v) : p[Len(a) + i] = v[i]
      /\ \A i \in 1 .. Len(s) : q[i] = s[i]
      /\ \A i \in 1 .. Len(u) : q[Len(s) + i] = u[i]
  <2>1. /\ p \in Seq(S) /\ Len(p) = Len(a) + Len(v)
        /\ \A i \in 1 .. Len(a) : p[i] = a[i]
        /\ \A i \in 1 .. Len(v) : p[Len(a) + i] = v[i]
    <3>1. a \in Seq(S) /\ v \in Seq(S)
      BY <1>2, <1>3
    <3>2. QED BY ONLY <3>1, ConcatPlaces
  <2>2. /\ q \in Seq(S) /\ Len(q) = Len(s) + Len(u)
        /\ \A i \in 1 .. Len(s) : q[i] = s[i]
        /\ \A i \in 1 .. Len(u) : q[Len(s) + i] = u[i]
    BY ConcatPlaces
  <2> HIDE DEF p, q
  <2>3. QED BY <1>2, <1>3, <2>1, <2>2
<1> HIDE DEF p, q
<1>5. ASSUME NEW i \in 1 .. Len(p)
      PROVE  p[i] = q[i]
  <2>1. CASE i \in 1 .. Len(s)
    BY <1>2, <1>3, <1>4, <2>1
  <2>2. CASE i = Len(s) + 1
    BY <1>2, <1>3, <1>4, <2>2
  <2>3. CASE i > Len(s) + 1
    <3> DEFINE j == i - (Len(s) + 1)
    <3>1. j \in 1 .. Len(v) /\ j + 1 \in 1 .. Len(u) /\ Len(a) + j = i
          /\ Len(s) + (j + 1) = i
      BY <1>2, <1>3, <1>4, <2>3
    <3> HIDE DEF j
    <3>2. p[Len(a) + j] = v[j] /\ q[Len(s) + (j + 1)] = u[j + 1]
      BY ONLY <1>4, <3>1
    <3>3. QED BY <1>2, <3>1, <3>2
  <2>4. QED BY <1>2, <1>4, <2>1, <2>2, <2>3
<1>6. p = q
  BY <1>4, <1>5
<1>7. QED BY <1>6 DEF p, q, a, x, v

----------------------------------------------------------------------------
(* How a step moves the turns that still have to be counted, listed and    *)
(* logged: none comes back.                                                *)

LEMMA OnceFacts ==
  ASSUME OnceInv
  PROVE  /\ MaxTurns \in Nat /\ MaxServing \in Nat /\ MaxAdmin \in Nat
         /\ MaxBoots \in Nat
         /\ DOMAIN worker = {"stage", "turn"} /\ worker.stage \in 0 .. 3
         /\ worker.turn \in 0 .. MaxTurns
         /\ recorded \in 0 .. MaxTurns
         /\ DOMAIN history = {"lost", "purged", "condemned", "ordered",
                              "overran", "panicked", "orderly"}
         /\ DOMAIN admin = {"op", "at", "records", "snap"}
         /\ DOMAIN saver = {"at", "snap"}
<1>1. /\ MaxTurns \in Nat /\ MaxServing \in Nat /\ MaxAdmin \in Nat
      /\ MaxBoots \in Nat
  BY BoundsAssumption
<1>2. worker \in [stage : 0 .. 3, turn : 0 .. MaxTurns]
  BY DEF OnceInv, TypeInv
<1>3. /\ DOMAIN worker = {"stage", "turn"} /\ worker.stage \in 0 .. 3
      /\ worker.turn \in 0 .. MaxTurns
  BY ONLY <1>2
<1>4. recorded \in 0 .. MaxTurns
  <2>1. recorded \in Nat /\ serving \in 0 .. MaxServing
        /\ recorded + serving <= MaxTurns
    BY DEF OnceInv, TypeInv
  <2>2. QED BY ONLY <1>1, <2>1
<1>5. DOMAIN history = DOMAIN InitHistory
  BY DEF OnceInv, TypeInv
<1>6. /\ DOMAIN admin = {"op", "at", "records", "snap"}
      /\ DOMAIN saver = {"at", "snap"}
  BY DEF OnceInv, ReplayInv, TotalsInv
<1>7. QED BY <1>1, <1>3, <1>4, <1>5, <1>6, HistoryFields

\* None comes back.
Shrinking == Fresh' \subseteq Fresh /\ Unlisted' \subseteq Unlisted
             /\ Unlogged' \subseteq Unlogged

Unmoved == UNCHANGED <<recorded, queue, worker>>

LEMMA UnmovedShrinks == Unmoved => Shrinking
BY DEF Unmoved, Shrinking, Fresh, Unlisted, Unlogged, Held

LEMMA GoneShrinks ==
  ASSUME Gone, recorded' = recorded
  PROVE  Shrinking
BY HoldsNothing DEF Gone, Shrinking, Fresh, Unlisted, Unlogged, Held

\* A turn that waits to be listed also waits to be logged.
LEMMA UnlistedUnlogged ==
  Fresh \subseteq Unlisted /\ Unlisted \subseteq Unlogged
BY DEF Fresh, Unlisted, Unlogged, Held

LEMMA UnloggedTurns ==
  ASSUME TypeInv
  PROVE  Unlogged \subseteq Turns
<1>1. ToSet(queue) \subseteq Turns
  <2>1. queue \in Seq(Turns)
    BY DEF TypeInv
  <2>2. QED BY <2>1, Holds
<1>2. Held \subseteq Turns
  BY DEF TypeInv, Held
<1>3. QED BY <1>1, <1>2 DEF Unlogged

Totals == {stats, saved, saver.snap, stopSnap, admin.snap}

\* The totals after a step that takes each from one of those before, or from
\* none.
LEMMA TotalsMove ==
  ASSUME OnceInv, Shrinking, DOMAIN saver' = {"at", "snap"},
         Totals' \subseteq Totals \cup {NoCount}
  PROVE  TotalsInv'
<1> DEFINE good(c) == c \in [Turns -> {0, 1}] /\ \A t \in Fresh' : c[t] = 0
<1>1. Fresh' \subseteq Fresh /\ Fresh \subseteq Turns
  BY UnlistedUnlogged, UnloggedTurns DEF Shrinking, OnceInv
<1>2. good(NoCount)
  BY <1>1 DEF NoCount
<1>3. \A c \in Totals : good(c)
  BY <1>1 DEF Totals, OnceInv, TotalsInv, Once
<1>4. \A c \in Totals' : good(c)
  <2> HIDE DEF good, Totals
  <2>1. QED BY <1>2, <1>3
<1>5. good(stats') /\ good(saved') /\ good(saver'.snap) /\ good(stopSnap')
      /\ good(admin'.snap)
  <2> HIDE DEF good
  <2>1. QED BY <1>4 DEF Totals
<1>6. QED BY <1>5 DEF TotalsInv, Once

\* The log and the queue after a step that moves no turn to the worker, the
\* queue or the log.
LEMMA PlaceMove ==
  ASSUME OnceInv, Unmoved, Log' = Log
  PROVE  PlaceInv'
BY DEF OnceInv, PlaceInv, Unmoved, Unlogged, Held

\* The parts of the log.
LEMMA LogParts ==
  ASSUME OnceInv
  PROVE  /\ file \in Seq(Turns) /\ logBuffer \in Seq(Turns)
         /\ logQueue \in Seq(Turns) /\ file \o logBuffer \in Seq(Turns)
         /\ Log \in Seq(Turns) /\ IsInjective(Log) /\ IsInjective(file)
         /\ IsInjective(logBuffer) /\ IsInjective(logQueue)
         /\ ToSet(file) \subseteq ToSet(Log)
         /\ ToSet(file) \cap Unlogged = {}
<1>1. /\ file \in Seq(Turns) /\ logBuffer \in Seq(Turns)
      /\ logQueue \in Seq(Turns)
  BY DEF OnceInv, TypeInv
<1> DEFINE front == file \o logBuffer
<1>2. /\ front \in Seq(Turns)
      /\ ToSet(front) = ToSet(file) \cup ToSet(logBuffer)
      /\ IsInjective(front) => IsInjective(file) /\ IsInjective(logBuffer)
  BY <1>1, DistinctConcat
<1>3. Log = front \o logQueue
  BY DEF Log
<1> HIDE DEF front
<1>4. /\ Log \in Seq(Turns)
      /\ ToSet(Log) = ToSet(front) \cup ToSet(logQueue)
      /\ IsInjective(Log) => IsInjective(front) /\ IsInjective(logQueue)
  BY <1>1, <1>2, <1>3, DistinctConcat
<1>5. IsInjective(Log) /\ ToSet(Log) \cap Unlogged = {}
  BY DEF OnceInv, PlaceInv
<1>6. QED BY <1>1, <1>2, <1>4, <1>5 DEF front

\* Only what is on disk is left of the log when the process is gone, and the
\* file may then be the whole log.
LEMMA PlaceGone ==
  ASSUME OnceInv, Gone, recorded' = recorded, file' \in {file, Log}
  PROVE  PlaceInv'
<1>1. /\ file' \in Seq(Turns) /\ IsInjective(file')
      /\ ToSet(file') \subseteq ToSet(Log)
  BY LogParts
<1>2. Log' = file'
  <2>1. Log' = (file' \o <<>>) \o <<>>
    BY DEF Gone, Log
  <2>2. file' \o <<>> = file'
    BY <1>1, ConcatNothing
  <2>3. QED BY <2>1, <2>2
<1>3. Unlogged' \subseteq Unlogged
  BY GoneShrinks DEF Shrinking
<1>4. ToSet(Log) \cap Unlogged = {}
  BY DEF OnceInv, PlaceInv
<1>5. ToSet(Log') \cap Unlogged' = {}
  BY <1>1, <1>2, <1>3, <1>4
<1>6. queue' = <<>> /\ worker'.stage = 0 /\ Held' = {}
  BY DEF Gone, Held
<1>7. IsInjective(queue') /\ ToSet(queue') = {}
  BY <1>6, Nothing
<1>8. QED BY <1>1, <1>2, <1>5, <1>6, <1>7 DEF PlaceInv

\* The management request and the recent routes after a step that touches
\* neither.
LEMMA ReplayMove ==
  ASSUME OnceInv, Shrinking, UNCHANGED <<ring, admin>>,
         mode' \in Running \/ mode' = mode \/ mode \notin Running
  PROVE  ReplayInv'
<1>1. Unlisted' \subseteq Unlisted
  BY DEF Shrinking
<1>2. QED BY <1>1 DEF OnceInv, ReplayInv

LEMMA ReplayGone ==
  ASSUME OnceInv, Gone
  PROVE  ReplayInv'
<1> DEFINE none == <<>>
<1>1. /\ none \in Seq(Turns) /\ Len(none) = 0 /\ IsInjective(none)
      /\ ToSet(none) = {}
  BY Nothing
<1>2. ring' = none /\ admin' = Idle /\ admin'.records = none
      /\ DOMAIN admin' = {"op", "at", "records", "snap"} /\ admin'.at = "idle"
  BY DEF Gone, Idle
<1>3. 0 <= MaxTurns
  BY BoundsAssumption
<1> HIDE DEF none
<1>4. QED BY <1>1, <1>2, <1>3 DEF ReplayInv

----------------------------------------------------------------------------
(* Each kind of step keeps the invariant. *)

LEMMA InitOnce == Init => OnceInv
<1> SUFFICES ASSUME Init PROVE OnceInv
  OBVIOUS
<1> DEFINE none == <<>>
<1>1. /\ none \in Seq(Turns) /\ Len(none) = 0 /\ IsInjective(none)
      /\ ToSet(none) = {} /\ none \o none \o none = none
  BY Nothing
<1>2. NoCount \in [Turns -> {0, 1}] /\ \A t \in Turns : NoCount[t] = 0
  BY DEF NoCount
<1>3. /\ queue = none /\ ring = none /\ logQueue = none /\ logBuffer = none
      /\ file = none /\ serving = 0 /\ recorded = 0 /\ open = TRUE
      /\ mode = "off" /\ boots = 0 /\ admins = 0 /\ directive = FALSE
      /\ worker = [stage |-> 0, turn |-> 0] /\ admin = Idle
      /\ saver = NoSave /\ stats = NoCount /\ saved = NoCount
      /\ stopSnap = NoCount /\ history = InitHistory
  BY DEF Init, Volatile
<1>4. /\ history.lost = {} /\ history.purged = {} /\ history.condemned = {}
      /\ DOMAIN admin = {"op", "at", "records", "snap"}
      /\ admin.at = "idle" /\ admin.records = none /\ admin.snap = NoCount
      /\ DOMAIN saver = {"at", "snap"} /\ saver.snap = NoCount
  BY <1>3 DEF InitHistory, Idle, NoSave
<1> HIDE DEF none
<1>5. /\ MaxTurns \in Nat /\ MaxServing \in Nat /\ MaxAdmin \in Nat
      /\ MaxBoots \in Nat /\ RingCap \in Nat /\ QueueCap \in Nat
      /\ LogCap \in Nat
  BY BoundsAssumption
<1>6. TypeInv
  <2>1. worker \in [stage : 0 .. 3, turn : 0 .. MaxTurns] /\ worker.stage = 0
    BY <1>3, <1>5
  <2>2. DOMAIN history = DOMAIN InitHistory /\ mode \in Modes
    BY <1>3 DEF Modes
  <2>3. /\ boots \in 0 .. MaxBoots /\ serving \in 0 .. MaxServing
        /\ admins \in 0 .. MaxAdmin /\ recorded \in Nat
        /\ recorded + serving <= MaxTurns
    BY <1>3, <1>5
  <2>4. open \in BOOLEAN /\ directive \in BOOLEAN
    BY <1>3
  <2>5. /\ queue \in Seq(Turns) /\ Len(queue) <= QueueCap
        /\ logQueue \in Seq(Turns) /\ Len(logQueue) <= LogCap
        /\ logBuffer \in Seq(Turns) /\ file \in Seq(Turns)
        /\ ring \in Seq(Turns) /\ Len(ring) <= RingCap
    BY <1>1, <1>3, <1>5
  <2>6. history.lost \subseteq Turns /\ history.purged \subseteq Turns
        /\ history.condemned \subseteq Turns
    BY <1>4
  <2>7. worker.stage # 0 => worker.turn \in Turns
    BY <2>1
  <2>8. QED BY <2>1, <2>2, <2>3, <2>4, <2>5, <2>6, <2>7 DEF TypeInv
<1>7. Held = {} /\ Log = none
  BY <1>1, <1>3 DEF Held, Log
<1>8. PlaceInv
  BY <1>1, <1>3, <1>7 DEF PlaceInv
<1>9. Fresh \subseteq Turns
  BY <1>6, UnlistedUnlogged, UnloggedTurns
<1>10. TotalsInv
  BY <1>2, <1>3, <1>4, <1>9 DEF TotalsInv, Once
<1>11. ReplayInv
  BY <1>1, <1>3, <1>4, <1>5 DEF ReplayInv
<1>12. QED BY <1>6, <1>8, <1>10, <1>11 DEF OnceInv

\* Where the worker is when it counts, lists and logs.
LEMMA WorkerStage ==
  ASSUME OnceInv
  PROVE  /\ WorkerCount =>
              worker.stage = 1 /\ worker' = [stage |-> 2, turn |-> worker.turn]
         /\ WorkerEmitRing =>
              worker.stage = 2 /\ worker' = [stage |-> 3, turn |-> worker.turn]
         /\ WorkerEmitLog =>
              worker.stage = 3 /\ worker' = [stage |-> 0, turn |-> 0]
<1>1. worker \in [stage : 0 .. 3, turn : 0 .. MaxTurns]
  BY DEF OnceInv, TypeInv
<1>2. ASSUME worker.stage > 0
      PROVE  /\ WorkerStages[worker.stage] = "count" => worker.stage = 1
             /\ WorkerStages[worker.stage] = "ring" => worker.stage = 2
             /\ WorkerStages[worker.stage] = "log" => worker.stage = 3
  <2>1. worker.stage = 1 \/ worker.stage = 2 \/ worker.stage = 3
    BY <1>1, <1>2
  <2>2. CASE worker.stage = 1
    BY ONLY <2>2, Stages
  <2>3. CASE worker.stage = 2
    BY ONLY <2>3, Stages
  <2>4. CASE worker.stage = 3
    BY ONLY <2>4, Stages
  <2>5. QED BY <2>1, <2>2, <2>3, <2>4
<1>3. ASSUME Advance, worker.stage \in {1, 2}
      PROVE  worker' = [stage |-> worker.stage + 1, turn |-> worker.turn]
  <2>1. worker' = [worker EXCEPT !.stage = @ + 1]
    BY <1>3, Stages DEF Advance
  <2>2. QED BY <1>1, <2>1
<1>4. ASSUME Advance, worker.stage = 3
      PROVE  worker' = [stage |-> 0, turn |-> 0]
  BY <1>4, Stages DEF Advance
<1>5. ASSUME WorkerCount
      PROVE  worker.stage = 1 /\ worker' = [stage |-> 2, turn |-> worker.turn]
  BY <1>2, <1>3, <1>5 DEF WorkerCount, At
<1>6. ASSUME WorkerEmitRing
      PROVE  worker.stage = 2 /\ worker' = [stage |-> 3, turn |-> worker.turn]
  BY <1>2, <1>3, <1>6 DEF WorkerEmitRing, At
<1>7. ASSUME WorkerEmitLog
      PROVE  worker.stage = 3 /\ worker' = [stage |-> 0, turn |-> 0]
  BY <1>2, <1>4, <1>7 DEF WorkerEmitLog, At
<1>8. QED BY <1>5, <1>6, <1>7

\* The turn in the hands of the worker has left the queue.
LEMMA InHand ==
  ASSUME OnceInv, worker.stage # 0
  PROVE  /\ worker.turn \in Turns /\ worker.turn \in 1 .. recorded
         /\ worker.turn \notin ToSet(queue)
         /\ ~(worker.turn > recorded)
<1>1. worker.turn \in Turns /\ worker.turn \notin ToSet(queue)
  BY DEF OnceInv, TypeInv, PlaceInv
<1>2. worker.turn \in 1 .. recorded /\ recorded \in Nat
  BY DEF OnceInv, TypeInv, PlaceInv, Held
<1>3. ~(worker.turn > recorded)
  BY <1>2
<1>4. QED BY <1>1, <1>2, <1>3

LEMMA ReceiveOnce ==
  ASSUME OnceInv, WorkerReceive
  PROVE  OnceInv'
<1>1. /\ queue \in Seq(Turns) /\ Len(queue) <= QueueCap /\ queue # <<>>
      /\ IsInjective(queue)
  BY DEF OnceInv, TypeInv, PlaceInv, WorkerReceive
<1>2. /\ Tail(queue) \in Seq(Turns) /\ Head(queue) \in Turns
      /\ Len(Tail(queue)) = Len(queue) - 1
      /\ IsInjective(Tail(queue)) /\ Head(queue) \notin ToSet(Tail(queue))
      /\ ToSet(queue) = {Head(queue)} \cup ToSet(Tail(queue))
  BY <1>1, DistinctTail
<1>3. /\ worker.stage = 0 /\ worker' = [stage |-> 1, turn |-> Head(queue)]
      /\ queue' = Tail(queue) /\ mode \in Running
      /\ UNCHANGED <<mode, boots, serving, recorded, open, stats, ring,
                     logQueue, logBuffer, file, saved, saver, stopSnap, admin,
                     admins, directive, history>>
  BY DEF WorkerReceive, daemon, logger, store, management
<1>4. worker'.stage = 1 /\ worker'.turn = Head(queue)
  BY <1>3
<1>5. Shrinking
  BY <1>2, <1>3, <1>4 DEF Shrinking, Fresh, Unlisted, Unlogged, Held
<1>6. Len(Tail(queue)) <= QueueCap
  BY <1>1, <1>2, BoundsAssumption
<1>7. TypeInv'
  <2>1. Head(queue) \in 0 .. MaxTurns
    BY <1>2, BoundsAssumption DEF Turns
  <2>2. worker' \in [stage : 0 .. 3, turn : 0 .. MaxTurns]
    BY <1>3, <2>1
  <2>3. QED BY <1>2, <1>3, <1>4, <1>6, <2>2 DEF OnceInv, TypeInv
<1>8. PlaceInv'
  <2>1. Log' = Log
    BY <1>3 DEF Log
  <2>2. Held' = {Head(queue)} /\ Held = {}
    BY <1>3, <1>4 DEF Held
  <2>3. ToSet(Log') \cap Unlogged' = {}
    BY <1>5, <2>1 DEF Shrinking, OnceInv, PlaceInv
  <2>4. QED BY <1>2, <1>3, <1>4, <2>1, <2>2, <2>3 DEF OnceInv, PlaceInv
<1>9. TotalsInv'
  <2>1. Totals' = Totals /\ DOMAIN saver' = {"at", "snap"}
    BY <1>3, OnceFacts DEF Totals
  <2>2. QED BY <1>5, <2>1, TotalsMove
<1>10. ReplayInv'
  BY <1>3, <1>5, ReplayMove
<1>11. QED BY <1>7, <1>8, <1>9, <1>10 DEF OnceInv

\* The worker counts a turn that is in no total.
LEMMA CountOnce ==
  ASSUME OnceInv, WorkerCount
  PROVE  OnceInv'
<1> DEFINE t == worker.turn
<1>1. /\ worker.stage = 1 /\ worker' = [stage |-> 2, turn |-> t]
      /\ stats' = Counted(stats, t) /\ mode \in Running
      /\ UNCHANGED <<mode, boots, serving, recorded, queue, open, ring,
                     logQueue, logBuffer, file, saved, saver, stopSnap, admin,
                     admins, directive, history>>
  BY WorkerStage DEF WorkerCount, At, daemon, logger, store, management
<1>2. /\ t \in Turns /\ t \notin ToSet(queue) /\ ~(t > recorded)
      /\ t \in 0 .. MaxTurns
  BY <1>1, InHand, OnceFacts
<1>3. worker'.stage = 2 /\ worker'.turn = t
      /\ worker' \in [stage : 0 .. 3, turn : 0 .. MaxTurns]
  BY <1>1, <1>2
<1>4. Fresh' = Fresh \ {t} /\ t \in Fresh
  BY <1>1, <1>2, <1>3 DEF Fresh
<1>5. Shrinking
  BY <1>1, <1>3, <1>4 DEF Shrinking, Unlisted, Unlogged, Held
<1>6. TypeInv'
  BY <1>1, <1>2, <1>3 DEF OnceInv, TypeInv
<1>7. PlaceInv'
  <2>1. Log' = Log
    BY <1>1 DEF Log
  <2>2. Held' = Held
    BY <1>1, <1>3 DEF Held
  <2>3. QED BY <1>1, <1>2, <1>3, <2>1, <2>2 DEF OnceInv, PlaceInv, Unlogged
<1>8. TotalsInv'
  <2>1. stats \in [Turns -> {0, 1}] /\ \A u \in Fresh : stats[u] = 0
    BY DEF OnceInv, TotalsInv, Once
  <2>2. stats' \in [Turns -> {0, 1}] /\ \A u \in Fresh' : stats'[u] = 0
    <3>1. stats[t] = 0 /\ stats' = [stats EXCEPT ![t] = stats[t] + 1]
      BY <1>1, <1>4, <2>1 DEF Counted
    <3>2. stats' = [stats EXCEPT ![t] = 1]
      BY <3>1
    <3>3. \A u \in Fresh' : u \in Fresh /\ u # t
      BY <1>4
    <3>4. Fresh \subseteq Turns
      BY UnlistedUnlogged, UnloggedTurns DEF OnceInv
    <3> HIDE DEF t
    <3>5. QED BY <1>2, <2>1, <3>2, <3>3, <3>4
  <2>3. \A u \in Fresh' : u \in Fresh
    BY <1>4
  <2>4. QED BY <1>1, <2>2, <2>3 DEF OnceInv, TotalsInv, Once
<1>9. ReplayInv'
  BY <1>1, <1>5, ReplayMove
<1>10. QED BY <1>6, <1>7, <1>8, <1>9 DEF OnceInv

\* The ring hears of a turn before the log does, so that a replay of the log
\* does not bring it again.
LEMMA ListOnce ==
  ASSUME OnceInv, WorkerEmitRing
  PROVE  OnceInv'
<1> DEFINE t == worker.turn
<1>1. /\ worker.stage = 2 /\ worker' = [stage |-> 3, turn |-> t]
      /\ ring' = Emitted(ring, t) /\ mode \in Running
      /\ UNCHANGED <<mode, boots, serving, recorded, queue, open, stats,
                     logQueue, logBuffer, file, saved, saver, stopSnap, admin,
                     admins, directive, history>>
  BY WorkerStage DEF WorkerEmitRing, At, daemon, logger, store, management
<1>2. /\ t \in Turns /\ t \notin ToSet(queue) /\ ~(t > recorded)
      /\ t \in 0 .. MaxTurns
  BY <1>1, InHand, OnceFacts
<1>3. worker'.stage = 3 /\ worker'.turn = t
      /\ worker' \in [stage : 0 .. 3, turn : 0 .. MaxTurns]
  BY <1>1, <1>2
<1>4. Unlisted' = Unlisted \ {t} /\ t \in Unlisted /\ Fresh' = Fresh
  BY <1>1, <1>2, <1>3 DEF Unlisted, Fresh
<1>5. Shrinking
  BY <1>1, <1>3, <1>4 DEF Shrinking, Unlogged, Held
<1>6. /\ ring \in Seq(Turns) /\ IsInjective(ring) /\ Len(ring) <= RingCap
      /\ ToSet(ring) \cap Unlisted = {}
  BY DEF OnceInv, TypeInv, ReplayInv
<1>7. Routes(ring', ToSet(ring) \cup {t})
  <2>1. Routes(ring, ToSet(ring))
    BY <1>6 DEF Routes, Listing
  <2>2. t \notin ToSet(ring)
    BY <1>4, <1>6
  <2>3. QED BY <1>1, <1>2, <2>1, <2>2, EmitKeeps
<1>8. /\ ring' \in Seq(Turns) /\ IsInjective(ring') /\ Len(ring') <= RingCap
      /\ ToSet(ring') \subseteq ToSet(ring) \cup {t}
  BY <1>7 DEF Routes, Listing
<1>9. TypeInv'
  BY <1>1, <1>2, <1>3, <1>8 DEF OnceInv, TypeInv
<1>10. PlaceInv'
  <2>1. Log' = Log
    BY <1>1 DEF Log
  <2>2. Held' = Held
    BY <1>1, <1>3 DEF Held
  <2>3. QED BY <1>1, <1>2, <1>3, <2>1, <2>2 DEF OnceInv, PlaceInv, Unlogged
<1>11. TotalsInv'
  <2>1. Totals' = Totals /\ DOMAIN saver' = {"at", "snap"}
    BY <1>1, OnceFacts DEF Totals
  <2>2. QED BY <1>5, <2>1, TotalsMove
<1>12. ReplayInv'
  <2>1. /\ t \notin ToSet(admin.records)
        /\ ToSet(admin.records) \cap Unlisted = {}
    BY <1>4 DEF OnceInv, ReplayInv
  <2>2. /\ ToSet(ring') \cap Unlisted' = {}
        /\ ToSet(admin.records) \cap Unlisted' = {}
    BY <1>4, <1>6, <1>8, <2>1
  <2>3. admin.at = "replay" => ToSet(ring') \cap ToSet(admin.records) = {}
    BY <1>8, <2>1 DEF OnceInv, ReplayInv
  <2>4. QED BY <1>1, <1>8, <2>2, <2>3 DEF OnceInv, ReplayInv
<1>13. QED BY <1>9, <1>10, <1>11, <1>12 DEF OnceInv

LEMMA EmitLogOnce ==
  ASSUME OnceInv, WorkerEmitLog
  PROVE  OnceInv'
<1> DEFINE t == worker.turn
<1>1. /\ worker.stage = 3 /\ worker' = [stage |-> 0, turn |-> 0]
      /\ mode \in Running
      /\ UNCHANGED <<mode, boots, serving, recorded, queue, open, stats, ring,
                     logBuffer, file, saved, saver, stopSnap, admin,
                     admins, directive>>
  BY WorkerStage DEF WorkerEmitLog, At, daemon, logger, store, management
<1>2. /\ t \in Turns /\ t \notin ToSet(queue) /\ ~(t > recorded)
      /\ MaxTurns \in Nat /\ LogCap \in Nat
  BY <1>1, InHand, BoundsAssumption
<1>3. worker'.stage = 0 /\ worker'.turn = 0
      /\ worker' \in [stage : 0 .. 3, turn : 0 .. MaxTurns]
  BY <1>1, <1>2
<1>4. Unlogged' = Unlogged \ {t} /\ t \in Unlogged
  BY <1>1, <1>2, <1>3 DEF Unlogged, Held
<1>5. Shrinking
  BY <1>1, <1>3, <1>4 DEF Shrinking, Unlisted, Fresh
<1>6. \/ /\ Len(logQueue) < LogCap /\ logQueue' = Append(logQueue, t)
         /\ history' = history
      \/ /\ history' = [history EXCEPT !.lost = @ \cup {t}]
         /\ logQueue' = logQueue
  BY DEF WorkerEmitLog
<1>7. /\ logQueue \in Seq(Turns) /\ Len(logQueue) <= LogCap
      /\ Append(logQueue, t) \in Seq(Turns)
      /\ Len(Append(logQueue, t)) = Len(logQueue) + 1
  BY <1>2 DEF OnceInv, TypeInv
<1>8. logQueue' \in Seq(Turns) /\ Len(logQueue') <= LogCap
  BY <1>2, <1>6, <1>7
<1>9. /\ DOMAIN history' = DOMAIN InitHistory
      /\ history'.lost \subseteq Turns /\ history'.purged \subseteq Turns
      /\ history'.condemned \subseteq Turns
  <2>1. /\ DOMAIN history = DOMAIN InitHistory
        /\ history.lost \subseteq Turns /\ history.purged \subseteq Turns
        /\ history.condemned \subseteq Turns
    BY DEF OnceInv, TypeInv
  <2>2. /\ DOMAIN history' = DOMAIN history
        /\ history'.lost \in {history.lost, history.lost \cup {t}}
        /\ history'.purged = history.purged
        /\ history'.condemned = history.condemned
    BY <1>6, OnceFacts
  <2>3. QED BY <1>2, <2>1, <2>2
<1>10. TypeInv'
  <2>1. worker'.stage # 0 => worker'.turn \in Turns
    BY <1>3
  <2>2. TypeInv
    BY DEF OnceInv
  <2>3. QED BY <1>1, <1>3, <1>8, <1>9, <2>1, <2>2 DEF TypeInv
<1>11. IsInjective(Log') /\ ToSet(Log') \subseteq ToSet(Log) \cup {t}
  <2>1. CASE logQueue' = logQueue
    <3>1. Log' = Log
      BY <1>1, <2>1 DEF Log
    <3>2. QED BY <3>1, LogParts
  <2>2. CASE logQueue' = Append(logQueue, t)
    <3> DEFINE front == file \o logBuffer
    <3>1. front \in Seq(Turns) /\ Log = front \o logQueue
          /\ Log' = front \o Append(logQueue, t)
      BY <1>1, <2>2, LogParts DEF Log
    <3> HIDE DEF front
    <3>2. Log' = Append(Log, t)
      BY <1>2, <1>7, <3>1, ConcatAppend
    <3>3. Log \in Seq(Turns) /\ IsInjective(Log) /\ t \notin ToSet(Log)
      BY <1>4, LogParts DEF OnceInv, PlaceInv
    <3>4. /\ IsInjective(Append(Log, t))
          /\ ToSet(Append(Log, t)) = ToSet(Log) \cup {t}
      BY <1>2, <3>3, DistinctAppend, HoldsAppend
    <3>5. QED BY <3>2, <3>4
  <2>3. QED BY <1>6, <2>1, <2>2
<1>12. PlaceInv'
  <2>1. Held' = {}
    BY <1>3 DEF Held
  <2>2. ToSet(Log') \cap Unlogged' = {}
    BY <1>4, <1>11 DEF OnceInv, PlaceInv
  <2>3. QED BY <1>1, <1>3, <1>11, <2>1, <2>2 DEF OnceInv, PlaceInv
<1>13. TotalsInv'
  <2>1. Totals' = Totals /\ DOMAIN saver' = {"at", "snap"}
    BY <1>1, OnceFacts DEF Totals
  <2>2. QED BY <1>5, <2>1, TotalsMove
<1>14. ReplayInv'
  BY <1>1, <1>5, ReplayMove
<1>15. QED BY <1>10, <1>12, <1>13, <1>14 DEF OnceInv

\* What is queued for the log is in the log when all of it is written.
LEMMA DrainedLog ==
  ASSUME OnceInv, LogDrained
  PROVE  /\ Log' = Log /\ file' \in Seq(Turns) /\ file' = Log
         /\ logBuffer' = <<>> /\ logQueue' = <<>>
<1>1. file' = Log /\ logBuffer' = <<>> /\ logQueue' = <<>>
  BY DEF LogDrained, Log
<1>2. Log \in Seq(Turns)
  BY LogParts
<1>3. Log' = (file' \o <<>>) \o <<>>
  BY <1>1 DEF Log
<1>4. file' \in Seq(Turns)
  BY <1>1, <1>2
<1>5. file' \o <<>> = file'
  BY <1>4, ConcatNothing
<1>6. QED BY <1>1, <1>3, <1>4, <1>5

\* The steps of the logger move the parts of the log.
LEMMA LoggerMoves ==
  ASSUME OnceInv, LogNext \/ LogDrained
  PROVE  /\ Log' = Log /\ file' \in Seq(Turns) /\ logBuffer' \in Seq(Turns)
         /\ logQueue' \in Seq(Turns) /\ Len(logQueue') <= LogCap
<1>1. /\ file \in Seq(Turns) /\ logBuffer \in Seq(Turns)
      /\ logQueue \in Seq(Turns) /\ file \o logBuffer \in Seq(Turns)
      /\ Len(logQueue) <= LogCap /\ LogCap \in Nat
  BY LogParts, BoundsAssumption DEF OnceInv, TypeInv
<1> DEFINE none == <<>>
<1>2. none \in Seq(Turns) /\ Len(none) = 0
  BY Nothing
<1>3. CASE LogWrite
  <2>1. /\ logQueue # <<>> /\ file' = file /\ logQueue' = Tail(logQueue)
        /\ logBuffer' = Append(logBuffer, Head(logQueue))
    BY <1>3 DEF LogWrite
  <2>2. /\ Tail(logQueue) \in Seq(Turns) /\ Head(logQueue) \in Turns
        /\ Len(Tail(logQueue)) = Len(logQueue) - 1
    BY <1>1, <2>1
  <2> DEFINE x == Head(logQueue)
             rest == Tail(logQueue)
             front == file \o logBuffer
  <2>3. x \in Turns /\ rest \in Seq(Turns) /\ front \in Seq(Turns)
    BY <1>1, <2>2
  <2>4. file \o Append(logBuffer, x) = Append(front, x)
    <3> HIDE DEF x
    <3>1. QED BY <1>1, <2>3, ConcatAppend
  <2>5. Append(front, x) \o rest = front \o logQueue
    <3> HIDE DEF front
    <3>1. QED BY <1>1, <2>1, <2>3, ConcatHead
  <2>6. Log' = Log
    <3>1. Log' = (file \o Append(logBuffer, x)) \o rest
      BY <2>1 DEF Log
    <3>2. Log = front \o logQueue
      BY DEF Log
    <3> HIDE DEF x, rest, front
    <3>3. QED BY <2>4, <2>5, <3>1, <3>2
  <2>7. Append(logBuffer, x) \in Seq(Turns)
    <3> HIDE DEF x
    <3>1. QED BY <1>1, <2>3
  <2>8. QED BY <1>1, <2>1, <2>2, <2>6, <2>7
<1>4. CASE LogTick
  <2>1. /\ file' = file \o logBuffer /\ logBuffer' = none
        /\ logQueue' = logQueue
    BY <1>4 DEF LogTick
  <2> DEFINE front == file \o logBuffer
  <2>2. front \o none = front
    <3>1. front \in Seq(Turns)
      BY <1>1
    <3> HIDE DEF front
    <3>2. QED BY <3>1, ConcatNothing
  <2>3. Log' = (front \o none) \o logQueue /\ Log = front \o logQueue
    BY <2>1 DEF Log
  <2> HIDE DEF front, none
  <2>4. Log' = Log
    BY <2>2, <2>3
  <2>5. QED BY <1>1, <1>2, <2>1, <2>4
<1>5. CASE LogDrained
  <2>1. /\ Log' = Log /\ file' \in Seq(Turns)
        /\ logBuffer' = none /\ logQueue' = none
    BY <1>5, DrainedLog
  <2> HIDE DEF none
  <2>2. QED BY <1>1, <1>2, <2>1
<1>6. QED BY <1>3, <1>4, <1>5 DEF LogNext

LEMMA LoggerOnce ==
  ASSUME OnceInv, LogNext
  PROVE  OnceInv'
<1>1. /\ mode \in Running
      /\ UNCHANGED <<mode, boots, serving, recorded, queue, open, worker,
                     stats, ring, saved, saver, stopSnap, admin, admins,
                     directive, history>>
  BY DEF LogNext, LogWrite, LogTick, daemon, tracker, store, management
<1>2. /\ Log' = Log /\ file' \in Seq(Turns) /\ logBuffer' \in Seq(Turns)
      /\ logQueue' \in Seq(Turns) /\ Len(logQueue') <= LogCap
  BY LoggerMoves
<1>3. Unmoved /\ Shrinking
  BY <1>1, UnmovedShrinks DEF Unmoved
<1>4. TypeInv'
  BY <1>1, <1>2 DEF OnceInv, TypeInv
<1>5. PlaceInv'
  BY <1>2, <1>3, PlaceMove
<1>6. TotalsInv'
  <2>1. Totals' = Totals /\ DOMAIN saver' = {"at", "snap"}
    BY <1>1, OnceFacts DEF Totals
  <2>2. QED BY <1>3, <2>1, TotalsMove
<1>7. ReplayInv'
  BY <1>1, <1>3, ReplayMove
<1>8. QED BY <1>4, <1>5, <1>6, <1>7 DEF OnceInv

LEMMA SaverOnce ==
  ASSUME OnceInv, SaverNext
  PROVE  OnceInv'
<1>1. UNCHANGED <<mode, boots, serving, recorded, queue, open, worker, stats,
                  ring, logQueue, logBuffer, file, stopSnap, admin, admins,
                  directive, history>>
  BY DEF SaverNext, SaverTick, SaverSave, SaverFails, daemon, tracker, logger,
         management
<1>2. /\ DOMAIN saver' = {"at", "snap"}
      /\ saved' \in Totals /\ saver'.snap \in Totals \cup {NoCount}
  <2>1. CASE SaverTick
    <3>1. saver' = [at |-> "save", snap |-> stats] /\ saved' = saved
      BY <2>1 DEF SaverTick
    <3>2. QED BY <3>1 DEF Totals
  <2>2. CASE SaverSave \/ SaverFails
    <3>1. saver' = NoSave /\ saved' \in {saved, saver.snap}
      BY <2>2 DEF SaverSave, SaverFails
    <3>2. DOMAIN saver' = {"at", "snap"} /\ saver'.snap = NoCount
      BY <3>1 DEF NoSave
    <3>3. QED BY <3>1, <3>2 DEF Totals
  <2>3. QED BY <2>1, <2>2 DEF SaverNext
<1>3. Unmoved /\ Shrinking
  BY <1>1, UnmovedShrinks DEF Unmoved
<1>4. Log' = Log
  BY <1>1 DEF Log
<1>5. TypeInv'
  BY <1>1 DEF OnceInv, TypeInv
<1>6. PlaceInv'
  BY <1>3, <1>4, PlaceMove
<1>7. TotalsInv'
  <2>1. Totals' \subseteq Totals \cup {NoCount}
    BY <1>1, <1>2 DEF Totals
  <2>2. QED BY <1>2, <1>3, <2>1, TotalsMove
<1>8. ReplayInv'
  BY <1>1, <1>3, ReplayMove
<1>9. QED BY <1>5, <1>6, <1>7, <1>8 DEF OnceInv

\* A turn that is accepted is new to the queue, the log and the totals.
LEMMA AcceptOnce ==
  ASSUME OnceInv, Record, queue' = Append(queue, recorded + 1),
         recorded' = recorded + 1, Len(queue) < QueueCap, history' = history
  PROVE  OnceInv'
<1> DEFINE t == recorded + 1
<1>1. /\ mode \in Running /\ serving > 0 /\ serving' = serving - 1
      /\ UNCHANGED <<mode, boots, open, worker, stats, ring, logQueue,
                     logBuffer, file, saved, saver, stopSnap, admin, admins,
                     directive, history>>
  BY DEF Record, daemon, logger, store, management
<1>2. /\ serving \in 0 .. MaxServing /\ recorded \in Nat
      /\ recorded + serving <= MaxTurns /\ MaxTurns \in Nat
      /\ MaxServing \in Nat /\ QueueCap \in Nat
  BY BoundsAssumption DEF OnceInv, TypeInv
<1>3. t \in Turns /\ t > recorded /\ t \notin 1 .. recorded
      /\ t \in 1 .. recorded'
  BY <1>1, <1>2 DEF Turns
<1>4. /\ serving' \in 0 .. MaxServing /\ recorded' \in Nat
      /\ recorded' + serving' <= MaxTurns
  BY <1>1, <1>2
<1>5. queue \in Seq(Turns) /\ IsInjective(queue) /\ t \notin ToSet(queue)
      /\ ToSet(queue) \cup Held \subseteq 1 .. recorded
  BY <1>3 DEF OnceInv, TypeInv, PlaceInv
<1>6. /\ queue' \in Seq(Turns) /\ IsInjective(queue')
      /\ ToSet(queue') = ToSet(queue) \cup {t} /\ Len(queue') <= QueueCap
  <2>1. queue' = Append(queue, t)
    OBVIOUS
  <2> HIDE DEF t
  <2>2. /\ queue' \in Seq(Turns) /\ IsInjective(queue')
        /\ ToSet(queue') = ToSet(queue) \cup {t}
    BY <1>3, <1>5, <2>1, DistinctAppend, HoldsAppend
  <2>3. Len(queue') = Len(queue) + 1 /\ Len(queue) \in Nat
    BY <1>3, <1>5, <2>1
  <2>4. QED BY <1>2, <2>2, <2>3
<1>7. Held' = Held
  BY <1>1 DEF Held
<1>8. \A u \in Turns : u > recorded' => u > recorded
  BY <1>2, BoundsAssumption DEF Turns
<1>9. Shrinking
  BY <1>1, <1>3, <1>6, <1>7, <1>8 DEF Shrinking, Fresh, Unlisted, Unlogged
<1>10. TypeInv'
  BY <1>1, <1>4, <1>6 DEF OnceInv, TypeInv
<1>11. PlaceInv'
  <2>1. Log' = Log
    BY <1>1 DEF Log
  <2>2. ToSet(Log') \cap Unlogged' = {}
    BY <1>9, <2>1 DEF OnceInv, PlaceInv, Shrinking
  <2>3. worker.stage # 0 => worker.turn \notin ToSet(queue')
    BY <1>3, <1>6, InHand
  <2>4. 1 .. recorded \subseteq 1 .. recorded'
    BY <1>2, <1>4
  <2>5. ToSet(queue') \cup Held' \subseteq 1 .. recorded'
    BY <1>3, <1>5, <1>6, <1>7, <2>4
  <2>6. QED BY <1>1, <1>6, <2>1, <2>2, <2>3, <2>5 DEF OnceInv, PlaceInv
<1>12. TotalsInv'
  <2>1. Totals' = Totals /\ DOMAIN saver' = {"at", "snap"}
    BY <1>1, OnceFacts DEF Totals
  <2>2. QED BY <1>9, <2>1, TotalsMove
<1>13. ReplayInv'
  BY <1>1, <1>9, ReplayMove
<1>14. QED BY <1>10, <1>11, <1>12, <1>13 DEF OnceInv

LEMMA HandlerOnce ==
  ASSUME OnceInv, HandlerNext
  PROVE  OnceInv'
<1>1. CASE /\ Record /\ queue' = Append(queue, recorded + 1)
           /\ recorded' = recorded + 1 /\ Len(queue) < QueueCap
           /\ history' = history
  BY <1>1, AcceptOnce
<1>2. CASE \/ Arrive \/ EndUnrecorded
           \/ /\ Record
              /\ ~(/\ queue' = Append(queue, recorded + 1)
                   /\ recorded' = recorded + 1 /\ Len(queue) < QueueCap
                   /\ history' = history)
  <2>1. /\ \/ serving > 0 /\ serving' = serving - 1
           \/ /\ serving < MaxServing /\ recorded + serving < MaxTurns
              /\ serving' = serving + 1
        /\ UNCHANGED <<mode, boots, recorded, queue, open, worker, stats,
                       ring, logQueue, logBuffer, file, saved, saver,
                       stopSnap, admin, admins, directive>>
        /\ history' = history \/ history' = [history EXCEPT !.panicked = TRUE]
    BY <1>2 DEF Arrive, EndUnrecorded, Record, daemon, tracker, logger, store,
                management
  <2>2. /\ serving \in 0 .. MaxServing /\ recorded \in Nat
        /\ recorded + serving <= MaxTurns /\ MaxTurns \in Nat
        /\ MaxServing \in Nat
    BY BoundsAssumption DEF OnceInv, TypeInv
  <2>3. serving' \in 0 .. MaxServing /\ recorded + serving' <= MaxTurns
    BY <2>1, <2>2
  <2>4. /\ DOMAIN history' = DOMAIN history
        /\ history'.lost = history.lost /\ history'.purged = history.purged
        /\ history'.condemned = history.condemned
    BY <2>1, OnceFacts
  <2>5. Unmoved /\ Shrinking
    BY <2>1, UnmovedShrinks DEF Unmoved
  <2>6. Log' = Log
    BY <2>1 DEF Log
  <2>7. TypeInv'
    BY <2>1, <2>3, <2>4 DEF OnceInv, TypeInv
  <2>8. PlaceInv'
    BY <2>5, <2>6, PlaceMove
  <2>9. TotalsInv'
    <3>1. Totals' = Totals /\ DOMAIN saver' = {"at", "snap"}
      BY <2>1, OnceFacts DEF Totals
    <3>2. QED BY <2>5, <3>1, TotalsMove
  <2>10. ReplayInv'
    BY <2>1, <2>5, ReplayMove
  <2>11. QED BY <2>7, <2>8, <2>9, <2>10 DEF OnceInv
<1>3. QED BY <1>1, <1>2 DEF HandlerNext

\* What a management request leaves alone.
LEMMA AdminRest ==
  ASSUME OnceInv,
         UNCHANGED <<mode, boots, serving, recorded, queue, open, worker>>,
         Log' = Log, file' \in Seq(Turns), logBuffer' \in Seq(Turns),
         logQueue' \in Seq(Turns), Len(logQueue') <= LogCap,
         ring' \in Seq(Turns), Len(ring') <= RingCap,
         admins' \in 0 .. MaxAdmin, directive' \in BOOLEAN,
         DOMAIN history' = DOMAIN history,
         UNCHANGED <<history.lost, history.purged, history.condemned>>
  PROVE  TypeInv' /\ PlaceInv' /\ Shrinking
<1>1. Unmoved /\ Shrinking
  BY UnmovedShrinks DEF Unmoved
<1>2. TypeInv'
  BY DEF OnceInv, TypeInv
<1>3. PlaceInv'
  BY <1>1, PlaceMove
<1>4. QED BY <1>1, <1>2, <1>3

\* The records of a request are without repetition, none waits to be listed,
\* and none that a replay still has to bring is listed already.
ReplayOK == /\ DOMAIN admin = {"op", "at", "records", "snap"}
            /\ admin.records \in Seq(Turns) /\ IsInjective(admin.records)
            /\ ToSet(admin.records) \cap Unlisted = {}
            /\ admin.at = "replay"
                 => ToSet(ring) \cap ToSet(admin.records) = {}

RingOK == /\ ring \in Seq(Turns) /\ Len(ring) <= RingCap
          /\ IsInjective(ring) /\ ToSet(ring) \cap Unlisted = {}

LEMMA ReplayParts ==
  /\ OnceInv => ReplayOK /\ RingOK
  /\ RingOK' /\ ReplayOK' /\ mode' \in Running => ReplayInv'
<1>1. OnceInv => ReplayOK /\ RingOK
  BY DEF OnceInv, TypeInv, ReplayInv, ReplayOK, RingOK
<1>2. RingOK' /\ ReplayOK' /\ mode' \in Running => ReplayInv'
  <2> SUFFICES ASSUME RingOK', ReplayOK', mode' \in Running PROVE ReplayInv'
    OBVIOUS
  <2>1. admin'.records \in Seq(Turns) /\ IsInjective(admin'.records)
    BY DEF ReplayOK
  <2>2. Len(admin'.records) <= MaxTurns
    <3> DEFINE r == admin'.records
    <3> HIDE DEF r
    <3>1. r \in Seq(Turns) /\ IsInjective(r) => Len(r) <= MaxTurns
      BY DistinctShort
    <3>2. QED BY <2>1, <3>1 DEF r
  <2>3. QED BY <2>1, <2>2 DEF RingOK, ReplayOK, ReplayInv
<1>3. QED BY <1>1, <1>2

\* A request whose record field is empty has nothing to replay.
LEMMA EmptyReplay ==
  ASSUME DOMAIN admin' = {"op", "at", "records", "snap"},
         admin'.records = <<>>
  PROVE  ReplayOK'
<1> DEFINE none == <<>>
<1>1. none \in Seq(Turns) /\ IsInjective(none) /\ ToSet(none) = {}
  BY Nothing
<1>2. admin'.records = none
  OBVIOUS
<1> HIDE DEF none
<1>3. QED BY <1>1, <1>2 DEF ReplayOK

\* The requests that neither read nor change the totals or the recent routes.
LEMMA AsideOnce ==
  ASSUME OnceInv,
         \/ StatsResetStarts \/ RecalculateStarts \/ TuneStarts \/ PurgeStarts
         \/ TuneFlush \/ PurgeDirective
  PROVE  OnceInv'
<1>1. /\ mode \in Running
      /\ UNCHANGED <<mode, boots, serving, recorded, queue, open, worker,
                     stats, ring, saved, saver, stopSnap>>
      /\ admins' \in {admins, admins + 1} /\ admins' <= MaxAdmin
  <2>1. admins \in 0 .. MaxAdmin /\ MaxAdmin \in Nat
    BY BoundsAssumption DEF OnceInv, TypeInv
  <2>2. CASE StatsResetStarts \/ RecalculateStarts \/ TuneStarts \/ PurgeStarts
    BY <2>1, <2>2 DEF StatsResetStarts, RecalculateStarts, TuneStarts,
       PurgeStarts, AdminStarts, daemon, tracker, store, Running
  <2>3. CASE TuneFlush \/ PurgeDirective
    BY <2>1, <2>3 DEF TuneFlush, PurgeDirective, AdminAt, daemon, tracker, store
  <2>4. QED BY <2>2, <2>3
<1>2. /\ DOMAIN admin' = {"op", "at", "records", "snap"}
      /\ admin'.records = <<>> /\ admin'.snap = NoCount
  <2>1. CASE StatsResetStarts \/ RecalculateStarts \/ TuneStarts \/ PurgeStarts
    <3>1. PICK op, at : admin' = [Idle EXCEPT !.op = op, !.at = at]
      BY <2>1 DEF StatsResetStarts, RecalculateStarts, TuneStarts, PurgeStarts,
                  AdminStarts
    <3>2. QED BY <3>1 DEF Idle
  <2>2. CASE TuneFlush \/ PurgeDirective
    <3>1. admin' = Idle
      BY <2>2 DEF TuneFlush, PurgeDirective
    <3>2. QED BY <3>1 DEF Idle
  <2>3. QED BY <2>1, <2>2
<1>3. /\ Log' = Log /\ file' \in Seq(Turns) /\ logBuffer' \in Seq(Turns)
      /\ logQueue' \in Seq(Turns) /\ Len(logQueue') <= LogCap
  <2>1. CASE LogDrained
    BY <2>1, LoggerMoves
  <2>2. CASE UNCHANGED logger
    BY <2>2 DEF logger, Log, OnceInv, TypeInv
  <2>3. QED BY <2>1, <2>2 DEF StatsResetStarts, RecalculateStarts, TuneStarts,
            PurgeStarts, AdminStarts, TuneFlush, PurgeDirective
<1>4. /\ directive' \in BOOLEAN /\ DOMAIN history' = DOMAIN history
      /\ UNCHANGED <<history.lost, history.purged, history.condemned>>
  <2>1. CASE PurgeDirective
    <3>1. \/ directive' = TRUE /\ history' = [history EXCEPT !.ordered = TRUE]
          \/ directive' = directive /\ history' = history
      BY <2>1 DEF PurgeDirective
    <3>2. directive \in BOOLEAN
      BY DEF OnceInv, TypeInv
    <3>3. QED BY <3>1, <3>2, OnceFacts
  <2>2. CASE ~PurgeDirective
    <3>1. directive' = directive /\ history' = history
      <4>1. CASE TuneFlush
        BY <4>1 DEF TuneFlush
      <4>2. CASE \/ StatsResetStarts \/ RecalculateStarts \/ TuneStarts
                 \/ PurgeStarts
        BY <4>2 DEF StatsResetStarts, RecalculateStarts, TuneStarts,
                    PurgeStarts, AdminStarts
      <4>3. QED BY <2>2, <4>1, <4>2
    <3>2. directive \in BOOLEAN
      BY DEF OnceInv, TypeInv
    <3>3. QED BY ONLY <3>1, <3>2
  <2>3. QED BY <2>1, <2>2
<1>5. admins' \in 0 .. MaxAdmin
  <2>1. admins \in 0 .. MaxAdmin
    BY DEF OnceInv, TypeInv
  <2>2. MaxAdmin \in Nat
    BY BoundsAssumption
  <2>3. QED BY ONLY <1>1, <2>1, <2>2
<1>6. RingOK
  BY ReplayParts
<1>7. TypeInv' /\ PlaceInv' /\ Shrinking
  BY <1>1, <1>3, <1>4, <1>5, <1>6, AdminRest DEF RingOK
<1>8. TotalsInv'
  <2>1. /\ Totals' \subseteq Totals \cup {NoCount}
        /\ DOMAIN saver' = {"at", "snap"}
    BY <1>1, <1>2, OnceFacts DEF Totals
  <2>2. QED BY <1>7, <2>1, TotalsMove
<1>9. ReplayInv'
  <2>1. ReplayOK'
    BY <1>2, EmptyReplay
  <2>2. RingOK'
    BY <1>1, <1>6, <1>7 DEF RingOK, Shrinking
  <2>3. QED BY <1>1, <2>1, <2>2, ReplayParts
<1>10. QED BY <1>7, <1>8, <1>9 DEF OnceInv

\* The request reads the log, and replays the end of what it has read into a
\* ring that was emptied.
LEMMA ReplayOnce ==
  ASSUME OnceInv, ReadRecords \/ ResetRing \/ ReplayRecord
  PROVE  OnceInv'
<1>1. /\ mode \in Running
      /\ UNCHANGED <<mode, boots, serving, recorded, queue, open, worker,
                     stats, logQueue, logBuffer, file, saved, saver, stopSnap,
                     admins, directive, history>>
  BY DEF ReadRecords, ResetRing, ReplayRecord, AdminAt, daemon, tracker,
         logger, store
<1>2. ReplayOK /\ RingOK
  BY ReplayParts
<1>3. Unmoved /\ Shrinking
  BY <1>1, UnmovedShrinks DEF Unmoved
<1>4. /\ DOMAIN admin' = {"op", "at", "records", "snap"}
      /\ admin'.snap = admin.snap /\ RingOK' /\ ReplayOK'
  <2>1. CASE ReadRecords
    <3>1. /\ ring' = ring
          /\ admin' = [admin EXCEPT !.at = "recount", !.records = file]
      BY <2>1 DEF ReadRecords
    <3>2. /\ DOMAIN admin' = {"op", "at", "records", "snap"}
          /\ admin'.snap = admin.snap /\ admin'.records = file
          /\ admin'.at = "recount"
      BY <3>1, OnceFacts
    <3>3. RingOK'
      BY <1>2, <1>3, <3>1 DEF RingOK, Shrinking
    <3>4. /\ file \in Seq(Turns) /\ IsInjective(file)
          /\ ToSet(file) \cap Unlisted' = {}
      BY <1>3, LogParts, UnlistedUnlogged DEF Shrinking
    <3>5. QED BY <3>2, <3>3, <3>4 DEF ReplayOK
  <2>2. CASE ResetRing
    <3> DEFINE old == admin.records
               n == Len(old)
               new == IF n > RingCap THEN SubSeq(old, n - RingCap + 1, n)
                      ELSE old
               none == <<>>
    <3>1. ring' = none /\ admin' = [admin EXCEPT !.at = "replay",
                                                 !.records = new]
      BY <2>2 DEF ResetRing
    <3>2. /\ old \in Seq(Turns) /\ IsInjective(old)
          /\ ToSet(old) \cap Unlisted = {}
      BY <1>2 DEF ReplayOK
    <3>3. /\ new \in Seq(Turns) /\ IsInjective(new)
          /\ ToSet(new) \subseteq ToSet(old)
      <4> HIDE DEF old
      <4>1. CASE n > RingCap
        <5> DEFINE p == SubSeq(old, Len(old) - RingCap + 1, Len(old))
        <5>1. RingCap \in Nat
          BY BoundsAssumption
        <5>2. /\ p \in Seq(Turns) /\ IsInjective(p)
              /\ ToSet(p) \subseteq ToSet(old)
          BY <3>2, <4>1, <5>1, DistinctPart
        <5>3. new = p
          BY <4>1
        <5> HIDE DEF p, new
        <5>4. QED BY <5>2, <5>3
      <4>2. CASE ~(n > RingCap)
        BY <3>2, <4>2
      <4>3. QED BY <4>1, <4>2
    <3>4. /\ none \in Seq(Turns) /\ Len(none) = 0 /\ IsInjective(none)
          /\ ToSet(none) = {} /\ 0 <= RingCap
      BY Nothing, BoundsAssumption
    <3> HIDE DEF old, n, new, none
    <3>5. /\ DOMAIN admin' = {"op", "at", "records", "snap"}
          /\ admin'.snap = admin.snap /\ admin'.records = new
      BY <3>1, OnceFacts
    <3>6. RingOK'
      BY <3>1, <3>4 DEF RingOK
    <3>7. ToSet(new) \cap Unlisted' = {}
      BY <1>3, <3>2, <3>3 DEF Shrinking
    <3>8. ReplayOK'
      BY <3>1, <3>3, <3>4, <3>5, <3>7 DEF ReplayOK
    <3>9. QED BY <3>5, <3>6, <3>8
  <2>3. CASE ReplayRecord
    <3> DEFINE old == admin.records
               t == Head(old)
               rest == Tail(old)
    <3>1. /\ admin.at = "replay" /\ old # <<>>
          /\ ring' = Emitted(ring, t)
          /\ admin' = [admin EXCEPT !.records = rest]
      BY <2>3 DEF ReplayRecord, AdminAt
    <3>2. /\ old \in Seq(Turns) /\ IsInjective(old)
          /\ ToSet(old) \cap Unlisted = {} /\ ToSet(ring) \cap ToSet(old) = {}
      BY <1>2, <3>1 DEF ReplayOK
    <3>3. /\ rest \in Seq(Turns) /\ t \in Turns /\ IsInjective(rest)
          /\ t \notin ToSet(rest) /\ ToSet(old) = {t} \cup ToSet(rest)
      <4> HIDE DEF old
      <4>1. QED BY <3>1, <3>2, DistinctTail
    <3> HIDE DEF old, t, rest
    <3>4. /\ DOMAIN admin' = {"op", "at", "records", "snap"}
          /\ admin'.snap = admin.snap /\ admin'.records = rest
      BY <3>1, OnceFacts
    <3>5. Routes(ring', ToSet(ring) \cup {t})
      <4>1. Routes(ring, ToSet(ring)) /\ t \notin ToSet(ring)
        BY <1>2, <3>2, <3>3 DEF RingOK, Routes, Listing
      <4>2. QED BY <3>1, <3>3, <4>1, EmitKeeps
    <3>6. /\ ring' \in Seq(Turns) /\ IsInjective(ring')
          /\ Len(ring') <= RingCap
          /\ ToSet(ring') \subseteq ToSet(ring) \cup {t}
      BY <3>5 DEF Routes, Listing
    <3>7. ToSet(ring) \cap Unlisted' = {} /\ ToSet(old) \cap Unlisted' = {}
      BY <1>2, <1>3, <3>2 DEF RingOK, Shrinking
    <3>8. RingOK'
      BY <3>3, <3>6, <3>7 DEF RingOK
    <3>9. ReplayOK'
      BY <3>2, <3>3, <3>4, <3>6, <3>7 DEF ReplayOK
    <3>10. QED BY <3>4, <3>8, <3>9
  <2>4. QED BY <2>1, <2>2, <2>3
<1>5. TypeInv' /\ PlaceInv'
  <2>1. Log' = Log
    BY <1>1 DEF Log
  <2>2. TypeInv
    BY DEF OnceInv
  <2>3. TypeInv'
    BY <1>1, <1>4, <2>2 DEF TypeInv, RingOK
  <2>4. QED BY <1>3, <2>1, <2>3, PlaceMove
<1>6. TotalsInv'
  <2>1. Totals' = Totals /\ DOMAIN saver' = {"at", "snap"}
    BY <1>1, <1>4, OnceFacts DEF Totals
  <2>2. QED BY <1>3, <2>1, TotalsMove
<1>7. ReplayInv'
  BY <1>1, <1>4, ReplayParts
<1>8. QED BY <1>5, <1>6, <1>7 DEF OnceInv

\* The request rebuilds the totals, or takes a snapshot of them and saves it.
LEMMA RebuildOnce ==
  ASSUME OnceInv,
         ResetStats \/ RecalculateFromRecords \/ AdminSnapshot \/ AdminSaves
  PROVE  OnceInv'
<1>1. /\ mode \in Running
      /\ UNCHANGED <<mode, boots, serving, recorded, queue, open, worker,
                     ring, logQueue, logBuffer, file, saver, stopSnap,
                     admins, directive, history>>
  BY DEF ResetStats, RecalculateFromRecords, AdminSnapshot, AdminSaves,
         AdminAt, daemon, tracker, logger, store
<1>2. ReplayOK /\ RingOK
  BY ReplayParts
<1>3. Unmoved /\ Shrinking
  BY <1>1, UnmovedShrinks DEF Unmoved
<1>4. ReplayOK'
  <2>1. CASE AdminSaves
    <3>1. DOMAIN admin' = {"op", "at", "records", "snap"}
          /\ admin'.records = <<>>
      BY <2>1 DEF AdminSaves, Idle
    <3>2. QED BY <3>1, EmptyReplay
  <2>2. CASE ResetStats \/ RecalculateFromRecords \/ AdminSnapshot
    <3>1. \/ admin' = [admin EXCEPT !.at = "ring"]
          \/ admin' = [admin EXCEPT !.at = "save", !.snap = stats]
      BY <2>2 DEF ResetStats, RecalculateFromRecords, AdminSnapshot
    <3>2. /\ DOMAIN admin' = {"op", "at", "records", "snap"}
          /\ admin'.records = admin.records /\ admin'.at \in {"ring", "save"}
      BY <3>1, OnceFacts
    <3>3. QED BY <1>2, <1>3, <3>2 DEF ReplayOK, Shrinking
  <2>3. QED BY <2>1, <2>2
<1>5. RingOK'
  BY <1>1, <1>2, <1>3 DEF RingOK, Shrinking
<1>6. TypeInv' /\ PlaceInv'
  <2>1. Log' = Log
    BY <1>1 DEF Log
  <2>2. TypeInv'
    BY <1>1 DEF OnceInv, TypeInv
  <2>3. QED BY <1>3, <2>1, <2>2, PlaceMove
<1>7. TotalsInv'
  <2>1. CASE RecalculateFromRecords
    <3> DEFINE r == admin.records
    <3>1. /\ stats' = Recounted(r) /\ saved' = saved
          /\ admin' = [admin EXCEPT !.at = "ring"]
      BY <2>1 DEF RecalculateFromRecords, store
    <3>2. admin'.snap = admin.snap
      BY <3>1, OnceFacts
    <3>3. r \in Seq(Turns) /\ IsInjective(r) /\ ToSet(r) \cap Unlisted = {}
      BY <1>2 DEF ReplayOK
    <3> HIDE DEF r
    <3>4. /\ Recounted(r) \in [Turns -> {0, 1}]
          /\ \A t \in Turns \ ToSet(r) : Recounted(r)[t] = 0
      BY <3>3, RecountOnce
    <3>5. Fresh' = Fresh /\ Fresh \subseteq Turns \ ToSet(r)
      BY <1>1, <3>3, UnlistedUnlogged, UnloggedTurns DEF Fresh, OnceInv
    <3>6. stats' \in [Turns -> {0, 1}] /\ \A t \in Fresh' : stats'[t] = 0
      BY <3>1, <3>4, <3>5
    <3>7. QED BY <1>1, <3>1, <3>2, <3>5, <3>6 DEF OnceInv, TotalsInv, Once
  <2>2. CASE ResetStats \/ AdminSnapshot \/ AdminSaves
    <3>1. /\ stats' \in Totals \cup {NoCount} /\ saved' \in Totals
          /\ admin'.snap \in Totals \cup {NoCount}
      <4>1. CASE ResetStats
        <5>1. /\ stats' = NoCount /\ saved' = saved
              /\ admin' = [admin EXCEPT !.at = "ring"]
          BY <4>1 DEF ResetStats, store
        <5>2. admin'.snap = admin.snap
          BY <5>1, OnceFacts
        <5>3. QED BY <5>1, <5>2 DEF Totals
      <4>2. CASE AdminSnapshot
        <5>1. /\ stats' = stats /\ saved' = saved
              /\ admin' = [admin EXCEPT !.at = "save", !.snap = stats]
          BY <4>2 DEF AdminSnapshot, store, tracker
        <5>2. admin'.snap = stats
          BY <5>1, OnceFacts
        <5>3. QED BY <5>1, <5>2 DEF Totals
      <4>3. CASE AdminSaves
        <5>1. /\ stats' = stats /\ saved' \in {saved, admin.snap}
              /\ admin' = Idle
          BY <4>3 DEF AdminSaves, tracker
        <5>2. admin'.snap = NoCount
          BY <5>1 DEF Idle
        <5>3. QED BY <5>1, <5>2 DEF Totals
      <4>4. QED BY <2>2, <4>1, <4>2, <4>3
    <3>2. /\ Totals' \subseteq Totals \cup {NoCount}
          /\ DOMAIN saver' = {"at", "snap"}
      BY <1>1, <3>1, OnceFacts DEF Totals
    <3>3. QED BY <1>3, <3>2, TotalsMove
  <2>3. QED BY <2>1, <2>2
<1>8. ReplayInv'
  BY <1>1, <1>4, <1>5, ReplayParts
<1>9. QED BY <1>6, <1>7, <1>8 DEF OnceInv

LEMMA AdminOnce ==
  ASSUME OnceInv, AdminNext
  PROVE  OnceInv'
BY AsideOnce, ReplayOnce, RebuildOnce DEF AdminNext

\* The steps of a stop but the last.
LEMMA StopOnce ==
  ASSUME OnceInv, Stop \/ (StopNext /\ ~CloseLog)
  PROVE  OnceInv'
<1>1. /\ mode' \in Running
      /\ UNCHANGED <<boots, serving, recorded, queue, worker, stats, ring,
                     logQueue, logBuffer, file, saver, admin, admins,
                     directive>>
      /\ open' \in {open, FALSE}
      /\ saved' \in {saved, stopSnap} /\ stopSnap' \in {stopSnap, stats}
      /\ history' = history \/ history' = [history EXCEPT !.overran = TRUE]
  <2>1. CASE Stop \/ ShutdownDone \/ ShutdownTimeout
    BY <2>1 DEF Stop, ShutdownDone, ShutdownTimeout, Goes, tracker, logger,
                store, management, Running, Stopping
  <2>2. CASE StopSnapshot \/ StopSaves
    BY <2>2 DEF StopSnapshot, StopSaves, Goes, tracker, logger, management,
                Running, Stopping
  <2>3. CASE CloseTracker \/ WorkerDone
    BY <2>3 DEF CloseTracker, WorkerDone, Goes, tracker, logger, store,
                management, Running, Stopping
  <2>4. QED BY <2>1, <2>2, <2>3 DEF StopNext
<1>2. Unmoved /\ Shrinking
  BY <1>1, UnmovedShrinks DEF Unmoved
<1>3. TypeInv'
  <2>1. /\ DOMAIN history' = DOMAIN history
        /\ history'.lost = history.lost /\ history'.purged = history.purged
        /\ history'.condemned = history.condemned
    BY <1>1, OnceFacts
  <2>2. mode' \in Modes /\ open' \in BOOLEAN
    BY <1>1 DEF Modes, OnceInv, TypeInv
  <2>3. QED BY <1>1, <2>1, <2>2 DEF OnceInv, TypeInv
<1>4. PlaceInv'
  <2>1. Log' = Log
    BY <1>1 DEF Log
  <2>2. QED BY <1>2, <2>1, PlaceMove
<1>5. TotalsInv'
  <2>1. Totals' \subseteq Totals /\ DOMAIN saver' = {"at", "snap"}
    BY <1>1, OnceFacts DEF Totals
  <2>2. QED BY <1>2, <2>1, TotalsMove
<1>6. ReplayInv'
  BY <1>1, <1>2, ReplayMove
<1>7. QED BY <1>3, <1>4, <1>5, <1>6 DEF OnceInv

\* The process ends: what is on disk stays, or is the whole log.
LEMMA EndOnce ==
  ASSUME OnceInv, CloseLog \/ Exit
  PROVE  OnceInv'
<1>1. /\ Gone /\ mode' = "off" /\ UNCHANGED <<boots, recorded, saved, admins,
                                              directive>>
      /\ file' \in {file, Log}
  BY DEF CloseLog, Exit, Goes, Log
<1>2. recorded \in 0 .. MaxTurns /\ 1 .. recorded \subseteq Turns
  <2>1. recorded \in 0 .. MaxTurns /\ MaxTurns \in Nat
    BY OnceFacts
  <2>2. QED BY <2>1 DEF Turns
<1>3. /\ history'.condemned = Condemned
      /\ history'.purged = history.purged
      /\ history'.lost \subseteq history.lost \cup 1 .. recorded
      /\ DOMAIN history' = DOMAIN history
  <2>1. CASE CloseLog
    <3>1. history' = [history EXCEPT !.orderly = TRUE, !.condemned = Condemned]
      BY <2>1 DEF CloseLog
    <3>2. QED BY <3>1, OnceFacts
  <2>2. CASE Exit
    <3> DEFINE gone == (1 .. recorded) \ (ToSet(file) \cup history.purged)
    <3>1. history' = [history EXCEPT !.orderly = FALSE,
                                     !.condemned = Condemned,
                                     !.lost = @ \cup gone]
      BY <2>2 DEF Exit
    <3>2. gone \subseteq 1 .. recorded
      OBVIOUS
    <3> HIDE DEF gone
    <3>3. /\ history'.condemned = Condemned /\ history'.purged = history.purged
          /\ history'.lost = history.lost \cup gone
          /\ DOMAIN history' = DOMAIN history
      BY <3>1, OnceFacts
    <3>4. QED BY <3>2, <3>3
  <2>3. QED BY <2>1, <2>2
<1>4. /\ history.lost \subseteq Turns /\ history.purged \subseteq Turns
      /\ history.condemned \subseteq Turns
      /\ DOMAIN history = DOMAIN InitHistory
  BY DEF OnceInv, TypeInv
<1>5. /\ history'.lost \subseteq Turns /\ history'.purged \subseteq Turns
      /\ history'.condemned \subseteq Turns
      /\ DOMAIN history' = DOMAIN InitHistory
  BY <1>2, <1>3, <1>4 DEF Condemned
<1>6. file' \in Seq(Turns)
  BY <1>1, LogParts
<1> DEFINE none == <<>>
<1>7. none \in Seq(Turns) /\ Len(none) = 0
  BY Nothing
<1>8. /\ serving' = 0 /\ queue' = none /\ open' = TRUE
      /\ worker' = [stage |-> 0, turn |-> 0] /\ stats' = NoCount
      /\ ring' = none /\ logQueue' = none /\ logBuffer' = none
      /\ saver' = NoSave /\ stopSnap' = NoCount /\ admin' = Idle
  BY <1>1 DEF Gone
<1> HIDE DEF none
<1>9. TypeInv'
  <2>1. /\ MaxTurns \in Nat /\ MaxServing \in Nat /\ QueueCap \in Nat
        /\ LogCap \in Nat /\ RingCap \in Nat
    BY BoundsAssumption
  <2>2. /\ mode' \in Modes /\ open' \in BOOLEAN /\ serving' \in 0 .. MaxServing
        /\ recorded' \in Nat /\ recorded' + serving' <= MaxTurns
    BY <1>1, <1>2, <1>8, <2>1 DEF Modes
  <2>3. /\ worker' \in [stage : 0 .. 3, turn : 0 .. MaxTurns]
        /\ worker'.stage = 0
    BY <1>8, <2>1
  <2>4. /\ boots' \in 0 .. MaxBoots /\ admins' \in 0 .. MaxAdmin
        /\ directive' \in BOOLEAN
    BY <1>1 DEF OnceInv, TypeInv
  <2>5. QED BY <1>5, <1>6, <1>7, <1>8, <2>1, <2>2, <2>3, <2>4 DEF TypeInv
<1>10. PlaceInv'
  BY <1>1, PlaceGone
<1>11. TotalsInv'
  <2>1. /\ DOMAIN saver' = {"at", "snap"} /\ saver'.snap = NoCount
        /\ admin'.snap = NoCount
    BY <1>8 DEF NoSave, Idle
  <2>2. Totals' \subseteq Totals \cup {NoCount}
    BY <1>1, <1>8, <2>1 DEF Totals
  <2>3. Shrinking
    BY <1>1, GoneShrinks
  <2>4. QED BY <2>1, <2>2, <2>3, TotalsMove
<1>12. ReplayInv'
  BY <1>1, ReplayGone
<1>13. QED BY <1>9, <1>10, <1>11, <1>12 DEF OnceInv

\* A start: the memory is empty, the totals are those saved, and the recent
\* routes are read back from the log.
LEMMA BootOnce ==
  ASSUME OnceInv, LogInv, BootNext
  PROVE  OnceInv'
<1>1. mode \notin Running /\ Empty
  BY DEF BootNext, Boot, RotateLogs, RemoveStats, WipeDirective, Load, Goes,
         LogInv, Phases, Running, Stopping
<1>2. /\ mode' \in Modes
      /\ UNCHANGED <<serving, recorded, queue, open, worker, logQueue,
                     logBuffer, saver, stopSnap, admin, admins>>
      /\ boots' \in 0 .. MaxBoots /\ directive' \in {directive, FALSE}
      /\ file' \in {file, <<>>} /\ saved' \in {saved, NoCount}
  <2>1. boots \in 0 .. MaxBoots /\ MaxBoots \in Nat
    BY BoundsAssumption DEF OnceInv, TypeInv
  <2>2. CASE Boot
    BY <2>1, <2>2 DEF Boot, Modes, Booting, tracker, logger, store, management
  <2>3. CASE RotateLogs \/ RemoveStats
    BY <2>1, <2>3 DEF RotateLogs, RemoveStats, Goes, Modes, Booting, tracker,
                      logger, store, management
  <2>4. CASE WipeDirective \/ Load
    BY <2>1, <2>4 DEF WipeDirective, Load, Goes, Modes, Booting, Running,
                      tracker, logger, store, management
  <2>5. QED BY <2>2, <2>3, <2>4 DEF BootNext
<1>3. /\ \/ stats' = stats /\ ring' = ring
         \/ /\ stats' = saved /\ mode' = "up" /\ file' = file
            /\ ring' = FoldLeft(Emitted, <<>>, ReadCompleteSessions(file))
  BY DEF BootNext, Boot, RotateLogs, RemoveStats, WipeDirective, Load, Goes,
         tracker, logger
<1>4. Unmoved /\ Shrinking
  BY <1>2, UnmovedShrinks DEF Unmoved
<1>5. /\ DOMAIN history' = DOMAIN history
      /\ history'.lost = history.lost
      /\ history'.purged \subseteq history.purged \cup ToSet(file)
      /\ history'.condemned = history.condemned
  <2>1. \/ history' = history
        \/ history' = [history EXCEPT !.orderly = FALSE, !.ordered = FALSE,
                                      !.overran = FALSE, !.panicked = FALSE]
        \/ history' = [history EXCEPT !.purged = @ \cup ToSet(file)]
    BY DEF BootNext, Boot, RotateLogs, RemoveStats, WipeDirective, Load
  <2>2. QED BY <2>1, OnceFacts
<1>6. /\ file \in Seq(Turns) /\ IsInjective(file)
      /\ ToSet(file) \cap Unlogged = {} /\ ToSet(file) \subseteq Turns
  <2>1. file \in Seq(Turns)
    BY LogParts
  <2>2. QED BY <2>1, LogParts, Holds
<1>7. RingOK'
  <2>1. CASE stats' = stats /\ ring' = ring
    <3>1. RingOK
      BY ReplayParts
    <3>2. QED BY <1>4, <2>1, <3>1 DEF RingOK, Shrinking
  <2>2. CASE ring' = FoldLeft(Emitted, <<>>, ReadCompleteSessions(file))
    <3>1. Routes(ring', ToSet(file))
      BY <1>6, <2>2, HydrateLists
    <3>2. ToSet(file) \cap Unlisted' = {}
      BY <1>4, <1>6, UnlistedUnlogged DEF Shrinking
    <3>3. QED BY <3>1, <3>2 DEF RingOK, Routes, Listing
  <2>3. QED BY <1>3, <2>1, <2>2
<1> DEFINE none == <<>>
<1>8. none \in Seq(Turns) /\ IsInjective(none) /\ ToSet(none) = {}
  BY Nothing
<1>9. /\ file' \in Seq(Turns) /\ IsInjective(file')
      /\ ToSet(file') \subseteq ToSet(file)
  <2>1. file' \in {file, none}
    BY <1>2
  <2> HIDE DEF none
  <2>2. QED BY <1>6, <1>8, <2>1
<1>10. TypeInv'
  <2>1. /\ DOMAIN history' = DOMAIN InitHistory
        /\ history'.lost \subseteq Turns /\ history'.purged \subseteq Turns
        /\ history'.condemned \subseteq Turns
    BY <1>5, <1>6 DEF OnceInv, TypeInv
  <2>2. directive' \in BOOLEAN
    BY <1>2 DEF OnceInv, TypeInv
  <2>3. ring' \in Seq(Turns) /\ Len(ring') <= RingCap
    BY <1>7 DEF RingOK
  <2>4. TypeInv
    BY DEF OnceInv
  <2>5. QED BY <1>2, <1>9, <2>1, <2>2, <2>3, <2>4 DEF TypeInv
<1>11. PlaceInv'
  <2>1. Log' = file'
    <3>1. Log' = (file' \o <<>>) \o <<>>
      BY <1>1, <1>2 DEF Log, Empty
    <3>2. file' \o <<>> = file'
      BY <1>9, ConcatNothing
    <3>3. QED BY <3>1, <3>2
  <2>2. Unlogged' \subseteq Unlogged /\ Held' = Held
    BY <1>2, <1>4 DEF Shrinking, Held
  <2>3. IsInjective(Log') /\ ToSet(Log') \cap Unlogged' = {}
    BY <1>6, <1>9, <2>1, <2>2
  <2>4. PlaceInv
    BY DEF OnceInv
  <2>5. QED BY <1>2, <2>2, <2>3, <2>4 DEF PlaceInv
<1>12. TotalsInv'
  <2>1. /\ Totals' \subseteq Totals \cup {NoCount}
        /\ DOMAIN saver' = {"at", "snap"}
    BY <1>2, <1>3, OnceFacts DEF Totals
  <2>2. QED BY <1>4, <2>1, TotalsMove
<1>13. ReplayInv'
  <2>1. admin = Idle /\ admin' = Idle
    BY <1>1, <1>2 DEF OnceInv, ReplayInv
  <2>2. /\ DOMAIN admin' = {"op", "at", "records", "snap"}
        /\ admin'.records = none /\ admin'.at = "idle" /\ Len(none) = 0
    BY <2>1 DEF Idle
  <2>3. 0 <= MaxTurns
    BY BoundsAssumption
  <2> HIDE DEF none
  <2>4. QED BY <1>7, <1>8, <2>1, <2>2, <2>3 DEF RingOK, ReplayInv
<1>14. QED BY <1>10, <1>11, <1>12, <1>13 DEF OnceInv

LEMMA NextOnce ==
  ASSUME OnceInv, LogInv, [Next]_vars
  PROVE  OnceInv'
<1>1. CASE WorkerNext
  BY <1>1, ReceiveOnce, CountOnce, ListOnce, EmitLogOnce DEF WorkerNext
<1>2. CASE Stop \/ StopNext
  <2>1. CASE CloseLog
    BY <2>1, EndOnce
  <2>2. CASE ~CloseLog
    BY <1>2, <2>2, StopOnce DEF StopNext
  <2>3. QED BY <2>1, <2>2
<1>3. CASE UNCHANGED vars
  <2>1. UNCHANGED <<mode, boots, serving, recorded, queue, open, worker, stats,
                    ring, logQueue, logBuffer, file, saved, saver, stopSnap,
                    admin, admins, directive, history>>
    BY <1>3 DEF vars, daemon, tracker, logger, store, management
  <2>2. Fresh' = Fresh /\ Unlisted' = Unlisted /\ Unlogged' = Unlogged
        /\ Held' = Held /\ Log' = Log
    BY <2>1 DEF Fresh, Unlisted, Unlogged, Held, Log
  <2>3. TypeInv' /\ PlaceInv'
    <3>1. TypeInv /\ PlaceInv
      BY DEF OnceInv
    <3>2. TypeInv'
      BY ONLY <2>1, <3>1 DEF TypeInv
    <3>3. PlaceInv'
      BY ONLY <2>1, <2>2, <3>1 DEF PlaceInv
    <3>4. QED BY <3>2, <3>3
  <2>4. TotalsInv' /\ ReplayInv'
    <3>1. TotalsInv /\ ReplayInv
      BY DEF OnceInv
    <3>2. TotalsInv'
      BY ONLY <2>1, <2>2, <3>1 DEF TotalsInv, Once
    <3>3. ReplayInv'
      <4>1. admin' = admin /\ ring' = ring /\ mode' = mode
            /\ Unlisted' = Unlisted
        BY ONLY <2>1, <2>2
      <4>2. QED BY ONLY <3>1, <4>1, Zenon DEF ReplayInv
    <3>4. QED BY <3>2, <3>3
  <2>5. QED BY <2>3, <2>4 DEF OnceInv
<1>4. QED
  BY <1>1, <1>2, <1>3, LoggerOnce, SaverOnce, HandlerOnce, AdminOnce, EndOnce,
     BootOnce DEF Next

LEMMA TurnSeqsHold ==
  ASSUME NEW n \in Nat, NEW s \in Seq(Turns), Len(s) <= n
  PROVE  s \in TurnSeqs(n)
<1>1. Len(s) \in 0 .. n /\ s \in [1 .. Len(s) -> Turns]
  OBVIOUS
<1>2. QED BY <1>1 DEF TurnSeqs

LEMMA OnceCounted == OnceInv => CountedOnce
<1> SUFFICES ASSUME OnceInv PROVE CountedOnce
  OBVIOUS
<1>1. /\ MaxTurns \in Nat /\ QueueCap \in Nat /\ LogCap \in Nat
      /\ RingCap \in Nat
  BY BoundsAssumption
<1>2. /\ queue \in TurnSeqs(QueueCap) /\ ring \in TurnSeqs(RingCap)
      /\ logQueue \in TurnSeqs(LogCap)
  BY <1>1, TurnSeqsHold DEF OnceInv, TypeInv
<1>3. logBuffer \in TurnSeqs(MaxTurns) /\ file \in TurnSeqs(MaxTurns)
  <2>1. Len(logBuffer) <= MaxTurns /\ Len(file) <= MaxTurns
    BY LogParts, DistinctShort
  <2>2. QED BY <1>1, <2>1, LogParts, TurnSeqsHold
<1>4. admin.records \in TurnSeqs(MaxTurns)
  <2>1. admin.records \in Seq(Turns) /\ Len(admin.records) <= MaxTurns
    BY DEF OnceInv, ReplayInv
  <2> DEFINE r == admin.records
  <2> HIDE DEF r
  <2>2. r \in Seq(Turns) /\ Len(r) <= MaxTurns => r \in TurnSeqs(MaxTurns)
    BY <1>1, TurnSeqsHold
  <2>3. QED BY <2>1, <2>2 DEF r
<1>5. ASSUME NEW c \in Totals
      PROVE  c \in [Turns -> {0, 1}]
  BY DEF Totals, OnceInv, TotalsInv, Once
<1>6. [Turns -> {0, 1}] \subseteq [Turns -> Nat]
  OBVIOUS
<1>7. {stats, saved, stopSnap, saver.snap, admin.snap} \subseteq [Turns -> Nat]
  BY <1>5, <1>6 DEF Totals
<1>8. \A t \in Turns : stats[t] <= 1 /\ saved[t] <= 1
  <2>1. stats \in [Turns -> {0, 1}] /\ saved \in [Turns -> {0, 1}]
    BY DEF OnceInv, TotalsInv, Once
  <2>2. QED BY <2>1
<1>9. /\ mode \in Modes /\ boots \in 0 .. MaxBoots
      /\ serving \in 0 .. MaxServing /\ recorded \in 0 .. MaxTurns
      /\ open \in BOOLEAN /\ worker.stage \in 0 .. 3
      /\ worker.turn \in 0 .. MaxTurns
      /\ admins \in 0 .. MaxAdmin /\ directive \in BOOLEAN
      /\ history.lost \subseteq Turns /\ history.purged \subseteq Turns
      /\ history.condemned \subseteq Turns
  <2>1. recorded \in 0 .. MaxTurns /\ worker.stage \in 0 .. 3
        /\ worker.turn \in 0 .. MaxTurns
    BY OnceFacts
  <2>2. QED BY <2>1 DEF OnceInv, TypeInv
<1>10. TypeOK
  BY <1>2, <1>3, <1>4, <1>7, <1>9 DEF TypeOK
<1>11. IsInjective(ring)
  BY DEF OnceInv, ReplayInv
<1>12. QED BY <1>8, <1>10, <1>11 DEF CountedOnce

(* No turn is counted twice in the totals in memory or on disk, and none is *)
(* listed twice among the recent routes, for any number of turns, requests  *)
(* and starts and any capacities: the worker counts before it lists and     *)
(* lists before it logs, so what a recalculation or a restart reads back    *)
(* from the traffic log is never still to come (metrics.go, main.go).       *)
THEOREM CountedOnceOnly == Spec => []CountedOnce
<1>1. Init => RecordInv /\ LogInv /\ OnceInv
  BY InitRecord, InitLog, InitOnce
<1>2. RecordInv /\ LogInv /\ OnceInv /\ [Next]_vars
        => RecordInv' /\ LogInv' /\ OnceInv'
  BY NextRecord, NextLog, NextOnce
<1>3. OnceInv => CountedOnce
  BY OnceCounted
<1>4. QED BY <1>1, <1>2, <1>3, PTL DEF Spec
=============================================================================
