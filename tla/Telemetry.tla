------------------------------ MODULE Telemetry ------------------------------
(***************************************************************************)
(* What becomes of a turn once it has been answered: the queue and the     *)
(* worker of pkg/telemetry/metrics.go, the ring of recent routes, the      *)
(* traffic log, the snapshot of pkg/store, the management requests that    *)
(* rewrite them, and the life of the daemon around them (cold purge,       *)
(* start, orderly stop, os.Exit).                                          *)
(*                                                                         *)
(* A turn is the number of its place in the queue, which is also the order *)
(* of the time stamps the worker gives.  What is counted of a turn (tier,  *)
(* tokens, cost, windows) is reduced to how often it was counted.  The     *)
(* queues, the ring and the log hold turns.  Every critical section and    *)
(* every channel operation is one step; what runs without a lock across    *)
(* two of them (the worker's count and its three sinks, a management       *)
(* request, GetStats and the Save of its result, Stop) is several.         *)
(***************************************************************************)
EXTENDS Naturals, Sequences, SequencesExt, FiniteSets

CONSTANTS MaxTurns,    \* bound: turns in all
          MaxServing,  \* bound: turns being served at once
          MaxAdmin,    \* bound: management requests in all
          MaxBoots,    \* bound: starts of the daemon
          QueueCap,    \* capacity of obsChan
          LogCap,      \* capacity of the traffic log's queue
          RingCap,     \* capacity of the ring
          HydrateSessions, \* sessions read back at the start
          SessionOf    \* the session of each turn

Turns == 1 .. MaxTurns

ASSUME BoundsAssumption ==
    /\ {MaxTurns, MaxServing, MaxAdmin, MaxBoots} \subseteq Nat
    /\ {QueueCap, LogCap, RingCap, HydrateSessions} \subseteq Nat \ {0}
ASSUME SessionsAssumption == DOMAIN SessionOf = Turns

VARIABLES
  mode,      \* where the daemon is, see Modes
  boots,     \* number of starts
  serving,   \* requests being served: turns not yet recorded, SSE streams
  recorded,  \* turns accepted by Record so far
  queue,     \* obsChan
  open,      \* obsChan has not been closed
  worker,    \* the stats worker: its stage (0: receiving) and its turn
  stats,     \* how often each turn is counted in tracker.stats
  ring,      \* the recent routes, newest last
  logQueue,  \* TrafficLogger.queue
  logBuffer, \* TrafficLogger.writer
  file,      \* traffic.jsonl
  saved,     \* stats.json
  saver,     \* the periodic sync: its position and the snapshot it took
  stopSnap,  \* the snapshot taken by Stop
  admin,     \* the management request in progress
  admins,    \* number of management requests so far
  directive, \* the directive file is present
  history    \* for the properties only, see InitHistory

daemon == <<mode, boots>>
tracker == <<queue, open, worker, stats>>
logger == <<logQueue, logBuffer, file>>
store == <<saved, saver, stopSnap>>
management == <<admin, admins, directive>>
vars == <<daemon, serving, recorded, tracker, ring, logger, store,
          management, history>>

Booting == {"boot", "rotate", "unstat", "wipe", "load"}
Stopping == {"shutdown", "flush", "save", "close", "drain",
             "closeLog"}
Running == {"up"} \cup Stopping
Modes == {"off"} \cup Booting \cup Running

NoCount == [t \in Turns |-> 0]
Idle == [op |-> "none", at |-> "idle", records |-> <<>>, snap |-> NoCount]
NoSave == [at |-> "idle", snap |-> NoCount]

(***************************************************************************)
(* lost: accepted turns whose log record was dropped by a full queue or by *)
(* an exit without Stop; purged: turns removed by a cold purge; ordered:   *)
(* this daemon has written a directive; condemned: the turns accepted      *)
(* before the exit of a daemon that had; overran: Shutdown gave up on      *)
(* requests in progress; panicked: a turn was recorded on the closed       *)
(* queue; orderly: the last exit was through Stop.                         *)
(***************************************************************************)
InitHistory == [lost |-> {}, purged |-> {}, condemned |-> {},
                ordered |-> FALSE, overran |-> FALSE, panicked |-> FALSE,
                orderly |-> FALSE]

Volatile ==
    /\ serving = 0
    /\ queue = <<>> /\ open = TRUE /\ worker = [stage |-> 0, turn |-> 0]
    /\ stats = NoCount /\ ring = <<>>
    /\ logQueue = <<>> /\ logBuffer = <<>>
    /\ saver = NoSave /\ stopSnap = NoCount /\ admin = Idle

Init ==
    /\ mode = "off" /\ boots = 0 /\ recorded = 0
    /\ Volatile
    /\ file = <<>> /\ saved = NoCount /\ admins = 0 /\ directive = FALSE
    /\ history = InitHistory

(* The memory of the process is gone, what is on disk stays. *)
Gone ==
    /\ serving' = 0
    /\ queue' = <<>> /\ open' = TRUE /\ worker' = [stage |-> 0, turn |-> 0]
    /\ stats' = NoCount /\ ring' = <<>>
    /\ logQueue' = <<>> /\ logBuffer' = <<>>
    /\ saver' = NoSave /\ stopSnap' = NoCount /\ admin' = Idle

----------------------------------------------------------------------------
(* Counting, the ring and the log *)

Counted(count, t) == [count EXCEPT ![t] = @ + 1]

(* RingBufferSink.Emit: the oldest record is overwritten. *)
Emitted(r, t) ==
    IF Len(r) < RingCap THEN Append(r, t) ELSE Append(Tail(r), t)

(* The records read back, grouped by session in the order in which the    *)
(* sessions were first seen; past the limit the session first seen longest *)
(* ago is dropped, and a later record of it opens it anew.                 *)
AddToSession(groups, t) ==
    IF \E i \in DOMAIN groups : SessionOf[groups[i][1]] = SessionOf[t]
    THEN [i \in DOMAIN groups |->
             IF SessionOf[groups[i][1]] = SessionOf[t]
             THEN Append(groups[i], t) ELSE groups[i]]
    ELSE IF Len(groups) = HydrateSessions
         THEN Append(Tail(groups), <<t>>) ELSE Append(groups, <<t>>)

ReadCompleteSessions(records) ==
    FlattenSeq(FoldLeft(AddToSession, <<>>, records))

(* RecalculateFromRecordsAt: everything is rebuilt from the records read. *)
Recounted(records) == FoldLeft(Counted, NoCount, records)

----------------------------------------------------------------------------
(* Turns and SSE streams: the handlers of the HTTP server.  They go on      *)
(* after a Shutdown that gave up.                                           *)

Arrive ==
    /\ mode = "up" /\ serving < MaxServing /\ recorded + serving < MaxTurns
    /\ serving' = serving + 1
    /\ UNCHANGED <<daemon, recorded, tracker, ring, logger, store,
                   management, history>>

(* Record: queued, dropped by a full queue, or a panic if the queue has     *)
(* been closed; net/http ends the goroutine of the request.                 *)
Record ==
    /\ mode \in Running /\ serving > 0
    /\ serving' = serving - 1
    /\ \/ /\ open /\ Len(queue) < QueueCap
          /\ queue' = Append(queue, recorded + 1)
          /\ recorded' = recorded + 1
          /\ UNCHANGED history
       \/ /\ open /\ Len(queue) = QueueCap
          /\ UNCHANGED <<queue, recorded, history>>
       \/ /\ ~open
          /\ history' = [history EXCEPT !.panicked = TRUE]
          /\ UNCHANGED <<queue, recorded>>
    /\ UNCHANGED <<daemon, open, worker, stats, ring, logger, store,
                   management>>

(* A failed turn, or an SSE stream whose client goes away. *)
EndUnrecorded ==
    /\ mode \in Running /\ serving > 0
    /\ serving' = serving - 1
    /\ UNCHANGED <<daemon, recorded, tracker, ring, logger, store,
                   management, history>>

----------------------------------------------------------------------------
(* StatsTracker.worker *)

(* Mutant: the sinks are fed before the turn is counted. *)
StagesCountLast == <<"ring", "log", "count">>
(* Mutant: the traffic log is registered before the ring. *)
StagesLogFirst == <<"count", "log", "ring">>

(* The worker counts, then calls its sinks in the order of AddSink; the     *)
(* event broker among them never waits and keeps nothing.                   *)
WorkerStages == <<"count", "ring", "log">>

At(stage) == mode \in Running /\ worker.stage > 0
             /\ WorkerStages[worker.stage] = stage

Advance == worker' = IF worker.stage = Len(WorkerStages)
                     THEN [stage |-> 0, turn |-> 0]
                     ELSE [worker EXCEPT !.stage = @ + 1]

WorkerReceive ==
    /\ mode \in Running /\ worker.stage = 0 /\ queue # <<>>
    /\ worker' = [stage |-> 1, turn |-> Head(queue)]
    /\ queue' = Tail(queue)
    /\ UNCHANGED <<daemon, serving, recorded, open, stats, ring, logger,
                   store, management, history>>

WorkerCount ==
    /\ At("count") /\ Advance
    /\ stats' = Counted(stats, worker.turn)
    /\ UNCHANGED <<daemon, serving, recorded, queue, open, ring, logger,
                   store, management, history>>

WorkerEmitRing ==
    /\ At("ring") /\ Advance
    /\ ring' = Emitted(ring, worker.turn)
    /\ UNCHANGED <<daemon, serving, recorded, queue, open, stats, logger,
                   store, management, history>>

(* TrafficLogger.Emit: dropped by a full queue.  (The logger is closed only *)
(* after the worker has ended.)                                             *)
WorkerEmitLog ==
    /\ At("log") /\ Advance
    /\ IF Len(logQueue) < LogCap
       THEN /\ logQueue' = Append(logQueue, worker.turn)
            /\ UNCHANGED history
       ELSE /\ history' = [history EXCEPT !.lost = @ \cup {worker.turn}]
            /\ UNCHANGED logQueue
    /\ UNCHANGED <<daemon, serving, recorded, queue, open, stats, ring,
                   logBuffer, file, store, management>>

WorkerNext == WorkerReceive \/ WorkerCount \/ WorkerEmitRing \/ WorkerEmitLog

----------------------------------------------------------------------------
(* TrafficLogger.worker *)

LogWrite ==
    /\ mode \in Running /\ logQueue # <<>>
    /\ logBuffer' = Append(logBuffer, Head(logQueue))
    /\ logQueue' = Tail(logQueue)
    /\ UNCHANGED <<daemon, serving, recorded, tracker, ring, file, store,
                   management, history>>

(* The two-second ticker, or a full buffer. *)
LogTick ==
    /\ mode \in Running /\ logBuffer # <<>>
    /\ file' = file \o logBuffer
    /\ logBuffer' = <<>>
    /\ UNCHANGED <<daemon, serving, recorded, tracker, ring, logQueue, store,
                   management, history>>

(* A flush or close request: what is queued is written and the buffer is   *)
(* flushed.                                                                *)
LogDrained ==
    /\ file' = file \o logBuffer \o logQueue
    /\ logBuffer' = <<>> /\ logQueue' = <<>>

----------------------------------------------------------------------------
(* The snapshot: DiskStore.Save replaces the file or leaves it as it was.   *)
(* The argument is evaluated before Save takes its lock.                    *)

SaverTick ==
    /\ mode \in {"up", "shutdown"} /\ saver.at = "idle"
    /\ saver' = [at |-> "save", snap |-> stats]
    /\ UNCHANGED <<daemon, serving, recorded, tracker, ring, logger, saved,
                   stopSnap, management, history>>

(* Mutant: a timer that fires once instead of a ticker. *)
SaverSavesOnce ==
    /\ mode \in Running /\ saver.at = "save"
    /\ saved' = saver.snap
    /\ saver' = [NoSave EXCEPT !.at = "done"]
    /\ UNCHANGED <<daemon, serving, recorded, tracker, ring, logger,
                   stopSnap, management, history>>

SaverSave ==
    /\ mode \in Running /\ saver.at = "save"
    /\ saved' = saver.snap
    /\ saver' = NoSave
    /\ UNCHANGED <<daemon, serving, recorded, tracker, ring, logger,
                   stopSnap, management, history>>

SaverFails ==
    /\ mode \in Running /\ saver.at = "save"
    /\ saver' = NoSave
    /\ UNCHANGED <<daemon, serving, recorded, tracker, ring, logger, saved,
                   stopSnap, management, history>>

----------------------------------------------------------------------------
(* Management requests, one at a time *)

AdminStarts(op, at) ==
    /\ mode = "up" /\ admin.op = "none" /\ admins < MaxAdmin
    /\ admin' = [Idle EXCEPT !.op = op, !.at = at]
    /\ admins' = admins + 1
    /\ UNCHANGED <<daemon, serving, recorded, tracker, ring, logger, store,
                   directive, history>>

StatsResetStarts == AdminStarts("reset", "stats")
RecalculateStarts == AdminStarts("recalculate", "read")
TuneStarts == AdminStarts("tune", "flush")
PurgeStarts == AdminStarts("purge", "directive")

AdminAt(at) == mode \in Running /\ admin.at = at

(* StatsTracker.Reset *)
ResetStats ==
    /\ AdminAt("stats")
    /\ stats' = NoCount
    /\ admin' = [admin EXCEPT !.at = "ring"]
    /\ UNCHANGED <<daemon, serving, recorded, queue, open, worker, ring,
                   logger, store, admins, directive, history>>

ReadRecords ==
    /\ AdminAt("read")
    /\ admin' = [admin EXCEPT !.at = "recount", !.records = file]
    /\ UNCHANGED <<daemon, serving, recorded, tracker, ring, logger, store,
                   admins, directive, history>>

RecalculateFromRecords ==
    /\ AdminAt("recount")
    /\ stats' = Recounted(admin.records)
    /\ admin' = [admin EXCEPT !.at = "ring"]
    /\ UNCHANGED <<daemon, serving, recorded, queue, open, worker, ring,
                   logger, store, admins, directive, history>>

(* The ring is cleared; a recalculation then replays the last records.  A   *)
(* reset has read none.                                                     *)
ResetRing ==
    /\ AdminAt("ring")
    /\ ring' = <<>>
    /\ LET n == Len(admin.records) IN
       admin' = [admin EXCEPT !.at = "replay",
                   !.records = IF n > RingCap
                               THEN SubSeq(@, n - RingCap + 1, n) ELSE @]
    /\ UNCHANGED <<daemon, serving, recorded, tracker, logger, store, admins,
                   directive, history>>

ReplayRecord ==
    /\ AdminAt("replay") /\ admin.records # <<>>
    /\ ring' = Emitted(ring, Head(admin.records))
    /\ admin' = [admin EXCEPT !.records = Tail(@)]
    /\ UNCHANGED <<daemon, serving, recorded, tracker, logger, store, admins,
                   directive, history>>

AdminSnapshot ==
    /\ AdminAt("replay") /\ admin.records = <<>>
    /\ admin' = [admin EXCEPT !.at = "save", !.snap = stats]
    /\ UNCHANGED <<daemon, serving, recorded, tracker, ring, logger, store,
                   admins, directive, history>>

AdminSaves ==
    /\ AdminAt("save")
    /\ saved' \in {saved, admin.snap}
    /\ admin' = Idle
    /\ UNCHANGED <<daemon, serving, recorded, tracker, ring, logger, saver,
                   stopSnap, admins, directive, history>>

(* TrafficLogger.Flush before a tuning run; it returns at once when the    *)
(* logger is closed and after two seconds when the worker does not answer.  *)
TuneFlush ==
    /\ AdminAt("flush")
    /\ \/ mode # "closeLog" /\ LogDrained
       \/ UNCHANGED logger
    /\ admin' = Idle
    /\ UNCHANGED <<daemon, serving, recorded, tracker, ring, store, admins,
                   directive, history>>

(* handlePurgeAllLogsDirective: the file is written, or the request fails.  *)
(* The os.Exit that follows 100 ms later is Exit.                           *)
PurgeDirective ==
    /\ AdminAt("directive")
    /\ \/ /\ directive' = TRUE
          /\ history' = [history EXCEPT !.ordered = TRUE]
       \/ UNCHANGED <<directive, history>>
    /\ admin' = Idle
    /\ UNCHANGED <<daemon, serving, recorded, tracker, ring, logger, store,
                   admins>>

AdminNext ==
    \/ StatsResetStarts \/ RecalculateStarts \/ TuneStarts \/ PurgeStarts
    \/ ResetStats \/ ReadRecords \/ RecalculateFromRecords \/ ResetRing
    \/ ReplayRecord \/ AdminSnapshot \/ AdminSaves \/ TuneFlush
    \/ PurgeDirective

----------------------------------------------------------------------------
(* program.Stop *)

Goes(from, to) == mode = from /\ mode' = to /\ UNCHANGED boots

(* A signal: new requests are no longer accepted. *)
Stop ==
    /\ Goes("up", "shutdown")
    /\ UNCHANGED <<serving, recorded, tracker, ring, logger, store,
                   management, history>>

Quiet == serving = 0 /\ admin.op = "none"

(* Mutant: http.Server.Close, which waits for nobody. *)
ShutdownAtOnce ==
    /\ Goes("shutdown", "flush")
    /\ UNCHANGED <<serving, recorded, tracker, ring, logger, store,
                   management, history>>

(* http.Server.Shutdown returns when every request has, or after 5 s. *)
ShutdownDone ==
    /\ Goes("shutdown", "flush") /\ Quiet
    /\ UNCHANGED <<serving, recorded, tracker, ring, logger, store,
                   management, history>>

(* Mutant: a context without a deadline. *)
ShutdownNoTimeout == FALSE

ShutdownTimeout ==
    /\ Goes("shutdown", "flush") /\ ~Quiet
    /\ history' = [history EXCEPT !.overran = TRUE]
    /\ UNCHANGED <<serving, recorded, tracker, ring, logger, store,
                   management>>

(* Flush returns 10 ms after the queue was seen empty, or after a second:   *)
(* in either case the worker may have a turn in hand.  GetStats follows.    *)
StopSnapshot ==
    /\ Goes("flush", "save")
    /\ stopSnap' = stats
    /\ UNCHANGED <<serving, recorded, tracker, ring, logger, saved, saver,
                   management, history>>

StopSaves ==
    /\ Goes("save", "close")
    /\ saved' \in {saved, stopSnap}
    /\ UNCHANGED <<serving, recorded, tracker, ring, logger, saver, stopSnap,
                   management, history>>

(* StatsTracker.Close closes the queue; the worker empties it and ends. *)
CloseTracker ==
    /\ Goes("close", "drain")
    /\ open' = FALSE
    /\ UNCHANGED <<serving, recorded, queue, worker, stats, ring, logger,
                   store, management, history>>

(* Mutant: Close does not wait for the worker. *)
WorkerAbandoned ==
    /\ Goes("drain", "closeLog")
    /\ UNCHANGED <<serving, recorded, tracker, ring, logger, store,
                   management, history>>

WorkerDone ==
    /\ Goes("drain", "closeLog")
    /\ queue = <<>> /\ worker.stage = 0
    /\ UNCHANGED <<serving, recorded, tracker, ring, logger, store,
                   management, history>>

(* What an exit leaves behind. *)
Condemned == IF history.ordered THEN 1 .. recorded ELSE history.condemned

(* TrafficLogger.Close, after which the process ends. *)
CloseLog ==
    /\ Goes("closeLog", "off")
    /\ file' = file \o logBuffer \o logQueue
    /\ Gone
    /\ history' = [history EXCEPT !.orderly = TRUE, !.condemned = Condemned]
    /\ UNCHANGED <<recorded, saved, admins, directive>>

StopNext == ShutdownDone \/ ShutdownTimeout \/ StopSnapshot
            \/ StopSaves \/ CloseTracker \/ WorkerDone \/ CloseLog

(* os.Exit (the shutdown and purge directives), or a crash. *)
Exit ==
    /\ mode # "off"
    /\ mode' = "off" /\ UNCHANGED boots
    /\ Gone
    /\ history' = [history EXCEPT
         !.orderly = FALSE,
         !.condemned = Condemned,
         !.lost = @ \cup ((1 .. recorded)
                            \ (ToSet(file) \cup history.purged))]
    /\ UNCHANGED <<recorded, file, saved, admins, directive>>

----------------------------------------------------------------------------
(* Start *)

Boot ==
    /\ mode = "off" /\ boots < MaxBoots
    /\ mode' = IF directive THEN "rotate" ELSE "load"
    /\ boots' = boots + 1
    /\ history' = [history EXCEPT !.orderly = FALSE, !.ordered = FALSE,
                                  !.overran = FALSE, !.panicked = FALSE]
    /\ UNCHANGED <<serving, recorded, tracker, ring, logger, store,
                   management>>

(* executePurgeAllLogs: the log is renamed, the snapshot removed.  A step   *)
(* that fails leaves a warning.                                             *)
RotateLogs ==
    /\ Goes("rotate", "unstat")
    /\ \/ /\ file' = <<>>
          /\ history' = [history EXCEPT !.purged = @ \cup ToSet(file)]
       \/ UNCHANGED <<file, history>>
    /\ UNCHANGED <<serving, recorded, tracker, ring, logQueue, logBuffer,
                   store, management>>

RemoveStats ==
    /\ Goes("unstat", "wipe")
    /\ saved' \in {saved, NoCount}
    /\ UNCHANGED <<serving, recorded, tracker, ring, logger, saver, stopSnap,
                   management, history>>

(* Mutant: kept for another attempt when a step of the purge has failed. *)
WipeWhenPurged ==
    /\ Goes("wipe", "load")
    /\ directive' = (file # <<>> \/ saved # NoCount)
    /\ UNCHANGED <<serving, recorded, tracker, ring, logger, store, admin,
                   admins, history>>

(* The deferred os.Remove of executeStartupDirectives, taken to succeed. *)
WipeDirective ==
    /\ Goes("wipe", "load")
    /\ directive' = FALSE
    /\ UNCHANGED <<serving, recorded, tracker, ring, logger, store, admin,
                   admins, history>>

(* DiskStore.Load, the tracker seeded with it, the ring hydrated. *)
Load ==
    /\ Goes("load", "up")
    /\ stats' = saved
    /\ ring' = FoldLeft(Emitted, <<>>, ReadCompleteSessions(file))
    /\ UNCHANGED <<serving, recorded, queue, open, worker, logger, store,
                   management, history>>

BootNext == Boot \/ RotateLogs \/ RemoveStats \/ WipeDirective \/ Load

HandlerNext == Arrive \/ Record \/ EndUnrecorded
LogNext == LogWrite \/ LogTick
SaverNext == SaverTick \/ SaverSave \/ SaverFails

Next == \/ HandlerNext \/ WorkerNext \/ LogNext \/ SaverNext \/ AdminNext
        \/ Stop \/ StopNext \/ Exit \/ BootNext

Spec == Init /\ [][Next]_vars

(* The goroutines of the daemon run, its timers fire, requests that do not  *)
(* stream end, and not every Save fails.                                    *)
FairSpec ==
    /\ Spec
    /\ WF_vars(WorkerNext) /\ WF_vars(LogWrite) /\ WF_vars(LogTick)
    /\ WF_vars(SaverTick) /\ WF_vars(SaverNext) /\ SF_vars(SaverSave)
    /\ WF_vars(StopNext)

----------------------------------------------------------------------------
(* Types: queues and ring keep their capacities, and the records the worker *)
(* and the management requests hold are turns (metrics.go, ring_buffer.go,  *)
(* traffic_log.go).                                                         *)
TurnSeqs(n) == UNION {[1 .. k -> Turns] : k \in 0 .. n}
TypeOK ==
    /\ mode \in Modes /\ boots \in 0 .. MaxBoots
    /\ serving \in 0 .. MaxServing
    /\ recorded \in 0 .. MaxTurns
    /\ queue \in TurnSeqs(QueueCap) /\ open \in BOOLEAN
    /\ worker.stage \in 0 .. 3 /\ worker.turn \in 0 .. MaxTurns
    /\ {stats, saved, stopSnap, saver.snap, admin.snap}
         \subseteq [Turns -> Nat]
    /\ ring \in TurnSeqs(RingCap) /\ logQueue \in TurnSeqs(LogCap)
    /\ {logBuffer, file, admin.records} \subseteq TurnSeqs(MaxTurns)
    /\ admins \in 0 .. MaxAdmin /\ directive \in BOOLEAN
    /\ {history.lost, history.purged, history.condemned} \subseteq SUBSET Turns

(* However a recalculation, a reset, a restart and the worker interleave,   *)
(* no turn is counted twice in the running totals or in the saved ones: the *)
(* worker feeds the traffic log only after it has counted (metrics.go).     *)
(* Nor is one listed twice in the recent routes: the ring hears of a turn   *)
(* before the traffic log does, so a replay of the log never meets a turn   *)
(* that is still to be emitted (order of AddSink in main.go).               *)
CountedOnce ==
    /\ TypeOK
    /\ \A t \in Turns : stats[t] <= 1 /\ saved[t] <= 1
    /\ IsInjective(ring)

(* Record meets a closed queue only if Shutdown gave up on that request     *)
(* (main.go, program.Stop; a send on a closed channel panics).  That it then *)
(* does is what the code allows, and nothing here rules it out.             *)
NoRecordAfterClose == history.panicked => history.overran

(* After an orderly stop the traffic log holds every turn that Record has   *)
(* accepted, unless the log's own queue was full, an earlier exit lost it   *)
(* or it was purged: Stop ends the worker before it closes the logger.      *)
LogComplete ==
    history.orderly =>
        1 .. recorded \subseteq
            ToSet(file) \cup history.lost \cup history.purged

(* A cold purge takes only turns accepted before the exit of a daemon that  *)
(* left the directive: none of a later daemon, whatever crashes between     *)
(* rotation and wipe (directive.go).                                        *)
PurgeSparesLater == history.purged \subseteq history.condemned

(* While the daemon stays up and traffic pauses, the saved totals become    *)
(* those in memory, although a sync that read the totals earlier may        *)
(* overwrite a newer snapshot (main.go, periodic sync).                     *)
SavedCatchesUp == <>[](mode = "up") => <>[](saved = stats)

(* A stop ends even if an SSE client stays connected: nobody closes the     *)
(* event broker, but Shutdown has a deadline (main.go, program.Stop).       *)
StopReturns == mode = "shutdown" ~> mode = "off"
=============================================================================
