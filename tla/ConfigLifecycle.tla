-------------------------- MODULE ConfigLifecycle --------------------------
(***************************************************************************)
(* How a configuration reaches the running gateway and how it is taken     *)
(* back: PUT /api/v1/config and the config.yaml watcher (both through      *)
(* Server.ApplyConfig), the 30 s rollback watchdog with its memento, the   *)
(* proxy requests that feed the watchdog, and a restart of the daemon.     *)
(*                                                                         *)
(* The runtime state is one atomic pointer.  ApplyConfig holds no lock     *)
(* from its first read of that pointer to the swap and the arming of the   *)
(* watchdog, so each of its reads and writes of shared state is a step.    *)
(*                                                                         *)
(* Data.  A document is a number and what it says of the key of one        *)
(* provider: the provider may be absent from it, be named without a key,   *)
(* with a key, or with the masked placeholder that GET /api/v1/config      *)
(* shows.  Rejected documents change nothing in the PUT handler and are    *)
(* left out of it; an external edit may leave a file the loader rejects.   *)
(*                                                                         *)
(* Time.  `clock' is a fine clock for file modification stamps: each write *)
(* of the file advances it, Tick lets more time pass.  The 30 s timers are *)
(* far coarser; they fire in the order they were started, at any moment.   *)
(***************************************************************************)
EXTENDS Naturals, Sequences

CONSTANTS Handlers,     \* management-API goroutines in PUT /api/v1/config
          Watchers,     \* {} or the single file-watcher goroutine
          Requests,     \* proxy requests in flight
          Entries,      \* what a document may say of the provider's key
          OwnWindow,    \* 100 ms after an own write, in clock units
          PerSecond,    \* clock units per second (backup names)
          MaxErrors,    \* consecutive proxy errors that roll back (3)
          MaxDoc,       \* bound: documents ever written
          MaxClock,     \* bound: clock
          MaxEdits,     \* bound: edits made outside the daemon
          MaxRestarts,  \* bound: restarts of the daemon
          None          \* no memento, no request

Appliers == Handlers \cup Watchers

ASSUME BoundsAssumption ==
    /\ OwnWindow \in Nat /\ PerSecond \in Nat \ {0}
    /\ MaxErrors \in Nat \ {0}
    /\ MaxDoc \in Nat /\ MaxClock \in Nat
    /\ MaxEdits \in Nat /\ MaxRestarts \in Nat
Keys == {"absent", "none", "key", "mask"}

ASSUME EntriesAssumption == Entries \subseteq Keys
ASSUME NoneAssumption ==
    None \notin Nat \cup [id : Nat, doc : Nat, key : Keys]

VARIABLES state,      \* s.state: [id, doc, key], id numbers the pointers
          nextId,     \* the next pointer
          nextDoc,    \* the next fresh document
          disk,       \* config.yaml: [doc, key, valid, mtime, own]; own records
                      \* that the daemon itself wrote it
          backups,    \* .bak.<second> files: set of [second, doc]
          clock,
          lastWrite,  \* s.lastDiskWriteUnixNano (0: never written)
          lastMod,    \* the watcher's lastMod (0: the zero time)
          missed,     \* history: the modification the watcher took for the one
                      \* it was started with (0: it was that one)
          stray,      \* history: has a placeholder stood for a key that the
                      \* gateway did not have?
          job,        \* job[a]: an ApplyConfig or watcher pass in progress
          memento,    \* s.mementoState
          active,     \* s.watchdogActive: armed or off
          errors,     \* s.watchdogErrors
          arms,       \* number of armings so far
          timers,     \* pending AfterFuncs, oldest first, by arming number
          req,        \* req[r]: id of the state r started under, or None
          edits, restarts  \* how many so far

file == <<nextDoc, disk, backups, clock, lastWrite>>
watchdog == <<memento, active, errors, arms, timers>>
environment == <<edits, restarts>>
seen == <<lastMod, missed>>
vars == <<state, nextId, file, seen, stray, job, watchdog, req, environment>>

Idle == [pc |-> "idle", doc |-> 0, key |-> "absent", raw |-> "absent",
         mod |-> 0, mem |-> None, saved |-> FALSE]

\* A daemon that has loaded the file as of `mtime'; its watcher goroutine has
\* not looked at the file yet.
Started(mtime) ==
    [a \in Appliers |-> IF a \in Watchers
                        THEN [Idle EXCEPT !.pc = "start", !.mod = mtime]
                        ELSE Idle]

Init ==
    /\ \E key \in Entries \ {"mask"} :
         /\ state = [id |-> 0, doc |-> 0, key |-> key]
         /\ disk = [doc |-> 0, key |-> key, valid |-> TRUE, mtime |-> 1,
                    own |-> FALSE]
    /\ nextId = 1
    /\ nextDoc = 1
    /\ backups = {}
    /\ clock = 1
    /\ lastWrite = 0
    /\ lastMod = 0
    /\ missed = 0
    /\ stray = FALSE
    /\ job = Started(1)
    /\ memento = None
    /\ active = "off"
    /\ errors = 0
    /\ arms = 0
    /\ timers = <<>>
    /\ req = [r \in Requests |-> None]
    /\ edits = 0
    /\ restarts = 0

\* Mutant: the placeholder is taken for a key.
KeepPlaceholder(existing, key) == key

\* MergeSecrets: a masked or empty key takes the one of the running
\* configuration, if that names the provider at all.
MergeSecrets(existing, key) ==
    IF key \in {"mask", "none"} /\ existing # "absent" THEN existing ELSE key

-----------------------------------------------------------------------------
(* PUT /api/v1/config: ApplyConfig with persistDisk *)

PutConfig(h) ==
    /\ job[h].pc = "idle"
    /\ nextDoc <= MaxDoc
    /\ \E raw \in Entries :
         /\ job' = [job EXCEPT ![h] =
                      [Idle EXCEPT !.pc = "backup", !.doc = nextDoc,
                                   !.raw = raw,
                                   !.key = MergeSecrets(state.key, raw)]]
         /\ stray' = (stray \/ (raw = "mask" /\ state.key = "absent"))
    /\ nextDoc' = nextDoc + 1
    /\ UNCHANGED <<state, nextId, disk, backups, clock, lastWrite, seen,
                   watchdog, req, environment>>

\* Mutant: a backup of the same second is kept instead of replaced.
KeepFirstBackup(h) ==
    /\ job[h].pc = "backup"
    /\ LET sec == clock \div PerSecond
       IN  backups' = IF \E b \in backups : b.second = sec THEN backups
                      ELSE backups \cup {[second |-> sec, doc |-> disk.doc]}
    /\ job' = [job EXCEPT ![h].pc = "write", ![h].saved = TRUE]
    /\ UNCHANGED <<state, nextId, nextDoc, disk, clock, lastWrite, seen, stray,
                   watchdog, req, environment>>

\* The file as it stands is copied to a name with a one-second timestamp.
WriteBackup(h) ==
    /\ job[h].pc = "backup"
    /\ LET sec == clock \div PerSecond
       IN  backups' = {b \in backups : b.second # sec}
                        \cup {[second |-> sec, doc |-> disk.doc]}
    /\ job' = [job EXCEPT ![h].pc = "write", ![h].saved = TRUE]
    /\ UNCHANGED <<state, nextId, nextDoc, disk, clock, lastWrite, seen, stray,
                   watchdog, req, environment>>

\* A backup that cannot be read or written does not stop the update; the reply
\* then names no backup_file.
BackupFails(h) ==
    /\ job[h].pc = "backup"
    /\ job' = [job EXCEPT ![h].pc = "write"]
    /\ UNCHANGED <<state, nextId, file, seen, stray, watchdog, req,
                   environment>>

\* The request body is written as it came, placeholders included.
AtomicWrite(h) ==
    /\ job[h].pc = "write"
    /\ clock < MaxClock
    /\ clock' = clock + 1
    /\ disk' = [doc |-> job[h].doc, key |-> job[h].raw, valid |-> TRUE,
                mtime |-> clock + 1, own |-> TRUE]
    /\ job' = [job EXCEPT ![h].pc = "stamp"]
    /\ UNCHANGED <<state, nextId, nextDoc, backups, lastWrite, seen, stray,
                   watchdog, req, environment>>

\* Mutant: a failed write is ignored.
WriteFailureIgnored(h) ==
    /\ job[h].pc = "write"
    /\ job' = [job EXCEPT ![h].pc = "memento"]
    /\ UNCHANGED <<state, nextId, file, seen, stray, watchdog, req,
                   environment>>

\* A failed write is reported and nothing is applied.
AtomicWriteFails(h) ==
    /\ job[h].pc = "write"
    /\ job' = [job EXCEPT ![h] = Idle]
    /\ UNCHANGED <<state, nextId, file, seen, stray, watchdog, req,
                   environment>>

\* SetLastDiskWriteUnixNano with the modification time of a later os.Stat.
StampWrite(h) ==
    /\ job[h].pc = "stamp"
    /\ lastWrite' = disk.mtime
    /\ job' = [job EXCEPT ![h].pc = "memento"]
    /\ UNCHANGED <<state, nextId, nextDoc, disk, backups, clock, seen, stray,
                   watchdog, req, environment>>

-----------------------------------------------------------------------------
(* The config.yaml watcher *)

\* Its first os.Stat that succeeds only sets lastMod: whatever was written
\* since the daemon loaded the file is taken for what it loaded.
WatchStart(w) ==
    /\ job[w].pc = "start"
    /\ lastMod' = disk.mtime
    /\ missed' = IF disk.mtime = job[w].mod THEN 0 ELSE disk.mtime
    /\ job' = [job EXCEPT ![w] = Idle]
    /\ UNCHANGED <<state, nextId, file, stray, watchdog, req, environment>>

WatchStat(w) ==
    /\ job[w].pc = "idle"
    /\ disk.mtime > lastMod
    /\ job' = [job EXCEPT ![w].pc = "decide", ![w].mod = disk.mtime]
    /\ UNCHANGED <<state, nextId, file, seen, stray, watchdog, req,
                   environment>>

\* Mutant: any write after the server's last one is taken for its own.
OwnWriteAnyTime(mod) == mod >= lastWrite

\* Is the modification the server's own?  Equal to its stamp or less than
\* 100 ms after it.
OwnWrite(mod) ==
    lastWrite > 0 /\ mod >= lastWrite /\ mod - lastWrite < OwnWindow

WatchDecide(w) ==
    /\ job[w].pc = "decide"
    /\ lastMod' = job[w].mod
    /\ job' = [job EXCEPT ![w] =
                 IF OwnWrite(job[w].mod) THEN Idle ELSE [@ EXCEPT !.pc = "load"]]
    /\ UNCHANGED <<state, nextId, file, missed, stray, watchdog, req,
                   environment>>

\* ReloadConfigFromDisk: LoadConfig, then ApplyConfig without persistDisk.
ReloadConfigFromDisk(w) ==
    /\ job[w].pc = "load"
    /\ job' = [job EXCEPT ![w] =
                 IF disk.valid
                 THEN [@ EXCEPT !.pc = "memento", !.doc = disk.doc,
                                !.key = MergeSecrets(state.key, disk.key)]
                 ELSE Idle]
    /\ stray' = (stray \/ (/\ disk.valid /\ disk.key = "mask"
                           /\ state.key = "absent"))
    /\ UNCHANGED <<state, nextId, file, seen, watchdog, req, environment>>

-----------------------------------------------------------------------------
(* The rest of ApplyConfig, for both callers *)

LoadMemento(a) ==
    /\ job[a].pc = "memento"
    /\ job' = [job EXCEPT ![a].mem = state, ![a].pc = "swap"]
    /\ UNCHANGED <<state, nextId, file, seen, stray, watchdog, req,
                   environment>>

SwapState(a) ==
    /\ job[a].pc = "swap"
    /\ state' = [id |-> nextId, doc |-> job[a].doc, key |-> job[a].key]
    /\ nextId' = nextId + 1
    /\ job' = [job EXCEPT ![a].pc = "arm"]
    /\ UNCHANGED <<file, seen, stray, watchdog, req, environment>>

\* armWatchdog.  The timer of an earlier arming is not stopped.
ArmWatchdog(a) ==
    /\ job[a].pc = "arm"
    /\ memento' = job[a].mem
    /\ errors' = 0
    /\ active' = "armed"
    /\ arms' = arms + 1
    /\ timers' = Append(timers, arms + 1)
    /\ job' = [job EXCEPT ![a] = Idle]
    /\ UNCHANGED <<state, nextId, file, seen, stray, req, environment>>

TimerFires ==
    /\ timers # <<>>
    /\ timers' = Tail(timers)
    /\ active' = "off"
    /\ memento' = IF active = "armed" THEN None ELSE memento
    /\ UNCHANGED <<state, nextId, file, seen, stray, job, errors, arms, req,
                   environment>>

-----------------------------------------------------------------------------
(* Proxy requests *)

RequestStart(r) ==
    /\ req[r] = None
    /\ req' = [req EXCEPT ![r] = state.id]
    /\ UNCHANGED <<state, nextId, file, seen, stray, job, watchdog,
                   environment>>

\* recordProxyError; the error that completes the run rolls back.
RecordProxyError(r) ==
    /\ req[r] # None
    /\ req' = [req EXCEPT ![r] = None]
    /\ IF active = "off" \/ memento = None
       THEN UNCHANGED <<state, watchdog>>
       ELSE /\ errors' = errors + 1
            /\ IF errors + 1 >= MaxErrors
               THEN state' = memento /\ active' = "off" /\ memento' = None
               ELSE UNCHANGED <<state, active, memento>>
            /\ UNCHANGED <<arms, timers>>
    /\ UNCHANGED <<nextId, file, seen, stray, job, environment>>

RecordProxySuccess(r) ==
    /\ req[r] # None
    /\ req' = [req EXCEPT ![r] = None]
    /\ errors' = 0
    /\ UNCHANGED <<state, nextId, file, seen, stray, job, memento, active, arms,
                   timers, environment>>

-----------------------------------------------------------------------------
(* The environment *)

\* The user saves config.yaml in an editor.
EditFile ==
    /\ edits < MaxEdits
    /\ nextDoc <= MaxDoc
    /\ clock < MaxClock
    /\ clock' = clock + 1
    /\ \E ok \in BOOLEAN, key \in Entries :
         disk' = [doc |-> nextDoc, key |-> key, valid |-> ok,
                  mtime |-> clock + 1, own |-> FALSE]
    /\ edits' = edits + 1
    /\ nextDoc' = nextDoc + 1
    /\ UNCHANGED <<state, nextId, backups, lastWrite, seen, stray, job,
                   watchdog, req, restarts>>

Tick ==
    /\ clock < MaxClock
    /\ clock' = clock + 1
    /\ UNCHANGED <<state, nextId, nextDoc, disk, backups, lastWrite, seen,
                   stray, job, watchdog, req, environment>>

\* The daemon stops or crashes at any point, starts again and loads the file,
\* without a running configuration to take keys from.
Restart ==
    /\ restarts < MaxRestarts
    /\ disk.valid
    /\ restarts' = restarts + 1
    /\ state' = [id |-> nextId, doc |-> disk.doc, key |-> disk.key]
    /\ nextId' = nextId + 1
    /\ lastWrite' = 0
    /\ lastMod' = 0 /\ missed' = 0
    /\ stray' = (stray \/ disk.key = "mask")
    /\ job' = Started(disk.mtime)
    /\ memento' = None
    /\ active' = "off"
    /\ errors' = 0
    /\ timers' = <<>>
    /\ req' = [r \in Requests |-> None]
    /\ UNCHANGED <<nextDoc, disk, backups, clock, arms, edits>>

-----------------------------------------------------------------------------
PutStep(h) ==
    \/ PutConfig(h) \/ WriteBackup(h) \/ BackupFails(h) \/ AtomicWrite(h)
    \/ AtomicWriteFails(h) \/ StampWrite(h)

WatchStep(w) ==
    WatchStart(w) \/ WatchStat(w) \/ WatchDecide(w) \/ ReloadConfigFromDisk(w)

ApplyStep(a) == LoadMemento(a) \/ SwapState(a) \/ ArmWatchdog(a)

RequestStep(r) ==
    RequestStart(r) \/ RecordProxyError(r) \/ RecordProxySuccess(r)

Next ==
    \/ \E h \in Handlers : PutStep(h)
    \/ \E w \in Watchers : WatchStep(w)
    \/ \E a \in Appliers : ApplyStep(a)
    \/ \E r \in Requests : RequestStep(r)
    \/ TimerFires \/ EditFile \/ Tick \/ Restart

Spec == Init /\ [][Next]_vars

\* The watcher goroutine is scheduled, its one-second ticker keeps running and
\* its pass completes.
Fairness == \A w \in Watchers : WF_vars(WatchStep(w) \/ ApplyStep(w))

FairSpec == Spec /\ Fairness
-----------------------------------------------------------------------------
Runtime == [id : Nat, doc : Nat, key : Keys]

Job == [pc : {"start", "idle", "backup", "write", "stamp", "decide", "load",
              "memento", "swap", "arm"},
        doc : Nat, key : Keys, raw : Keys, mod : Nat,
        mem : Runtime \cup {None}, saved : BOOLEAN]

\* Type invariant.
TypeOK ==
    /\ state \in Runtime
    /\ nextId \in Nat /\ nextDoc \in Nat /\ clock \in Nat
    /\ disk \in [doc : Nat, key : Keys, valid : BOOLEAN, mtime : Nat,
                own : BOOLEAN]
    /\ backups \subseteq [second : Nat, doc : Nat]
    /\ lastWrite \in Nat /\ lastMod \in Nat /\ missed \in Nat /\ arms \in Nat
    /\ stray \in BOOLEAN
    /\ job \in [Appliers -> Job]
    /\ memento \in Runtime \cup {None}
    /\ active \in {"armed", "off"}
    /\ errors \in 0..MaxErrors
    /\ timers \in Seq(Nat)
    /\ req \in [Requests -> Nat \cup {None}]
    /\ edits \in 0..MaxEdits
    /\ restarts \in 0..MaxRestarts

\* MergeSecrets, across updates, reloads, roll-backs and restarts: as long as no
\* document has masked the key of a provider that the running configuration
\* lacked, and no start has read a placeholder from the file, the placeholder is
\* neither the key in use nor the one a roll-back would bring back.
ActiveKeyNeverMasked ==
    ~stray => /\ state.key # "mask"
              /\ memento # None => memento.key # "mask"

Quiet == \A a \in Appliers : job[a].pc \in {"start", "idle"}

\* Has the watcher, if one runs, dealt with the file as it stands?  It has not
\* if the file was written between the start's load and its own first look.
CaughtUp == Watchers = {} \/ (lastMod = disk.mtime /\ missed # disk.mtime)

\* ApplyConfig and the watcher: when no update is in progress and the watcher
\* has dealt with the file, the running configuration is the one in config.yaml
\* (unless the watchdog has put an older one back, or the file was edited into
\* something unloadable).
MemoryMatchesDisk ==
    Quiet /\ CaughtUp /\ disk.valid /\ state.id = nextId - 1 =>
        state.doc = disk.doc

\* ApplyConfig: when the reply will name a backup_file, the document that the
\* update overwrites is in a backup at that moment.
OverwrittenIsBackedUp ==
    [][\A h \in Handlers :
         job[h].pc = "write" /\ job[h].saved /\ disk' # disk =>
             \E b \in backups : b.doc = disk.doc]_vars

\* The two edits that the watcher lets pass: one saved within 100 ms after an
\* own write, and one saved between a start's load and the watcher's first look.
InOwnWindow ==
    lastWrite > 0 /\ disk.mtime \in lastWrite..(lastWrite + OwnWindow - 1)
LetPass == InOwnWindow \/ missed = disk.mtime

\* The watcher, beside a handler that writes the file too: a loadable edit of
\* config.yaml it has not dealt with yet is eventually the running
\* configuration, unless the file is changed again or the edit is one of the
\* two it lets pass.
EditsApplied ==
    \A d \in 0..MaxDoc :
        disk.doc = d /\ disk.valid /\ ~disk.own /\ disk.mtime > lastMod
            ~> state.doc = d \/ disk.doc # d \/ LetPass
=============================================================================
