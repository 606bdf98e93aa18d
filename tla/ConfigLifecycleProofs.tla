----------------------- MODULE ConfigLifecycleProofs -----------------------
(***************************************************************************)
(* Proofs about ConfigLifecycle, for any number of handlers, watchers and  *)
(* requests and any values of the bounds.                                  *)
(*                                                                         *)
(* TypeOK is not inductive: the error count stays within MaxErrors only    *)
(* because an armed watchdog has not reached it yet (CountBelowMax).  The  *)
(* masking property is about the running state and the memento; what makes *)
(* it inductive is that every copy an unfinished update carries, the       *)
(* merged key and the memento it loaded, is free of the placeholder too.   *)
(* That memory follows the disk is about the time between updates; in      *)
(* between it is the update under way that carries what the file says, and *)
(* until the watcher's first look it is the modification the start loaded. *)
(***************************************************************************)
EXTENDS ConfigLifecycle, SequenceTheorems, TLAPS

\* An armed watchdog that has been given MaxErrors errors has rolled back.
CountBelowMax == active = "armed" => errors < MaxErrors

IndInv == TypeOK /\ CountBelowMax

USE DEF Appliers

\* An applier between two updates is well typed.
LEMMA IdleIsJob == Idle \in Job
  BY DEF Idle, Job, Keys

\* So are the appliers of a daemon that has just loaded the file.
LEMMA StartedIsTyped ==
  ASSUME NEW mtime \in Nat
  PROVE  Started(mtime) \in [Appliers -> Job]
  BY IdleIsJob DEF Started, Idle, Job, Keys

\* Merging picks one of the two entries.
LEMMA MergeIsKey ==
  ASSUME NEW existing \in Keys, NEW key \in Keys
  PROVE  MergeSecrets(existing, key) \in Keys
  BY DEF MergeSecrets

\* The gateway starts within its types, with the watchdog disarmed.
LEMMA InitIndInv == Init => IndInv
  <1> SUFFICES ASSUME Init PROVE IndInv
    OBVIOUS
  <1>1. job \in [Appliers -> Job]
    BY StartedIsTyped DEF Init
  <1>2. PICK key \in Entries \ {"mask"} :
          /\ state = [id |-> 0, doc |-> 0, key |-> key]
          /\ disk = [doc |-> 0, key |-> key, valid |-> TRUE, mtime |-> 1,
                     own |-> FALSE]
    BY DEF Init
  <1>3. /\ state \in Runtime
        /\ disk \in [doc : Nat, key : Keys, valid : BOOLEAN, mtime : Nat,
                     own : BOOLEAN]
    BY <1>2, EntriesAssumption DEF Runtime
  <1>4. timers \in Seq(Nat)
    BY DEF Init
  <1>5. /\ nextId = 1 /\ nextDoc = 1 /\ backups = {} /\ clock = 1
        /\ lastWrite = 0 /\ lastMod = 0 /\ missed = 0 /\ stray \in BOOLEAN
        /\ memento = None /\ active = "off" /\ errors = 0 /\ arms = 0
        /\ req = [r \in Requests |-> None] /\ edits = 0 /\ restarts = 0
    BY DEF Init
  <1>6. TypeOK
    BY <1>1, <1>3, <1>4, <1>5, BoundsAssumption DEF TypeOK
  <1> QED
    BY <1>5, <1>6 DEF IndInv, CountBelowMax

\* Every step keeps the updates in progress in their types.
LEMMA NextJobOK ==
  ASSUME job \in [Appliers -> Job], state \in Runtime, nextDoc \in Nat,
         disk \in [doc : Nat, key : Keys, valid : BOOLEAN,
                  mtime : Nat, own : BOOLEAN],
         [Next]_vars
  PROVE  job' \in [Appliers -> Job]
  <1>1. ASSUME NEW h \in Handlers, PutStep(h)
        PROVE  job' \in [Appliers -> Job]
    <2>1. CASE PutConfig(h)
      <3>1. PICK raw \in Entries :
              job' = [job EXCEPT ![h] =
                        [Idle EXCEPT !.pc = "backup", !.doc = nextDoc,
                                     !.raw = raw,
                                     !.key = MergeSecrets(state.key, raw)]]
        BY <2>1 DEF PutConfig
      <3>2. [Idle EXCEPT !.pc = "backup", !.doc = nextDoc, !.raw = raw,
                         !.key = MergeSecrets(state.key, raw)] \in Job
        <4>1. raw \in Keys /\ state.key \in Keys
          BY EntriesAssumption DEF Runtime
        <4>2. MergeSecrets(state.key, raw) \in Keys
          BY <4>1, MergeIsKey
        <4> QED
          BY <4>1, <4>2 DEF Idle, Job
      <3> QED
        BY <3>1, <3>2
    <2>2. CASE \/ WriteBackup(h) \/ BackupFails(h) \/ AtomicWrite(h)
               \/ AtomicWriteFails(h) \/ StampWrite(h)
      BY <2>2, IdleIsJob
         DEF WriteBackup, BackupFails, AtomicWrite, AtomicWriteFails,
             StampWrite, Job
    <2> QED
      BY <1>1, <2>1, <2>2 DEF PutStep
  <1>2. ASSUME NEW w \in Watchers, WatchStep(w)
        PROVE  job' \in [Appliers -> Job]
    <2>1. CASE WatchStat(w)
      <3>1. PICK mod \in Nat :
              job' = [job EXCEPT ![w] = [@ EXCEPT !.pc = "decide", !.mod = mod]]
        BY <2>1 DEF WatchStat
      <3>2. job[w] \in Job
        OBVIOUS
      <3>3. [job[w] EXCEPT !.pc = "decide", !.mod = mod] \in Job
        BY <3>2 DEF Job
      <3> QED
        BY <3>1, <3>3
    <2>2. CASE WatchDecide(w)
      BY <2>2, IdleIsJob DEF WatchDecide, Job
    <2>3. CASE ReloadConfigFromDisk(w)
      <3>1. MergeSecrets(state.key, disk.key) \in Keys
        BY MergeIsKey DEF Runtime
      <3>2. disk.doc \in Nat
        OBVIOUS
      <3>3. \/ job' = [job EXCEPT ![w] = Idle]
            \/ job' = [job EXCEPT ![w].pc = "memento", ![w].doc = disk.doc,
                                  ![w].key = MergeSecrets(state.key, disk.key)]
        BY <2>3 DEF ReloadConfigFromDisk
      <3> QED
        BY <3>1, <3>2, <3>3, IdleIsJob DEF Job
    <2>4. CASE WatchStart(w)
      BY <2>4, IdleIsJob DEF WatchStart
    <2> QED
      BY <1>2, <2>1, <2>2, <2>3, <2>4 DEF WatchStep
  <1>3. ASSUME NEW a \in Appliers, ApplyStep(a)
        PROVE  job' \in [Appliers -> Job]
    <2>0. job[a] \in Job
      OBVIOUS
    <2>1. CASE LoadMemento(a)
      <3>1. job' = [job EXCEPT ![a] = [@ EXCEPT !.mem = state, !.pc = "swap"]]
        BY <2>1 DEF LoadMemento
      <3>2. [job[a] EXCEPT !.mem = state, !.pc = "swap"] \in Job
        BY <2>0 DEF Job
      <3> QED
        BY <3>1, <3>2
    <2>2. CASE SwapState(a)
      <3>1. job' = [job EXCEPT ![a] = [@ EXCEPT !.pc = "arm"]]
        BY <2>2 DEF SwapState
      <3>2. [job[a] EXCEPT !.pc = "arm"] \in Job
        BY <2>0 DEF Job
      <3> QED
        BY <3>1, <3>2
    <2>3. CASE ArmWatchdog(a)
      BY <2>3, IdleIsJob DEF ArmWatchdog
    <2> QED
      BY <1>3, <2>1, <2>2, <2>3 DEF ApplyStep
  <1>4. ASSUME NEW r \in Requests, RequestStep(r)
        PROVE  job' \in [Appliers -> Job]
    BY <1>4 DEF RequestStep, RequestStart, RecordProxyError, RecordProxySuccess
  <1>5. CASE TimerFires \/ EditFile \/ Tick \/ UNCHANGED vars
    BY <1>5 DEF TimerFires, EditFile, Tick, vars
  <1>6. CASE Restart
    BY <1>6, StartedIsTyped DEF Restart
  <1> QED
    BY <1>1, <1>2, <1>3, <1>4, <1>5, <1>6 DEF Next

\* Every step keeps the types and a count below the one that rolls back.
LEMMA NextIndInv == IndInv /\ [Next]_vars => IndInv'
  <1> SUFFICES ASSUME IndInv, [Next]_vars
               PROVE  IndInv'
    OBVIOUS
  <1>0. job' \in [Appliers -> Job]
    BY NextJobOK DEF IndInv, TypeOK
  <1> USE BoundsAssumption, NoneAssumption, EntriesAssumption
      DEF IndInv, TypeOK, CountBelowMax, seen
  <1>1. ASSUME NEW h \in Handlers, PutStep(h)
        PROVE  IndInv'
    <2>1. CASE PutConfig(h)
      <3>1. /\ nextDoc' = nextDoc + 1 /\ stray' \in BOOLEAN
            /\ UNCHANGED <<state, nextId, disk, backups, clock, lastWrite,
                           seen, watchdog, req, environment>>
        BY <2>1 DEF PutConfig
      <3> QED
        BY <3>1, <1>0 DEF watchdog, environment
    <2>2. CASE WriteBackup(h)
      <3>1. clock \div PerSecond \in Nat
        <4>1. clock \in Nat /\ PerSecond \in Nat /\ PerSecond > 0
          OBVIOUS
        <4> HIDE DEF IndInv, TypeOK
        <4> QED
          BY <4>1, SMTT(30)
      <3>0. disk.doc \in Nat
        OBVIOUS
      <3>2. backups' \subseteq [second : Nat, doc : Nat]
        <4>1. backups' \subseteq
                backups \cup {[second |-> clock \div PerSecond, doc |-> disk.doc]}
          BY <2>2 DEF WriteBackup
        <4>2. backups \subseteq [second : Nat, doc : Nat]
          OBVIOUS
        <4> HIDE DEF IndInv, TypeOK
        <4> QED
          BY <3>0, <3>1, <4>1, <4>2
      <3>3. UNCHANGED <<state, nextId, nextDoc, disk, clock, lastWrite, seen,
                        stray, watchdog, req, environment>>
        BY <2>2 DEF WriteBackup
      <3> QED
        BY <3>2, <3>3, <1>0 DEF watchdog, environment
    <2>3. CASE BackupFails(h)
      BY <2>3, <1>0 DEF BackupFails, watchdog, environment, file
    <2>4. CASE AtomicWrite(h)
      <3>1. job[h] \in Job
        OBVIOUS
      <3>2. disk' \in [doc : Nat, key : Keys, valid : BOOLEAN,
                       mtime : Nat, own : BOOLEAN]
        <4>1. /\ job[h].doc \in Nat /\ job[h].raw \in Keys
              /\ clock + 1 \in Nat
          BY <3>1 DEF Job
        <4>2. disk' = [doc |-> job[h].doc, key |-> job[h].raw, valid |-> TRUE,
                       mtime |-> clock + 1, own |-> TRUE]
          BY <2>4 DEF AtomicWrite
        <4> HIDE DEF IndInv, TypeOK
        <4> QED
          BY <4>1, <4>2
      <3>3. /\ clock' = clock + 1
            /\ UNCHANGED <<state, nextId, nextDoc, backups, lastWrite, seen,
                           stray, watchdog, req, environment>>
        BY <2>4 DEF AtomicWrite
      <3> QED
        BY <3>2, <3>3, <1>0 DEF watchdog, environment
    <2>5. CASE AtomicWriteFails(h)
      BY <2>5, <1>0 DEF AtomicWriteFails, watchdog, environment, file
    <2>6. CASE StampWrite(h)
      BY <2>6, <1>0 DEF StampWrite, watchdog, environment
    <2> QED
      BY <1>1, <2>1, <2>2, <2>3, <2>4, <2>5, <2>6 DEF PutStep
  <1>2. ASSUME NEW w \in Watchers, WatchStep(w)
        PROVE  IndInv'
    <2>1. CASE WatchStat(w)
      BY <2>1, <1>0 DEF WatchStat, watchdog, environment, file
    <2>2. CASE WatchDecide(w)
      <3>1. job[w] \in Job
        OBVIOUS
      <3>2. lastMod' \in Nat
        BY <2>2, <3>1 DEF WatchDecide, Job
      <3>3. UNCHANGED <<state, nextId, file, missed, stray, watchdog, req,
                        environment>>
        BY <2>2 DEF WatchDecide
      <3> QED
        BY <3>2, <3>3, <1>0 DEF watchdog, environment, file
    <2>3. CASE ReloadConfigFromDisk(w)
      <3>1. stray' \in BOOLEAN
        BY <2>3 DEF ReloadConfigFromDisk
      <3>2. UNCHANGED <<state, nextId, file, seen, watchdog, req, environment>>
        BY <2>3 DEF ReloadConfigFromDisk
      <3> QED
        BY <3>1, <3>2, <1>0 DEF watchdog, environment, file
    <2>4. CASE WatchStart(w)
      <3>1. lastMod' \in Nat /\ missed' \in Nat
        BY <2>4 DEF WatchStart
      <3>2. UNCHANGED <<state, nextId, file, stray, watchdog, req, environment>>
        BY <2>4 DEF WatchStart
      <3> QED
        BY <3>1, <3>2, <1>0 DEF watchdog, environment, file
    <2> QED
      BY <1>2, <2>1, <2>2, <2>3, <2>4 DEF WatchStep
  <1>3. ASSUME NEW a \in Appliers, ApplyStep(a)
        PROVE  IndInv'
    <2>1. CASE LoadMemento(a)
      BY <2>1, <1>0 DEF LoadMemento, watchdog, environment, file
    <2>2. CASE SwapState(a)
      <3>1. job[a] \in Job
        OBVIOUS
      <3>2. state' \in Runtime
        BY <2>2, <3>1 DEF SwapState, Job, Runtime
      <3>3. /\ nextId' = nextId + 1
            /\ UNCHANGED <<file, seen, stray, watchdog, req, environment>>
        BY <2>2 DEF SwapState
      <3> QED
        BY <3>2, <3>3, <1>0 DEF watchdog, environment, file
    <2>3. CASE ArmWatchdog(a)
      <3>1. job[a] \in Job
        OBVIOUS
      <3>2. memento' \in Runtime \cup {None}
        BY <2>3, <3>1 DEF ArmWatchdog, Job
      <3>3. timers' \in Seq(Nat)
        BY <2>3 DEF ArmWatchdog
      <3>4. /\ errors' = 0 /\ active' = "armed" /\ arms' = arms + 1
            /\ UNCHANGED <<state, nextId, file, seen, stray, req, environment>>
        BY <2>3 DEF ArmWatchdog
      <3> QED
        BY <3>2, <3>3, <3>4, <1>0 DEF environment, file
    <2> QED
      BY <1>3, <2>1, <2>2, <2>3 DEF ApplyStep
  <1>4. ASSUME NEW r \in Requests, RequestStep(r)
        PROVE  IndInv'
    <2>1. CASE RequestStart(r)
      BY <2>1 DEF RequestStart, Runtime, watchdog, environment, file
    <2>2. CASE RecordProxyError(r)
      <3>1. CASE active = "off" \/ memento = None
        BY <2>2, <3>1 DEF RecordProxyError, watchdog, environment, file
      <3>2. CASE active = "armed" /\ memento # None
        BY <2>2, <3>2 DEF RecordProxyError, watchdog, environment, file
      <3> QED
        BY <3>1, <3>2
    <2>3. CASE RecordProxySuccess(r)
      BY <2>3 DEF RecordProxySuccess, environment, file
    <2> QED
      BY <1>4, <2>1, <2>2, <2>3 DEF RequestStep
  <1>5. CASE TimerFires
    <2>1. timers' \in Seq(Nat)
      BY <1>5 DEF TimerFires
    <2> QED
      BY <1>5, <2>1 DEF TimerFires, environment, file
  <1>6. CASE EditFile
    <2>1. /\ disk' \in [doc : Nat, key : Keys, valid : BOOLEAN, mtime : Nat,
                        own : BOOLEAN]
          /\ clock' \in Nat /\ nextDoc' \in Nat /\ edits' \in 0..MaxEdits
      BY <1>6 DEF EditFile
    <2>2. UNCHANGED <<state, nextId, backups, lastWrite, seen, stray, job,
                      watchdog, req, restarts>>
      BY <1>6 DEF EditFile
    <2> QED
      BY <2>1, <2>2 DEF watchdog
  <1>7. CASE Tick
    BY <1>7 DEF Tick, watchdog, environment
  <1>8. CASE Restart
    <2>1. state' \in Runtime
      BY <1>8 DEF Restart, Runtime
    <2>2. timers' \in Seq(Nat) /\ stray' \in BOOLEAN
      BY <1>8 DEF Restart
    <2> QED
      BY <1>8, <1>0, <2>1, <2>2 DEF Restart
  <1>9. CASE UNCHANGED vars
    BY <1>9 DEF vars, file, watchdog, environment
  <1> QED
    BY <1>1, <1>2, <1>3, <1>4, <1>5, <1>6, <1>7, <1>8, <1>9 DEF Next

\* The types of ConfigLifecycle hold in every reachable state; in particular
\* recordProxyError never counts past the number that rolls back.
THEOREM TypeCorrect == Spec => []TypeOK
  <1>1. Spec => []IndInv
    BY InitIndInv, NextIndInv, PTL DEF Spec
  <1> QED
    BY <1>1, PTL DEF IndInv

-----------------------------------------------------------------------------
\* No copy of the runtime state holds the placeholder: neither the running one
\* and the memento, nor the ones an update in progress carries.
NoMaskAnywhere ==
    ~stray =>
      /\ state.key # "mask"
      /\ memento # None => memento.key # "mask"
      /\ \A a \in Appliers : job[a].key # "mask"
      /\ \A a \in Appliers : job[a].mem # None => job[a].mem.key # "mask"

\* A placeholder is replaced by a key, or the running configuration did not name
\* the provider.
LEMMA MergeKeepsKey ==
  ASSUME NEW existing, NEW key, existing # "mask",
         key = "mask" => existing # "absent"
  PROVE  MergeSecrets(existing, key) # "mask"
  BY DEF MergeSecrets

\* Every step keeps the placeholder out of the gateway or is recorded as the
\* one that let it in.
LEMMA NextNoMask ==
  ASSUME TypeOK, NoMaskAnywhere, [Next]_vars
  PROVE  NoMaskAnywhere'
  <1> USE NoneAssumption DEF NoMaskAnywhere, TypeOK
  <1>1. ASSUME NEW h \in Handlers, PutStep(h)
        PROVE  NoMaskAnywhere'
    <2>1. CASE PutConfig(h)
      <3>1. PICK raw \in Entries :
              /\ job' = [job EXCEPT ![h] =
                           [Idle EXCEPT !.pc = "backup", !.doc = nextDoc,
                                        !.raw = raw,
                                        !.key = MergeSecrets(state.key, raw)]]
              /\ stray' = (stray \/ (raw = "mask" /\ state.key = "absent"))
        BY <2>1 DEF PutConfig
      <3>2. UNCHANGED <<state, memento>>
        BY <2>1 DEF PutConfig, watchdog
      <3> SUFFICES ASSUME ~stray' PROVE NoMaskAnywhere'
        OBVIOUS
      <3>3. ~stray /\ MergeSecrets(state.key, raw) # "mask"
        BY <3>1, MergeKeepsKey
      <3>4. job'[h].key # "mask" /\ job'[h].mem = None
        BY <3>1, <3>3 DEF Idle
      <3>5. \A a \in Appliers : a # h => job'[a] = job[a]
        BY <3>1
      <3> QED
        BY <3>2, <3>3, <3>4, <3>5
    <2>2. CASE WriteBackup(h)
      BY <2>2 DEF WriteBackup, Job, watchdog, environment
    <2>3. CASE BackupFails(h)
      BY <2>3 DEF BackupFails, Job, watchdog, environment
    <2>4. CASE AtomicWrite(h)
      BY <2>4 DEF AtomicWrite, Job, watchdog, environment
    <2>5. CASE AtomicWriteFails(h)
      BY <2>5 DEF AtomicWriteFails, Job, Idle, watchdog, environment
    <2>6. CASE StampWrite(h)
      BY <2>6 DEF StampWrite, Job, watchdog, environment
    <2> QED
      BY <1>1, <2>1, <2>2, <2>3, <2>4, <2>5, <2>6 DEF PutStep
  <1>2. ASSUME NEW w \in Watchers, WatchStep(w)
        PROVE  NoMaskAnywhere'
    <2>1. CASE WatchStat(w)
      BY <2>1 DEF WatchStat, Job, watchdog, environment
    <2>2. CASE WatchDecide(w)
      BY <2>2 DEF WatchDecide, Job, Idle, watchdog, environment
    <2>3. CASE ReloadConfigFromDisk(w)
      <3>1. /\ stray' = (stray \/ (/\ disk.valid /\ disk.key = "mask"
                                   /\ state.key = "absent"))
            /\ UNCHANGED <<state, memento>>
        BY <2>3 DEF ReloadConfigFromDisk, watchdog
      <3> SUFFICES ASSUME ~stray' PROVE NoMaskAnywhere'
        OBVIOUS
      <3>2. disk.valid => MergeSecrets(state.key, disk.key) # "mask"
        BY <3>1, MergeKeepsKey
      <3>3. /\ job'[w].key # "mask"
            /\ job'[w].mem # None => job'[w].mem.key # "mask"
        BY <2>3, <3>1, <3>2 DEF ReloadConfigFromDisk, Job, Idle
      <3>4. \A a \in Appliers : a # w => job'[a] = job[a]
        BY <2>3 DEF ReloadConfigFromDisk
      <3> QED
        BY <3>1, <3>3, <3>4
    <2>4. CASE WatchStart(w)
      BY <2>4 DEF WatchStart, Job, Idle, watchdog, environment
    <2> QED
      BY <1>2, <2>1, <2>2, <2>3, <2>4 DEF WatchStep
  <1>3. ASSUME NEW a \in Appliers, ApplyStep(a)
        PROVE  NoMaskAnywhere'
    <2>1. CASE LoadMemento(a)
      BY <2>1 DEF LoadMemento, Job, watchdog, environment
    <2>2. CASE SwapState(a)
      BY <2>2 DEF SwapState, Job, watchdog, environment
    <2>3. CASE ArmWatchdog(a)
      BY <2>3 DEF ArmWatchdog, Job, Idle, environment
    <2> QED
      BY <1>3, <2>1, <2>2, <2>3 DEF ApplyStep
  <1>4. ASSUME NEW r \in Requests, RequestStep(r)
        PROVE  NoMaskAnywhere'
    BY <1>4 DEF RequestStep, RequestStart, RecordProxyError,
                RecordProxySuccess, watchdog, environment
  <1>5. CASE TimerFires \/ EditFile \/ Tick
    BY <1>5 DEF TimerFires, EditFile, Tick, watchdog, environment
  <1>6. CASE Restart
    <2>1. state'.key = disk.key /\ memento' = None
          /\ stray' = (stray \/ disk.key = "mask")
      BY <1>6 DEF Restart
    <2>2. \A a \in Appliers : job'[a].key = "absent" /\ job'[a].mem = None
      BY <1>6 DEF Restart, Started, Idle
    <2> QED
      BY <2>1, <2>2
  <1>7. CASE UNCHANGED vars
    BY <1>7 DEF vars, watchdog, environment
  <1> QED
    BY <1>1, <1>2, <1>3, <1>4, <1>5, <1>6, <1>7 DEF Next

\* In any interleaving of updates, reloads, roll-backs, requests and restarts
\* the masked placeholder becomes the key in use only through a document that
\* masks the key of a provider the running configuration lacks, or a start that
\* reads the placeholder from the file (pkg/config/secrets.go, MergeSecrets).
THEOREM PlaceholderNeedsStray == Spec => []ActiveKeyNeverMasked
  <1>1. Init => NoMaskAnywhere
    <2> SUFFICES ASSUME Init PROVE NoMaskAnywhere
      OBVIOUS
    <2>1. state.key # "mask" /\ memento = None
      BY DEF Init
    <2>2. \A a \in Appliers : job[a].key = "absent" /\ job[a].mem = None
      BY DEF Init, Started, Idle
    <2> QED
      BY <2>1, <2>2 DEF NoMaskAnywhere
  <1>2. TypeOK /\ NoMaskAnywhere /\ [Next]_vars => NoMaskAnywhere'
    BY NextNoMask
  <1>3. NoMaskAnywhere => ActiveKeyNeverMasked
    BY DEF NoMaskAnywhere, ActiveKeyNeverMasked
  <1> QED
    BY <1>1, <1>2, <1>3, TypeCorrect, PTL DEF Spec

-----------------------------------------------------------------------------
\* One goroutine at a time updates the configuration: a single handler, or the
\* watcher alone.
OneUpdater ==
    /\ Handlers = {} \/ Watchers = {}
    /\ \A a, b \in Appliers : a = b

\* Without a watcher nobody edits the file behind the daemon's back.
EditsWatched == Watchers = {} => MaxEdits = 0

\* The pointers are numbered in the order they are installed, what can be
\* rolled back to is older than the last, and the watcher is not ahead of the
\* file.
Ordered ==
    /\ state.id < nextId
    /\ memento # None => memento.id + 1 < nextId
    /\ lastMod <= disk.mtime /\ disk.mtime <= clock /\ 0 < disk.mtime
    /\ Handlers = {} => lastWrite = 0

HandlerSteps == {"idle", "backup", "write", "stamp", "memento", "swap", "arm"}
WatcherSteps == {"start", "idle", "decide", "load", "memento", "swap", "arm"}

\* The update in progress: where it may be and which pointers it holds.
Progress ==
    \A a \in Appliers :
      /\ job[a].pc \in HandlerSteps \/ Handlers = {}
      /\ job[a].pc \in WatcherSteps \/ Watchers = {}
      /\ job[a].pc = "decide" => job[a].mod <= disk.mtime
      /\ job[a].pc = "start" => lastMod = 0 /\ job[a].mod <= disk.mtime
      /\ job[a].pc = "swap" => job[a].mem # None /\ job[a].mem.id < nextId
      /\ job[a].pc = "arm" => job[a].mem # None /\ job[a].mem.id + 1 < nextId

\* Between the write or the load of a document and the swap it is the update
\* that holds what the file says; at any other time it is the running state.
Pending == {"stamp", "memento", "swap"}
Carried ==
    \A a \in Appliers :
      job[a].pc \in Pending /\ CaughtUp => job[a].doc = disk.doc
Settled == \A a \in Appliers : job[a].pc \notin Pending \cup {"decide", "load"}
Agreed ==
    Settled /\ CaughtUp /\ disk.valid /\ state.id = nextId - 1 =>
        state.doc = disk.doc

\* Until the watcher's first look the modification that the start loaded
\* stands for what is running.
Loaded ==
    \A w \in Watchers :
      /\ job[w].pc = "start" /\ disk.mtime = job[w].mod
      /\ disk.valid /\ state.id = nextId - 1
      => state.doc = disk.doc

SyncInv == Ordered /\ Progress /\ Carried /\ Agreed /\ Loaded

\* The gateway starts with the file it has read.
LEMMA InitSync ==
  ASSUME OneUpdater, Init
  PROVE  SyncInv
  <1>1. /\ state.id = 0 /\ state.doc = 0 /\ nextId = 1 /\ disk.doc = 0
        /\ disk.mtime = 1 /\ clock = 1 /\ lastMod = 0 /\ lastWrite = 0
        /\ memento = None
    BY DEF Init
  <1>2. \A a \in Appliers :
          \/ a \in Watchers /\ job[a].pc = "start" /\ job[a].mod = 1
          \/ a \notin Watchers /\ job[a].pc = "idle"
    BY DEF Init, Started, Idle
  <1> QED
    BY <1>1, <1>2
       DEF OneUpdater, SyncInv, Ordered, Progress, Carried, Agreed, Loaded,
           Pending,
           HandlerSteps, WatcherSteps

\* A single handler keeps file and state together.
LEMMA PutSyncs ==
  ASSUME TypeOK, OneUpdater, SyncInv, NEW h \in Handlers, PutStep(h)
  PROVE  SyncInv'
  <1> USE DEF TypeOK, SyncInv, Ordered, Progress, Carried, Agreed, Loaded,
              Settled, Pending, CaughtUp, HandlerSteps, WatcherSteps, seen
  <1>0. /\ Watchers = {} /\ Handlers # {} /\ h \in Appliers
        /\ \A a \in Appliers : a = h
    BY DEF OneUpdater
  <1>1. CASE PutConfig(h)
    BY <1>0, <1>1 DEF PutConfig, Idle, watchdog, environment
  <1>2. CASE WriteBackup(h)
    BY <1>0, <1>2 DEF WriteBackup, Job, watchdog, environment
  <1>3. CASE BackupFails(h)
    BY <1>0, <1>3 DEF BackupFails, Job, watchdog, environment, file
  <1>4. CASE AtomicWrite(h)
    <2>1. /\ disk'.doc = job[h].doc /\ disk'.mtime = clock + 1
          /\ clock' = clock + 1 /\ job' = [job EXCEPT ![h].pc = "stamp"]
          /\ UNCHANGED <<state, nextId, lastMod, lastWrite, memento>>
      BY <1>4 DEF AtomicWrite, watchdog
    <2>2. job'[h].pc = "stamp" /\ job'[h].doc = job[h].doc
      BY <2>1 DEF Job
    <2>3. Ordered'
      BY <2>1
    <2>4. Progress' /\ Carried' /\ Agreed' /\ Loaded'
      BY <1>0, <2>1, <2>2
    <2> QED
      BY <2>3, <2>4
  <1>5. CASE AtomicWriteFails(h)
    BY <1>0, <1>5 DEF AtomicWriteFails, Idle, watchdog, environment, file
  <1>6. CASE StampWrite(h)
    BY <1>0, <1>6 DEF StampWrite, Job, watchdog, environment
  <1> QED
    BY <1>1, <1>2, <1>3, <1>4, <1>5, <1>6 DEF PutStep

\* So does the watcher, whatever is edited while it loads: it has noted the
\* modification it looked at, and looks again at a later one.
LEMMA WatchSyncs ==
  ASSUME TypeOK, OneUpdater, SyncInv, NEW w \in Watchers, WatchStep(w)
  PROVE  SyncInv'
  <1> USE DEF TypeOK, SyncInv, Ordered, Progress, Carried, Agreed, Loaded,
              Settled, Pending, CaughtUp, HandlerSteps, WatcherSteps, seen
  <1>0. /\ Handlers = {} /\ Watchers # {} /\ w \in Appliers
        /\ \A a \in Appliers : a = w
    BY DEF OneUpdater
  <1>1. CASE WatchStat(w)
    BY <1>0, <1>1 DEF WatchStat, Job, watchdog, environment, file
  <1>2. CASE WatchDecide(w)
    <2>1. ~OwnWrite(job[w].mod)
      BY <1>0 DEF OwnWrite
    <2>2. job' = [job EXCEPT ![w].pc = "load"]
      BY <1>2, <2>1 DEF WatchDecide
    <2> QED
      BY <1>0, <1>2, <2>2 DEF WatchDecide, Job, watchdog, environment, file
  <1>3. CASE ReloadConfigFromDisk(w)
    <2>1. CASE disk.valid
      BY <1>0, <1>3, <2>1
         DEF ReloadConfigFromDisk, Job, watchdog, environment, file
    <2>2. CASE ~disk.valid
      BY <1>0, <1>3, <2>2
         DEF ReloadConfigFromDisk, Idle, watchdog, environment, file
    <2> QED
      BY <2>1, <2>2
  <1>4. CASE WatchStart(w)
    <2>1. /\ lastMod' = disk.mtime /\ job' = [job EXCEPT ![w] = Idle]
          /\ missed' = IF disk.mtime = job[w].mod THEN 0 ELSE disk.mtime
          /\ UNCHANGED <<state, nextId, disk, clock, lastWrite, memento>>
      BY <1>4 DEF WatchStart, watchdog, file
    <2>2. job'[w].pc = "idle"
      BY <2>1 DEF Idle
    <2>3. CaughtUp' => disk.mtime = job[w].mod
      BY <1>0, <2>1
    <2>4. Agreed'
      BY <1>4, <2>1, <2>3 DEF WatchStart
    <2>5. Ordered' /\ Progress' /\ Carried' /\ Loaded'
      BY <1>0, <2>1, <2>2
    <2> QED
      BY <2>4, <2>5
  <1> QED
    BY <1>1, <1>2, <1>3, <1>4 DEF WatchStep

\* None is no pointer.
LEMMA PointerIsOne == None \notin Runtime
  BY NoneAssumption DEF Runtime

\* A pointer is numbered.
LEMMA PointerId ==
  ASSUME NEW m \in Runtime \cup {None}, m # None
  PROVE  m.id \in Nat
  BY DEF Runtime

\* The swap hands over what the update carried.
LEMMA ApplySyncs ==
  ASSUME TypeOK, OneUpdater, SyncInv, NEW a \in Appliers, ApplyStep(a)
  PROVE  SyncInv'
  <1> USE NoneAssumption
      DEF TypeOK, SyncInv, Ordered, Progress, Carried, Agreed, Loaded, Settled,
          Pending, CaughtUp, HandlerSteps, WatcherSteps, seen
  <1>0. \A b \in Appliers : b = a
    BY DEF OneUpdater
  <1>1. CASE LoadMemento(a)
    <2>1. state # None
      BY PointerIsOne
    <2>2. job[a] \in Job
      OBVIOUS
    <2>3. /\ job'[a].mem = state /\ job'[a].pc = "swap"
          /\ job'[a].doc = job[a].doc
      BY <1>1, <2>2 DEF LoadMemento, Job
    <2>4. UNCHANGED <<state, nextId, file, seen, watchdog>>
      BY <1>1 DEF LoadMemento
    <2>5. Ordered' /\ CaughtUp' = CaughtUp /\ disk' = disk
      BY <2>4 DEF watchdog, file
    <2>6. Progress'
      BY <1>0, <1>1, <2>1, <2>3, <2>4 DEF LoadMemento
    <2>7. Carried'
      BY <1>0, <1>1, <2>3, <2>5 DEF LoadMemento
    <2>8. Agreed' /\ Loaded'
      BY <1>0, <2>3
    <2> QED
      BY <2>5, <2>6, <2>7, <2>8
  <1>2. CASE SwapState(a)
    <2>1. job[a] \in Job
      OBVIOUS
    <2>2. /\ job'[a].pc = "arm" /\ job'[a].mem = job[a].mem
          /\ state' = [id |-> nextId, doc |-> job[a].doc, key |-> job[a].key]
          /\ nextId' = nextId + 1 /\ job[a].pc = "swap"
      BY <1>2, <2>1 DEF SwapState, Job
    <2>3. UNCHANGED <<file, seen, watchdog>>
      BY <1>2 DEF SwapState
    <2>4. CaughtUp' = CaughtUp /\ disk' = disk
      BY <2>3 DEF file
    <2>5. Ordered'
      <3>1. memento # None => memento.id \in Nat
        BY DEF Runtime
      <3> QED
        BY <2>2, <2>3, <3>1 DEF watchdog, file
    <2>6. job[a].mem # None => job[a].mem.id \in Nat
      <3>1. job[a].mem \in Runtime \cup {None}
        BY <2>1 DEF Job
      <3> QED
        BY <3>1, PointerId
    <2>7. Progress'
      <3>1. job[a].mem # None /\ job[a].mem.id < nextId
        BY <2>2
      <3>2. job'[a].mem # None /\ job'[a].mem.id + 1 < nextId'
        BY <2>2, <2>6, <3>1
      <3> QED
        BY <1>0, <2>2, <3>2
    <2>8. Carried' /\ Agreed' /\ Loaded'
      BY <1>0, <2>2, <2>4
    <2> QED
      BY <2>5, <2>7, <2>8
  <1>3. CASE ArmWatchdog(a)
    BY <1>0, <1>3 DEF ArmWatchdog, Idle, environment, file
  <1> QED
    BY <1>1, <1>2, <1>3 DEF ApplyStep

\* A roll-back installs an older pointer, of which nothing is said.
LEMMA RestSyncs ==
  ASSUME TypeOK, OneUpdater, EditsWatched, SyncInv,
         \/ \E r \in Requests : RequestStep(r)
         \/ TimerFires \/ EditFile \/ Tick \/ Restart \/ UNCHANGED vars
  PROVE  SyncInv'
  <1> USE DEF TypeOK, SyncInv, Ordered, Progress, Carried, Agreed, Loaded,
              Settled, Pending, CaughtUp, HandlerSteps, WatcherSteps, seen
  <1>1. ASSUME NEW r \in Requests, RequestStep(r) PROVE SyncInv'
    <2>1. CASE RequestStart(r)
      BY <2>1 DEF RequestStart, watchdog, environment, file
    <2>2. CASE RecordProxyError(r)
      <3>1. CASE UNCHANGED <<state, memento>>
        BY <2>2, <3>1 DEF RecordProxyError, environment, file
      <3>2. CASE state' = memento /\ memento # None /\ memento' = None
        <4>1. UNCHANGED <<nextId, seen, job, disk, clock, lastWrite>>
          BY <2>2 DEF RecordProxyError, file
        <4>2. memento.id \in Nat /\ memento.id + 1 < nextId
          BY <3>2, PointerId
        <4>3. Ordered' /\ state'.id # nextId' - 1
          BY <3>2, <4>1, <4>2
        <4>4. Progress' /\ Carried' /\ Agreed' /\ Loaded'
          BY <4>1, <4>3
        <4> QED
          BY <4>3, <4>4
      <3> QED
        BY <2>2, <3>1, <3>2 DEF RecordProxyError, watchdog
    <2>3. CASE RecordProxySuccess(r)
      BY <2>3 DEF RecordProxySuccess, environment, file
    <2> QED
      BY <1>1, <2>1, <2>2, <2>3 DEF RequestStep
  <1>2. CASE TimerFires
    BY <1>2 DEF TimerFires, environment, file
  <1>3. CASE EditFile
    <2>1. disk'.mtime = clock + 1 /\ clock' = clock + 1
      BY <1>3 DEF EditFile
    <2>2. MaxEdits # 0
      BY <1>3 DEF EditFile
    <2>3. Watchers # {}
      BY <2>2 DEF EditsWatched
    <2>4. lastMod' = lastMod /\ lastMod' # disk'.mtime
      BY <1>3, <2>1 DEF EditFile
    <2>5. ~CaughtUp'
      BY <2>3, <2>4
    <2>6. Carried' /\ Agreed'
      BY <2>5
    <2>7. Ordered'
      <3>1. UNCHANGED <<state, nextId, lastMod, memento, lastWrite>>
        BY <1>3 DEF EditFile, watchdog
      <3> QED
        BY <2>1, <3>1
    <2>8. Progress'
      <3>1. UNCHANGED <<job, nextId>>
        BY <1>3 DEF EditFile
      <3>2. \A a \in Appliers : job[a].mod \in Nat
        BY DEF Job
      <3>3. disk.mtime <= disk'.mtime /\ disk.mtime \in Nat /\ clock \in Nat
        BY <2>1
      <3> QED
        BY <2>1, <2>4, <3>1, <3>2, <3>3
    <2>9. Loaded'
      <3>1. job' = job
        BY <1>3 DEF EditFile
      <3>2. \A w \in Watchers :
              /\ job[w].mod \in Nat
              /\ job[w].pc = "start" => job[w].mod <= disk.mtime
        BY DEF Job
      <3>3. disk.mtime <= clock /\ disk.mtime \in Nat /\ clock \in Nat
        OBVIOUS
      <3> QED
        BY <2>1, <3>1, <3>2, <3>3
    <2> QED
      BY <2>6, <2>7, <2>8, <2>9
  <1>4. CASE Tick
    BY <1>4 DEF Tick, watchdog, environment
  <1>5. CASE Restart
    <2>1. /\ state'.id = nextId /\ state'.doc = disk.doc /\ nextId' = nextId + 1
          /\ lastMod' = 0 /\ lastWrite' = 0 /\ memento' = None
          /\ UNCHANGED <<disk, clock>>
      BY <1>5 DEF Restart
    <2>2. \A a \in Appliers :
            \/ /\ a \in Watchers
               /\ job'[a].pc = "start" /\ job'[a].mod = disk.mtime
            \/ a \notin Watchers /\ job'[a].pc = "idle"
      BY <1>5 DEF Restart, Started, Idle
    <2>3. Ordered' /\ Carried' /\ Agreed' /\ Loaded'
      BY <2>1, <2>2
    <2>4. Progress'
      BY <2>1, <2>2 DEF OneUpdater
    <2> QED
      BY <2>3, <2>4
  <1>6. CASE UNCHANGED vars
    BY <1>6 DEF vars, watchdog, environment, file
  <1> QED
    BY <1>1, <1>2, <1>3, <1>4, <1>5, <1>6

\* When no update is in progress and the watcher has dealt with the file as it
\* is, the running configuration is the one in config.yaml or one a roll-back
\* put there: for one handler or one watcher, any edits, errors, roll-backs and
\* restarts, whatever is written between a start's load and the watcher's first
\* look being the watcher's one blind spot (pkg/server/api.go, ApplyConfig).
THEOREM MemoryFollowsDisk ==
  ASSUME OneUpdater, EditsWatched
  PROVE  Spec => []MemoryMatchesDisk
  <1>0. Init => SyncInv
    BY OneUpdater, InitSync
  <1>1. TypeOK /\ SyncInv /\ [Next]_vars => SyncInv'
    BY OneUpdater, EditsWatched, PutSyncs, WatchSyncs, ApplySyncs, RestSyncs
       DEF Next
  <1>2. SyncInv => MemoryMatchesDisk
    BY DEF SyncInv, Agreed, Settled, Pending, MemoryMatchesDisk, Quiet
  <1> QED
    BY <1>0, <1>1, <1>2, TypeCorrect, PTL DEF Spec

-----------------------------------------------------------------------------
\* The backup that the reply will name holds the file as it still is.
BackedUp ==
    \A h \in Handlers :
      /\ job[h].pc = "backup" => ~job[h].saved
      /\ job[h].pc = "write" /\ job[h].saved =>
           \E b \in backups : b.doc = disk.doc

\* Steps that leave the file, the backups and the updates waiting for a write.
LEMMA BackupStays ==
  ASSUME TypeOK, BackedUp, disk' = disk, backups' = backups,
         \A h \in Handlers :
           job'[h].pc \in {"backup", "write"} => job'[h] = job[h]
  PROVE  BackedUp'
  BY DEF BackedUp

\* Only a handler takes backups and writes, and there is one.
LEMMA NextBackedUp ==
  ASSUME \A g, h \in Handlers : g = h, MaxEdits = 0,
         TypeOK, BackedUp, [Next]_vars
  PROVE  BackedUp'
  <1>1. ASSUME NEW h \in Handlers, PutStep(h) PROVE BackedUp'
    <2> USE DEF TypeOK
    <2>0. \A g \in Handlers : g = h
      BY \A g, i \in Handlers : g = i
    <2>1. CASE PutConfig(h)
      BY <2>0, <2>1 DEF PutConfig, BackedUp, Idle
    <2>2. CASE WriteBackup(h)
      <3>1. [second |-> clock \div PerSecond, doc |-> disk.doc] \in backups'
        BY <2>2 DEF WriteBackup
      <3>2. disk' = disk /\ job'[h].pc = "write"
        BY <2>2 DEF WriteBackup, Job
      <3> HIDE DEF TypeOK
      <3>3. \E b \in backups' : b.doc = disk'.doc
        BY <3>1, <3>2
      <3> QED
        BY <2>0, <3>2, <3>3 DEF BackedUp
    <2>3. CASE BackupFails(h)
      BY <2>0, <2>3 DEF BackupFails, BackedUp, Job, file
    <2>4. CASE AtomicWrite(h) \/ StampWrite(h)
      BY <2>0, <2>4 DEF AtomicWrite, StampWrite, BackedUp, Job
    <2>5. CASE AtomicWriteFails(h)
      BY <2>0, <2>5 DEF AtomicWriteFails, BackedUp, Idle
    <2> QED
      BY <1>1, <2>1, <2>2, <2>3, <2>4, <2>5 DEF PutStep
  <1>2. ASSUME NEW w \in Watchers, WatchStep(w) PROVE BackedUp'
    <2>1. disk' = disk /\ backups' = backups
      BY <1>2 DEF WatchStep, WatchStart, WatchStat, WatchDecide,
                  ReloadConfigFromDisk, file
    <2>2. \A h \in Handlers :
            job'[h].pc \in {"backup", "write"} => job'[h] = job[h]
      <3>1. job'[w].pc \notin {"backup", "write"}
        <4> USE DEF TypeOK
        <4>1. job[w] \in Job
          OBVIOUS
        <4>2. CASE WatchStat(w)
          BY <4>1, <4>2 DEF WatchStat, Job
        <4>3. CASE WatchDecide(w)
          BY <4>1, <4>3 DEF WatchDecide, Job, Idle
        <4>4. CASE ReloadConfigFromDisk(w)
          BY <4>1, <4>4 DEF ReloadConfigFromDisk, Job, Idle
        <4>5. CASE WatchStart(w)
          BY <4>1, <4>5 DEF WatchStart, Job, Idle
        <4> QED
          BY <1>2, <4>2, <4>3, <4>4, <4>5 DEF WatchStep
      <3>2. \A h \in Handlers : h # w => job'[h] = job[h]
        BY <1>2 DEF WatchStep, WatchStart, WatchStat, WatchDecide,
                    ReloadConfigFromDisk, TypeOK
      <3> QED
        BY <3>1, <3>2
    <2> QED
      BY <2>1, <2>2, BackupStays
  <1>3. ASSUME NEW a \in Appliers, ApplyStep(a) PROVE BackedUp'
    <2>1. disk' = disk /\ backups' = backups
      BY <1>3 DEF ApplyStep, LoadMemento, SwapState, ArmWatchdog, file
    <2>2. \A h \in Handlers :
            job'[h].pc \in {"backup", "write"} => job'[h] = job[h]
      <3>1. job \in [Appliers -> Job]
        BY DEF TypeOK
      <3>2. \E pc \in {"swap", "arm", "idle"} :
              /\ job'[a].pc = pc
              /\ \A h \in Handlers : h # a => job'[h] = job[h]
        BY <1>3, <3>1
           DEF ApplyStep, LoadMemento, SwapState, ArmWatchdog, Job, Idle
      <3> QED
        BY <3>2
    <2> QED
      BY <2>1, <2>2, BackupStays
  <1>4. CASE \/ \E r \in Requests : RequestStep(r)
             \/ TimerFires \/ Tick \/ UNCHANGED vars
    <2>1. disk' = disk /\ backups' = backups /\ job' = job
      BY <1>4 DEF RequestStep, RequestStart, RecordProxyError,
                  RecordProxySuccess, TimerFires, Tick, vars, file
    <2> QED
      BY <2>1, BackupStays
  <1>5. CASE EditFile
    BY <1>5, MaxEdits = 0 DEF EditFile, TypeOK
  <1>6. CASE Restart
    BY <1>6 DEF Restart, BackedUp, Started, Idle
  <1> QED
    BY <1>1, <1>2, <1>3, <1>4, <1>5, <1>6 DEF Next

\* What a single handler overwrites is in the backup its reply will name, for
\* any number of updates, failed backups and restarts, if nobody edits the
\* file between the copy and the write (pkg/server/api.go, PUT config).
THEOREM BackupBeforeWrite ==
  ASSUME \A g, h \in Handlers : g = h, MaxEdits = 0
  PROVE  Spec => OverwrittenIsBackedUp
  <1>1. Init => BackedUp
    BY DEF Init, BackedUp, Started, Idle
  <1>2. TypeOK /\ BackedUp /\ [Next]_vars => BackedUp'
    BY NextBackedUp, MaxEdits = 0, \A g, h \in Handlers : g = h
  <1>3. BackedUp =>
          \A h \in Handlers :
            job[h].pc = "write" /\ job[h].saved /\ disk' # disk =>
              \E b \in backups : b.doc = disk.doc
    BY DEF BackedUp
  <1> QED
    BY <1>1, <1>2, <1>3, TypeCorrect, PTL DEF Spec, OverwrittenIsBackedUp

=============================================================================
