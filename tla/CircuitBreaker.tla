--------------------------- MODULE CircuitBreaker ---------------------------
(***************************************************************************)
(* The per-provider circuit breaker of pkg/provider/circuit_breaker.go,    *)
(* shared by every request goroutine of the gateway.                       *)
(*                                                                         *)
(* `state' and `failures' are atomics; the mutex `mu' covers every write   *)
(* of `state', but AllowRequest and RecordSuccess first READ the state     *)
(* without the mutex, and RecordSuccess may reset `failures' without it.   *)
(* Each such unlocked access is a step of its own here.  A critical        *)
(* section whose intermediate states no unlocked access can tell from its  *)
(* two ends is one step; RecordFailure is two, because an unlocked         *)
(* failures.Store(0) may fall between its Add and its comparison.          *)
(*                                                                         *)
(* Time.  The code only ever asks whether `cooldown' has elapsed since a   *)
(* failure stamp, so a stamp is represented by its age, saturated at       *)
(* Cooldown: `age' is the age of lastFailureUnix, `seenAge[t]' the age of  *)
(* the stamp goroutine t has loaded.  Reset stores the epoch as the stamp, *)
(* which is older than any cooldown.  The failure count is only compared   *)
(* with the threshold and saturates there.                                 *)
(***************************************************************************)
EXTENDS Naturals

CONSTANTS Threads,    \* request goroutines (and the management API)
          Threshold,  \* failureThreshold
          Cooldown,   \* cooldown, in clock ticks
          NoThread    \* mu is free

ASSUME ThresholdAssumption == Threshold \in Nat \ {0}
ASSUME CooldownAssumption == Cooldown \in Nat \ {0}
ASSUME NoThreadAssumption == NoThread \notin Threads

VARIABLES state,     \* cb.state
          failures,  \* cb.failures
          age,       \* age of cb.lastFailureUnix
          mu,        \* holder of cb.mu
          pc,        \* where each goroutine is
          fails,     \* RecordFailure's local `fails'
          seenAge    \* age of AllowRequest's local `lastFailNano'

vars == <<state, failures, age, mu, pc, fails, seenAge>>

CircuitState == {"closed", "open", "half-open"}

PC == {"idle",      \* in no breaker operation
       "loadLast",  \* AllowRequest read StateOpen, has yet to load the stamp
       "since",     \* AllowRequest loaded the stamp, has yet to compare it
       "lockProbe", \* AllowRequest found the cooldown elapsed, wants mu
       "lockClose", \* RecordSuccess read a tripped breaker, wants mu
       "storeZero", \* RecordSuccess read StateClosed, will store failures
       "lockFail",  \* RecordFailure wants mu
       "trip",      \* RecordFailure has counted and holds mu
       "lockReset"} \* Reset wants mu

NewCircuitBreaker ==
    /\ state = "closed"
    /\ failures = 0
    /\ age = Cooldown
    /\ mu = NoThread
    /\ pc = [t \in Threads |-> "idle"]
    /\ fails = [t \in Threads |-> 0]
    /\ seenAge = [t \in Threads |-> Cooldown]

Init == NewCircuitBreaker

Older(a) == IF a < Cooldown THEN a + 1 ELSE a

Goto(t, label) == pc' = [pc EXCEPT ![t] = label]

-----------------------------------------------------------------------------
(* AllowRequest *)

\* The unlocked load of the state: StateClosed and StateHalfOpen admit the
\* request at once.
AllowLoadState(t) ==
    /\ pc[t] = "idle"
    /\ Goto(t, IF state = "open" THEN "loadLast" ELSE "idle")
    /\ UNCHANGED <<state, failures, age, mu, fails, seenAge>>

AllowLoadLast(t) ==
    /\ pc[t] = "loadLast"
    /\ seenAge' = [seenAge EXCEPT ![t] = age]
    /\ Goto(t, "since")
    /\ UNCHANGED <<state, failures, age, mu, fails>>

\* time.Since(stamp) >= cooldown; otherwise the request is refused.
AllowSince(t) ==
    /\ pc[t] = "since"
    /\ Goto(t, IF seenAge[t] >= Cooldown THEN "lockProbe" ELSE "idle")
    /\ UNCHANGED <<state, failures, age, mu, fails, seenAge>>

\* Mutant: the state is not read again under mu.
BlindProbe(t) ==
    /\ pc[t] = "lockProbe"
    /\ mu = NoThread
    /\ state' = "half-open"
    /\ Goto(t, "idle")
    /\ UNCHANGED <<failures, age, mu, fails, seenAge>>

\* Mutant: the request is admitted but the state is not moved on.
SilentProbe(t) ==
    /\ pc[t] = "lockProbe"
    /\ mu = NoThread
    /\ Goto(t, "idle")
    /\ UNCHANGED <<state, failures, age, mu, fails, seenAge>>

\* Under mu the state is read again; only StateOpen becomes StateHalfOpen.
\* The request is admitted either way.
AllowProbe(t) ==
    /\ pc[t] = "lockProbe"
    /\ mu = NoThread
    /\ state' = IF state = "open" THEN "half-open" ELSE state
    /\ Goto(t, "idle")
    /\ UNCHANGED <<failures, age, mu, fails, seenAge>>

-----------------------------------------------------------------------------
(* RecordSuccess *)

SuccessLoadState(t) ==
    /\ pc[t] = "idle"
    /\ Goto(t, IF state # "closed" THEN "lockClose" ELSE "storeZero")
    /\ UNCHANGED <<state, failures, age, mu, fails, seenAge>>

SuccessClose(t) ==
    /\ pc[t] = "lockClose"
    /\ mu = NoThread
    /\ state' = "closed"
    /\ failures' = 0
    /\ Goto(t, "idle")
    /\ UNCHANGED <<age, mu, fails, seenAge>>

\* The store without the mutex.
SuccessStoreZero(t) ==
    /\ pc[t] = "storeZero"
    /\ failures' = 0
    /\ Goto(t, "idle")
    /\ UNCHANGED <<state, age, mu, fails, seenAge>>

-----------------------------------------------------------------------------
(* RecordFailure *)

FailureCall(t) ==
    /\ pc[t] = "idle"
    /\ Goto(t, "lockFail")
    /\ UNCHANGED <<state, failures, age, mu, fails, seenAge>>

FailureCount(t) ==
    /\ pc[t] = "lockFail"
    /\ mu = NoThread
    /\ mu' = t
    /\ failures' = IF failures < Threshold THEN failures + 1 ELSE failures
    /\ fails' = [fails EXCEPT ![t] = failures']
    /\ Goto(t, "trip")
    /\ UNCHANGED <<state, age, seenAge>>

\* Mutant: trips one failure late.
LateTrip(t) ==
    /\ pc[t] = "trip"
    /\ age' = 0
    /\ state' = IF fails[t] > Threshold \/ state = "half-open"
                THEN "open" ELSE state
    /\ mu' = NoThread
    /\ Goto(t, "idle")
    /\ UNCHANGED <<failures, fails, seenAge>>

\* Mutant: an early return that skips the unlock.
TripKeepsLock(t) ==
    /\ pc[t] = "trip"
    /\ age' = 0
    /\ state' = IF fails[t] >= Threshold \/ state = "half-open"
                THEN "open" ELSE state
    /\ Goto(t, "idle")
    /\ UNCHANGED <<failures, mu, fails, seenAge>>

\* Stamp the failure; trip on the threshold, or at once from half-open.
FailureTrip(t) ==
    /\ pc[t] = "trip"
    /\ age' = 0
    /\ state' = IF fails[t] >= Threshold \/ state = "half-open"
                THEN "open" ELSE state
    /\ mu' = NoThread
    /\ Goto(t, "idle")
    /\ UNCHANGED <<failures, fails, seenAge>>

-----------------------------------------------------------------------------
(* Reset, called by the management API *)

ResetCall(t) ==
    /\ pc[t] = "idle"
    /\ Goto(t, "lockReset")
    /\ UNCHANGED <<state, failures, age, mu, fails, seenAge>>

Reset(t) ==
    /\ pc[t] = "lockReset"
    /\ mu = NoThread
    /\ state' = "closed"
    /\ failures' = 0
    /\ age' = Cooldown
    /\ Goto(t, "idle")
    /\ UNCHANGED <<mu, fails, seenAge>>

Tick ==
    /\ age' = Older(age)
    /\ seenAge' = [t \in Threads |-> Older(seenAge[t])]
    /\ UNCHANGED <<state, failures, mu, pc, fails>>

-----------------------------------------------------------------------------
Step(t) ==
    \/ AllowLoadState(t) \/ AllowLoadLast(t) \/ AllowSince(t) \/ AllowProbe(t)
    \/ SuccessLoadState(t) \/ SuccessClose(t) \/ SuccessStoreZero(t)
    \/ FailureCall(t) \/ FailureCount(t) \/ FailureTrip(t)
    \/ ResetCall(t) \/ Reset(t)

Next == Tick \/ \E t \in Threads : Step(t)

Spec == Init /\ [][Next]_vars

(***************************************************************************)
(* Fairness.  A running goroutine is eventually scheduled (WF), and Go's   *)
(* sync.Mutex switches to FIFO hand-off when a waiter starves, so one that *)
(* wants mu eventually gets it (SF).  The clock advances.                  *)
(***************************************************************************)
UnlockedStep(t) ==
    AllowLoadLast(t) \/ AllowSince(t) \/ SuccessStoreZero(t) \/ FailureTrip(t)

LockedStep(t) ==
    AllowProbe(t) \/ SuccessClose(t) \/ FailureCount(t) \/ Reset(t)

Fairness ==
    /\ WF_vars(Tick)
    /\ \A t \in Threads : WF_vars(UnlockedStep(t)) /\ SF_vars(LockedStep(t))

FairSpec == Spec /\ Fairness

(* Traffic keeps arriving: every goroutine keeps asking for admission.     *)
TrafficSpec ==
    FairSpec /\ \A t \in Threads : SF_vars(AllowLoadState(t))

-----------------------------------------------------------------------------
(* Properties *)

\* Type invariant.
TypeOK ==
    /\ state \in CircuitState
    /\ failures \in 0..Threshold
    /\ age \in 0..Cooldown
    /\ mu \in Threads \cup {NoThread}
    /\ pc \in [Threads -> PC]
    /\ fails \in [Threads -> 0..Threshold]
    /\ seenAge \in [Threads -> 0..Cooldown]

\* The mutex is held exactly by the goroutine between RecordFailure's Add and
\* its trip, so at most one failure is half recorded.
MutexOK == \A t \in Threads : pc[t] = "trip" <=> mu = t

\* RecordFailure vs RecordSuccess/Reset: outside RecordFailure's critical
\* section a closed breaker has counted fewer failures than the threshold, so
\* no interleaving with the unlocked reset of the counter lets a provider that
\* reached failureThreshold keep its breaker closed.
ClosedBelowThreshold ==
    state = "closed" /\ failures >= Threshold =>
        mu # NoThread /\ fails[mu] >= Threshold

\* AllowRequest vs RecordSuccess/Reset: a stale reading of StateOpen never
\* puts a breaker that has been closed meanwhile into half-open, where one
\* single failure would trip it.
ClosedNeverProbed == [][state = "closed" => state' # "half-open"]_vars

\* Recovery: no caller is left waiting for mu, and when failures stop being
\* recorded while requests keep asking for admission, an open breaker does not
\* stay open; AllowRequest eventually probes the provider again.
Recovers ==
    /\ \A t \in Threads : pc[t] # "idle" ~> pc[t] = "idle"
    /\ <>[](\A t \in Threads : pc[t] \notin {"lockFail", "trip"}) =>
         (state = "open" ~> state # "open")
=============================================================================
