------------------------ MODULE CircuitBreakerProofs ------------------------
(***************************************************************************)
(* Proofs about CircuitBreaker for any set of goroutines, any threshold    *)
(* and any cooldown.                                                       *)
(***************************************************************************)
EXTENDS CircuitBreaker, TLAPS

(***************************************************************************)
(* ClosedBelowThreshold is not inductive alone: FailureTrip releases mu,   *)
(* and that the releasing goroutine is the one whose count the invariant   *)
(* speaks of is MutexOK.                                                   *)
(***************************************************************************)
IndInv == TypeOK /\ MutexOK /\ ClosedBelowThreshold

\* A new breaker satisfies the inductive invariant.
LEMMA InitIndInv == Init => IndInv
  BY ThresholdAssumption, CooldownAssumption, NoThreadAssumption
  DEF Init, NewCircuitBreaker, IndInv, TypeOK, MutexOK, ClosedBelowThreshold,
      CircuitState, PC

\* Every step of every goroutine keeps variables in their types.
LEMMA NextTypeOK == TypeOK /\ [Next]_vars => TypeOK'
<1> SUFFICES ASSUME TypeOK, [Next]_vars PROVE TypeOK'
  OBVIOUS
<1> USE ThresholdAssumption, CooldownAssumption, NoThreadAssumption
    DEF TypeOK, CircuitState, PC, Goto
<1>1. CASE Tick
  BY <1>1 DEF Tick, Older
<1>2. ASSUME NEW t \in Threads, Step(t) PROVE TypeOK'
  <2>1. CASE AllowLoadState(t) \/ AllowLoadLast(t) \/ AllowSince(t)
    BY <2>1 DEF AllowLoadState, AllowLoadLast, AllowSince
  <2>2. CASE AllowProbe(t)
    BY <2>2 DEF AllowProbe
  <2>3. CASE SuccessLoadState(t) \/ SuccessClose(t) \/ SuccessStoreZero(t)
    BY <2>3 DEF SuccessLoadState, SuccessClose, SuccessStoreZero
  <2>4. CASE FailureCall(t)
    BY <2>4 DEF FailureCall
  <2>5. CASE FailureCount(t)
    <3>1. failures' \in 0..Threshold
      BY <2>5 DEF FailureCount
    <3> QED
      BY <2>5, <3>1 DEF FailureCount
  <2>6. CASE FailureTrip(t)
    BY <2>6 DEF FailureTrip
  <2>7. CASE ResetCall(t) \/ Reset(t)
    BY <2>7 DEF ResetCall, Reset
  <2> QED
    BY <1>2, <2>1, <2>2, <2>3, <2>4, <2>5, <2>6, <2>7 DEF Step
<1>3. CASE UNCHANGED vars
  BY <1>3 DEF vars
<1> QED
  BY <1>1, <1>2, <1>3 DEF Next

\* mu and the control points stay in step.
LEMMA NextMutexOK == TypeOK /\ MutexOK /\ [Next]_vars => MutexOK'
<1> SUFFICES ASSUME TypeOK, MutexOK, [Next]_vars PROVE MutexOK'
  OBVIOUS
<1> USE NoThreadAssumption DEF TypeOK, MutexOK, PC, Goto
<1>1. CASE Tick
  BY <1>1 DEF Tick
<1>2. ASSUME NEW t \in Threads, Step(t) PROVE MutexOK'
  <2>1. CASE AllowLoadState(t) \/ AllowLoadLast(t) \/ AllowSince(t) \/ AllowProbe(t)
    BY <2>1 DEF AllowLoadState, AllowLoadLast, AllowSince, AllowProbe
  <2>2. CASE SuccessLoadState(t) \/ SuccessClose(t) \/ SuccessStoreZero(t)
    BY <2>2 DEF SuccessLoadState, SuccessClose, SuccessStoreZero
  <2>3. CASE FailureCall(t)
    BY <2>3 DEF FailureCall
  <2>4. CASE FailureCount(t)
    BY <2>4 DEF FailureCount
  <2>5. CASE FailureTrip(t)
    BY <2>5 DEF FailureTrip
  <2>6. CASE ResetCall(t) \/ Reset(t)
    BY <2>6 DEF ResetCall, Reset
  <2> QED
    BY <1>2, <2>1, <2>2, <2>3, <2>4, <2>5, <2>6 DEF Step
<1>3. CASE UNCHANGED vars
  BY <1>3 DEF vars
<1> QED
  BY <1>1, <1>2, <1>3 DEF Next

\* No step leaves a breaker closed with a full failure count.
LEMMA NextClosedBelowThreshold ==
    IndInv /\ [Next]_vars => ClosedBelowThreshold'
<1> SUFFICES ASSUME IndInv, [Next]_vars PROVE ClosedBelowThreshold'
  OBVIOUS
<1> USE ThresholdAssumption, NoThreadAssumption
    DEF IndInv, TypeOK, MutexOK, ClosedBelowThreshold, Goto
<1>1. CASE Tick
  BY <1>1 DEF Tick
<1>2. ASSUME NEW t \in Threads, Step(t) PROVE ClosedBelowThreshold'
  <2>1. CASE AllowLoadState(t) \/ AllowLoadLast(t) \/ AllowSince(t)
    BY <2>1 DEF AllowLoadState, AllowLoadLast, AllowSince
  <2>2. CASE AllowProbe(t)
    BY <2>2 DEF AllowProbe
  <2>3. CASE SuccessLoadState(t)
    BY <2>3 DEF SuccessLoadState
  <2>4. CASE SuccessClose(t) \/ SuccessStoreZero(t) \/ Reset(t)
    <3>1. failures' = 0
      BY <2>4 DEF SuccessClose, SuccessStoreZero, Reset
    <3> QED
      BY <3>1
  <2>5. CASE FailureCall(t) \/ ResetCall(t)
    BY <2>5 DEF FailureCall, ResetCall
  <2>6. CASE FailureCount(t)
    BY <2>6 DEF FailureCount
  <2>7. CASE FailureTrip(t)
    <3>1. mu = t
      BY <2>7 DEF FailureTrip
    <3>2. state' = "closed" => state = "closed" /\ fails[t] < Threshold
      BY <2>7 DEF FailureTrip
    <3> QED
      BY <2>7, <3>1, <3>2 DEF FailureTrip
  <2> QED
    BY <1>2, <2>1, <2>2, <2>3, <2>4, <2>5, <2>6, <2>7 DEF Step
<1>3. CASE UNCHANGED vars
  BY <1>3 DEF vars
<1> QED
  BY <1>1, <1>2, <1>3 DEF Next

\* The inductive invariant holds throughout.
LEMMA Invariance == Spec => []IndInv
<1>1. IndInv /\ [Next]_vars => IndInv'
  BY NextTypeOK, NextMutexOK, NextClosedBelowThreshold DEF IndInv
<1> QED
  BY InitIndInv, <1>1, PTL DEF Spec

\* The breaker's variables keep their types under any number of goroutines.
THEOREM TypeCorrect == Spec => []TypeOK
  BY Invariance, PTL DEF IndInv

\* No interleaving of RecordFailure with the unlocked counter reset of
\* RecordSuccess leaves a breaker closed that has counted failureThreshold
\* failures, whatever the number of goroutines, the threshold and the cooldown.
THEOREM ThresholdTrips == Spec => []ClosedBelowThreshold
  BY Invariance, PTL DEF IndInv

\* AllowRequest's re-read of the state under mu keeps a breaker that has been
\* closed meanwhile from becoming half-open.
THEOREM NoStaleProbe == Spec => ClosedNeverProbed
<1>1. [Next]_vars => [state = "closed" => state' # "half-open"]_vars
  <2> SUFFICES ASSUME [Next]_vars, state = "closed"
               PROVE state' # "half-open" \/ UNCHANGED vars
    OBVIOUS
  <2>1. CASE Tick
    BY <2>1 DEF Tick
  <2>2. ASSUME NEW t \in Threads, Step(t) PROVE state' # "half-open"
    <3>1. CASE AllowProbe(t)
      BY <3>1 DEF AllowProbe
    <3>2. CASE FailureTrip(t)
      BY <3>2 DEF FailureTrip
    <3>3. CASE state' \in {state, "closed"}
      BY <3>3
    <3> QED
      BY <2>2, <3>1, <3>2, <3>3
      DEF Step, AllowLoadState, AllowLoadLast, AllowSince, SuccessLoadState,
          SuccessClose, SuccessStoreZero, FailureCall, FailureCount,
          ResetCall, Reset
  <2> QED
    BY <2>1, <2>2 DEF Next
<1> QED
  BY <1>1, PTL DEF Spec, ClosedNeverProbed

=============================================================================
