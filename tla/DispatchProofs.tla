--------------------------- MODULE DispatchProofs ---------------------------
(***************************************************************************)
(* Proofs about Dispatch, for any set of configurations that may be        *)
(* installed while the turn runs, any retry limits and any call cap.       *)
(***************************************************************************)
EXTENDS Dispatch, TLAPS

Asking == {"roundtrip", "peek", "relay", "unary", "inspect"}

(***************************************************************************)
(* CallsBounded is not inductive: how many calls may have been made        *)
(* depends on where the turn is.  `Paid' is what retries and slaps have    *)
(* paid for: each of them, and the turn itself, buys the call of one       *)
(* routed dispatch and the call of one fallback.                           *)
(***************************************************************************)
Paid == 2 * (retries + slaps)

Counts ==
    /\ retries \in Nat /\ slaps \in Nat /\ attempts \in Nat /\ calls \in Nat

CallsInv ==
    /\ Counts
    /\ slaps <= MaxTurnCalls
    /\ attempts <= MaxTurnCalls
    /\ pc = "dispatch" => calls <= Paid + (IF hop = "direct" THEN 0 ELSE 1)
    /\ pc \in Asking => calls <= Paid + (IF hop = "direct" THEN 1 ELSE 2)
    /\ pc = "recover" => calls <= Paid + 2 + attempts
    /\ pc = "recovering" => calls <= Paid + 3 + attempts /\ attempts < MaxTurnCalls
    /\ calls <= Paid + 2 + MaxTurnCalls

\* dispatchTier's own steps keep the count.
LEMMA DispatchCalls == CallsInv /\ DispatchStep => CallsInv'
  <1> SUFFICES ASSUME CallsInv, DispatchStep PROVE CallsInv'
    OBVIOUS
  <1> USE CapAssumption DEF CallsInv, Counts, Paid, Asking, budget, recovery, counters
  <1>1. CASE BreakerOpen
    BY <1>1 DEF BreakerOpen, CanFallBack, FallBack
  <1>2. CASE ProviderMissing
    BY <1>2 DEF ProviderMissing, FallBackOrFail, CanFallBack, FallBack, Fail
  <1>3. CASE BuildFails
    BY <1>3 DEF BuildFails, Fail
  <1>4. CASE Send
    BY <1>4 DEF Send
  <1>5. CASE UpstreamFails
    BY <1>5 DEF UpstreamFails, FallBackOrFail, CanFallBack, FallBack, Fail
  <1>6. CASE StreamStarts \/ UnaryStarts
    BY <1>6 DEF StreamStarts, UnaryStarts
  <1> QED
    BY <1>1, <1>2, <1>3, <1>4, <1>5, <1>6 DEF DispatchStep

\* The streaming handler's steps keep the count.
LEMMA StreamCalls == CallsInv /\ StreamStep => CallsInv'
  <1> SUFFICES ASSUME CallsInv, StreamStep PROVE CallsInv'
    OBVIOUS
  <1> USE CapAssumption DEF CallsInv, Counts, Paid, Asking, budget, recovery, counters
  <1>1. CASE EmptyStream
    BY <1>1 DEF EmptyStream, CanFallBack, FallBack
  <1>2. CASE PeekLoopRetry
    BY <1>2 DEF PeekLoopRetry, DispatchAgain
  <1>3. CASE PeekLoopExhausted
    BY <1>3 DEF PeekLoopExhausted, CanFallBack, FallBack
  <1>4. CASE RelayStarts \/ RelayEnds \/ RelaySevered
    BY <1>4 DEF RelayStarts, RelayEnds, RelaySevered
  <1>5. CASE RelayHeld
    BY <1>5 DEF RelayHeld
  <1> QED
    BY <1>1, <1>2, <1>3, <1>4, <1>5 DEF StreamStep

\* The recovery loop's steps keep the count.
LEMMA RecoveryCalls == CallsInv /\ RecoveryStep => CallsInv'
  <1> SUFFICES ASSUME CallsInv, RecoveryStep PROVE CallsInv'
    OBVIOUS
  <1> USE CapAssumption DEF CallsInv, Counts, Paid, Asking, budget, recovery, counters
  <1>1. CASE RecoveryCall
    BY <1>1 DEF RecoveryCall
  <1>2. CASE RecoveryFails \/ RecoveryGivesUp
    BY <1>2 DEF RecoveryFails, RecoveryGivesUp
  <1>3. CASE RecoveryHeld
    BY <1>3 DEF RecoveryHeld
  <1>4. CASE RecoveryOver
    BY <1>4 DEF RecoveryOver
  <1> QED
    BY <1>1, <1>2, <1>3, <1>4 DEF RecoveryStep

\* The unary handler's steps keep the count.
LEMMA UnaryCalls == CallsInv /\ UnaryStep => CallsInv'
  <1> SUFFICES ASSUME CallsInv, UnaryStep PROVE CallsInv'
    OBVIOUS
  <1> USE CapAssumption DEF CallsInv, Counts, Paid, Asking, budget, recovery, counters
  <1>1. CASE UnaryReadFails \/ UnaryTranslateFails
    BY <1>1 DEF UnaryReadFails, UnaryTranslateFails, Fail
  <1>2. CASE UnaryEmpty
    BY <1>2 DEF UnaryEmpty, CanFallBack, FallBack
  <1>3. CASE UnaryAccepted
    BY <1>3 DEF UnaryAccepted
  <1>4. CASE UnarySlap
    BY <1>4 DEF UnarySlap, DispatchAgain
  <1>5. CASE UnaryLoopRetry
    BY <1>5 DEF UnaryLoopRetry, DispatchAgain
  <1>6. CASE UnaryLoopExhausted
    BY <1>6 DEF UnaryLoopExhausted, CanFallBack, FallBack
  <1>7. CASE UnaryDeliver
    BY <1>7 DEF UnaryDeliver
  <1> QED
    BY <1>1, <1>2, <1>3, <1>4, <1>5, <1>6, <1>7 DEF UnaryStep

\* Whatever the upstreams answer and whatever configurations are installed on
\* the way, a turn's upstream calls are bounded by its retries and slaps.
THEOREM TurnCost == Spec => []CallsBounded
  <1>1. Init => CallsInv
    BY CapAssumption DEF Init, CallsInv, Counts, Paid, Asking
  <1>2. CallsInv /\ [Next]_vars => CallsInv'
    <2> SUFFICES ASSUME CallsInv, [Next]_vars PROVE CallsInv'
      OBVIOUS
    <2>1. CASE TurnStep
      BY <2>1, DispatchCalls, StreamCalls, RecoveryCalls, UnaryCalls DEF TurnStep
    <2>2. CASE Reload \/ UNCHANGED vars
      BY <2>2 DEF Reload, vars, CallsInv, Counts, Paid, Asking, budget, recovery,
                  counters
    <2> QED
      BY <2>1, <2>2 DEF Next
  <1>3. CallsInv => CallsBounded
    BY CapAssumption DEF CallsInv, Counts, Paid, CallsBounded
  <1> QED
    BY <1>1, <1>2, <1>3, PTL DEF Spec

-----------------------------------------------------------------------------
(***************************************************************************)
(* What the client has been sent follows from where the turn is: nothing   *)
(* before the relay starts, one head from then on.                         *)
(***************************************************************************)
Answering == {"relay", "recover", "recovering"}

ResponseInv ==
    /\ pc \in Label
    /\ pc \notin Answering \cup {"done"} =>
           heads = 0 /\ telemetry = 0 /\ status = "none"
    /\ pc \in Answering => heads = 1 /\ telemetry = 0 /\ status = "answer"
    /\ pc = "done" =>
           /\ heads = 1
           /\ \/ telemetry = 1 /\ status = "answer"
              \/ telemetry = 0 /\ status = "error"

\* Every step keeps the client's view in line with the turn's.
LEMMA NextResponse == ResponseInv /\ [Next]_vars => ResponseInv'
  <1> SUFFICES ASSUME ResponseInv, [Next]_vars PROVE ResponseInv'
    OBVIOUS
  <1> USE DEF ResponseInv, Answering, Label, client
  <1>1. CASE DispatchStep
    BY <1>1 DEF DispatchStep, BreakerOpen, ProviderMissing, BuildFails, Send,
                UpstreamFails, StreamStarts, UnaryStarts, FallBackOrFail,
                FallBack, Fail, Respond
  <1>2. CASE StreamStep
    BY <1>2 DEF StreamStep, EmptyStream, PeekLoopRetry, PeekLoopExhausted,
                RelayStarts, RelayEnds, RelaySevered, RelayHeld, FallBack,
                DispatchAgain, Respond, Record
  <1>3. CASE RecoveryStep
    BY <1>3 DEF RecoveryStep, RecoveryCall, RecoveryFails, RecoveryHeld,
                RecoveryOver, RecoveryGivesUp, Record
  <1>4. CASE UnaryStep
    BY <1>4 DEF UnaryStep, UnaryReadFails, UnaryTranslateFails, UnaryEmpty,
                UnaryAccepted, UnarySlap, UnaryLoopRetry, UnaryLoopExhausted,
                UnaryDeliver, FallBack, DispatchAgain, Fail, Respond, Record
  <1>5. CASE Reload \/ UNCHANGED vars
    BY <1>5 DEF Reload, vars
  <1> QED
    BY <1>1, <1>2, <1>3, <1>4, <1>5 DEF Next, TurnStep

\* The client's view is in line with the turn's throughout.
LEMMA ResponseInvariance == Spec => []ResponseInv
  <1>1. Init => ResponseInv
    BY DEF Init, ResponseInv, Answering, Label
  <1> QED
    BY <1>1, NextResponse, PTL DEF Spec

\* The client of every turn gets one response head, and none of the recursive
\* dispatches adds another.
THEOREM SingleResponse == Spec => []OneResponse
  <1>1. ResponseInv => OneResponse
    BY DEF ResponseInv, OneResponse, Answering, Label
  <1> QED
    BY <1>1, ResponseInvariance, PTL

\* Every answered turn leaves one telemetry record, every failed one none.
THEOREM RecordedOnce == Spec => []AnswersRecordedOnce
  <1>1. ResponseInv => AnswersRecordedOnce
    BY DEF ResponseInv, AnswersRecordedOnce, Answering, Label
  <1> QED
    BY <1>1, ResponseInvariance, PTL

\* No step re-enters dispatchTier once the client has been sent a head.
THEOREM HeadIsFinal == Spec => NoHopAfterHead
  <1>1. ResponseInv /\ [Next]_vars =>
          [pc' = "dispatch" /\ pc # "dispatch" => heads = 0]_vars
    <2> SUFFICES ASSUME ResponseInv, Next, pc' = "dispatch"
                 PROVE  pc # "dispatch" => heads = 0
      BY DEF vars
    <2>1. pc \notin Answering \cup {"done"}
      BY DEF Answering, Next, Reload, TurnStep, DispatchStep, BreakerOpen,
             ProviderMissing, BuildFails, Send, UpstreamFails, StreamStarts,
             UnaryStarts, StreamStep, EmptyStream, PeekLoopRetry,
             PeekLoopExhausted, RelayStarts, RelayEnds, RelaySevered, RelayHeld,
             RecoveryStep, RecoveryCall, RecoveryFails, RecoveryHeld,
             RecoveryOver, RecoveryGivesUp, UnaryStep, UnaryReadFails,
             UnaryTranslateFails, UnaryEmpty, UnaryAccepted, UnarySlap,
             UnaryLoopRetry, UnaryLoopExhausted, UnaryDeliver
    <2> QED
      BY <2>1 DEF ResponseInv
  <1> QED
    BY <1>1, ResponseInvariance, PTL DEF Spec, NoHopAfterHead

-----------------------------------------------------------------------------
(***************************************************************************)
(* Whether a verdict may still be passed on the last call follows from     *)
(* where the turn is: it is outstanding while the answer is awaited, and   *)
(* until the head is sent or the body is accepted.                         *)
(***************************************************************************)
Outstanding == {"roundtrip", "peek", "unary", "recovering"}

VerdictInv ==
    /\ TypeOK
    /\ pc \in Outstanding => verdicts < calls /\ watchdog < calls
    /\ verdicts <= calls /\ watchdog <= calls

\* What may be installed is typed, and so is what is read from it.
LEMMA ConfigTypes ==
  ASSUME TypeOK
  PROVE  /\ Optional(cfg.default) /\ Optional(cfg.rescue)
         /\ Optional(RescueTier) /\ RescueTier # NoTier
         /\ MaxAttempts(tier) \in Nat
  <1>1. cfg \in Configs /\ Optional(cfg.default) /\ Optional(cfg.rescue)
        /\ cfg.attempts \in Nat
    BY ConfigsAssumption DEF TypeOK
  <1>2. Tier(tier) /\ tier # NoTier
    BY DEF TypeOK
  <1>3. Optional(RescueTier) /\ RescueTier # NoTier
    BY <1>1, <1>2 DEF RescueTier, Optional
  <1>4. MaxAttempts(tier) \in Nat
    BY <1>1, <1>2 DEF MaxAttempts, Tier
  <1> QED
    BY <1>1, <1>3, <1>4

\* dispatchTier passes a verdict on a call that failed, once.
LEMMA DispatchVerdicts == VerdictInv /\ DispatchStep => VerdictInv'
  <1> SUFFICES ASSUME VerdictInv, DispatchStep PROVE VerdictInv'
    OBVIOUS
  <1> USE ConfigTypes DEF VerdictInv, TypeOK, Outstanding, Label, budget,
          recovery, counters, client, session
  <1>1. CASE BreakerOpen
    BY <1>1 DEF BreakerOpen, CanFallBack, FallBack, Optional
  <1>2. CASE ProviderMissing
    BY <1>2 DEF ProviderMissing, FallBackOrFail, CanFallBack, FallBack, Fail,
                Respond, Optional
  <1>3. CASE BuildFails
    BY <1>3 DEF BuildFails, Fail, Respond
  <1>4. CASE Send
    BY <1>4 DEF Send
  <1>5. CASE UpstreamFails
    BY <1>5 DEF UpstreamFails, FallBackOrFail, CanFallBack, FallBack, Fail,
                Respond, Optional
  <1>6. CASE StreamStarts \/ UnaryStarts
    BY <1>6 DEF StreamStarts, UnaryStarts
  <1> QED
    BY <1>1, <1>2, <1>3, <1>4, <1>5, <1>6 DEF DispatchStep

\* The streaming handler passes its verdict with the head.
LEMMA StreamVerdicts == VerdictInv /\ StreamStep => VerdictInv'
  <1> SUFFICES ASSUME VerdictInv, StreamStep PROVE VerdictInv'
    OBVIOUS
  <1> USE ConfigTypes DEF VerdictInv, TypeOK, Outstanding, Label, budget,
          recovery, counters, client, session
  <1>1. CASE EmptyStream
    BY <1>1 DEF EmptyStream, CanFallBack, FallBack, Optional
  <1>2. CASE PeekLoopRetry
    BY <1>2 DEF PeekLoopRetry, DispatchAgain
  <1>3. CASE PeekLoopExhausted
    BY <1>3 DEF PeekLoopExhausted, CanFallBack, FallBack, Respond, Record,
                Optional
  <1>4. CASE RelayStarts
    BY <1>4 DEF RelayStarts, Respond
  <1>5. CASE RelayEnds \/ RelaySevered \/ RelayHeld
    BY <1>5 DEF RelayEnds, RelaySevered, RelayHeld, Record
  <1> QED
    BY <1>1, <1>2, <1>3, <1>4, <1>5 DEF StreamStep

\* A recovery call is new, and a verdict is passed on it only if it fails.
LEMMA RecoveryVerdicts == VerdictInv /\ RecoveryStep => VerdictInv'
  <1> SUFFICES ASSUME VerdictInv, RecoveryStep PROVE VerdictInv'
    OBVIOUS
  <1> USE DEF VerdictInv, TypeOK, Outstanding, Label, budget, recovery,
          counters, client, session
  <1>1. CASE RecoveryCall \/ RecoveryHeld
    BY <1>1 DEF RecoveryCall, RecoveryHeld
  <1>2. CASE RecoveryFails \/ RecoveryOver \/ RecoveryGivesUp
    BY <1>2 DEF RecoveryFails, RecoveryOver, RecoveryGivesUp, Record
  <1> QED
    BY <1>1, <1>2 DEF RecoveryStep

\* The unary handler passes its verdict when the body is read or fails to be.
LEMMA UnaryVerdicts == VerdictInv /\ UnaryStep => VerdictInv'
  <1> SUFFICES ASSUME VerdictInv, UnaryStep PROVE VerdictInv'
    OBVIOUS
  <1> USE ConfigTypes DEF VerdictInv, TypeOK, Outstanding, Label, budget,
          recovery, counters, client, session
  <1>1. CASE UnaryReadFails \/ UnaryTranslateFails
    BY <1>1 DEF UnaryReadFails, UnaryTranslateFails, Fail, Respond
  <1>2. CASE UnaryEmpty
    BY <1>2 DEF UnaryEmpty, CanFallBack, FallBack, Optional
  <1>3. CASE UnaryAccepted
    BY <1>3 DEF UnaryAccepted
  <1>4. CASE UnarySlap
    BY <1>4 DEF UnarySlap, DispatchAgain, Optional
  <1>5. CASE UnaryLoopRetry
    BY <1>5 DEF UnaryLoopRetry, DispatchAgain
  <1>6. CASE UnaryLoopExhausted
    BY <1>6 DEF UnaryLoopExhausted, CanFallBack, FallBack, Respond, Record,
                Optional
  <1>7. CASE UnaryDeliver
    BY <1>7 DEF UnaryDeliver, Respond, Record
  <1> QED
    BY <1>1, <1>2, <1>3, <1>4, <1>5, <1>6, <1>7 DEF UnaryStep

\* Neither a breaker nor the watchdog hears twice of one upstream call, on
\* whichever of its ways a turn reports, retries, falls back or recovers; and
\* every tier a turn moves to is one of a configuration.
THEOREM HeardOnce == Spec => []OneVerdictPerCall
  <1>1. Init => VerdictInv
    BY ConfigsAssumption DEF Init, VerdictInv, TypeOK, Outstanding, Label,
       Optional
  <1>2. VerdictInv /\ [Next]_vars => VerdictInv'
    <2> SUFFICES ASSUME VerdictInv, [Next]_vars PROVE VerdictInv'
      OBVIOUS
    <2>1. CASE TurnStep
      BY <2>1, DispatchVerdicts, StreamVerdicts, RecoveryVerdicts,
         UnaryVerdicts DEF TurnStep
    <2>2. CASE Reload \/ UNCHANGED vars
      BY <2>2 DEF Reload, vars, VerdictInv, TypeOK, Outstanding, budget,
                  recovery, counters, client, session
    <2> QED
      BY <2>1, <2>2 DEF Next
  <1>3. VerdictInv => OneVerdictPerCall
    BY DEF VerdictInv, OneVerdictPerCall
  <1> QED
    BY <1>1, <1>2, <1>3, PTL DEF Spec

=============================================================================
