------------------------------ MODULE Dispatch ------------------------------
(***************************************************************************)
(* One chat-completion turn after routing: Server.dispatchTier and the two *)
(* response handlers that may call it again (handleStreaming and           *)
(* handleNonStreaming), with the thought-slap recovery calls.              *)
(*                                                                         *)
(* The call graph is recursive: a failed or useless answer re-enters       *)
(* dispatchTier with another tier (fallback), with the same tier and a     *)
(* corrected prompt (cycle retry), or with a rescue tier (thought slap).   *)
(* No counter of upstream calls exists; what ends a turn is isFallback,    *)
(* here `hop', together with CycleRetries and ThoughtSlapAttempts.         *)
(*                                                                         *)
(* The configuration may be swapped at any moment (Reload).  dispatchTier  *)
(* keeps the tier it was given and the default tier it read on entry       *)
(* (`dflt') across the upstream round trip; the handlers read again.       *)
(*                                                                         *)
(* What an upstream answers, and whether a provider's breaker lets a call  *)
(* through, is open: every outcome the code distinguishes is an action.    *)
(***************************************************************************)
EXTENDS Naturals

CONSTANTS Configs,      \* configurations that may be installed
          Local,        \* providers on this machine (IsLocal)
          CycleChecked, \* "on" if the turn has tools and is not opted out
          MaxTurnCalls, \* maxGlobalTurnCalls (4)
          NoTier        \* no default tier, no rescue tier

\* A tier: the cycle-breaker retries and recovery attempts it overrides (0:
\* not set), and whether it opts in to thought slaps.
Tier(t) ==
    /\ DOMAIN t = {"name", "provider", "retries", "slap", "attempts"}
    /\ t.retries \in Nat /\ t.attempts \in Nat
    /\ t.slap \in {"on", "off"}

Optional(t) == t = NoTier \/ Tier(t)

ASSUME ConfigsAssumption ==
    \A c \in Configs :
        /\ \A t \in c.tiers : Tier(t) /\ t # NoTier
        /\ Optional(c.default) /\ Optional(c.rescue)
        /\ c.retries \in Nat \ {0}
        /\ c.attempts \in Nat \ {0}
ASSUME CapAssumption == MaxTurnCalls \in Nat \ {0}

VARIABLES cfg,      \* the configuration in s.state
          pc,
          tier,     \* targetTier
          hop,      \* "direct" or "fallback": isFallback
          dflt,     \* the local defaultTier
          retries,  \* reqCtx.CycleRetries
          slaps,    \* reqCtx.ThoughtSlapAttempts
          allowed,  \* tsCfg.MaxAttempts as handleStreaming resolved it
          recTier,  \* executeThoughtSlapRecoveryStream's recTier
          attempts, \* and its attempts
          calls,    \* upstream round trips started in this turn
          verdicts, \* RecordSuccess and RecordFailure calls on breakers
          watchdog, \* recordProxySuccess and recordProxyError calls
          slapped,  \* RecordThoughtSlap calls on the session
          heads,    \* response heads written to the client
          status,   \* "none", "answer" or "error"
          telemetry,\* recordTelemetry calls
          killed    \* models put in cooldown by RecordCycleKill, by tier

counters == <<calls, verdicts, watchdog>>
client == <<heads, status, telemetry>>
budget == <<retries, slaps>>
recovery == <<allowed, recTier, attempts>>
session == <<slapped, killed>>
vars == <<cfg, pc, tier, hop, dflt, budget, recovery, counters, client, session>>

Init ==
    /\ cfg \in Configs
    /\ tier \in cfg.tiers
    /\ pc = "dispatch"
    /\ hop = "direct"
    /\ dflt = NoTier
    /\ retries = 0 /\ slaps = 0
    /\ allowed = 0 /\ recTier = NoTier /\ attempts = 0
    /\ calls = 0 /\ verdicts = 0 /\ watchdog = 0
    /\ heads = 0 /\ status = "none" /\ telemetry = 0
    /\ slapped = 0 /\ killed = {}

\* cb.MaxRetries() for a tier: its own limit, or the global one.
MaxRetries(t) == IF t.retries > 0 THEN t.retries ELSE cfg.retries

\* ResolveThoughtSlap: 0 attempts for a tier that does not opt in.
MaxAttempts(t) ==
    CASE t.slap = "off"   -> 0
      [] t.slap = "on" /\ t.attempts > 0 -> t.attempts
      [] OTHER            -> cfg.attempts

\* findRescueTier, or the tier the turn is on.
RescueTier == IF cfg.rescue # NoTier THEN cfg.rescue ELSE tier

CanFallBack(d) == hop = "direct" /\ d # NoTier /\ d.name # tier.name

\* Mutant: the fallback is dispatched as if it had been routed.
FallBackDirect(d) ==
    /\ tier' = d
    /\ hop' = "direct"
    /\ pc' = "dispatch"

\* dispatchTier(..., defaultTier, ..., true)
FallBack(d) ==
    /\ tier' = d
    /\ hop' = "fallback"
    /\ pc' = "dispatch"

\* dispatchTier(..., t, ..., false)
DispatchAgain(t) ==
    /\ tier' = t
    /\ hop' = "direct"
    /\ pc' = "dispatch"

Respond(kind) ==
    /\ heads' = heads + 1
    /\ status' = kind

\* http.Error: the turn ends without a telemetry record.
Fail ==
    /\ Respond("error")
    /\ pc' = "done"
    /\ UNCHANGED <<tier, hop, telemetry>>

FallBackOrFail(d) ==
    \/ CanFallBack(d) /\ FallBack(d) /\ UNCHANGED client
    \/ ~CanFallBack(d) /\ Fail

Record == telemetry' = telemetry + 1

-----------------------------------------------------------------------------
(* dispatchTier *)

\* The breaker of a registered provider is open and there is a fallback.
BreakerOpen ==
    /\ pc = "dispatch"
    /\ tier.provider \in cfg.registry
    /\ CanFallBack(cfg.default)
    /\ FallBack(cfg.default)
    /\ UNCHANGED <<cfg, dflt, budget, recovery, counters, client, session>>

ProviderMissing ==
    /\ pc = "dispatch"
    /\ tier.provider \notin cfg.registry
    /\ FallBackOrFail(cfg.default)
    /\ UNCHANGED <<cfg, dflt, budget, recovery, counters, session>>

BuildFails ==
    /\ pc = "dispatch"
    /\ tier.provider \in cfg.registry
    /\ Fail
    /\ UNCHANGED <<cfg, dflt, budget, recovery, counters, session>>

\* The call is made; an open breaker does not stop it when no other tier can
\* take the turn.
Send ==
    /\ pc = "dispatch"
    /\ tier.provider \in cfg.registry
    /\ calls' = calls + 1
    /\ dflt' = cfg.default
    /\ pc' = "roundtrip"
    /\ UNCHANGED <<cfg, tier, hop, budget, recovery, verdicts, watchdog, client,
                   session>>

\* Mutant: the error is written although the turn goes on elsewhere.
UpstreamFailsTwice ==
    /\ pc = "roundtrip"
    /\ verdicts' = verdicts + 1
    /\ watchdog' = watchdog + 1
    /\ IF CanFallBack(dflt)
       THEN FallBack(dflt) /\ Respond("error") /\ UNCHANGED telemetry
       ELSE Fail
    /\ UNCHANGED <<cfg, dflt, budget, recovery, calls, session>>

\* A transport error or a status of 500 and above.
UpstreamFails ==
    /\ pc = "roundtrip"
    /\ verdicts' = verdicts + 1
    /\ watchdog' = watchdog + 1
    /\ FallBackOrFail(dflt)
    /\ UNCHANGED <<cfg, dflt, budget, recovery, calls, session>>

StreamStarts ==
    /\ pc = "roundtrip"
    /\ dflt' = cfg.default
    /\ allowed' = MaxAttempts(tier)
    /\ pc' = "peek"
    /\ UNCHANGED <<cfg, tier, hop, budget, recTier, attempts, counters, client,
                   session>>

\* Mutant: the answer is reported before it is looked at.
UnaryReportedEarly ==
    /\ pc = "roundtrip"
    /\ dflt' = cfg.default
    /\ verdicts' = verdicts + 1
    /\ pc' = "unary"
    /\ UNCHANGED <<cfg, tier, hop, budget, recovery, calls, watchdog, client,
                   session>>

UnaryStarts ==
    /\ pc = "roundtrip"
    /\ dflt' = cfg.default
    /\ pc' = "unary"
    /\ UNCHANGED <<cfg, tier, hop, budget, recovery, counters, client, session>>

-----------------------------------------------------------------------------
(* handleStreaming *)

\* A local provider's stream is empty.
EmptyStream ==
    /\ pc = "peek"
    /\ tier.provider \in Local
    /\ CanFallBack(dflt)
    /\ FallBack(dflt)
    /\ UNCHANGED <<cfg, dflt, budget, recovery, counters, client, session>>

\* The limit the handler reads after normalizer.Close() has put the cycle
\* breaker back in the pool: its own, or what another request, which may have
\* taken it from the pool, has set since (the default of 1 or its tier's).
PooledLimits == {MaxRetries(tier), 1} \cup {MaxRetries(t) : t \in cfg.tiers}

\* A loop in the first 2 KB: the tier is asked again.
PeekLoopRetry ==
    /\ pc = "peek" /\ CycleChecked = "on" /\ hop = "direct"
    /\ \E limit \in PooledLimits : retries < limit
    /\ retries' = retries + 1
    /\ DispatchAgain(tier)
    /\ UNCHANGED <<cfg, dflt, slaps, recovery, counters, client, session>>

\* Mutant: the severed turn is not recorded.
PeekLoopUnrecorded ==
    /\ pc = "peek" /\ CycleChecked = "on" /\ hop = "direct"
    /\ \E limit \in PooledLimits : retries >= limit
    /\ killed' = killed \cup {tier.name}
    /\ \/ CanFallBack(dflt) /\ FallBack(dflt) /\ UNCHANGED client
       \/ /\ ~CanFallBack(dflt)
          /\ Respond("answer")
          /\ pc' = "done"
          /\ UNCHANGED <<tier, hop, telemetry>>
    /\ UNCHANGED <<cfg, slapped, dflt, budget, recovery, counters>>

\* The retries are used up: the model cools down, the default tier takes over,
\* or the client gets a loop notice.
PeekLoopExhausted ==
    /\ pc = "peek" /\ CycleChecked = "on" /\ hop = "direct"
    /\ \E limit \in PooledLimits : retries >= limit
    /\ killed' = killed \cup {tier.name}
    /\ \/ CanFallBack(dflt) /\ FallBack(dflt) /\ UNCHANGED client
       \/ /\ ~CanFallBack(dflt)
          /\ Respond("answer") /\ Record
          /\ pc' = "done"
          /\ UNCHANGED <<tier, hop>>
    /\ UNCHANGED <<cfg, slapped, dflt, budget, recovery, counters>>

RelayStarts ==
    /\ pc = "peek"
    /\ verdicts' = verdicts + 1
    /\ watchdog' = watchdog + 1
    /\ Respond("answer")
    /\ pc' = "relay"
    /\ UNCHANGED <<cfg, tier, hop, dflt, budget, recovery, calls, telemetry,
                   session>>

RelayEnds ==
    /\ pc = "relay"
    /\ Record
    /\ pc' = "done"
    /\ UNCHANGED <<cfg, tier, hop, dflt, budget, recovery, counters, heads,
                   status, session>>

\* A loop further on: the stream is severed with a notice.
RelaySevered ==
    /\ pc = "relay" /\ CycleChecked = "on"
    /\ killed' = killed \cup {tier.name}
    /\ Record
    /\ pc' = "done"
    /\ UNCHANGED <<cfg, slapped, tier, hop, dflt, budget, recovery, counters, heads,
                   status>>

\* The stream ended with its terminal still held.
RelayHeld ==
    /\ pc = "relay"
    /\ recTier' = RescueTier
    /\ attempts' = 0
    /\ slapped' = slapped + 1
    /\ pc' = "recover"
    /\ UNCHANGED <<cfg, tier, hop, dflt, budget, allowed, counters, client,
                   killed>>

-----------------------------------------------------------------------------
(* executeThoughtSlapRecoveryStream *)

RecoveryCall ==
    /\ pc = "recover"
    /\ attempts < allowed
    /\ 1 + retries + attempts < MaxTurnCalls
    /\ recTier.provider \in cfg.registry
    /\ calls' = calls + 1
    /\ pc' = "recovering"
    /\ UNCHANGED <<cfg, tier, hop, dflt, budget, recovery, verdicts, watchdog,
                   client, session>>

\* A transport error or a 5xx status; the exhausted terminal follows.
RecoveryFails ==
    /\ pc = "recovering"
    /\ verdicts' = verdicts + 1
    /\ watchdog' = watchdog + 1
    /\ Record
    /\ pc' = "done"
    /\ UNCHANGED <<cfg, tier, hop, dflt, budget, recovery, calls, heads, status,
                   session>>

\* Empty and truncated again.
RecoveryHeld ==
    /\ pc = "recovering"
    /\ attempts' = attempts + 1
    /\ pc' = "recover"
    /\ UNCHANGED <<cfg, tier, hop, dflt, budget, allowed, recTier, counters,
                   client, session>>

\* Recovered or over without anything to show, which counts as an attempt, or
\* another non-200 status, which does not.
RecoveryOver ==
    /\ pc = "recovering"
    /\ Record
    /\ attempts' \in {attempts, attempts + 1}
    /\ pc' = "done"
    /\ UNCHANGED <<cfg, tier, hop, dflt, budget, allowed, recTier, counters,
                   heads, status, session>>

\* No attempt left, the cap is reached, the client is gone, or the call cannot
\* be made (no provider, breaker open).
RecoveryGivesUp ==
    /\ pc = "recover"
    /\ Record
    /\ pc' = "done"
    /\ UNCHANGED <<cfg, tier, hop, dflt, budget, recovery, counters, heads,
                   status, session>>

-----------------------------------------------------------------------------
(* handleNonStreaming *)

UnaryReadFails ==
    /\ pc = "unary"
    /\ watchdog' = watchdog + 1
    /\ Fail
    /\ UNCHANGED <<cfg, dflt, budget, recovery, calls, verdicts, session>>

UnaryTranslateFails ==
    /\ pc = "unary"
    /\ Fail
    /\ UNCHANGED <<cfg, dflt, budget, recovery, counters, session>>

UnaryEmpty ==
    /\ pc = "unary"
    /\ tier.provider \in Local
    /\ CanFallBack(dflt)
    /\ FallBack(dflt)
    /\ UNCHANGED <<cfg, dflt, budget, recovery, counters, client, session>>

UnaryAccepted ==
    /\ pc = "unary"
    /\ verdicts' = verdicts + 1
    /\ watchdog' = watchdog + 1
    /\ pc' = "inspect"
    /\ UNCHANGED <<cfg, tier, hop, dflt, budget, recovery, calls, client,
                   session>>

\* Mutant: the attempt is not counted.
UnarySlapUncounted ==
    /\ pc = "inspect"
    /\ slaps < MaxAttempts(tier)
    /\ 1 + retries + slaps < MaxTurnCalls
    /\ slapped' = slapped + 1
    /\ DispatchAgain(RescueTier)
    /\ UNCHANGED <<cfg, dflt, budget, recovery, counters, client, killed>>

\* Empty and truncated: the rescue tier is asked to act.
UnarySlap ==
    /\ pc = "inspect"
    /\ slaps < MaxAttempts(tier)
    /\ 1 + retries + slaps < MaxTurnCalls
    /\ slaps' = slaps + 1
    /\ slapped' = slapped + 1
    /\ DispatchAgain(RescueTier)
    /\ UNCHANGED <<cfg, dflt, retries, recovery, counters, client, killed>>

UnaryLoopRetry ==
    /\ pc = "inspect" /\ CycleChecked = "on" /\ hop = "direct"
    /\ retries < MaxRetries(tier)
    /\ retries' = retries + 1
    /\ DispatchAgain(tier)
    /\ UNCHANGED <<cfg, dflt, slaps, recovery, counters, client, session>>

\* Without a fallback the looping answer is delivered.
UnaryLoopExhausted ==
    /\ pc = "inspect" /\ CycleChecked = "on" /\ hop = "direct"
    /\ retries >= MaxRetries(tier)
    /\ killed' = killed \cup {tier.name}
    /\ \/ CanFallBack(dflt) /\ FallBack(dflt) /\ UNCHANGED client
       \/ /\ ~CanFallBack(dflt)
          /\ Respond("answer") /\ Record
          /\ pc' = "done"
          /\ UNCHANGED <<tier, hop>>
    /\ UNCHANGED <<cfg, slapped, dflt, budget, recovery, counters>>

UnaryDeliver ==
    /\ pc = "inspect"
    /\ Respond("answer") /\ Record
    /\ pc' = "done"
    /\ UNCHANGED <<cfg, tier, hop, dflt, budget, recovery, counters, session>>

-----------------------------------------------------------------------------
\* Another configuration is installed (or rolled back) by ConfigLifecycle.
Reload ==
    /\ cfg' \in Configs
    /\ UNCHANGED <<pc, tier, hop, dflt, budget, recovery, counters, client,
                   session>>

DispatchStep ==
    \/ BreakerOpen \/ ProviderMissing \/ BuildFails \/ Send
    \/ UpstreamFails \/ StreamStarts \/ UnaryStarts

StreamStep ==
    \/ EmptyStream \/ PeekLoopRetry \/ PeekLoopExhausted \/ RelayStarts
    \/ RelayEnds \/ RelaySevered \/ RelayHeld

RecoveryStep ==
    \/ RecoveryCall \/ RecoveryFails \/ RecoveryHeld \/ RecoveryOver
    \/ RecoveryGivesUp

UnaryStep ==
    \/ UnaryReadFails \/ UnaryTranslateFails \/ UnaryEmpty \/ UnaryAccepted
    \/ UnarySlap \/ UnaryLoopRetry \/ UnaryLoopExhausted \/ UnaryDeliver

TurnStep == DispatchStep \/ StreamStep \/ RecoveryStep \/ UnaryStep

Next == TurnStep \/ Reload

Spec == Init /\ [][Next]_vars

\* The request's goroutine runs and every upstream call returns: the upstream
\* answers, fails or closes the stream, or the client goes away and its context
\* cancels the call (the transport itself sets no response timeout).
FairSpec == Spec /\ WF_vars(TurnStep)
-----------------------------------------------------------------------------
Label == {"dispatch", "roundtrip", "peek", "relay", "recover", "recovering",
          "unary", "inspect", "done"}

\* Type invariant.
TypeOK ==
    /\ cfg \in Configs
    /\ pc \in Label
    /\ tier # NoTier /\ Tier(tier)
    /\ hop \in {"direct", "fallback"}
    /\ Optional(dflt)
    /\ retries \in Nat /\ slaps \in Nat
    /\ allowed \in Nat /\ Optional(recTier) /\ attempts \in Nat
    /\ calls \in Nat /\ verdicts \in Nat /\ watchdog \in Nat
    /\ heads \in Nat /\ status \in {"none", "answer", "error"}
    /\ telemetry \in Nat /\ slapped \in Nat

\* dispatchTier and the handlers: what a turn costs.  Every upstream call but
\* the first is paid for by a fallback, a cycle retry or a thought slap, each
\* retry and slap buys at most one more fallback, and slaps stop at the cap.
CallsBounded ==
    /\ calls <= 2 * (1 + retries + slaps) + MaxTurnCalls
    /\ slaps <= MaxTurnCalls /\ attempts <= MaxTurnCalls

\* handleStreaming and handleNonStreaming: the client gets one response head,
\* and has got it when the turn is over.
OneResponse ==
    /\ heads <= 1
    /\ pc = "done" => heads = 1

\* recordTelemetry: a turn answered from upstream is recorded once, a turn
\* that ends in an error of the proxy is not recorded.
AnswersRecordedOnce ==
    /\ telemetry <= 1
    /\ pc = "done" => (telemetry = 1 <=> status = "answer")

\* Breakers and the rollback watchdog hear of an upstream call at most once.
OneVerdictPerCall == TypeOK /\ verdicts <= calls /\ watchdog <= calls

\* Once the client has been sent a response head, the turn is not dispatched
\* to another tier.
NoHopAfterHead == [][pc' = "dispatch" /\ pc # "dispatch" => heads = 0]_vars

\* Fallbacks, retries, slaps and configuration changes cannot keep a turn
\* going for ever.
TurnEnds == <>(pc = "done")

=============================================================================
