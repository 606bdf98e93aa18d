----------------------------- MODULE FleetReplay -----------------------------
(* What the tuner's search asks of recorded traffic: which tier of a          *)
(* candidate cascade each turn would have gone to, what that would have cost, *)
(* and which variable of the cascade is to blame (pkg/tuner/                  *)
(* multi_tier_replay.go, conflict_evaluator.go, fleet_dominance.go).          *)
(* Money counts in units of $0.00001, tokens in thousands.                    *)
EXTENDS CuratedCandidates

CONSTANT Watched   \* keywords the analyzer found to go with local failures

ASSUME WatchedAssumption == Cardinality(Watched) <= 1

Modalities == {"HasImages", "HasTools"}

\* The part of a tier's guard its rule stands for.
Limits == INSTANCE RoutingRules WITH Rules <- {}, Asks <- {}, Contexts <- {},
                                     rule <- <<>>, ask <- <<>>, written <- <<>>

RetryPenalty == 200000
TurnPenalty == 10000
CyclePenalty == 500000
DominancePenalty == 10 * RetryPenalty
Infinite == 2000000000
MinCloudSpend == 10000

\* A tier that gates a phase or a modality instead of a step of the ladder.
Lateral(t) == "Kickstart" \in t.limits.requires \/ "HasImages" \in t.limits.requires
              \/ t.limits.messageMax > 0

Frontier(t) == t.frontier \/ IsFrontierModel(t.model)

\* An index that is still the catalogue's own has not been scaled yet.
TierCoding(t) ==
    IF t.effort = "" \/ t.coding # Benchmark(t.model) THEN t.coding
    ELSE EffectiveCoding(t.coding, t.effort)

-----------------------------------------------------------------------------
\* The conversation so far: retries of the task, and what was last prompted
\* where, for the prompt cache.
NoPrevious == [model |-> "", effort |-> "", tokens |-> 0]

Context(turn, position, retries) ==
    [turn EXCEPT !.Retries = retries,
                 !.MessageCount = IF @ <= 0 THEN position * 2 ELSE @]

Admits(t, c) ==
    /\ ~t.disabled
    /\ Limits!Matches(t.limits, c)
    /\ t.maxContext > 0 => c.Tokens <= t.maxContext
    /\ t.model # "" => Modalities \cap c.flags \subseteq t.supports

\* The first tier that admits the request; past the last one, the default.
Selected(cfg, c) ==
    LET open == {k \in DOMAIN cfg.tiers : Admits(cfg.tiers[k], c)}
    IN IF open = {} THEN Len(cfg.tiers) + 1 ELSE Min(open)

TierAt(cfg, k) == IF k <= Len(cfg.tiers) THEN cfg.tiers[k] ELSE cfg.default

Failing(turn) == turn.flags \cap {"HasTestFail", "IsRetry"} # {}
ReadOnlyPlan(turn) == "HasTools" \in turn.flags /\ "HasWriteCapability" \notin turn.flags

\* A capable cloud model would have solved what a local one failed at.
Upgraded(t, turn) == ~t.local /\ "IsLocal" \in turn.flags /\ t.coding >= Capable

\* What the turn does to the retry count: a turn the cloud solved says nothing
\* of what a local model would have done, and an outage nothing of any model.
\* Only the replay holds the count steady while a failing test is being fixed.
Verdict(cfg, t, turn, retries, holdsRepairs) ==
    LET f == turn.flags
        moved == f \cap {"HasWriteProgress", "HasTestPass"} # {}
    IN IF "Upstream" \in f THEN "keep"
       ELSE IF t.local /\ "IsLocal" \notin f THEN "waste"
       ELSE IF holdsRepairs /\ "HasActiveRepair" \in f /\ retries > 0 THEN "keep"
       ELSE IF cfg.writeOnly
            THEN IF moved \/ "HasShellWrite" \in f \/ ReadOnlyPlan(turn) \/ Upgraded(t, turn)
                 THEN "clear" ELSE IF Failing(turn) THEN "waste" ELSE "count"
       ELSE IF t.local
            THEN IF "IsRetry" \in f THEN "waste"
                 ELSE IF moved \/ ReadOnlyPlan(turn) THEN "clear" ELSE "keep"
       ELSE IF ~Failing(turn) \/ Upgraded(t, turn) THEN "clear" ELSE "waste"

\* The tier's model cannot take what the turn brings.
Mismatched(t, turn) == t.model # "" /\ ~(Modalities \cap turn.flags \subseteq t.supports)

\* Consecutive turns of one model pay a fifth for the prefix they share.
CachedTokens(t, turn, previous, byEffort) ==
    IF t.model # "" /\ previous.model = t.model /\ (byEffort => previous.effort = t.effort)
    THEN Min({previous.tokens, turn.Tokens}) ELSE 0

Cost(t, turn, previous, byEffort) ==
    LET prompt == 10 * turn.Tokens - 8 * CachedTokens(t, turn, previous, byEffort)
    IN IF t.local THEN 0
       ELSE IF turn.cost # 0 /\ "IsLocal" \notin turn.flags /\ t.rate = 0 THEN turn.cost
       ELSE IF turn.output > 0 /\ t.completion > 0
            THEN prompt * t.prompt + 10 * turn.output * t.completion
       ELSE prompt * (IF t.rate > 0 THEN t.rate ELSE DefaultRate)

-----------------------------------------------------------------------------
\* Fractional attribution: the variables of the tier a repair could change.
LedgerScale == 60

LocalAlternative(t, vram) ==
    \E m \in ToSet(LocalCandidates(PlatformCandidates("coding", "local"),
                               ParameterCeiling(t.model, vram))) :
        Catalogue[m].coding > t.coding

Substitutable(t, turn, vram) ==
    /\ t.model # ""
    /\ t.coding < Capable \/ Mismatched(t, turn)
    /\ t.local => vram > 0 /\ (Mismatched(t, turn) \/ LocalAlternative(t, vram))

Blamed(t, k, turn, retries, vram) ==
    LET Name(wanted, attribute) == IF wanted THEN {<<k, attribute>>} ELSE {}
    IN Name(/\ turn.Tokens >= 1 /\ (t.limits.threshold > 0 \/ t.local)
            /\ "Kickstart" \notin t.limits.requires, "tokens")
       \cup Name(retries >= 1 /\ t.limits.messageMax = 0, "retries")
       \cup Name("HasTools" \in turn.flags \ (t.supports \cup t.limits.prohibits), "tools")
       \cup Name("HasImages" \in turn.flags \ (t.supports \cup t.limits.prohibits), "images")
       \cup Name(Substitutable(t, turn, vram), "model")
       \cup IF t.local /\ ~Lateral(t)
            THEN {<<0, w>> : w \in (Watched \cap turn.Keywords) \ t.limits.keywords} ELSE {}

Charge(ledger, variables, amount) ==
    [v \in DOMAIN ledger \cup variables |->
        (IF v \in DOMAIN ledger THEN ledger[v] ELSE 0) + (IF v \in variables THEN amount ELSE 0)]

\* A failed turn charges its penalty in equal shares to what is to blame.
ChargeEqually(ledger, variables, penalty) ==
    IF variables = {} THEN ledger
    ELSE Charge(ledger, variables, (penalty * LedgerScale) \div Cardinality(variables))

\* A turn that went well on a dear model charges its price to that model.
Attribute(cfg, k, t, turn, retries, failed, cost, ledger) ==
    LET penalty == RetryPenalty + cost + IF "CycleBreaker" \in turn.flags THEN CyclePenalty ELSE 0
        blamed == IF k > Len(cfg.tiers) THEN {<<k, "model">>}
                  ELSE Blamed(t, k, turn, retries, cfg.vram)
        dear == cost > 0 /\ t.model # "" /\ ~t.local /\ t.rate > 1
    IN IF failed THEN ChargeEqually(ledger, blamed, penalty)
       ELSE Charge(ledger, IF dear THEN {<<k, "model">>} ELSE {}, cost * LedgerScale)

NoTally == [retries |-> 0, previous |-> NoPrevious, root |-> 0, position |-> 0,
            cost |-> 0, wasted |-> 0, turns |-> 0, cycles |-> 0,
            routed |-> <<>>, spent |-> <<>>, ledger |-> <<>>]

\* A new session, or a new task within one, starts the retries over.
Opened(tally, turn) ==
    IF tally.position = 0 \/ (turn.root # 0 /\ turn.root # tally.root)
    THEN [tally EXCEPT !.retries = 0, !.previous = NoPrevious, !.root = turn.root]
    ELSE tally

\* One turn, in the replay or in the attribution: the two accounts of one fleet
\* differ in holding repairs and in whether the cache tells efforts apart.
Account(cfg, replays, start, turn, k, t, verdict, cost) ==
    LET mismatch == IF Mismatched(t, turn) THEN 1 ELSE 0
        cycle == IF "CycleBreaker" \in turn.flags THEN 1 ELSE 0
        failed == \/ verdict = "waste" \/ (verdict = "count" /\ start.retries >= 1)
                  \/ mismatch = 1 \/ cycle = 1
    IN [retries |-> mismatch + CASE verdict = "clear" -> 0
                                 [] verdict = "keep" -> start.retries
                                 [] OTHER -> start.retries + 1,
        previous |-> [model |-> t.model, effort |-> t.effort, tokens |-> turn.Tokens],
        root |-> start.root,
        position |-> start.position + 1,
        cost |-> start.cost + cost,
        wasted |-> start.wasted + mismatch + IF verdict = "waste" THEN 1 ELSE 0,
        turns |-> start.turns + 1,
        cycles |-> start.cycles + cycle,
        routed |-> IF replays THEN [start.routed EXCEPT ![k] = @ + 1] ELSE start.routed,
        spent |-> IF replays THEN [start.spent EXCEPT ![k] = @ + cost] ELSE start.spent,
        ledger |-> IF replays THEN start.ledger
                   ELSE Attribute(cfg, k, t, turn, start.retries, failed, cost, start.ledger)]

PlayAt(cfg, replays, start, turn, k, t) ==
    Account(cfg, replays, start, turn, k, t, Verdict(cfg, t, turn, start.retries, replays),
            Cost(t, turn, start.previous, replays))

PlayOn(cfg, replays, start, turn, k) == PlayAt(cfg, replays, start, turn, k, TierAt(cfg, k))

PlayFrom(cfg, replays, start, turn) ==
    PlayOn(cfg, replays, start, turn,
           Selected(cfg, Context(turn, start.position + 1, start.retries)))

PlayTurn(cfg, replays, tally, turn) == PlayFrom(cfg, replays, Opened(tally, turn), turn)

Play(fleet, cfg, replays) ==
    LET Turn(tally, turn) == PlayTurn(cfg, replays, tally, turn)
        Session(tally, session) == FoldLeft(Turn, [tally EXCEPT !.position = 0], session)
        zero == [k \in 1..(Len(cfg.tiers) + 1) |-> 0]
    IN FoldLeft(Session, [NoTally EXCEPT !.routed = zero, !.spent = zero], fleet)

Replay(fleet, cfg) == Play(fleet, cfg, TRUE)

-----------------------------------------------------------------------------
\* Static defects of the ladder: a tier one falls back to that is no better
\* than the one before it.
EscalatesOver(t, p) ==
    /\ p.limits.retryBound > 0
    /\ \/ t.limits.retryFloor >= p.limits.retryBound
       \/ t.limits.retryBound > p.limits.retryBound
       \/ t.limits.retryBound = 0

Predecessors(cfg, k) ==
    {j \in 1..(k - 1) : /\ ~cfg.tiers[j].disabled /\ ~Lateral(cfg.tiers[j])
                        /\ EscalatesOver(cfg.tiers[k], cfg.tiers[j])}

SameModelInverts(t, p) ==
    ~(t.effort # p.effort /\ TierCoding(t) > TierCoding(p))

InvertsTier(t, p) ==
    IF t.model # "" /\ t.model = p.model THEN SameModelInverts(t, p)
    ELSE /\ TierCoding(p) > 0 /\ TierCoding(t) > 0
         /\ ~Frontier(t) /\ TierCoding(t) < TierCoding(p)

\* The step a tier is escalated to from, as a set of at most one.
EscalationFrom(cfg, k) ==
    {cfg.tiers[j] : j \in {i \in Predecessors(cfg, k) : \A h \in Predecessors(cfg, k) : h <= i}}

\* The default tier is measured against the best of the ladder.
Cascading(cfg) ==
    {j \in DOMAIN cfg.tiers : /\ ~cfg.tiers[j].disabled /\ ~Lateral(cfg.tiers[j])
                              /\ cfg.tiers[j].limits.retryFloor = 0}

HighestOf(cfg, cascading) ==
    {cfg.tiers[j] : j \in {i \in cascading : \A h \in cascading :
        /\ TierCoding(cfg.tiers[h]) <= TierCoding(cfg.tiers[i])
        /\ h < i => TierCoding(cfg.tiers[h]) < TierCoding(cfg.tiers[i])}}

HighestPredecessor(cfg) == HighestOf(cfg, Cascading(cfg))

InvertsDefault(d, p) ==
    IF d.model # "" /\ d.model = p.model /\ (p.effort # "" \/ d.effort # "")
    THEN SameModelInverts(d, p)
    ELSE TierCoding(d) < TierCoding(p)

Inversions(cfg) ==
    {k \in DOMAIN cfg.tiers : ~cfg.tiers[k].disabled /\ \E p \in EscalationFrom(cfg, k) :
                                                          InvertsTier(cfg.tiers[k], p)}
      \cup {k \in {Len(cfg.tiers) + 1} :
              /\ ~Frontier(cfg.default) /\ TierCoding(cfg.default) > 0
              /\ \E p \in HighestPredecessor(cfg) : InvertsDefault(cfg.default, p)}

-----------------------------------------------------------------------------
\* A threshold within the hardware's context, and thresholds that do not fall
\* along the cascade.
Bounding(t) == ~t.disabled /\ t.limits.threshold > 0

Constrained(cfg) ==
    \A k \in DOMAIN cfg.tiers : Bounding(cfg.tiers[k]) =>
         /\ cfg.tiers[k].maxContext > 0 =>
              cfg.tiers[k].limits.threshold <= cfg.tiers[k].maxContext
         /\ \A j \in 1..(k - 1) : Bounding(cfg.tiers[j]) =>
              cfg.tiers[j].limits.threshold <= cfg.tiers[k].limits.threshold

Weigh(tally, cfg) ==
    tally.cost + RetryPenalty * tally.wasted + TurnPenalty * tally.turns
      + CyclePenalty * tally.cycles + DominancePenalty * Cardinality(Inversions(cfg))

\* C(X) as candidates are judged, and as the current state is reported.
Conflict(fleet, cfg) ==
    IF Constrained(cfg) THEN Weigh(Replay(fleet, cfg), cfg) ELSE Infinite

Reported(cfg, tally, inversions) ==
    LET Dominated(ledger, k) == Charge(ledger, {<<k, "model">>}, DominancePenalty * LedgerScale)
    IN [total |-> Weigh(tally, cfg),
        ledger |-> FoldLeft(Dominated, tally.ledger, SetToSeq(inversions))]

Report(fleet, cfg) ==
    IF Constrained(cfg) THEN Reported(cfg, Play(fleet, cfg, FALSE), Inversions(cfg))
    ELSE [total |-> Infinite, ledger |-> <<>>]
=============================================================================
