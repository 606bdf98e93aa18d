---------------------------- MODULE MinConflicts ----------------------------
(* The tuner's search (pkg/tuner/min_conflicts.go): blame a variable of the   *)
(* cascade, repair it by the candidate of least conflict, stop when nothing   *)
(* helps; then one sweep for cheaper models, the rules of the best cascade    *)
(* written back (ast_rewriter.go), and the result applied to the              *)
(* configuration (applier.go).                                                *)
EXTENDS FleetReplay

CONSTANTS Scenes,        \* configurations with the traffic recorded under them
          MaxIterations

VARIABLES scene, phase, current, best, bestConflict, baseline, tabu, banned,
          iteration, stagnant, lastBest, swept, evalBuf, result, config

tabuVars == <<tabu, banned>>
progress == <<iteration, stagnant, lastBest>>
vars == <<scene, phase, current, best, bestConflict, baseline, tabuVars, progress,
          swept, evalBuf, result, config>>

TabuSize == 10
MaxStagnations == 10
Tie == 1000
TokenCandidateValues == <<1, 2, 4, 8, 12, 16, 20, 24, 32, 64>>
RetryCandidateValues == <<1, 2, 3, 4, 5, 6>>
DefaultThreshold == 16
ContextFloor == 32
NoResult == [failed |-> FALSE, tiers |-> <<>>, default |-> {}]

Each(s, Op(_)) == [i \in DOMAIN s |-> Op(s[i])]

-----------------------------------------------------------------------------
(* The configuration as the search sees it.                                   *)

Reliability(model) == IF Known(model) THEN Catalogue[model].reliability ELSE 8000
Capabilities(model) == IF Known(model) THEN Catalogue[model].supports ELSE {"HasTools"}

\* Local tiers without a bound of their own are given one.
TierLimits(c) ==
    LET read == Limits!Extract(c.rule)
        capped == IF c.maxContext > 0 THEN Min({DefaultThreshold, c.maxContext})
                  ELSE DefaultThreshold
    IN [read EXCEPT !.threshold = IF @ = 0 /\ c.local THEN capped ELSE @,
                    !.retryBound = IF @ = 0 /\ c.local THEN 2 ELSE @]

TierState(c, limits) ==
    LET rates == ModelRates(c.platform, c.model)
    IN [model |-> c.model, effort |-> c.effort, platform |-> c.platform, local |-> c.local,
        disabled |-> c.rule = Limits!Never, frontier |-> IsFrontierModel(c.model),
        coding |-> EffectiveCoding(Benchmark(c.model), c.effort),
        reliability |-> Reliability(c.model), maxContext |-> c.maxContext,
        prompt |-> rates.prompt, completion |-> rates.completion, rate |-> rates.rate,
        supports |-> (Capabilities(c.model) \cup c.grants \cup (Modalities \cap limits.requires))
                        \ c.strips,
        limits |-> limits]

ExtractRoutingState(c) ==
    LET State(tier) == TierState(tier, TierLimits(tier))
    IN [tiers |-> Each(c.tiers, State), default |-> TierState(c.default, Limits!NoLimits),
        writeOnly |-> c.writeOnly, vram |-> c.vram]

\* What tabu memory tells candidates apart by.
HashState(cfg) ==
    LET Hash(t) == <<t.disabled, t.model, t.effort, t.limits>>
    IN <<Each(cfg.tiers, Hash), cfg.default.model, cfg.default.effort>>

-----------------------------------------------------------------------------
(* How each model healed itself in the recorded traffic.                      *)

Progressed(turn) ==
    \/ turn.flags \cap {"HasWriteProgress", "HasTestPass"} # {}
    \/ turn.flags \cap {"IsRetry", "Upstream"} = {}

Failures(model) ==
    {f \in (DOMAIN scene.fleet) \X (1..10) :
        /\ f[2] \in DOMAIN scene.fleet[f[1]]
        /\ scene.fleet[f[1]][f[2]].model = model
        /\ "IsRetry" \in scene.fleet[f[1]][f[2]].flags}

\* Turns until the model made progress itself; 0 if another stepped in first.
TurnsToRecover(model, f) ==
    LET turns == scene.fleet[f[1]]
        ends == {j \in (f[2] + 1)..Len(turns) : turns[j].model # model \/ Progressed(turns[j])}
    IN IF ends = {} \/ turns[Min(ends \cup {Len(turns)})].model # model THEN 0
       ELSE Min(ends) - f[2]

RetryValues(model) ==
    LET recovered == {f \in Failures(model) : TurnsToRecover(model, f) > 0}
        elapsed == MapThenSumSet(LAMBDA f : TurnsToRecover(model, f), recovered)
    IN IF Failures(model) = {} THEN RetryCandidateValues
       ELSE IF 5 * Cardinality(recovered) < Cardinality(Failures(model)) THEN <<1, 2>>
       ELSE IF elapsed <= 2 * Cardinality(recovered) THEN <<2, 3, 4>> ELSE <<3, 4, 6>>

-----------------------------------------------------------------------------
(* Candidate models for a tier and what disqualifies one                      *)
(* (pkg/tuner/candidate_matcher.go).                                          *)

Profile(m) ==
    LET p == Catalogue[m]
    IN [model |-> m, coding |-> p.coding, reliability |-> p.reliability,
        prompt |-> p.prompt, completion |-> p.completion,
        rate |-> BlendedRate(p.prompt, p.completion), context |-> 0,
        supports |-> p.supports, open |-> p.open, frontier |-> p.frontier]

\* Deals come first; a curated model they already name is not repeated.
CollectCandidateModels(role, t) ==
    LET deals == IF OpenWeightsOnly(t.platform) \/ BindingRequired(t.platform)
                 THEN <<>> ELSE scene.deals
        curated == ParetoCandidates(role, t.platform, t.model, scene.vram)
        New(m) == \A k \in DOMAIN deals : deals[k].model # m
        Other(c) == c.model # t.model
    IN IF Recommends(t.platform)
       THEN SelectSeq(deals \o Each(SelectSeq(curated, New), Profile), Other) ELSE <<>>

\* What no escalation excuses: the platform cannot run it, or a local tier
\* would leave the machine.
Barred(t, c) == ~Formattable(t.platform, c.model) \/ (t.local /\ ~c.open)

OriginalRate(t) == IF t.rate > 0 THEN t.rate ELSE ModelRates(t.platform, t.model).rate

ContextParity(t, c) ==
    c.context > 0 =>
        c.context >= IF t.limits.threshold > 0 THEN t.limits.threshold ELSE ContextFloor

ModalityKept(t, c) ==
    /\ "HasTools" \in t.supports => "HasTools" \in c.supports
    /\ "HasImages" \in t.limits.requires => "HasImages" \in c.supports

CognitiveParity(t, c) == EffectiveCoding(c.coding, t.effort) >= t.coding - 50

\* before and after are the neighbours' states, as sets of at most one.
DominanceOrder(t, c, before, after) ==
    /\ \A p \in before : c.model # p.model /\ EffectiveCoding(c.coding, t.effort) >= p.coding
    /\ \A s \in after : EffectiveCoding(c.coding, t.effort) <= s.coding

CostReduction(t, c) ==
    LET original == OriginalRate(t) IN original > 0 => 5 * (original - c.rate) >= original

Qualifies(t, c, before, after) ==
    /\ ContextParity(t, c) /\ ModalityKept(t, c) /\ CognitiveParity(t, c)
    /\ DominanceOrder(t, c, before, after) /\ CostReduction(t, c)

\* Quality for the price.
Score(t, coding, rate) ==
    LET original == OriginalRate(t)
        scaled == EffectiveCoding(coding, t.effort)
    IN IF original > rate THEN scaled * (2 * original - rate)
       ELSE scaled * Max({1, original})

-----------------------------------------------------------------------------
(* The cascade around a tier.                                                 *)

InLadder(t) == ~t.disabled /\ ~Lateral(t)

Before(cfg, k) ==
    LET js == {j \in 1..(k - 1) : InLadder(cfg.tiers[j])}
    IN IF js = {} THEN {} ELSE {cfg.tiers[Max(js)]}

After(cfg, k) ==
    LET js == {j \in (k + 1)..Len(cfg.tiers) : InLadder(cfg.tiers[j])}
    IN IF js = {} THEN {} ELSE {cfg.tiers[Min(js)]}

\* Mutant: a neighbour without an effort of its own does not count.
ReasoningChainOfEfforts(t, neighbours) ==
    \E n \in neighbours : n.model = t.model /\ n.effort # t.effort /\ "" \notin {t.effort, n.effort}

\* A step of one model's own ladder of efforts, which shares its prompt cache.
ReasoningChain(t, neighbours) ==
    \E n \in neighbours : n.model = t.model /\ n.effort # t.effort /\ t.effort # ""

EscalationTier(cfg, k) ==
    /\ ~Lateral(cfg.tiers[k])
    /\ \/ cfg.tiers[k].limits.retryFloor > 0
       \/ \E p \in EscalationFrom(cfg, k) : p.coding >= Capable

ResolveTierRole(t, escalation) ==
    IF "HasImages" \in t.limits.requires \/ t.supports = {"HasImages"} THEN "vision"
    ELSE IF Frontier(t) \/ escalation THEN "general" ELSE "coding"

WithTier(cfg, k, t) ==
    IF k <= Len(cfg.tiers) THEN [cfg EXCEPT !.tiers[k] = t] ELSE [cfg EXCEPT !.default = t]

WithReasoningEffort(cfg, k, effort) ==
    LET t == TierAt(cfg, k)
    IN WithTier(cfg, k, [t EXCEPT !.effort = effort,
                                  !.coding = EffectiveCoding(Benchmark(t.model), effort)])

\* A new model starts without an effort, and keeps a local tier free.
WithCandidateModel(cfg, k, c) ==
    LET t == TierAt(cfg, k)
        effort == IF c.model = t.model THEN t.effort ELSE ""
    IN WithTier(cfg, k,
         [t EXCEPT !.model = c.model, !.effort = effort,
                   !.coding = EffectiveCoding(c.coding, effort),
                   !.reliability = c.reliability, !.frontier = c.frontier,
                   !.supports = c.supports \cup Capabilities(c.model),
                   !.prompt = IF t.local THEN 0 ELSE c.prompt,
                   !.completion = IF t.local THEN 0 ELSE c.completion,
                   !.rate = IF t.local THEN 0 ELSE c.rate])

GetHigherReasoningEfforts(effort) ==
    CASE effort = "low" -> <<"medium", "high", "max">> [] effort = "medium" -> <<"high", "max">>
      [] effort = "high" -> <<"max">> [] OTHER -> <<>>

-----------------------------------------------------------------------------
(* Repair moves.  A move is a cascade and, for a substitution, the model that *)
(* is put in; a seek is the least conflict found so far and its cascade.      *)

Banned(cfg, value) == HashState(cfg) \in banned /\ value >= bestConflict

\* Only a local tier's token cliff is moved, within its hardware's context.
TokenMoves(k) ==
    LET t == current.tiers[k]
        Fits(n) == t.maxContext = 0 \/ n <= t.maxContext
        With(n) == [current EXCEPT !.tiers[k].limits.threshold = n]
    IN IF t.local THEN Each(SelectSeq(TokenCandidateValues, Fits), With) ELSE <<>>

RetryMoves(k) ==
    LET With(n) == [current EXCEPT !.tiers[k].limits.retryBound = n]
    IN IF current.tiers[k].limits.messageMax > 0 THEN <<>>
       ELSE Each(RetryValues(current.tiers[k].model), With)

GateMoves(k, flag) ==
    <<[current EXCEPT !.tiers[k].limits.prohibits = @ \cup {flag}],
      [current EXCEPT !.tiers[k].limits.prohibits = @ \ {flag}]>>

KeywordMoves(keyword) ==
    LET Plain(k) == current.tiers[k].local /\ ~Lateral(current.tiers[k])
        With(k) == [current EXCEPT !.tiers[k].limits.keywords = @ \cup {keyword}]
    IN Each(SelectSeq([k \in DOMAIN current.tiers |-> k], Plain), With)

PruneMoves(k) ==
    IF EscalationTier(current, k) /\ 1 < k /\ k < Len(current.tiers)
    THEN <<[current EXCEPT !.tiers[k].disabled = TRUE, !.tiers[k].model = ""]>> ELSE <<>>

\* Efforts are tried upwards; the first that leaves no inversion ends the repair.
EffortMoves(k) ==
    LET With(effort) == WithReasoningEffort(current, k, effort)
    IN Each(GetHigherReasoningEfforts(TierAt(current, k).effort), With)

Resolving(moves) ==
    IF Inversions(current) = {} THEN {} ELSE {i \in DOMAIN moves : Inversions(moves[i]) = {}}

UpTo(moves, resolving) ==
    [moves |-> IF resolving = {} THEN moves ELSE SubSeq(moves, 1, Min(resolving)),
     ends |-> resolving # {}]

ClimbMoves(moves) == UpTo(moves, Resolving(moves))

\* Mutant: only the class of the candidate is looked at.
FrontierProtectedByClass(t, c) == Frontier(t) => c.frontier \/ c.coding >= 8000

\* A frontier tier is never handed to a lesser model.
FrontierProtected(t, c) ==
    Frontier(t) => /\ c.frontier \/ c.coding >= 8000
                   /\ c.coding >= t.coding
                   /\ c.reliability >= t.reliability

\* Filters other than the barring ones yield to an upgrade of an escalation tier.
Admissible(t, c, from, after, escalation) ==
    /\ \A p \in from : c.model # p.model
    /\ ~Barred(t, c)
    /\ \/ Qualifies(t, c, from, after)
       \/ escalation /\ \E p \in from : c.frontier \/ 100 * c.coding >= 105 * p.coding
    /\ FrontierProtected(t, c)

\* Near-equal conflicts are decided by quality for the price.
BreaksTie(t, b, c, gap) ==
    /\ -Tie < gap /\ gap < Tie /\ ~b.disabled
    /\ Score(t, c.coding, c.rate)
         > Score(t, b.coding, IF b.rate > 0 THEN b.rate ELSE BlendedRate(b.prompt, b.completion))

\* Mutant: the last move wins.
KeepLast(k, seek, move) ==
    IF move.value = Infinite \/ Banned(move.cfg, move.value) THEN seek
    ELSE [value |-> move.value, cfg |-> move.cfg]

KeepBetter(k, seek, move) ==
    IF /\ move.value # Infinite /\ ~Banned(move.cfg, move.value)
       /\ \/ move.value < seek.value
          \/ \E c \in move.deal :
                BreaksTie(current.tiers[k], seek.cfg.tiers[k], c, move.value - seek.value)
    THEN [value |-> move.value, cfg |-> move.cfg] ELSE seek

Judged(moves) ==
    LET Judge(move) == [value |-> Conflict(scene.fleet, move.cfg)] @@ move
    IN Each(moves, Judge)

Explore(k, seek, judged) ==
    LET Try(found, move) == KeepBetter(k, found, move) IN FoldLeft(Try, seek, judged)

Plain(cfgs) ==
    LET Move(cfg) == [cfg |-> cfg, deal |-> {}] IN Each(cfgs, Move)

Substitutes(k, candidates) ==
    LET Move(c) == [cfg |-> WithCandidateModel(current, k, c), deal |-> {c}]
    IN Each(candidates, Move)

ModelCandidates(t, k, from, after, escalation) ==
    LET Fit(c) == Admissible(t, c, from, after, escalation)
    IN SelectSeq(CollectCandidateModels(ResolveTierRole(t, escalation), t), Fit)

ClimbOrSubstitute(k, climb, from) ==
    Plain(PruneMoves(k) \o climb.moves)
      \o IF climb.ends THEN <<>>
         ELSE Substitutes(k, ModelCandidates(current.tiers[k], k, from, After(current, k),
                                             EscalationTier(current, k)))

\* Mutant: the step below is not looked at.
ModelMovesFromAbove(k, climb) ==
    IF \/ current.tiers[k].local /\ scene.vram = 0
       \/ ReasoningChain(current.tiers[k], EscalationFrom(current, k) \cup Before(current, k))
    THEN <<>>
    ELSE ClimbOrSubstitute(k, climb, EscalationFrom(current, k))

ModelMoves(k, climb) ==
    IF \/ current.tiers[k].local /\ scene.vram = 0
       \/ ReasoningChain(current.tiers[k], EscalationFrom(current, k) \cup Before(current, k)
                                             \cup After(current, k))
    THEN <<>>
    ELSE ClimbOrSubstitute(k, climb, EscalationFrom(current, k))

\* The default tier takes no model below the best of the cascade it backs.
DefaultAdmissible(d, c, highest, utility) ==
    /\ c.model # d.model /\ Formattable(d.platform, c.model)
    /\ \A p \in highest : /\ c.coding >= TierCoding(p)
                          /\ c.model \in utility => c.coding > TierCoding(p)
    /\ IF d.frontier \/ IsFrontierModel(scene.default.model)
       THEN FrontierProtected([d EXCEPT !.frontier = TRUE], c)
       ELSE "HasTools" \in c.supports /\ c.reliability >= 3000

DefaultCandidates(d, highest) ==
    LET utility == {t.model : t \in {u \in ToSet(current.tiers) : ~u.disabled /\ Lateral(u)}}
        Fit(c) == DefaultAdmissible(d, c, highest, utility)
    IN SelectSeq(Each(ParetoCandidates("general", d.platform, d.model, scene.vram), Profile), Fit)

DefaultMoves(k, climb) ==
    LET With(c) == WithCandidateModel(current, k, c)
    IN Plain(climb.moves \o
         IF climb.ends THEN <<>>
         ELSE Each(DefaultCandidates(current.default, HighestPredecessor(current)), With))

RepairModelMoves(k, climb) ==
    IF k > Len(current.tiers) THEN DefaultMoves(k, climb) ELSE ModelMoves(k, climb)

RepairMoves(k, attribute) ==
    IF k = 0 THEN Plain(KeywordMoves(attribute))
    ELSE IF TierAt(current, k).disabled THEN <<>>
    ELSE CASE attribute = "tokens" -> Plain(TokenMoves(k))
           [] attribute = "retries" -> Plain(RetryMoves(k))
           [] attribute = "tools" -> Plain(GateMoves(k, "HasTools"))
           [] attribute = "images" -> Plain(GateMoves(k, "HasImages"))
           [] attribute = "model" -> RepairModelMoves(k, ClimbMoves(EffortMoves(k)))

DispatchRepairMove(order) ==
    [i \in DOMAIN order |-> Judged(RepairMoves(order[i][1], order[i][2]))]

-----------------------------------------------------------------------------
(* The search.                                                                *)

AttributeRank == [images |-> 1, model |-> 2, retries |-> 3, tokens |-> 4, tools |-> 5]

LexicographicallyBefore(a, b) ==
    \E i \in DOMAIN a : a[i] < b[i] /\ \A j \in 1..(i - 1) : a[j] = b[j]

\* Most conflict first, then by name: default_tier, keyword, tier_0, ...
RankedVariables(ledger) ==
    LET Place(v) == IF v[1] > Len(current.tiers) THEN -1 ELSE v[1]
        Named(v) == IF v[2] \in DOMAIN AttributeRank THEN AttributeRank[v[2]] ELSE 0
        Key(v) == <<-ledger[v], Place(v), Named(v)>>
        Worse(v, u) == LexicographicallyBefore(Key(v), Key(u))
    IN SetToSortSeq({v \in DOMAIN ledger : ledger[v] > 0}, Worse)

Calm(total) ==
    baseline > 0 /\ Max({lastBest - total, total - lastBest}) <= (baseline - 1) \div 1000

Settled(report) ==
    \/ iteration = MaxIterations
    \/ report.total = 0
    \/ Calm(report.total) /\ stagnant + 1 >= MaxStagnations
    \/ \A v \in DOMAIN report.ledger : report.ledger[v] = 0

\* Now and then another variable than the worst is repaired first.
Swaps(s) == {[s EXCEPT ![1] = s[i], ![i] = s[1]] : i \in DOMAIN s}

\* The first variable whose repair lowers the conflict decides the round.
RepairRound(total, order, judged) ==
    LET Attempt(seek, i) ==
          IF seek.value < total THEN seek ELSE Explore(order[i][1], seek, judged[i])
    IN FoldLeftDomain(Attempt, [value |-> total, cfg |-> current], order)

\* Mutant: the oldest hash leaves the queue but not the set.
PushOnly(h) ==
    /\ tabu' = Append(IF Len(tabu) >= TabuSize THEN Tail(tabu) ELSE tabu, h)
    /\ banned' = banned \cup {h}

Push(h) ==
    LET full == Len(tabu) >= TabuSize
    IN /\ tabu' = Append(IF full THEN Tail(tabu) ELSE tabu, h)
       /\ banned' = (IF full THEN banned \ {tabu[1]} ELSE banned) \cup {h}

\* Mutant: the cascade the round started from is kept as the best.
AdoptPrevious(found) ==
    IF found.value < bestConflict THEN best' = current /\ bestConflict' = found.value
    ELSE UNCHANGED <<best, bestConflict>>

Adopt(found) ==
    IF found.value < bestConflict THEN best' = found.cfg /\ bestConflict' = found.value
    ELSE UNCHANGED <<best, bestConflict>>

Init ==
    /\ scene \in Scenes
    /\ phase = "start" /\ config = [tiers |-> scene.tiers, default |-> scene.default]
    /\ current = ExtractRoutingState(scene) /\ best = current
    /\ baseline = 0 /\ bestConflict = 0 /\ lastBest = 0
    /\ tabu = <<>> /\ banned = {} /\ iteration = 0 /\ stagnant = 0
    /\ swept = 0 /\ evalBuf = NoTally /\ result = NoResult

Begin ==
    /\ phase = "start" /\ scene.fleet # <<>>
    /\ baseline' = Conflict(scene.fleet, current)
    /\ bestConflict' = baseline' /\ lastBest' = baseline' /\ phase' = "search"
    /\ UNCHANGED <<scene, current, best, tabuVars, iteration, stagnant, swept, evalBuf,
                   result, config>>

Take(total, found, calm) ==
    /\ current' = found.cfg
    /\ Push(HashState(found.cfg))
    /\ Adopt(found)
    /\ stagnant' = IF found.value < bestConflict \/ ~calm THEN 0 ELSE stagnant + 1
    /\ lastBest' = IF calm THEN lastBest ELSE total

RepairReported(report) ==
    /\ ~Settled(report)
    /\ \E order \in Swaps(RankedVariables(report.ledger)) :
         Take(report.total, RepairRound(report.total, order, DispatchRepairMove(order)), Calm(report.total))

Repair ==
    /\ phase = "search" /\ RepairReported(Report(scene.fleet, current))
    /\ iteration' = iteration + 1
    /\ UNCHANGED <<scene, phase, baseline, swept, evalBuf, result, config>>

Converge ==
    /\ phase = "search" /\ Settled(Report(scene.fleet, current))
    /\ phase' = "sweep" /\ evalBuf' = Replay(scene.fleet, best)
    /\ UNCHANGED <<scene, current, best, bestConflict, baseline, tabuVars, progress, swept,
                   result, config>>

-----------------------------------------------------------------------------
(* The sweep for cheaper models.  It reads the spend of each tier from the    *)
(* buffer the last evaluation filled, whichever cascade that was of.          *)

\* Mutant: the sweep does not look at the step below.
ReplaceableFromAbove(t, k) ==
    /\ ~t.disabled /\ ~t.local /\ t.model # "" /\ ~t.frontier
    /\ evalBuf.routed[k] > 0 /\ evalBuf.spent[k] >= MinCloudSpend
    /\ ~ReasoningChain(t, Before(best, k))

Replaceable(t, k) ==
    /\ ~t.disabled /\ ~t.local /\ t.model # "" /\ ~t.frontier
    /\ evalBuf.routed[k] > 0 /\ evalBuf.spent[k] >= MinCloudSpend
    /\ ~ReasoningChain(t, Before(best, k) \cup After(best, k))

Scored(t, candidates) ==
    [i \in DOMAIN candidates |-> [model |-> candidates[i],
                                  score |-> Score(t, candidates[i].coding, candidates[i].rate)]]

\* The first of the best.
TopScore(scored) ==
    {scored[i].model : i \in {j \in DOMAIN scored :
        \A h \in DOMAIN scored : /\ scored[h].score <= scored[j].score
                                 /\ h < j => scored[h].score < scored[j].score}}

BestReplacement(t, before, after) ==
    LET Fit(c) == ~Barred(t, c) /\ Qualifies(t, c, before, after)
    IN TopScore(Scored(t, SelectSeq(CollectCandidateModels(ResolveTierRole(t, FALSE), t), Fit)))

Replacements(t, k) ==
    IF Replaceable(t, k)
    THEN {WithCandidateModel(best, k, c) : c \in BestReplacement(t, Before(best, k), After(best, k))}
    ELSE {}

Accept(cfg, replay, value) ==
    /\ evalBuf' = replay
    /\ best' = IF value <= bestConflict THEN cfg ELSE best
    /\ bestConflict' = IF value <= bestConflict THEN value ELSE bestConflict

EvalReplacement(cfg, replay) == Accept(cfg, replay, Weigh(replay, cfg))

TryReplacements(cfgs) ==
    IF cfgs = {} THEN UNCHANGED <<best, bestConflict, evalBuf>>
    ELSE \E cfg \in cfgs : EvalReplacement(cfg, Replay(scene.fleet, cfg))

SweepTier ==
    /\ phase = "sweep" /\ swept < Len(best.tiers)
    /\ swept' = swept + 1
    /\ TryReplacements({cfg \in Replacements(best.tiers[swept + 1], swept + 1) : Constrained(cfg)})
    /\ UNCHANGED <<scene, phase, current, baseline, tabuVars, progress, result, config>>

-----------------------------------------------------------------------------
(* The rules of the best cascade.                                             *)

\* A tier no replayed turn reached keeps the rule it had; a new model that lost
\* a modality is gated against it.
SettledLimits(t, original, routed) ==
    LET o == original.limits
        Lost(missing) == [t.limits EXCEPT !.prohibits = @ \cup (missing \ t.limits.requires)]
        lost == IF t.model = original.model THEN t.limits
                ELSE Lost((Modalities \cap original.supports) \ t.supports)
    IN IF t.disabled THEN [t.limits EXCEPT !.threshold = 0, !.retryBound = 0]
       ELSE IF routed = 0 THEN o
       ELSE IF lost = o \/ t.model = "" THEN lost
       ELSE Lost(Modalities \ t.supports)

TierRuleOf(t, tier, limits, kept) ==
    [limits |-> limits, disabled |-> t.disabled, original |-> tier.rule,
     rule |-> IF t.disabled THEN Limits!Never
              ELSE IF kept THEN tier.rule ELSE Limits!RewriteRule(tier.rule, limits),
     written |-> t.disabled \/ kept \/ Limits!Rewritable(tier.rule, limits),
     model |-> IF t.disabled /\ tier.rule # Limits!Never THEN tier.model ELSE t.model,
     effort |-> t.effort]

TierRule(t, original, tier, routed, limits) ==
    TierRuleOf(t, tier, limits, ~t.disabled /\ (routed = 0 \/ limits = original.limits))

SynthesizeTierRule(t, original, tier, routed) ==
    TierRule(t, original, tier, routed, SettledLimits(t, original, routed))

\* The default tier is only mentioned when it changes.
BuildDefaultTierResult ==
    LET d == best.default
        o == scene.default
    IN IF (d.model # "" /\ d.model # o.model) \/ (d.effort # "" /\ d.effort # o.effort)
       THEN {[model |-> d.model, effort |-> d.effort]} ELSE {}

\* Without fewer retries, savings, fewer inversions or a pruned tier the rules
\* stay as they were, and without a new model or effort so does all else.
Idle(tiers, original, before, final) ==
    LET settled == [best EXCEPT !.tiers =
                      [k \in DOMAIN @ |-> [@[k] EXCEPT !.limits = tiers[k].limits]]]
    IN /\ before.wasted <= final.wasted /\ before.cost - final.cost <= 100
       /\ Cardinality(Inversions(original)) <= Cardinality(Inversions(settled))
       /\ \A k \in DOMAIN tiers : tiers[k].disabled => tiers[k].original = Limits!Never

Unchanged(tiers, default) ==
    /\ \A k \in DOMAIN tiers :
         /\ tiers[k].model \in {"", scene.tiers[k].model}
         /\ tiers[k].effort \in {"", scene.tiers[k].effort}
    /\ \A d \in default : d.model = scene.default.model /\ d.effort = scene.default.effort

ApplyRuleInvarianceGuard(tiers, default, idle) ==
    LET Rule(t) == IF t.disabled THEN t ELSE [t EXCEPT !.rule = t.original]
        Whole(k) == [Rule(tiers[k]) EXCEPT !.model = scene.tiers[k].model,
                                           !.effort = scene.tiers[k].effort]
    IN IF ~idle THEN [failed |-> FALSE, tiers |-> tiers, default |-> default]
       ELSE IF Unchanged(tiers, default)
       THEN [failed |-> FALSE, tiers |-> [k \in DOMAIN tiers |-> Whole(k)], default |-> {}]
       ELSE [failed |-> FALSE, tiers |-> Each(tiers, Rule), default |-> default]

Guarded(tiers, original, final) ==
    IF \E k \in DOMAIN tiers : ~tiers[k].written THEN [NoResult EXCEPT !.failed = TRUE]
    ELSE ApplyRuleInvarianceGuard(tiers, BuildDefaultTierResult,
           Idle(tiers, original, Replay(scene.fleet, original), final))

TierRules(original, final) ==
    [k \in DOMAIN best.tiers |-> SynthesizeTierRule(best.tiers[k], original.tiers[k],
                                                    scene.tiers[k], final.routed[k])]

Synthesize(original, final) ==
    /\ evalBuf' = final
    /\ result' = Guarded(TierRules(original, final), original, final)

SynthesizeTuningResult ==
    /\ phase = "sweep" /\ swept = Len(best.tiers)
    /\ Synthesize(ExtractRoutingState(scene), Replay(scene.fleet, best))
    /\ phase' = "done"
    /\ UNCHANGED <<scene, current, best, bestConflict, baseline, tabuVars, progress, swept,
                   config>>

\* Without traffic every tier is still written the default token bound.
HandleEmptyRecords ==
    /\ phase = "start" /\ scene.fleet = <<>>
    /\ LET Bound(t) == IF t.maxContext > 0 THEN Min({DefaultThreshold, t.maxContext})
                       ELSE DefaultThreshold
           Bounded(t) == [Limits!NoLimits EXCEPT !.threshold = Bound(t)]
           Tier(t) == [limits |-> Bounded(t), disabled |-> t.rule = Limits!Never,
                       original |-> t.rule, written |-> TRUE, model |-> t.model,
                       effort |-> "",
                       rule |-> IF t.rule = Limits!Never THEN t.rule
                                ELSE Limits!RewriteRule(t.rule, Bounded(t))]
       IN result' = [NoResult EXCEPT !.tiers = Each(scene.tiers, Tier)]
    /\ phase' = "done"
    /\ UNCHANGED <<scene, current, best, bestConflict, baseline, tabuVars, progress, swept,
                   evalBuf, config>>

\* An effort that was cleared is not applied: empty means unchanged.  Without
\* recorded traffic the command stops before it applies anything.
ApplyTuning ==
    /\ phase = "done" /\ ~result.failed /\ scene.fleet # <<>>
    /\ LET Model(new, old) == IF new = "" THEN old ELSE new
           Tier(k) == [config.tiers[k] EXCEPT
                         !.rule = IF result.tiers[k].rule = Limits!Always THEN @
                                  ELSE result.tiers[k].rule,
                         !.model = Model(result.tiers[k].model, @),
                         !.effort = Model(result.tiers[k].effort, @)]
           Default(d) == [config.default EXCEPT !.model = Model(d.model, @),
                                                !.effort = Model(d.effort, @)]
       IN config' = [tiers |-> [k \in DOMAIN config.tiers |-> Tier(k)],
                     default |-> IF result.default = {} THEN config.default
                                 ELSE Default(CHOOSE d \in result.default : TRUE)]
    /\ phase' = "applied"
    /\ UNCHANGED <<scene, current, best, bestConflict, baseline, tabuVars, progress, swept,
                   evalBuf, result>>

Next == \/ Begin \/ HandleEmptyRecords \/ Repair \/ Converge \/ SweepTier
        \/ SynthesizeTuningResult \/ ApplyTuning

Spec == Init /\ [][Next]_vars /\ WF_vars(Next)

-----------------------------------------------------------------------------
\* Phases, buffers and cascades have their shapes.
SearchTyped ==
    /\ phase \in {"start", "search", "sweep", "done", "applied"}
    /\ DOMAIN current.tiers = DOMAIN scene.tiers /\ DOMAIN best.tiers = DOMAIN scene.tiers
    /\ Len(tabu) <= TabuSize /\ banned \subseteq {tabu[i] : i \in DOMAIN tabu}
    /\ iteration \in 0..MaxIterations /\ swept \in 0..Len(best.tiers)

\* The replay and the attribution of a fleet agree: nothing in it holds retries
\* steady, and no two steps of a cascade share a model.
SameAccounts ==
    \A s \in DOMAIN scene.fleet : \A i \in DOMAIN scene.fleet[s] :
        "HasActiveRepair" \notin scene.fleet[s][i].flags
OneEffort(cfg) ==
    \A k, j \in 1..(Len(cfg.tiers) + 1) :
        TierAt(cfg, k).model = TierAt(cfg, j).model =>
            TierAt(cfg, k).effort = TierAt(cfg, j).effort

\* The conflict remembered as the best is the conflict of the cascade remembered
\* as the best, and no worse than where the search began, through repairs,
\* perturbations and the sweep (min_conflicts.go:412-420, 571-576).  Fleets with
\* an active repair and cascades with an effort ladder are excluded: there the
\* search compares numbers of two different accounts.
BestIsBest ==
    /\ SearchTyped
    /\ phase \in {"search", "sweep"} /\ SameAccounts /\ OneEffort(best) =>
         bestConflict = Conflict(scene.fleet, best) /\ bestConflict <= baseline

\* A repair leaves the fleet no worse than it was, but for near ties: each is
\* decided against the one before it, so every model on offer may add a cent.
CurrentFalls ==
    LET offers == Cardinality(DOMAIN Catalogue) + Len(scene.deals)
    IN phase = "search" /\ SameAccounts /\ OneEffort(current) =>
         Conflict(scene.fleet, current')
             <= Conflict(scene.fleet, current) + Tie * offers * Len(current.tiers)

\* The neighbours tier k of a cascade forms an effort ladder with.
Ladder(cfg, k) ==
    {n \in Before(cfg, k) \cup After(cfg, k) :
        n.model = cfg.tiers[k].model /\ n.effort # cfg.tiers[k].effort}
Same(t, u) == ~u.disabled /\ u.model = t.model /\ u.effort = t.effort

\* Two neighbouring steps of one model's effort ladder, the lower and the upper
\* one, keep model and effort to the end: taking one of them away would shatter
\* the prompt cache they share.
ChainKept ==
    LET original == ExtractRoutingState(scene)
        Step(k) == InLadder(original.tiers[k]) /\ original.tiers[k].effort # ""
    IN \A k \in DOMAIN original.tiers :
         Step(k) /\ (\E n \in Ladder(original, k) : n.effort # "")
             => Same(original.tiers[k], best.tiers[k])

\* A step beside one without an effort of its own is kept while that is there;
\* the code does not protect the other.
StepsKept(cfg, next) ==
    \A k \in DOMAIN cfg.tiers :
        cfg.tiers[k].effort # "" /\ Ladder(cfg, k) # {}
            => Same(cfg.tiers[k], next.tiers[k])
LadderStepsKept ==
    /\ phase = "search" => StepsKept(current, current')
    /\ phase = "sweep" => StepsKept(best, best')

\* No step hands a frontier tier to a model of a lower index.
FrontierKept ==
    \A k \in DOMAIN current.tiers :
        LET t == current.tiers[k]
            new == current'.tiers[k]
        IN Frontier(t) => new.disabled \/ new.coding >= t.coding

\* A local tier stays on the machine, and on the model it has unless the user
\* gave the memory to look for another.
LocalKept ==
    \A k \in DOMAIN best.tiers :
        best.tiers[k].local /\ ~best.tiers[k].disabled =>
            /\ scene.vram = 0 => best.tiers[k].model = scene.tiers[k].model
            /\ best.tiers[k].model # scene.tiers[k].model =>
                 /\ Catalogue[best.tiers[k].model].open
                 /\ Catalogue[best.tiers[k].model].params
                      <= ParameterCeiling(scene.tiers[k].model, scene.vram)

\* Whatever is repaired, nothing is broken for it: no repair makes the fleet
\* worse but for chained ties (min_conflicts.go:399-420, 794-802), no frontier
\* tier is handed to a weaker model, not even by the repair of a failing tier,
\* whose upgrades pass over the other filters (741-771), effort ladders stay
\* whole on both sides (530-537, 676-697), and a local tier stays on the machine
\* (641-645).
RepairsSound ==
    /\ [](ChainKept /\ LocalKept)
    /\ [][CurrentFalls /\ LadderStepsKept /\ FrontierKept]_vars

\* Every tier that is written anew reads back as the limits the search settled
\* on, so that the next tuning starts where this one ended
\* (config_bridge.go:118-233 against ast_rewriter.go:17-104).
AppliedReadsBack ==
    phase = "applied" =>
        \A k \in DOMAIN config.tiers :
            LET t == config.tiers[k]
            IN ~result.tiers[k].disabled /\ t.rule # scene.tiers[k].rule
                 /\ Limits!Conjunctive(t.rule) =>
                      TierLimits(t) = result.tiers[k].limits
=============================================================================
