-------------------------- MODULE CuratedCandidates --------------------------
(* Which models may be recommended in place of another: the curated           *)
(* catalogue's candidates for a role on a platform, cut down to the best      *)
(* trades of price for coding index (pkg/telemetry/curation/manager.go), and  *)
(* the catalogue's answers about one model.  Coding indices in hundredths,    *)
(* rates in $0.1 per million tokens, parameters in tenths of a billion.       *)
EXTENDS Integers, Sequences, FiniteSets, SequencesExt, FiniteSetsExt

CONSTANT Catalogue   \* model -> its curated profile

\* Curated profiles carry a coding index.
ASSUME CatalogueAssumption == \A m \in DOMAIN Catalogue : Catalogue[m].coding > 0

\* What each platform's catalogue policy says.
Platforms == {"openrouter", "anthropic", "local", "compatible"}
Recommends(platform) == platform # "compatible"
OpenWeightsOnly(platform) == platform = "local"
BindingRequired(platform) == platform = "anthropic"

Capable == 7000
DefaultRate == 25

Multiplier(effort) ==
    CASE effort = "low" -> 102 [] effort = "medium" -> 106
      [] effort = "high" -> 110 [] effort = "max" -> 114 [] OTHER -> 100

EffectiveCoding(base, effort) == (base * Multiplier(effort)) \div 100

Known(model) == model \in DOMAIN Catalogue
Benchmark(model) == IF Known(model) THEN Catalogue[model].coding ELSE Capable
IsFrontierModel(model) == Known(model) /\ Catalogue[model].frontier
BlendedRate(prompt, completion) == prompt + completion \div 4

\* Prices for a model the platform runs itself are nil; a model without a price
\* in the catalogue is taken to cost the standard rate.
ModelRates(platform, model) ==
    IF OpenWeightsOnly(platform) THEN [prompt |-> 0, completion |-> 0, rate |-> 0]
    ELSE IF Known(model) /\ Catalogue[model].prompt > 0
    THEN [prompt |-> Catalogue[model].prompt, completion |-> Catalogue[model].completion,
          rate |-> BlendedRate(Catalogue[model].prompt, Catalogue[model].completion)]
    ELSE [prompt |-> DefaultRate, completion |-> 4 * DefaultRate, rate |-> 2 * DefaultRate]

\* The model can be named on the platform.
Formattable(platform, model) ==
    /\ Recommends(platform)
    /\ Known(model) =>
         /\ OpenWeightsOnly(platform) => Catalogue[model].open
         /\ BindingRequired(platform) =>
              platform \in Catalogue[model].on /\ ~Catalogue[model].estimated
    /\ ~Known(model) => ~BindingRequired(platform)

InRole(p, role) ==
    /\ role = "vision" => "HasImages" \in p.supports \/ p.role = "vision"
    /\ role = "coding" => p.role = "coding" \/ p.coding >= 6500

PlatformCandidates(role, platform) ==
    {m \in DOMAIN Catalogue :
        /\ ~Catalogue[m].estimated
        /\ IF OpenWeightsOnly(platform) THEN Catalogue[m].open ELSE Catalogue[m].coding > 0
        /\ BindingRequired(platform) => platform \in Catalogue[m].on
        /\ InRole(Catalogue[m], role)}

\* What fits the graphics memory, or failing that what is no larger than now.
ParameterCeiling(current, vram) ==
    IF vram > 0
    THEN IF vram <= 8 THEN 80 ELSE IF vram <= 12 THEN 145 ELSE IF vram <= 16 THEN 165
         ELSE IF vram <= 24 THEN 330 ELSE IF vram <= 48 THEN 720 ELSE 10000
    ELSE IF Known(current) /\ Catalogue[current].params > 0 THEN Catalogue[current].params ELSE 80

BestFirst(m, n) ==
    \/ Catalogue[m].coding > Catalogue[n].coding
    \/ /\ Catalogue[m].coding = Catalogue[n].coding
       /\ Catalogue[m].reliability > Catalogue[n].reliability

\* The best of each size class, five at most.
SizeClass(m) == Catalogue[m].params \div 10

BestOfClass(fitting) ==
    {m \in fitting : ~ \E n \in fitting :
        n # m /\ SizeClass(n) = SizeClass(m) /\ BestFirst(n, m)}

FirstFive(ordered) == SubSeq(ordered, 1, Min({5, Len(ordered)}))

LocalCandidates(candidates, ceiling) ==
    LET fitting == {m \in candidates : Catalogue[m].params > 0 /\ Catalogue[m].params <= ceiling}
    IN FirstFive(SetToSortSeq(BestOfClass(fitting), BestFirst))

RateOf(m) == BlendedRate(Catalogue[m].prompt, Catalogue[m].completion)

Dominates(n, m) ==
    /\ RateOf(n) <= RateOf(m) /\ Catalogue[n].coding >= Catalogue[m].coding
    /\ RateOf(n) < RateOf(m) \/ Catalogue[n].coding > Catalogue[m].coding

CheapestFirst(m, n) ==
    \/ RateOf(m) < RateOf(n)
    \/ RateOf(m) = RateOf(n) /\ Catalogue[m].coding < Catalogue[n].coding

\* The price and quality frontier, less what would cost five points of quality.
Undominated(candidates) == {m \in candidates : ~ \E n \in candidates : Dominates(n, m)}

CloseEnough(frontier, current) ==
    LET good == {m \in frontier : Known(current) /\ Catalogue[current].coding > 0 =>
                    Catalogue[m].coding >= Catalogue[current].coding - 500}
    IN IF good = {} THEN frontier ELSE good

CloudCandidates(candidates, current) ==
    SetToSortSeq(CloseEnough(Undominated(candidates), current), CheapestFirst)

ParetoCandidates(role, platform, current, vram) ==
    LET candidates == PlatformCandidates(role, platform)
    IN IF ~Recommends(platform) THEN <<>>
       ELSE IF OpenWeightsOnly(platform)
       THEN LocalCandidates(candidates, ParameterCeiling(current, vram))
       ELSE CloudCandidates(candidates, current)
=============================================================================
