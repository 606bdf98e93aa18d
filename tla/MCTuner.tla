------------------------------ MODULE MCTuner -------------------------------
(* TLC instances of the tuner: a behaviour searches one scene, or rewrites    *)
(* one rule with the limits some search might ask for.                        *)
EXTENDS MinConflicts

VARIABLES rule, ask, written

\* Model, effort, price and quality as the catalogue has them.
Model(coding, reliability, prompt, supports, role) ==
    [coding |-> coding, reliability |-> reliability, prompt |-> prompt,
     completion |-> 4 * prompt, supports |-> supports, open |-> FALSE, params |-> 0,
     role |-> role, frontier |-> role = "deep", estimated |-> FALSE, on |-> {"openrouter"}]
Open(coding, params) ==
    [Model(coding, 7000, 0, {"HasTools"}, "coding") EXCEPT !.open = TRUE, !.params = params]
Both == {"HasImages", "HasTools"}

MCCatalogue ==
    [small |-> Open(6600, 80), middle |-> Open(7000, 140), large |-> Open(7300, 300),
     giant |-> Open(7400, 700),
     flash |-> Model(7200, 8000, 2, {"HasTools"}, "coding"),
     glm |-> Model(7180, 8000, 10, {"HasTools"}, "coding"),
     mini |-> Model(6950, 7000, 4, {"HasTools"}, "coding"),
     seer |-> Model(6900, 7000, 4, {"HasImages"}, "vision"),
     sonnet |-> Model(8000, 9000, 30, Both, "general"),
     saver |-> Model(8100, 9200, 12, Both, "deep"),
     opus |-> Model(8600, 9500, 50, Both, "deep")]

Below(counter, n) == [atoms |-> <<[is |-> counter, op |-> "<", n |-> n]>>, closed |-> FALSE]
AtLeast(counter, n) == [atoms |-> <<[is |-> counter, op |-> ">=", n |-> n]>>, closed |-> FALSE]
Flag(flag, holds) == [atoms |-> <<[is |-> flag, holds |-> holds]>>, closed |-> FALSE]
Word(among, holds) ==
    [atoms |-> <<[is |-> "Keywords", among |-> among, holds |-> holds]>>, closed |-> FALSE]
Either(a, b) == [atoms |-> a.atoms \o b.atoms, closed |-> FALSE]
InParentheses(a, b) == [atoms |-> a.atoms \o b.atoms, closed |-> TRUE]

Tier(model, text) ==
    [model |-> model, effort |-> "", platform |-> "openrouter", local |-> FALSE,
     rule |-> text, maxContext |-> 0, grants |-> {}, strips |-> {}]
LocalTier(model, text) ==
    [Tier(model, text) EXCEPT !.local = TRUE, !.platform = "local", !.maxContext = 24]
At(tier, effort) == [tier EXCEPT !.effort = effort]

Config(tiers, default) ==
    [tiers |-> tiers, default |-> Tier(default, <<>>), writeOnly |-> FALSE, vram |-> 0,
     deals |-> <<>>, fleet |-> <<>>]

Deal(model, coding, prompt, frontier) ==
    [model |-> model, coding |-> coding, reliability |-> 0, prompt |-> prompt,
     completion |-> 4 * prompt, rate |-> 2 * prompt, context |-> 64,
     supports |-> Both, open |-> FALSE, frontier |-> frontier]

Workhorse == LocalTier("small", <<Below("Tokens", 16), Below("Retries", 3)>>)
Escalation == Tier("glm", <<AtLeast("Retries", 3)>>)
EffortLadder(lower, upper) ==
    [Config(<<At(Tier("glm", <<Below("Retries", 2)>>), lower),
              At(Tier("glm", <<AtLeast("Retries", 2)>>), upper)>>, "opus") EXCEPT
        !.deals = <<Deal("bargain", 8000, 1, FALSE)>>]

\* One cascade or more for every kind of repair; two deals that tie one after the
\* other with the model they replace; effort ladders, one without a lower effort.
Cascades ==
    {Config(<<Workhorse, Tier("glm", <<Below("Retries", 4)>>)>>, "sonnet"),
     Config(<<LocalTier("middle", <<>>), Tier("sonnet", <<Below("Retries", 2)>>), Escalation>>, "opus"),
     Config(<<Tier("flash", <<Below("Retries", 2)>>), Tier("opus", <<AtLeast("Retries", 2)>>)>>,
            "saver"),
     Config(<<Tier("seer", <<Flag("HasImages", TRUE)>>),
              Tier("opus", <<Below("MessageCount", 3), Flag("HasImages", FALSE)>>), Workhorse,
              Tier("opus", <<Below("Retries", 4), InParentheses(Flag("HasTools", TRUE),
                                                      Flag("HasTestFail", TRUE))>>)>>, "flash"),
     [Config(<<Workhorse, Tier("sonnet", <<>>)>>, "sonnet") EXCEPT !.writeOnly = TRUE],
     [Config(<<Workhorse, Tier("sonnet", <<Below("Retries", 2)>>),
               Tier("opus", <<Below("Retries", 4)>>)>>, "opus") EXCEPT
          !.vram = 24, !.deals = <<Deal("bargain", 8050, 3, FALSE)>>],
     [Config(<<[Tier("seer", <<Below("Retries", 1)>>) EXCEPT !.grants = {"HasTools"}],
               Tier("mini", <<AtLeast("Retries", 1)>>)>>, "opus") EXCEPT
          !.deals = <<Deal("better", 7300, 6, FALSE), Deal("best", 7400, 8, FALSE)>>],
     EffortLadder("low", "max"), EffortLadder("", "high")}

Turn(model, tokens, flags, words) ==
    [root |-> 1, Tokens |-> tokens, Retries |-> 0, MessageCount |-> 0, Keywords |-> words,
     flags |-> flags \cup IF model \in {"small", "middle"} THEN {"IsLocal"} ELSE {},
     output |-> 1, cost |-> 0, model |-> model]
Good(model, tokens) == Turn(model, tokens, {"HasTools", "HasWriteCapability", "HasWriteProgress"}, {})
Bad(model, tokens) == Turn(model, tokens, {"HasTools", "HasWriteCapability", "IsRetry"}, {})

Fleets ==
    {<<>>,
     << <<Good("small", 4), Bad("small", 12), Bad("small", 12), Good("sonnet", 14)>> >>,
     << <<Bad("glm", 40), Bad("glm", 60), Good("opus", 60)>>,
        <<Turn("small", 6, {"HasTools", "IsRetry", "HasWriteCapability"}, {"regex"}),
          Turn("small", 6, {"HasTools", "HasImages", "IsRetry", "HasWriteCapability"}, {"regex"})>> >>,
     << <<Bad("flash", 20), Bad("flash", 20), Bad("opus", 20), Bad("opus", 20)>> >>,
     << <<Good("sonnet", 90), Good("sonnet", 120)>>,
        <<Bad("middle", 8), Good("middle", 8),
          [Bad("middle", 8) EXCEPT !.root = 2, !.flags = @ \cup {"CycleBreaker"}],
          [Turn("middle", 8, {"HasTools", "Upstream"}, {}) EXCEPT !.root = 2]>> >>}

MCScenes == {[c EXCEPT !.fleet = f] : c \in Cascades, f \in Fleets}
NoScene == [Config(<<>>, "opus") EXCEPT !.tiers = <<>>]
ScenesOrNone == MCScenes \cup {NoScene}

-----------------------------------------------------------------------------
(* Rules and the limits asked of them.                                        *)

Pieces == {Below("Tokens", 8), AtLeast("Tokens", 8), Below("Retries", 2), AtLeast("Retries", 1),
           Flag("HasImages", TRUE), Flag("HasImages", FALSE), Flag("IsSubagent", TRUE),
           Word({"sql"}, FALSE), Word({"sql"}, TRUE),
           Either(Flag("IsSubagent", TRUE), Flag("HasTools", TRUE)),
           InParentheses(Flag("HasImages", FALSE), Below("Retries", 2))}
Rules == {<<a>> : a \in Pieces} \cup {<<a, b>> : a, b \in Pieces}
           \cup {<<a, Flag("HasTools", TRUE), b>> : a, b \in Pieces}
Asks == {[Limits!NoLimits EXCEPT !.threshold = n, !.retryBound = r, !.prohibits = p, !.keywords = w] :
            n \in {0, 16}, r \in {0, 3}, p \in {{}, {"HasImages"}, {"HasImages", "HasTools"}},
            w \in {{}, {"sql"}}}
Contexts == {[Tokens |-> n, Retries |-> r, MessageCount |-> 1, Keywords |-> w, flags |-> f] :
                n \in {4, 12, 20}, r \in 0..3, w \in {{}, {"sql"}},
                f \in {{}, {"HasTools"}, {"HasImages"}, {"HasImages", "HasTools", "IsSubagent"}}}

Rewriting == INSTANCE RoutingRules

allVars == <<scene, phase, current, best, bestConflict, baseline, tabu, banned, iteration,
             stagnant, lastBest, swept, evalBuf, result, config, rule, ask, written>>
NotRewriting == /\ rule = <<>> /\ ask = Limits!NoLimits /\ written = <<>>

MCInit == Init /\ (scene # NoScene => NotRewriting) /\ (scene = NoScene => Rewriting!Init)
MCNext == \/ scene # NoScene /\ Next /\ UNCHANGED <<rule, ask, written>>
          \/ scene = NoScene /\ Rewriting!Next /\ UNCHANGED vars
MCSpec == MCInit /\ [][MCNext]_allVars

Idling == scene # NoScene
RuleWritten == Idling \/ Rewriting!RuleWritten

Reach(text) == \E c \in Contexts : Limits!RuleHolds(text, c)

\* No rule is recommended that no request can satisfy when the one it replaces
\* could be: a bound below the floor of an escalation tier is never written
\* (min_conflicts.go:581-605, 991-1001); and what is applied reads back as it
\* was meant.
ResultSound ==
    /\ AppliedReadsBack
    /\ phase \in {"done", "applied"} /\ ~result.failed =>
        \A k \in DOMAIN result.tiers :
            ~result.tiers[k].disabled /\ Reach(result.tiers[k].original)
                => Reach(result.tiers[k].rule)
=============================================================================
