--------------------------- MODULE MCTurnPipeline ---------------------------
(* TLC instances of TurnPipeline: one session, two tiers below the default.  *)
EXTENDS TurnPipeline, TLC

CONSTANTS r1, r2

VARIABLE shape   \* "long": three turns of few kinds; "aged": fewer kinds, but
                 \* the session may expire; "wide": two turns of any kind

Symmetry == Permutations({r1, r2} \cap Requests)

TwoTiers == <<"local", "workhorse">>
TierModels == [t \in {"local", "workhorse", "frontier"} |->
    CASE t = "local" -> "gemma" [] t = "workhorse" -> "flash"
      [] t = "frontier" -> "sonnet"]
AllModels == {"gemma", "flash", "sonnet"}

TwoReviews ==
    <<[name |-> "tactical", model |-> "sonnet", frequency |-> 1, max |-> 1,
       priority |-> 1],
      [name |-> "strategic", model |-> "flash", frequency |-> 2, max |-> 1,
       priority |-> 2]>>
AgentTurn ==
    [key |-> "session", root |-> 1, prompt |-> 1, messages |-> 0,
     client |-> "agent", saw |-> {"writable"}, errors |-> 0, forced |-> None,
     toggle |-> None, meta |-> None]
Saw(work) == [AgentTurn EXCEPT !.saw = @ \cup work]

Stall == AgentTurn
Reading == Saw({"tool"})
Write == Saw({"tool", "write"})
ShellWrite == Saw({"tool", "shell"})
Repair == Saw({"tool", "write", "testfail", "repair"})
Forced(t) == [AgentTurn EXCEPT !.forced = t]
Toggle(g, on) == [AgentTurn EXCEPT !.toggle = <<g, on>>]
Meta(d) == [AgentTurn EXCEPT !.meta = d]
MetaToggle(d, g, on) == [AgentTurn EXCEPT !.meta = d, !.toggle = <<g, on>>]
Question == [AgentTurn EXCEPT !.client = "chat", !.prompt = 2]
NewRoot == [AgentTurn EXCEPT !.root = 2]

LongTurns == {Stall, Write, NewRoot, Meta("reset")}
AgedTurns == {Stall, Meta("reset")}
EveryTurn == {Stall, Reading, Write, ShellWrite, Repair, Forced("local"),
              Forced("model"), Toggle("fairydust", TRUE),
              Toggle("kickstart", TRUE), Meta("reset"), Meta("help"),
              MetaToggle("kickstart-off", "kickstart", TRUE),
              MetaToggle("kickstart-on", "kickstart", FALSE),
              Question, NewRoot}

-----------------------------------------------------------------------------
Only(kinds) ==
    /\ \A r \in Requests : turn'[r].pc = "idle" \/ turn'[r].in \in kinds
    /\ \A k \in DOMAIN sessions' : sessions'[k].thoughtSlaps = 0

Shaped ==
    CASE shape = "long" -> Only(LongTurns) /\ now' = 0
      [] shape = "aged" -> Only(AgedTurns)
      [] shape = "wide" -> turns' <= 2 /\ now' = 0

MCInit == Init /\ shape \in {"long", "aged", "wide"}
MCNext == Next /\ Shaped /\ UNCHANGED shape
MCSpec == MCInit /\ [][MCNext]_<<vars, shape>>
=============================================================================
