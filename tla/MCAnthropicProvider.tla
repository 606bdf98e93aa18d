------------------------- MODULE MCAnthropicProvider -------------------------
(* TLC instance of AnthropicProvider: one agent streams, one does not.       *)
EXTENDS AnthropicProvider

CONSTANTS a1, a2

Model(line, major, minor, thinking) ==
  [line |-> line, major |-> major, minor |-> minor, thinking |-> thinking]
Disabled == [model |-> Model("opus", 4, 7, FALSE), effort |-> "none", max |-> 0]
Budgeted == [model |-> Model("sonnet", 4, 5, FALSE), effort |-> "medium",
             max |-> 4096]
SomeSettings == (a1 :> {Budgeted}) @@ (a2 :> {Budgeted, Disabled})
SomeAnswers ==
  (a1 :> {<<"text">>, <<"thinking", "tool_use", "thinking", "tool_use">>}) @@
  (a2 :> {<<"redacted_thinking", "thinking", "tool_use", "tool_use">>})
SomeHabits == (a1 :> {<<TRUE, FALSE>>}) @@
              (a2 :> {<<FALSE, FALSE>>, <<FALSE, TRUE>>})
Turns == (a1 :> 1) @@ (a2 :> 2)
Ids == Names
=============================================================================
