-------------------------- MODULE MCSessionTracker --------------------------
(* TLC instance of the tracker on its own: TrackerSpec with two turns, one   *)
(* value for every limit, and MaxCalls calls in all.                         *)
EXTENDS SessionTracker

CONSTANTS Turns,    \* turns that are recorded
          Limit,    \* retry floor of a cycle kill, and every other limit
          MaxCalls  \* bound: calls made

VARIABLE calls      \* calls so far

\* They are turns and limits of TrackerSpec.
ASSUME CallsAssumption == Turns \subseteq AnyTurn /\ Limit \in Nat

Init == TrackerInit /\ calls = 0

Next ==
    \/ Tick /\ UNCHANGED calls
    \/ /\ calls < MaxCalls
       /\ calls' = calls + 1
       /\ UNCHANGED now
       /\ \E k \in Keys : TrackerCall(k, Turns, {Limit})

Spec == Init /\ [][Next]_<<sessions, now, calls>>

AgentStall == [root |-> 1, prompt |-> 1, messages |-> 2, client |-> "agent",
               progress |-> FALSE, hold |-> FALSE]
ChatTurn == [root |-> 1, prompt |-> 2, messages |-> 1, client |-> "chat",
             progress |-> FALSE, hold |-> FALSE]
SomeTurns == {AgentStall, ChatTurn}
=============================================================================
