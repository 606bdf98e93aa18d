----------------------------- MODULE ClientStream -----------------------------
(***************************************************************************)
(* What a streaming turn promises its client, whatever happens upstream:   *)
(* chunks while the stream is open; a request to try again (a thought      *)
(* slap) only while the answer has said nothing and has not been declared  *)
(* over; no answer after [DONE].  A stream may also end without one, when  *)
(* the upstream breaks off or another tier takes the turn over.            *)
(***************************************************************************)
EXTENDS Naturals

CONSTANT MaxSlaps  \* how often a turn may be asked to act

VARIABLES
  said,   \* the client has been sent prose or a tool call
  slaps,  \* thought slap notices sent
  over,   \* a finish_reason or [DONE] has been sent
  done    \* [DONE] has been sent

promise == <<said, slaps, over, done>>

Init == said = FALSE /\ slaps = 0 /\ over = FALSE /\ done = FALSE

(* Chunks, any number at once, perhaps closed by [DONE]. *)
Send ==
  /\ ~done
  /\ said' \in {said, TRUE} /\ over' \in {over, TRUE}
  /\ done' \in {FALSE, over'}
  /\ UNCHANGED slaps

(* The notice that asks a silent model to act. *)
Slap ==
  /\ ~over /\ ~said
  /\ slaps < MaxSlaps
  /\ slaps' = slaps + 1
  /\ UNCHANGED <<said, over, done>>

Next == Send \/ Slap

Spec == Init /\ [][Next]_promise
===============================================================================
