----------------------------- MODULE MCStreamTurn -----------------------------
(* TLC instance of StreamTurn. *)
EXTENDS StreamTurn

MCRetries == {0, 2}

Empty == [kind |-> "chunk", reason |-> "none", text |-> "none",
          tool |-> FALSE, finish |-> "none", usage |-> FALSE]

(* One line of every kind, each part of a chunk alone, and the chunks that  *)
(* join a finish_reason, reasoning or usage with something else.           *)
MCLines ==
  {[Empty EXCEPT !.kind = k] : k \in {"comment", "prelude", "done", "chunk"}}
  \cup {[Empty EXCEPT !.reason = r, !.finish = f] :
          r \in {"text", "lt"}, f \in {"none", "length"}}
  \cup {[Empty EXCEPT !.text = t, !.finish = f] :
          t \in {"none", "prose", "lt"}, f \in {"none", "stop", "length"}}
  \cup {[Empty EXCEPT !.text = t] : t \in {"blank", "tag"}}
  \cup {[Empty EXCEPT !.tool = TRUE, !.finish = f] : f \in {"none", "stop"}}
  \cup {[Empty EXCEPT !.reason = "text", !.text = "prose"],
        [Empty EXCEPT !.usage = TRUE],
        [Empty EXCEPT !.usage = TRUE, !.finish = "length"]}
===============================================================================
