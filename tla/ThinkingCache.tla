---------------------------- MODULE ThinkingCache ----------------------------
(***************************************************************************)
(* thinkingBlockCache (pkg/provider/anthropic.go): the signed thinking of  *)
(* the last turns, by tool call, in a ring of MaxCached slots.  It is      *)
(* shared by all requests of a provider; each call below holds its lock.   *)
(***************************************************************************)
EXTENDS Naturals, Sequences

CONSTANTS
  CallIds,    \* tool call ids
  MaxCached,  \* maxCachedThinkingTurns (256)
  NoCall      \* an empty slot

ASSUME CacheAssumption == MaxCached \in Nat \ {0} /\ NoCall \notin CallIds

Slots == 0 .. MaxCached - 1

EmptyCache ==
  [entries |-> [id \in {} |-> <<>>], order |-> [i \in Slots |-> NoCall],
   head |-> 0, count |-> 0]

Stored(c, id, blocks, gone) ==
  [i \in (DOMAIN c.entries \ gone) \cup {id} |->
     IF i = id THEN blocks ELSE c.entries[i]]

(* Mutant: the slot of the evicted call is reused, its entry is kept. *)
PutEvictsSlotOnly(c, id, blocks) ==
  CASE blocks = <<>> -> c
    [] blocks # <<>> /\ (id \in DOMAIN c.entries \/ c.count = MaxCached) ->
         [c EXCEPT !.entries = Stored(c, id, blocks, {}),
                   !.order[c.head] = IF id \in DOMAIN c.entries THEN @ ELSE id]
    [] OTHER ->
         [c EXCEPT !.entries = Stored(c, id, blocks, {}),
                   !.order[(c.head + c.count) % MaxCached] = id,
                   !.count = @ + 1]

(* Mutant: the head runs on past the last slot. *)
PutNoWrap(c, id, blocks) ==
  CASE blocks = <<>> -> c
    [] blocks # <<>> /\ id \in DOMAIN c.entries ->
         [c EXCEPT !.entries = Stored(c, id, blocks, {})]
    [] blocks # <<>> /\ id \notin DOMAIN c.entries /\ c.count = MaxCached ->
         [entries |-> Stored(c, id, blocks, {c.order[c.head]}),
          order |-> [c.order EXCEPT ![c.head] = id],
          head |-> c.head + 1, count |-> c.count]
    [] OTHER ->
         [c EXCEPT !.entries = Stored(c, id, blocks, {}),
                   !.order[(c.head + c.count) % MaxCached] = id,
                   !.count = @ + 1]

(* A known call keeps its place; a new one takes the oldest slot of a full *)
(* ring.                                                                   *)
Put(c, id, blocks) ==
  CASE blocks = <<>> -> c
    [] blocks # <<>> /\ id \in DOMAIN c.entries ->
         [c EXCEPT !.entries = Stored(c, id, blocks, {})]
    [] blocks # <<>> /\ id \notin DOMAIN c.entries /\ c.count = MaxCached ->
         [entries |-> Stored(c, id, blocks, {c.order[c.head]}),
          order |-> [c.order EXCEPT ![c.head] = id],
          head |-> (c.head + 1) % MaxCached,
          count |-> c.count]
    [] blocks # <<>> /\ id \notin DOMAIN c.entries /\ c.count # MaxCached ->
         [entries |-> Stored(c, id, blocks, {}),
          order |-> [c.order EXCEPT ![(c.head + c.count) % MaxCached] = id],
          head |-> c.head,
          count |-> c.count + 1]

Has(c, id) == id \in DOMAIN c.entries

(* The slots in use, oldest first from head. *)
Used(c) == {(c.head + i) % MaxCached : i \in 0 .. c.count - 1}

(* Every entry has one slot, and every slot in use an entry: an entry      *)
(* without a slot is never evicted, and two slots of one call evict it     *)
(* while it is new.                                                        *)
RingMatches(c) ==
  /\ {c.order[i] : i \in Used(c)} = DOMAIN c.entries
  /\ \A i, j \in Used(c) : c.order[i] = c.order[j] => i = j
===============================================================================
