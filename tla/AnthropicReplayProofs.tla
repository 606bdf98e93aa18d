------------------------ MODULE AnthropicReplayProofs ------------------------
(***************************************************************************)
(* FaithfulReplay of AnthropicProvider, proved for any agents, answers and *)
(* ring: the thinking put back into a request is what the upstream signed, *)
(* whole, in order, with the calls it led to.                              *)
(***************************************************************************)
EXTENDS AnthropicProviderProofs

----------------------------------------------------------------------------
(* The invariant. *)

\* The places in a message of the thinking of a turn.
ThoughtsOf(e, turn) == {j \in Replayed(e) : TurnOf(e[j]) = turn}

\* The thinking of a turn is s, together and in order.
InPlace(e, turn, s) ==
  \E p \in 0 .. Len(e) :
    /\ ThoughtsOf(e, turn) = p + 1 .. p + Len(s)
    /\ \A k \in 1 .. Len(s) : e[p + k] = s[k]

Leading(e, turn) ==
  \A j \in ThoughtsOf(e, turn), k \in CallsOf(e, turn) : j < k
Several(e, turn) == \E j, k \in CallsOf(e, turn) : j # k

\* The calls a message makes in a turn, and the messages that make any.
CalledIn(m, t) == {k \in DOMAIN m.calls : m.calls[k][2] = t}
Made(h, t) == {i \in DOMAIN h : CalledIn(h[i], t) # {}}

\* One message makes the calls of a turn, or each message makes one.
Uncut(h, t) == \A i, j \in Made(h, t) : i = j
Parted(h, t) ==
  \A i \in Made(h, t) :
    /\ DOMAIN h[i].calls = {1}
    /\ \A j \in Made(h, t) : i # j => h[i].calls[1] # h[j].calls[1]

MakesOK(a, m, last) ==
  /\ m.role # "assistant" => DOMAIN m.calls = {}
  /\ \A k \in DOMAIN m.calls : m.calls[k][1] = a /\ m.calls[k][2] <= last
  /\ \A j, k \in DOMAIN m.calls : m.calls[j][2] = m.calls[k][2]

InARow(h, t) ==
  \A i, j, k \in DOMAIN h :
    i < j /\ j < k /\ i \in Made(h, t) /\ k \in Made(h, t) => j \in Made(h, t)

TurnsOK(a, h, last) ==
  /\ \A i \in DOMAIN h : MakesOK(a, h[i], last)
  /\ \A t \in 1 .. last : Uncut(h, t) \/ Parted(h, t)
  /\ \A t \in 1 .. last : InARow(h, t)

\* The last turn of an agent that is over.
Latest(s, sp) ==
  IF s.state \in {"idle", "building"} THEN Len(sp) ELSE Len(sp) - 1

Given(a, sp, t) == SignedBlocks(a, t, sp[t])

OneCall(h, t) ==
  \A i \in DOMAIN h : \A j, k \in CalledIn(h[i], t) : j = k

ReplayOK(a, e, h, sp, last) ==
  /\ \A j \in Replayed(e) : \E t \in 1 .. last : TurnOf(e[j]) = <<a, t>>
  /\ \A t \in 1 .. last : ThoughtsOf(e, <<a, t>>) # {} =>
       /\ InPlace(e, <<a, t>>, Given(a, sp, t))
       /\ CallsOf(e, <<a, t>>) # {}
       /\ \/ Leading(e, <<a, t>>)
          \/ Several(e, <<a, t>>) /\ OneCall(h, t)

RepliesOK(a, s, h, r, sp) ==
  r # <<>> =>
    /\ ~s.start /\ sp # <<>> /\ sp[Len(sp)] = <<>>
    /\ \A i \in DOMAIN r.messages :
         ReplayOK(a, r.messages[i].content, h, sp, Len(sp) - 1)

\* A signed block that is still open.
Unstored(s) ==
  IF s.block = "thinking" /\ s.signature # <<>>
  THEN <<[type |-> "thinking", name |-> <<s.thinking, s.signature>>]>>
  ELSE <<>>

IdsOf(a, t, ids) == \A k \in DOMAIN ids : ids[k][1] = a /\ ids[k][2] = t

HeardOK(a, t, s, b) ==
  /\ s.thinking = IF b[Len(b)].delta THEN <<<<a, t, Len(b)>>>> ELSE <<>>
  /\ s.signature = IF b[Len(b)].signed THEN <<<<a, t, Len(b)>>>> ELSE <<>>

InStates == {"open", "failed", "eof", "closed"}

CapturedOK(a, s, sp) ==
  /\ s.state \notin InStates => s.puts = <<>> /\ ~s.flushed
  /\ s.state \in InStates =>
       LET t == Len(sp)
           b == sp[t]
       IN /\ IdsOf(a, t, s.ids) /\ IdsOf(a, t, s.puts)
          /\ s.flushed => s.blocks = SignedBlocks(a, t, b)
          /\ ~s.flushed =>
               /\ s.puts = <<>>
               /\ Cat(s.blocks, Unstored(s)) = SignedBlocks(a, t, b)
          /\ s.state = "open" /\ s.flushed => s.done
          /\ s.state \in {"eof", "closed"} => s.flushed
          /\ s.state = "open" /\ s.block = "thinking" => HeardOK(a, t, s, b)

\* What a turn said does not change any more.
Settled(s, sp, t) ==
  /\ t \in 1 .. Len(sp)
  /\ t < Len(sp) \/ s.flushed \/ s.state \in {"idle", "building"}

AgentReplays(a, s, w, h, r, sp) ==
  /\ TurnsOK(a, h, Latest(s, sp))
  /\ s.state = "building" => w.msgs = Rest(h)
  /\ RepliesOK(a, s, h, r, sp)
  /\ CapturedOK(a, s, sp)

CachedOK(c) ==
  \A id \in DOMAIN c.entries :
    /\ Settled(adapter[id[1]], spoken[id[1]], id[2])
    /\ c.entries[id] = Given(id[1], spoken[id[1]], id[2])

ReplayInv ==
  /\ CachedOK(cache)
  /\ \A a \in Agents :
       AgentReplays(a, adapter[a], work[a], history[a], request[a], spoken[a])

----------------------------------------------------------------------------
(* The places of a message in order. *)

\* A rising function onto a set of places lists them.
LEMMA Enumerated ==
  ASSUME NEW n \in Nat, NEW S \in SUBSET (1 .. n), NEW m \in Nat,
         NEW t \in [1 .. m -> S], Rising(t),
         \A x \in S : \E i \in 1 .. m : t[i] = x
  PROVE  InOrder(S) = t
<1>1. DOMAIN t = 1 .. m /\ \A i \in 1 .. m : t[i] \in S /\ t[i] \in Int
  <2>1. S \subseteq Int
    OBVIOUS
  <2>2. DOMAIN t = 1 .. m /\ \A i \in 1 .. m : t[i] \in S
    OBVIOUS
  <2>3. QED BY <2>1, <2>2
<1>2. \A i, j \in 1 .. m : t[i] = t[j] => i = j
  <2>1. ASSUME NEW i \in 1 .. m, NEW j \in 1 .. m, t[i] = t[j]
        PROVE  i = j
    <3>1. ~(i < j) /\ ~(j < i)
      BY <1>1, <2>1 DEF Rising
    <3>2. QED BY <3>1
  <2>2. QED BY <2>1
<1>3. t \in Bijection(1 .. m, S)
  BY <1>2 DEF Bijection, Injection, Surjection, IsInjective
<1>4. ExistsBijection(1 .. m, S)
  BY <1>3 DEF ExistsBijection
<1>5. IsFiniteSet(1 .. m) /\ Cardinality(1 .. m) = m
  BY FS_Interval
<1>6. Cardinality(S) = m
  BY <1>4, <1>5, FS_Bijection
<1>7. t \in Listing(S)
  BY <1>6 DEF Listing
<1>8. QED BY <1>7, Ranked

LEMMA AppendIs ==
  ASSUME NEW T, NEW s \in Seq(T), NEW v \in T
  PROVE  Append(s, v) =
           [k \in 1 .. Len(s) + 1 |-> IF k = Len(s) + 1 THEN v ELSE s[k]]
<1> DEFINE z == Append(s, v)
           n == Len(s)
<1>1. z \in Seq(T) /\ Len(z) = n + 1 /\ z[n + 1] = v /\ n \in Nat
  BY Extended
<1>2. \A k \in 1 .. n : z[k] = s[k]
  OBVIOUS
<1> HIDE DEF z, n
<1>3. z = [k \in 1 .. n + 1 |-> z[k]]
  BY <1>1
<1>4. \A k \in 1 .. n + 1 : z[k] = IF k = n + 1 THEN v ELSE s[k]
  BY <1>1, <1>2
<1> HIDE DEF z
<1>5. z = [k \in 1 .. n + 1 |-> IF k = n + 1 THEN v ELSE s[k]]
  BY <1>3, <1>4
<1>6. QED BY <1>5 DEF z, n

\* A place behind all of a set is the last.
LEMMA OrderGrows ==
  ASSUME NEW n \in Nat, NEW S \in SUBSET (1 .. n)
  PROVE  /\ InOrder(S) \in Seq(1 .. n)
         /\ InOrder(S \cup {n + 1}) = Append(InOrder(S), n + 1)
<1> DEFINE s == InOrder(S)
           m == Len(s)
           t == [k \in 1 .. m + 1 |-> IF k = m + 1 THEN n + 1 ELSE s[k]]
           U == S \cup {n + 1}
<1>1. /\ s \in Seq(S) /\ Rising(s)
      /\ \A x \in S : \E i \in DOMAIN s : s[i] = x
  BY Ordered
<1>2. /\ m \in Nat /\ DOMAIN s = 1 .. m
      /\ \A k \in 1 .. m : s[k] \in S /\ s[k] \in 1 .. n /\ s[k] <= n
  <2>1. m \in Nat /\ DOMAIN s = 1 .. m
    BY <1>1
  <2>2. \A k \in 1 .. m : s[k] \in S
    BY <1>1, <2>1, ElementOf
  <2>3. \A x \in S : x \in 1 .. n /\ x <= n
    OBVIOUS
  <2> HIDE DEF s, m
  <2>4. QED BY <2>1, <2>2, <2>3
<1> HIDE DEF s, m
<1>3. /\ DOMAIN t = 1 .. m + 1 /\ t[m + 1] = n + 1
      /\ \A k \in 1 .. m : t[k] = s[k]
  BY <1>2
<1>4. \A k \in 1 .. m + 1 : t[k] \in U
  BY <1>2
<1>5. t \in [1 .. m + 1 -> U]
  BY <1>4
<1> HIDE DEF t
<1>6. Rising(t)
  <2>1. ASSUME NEW i \in 1 .. m + 1, NEW j \in 1 .. m + 1, i < j
        PROVE  t[i] < t[j]
    <3>1. i \in 1 .. m
      BY <1>2, <2>1
    <3>2. CASE j = m + 1
      BY <1>2, <1>3, <3>1, <3>2
    <3>3. CASE j # m + 1
      <4>1. j \in 1 .. m
        BY <1>2, <3>3
      <4>2. s[i] < s[j]
        BY <1>1, <1>2, <2>1, <3>1, <4>1 DEF Rising
      <4>3. QED BY <1>3, <3>1, <4>1, <4>2
    <3>4. QED BY <3>2, <3>3
  <2>2. QED BY <1>3, <2>1 DEF Rising
<1>7. \A x \in U : \E i \in 1 .. m + 1 : t[i] = x
  <2>1. ASSUME NEW x \in S PROVE \E i \in 1 .. m + 1 : t[i] = x
    <3>1. PICK i \in 1 .. m : s[i] = x
      BY <1>1, <1>2
    <3>2. i \in 1 .. m + 1 /\ t[i] = x
      BY <1>2, <1>3, <3>1
    <3>3. QED BY <3>2
  <2>2. m + 1 \in 1 .. m + 1
    BY <1>2
  <2>3. QED BY <1>3, <2>1, <2>2
<1>8. U \in SUBSET (1 .. n + 1) /\ n + 1 \in Nat /\ m + 1 \in Nat
  BY <1>2
<1> HIDE DEF U
<1>9. InOrder(U) = t
  BY <1>5, <1>6, <1>7, <1>8, Enumerated
<1>10. s \in Seq(1 .. n)
  <2>1. s \in [1 .. m -> 1 .. n]
    BY <1>1, <1>2 DEF m
  <2>2. QED BY <1>2, <2>1, ListIs
<1>11. Append(s, n + 1) = t
  <2>1. Append(s, n + 1) =
          [k \in 1 .. m + 1 |-> IF k = m + 1 THEN n + 1 ELSE s[k]]
    BY <1>2, <1>10 DEF m
  <2>2. QED BY <2>1 DEF t
<1>12. QED BY <1>9, <1>10, <1>11 DEF U, s

\* Elements of a sequence that follow each other.
Run(s, p, n) == [k \in 1 .. n |-> s[p + k]]

LEMMA PickedRun ==
  ASSUME NEW T, NEW s \in Seq(T), NEW p \in Nat, NEW n \in Nat,
         p + n <= Len(s)
  PROVE  Picked(s, p + 1 .. p + n) = Run(s, p, n)
<1> DEFINE t == [k \in 1 .. n |-> p + k]
           S == p + 1 .. p + n
<1>1. /\ DOMAIN t = 1 .. n /\ t \in [1 .. n -> S]
      /\ \A k \in 1 .. n : t[k] = p + k
  OBVIOUS
<1> HIDE DEF t
<1>2. Rising(t)
  <2>1. \A i, j \in 1 .. n : i < j => t[i] < t[j]
    BY <1>1
  <2>2. QED BY <1>1, <2>1 DEF Rising
<1>3. \A x \in S : \E i \in 1 .. n : t[i] = x
  <2>1. ASSUME NEW x \in S PROVE \E i \in 1 .. n : t[i] = x
    <3>1. x - p \in 1 .. n /\ p + (x - p) = x
      OBVIOUS
    <3>2. QED BY <1>1, <3>1
  <2>2. QED BY <2>1
<1>4. S \in SUBSET (1 .. p + n) /\ p + n \in Nat
  OBVIOUS
<1> HIDE DEF S
<1>5. InOrder(S) = t
  BY <1>1, <1>2, <1>3, <1>4, Enumerated
<1>6. Picked(s, S) = [k \in 1 .. n |-> s[t[k]]]
  BY <1>1, <1>5 DEF Picked
<1>7. [k \in 1 .. n |-> s[t[k]]] = [k \in 1 .. n |-> s[p + k]]
  BY <1>1
<1>8. QED BY <1>6, <1>7 DEF S, Run

----------------------------------------------------------------------------
(* The signed thinking of an answer, as the answer grows. *)

KeptAt(b) ==
  {i \in DOMAIN b : \/ b[i].type = "redacted_thinking"
                    \/ b[i].type = "thinking" /\ b[i].signed}
Redacted(a, t, i) == [type |-> "redacted_thinking", name |-> <<a, t, i>>]
Unredacted(a, t, i, delta) ==
  [type |-> "thinking",
   name |-> <<IF delta THEN <<<<a, t, i>>>> ELSE <<>>, <<<<a, t, i>>>>>>]
Kept(a, t, b, i) ==
  IF b[i].type = "redacted_thinking" THEN Redacted(a, t, i)
  ELSE Unredacted(a, t, i, b[i].delta)

LEMMA SignedAre ==
  ASSUME NEW a, NEW t, NEW b
  PROVE  SignedBlocks(a, t, b) =
           [k \in DOMAIN InOrder(KeptAt(b)) |->
              Kept(a, t, b, InOrder(KeptAt(b))[k])]
BY DEF SignedBlocks, KeptAt, Kept, Redacted, Unredacted

LEMMA SignedLength ==
  ASSUME NEW a, NEW t, NEW b \in Seq(BlockRecords)
  PROVE  Len(SignedBlocks(a, t, b)) \in Nat
<1> DEFINE s == InOrder(KeptAt(b))
           m == Len(s)
           T == {Kept(a, t, b, s[k]) : k \in 1 .. m}
<1>1. Len(b) \in Nat /\ KeptAt(b) \in SUBSET (1 .. Len(b))
  BY DEF KeptAt
<1>2. s \in Seq(KeptAt(b))
  BY <1>1, Ordered
<1>3. m \in Nat /\ DOMAIN s = 1 .. m
  BY <1>2
<1>4. SignedBlocks(a, t, b) = [k \in 1 .. m |-> Kept(a, t, b, s[k])]
  BY <1>3, SignedAre
<1>5. \A k \in 1 .. m : Kept(a, t, b, s[k]) \in T
  OBVIOUS
<1> HIDE DEF s, m, T
<1>6. SignedBlocks(a, t, b) \in [1 .. m -> T]
  BY <1>4, <1>5
<1>7. QED BY <1>3, <1>6, ListIs

\* An element of it is thinking of the turn.
LEMMA SignedOf ==
  ASSUME NEW a, NEW t, NEW b, NEW k \in DOMAIN SignedBlocks(a, t, b)
  PROVE  /\ SignedBlocks(a, t, b)[k].type \in Thinking
         /\ TurnOf(SignedBlocks(a, t, b)[k]) = <<a, t>>
<1> DEFINE i == InOrder(KeptAt(b))[k]
<1>1. SignedBlocks(a, t, b)[k] = Kept(a, t, b, i)
  BY SignedAre
<1> HIDE DEF i
<1>2. /\ Redacted(a, t, i).type = "redacted_thinking"
      /\ Redacted(a, t, i).name = <<a, t, i>>
  BY DEF Redacted
<1>3. /\ Unredacted(a, t, i, b[i].delta).type = "thinking"
      /\ Unredacted(a, t, i, b[i].delta).name[2] = <<<<a, t, i>>>>
  BY DEF Unredacted
<1>4. TurnOf(Redacted(a, t, i)) = <<a, t>>
  BY <1>2 DEF TurnOf
<1>5. TurnOf(Unredacted(a, t, i, b[i].delta)) = <<a, t>>
  BY <1>3 DEF TurnOf
<1>6. QED BY <1>1, <1>2, <1>3, <1>4, <1>5 DEF Kept, Thinking

LEMMA SignedSame ==
  ASSUME NEW a, NEW t, NEW b \in Seq(BlockRecords), NEW b2,
         KeptAt(b2) = KeptAt(b),
         \A i \in KeptAt(b) : Kept(a, t, b2, i) = Kept(a, t, b, i)
  PROVE  SignedBlocks(a, t, b2) = SignedBlocks(a, t, b)
<1> DEFINE s == InOrder(KeptAt(b))
<1>1. Len(b) \in Nat /\ KeptAt(b) \in SUBSET (1 .. Len(b))
  BY DEF KeptAt
<1>2. s \in Seq(KeptAt(b))
  BY <1>1, Ordered
<1>3. \A k \in DOMAIN s : s[k] \in KeptAt(b)
  BY <1>2, ElementOf
<1>4. /\ SignedBlocks(a, t, b) = [k \in DOMAIN s |-> Kept(a, t, b, s[k])]
      /\ SignedBlocks(a, t, b2) = [k \in DOMAIN s |-> Kept(a, t, b2, s[k])]
  BY SignedAre
<1> HIDE DEF s
<1>5. QED BY <1>3, <1>4

LEMMA SignedMore ==
  ASSUME NEW a, NEW t, NEW b, NEW b2, NEW n \in Nat,
         KeptAt(b) \in SUBSET (1 .. n), KeptAt(b2) = KeptAt(b) \cup {n + 1},
         \A i \in KeptAt(b) : Kept(a, t, b2, i) = Kept(a, t, b, i)
  PROVE  SignedBlocks(a, t, b2) =
           Append(SignedBlocks(a, t, b), Kept(a, t, b2, n + 1))
<1> DEFINE s == InOrder(KeptAt(b))
           s2 == InOrder(KeptAt(b2))
           m == Len(s)
           x == SignedBlocks(a, t, b)
           v == Kept(a, t, b2, n + 1)
           T == {Kept(a, t, b, i) : i \in 1 .. n} \cup {v}
<1>1. s \in Seq(1 .. n) /\ s2 = Append(s, n + 1)
  BY OrderGrows
<1>2. s \in Seq(KeptAt(b)) /\ m \in Nat /\ DOMAIN s = 1 .. m
  BY <1>1, Ordered
<1>3. \A k \in 1 .. m : s[k] \in KeptAt(b) /\ s[k] \in 1 .. n
  BY <1>2, ElementOf
<1>4. /\ x = [k \in 1 .. m |-> Kept(a, t, b, s[k])]
      /\ SignedBlocks(a, t, b2) =
           [k \in DOMAIN s2 |-> Kept(a, t, b2, s2[k])]
  BY <1>2, SignedAre
<1> HIDE DEF s, s2, m, x, v
<1>5. /\ DOMAIN s2 = 1 .. m + 1 /\ s2[m + 1] = n + 1
      /\ \A k \in 1 .. m : s2[k] = s[k]
  <2>1. Append(s, n + 1) =
          [k \in 1 .. m + 1 |-> IF k = m + 1 THEN n + 1 ELSE s[k]]
    BY <1>1, <1>2 DEF m
  <2>2. QED BY <1>1, <1>2, <2>1
<1>6. x \in Seq(T) /\ Len(x) = m
  <2>1. \A k \in 1 .. m : Kept(a, t, b, s[k]) \in T
    BY <1>3
  <2> HIDE DEF T
  <2>2. x \in [1 .. m -> T]
    BY <1>4, <2>1
  <2>3. QED BY <1>2, <2>2, ListIs
<1> HIDE DEF T
<1>7. Append(x, v) = [k \in 1 .. m + 1 |-> IF k = m + 1 THEN v ELSE x[k]]
  <2>1. v \in T
    BY DEF T
  <2>2. QED BY <1>6, <2>1, AppendIs
<1>8. \A k \in 1 .. m + 1 :
        Kept(a, t, b2, s2[k]) = IF k = m + 1 THEN v ELSE x[k]
  <2>1. ASSUME NEW k \in 1 .. m + 1, k # m + 1
        PROVE  Kept(a, t, b2, s2[k]) = x[k]
    <3>1. k \in 1 .. m
      BY <1>2, <2>1
    <3>2. QED BY <1>3, <1>4, <1>5, <3>1
  <2>2. Kept(a, t, b2, s2[m + 1]) = v
    BY <1>5 DEF v
  <2>3. QED BY <2>1, <2>2
<1>9. QED BY <1>4, <1>5, <1>7, <1>8 DEF x, v

\* A block starts.
LEMMA SignedStarts ==
  ASSUME NEW a, NEW t, NEW b \in Seq(BlockRecords), NEW type \in Kinds
  PROVE  SignedBlocks(a, t, Append(b, Upstream(type))) =
           IF type = "redacted_thinking"
           THEN Append(SignedBlocks(a, t, b), Redacted(a, t, Len(b) + 1))
           ELSE SignedBlocks(a, t, b)
<1> DEFINE r == Upstream(type)
           n == Len(b)
           b2 == Append(b, r)
<1>1. r \in BlockRecords /\ r.type = type /\ r.signed = FALSE
  BY DEF Upstream, BlockRecords
<1>2. /\ n \in Nat /\ DOMAIN b = 1 .. n /\ DOMAIN b2 = 1 .. n + 1
      /\ b2[n + 1] = r /\ \A i \in 1 .. n : b2[i] = b[i]
  BY <1>1
<1> HIDE DEF r, n, b2
<1>3. /\ KeptAt(b) \in SUBSET (1 .. n)
      /\ \A i \in KeptAt(b) : Kept(a, t, b2, i) = Kept(a, t, b, i)
  BY <1>2 DEF KeptAt, Kept
<1>4. CASE type = "redacted_thinking"
  <2>1. KeptAt(b2) = KeptAt(b) \cup {n + 1}
    BY <1>1, <1>2, <1>4 DEF KeptAt
  <2>2. Kept(a, t, b2, n + 1) = Redacted(a, t, n + 1)
    BY <1>1, <1>2, <1>4 DEF Kept
  <2>3. SignedBlocks(a, t, b2) =
          Append(SignedBlocks(a, t, b), Kept(a, t, b2, n + 1))
    BY <1>2, <1>3, <2>1, SignedMore
  <2>4. QED BY <1>4, <2>2, <2>3 DEF b2, r, n
<1>5. CASE type # "redacted_thinking"
  <2>1. KeptAt(b2) = KeptAt(b)
    BY <1>1, <1>2, <1>5 DEF KeptAt
  <2>2. SignedBlocks(a, t, b2) = SignedBlocks(a, t, b)
    BY <1>3, <2>1, SignedSame
  <2>3. QED BY <1>5, <2>2 DEF b2, r
<1>6. QED BY <1>4, <1>5

\* The last block changes, but nothing of it that is signed.
LEMMA SignedStays ==
  ASSUME NEW a, NEW t, NEW b \in Seq(BlockRecords), b # <<>>,
         NEW r \in BlockRecords, r.type = b[Len(b)].type,
         r.signed = b[Len(b)].signed,
         r.signed => r.delta = b[Len(b)].delta
  PROVE  SignedBlocks(a, t, Changed(b, r)) = SignedBlocks(a, t, b)
<1> DEFINE n == Len(b)
           b2 == Changed(b, r)
<1>1. /\ DOMAIN b2 = DOMAIN b /\ b2[n] = r
      /\ \A p \in DOMAIN b : p # n => b2[p] = b[p]
  BY Amended DEF Changed
<1> HIDE DEF n, b2
<1>2. \A i \in DOMAIN b : i \in KeptAt(b2) <=> i \in KeptAt(b)
  BY <1>1 DEF KeptAt, n
<1>3. KeptAt(b2) = KeptAt(b)
  BY <1>1, <1>2 DEF KeptAt
<1>4. \A i \in KeptAt(b) : Kept(a, t, b2, i) = Kept(a, t, b, i)
  BY <1>1 DEF KeptAt, Kept, n
<1>5. QED BY <1>3, <1>4, SignedSame DEF b2

\* The last block is signed.
LEMMA SignedNow ==
  ASSUME NEW a, NEW t, NEW b \in Seq(BlockRecords), b # <<>>,
         b[Len(b)].type = "thinking", ~b[Len(b)].signed,
         NEW r \in BlockRecords, r.type = "thinking", r.signed
  PROVE  SignedBlocks(a, t, Changed(b, r)) =
           Append(SignedBlocks(a, t, b), Unredacted(a, t, Len(b), r.delta))
<1> DEFINE n == Len(b) - 1
           b2 == Changed(b, r)
<1>1. Len(b) \in Nat \ {0} /\ DOMAIN b = 1 .. Len(b)
  OBVIOUS
<1>2. /\ DOMAIN b2 = DOMAIN b /\ b2[Len(b)] = r
      /\ \A p \in DOMAIN b : p # Len(b) => b2[p] = b[p]
  BY Amended DEF Changed
<1>3. n \in Nat /\ n + 1 = Len(b)
  <2>1. ASSUME NEW l \in Nat, l # 0 PROVE l - 1 \in Nat /\ (l - 1) + 1 = l
    BY <2>1
  <2>2. Len(b) \in Nat /\ Len(b) # 0
    BY <1>1
  <2> HIDE DEF n
  <2>3. QED BY <2>1, <2>2 DEF n
<1> HIDE DEF n, b2
<1>4. /\ KeptAt(b) \in SUBSET (1 .. n)
      /\ \A i \in KeptAt(b) : Kept(a, t, b2, i) = Kept(a, t, b, i)
  <2>1. \A i \in KeptAt(b) : i \in 1 .. n
    <3>1. ASSUME NEW i \in KeptAt(b) PROVE i \in 1 .. n
      <4>1. i \in DOMAIN b /\ i # Len(b)
        BY DEF KeptAt
      <4>2. QED BY <1>1, <1>3, <4>1
    <3>2. QED BY <3>1
  <2>2. \A i \in KeptAt(b) : i \in DOMAIN b /\ i # Len(b)
    BY DEF KeptAt
  <2>3. QED BY <1>2, <2>1, <2>2 DEF Kept
<1>5. KeptAt(b2) = KeptAt(b) \cup {n + 1}
  <2>1. \A i \in DOMAIN b : i # Len(b) =>
          (i \in KeptAt(b2) <=> i \in KeptAt(b))
    BY <1>2 DEF KeptAt
  <2>2. Len(b) \in KeptAt(b2)
    BY <1>1, <1>2 DEF KeptAt
  <2>3. KeptAt(b) \subseteq DOMAIN b /\ KeptAt(b2) \subseteq DOMAIN b
    BY <1>2 DEF KeptAt
  <2>4. QED BY <1>3, <1>4, <2>1, <2>2, <2>3
<1>6. Kept(a, t, b2, n + 1) = Unredacted(a, t, n + 1, r.delta)
  BY <1>2, <1>3 DEF Kept
<1>7. SignedBlocks(a, t, b2) =
        Append(SignedBlocks(a, t, b), Kept(a, t, b2, n + 1))
  BY <1>3, <1>4, <1>5, SignedMore
<1>8. QED BY <1>3, <1>6, <1>7 DEF b2

LEMMA SignedNothing ==
  ASSUME NEW a, NEW t
  PROVE  SignedBlocks(a, t, <<>>) = <<>>
<1> DEFINE none == <<>>
<1>1. none \in Seq(BlockRecords) /\ KeptAt(none) = {} /\ 0 \in Nat
  BY DEF KeptAt
<1> HIDE DEF none
<1>2. InOrder(KeptAt(none)) \in Seq({})
  BY <1>1, Ordered
<1>3. DOMAIN InOrder(KeptAt(none)) = {}
  <2>1. \A k \in DOMAIN InOrder(KeptAt(none)) :
          InOrder(KeptAt(none))[k] \in {}
    BY <1>2, ElementOf
  <2>2. QED BY <2>1
<1>4. SignedBlocks(a, t, none) = [k \in {} |-> Kept(a, t, none, k)]
  BY <1>3, SignedAre
<1>5. QED BY <1>4 DEF none

----------------------------------------------------------------------------
(* What a message says, and what merging leaves of it. *)

Body(m) == Content(m, <<>>)
Unthinking(x) == \A k \in DOMAIN x : x[k].type \notin Thinking

LEMMA CatAssoc ==
  ASSUME NEW T, NEW x \in Seq(T), NEW y \in Seq(T), NEW z \in Seq(T)
  PROVE  Cat(Cat(x, y), z) = Cat(x, Cat(y, z))
<1> DEFINE l == Cat(Cat(x, y), z)
           r == Cat(x, Cat(y, z))
<1>1. /\ Cat(x, y) \in Seq(T) /\ Len(Cat(x, y)) = Len(x) + Len(y)
      /\ Cat(y, z) \in Seq(T) /\ Len(Cat(y, z)) = Len(y) + Len(z)
  BY Joined
<1>2. /\ l \in Seq(T) /\ Len(l) = Len(Cat(x, y)) + Len(z)
      /\ r \in Seq(T) /\ Len(r) = Len(x) + Len(Cat(y, z))
  <2> DEFINE xy == Cat(x, y)
             yz == Cat(y, z)
  <2>1. xy \in Seq(T) /\ yz \in Seq(T)
    BY <1>1
  <2> HIDE DEF xy, yz
  <2>2. Cat(xy, z) \in Seq(T) /\ Len(Cat(xy, z)) = Len(xy) + Len(z)
    BY <2>1, Joined
  <2>3. Cat(x, yz) \in Seq(T) /\ Len(Cat(x, yz)) = Len(x) + Len(yz)
    BY <2>1, Joined
  <2>4. QED BY <2>2, <2>3 DEF xy, yz
<1>3. \A k \in 1 .. Len(l) : l[k] = r[k]
  BY DEF Cat
<1>4. Len(x) \in Nat /\ Len(y) \in Nat /\ Len(z) \in Nat
  OBVIOUS
<1>5. Len(l) = Len(r)
  BY <1>1, <1>2, <1>4
<1> HIDE DEF l, r
<1>6. l = r
  BY <1>2, <1>3, <1>5, SameList
<1>7. QED BY <1>6 DEF l, r

LEMMA CatNothing ==
  ASSUME NEW T, NEW y \in Seq(T)
  PROVE  Cat(<<>>, y) = y
BY DEF Cat

LEMMA ContentIs ==
  ASSUME NEW m \in Messages, NEW th \in Seq(Thoughts),
         m.role # "tool" \/ th = <<>>, m.role = "tool" => m.result \in Names
  PROVE  /\ Content(m, th) = Cat(th, Body(m))
         /\ Body(m) \in Seq(Blocks) /\ Unthinking(Body(m))
         /\ Holds(Body(m), "tool_use") = CallsIn(m)
<1> DEFINE none == <<>>
<1>1. none \in Seq(Thoughts)
  OBVIOUS
<1>2. /\ Body(m) \in Seq(Blocks)
      /\ Holds(Body(m), "tool_use") = CallsIn(m)
      /\ \A t \in Thinking : Holds(Body(m), t) = {}
  BY <1>1, ContentHolds DEF Body
<1>3. Unthinking(Body(m))
  <2>1. ASSUME NEW k \in DOMAIN Body(m), Body(m)[k].type \in Thinking
        PROVE  FALSE
    <3>1. Body(m)[k].name \in Holds(Body(m), Body(m)[k].type)
      BY DEF Holds
    <3>2. QED BY <1>2, <2>1, <3>1
  <2>2. QED BY <2>1 DEF Unthinking
<1>4. th \in Seq(Blocks)
  BY ThoughtsHold
<1>5. CASE th = <<>>
  <2>1. Cat(<<>>, Body(m)) = Body(m)
    BY <1>2, CatNothing
  <2>2. QED BY <1>2, <1>3, <1>5, <2>1 DEF Body
<1>6. CASE m.role # "tool"
  <2> DEFINE text == TextOf(m)
             uses == UsesOf(m)
  <2>1. text \in Seq(Blocks) /\ uses \in Seq(Blocks)
    BY TextHolds, UsesHold
  <2>2. /\ Content(m, th) = Cat(Cat(th, text), uses)
        /\ Body(m) = Cat(Cat(<<>>, text), uses)
    BY <1>6 DEF Content, Cat, TextOf, UsesOf, Body
  <2> HIDE DEF text, uses
  <2>3. Cat(<<>>, text) = text
    BY <2>1, CatNothing
  <2>4. Cat(Cat(th, text), uses) = Cat(th, Cat(text, uses))
    BY <1>4, <2>1, CatAssoc
  <2>5. QED BY <1>2, <1>3, <2>2, <2>3, <2>4
<1>7. QED BY <1>5, <1>6

\* Nothing that is not there already is stripped, ...
LEMMA StripsNone ==
  ASSUME NEW T, NEW e, NEW x \in Seq(T),
         \A k \in DOMAIN x : \/ x[k].type \notin Thinking
                             \/ \A i \in DOMAIN e : e[i] # x[k]
  PROVE  StripDuplicateThinking(e, x) = x
<1> DEFINE S == {k \in DOMAIN x : \/ x[k].type \notin Thinking
                                  \/ \A i \in DOMAIN e : e[i] # x[k]}
           n == Len(x)
<1>1. n \in Nat /\ S = 0 + 1 .. 0 + n /\ 0 + n <= Len(x) /\ 0 \in Nat
  OBVIOUS
<1>2. StripDuplicateThinking(e, x) = Picked(x, S)
  BY DEF StripDuplicateThinking
<1> HIDE DEF S
<1>3. Picked(x, 0 + 1 .. 0 + n) = Run(x, 0, n)
  BY <1>1, PickedRun
<1>4. x = [k \in 1 .. n |-> x[k]] /\ \A k \in 1 .. n : 0 + k = k
  OBVIOUS
<1>5. Run(x, 0, n) = [k \in 1 .. n |-> x[k]]
  BY <1>4 DEF Run
<1>6. QED BY <1>1, <1>2, <1>3, <1>4, <1>5

\* ... and what leads and is there already is.
LEMMA StripsLead ==
  ASSUME NEW T, NEW e, NEW x \in Seq(T), NEW y \in Seq(T), Unthinking(y),
         \A k \in DOMAIN x : /\ x[k].type \in Thinking
                             /\ \E i \in DOMAIN e : e[i] = x[k]
  PROVE  StripDuplicateThinking(e, Cat(x, y)) = y
<1>10. /\ Cat(x, y) \in Seq(T) /\ Len(Cat(x, y)) = Len(x) + Len(y)
       /\ \A k \in DOMAIN x :
            k \in DOMAIN Cat(x, y) /\ Cat(x, y)[k] = x[k]
       /\ \A k \in DOMAIN y : /\ Len(x) + k \in DOMAIN Cat(x, y)
                              /\ Cat(x, y)[Len(x) + k] = y[k]
       /\ \A k \in DOMAIN Cat(x, y) :
            k \in DOMAIN x \/ k - Len(x) \in DOMAIN y
  BY Joined
<1> DEFINE z == Cat(x, y)
           p == Len(x)
           n == Len(y)
           S == {k \in DOMAIN z : \/ z[k].type \notin Thinking
                                  \/ \A i \in DOMAIN e : e[i] # z[k]}
<1>1. /\ z \in Seq(T) /\ Len(z) = p + n /\ p \in Nat /\ n \in Nat
      /\ DOMAIN x = 1 .. p /\ DOMAIN y = 1 .. n /\ DOMAIN z = 1 .. p + n
      /\ \A k \in 1 .. p : z[k] = x[k]
      /\ \A k \in 1 .. n : z[p + k] = y[k]
  <2>1. /\ z \in Seq(T) /\ Len(z) = p + n
        /\ \A k \in DOMAIN x : z[k] = x[k]
        /\ \A k \in DOMAIN y : z[p + k] = y[k]
    BY <1>10
  <2>2. p \in Nat /\ n \in Nat /\ DOMAIN x = 1 .. p /\ DOMAIN y = 1 .. n
    OBVIOUS
  <2> HIDE DEF z, p, n
  <2>3. DOMAIN z = 1 .. p + n
    BY <2>1
  <2>4. QED BY <2>1, <2>2, <2>3
<1>2. StripDuplicateThinking(e, z) = Picked(z, S)
  BY DEF StripDuplicateThinking
<1>3. \A k \in S : k \in DOMAIN z
                   /\ \/ z[k].type \notin Thinking
                      \/ \A i \in DOMAIN e : e[i] # z[k]
  OBVIOUS
<1>4. \A k \in DOMAIN z : z[k].type \notin Thinking => k \in S
  OBVIOUS
<1> HIDE DEF z, S, p, n
<1>5. S = p + 1 .. p + n
  <2>1. ASSUME NEW k \in S PROVE k \in p + 1 .. p + n
    <3>1. k \notin 1 .. p
      BY <1>1, <1>3
    <3>2. QED BY <1>1, <1>3, <3>1
  <2>2. ASSUME NEW k \in p + 1 .. p + n PROVE k \in S
    <3>1. k \in 1 .. p + n /\ k - p \in 1 .. n /\ p + (k - p) = k
      BY <1>1
    <3>2. z[k] = y[k - p]
      BY <1>1, <3>1
    <3>3. y[k - p].type \notin Thinking
      BY <1>1, <3>1 DEF Unthinking
    <3>4. QED BY <1>1, <1>4, <3>1, <3>2, <3>3
  <2>3. QED BY <2>1, <2>2
<1>6. Picked(z, p + 1 .. p + n) = Run(z, p, n)
  BY <1>1, PickedRun
<1>7. y = [k \in 1 .. n |-> y[k]]
  BY <1>1
<1>8. Run(z, p, n) = [k \in 1 .. n |-> y[k]]
  BY <1>1 DEF Run
<1>9. QED BY <1>2, <1>5, <1>6, <1>7, <1>8 DEF z

----------------------------------------------------------------------------
(* The places of thinking and calls in a message that grows. *)

TurnOfId(id) == <<id[1], id[2]>>

\* The calls of a turn, by place and by name.
LEMMA CallPlaces2 ==
  ASSUME NEW e, NEW turn
  PROVE  /\ \A j \in CallsOf(e, turn) : /\ e[j].name \in Holds(e, "tool_use")
                                        /\ TurnOfId(e[j].name) = turn
         /\ \A id \in Holds(e, "tool_use") : TurnOfId(id) = turn =>
              \E j \in CallsOf(e, turn) : e[j].name = id
<1>1. ASSUME NEW j \in CallsOf(e, turn)
      PROVE  e[j].name \in Holds(e, "tool_use") /\ TurnOfId(e[j].name) = turn
  <2>1. j \in DOMAIN e /\ e[j].type = "tool_use" /\ TurnOf(e[j]) = turn
    BY DEF CallsOf
  <2>2. QED BY <2>1 DEF Holds, TurnOf, TurnOfId
<1>2. ASSUME NEW id \in Holds(e, "tool_use"), TurnOfId(id) = turn
      PROVE  \E j \in CallsOf(e, turn) : e[j].name = id
  <2>1. PICK j \in DOMAIN e : e[j].type = "tool_use" /\ e[j].name = id
    BY DEF Holds
  <2>2. TurnOf(e[j]) = turn
    BY <1>2, <2>1 DEF TurnOf, TurnOfId
  <2>3. j \in CallsOf(e, turn)
    BY <2>1, <2>2 DEF CallsOf
  <2>4. QED BY <2>1, <2>3
<1>3. QED BY <1>1, <1>2

LEMMA PlacesBoth ==
  ASSUME NEW T, NEW x \in Seq(T), NEW y \in Seq(T), NEW turn
  PROVE  LET z == Cat(x, y)
         IN /\ \A j \in DOMAIN x :
                 /\ j \in ThoughtsOf(z, turn) <=> j \in ThoughtsOf(x, turn)
                 /\ j \in CallsOf(z, turn) <=> j \in CallsOf(x, turn)
            /\ \A k \in DOMAIN y :
                 /\ Len(x) + k \in ThoughtsOf(z, turn)
                      <=> k \in ThoughtsOf(y, turn)
                 /\ Len(x) + k \in CallsOf(z, turn) <=> k \in CallsOf(y, turn)
            /\ ThoughtsOf(z, turn) \subseteq DOMAIN z
            /\ CallsOf(z, turn) \subseteq DOMAIN z
            /\ ThoughtsOf(x, turn) \subseteq DOMAIN x
            /\ CallsOf(x, turn) \subseteq DOMAIN x
<1>1. /\ Cat(x, y) \in Seq(T) /\ Len(Cat(x, y)) = Len(x) + Len(y)
      /\ \A k \in DOMAIN x : k \in DOMAIN Cat(x, y) /\ Cat(x, y)[k] = x[k]
      /\ \A k \in DOMAIN y : /\ Len(x) + k \in DOMAIN Cat(x, y)
                             /\ Cat(x, y)[Len(x) + k] = y[k]
      /\ \A k \in DOMAIN Cat(x, y) :
           k \in DOMAIN x \/ k - Len(x) \in DOMAIN y
  BY Joined
<1> DEFINE z == Cat(x, y)
<1>2. /\ \A j \in DOMAIN x : j \in DOMAIN z /\ z[j] = x[j]
      /\ \A k \in DOMAIN y : Len(x) + k \in DOMAIN z /\ z[Len(x) + k] = y[k]
  BY <1>1
<1> HIDE DEF z
<1>3. ASSUME NEW s, NEW j, NEW w, NEW i, i \in DOMAIN w, j \in DOMAIN s,
             s[j] = w[i]
      PROVE  /\ j \in ThoughtsOf(s, turn) <=> i \in ThoughtsOf(w, turn)
             /\ j \in CallsOf(s, turn) <=> i \in CallsOf(w, turn)
  BY <1>3 DEF ThoughtsOf, Replayed, CallsOf
<1>4. \A j \in DOMAIN x :
        /\ j \in ThoughtsOf(z, turn) <=> j \in ThoughtsOf(x, turn)
        /\ j \in CallsOf(z, turn) <=> j \in CallsOf(x, turn)
  BY <1>2, <1>3
<1>5. \A k \in DOMAIN y :
        /\ Len(x) + k \in ThoughtsOf(z, turn) <=> k \in ThoughtsOf(y, turn)
        /\ Len(x) + k \in CallsOf(z, turn) <=> k \in CallsOf(y, turn)
  <2>1. ASSUME NEW k \in DOMAIN y
        PROVE  /\ Len(x) + k \in ThoughtsOf(z, turn)
                    <=> k \in ThoughtsOf(y, turn)
               /\ Len(x) + k \in CallsOf(z, turn) <=> k \in CallsOf(y, turn)
    <3> DEFINE j == Len(x) + k
    <3>1. j \in DOMAIN z /\ z[j] = y[k]
      BY <1>2
    <3> HIDE DEF j
    <3>2. /\ j \in ThoughtsOf(z, turn) <=> k \in ThoughtsOf(y, turn)
          /\ j \in CallsOf(z, turn) <=> k \in CallsOf(y, turn)
      BY <1>3, <3>1
    <3>3. QED BY <3>2 DEF j
  <2>2. QED BY <2>1
<1>6. \A s : ThoughtsOf(s, turn) \subseteq DOMAIN s
             /\ CallsOf(s, turn) \subseteq DOMAIN s
  BY DEF ThoughtsOf, Replayed, CallsOf
<1>7. QED BY <1>4, <1>5, <1>6 DEF z

\* What is added has no thinking of the turn.
LEMMA Elsewhere ==
  ASSUME NEW T, NEW e \in Seq(T), NEW x \in Seq(T), NEW turn,
         ThoughtsOf(x, turn) = {}
  PROVE  LET z == Cat(e, x)
         IN /\ ThoughtsOf(z, turn) = ThoughtsOf(e, turn)
            /\ \A s : InPlace(e, turn, s) /\ Len(s) \in Nat
                      /\ ThoughtsOf(e, turn) # {} => InPlace(z, turn, s)
            /\ CallsOf(x, turn) = {} /\ Leading(e, turn) => Leading(z, turn)
<1> DEFINE z == Cat(e, x)
<1>1. /\ z \in Seq(T) /\ Len(z) = Len(e) + Len(x)
      /\ \A k \in DOMAIN e : k \in DOMAIN z /\ z[k] = e[k]
      /\ \A k \in DOMAIN x : /\ Len(e) + k \in DOMAIN z
                             /\ z[Len(e) + k] = x[k]
      /\ \A k \in DOMAIN z : k \in DOMAIN e \/ k - Len(e) \in DOMAIN x
  BY Joined
<1>2. /\ \A j \in DOMAIN e :
           /\ j \in ThoughtsOf(z, turn) <=> j \in ThoughtsOf(e, turn)
           /\ j \in CallsOf(z, turn) <=> j \in CallsOf(e, turn)
      /\ \A k \in DOMAIN x :
           /\ Len(e) + k \in ThoughtsOf(z, turn) <=> k \in ThoughtsOf(x, turn)
           /\ Len(e) + k \in CallsOf(z, turn) <=> k \in CallsOf(x, turn)
      /\ ThoughtsOf(z, turn) \subseteq DOMAIN z
      /\ CallsOf(z, turn) \subseteq DOMAIN z
      /\ ThoughtsOf(e, turn) \subseteq DOMAIN e
      /\ CallsOf(e, turn) \subseteq DOMAIN e
  BY PlacesBoth
<1>3. /\ Len(e) \in Nat /\ Len(x) \in Nat /\ DOMAIN e = 1 .. Len(e)
      /\ DOMAIN x = 1 .. Len(x)
  OBVIOUS
<1> HIDE DEF z
<1>4. \A j \in DOMAIN z : j \notin DOMAIN e =>
        j - Len(e) \in DOMAIN x /\ Len(e) + (j - Len(e)) = j
  <2>1. DOMAIN z = 1 .. Len(e) + Len(x)
    BY <1>1, <1>3
  <2>2. QED BY <1>3, <2>1
<1>5. ThoughtsOf(z, turn) = ThoughtsOf(e, turn)
  <2>1. ASSUME NEW j \in ThoughtsOf(z, turn) PROVE j \in ThoughtsOf(e, turn)
    <3>1. CASE j \in DOMAIN e
      BY <1>2, <3>1
    <3>2. CASE j \notin DOMAIN e
      <4>1. j - Len(e) \in ThoughtsOf(x, turn)
        BY <1>2, <1>4, <3>2
      <4>2. QED BY <4>1
    <3>3. QED BY <3>1, <3>2
  <2>2. ASSUME NEW j \in ThoughtsOf(e, turn) PROVE j \in ThoughtsOf(z, turn)
    BY <1>2
  <2>3. QED BY <2>1, <2>2
<1>6. ASSUME NEW s, InPlace(e, turn, s), Len(s) \in Nat,
             ThoughtsOf(e, turn) # {}
      PROVE  InPlace(z, turn, s)
  <2>1. PICK p \in 0 .. Len(e) :
          /\ ThoughtsOf(e, turn) = p + 1 .. p + Len(s)
          /\ \A k \in 1 .. Len(s) : e[p + k] = s[k]
    BY <1>6 DEF InPlace
  <2>2. \A k \in 1 .. Len(s) : p + k \in DOMAIN e
    <3>1. ASSUME NEW k \in 1 .. Len(s) PROVE p + k \in DOMAIN e
      <4>1. p + k \in p + 1 .. p + Len(s)
        BY <1>3, <1>6
      <4>2. QED BY <1>2, <2>1, <4>1
    <3>2. QED BY <3>1
  <2>3. \A k \in 1 .. Len(s) : z[p + k] = s[k]
    BY <1>1, <2>1, <2>2
  <2>4. p \in 0 .. Len(z)
    BY <1>1, <1>3
  <2>5. QED BY <1>5, <2>1, <2>3, <2>4 DEF InPlace
<1>7. ASSUME CallsOf(x, turn) = {}, Leading(e, turn) PROVE Leading(z, turn)
  <2>1. ASSUME NEW j \in CallsOf(z, turn) PROVE j \in CallsOf(e, turn)
    <3>1. CASE j \in DOMAIN e
      BY <1>2, <3>1
    <3>2. CASE j \notin DOMAIN e
      <4>1. j - Len(e) \in CallsOf(x, turn)
        BY <1>2, <1>4, <3>2
      <4>2. QED BY <1>7, <4>1
    <3>3. QED BY <3>1, <3>2
  <2>2. QED BY <1>5, <1>7, <2>1 DEF Leading
<1>8. QED BY <1>5, <1>6, <1>7 DEF z

\* Thinking of the turn is brought, to where there was none.
LEMMA Brought ==
  ASSUME NEW T, NEW e \in Seq(T), NEW th \in Seq(T), NEW body \in Seq(T),
         NEW turn, ThoughtsOf(e, turn) = {}, Unthinking(body),
         \A k \in DOMAIN th : th[k].type \in Thinking /\ TurnOf(th[k]) = turn
  PROVE  LET z == Cat(e, Cat(th, body))
         IN /\ InPlace(z, turn, th)
            /\ CallsOf(e, turn) = {} => Leading(z, turn)
<1> DEFINE x == Cat(th, body)
           z == Cat(e, x)
           n == Len(e)
           l == Len(th)
<1>1. /\ x \in Seq(T) /\ Len(x) = l + Len(body)
      /\ \A k \in DOMAIN th : k \in DOMAIN x /\ x[k] = th[k]
      /\ \A k \in DOMAIN body : /\ l + k \in DOMAIN x
                                /\ x[l + k] = body[k]
      /\ \A k \in DOMAIN x : k \in DOMAIN th \/ k - l \in DOMAIN body
  BY Joined
<1>2. /\ n \in Nat /\ l \in Nat /\ DOMAIN e = 1 .. n /\ DOMAIN th = 1 .. l
      /\ DOMAIN body = 1 .. Len(body) /\ Len(body) \in Nat
  OBVIOUS
<1> HIDE DEF x
<1>3. /\ z \in Seq(T) /\ Len(z) = n + Len(x)
      /\ \A k \in DOMAIN e : k \in DOMAIN z /\ z[k] = e[k]
      /\ \A k \in DOMAIN x : n + k \in DOMAIN z /\ z[n + k] = x[k]
      /\ \A k \in DOMAIN z : k \in DOMAIN e \/ k - n \in DOMAIN x
  BY <1>1, Joined
<1>4. /\ \A j \in DOMAIN e :
           /\ j \in ThoughtsOf(z, turn) <=> j \in ThoughtsOf(e, turn)
           /\ j \in CallsOf(z, turn) <=> j \in CallsOf(e, turn)
      /\ \A k \in DOMAIN x :
           /\ n + k \in ThoughtsOf(z, turn) <=> k \in ThoughtsOf(x, turn)
           /\ n + k \in CallsOf(z, turn) <=> k \in CallsOf(x, turn)
      /\ ThoughtsOf(z, turn) \subseteq DOMAIN z
      /\ CallsOf(z, turn) \subseteq DOMAIN z
      /\ ThoughtsOf(e, turn) \subseteq DOMAIN e
      /\ CallsOf(e, turn) \subseteq DOMAIN e
  BY <1>1, PlacesBoth
<1> HIDE DEF z, n, l
<1>5. DOMAIN x = 1 .. l + Len(body) /\ DOMAIN z = 1 .. n + (l + Len(body))
  BY <1>1, <1>2, <1>3
<1>6. \A k \in 1 .. l : x[k].type \in Thinking /\ TurnOf(x[k]) = turn
  BY <1>1, <1>2
<1>7. ASSUME NEW k \in l + 1 .. l + Len(body)
      PROVE  x[k].type \notin Thinking
  <2>1. k - l \in DOMAIN body /\ l + (k - l) = k
    BY <1>2
  <2>2. x[k] = body[k - l]
    BY <1>1, <2>1
  <2>3. QED BY <2>1, <2>2 DEF Unthinking
<1>8. ThoughtsOf(x, turn) = 1 .. l
  <2>1. ASSUME NEW k \in ThoughtsOf(x, turn) PROVE k \in 1 .. l
    <3>1. k \in DOMAIN x /\ x[k].type \in Thinking
      BY DEF ThoughtsOf, Replayed
    <3>2. k \notin l + 1 .. l + Len(body)
      BY <1>7, <3>1
    <3>3. QED BY <1>2, <1>5, <3>1, <3>2
  <2>2. ASSUME NEW k \in 1 .. l PROVE k \in ThoughtsOf(x, turn)
    <3>1. k \in DOMAIN x
      BY <1>2, <1>5
    <3>2. QED BY <1>6, <3>1 DEF ThoughtsOf, Replayed
  <2>3. QED BY <2>1, <2>2
<1>9. \A j \in DOMAIN z : j \notin DOMAIN e =>
        j - n \in DOMAIN x /\ n + (j - n) = j
  BY <1>2, <1>5
<1>10. ThoughtsOf(z, turn) = n + 1 .. n + l
  <2>1. ASSUME NEW j \in ThoughtsOf(z, turn) PROVE j \in n + 1 .. n + l
    <3>1. j \in DOMAIN z /\ j \notin DOMAIN e
      BY <1>4
    <3>2. j - n \in 1 .. l /\ n + (j - n) = j
      BY <1>4, <1>8, <1>9, <3>1
    <3>3. j \in Int
      BY <1>2, <1>5, <3>1
    <3>4. QED BY <1>2, <3>2, <3>3
  <2>2. ASSUME NEW j \in n + 1 .. n + l PROVE j \in ThoughtsOf(z, turn)
    <3>1. j - n \in 1 .. l /\ n + (j - n) = j /\ j - n \in DOMAIN x
      BY <1>2, <1>5
    <3>2. QED BY <1>4, <1>8, <3>1
  <2>3. QED BY <2>1, <2>2
<1>11. InPlace(z, turn, th)
  <2>1. n \in 0 .. Len(z)
    <3>1. Len(x) \in Nat
      BY <1>1
    <3>2. QED BY <1>2, <1>3, <3>1
  <2>2. \A k \in 1 .. l : z[n + k] = th[k]
    BY <1>1, <1>2, <1>3
  <2>3. QED BY <1>10, <2>1, <2>2 DEF InPlace, l
<1>12. ASSUME CallsOf(e, turn) = {} PROVE Leading(z, turn)
  <2>1. ASSUME NEW j \in CallsOf(z, turn) PROVE j \notin DOMAIN e
    BY <1>4, <1>12
  <2>2. ASSUME NEW j \in CallsOf(z, turn), NEW i \in n + 1 .. n + l
        PROVE  i < j
    <3>1. j \in DOMAIN z /\ j \notin DOMAIN e
      BY <1>4, <2>1
    <3>2. j - n \in DOMAIN x /\ n + (j - n) = j /\ j \in Int
      BY <1>5, <1>9, <3>1
    <3>3. j - n \in CallsOf(x, turn)
      BY <1>4, <3>2
    <3>4. x[j - n].type = "tool_use"
      BY <3>3 DEF CallsOf
    <3>5. j - n \notin 1 .. l
      BY <1>6, <3>4 DEF Thinking
    <3>6. QED BY <1>2, <1>5, <3>2, <3>5
  <2>3. QED BY <1>10, <2>2 DEF Leading
<1>13. QED BY <1>11, <1>12 DEF z, x

----------------------------------------------------------------------------
(* A message is added to a translated one. *)

ContentOK(a, e, sp, last, msgs) ==
  /\ \A j \in Replayed(e) : \E t \in 1 .. last : TurnOf(e[j]) = <<a, t>>
  /\ \A t \in 1 .. last : ThoughtsOf(e, <<a, t>>) # {} =>
       /\ InPlace(e, <<a, t>>, Given(a, sp, t))
       /\ CallsOf(e, <<a, t>>) # {}
       /\ Uncut(msgs, t) => Leading(e, <<a, t>>)

\* What is put back under a message.
BroughtBy(a, m, sp, last, th) ==
  \/ th = <<>>
  \/ \E t \in 1 .. last : th = Given(a, sp, t) /\ CalledIn(m, t) # {}

LEMMA Strips ==
  ASSUME NEW a, NEW sp, NEW last, NEW msgs, NEW e \in Seq(Blocks),
         ContentOK(a, e, sp, last, msgs), NEW t \in 1 .. last,
         Given(a, sp, t) \in Seq(Thoughts), NEW body \in Seq(Blocks),
         Unthinking(body)
  PROVE  LET th == Given(a, sp, t)
             x == StripDuplicateThinking(e, Cat(th, body))
         IN /\ ThoughtsOf(e, <<a, t>>) = {} => x = Cat(th, body)
            /\ ThoughtsOf(e, <<a, t>>) # {} => x = body
<1> DEFINE th == Given(a, sp, t)
           turn == <<a, t>>
<1>1. \A k \in DOMAIN th : th[k].type \in Thinking /\ TurnOf(th[k]) = turn
  BY SignedOf DEF Given
<1>2. th \in Seq(Blocks)
  BY ThoughtsHold
<1> HIDE DEF th, turn
<1>3. CASE ThoughtsOf(e, turn) = {}
  <2> DEFINE x == Cat(th, body)
  <2>1. /\ x \in Seq(Blocks) /\ Len(x) = Len(th) + Len(body)
        /\ \A k \in DOMAIN th : k \in DOMAIN x /\ x[k] = th[k]
        /\ \A k \in DOMAIN body : /\ Len(th) + k \in DOMAIN x
                                  /\ x[Len(th) + k] = body[k]
        /\ \A k \in DOMAIN x : k \in DOMAIN th \/ k - Len(th) \in DOMAIN body
    BY <1>2, Joined
  <2> HIDE DEF x
  <2>2. ASSUME NEW k \in DOMAIN x, x[k].type \in Thinking,
               NEW i \in DOMAIN e
        PROVE  e[i] # x[k]
    <3>1. CASE k \in DOMAIN th
      <4>1. TurnOf(x[k]) = turn
        BY <1>1, <2>1, <3>1
      <4>2. e[i] = x[k] => i \in ThoughtsOf(e, turn)
        BY <2>2, <4>1 DEF ThoughtsOf, Replayed
      <4>3. QED BY <1>3, <4>2
    <3>2. CASE k \notin DOMAIN th
      <4>1. k - Len(th) \in DOMAIN body /\ Len(th) + (k - Len(th)) = k
        BY <1>2, <2>1, <3>2
      <4>2. x[k] = body[k - Len(th)]
        BY <2>1, <4>1
      <4>3. QED BY <2>2, <4>1, <4>2 DEF Unthinking
    <3>3. QED BY <3>1, <3>2
  <2>3. \A k \in DOMAIN x : \/ x[k].type \notin Thinking
                            \/ \A i \in DOMAIN e : e[i] # x[k]
    BY <2>2
  <2>4. StripDuplicateThinking(e, x) = x
    BY <2>1, <2>3, StripsNone
  <2>5. QED BY <1>3, <2>4 DEF x, th, turn
<1>4. CASE ThoughtsOf(e, turn) # {}
  <2>1. InPlace(e, turn, th)
    BY <1>4 DEF ContentOK, th, turn
  <2>2. PICK p \in 0 .. Len(e) :
          /\ ThoughtsOf(e, turn) = p + 1 .. p + Len(th)
          /\ \A k \in 1 .. Len(th) : e[p + k] = th[k]
    BY <2>1 DEF InPlace
  <2>3. ASSUME NEW k \in DOMAIN th
        PROVE  th[k].type \in Thinking /\ \E i \in DOMAIN e : e[i] = th[k]
    <3>1. k \in 1 .. Len(th) /\ p + k \in p + 1 .. p + Len(th)
      BY <1>2
    <3>2. p + k \in DOMAIN e
      BY <2>2, <3>1 DEF ThoughtsOf, Replayed
    <3>3. QED BY <1>1, <2>2, <3>1, <3>2
  <2>4. StripDuplicateThinking(e, Cat(th, body)) = body
    BY <1>2, <2>3, StripsLead
  <2>5. QED BY <1>4, <2>4 DEF th, turn
<1>5. QED BY <1>3, <1>4

LEMMA ContentGrows ==
  ASSUME NEW a, NEW sp \in Seq(Seq(BlockRecords)), NEW last \in Nat,
         last <= Len(sp), NEW msgs, NEW e \in Seq(Blocks),
         ContentOK(a, e, sp, last, msgs), NEW m \in Messages,
         MakesOK(a, m, last), m.role = "tool" => m.result \in Names,
         NEW th \in Seq(Thoughts), BroughtBy(a, m, sp, last, th),
         \A t \in 1 .. last :
           CalledIn(m, t) # {} /\ CallsOf(e, <<a, t>>) # {} => ~Uncut(msgs, t)
  PROVE  ContentOK(a, Cat(e, StripDuplicateThinking(e, Content(m, th))),
                   sp, last, msgs)
<1> DEFINE body == Body(m)
           x == StripDuplicateThinking(e, Content(m, th))
           z == Cat(e, x)
<1>1. m.role # "tool" \/ th = <<>>
  BY DEF BroughtBy, CalledIn, MakesOK
<1>2. /\ Content(m, th) = Cat(th, body) /\ body \in Seq(Blocks)
      /\ Unthinking(body) /\ Holds(body, "tool_use") = CallsIn(m)
  BY <1>1, ContentIs
<1>3. /\ th \in Seq(Blocks) /\ Holds(th, "tool_use") = {}
  <2>1. \A type : type \notin Thinking => Holds(th, type) = {}
    BY ThoughtsHold
  <2>2. QED BY <2>1, ThoughtsHold DEF Thinking
<1>4. \/ x = body
      \/ /\ x = Cat(th, body)
         /\ \E t \in 1 .. last : /\ th = Given(a, sp, t)
                                 /\ CalledIn(m, t) # {}
                                 /\ ThoughtsOf(e, <<a, t>>) = {}
  <2>1. CASE th = <<>>
    <3>1. Cat(th, body) = body
      BY <1>2, <2>1, CatNothing
    <3>2. StripDuplicateThinking(e, body) = body
      <4>1. \A k \in DOMAIN body : \/ body[k].type \notin Thinking
                                   \/ \A i \in DOMAIN e : e[i] # body[k]
        BY <1>2 DEF Unthinking
      <4> HIDE DEF body
      <4>2. QED BY <1>2, <4>1, StripsNone
    <3>3. QED BY <1>2, <3>1, <3>2
  <2>2. CASE th # <<>>
    <3>1. PICK t \in 1 .. last : th = Given(a, sp, t) /\ CalledIn(m, t) # {}
      BY <2>2 DEF BroughtBy
    <3>2. Given(a, sp, t) \in Seq(Thoughts)
      BY <3>1
    <3> HIDE DEF body
    <3>3. body \in Seq(Blocks) /\ Unthinking(body)
      BY <1>2
    <3>4. LET y == StripDuplicateThinking(e, Cat(Given(a, sp, t), body))
          IN /\ ThoughtsOf(e, <<a, t>>) = {} =>
                  y = Cat(Given(a, sp, t), body)
             /\ ThoughtsOf(e, <<a, t>>) # {} => y = body
      BY <3>2, <3>3, Strips
    <3>5. x = IF ThoughtsOf(e, <<a, t>>) = {} THEN Cat(th, body) ELSE body
      BY <1>2, <3>1, <3>4
    <3>6. QED BY <3>1, <3>5
  <2>3. QED BY <2>1, <2>2
<1>5. x \in Seq(Blocks) /\ Holds(x, "tool_use") = CallsIn(m)
  <2>1. /\ Cat(th, body) \in Seq(Blocks)
        /\ Holds(Cat(th, body), "tool_use")
             = Holds(th, "tool_use") \cup Holds(body, "tool_use")
    <3>1. th \in Seq(Blocks) /\ body \in Seq(Blocks)
      BY <1>2, <1>3
    <3> HIDE DEF body
    <3>2. /\ Cat(th, body) \in Seq(Blocks)
          /\ Len(Cat(th, body)) = Len(th) + Len(body)
      BY <3>1, Joined
    <3>3. Holds(Cat(th, body), "tool_use")
            = Holds(th, "tool_use") \cup Holds(body, "tool_use")
      BY <3>1, HoldsBoth
    <3>4. QED BY <3>2, <3>3
  <2>2. QED BY <1>2, <1>3, <1>4, <2>1
<1> HIDE DEF body, x, z
<1>6. /\ z \in Seq(Blocks) /\ Len(z) = Len(e) + Len(x)
      /\ \A k \in DOMAIN e : k \in DOMAIN z /\ z[k] = e[k]
      /\ \A k \in DOMAIN x : /\ Len(e) + k \in DOMAIN z
                             /\ z[Len(e) + k] = x[k]
      /\ \A k \in DOMAIN z : k \in DOMAIN e \/ k - Len(e) \in DOMAIN x
  BY <1>5, Joined DEF z
<1>7. ASSUME NEW t \in 1 .. last, NEW j \in CallsOf(x, <<a, t>>)
      PROVE  CalledIn(m, t) # {}
  <2> DEFINE id == x[j].name
  <2>1. id \in Holds(x, "tool_use") /\ TurnOfId(id) = <<a, t>>
    BY <1>7, CallPlaces2
  <2>2. id \in Called(m) /\ id[2] = t
    BY <1>5, <2>1 DEF CallsIn, TurnOfId
  <2> HIDE DEF id
  <2>3. QED BY <2>2 DEF Called, CalledIn
<1>8. ASSUME NEW t \in 1 .. last, ThoughtsOf(x, <<a, t>>) = {},
             ThoughtsOf(z, <<a, t>>) # {}
      PROVE  /\ InPlace(z, <<a, t>>, Given(a, sp, t))
             /\ CallsOf(z, <<a, t>>) # {}
             /\ Uncut(msgs, t) => Leading(z, <<a, t>>)
  <2> DEFINE turn == <<a, t>>
             s == Given(a, sp, t)
  <2>1. /\ ThoughtsOf(z, turn) = ThoughtsOf(e, turn)
        /\ \A w : InPlace(e, turn, w) /\ Len(w) \in Nat
                  /\ ThoughtsOf(e, turn) # {} => InPlace(z, turn, w)
        /\ CallsOf(x, turn) = {} /\ Leading(e, turn) => Leading(z, turn)
    BY <1>5, <1>8, Elsewhere DEF z
  <2>2. /\ InPlace(e, turn, s) /\ CallsOf(e, turn) # {}
        /\ Uncut(msgs, t) => Leading(e, turn)
    BY <1>8, <2>1 DEF ContentOK
  <2>3. Len(s) \in Nat
    <3>1. t \in DOMAIN sp
      OBVIOUS
    <3>2. sp[t] \in Seq(BlockRecords)
      BY <3>1, ElementOf
    <3>3. QED BY <3>2, SignedLength DEF Given
  <2>4. CallsOf(z, turn) # {}
    <3>1. \A j \in DOMAIN e : j \in CallsOf(z, turn) <=> j \in CallsOf(e, turn)
      BY <1>5, PlacesBoth DEF z
    <3>2. CallsOf(e, turn) \subseteq DOMAIN e
      BY DEF CallsOf
    <3>3. QED BY <2>2, <3>1, <3>2
  <2>5. ASSUME Uncut(msgs, t) PROVE CallsOf(x, turn) = {}
    BY <1>7, <2>2, <2>5
  <2>6. QED BY <1>8, <2>1, <2>2, <2>3, <2>4, <2>5
<1>9. CASE x = body
  <2>1. \A t : ThoughtsOf(x, <<a, t>>) = {}
    BY <1>2, <1>9 DEF ThoughtsOf, Replayed, Unthinking
  <2>2. ASSUME NEW j \in Replayed(z)
        PROVE  \E t \in 1 .. last : TurnOf(z[j]) = <<a, t>>
    <3>1. j \in DOMAIN z /\ z[j].type \in Thinking
      BY DEF Replayed
    <3>2. CASE j \in DOMAIN e
      <4>1. j \in Replayed(e) /\ z[j] = e[j]
        BY <1>6, <3>1, <3>2 DEF Replayed
      <4>2. QED BY <4>1 DEF ContentOK
    <3>3. CASE j \notin DOMAIN e
      <4>1. j - Len(e) \in DOMAIN x /\ Len(e) + (j - Len(e)) = j
        BY <1>5, <1>6, <3>1, <3>3
      <4>2. z[j] = x[j - Len(e)]
        BY <1>6, <4>1
      <4>3. QED BY <1>2, <1>9, <3>1, <4>1, <4>2 DEF Unthinking
    <3>4. QED BY <3>2, <3>3
  <2>3. QED BY <1>8, <2>1, <2>2 DEF ContentOK, z, x
<1>10. CASE /\ x = Cat(th, body)
            /\ \E t \in 1 .. last : /\ th = Given(a, sp, t)
                                    /\ CalledIn(m, t) # {}
                                    /\ ThoughtsOf(e, <<a, t>>) = {}
  <2>1. PICK t0 \in 1 .. last : /\ th = Given(a, sp, t0)
                                /\ CalledIn(m, t0) # {}
                                /\ ThoughtsOf(e, <<a, t0>>) = {}
    BY <1>10
  <2> DEFINE turn == <<a, t0>>
  <2>2. \A k \in DOMAIN th : th[k].type \in Thinking /\ TurnOf(th[k]) = turn
    BY <2>1, SignedOf DEF Given
  <2>3. /\ x \in Seq(Blocks) /\ Len(x) = Len(th) + Len(body)
        /\ \A k \in DOMAIN th : k \in DOMAIN x /\ x[k] = th[k]
        /\ \A k \in DOMAIN body : /\ Len(th) + k \in DOMAIN x
                                  /\ x[Len(th) + k] = body[k]
        /\ \A k \in DOMAIN x : k \in DOMAIN th \/ k - Len(th) \in DOMAIN body
    <3> DEFINE y == Cat(th, body)
    <3>1. /\ y \in Seq(Blocks) /\ Len(y) = Len(th) + Len(body)
          /\ \A k \in DOMAIN th : k \in DOMAIN y /\ y[k] = th[k]
          /\ \A k \in DOMAIN body : /\ Len(th) + k \in DOMAIN y
                                    /\ y[Len(th) + k] = body[k]
          /\ \A k \in DOMAIN y : k \in DOMAIN th \/ k - Len(th) \in DOMAIN body
      BY <1>2, <1>3, Joined
    <3>2. x = y
      BY <1>10
    <3> HIDE DEF y
    <3>3. QED BY <3>1, <3>2
  <2>4. ASSUME NEW k \in DOMAIN x, x[k].type \in Thinking
        PROVE  TurnOf(x[k]) = turn
    <3>1. CASE k \in DOMAIN th
      BY <2>2, <2>3, <3>1
    <3>2. CASE k \notin DOMAIN th
      <4>1. k - Len(th) \in DOMAIN body /\ Len(th) + (k - Len(th)) = k
        BY <1>3, <2>3, <3>2
      <4>2. x[k] = body[k - Len(th)]
        BY <2>3, <4>1
      <4>3. QED BY <1>2, <2>4, <4>1, <4>2 DEF Unthinking
    <3>3. QED BY <3>1, <3>2
  <2>5. ASSUME NEW j \in Replayed(z)
        PROVE  \E t \in 1 .. last : TurnOf(z[j]) = <<a, t>>
    <3>1. j \in DOMAIN z /\ z[j].type \in Thinking
      BY DEF Replayed
    <3>2. CASE j \in DOMAIN e
      <4>1. j \in Replayed(e) /\ z[j] = e[j]
        BY <1>6, <3>1, <3>2 DEF Replayed
      <4>2. QED BY <4>1 DEF ContentOK
    <3>3. CASE j \notin DOMAIN e
      <4>1. j - Len(e) \in DOMAIN x /\ Len(e) + (j - Len(e)) = j
        BY <1>5, <1>6, <3>1, <3>3
      <4>2. z[j] = x[j - Len(e)]
        BY <1>6, <4>1
      <4>3. TurnOf(z[j]) = turn
        BY <2>4, <3>1, <4>1, <4>2
      <4>4. QED BY <4>3
    <3>4. QED BY <3>2, <3>3
  <2>6. ASSUME NEW t \in 1 .. last, t # t0
        PROVE  ThoughtsOf(x, <<a, t>>) = {}
    <3>1. ASSUME NEW k \in ThoughtsOf(x, <<a, t>>) PROVE FALSE
      <4>1. TurnOf(x[k]) = <<a, t>> /\ TurnOf(x[k]) = turn
        BY <2>4, <3>1 DEF ThoughtsOf, Replayed
      <4>2. QED BY <2>6, <4>1
    <3>2. QED BY <3>1
  <2>7. /\ InPlace(z, turn, th)
        /\ CallsOf(e, turn) = {} => Leading(z, turn)
    <3> HIDE DEF turn
    <3>1. ThoughtsOf(e, turn) = {}
      BY <2>1 DEF turn
    <3>2. LET y == Cat(e, Cat(th, body))
          IN /\ InPlace(y, turn, th)
             /\ CallsOf(e, turn) = {} => Leading(y, turn)
      BY <1>2, <1>3, <2>2, <3>1, Brought
    <3>3. QED BY <1>10, <3>2 DEF z
  <2>8. CallsOf(z, turn) # {}
    <3>1. PICK k \in DOMAIN m.calls : m.calls[k][2] = t0
      BY <2>1 DEF CalledIn
    <3> DEFINE id == m.calls[k]
    <3>2. id[1] = a /\ id[2] = t0 /\ id \in Called(m)
      BY <3>1 DEF MakesOK, Called
    <3>3. id \in CallsIn(m)
      <4>1. m.role # "tool"
        BY <3>1 DEF MakesOK
      <4>2. QED BY <3>2, <4>1 DEF CallsIn
    <3> HIDE DEF id
    <3>4. Holds(z, "tool_use") = Holds(e, "tool_use") \cup Holds(x, "tool_use")
      BY <1>5, HoldsBoth DEF z
    <3>5. id \in Holds(z, "tool_use") /\ TurnOfId(id) = turn
      BY <1>5, <3>2, <3>3, <3>4 DEF TurnOfId
    <3>6. QED BY <3>5, CallPlaces2
  <2>9. Uncut(msgs, t0) => Leading(z, turn)
    BY <2>1, <2>7
  <2>10. ASSUME NEW t \in 1 .. last, ThoughtsOf(z, <<a, t>>) # {}
         PROVE  /\ InPlace(z, <<a, t>>, Given(a, sp, t))
                /\ CallsOf(z, <<a, t>>) # {}
                /\ Uncut(msgs, t) => Leading(z, <<a, t>>)
    <3>1. CASE t = t0
      BY <2>1, <2>7, <2>8, <2>9, <3>1
    <3>2. CASE t # t0
      BY <1>8, <2>6, <2>10, <3>2
    <3>3. QED BY <3>1, <3>2
  <2>11. QED BY <2>5, <2>10 DEF ContentOK, z, x
<1>11. QED BY <1>4, <1>9, <1>10

----------------------------------------------------------------------------
(* A message is merged, or is one of its own. *)

\* b comes behind e, the last message of its role or nothing.
Joins(out, role, b, o, e) ==
  /\ o \in Seq(OutMessages) /\ o # <<>> /\ LastOne(o).role = role
  /\ LastOne(o).content = Cat(e, StripDuplicateThinking(e, b))
  /\ \A q \in DOMAIN o : q # Len(o) => q \in DOMAIN out /\ o[q] = out[q]
  /\ \A q \in DOMAIN out : q # Len(o) => q \in DOMAIN o
  /\ \/ /\ e = <<>> /\ Len(o) = Len(out) + 1
        /\ out # <<>> => LastOne(out).role # role
     \/ /\ out # <<>> /\ Len(o) = Len(out)
        /\ LastOne(out).role = role /\ e = LastOne(out).content

LEMMA MergedIs ==
  ASSUME NEW out \in Seq(OutMessages), NEW role \in Sides,
         NEW b \in Seq(Blocks), b # <<>>
  PROVE  \E e \in Seq(Blocks) : Joins(out, role, b, Merged(out, role, b), e)
<1> DEFINE o == Merged(out, role, b)
           n == Len(out)
<1>1. n \in Nat /\ DOMAIN out = 1 .. n
  OBVIOUS
<1>2. CASE ~(out # <<>> /\ LastOne(out).role = role)
  <2> DEFINE x == Plain(role, b)
             none == <<>>
  <2>1. o = Append(out, x)
    BY <1>2 DEF Merged, LastOne, Last, Plain
  <2>2. x \in OutMessages /\ x.role = role /\ x.content = b
    BY DEF Plain, OutMessages
  <2> HIDE DEF x
  <2>3. /\ Append(out, x) \in Seq(OutMessages) /\ Len(Append(out, x)) = n + 1
        /\ Append(out, x)[n + 1] = x
    BY <2>2, Extended
  <2>4. \A q \in 1 .. n : Append(out, x)[q] = out[q]
    BY <2>2
  <2> HIDE DEF o, n
  <2>5. /\ o \in Seq(OutMessages) /\ Len(o) = n + 1 /\ o[n + 1] = x
        /\ DOMAIN o = 1 .. n + 1 /\ \A q \in 1 .. n : o[q] = out[q]
    <3>1. /\ o \in Seq(OutMessages) /\ Len(o) = n + 1 /\ o[n + 1] = x
          /\ \A q \in 1 .. n : o[q] = out[q]
      BY <2>1, <2>3, <2>4, Zenon
    <3>2. DOMAIN o = 1 .. n + 1
      BY <3>1
    <3>3. QED BY <3>1, <3>2
  <2>6. o # <<>> /\ LastOne(o) = x
    <3>1. Len(<<>>) = 0 /\ Len(o) # 0
      BY <1>1, <2>5
    <3>2. QED BY <2>5, <3>1 DEF LastOne
  <2>7. StripDuplicateThinking(none, b) = b
    <3>1. \A k \in DOMAIN b : \/ b[k].type \notin Thinking
                              \/ \A i \in DOMAIN none : none[i] # b[k]
      OBVIOUS
    <3> HIDE DEF none
    <3>2. QED BY <3>1, StripsNone
  <2>8. Cat(none, b) = b
    BY CatNothing
  <2>9. none \in Seq(Blocks)
    OBVIOUS
  <2>10. \A q \in DOMAIN o : q # Len(o) => q \in DOMAIN out /\ o[q] = out[q]
    BY <1>1, <2>5
  <2>11. \A q \in DOMAIN out : q # Len(o) => q \in DOMAIN o
    BY <1>1, <2>5
  <2>12. Joins(out, role, b, o, none)
    BY <1>2, <2>2, <2>5, <2>6, <2>7, <2>8, <2>10, <2>11 DEF Joins, n
  <2>13. QED BY <2>9, <2>12 DEF o
<1>3. CASE out # <<>> /\ LastOne(out).role = role
  <2> DEFINE y == LastOne(out)
             c == StripDuplicateThinking(y.content, b)
             z == Plain(role, Cat(y.content, c))
  <2>1. y \in OutMessages /\ n \in 1 .. n
    BY <1>1, <1>3 DEF LastOne
  <2>2. y.content \in Seq(Blocks) /\ y = [role |-> role, content |-> y.content]
    <3>1. y.role = role
      BY <1>3
    <3> HIDE DEF y
    <3>2. QED BY <2>1, <3>1 DEF OutMessages
  <2>3. c \in Seq(Blocks)
    BY StripHolds
  <2>4. o = Grown(out, z)
    <3>1. o = [out EXCEPT ![Len(out)].content = Cat(y.content, c)]
      BY <1>3 DEF Merged, Last, LastOne, Cat
    <3>2. [out[Len(out)] EXCEPT !.content = Cat(y.content, c)] = z
      <4>1. out[Len(out)] = y
        BY DEF LastOne
      <4> HIDE DEF y, c
      <4>2. [y EXCEPT !.content = Cat(y.content, c)] = z
        BY <2>2 DEF Plain
      <4>3. QED BY <4>1, <4>2
    <3> HIDE DEF y, c, z, o, n
    <3>3. QED BY <3>1, <3>2 DEF Grown
  <2> HIDE DEF c, y
  <2>5. Cat(y.content, c) \in Seq(Blocks)
    <3>1. y.content \in Seq(Blocks) /\ c \in Seq(Blocks)
      BY <2>2, <2>3
    <3>2. QED BY <3>1, Joined
  <2>6. z \in OutMessages /\ z.role = role /\ z.content = Cat(y.content, c)
    BY <2>5 DEF Plain, OutMessages
  <2> HIDE DEF z
  <2>7. /\ DOMAIN Grown(out, z) = DOMAIN out
        /\ Grown(out, z) \in Seq(OutMessages)
        /\ Len(Grown(out, z)) = n /\ Grown(out, z)[n] = z
        /\ \A q \in DOMAIN out : q # n => Grown(out, z)[q] = out[q]
    <3>1. n \in DOMAIN out
      BY <1>1, <2>1
    <3>2. LET g == [out EXCEPT ![n] = z]
          IN /\ g \in Seq(OutMessages) /\ Len(g) = Len(out)
             /\ DOMAIN g = DOMAIN out /\ g[n] = z
             /\ \A j \in DOMAIN out \ {n} : g[j] = out[j]
      BY <2>6, <3>1, Replaced
    <3>3. QED BY <3>2 DEF Grown
  <2> HIDE DEF o, n
  <2>8. o # <<>> /\ LastOne(o) = z
    <3>1. Len(<<>>) = 0 /\ Len(o) # 0
      BY <1>1, <2>1, <2>4, <2>7
    <3>2. QED BY <2>4, <2>7, <3>1 DEF LastOne
  <2>9. LastOne(o).content
          = Cat(y.content, StripDuplicateThinking(y.content, b))
    BY <2>6, <2>8 DEF c
  <2>10. Joins(out, role, b, o, y.content)
    BY <1>3, <2>4, <2>6, <2>7, <2>8, <2>9 DEF Joins, y, n
  <2>11. QED BY <2>2, <2>10 DEF o
<1>4. QED BY <1>2, <1>3

----------------------------------------------------------------------------
(* Translating a history: the calls of a turn end up in one message unless *)
(* results came between, and its thinking is put back once in each.        *)

LEMMA TurnsNamed ==
  ASSUME NEW id \in Names
  PROVE  id[2] \in Nat /\ id[2] >= 1
<1>1. PICK a \in Agents : id \in {a} \X (1 .. MaxTurns[a]) \X (1 .. MaxBlocks)
  BY DEF Names
<1>2. MaxTurns[a] \in Nat
  BY ProviderAssumption
<1>3. QED BY <1>1, <1>2

\* The calls of a turn that a message makes.
LEMMA CallIs ==
  ASSUME NEW a, NEW last \in Nat, NEW msgs \in Seq(Messages),
         TurnsOK(a, msgs, last), NEW i \in DOMAIN msgs,
         NEW id \in Called(msgs[i])
  PROVE  /\ id[1] = a /\ id[2] \in 1 .. last /\ i \in Made(msgs, id[2])
         /\ msgs[i].role = "assistant"
         /\ \A id2 \in Called(msgs[i]) : id2[2] = id[2]
<1> DEFINE m == msgs[i]
<1>1. MakesOK(a, m, last)
  BY DEF TurnsOK
<1>2. m \in Messages
  BY ElementOf
<1>3. m.calls \in Seq(Names)
  BY <1>2 DEF Messages
<1>4. PICK k \in DOMAIN m.calls : id = m.calls[k]
  BY DEF Called
<1>5. id \in Names
  BY <1>3, <1>4, ElementOf
<1> HIDE DEF m
<1>6. /\ id[1] = a /\ id[2] <= last /\ m.role = "assistant"
      /\ \A id2 \in Called(m) : id2[2] = id[2]
  BY <1>1, <1>4 DEF MakesOK, Called
<1>7. id[2] \in 1 .. last
  BY <1>5, <1>6, TurnsNamed
<1>8. i \in Made(msgs, id[2])
  BY <1>4 DEF Made, CalledIn, m
<1>9. QED BY <1>6, <1>7, <1>8 DEF m

\* The messages that make the calls of a turn follow each other.
LEMMA Before ==
  ASSUME NEW a, NEW last \in Nat, NEW msgs \in Seq(Messages),
         TurnsOK(a, msgs, last), NEW i \in Nat, i + 1 \in DOMAIN msgs,
         NEW j \in 1 .. i, NEW id \in Called(msgs[j]),
         NEW id2 \in Called(msgs[i + 1]), id2[2] = id[2]
  PROVE  /\ \E id3 \in Called(msgs[i]) : id3[2] = id[2]
         /\ ~Uncut(msgs, id[2])
<1> DEFINE t == id[2]
<1>1. /\ DOMAIN msgs = 1 .. Len(msgs) /\ Len(msgs) \in Nat
      /\ j \in DOMAIN msgs /\ i \in DOMAIN msgs /\ j <= i /\ j # i + 1
      /\ i < i + 1
  OBVIOUS
<1>2. t \in 1 .. last /\ j \in Made(msgs, t)
  BY <1>1, CallIs
<1>3. i + 1 \in Made(msgs, t)
  BY CallIs
<1> HIDE DEF t
<1>4. i \in Made(msgs, t)
  <2>1. CASE j = i
    BY <1>2, <2>1
  <2>2. CASE j # i
    <3>1. j < i
      BY <1>1, <2>2
    <3>2. InARow(msgs, t)
      BY <1>2 DEF TurnsOK
    <3>3. QED BY <1>1, <1>2, <1>3, <3>1, <3>2 DEF InARow
  <2>3. QED BY <2>1, <2>2
<1>5. \E id3 \in Called(msgs[i]) : id3[2] = t
  BY <1>4 DEF Made, CalledIn, Called
<1>6. ~Uncut(msgs, t)
  BY <1>1, <1>2, <1>3 DEF Uncut
<1>7. QED BY <1>5, <1>6 DEF t

\* The calls in x were made by the first i messages, ...
Heeded(x, msgs, i) ==
  \A id \in Uses(x) : \E j \in 1 .. i : id \in Called(msgs[j])
\* ... and x has all they made of a turn.
Gathered(x, msgs, i) ==
  \A id \in Uses(x), j \in 1 .. i : \A id2 \in Called(msgs[j]) :
    id2[2] = id[2] => id2 \in Uses(x)
\* The calls of the turn of id are in the last message only.
AtTheEnd(out, id) ==
  /\ out # <<>> /\ LastOne(out).role = "assistant"
  /\ id \in Uses(LastOne(out))
  /\ \A q \in DOMAIN out :
       q # Len(out) => \A id2 \in Uses(out[q]) : id2[2] # id[2]

LoopOK(a, msgs, sp, last, out, i) ==
  /\ out \in Seq(OutMessages)
  /\ \A q \in DOMAIN out : /\ ContentOK(a, out[q].content, sp, last, msgs)
                           /\ Heeded(out[q], msgs, i)
                           /\ Gathered(out[q], msgs, i)
  /\ i > 0 => \A id \in Called(msgs[i]) : AtTheEnd(out, id)

SideOf(m) == IF m.role = "tool" THEN "user" ELSE m.role

\* A message that says nothing.
LEMMA LoopSilent ==
  ASSUME NEW a, NEW msgs, NEW sp, NEW last, NEW out, NEW i \in Nat,
         LoopOK(a, msgs, sp, last, out, i), Called(msgs[i + 1]) = {}
  PROVE  LoopOK(a, msgs, sp, last, out, i + 1)
<1>1. \A j \in 1 .. i + 1 : j \in 1 .. i \/ j = i + 1
  OBVIOUS
<1>2. 1 .. i \subseteq 1 .. i + 1
  OBVIOUS
<1>3. ASSUME NEW q \in DOMAIN out
      PROVE  Heeded(out[q], msgs, i + 1) /\ Gathered(out[q], msgs, i + 1)
  <2>1. Heeded(out[q], msgs, i) /\ Gathered(out[q], msgs, i)
    BY DEF LoopOK
  <2>2. Heeded(out[q], msgs, i + 1)
    BY <1>2, <2>1 DEF Heeded
  <2>3. Gathered(out[q], msgs, i + 1)
    BY <1>1, <2>1 DEF Gathered
  <2>4. QED BY <2>2, <2>3
<1>4. QED BY <1>3 DEF LoopOK

LEMMA LoopStep ==
  ASSUME NEW a, NEW sp \in Seq(Seq(BlockRecords)), NEW last \in Nat,
         last <= Len(sp), NEW msgs \in Seq(Messages),
         TurnsOK(a, msgs, last), NEW i \in Nat, i + 1 \in DOMAIN msgs,
         NEW out, LoopOK(a, msgs, sp, last, out, i),
         msgs[i + 1].role \in Roles,
         msgs[i + 1].role = "tool" => msgs[i + 1].result \in Names,
         NEW th \in Seq(Thoughts), BroughtBy(a, msgs[i + 1], sp, last, th)
  PROVE  LoopOK(a, msgs, sp, last,
                Merged(out, SideOf(msgs[i + 1]), Content(msgs[i + 1], th)),
                i + 1)
<1> DEFINE m == msgs[i + 1]
           role == SideOf(m)
           b == Content(m, th)
           o == Merged(out, role, b)
           N == Len(o)
<1>1. /\ m \in Messages /\ MakesOK(a, m, last) /\ m.role \in Roles
      /\ m.role = "tool" => m.result \in Names
  BY ElementOf DEF TurnsOK
<1>2. /\ out \in Seq(OutMessages)
      /\ \A q \in DOMAIN out : /\ ContentOK(a, out[q].content, sp, last, msgs)
                               /\ Heeded(out[q], msgs, i)
                               /\ Gathered(out[q], msgs, i)
      /\ i > 0 => \A id \in Called(msgs[i]) : AtTheEnd(out, id)
  BY DEF LoopOK
<1>3. role \in Sides /\ (Called(m) # {} => role = "assistant")
      /\ (m.role = "tool" => Called(m) = {})
  <2>1. m.role # "assistant" => Called(m) = {}
    BY <1>1 DEF MakesOK, Called
  <2>2. QED BY <1>1, <2>1 DEF SideOf, Roles, Sides
<1>4. b \in Seq(Blocks) /\ Holds(b, "tool_use") = Called(m)
  <2>1. b \in Seq(Blocks) /\ Holds(b, "tool_use") = CallsIn(m)
    BY <1>1, ContentHolds
  <2>2. QED BY <1>3, <2>1 DEF CallsIn
<1>5. BroughtBy(a, m, sp, last, th) /\ i + 1 \in DOMAIN msgs
  OBVIOUS
<1>6. /\ \A j \in 1 .. i + 1 : j \in 1 .. i \/ j = i + 1
      /\ 1 .. i \subseteq 1 .. i + 1 /\ i + 1 \in 1 .. i + 1
      /\ ((i + 1) - 1 = i) /\ (\A j \in 1 .. i : i > 0)
  OBVIOUS
<1>7. ASSUME NEW j \in 1 .. i, NEW id \in Called(msgs[j]),
             NEW id2 \in Called(m),
             id2[2] = id[2]
      PROVE  /\ ~Uncut(msgs, id[2])
             /\ \E id3 \in Called(msgs[i]) :
                  id3[2] = id[2] /\ AtTheEnd(out, id3)
  <2>1. /\ \E id3 \in Called(msgs[i]) : id3[2] = id[2]
        /\ ~Uncut(msgs, id[2])
    BY <1>7, Before
  <2>2. QED BY <1>2, <1>6, <2>1
<1>8. CASE b = <<>>
  <2>1. o = out
    BY <1>8 DEF Merged
  <2>2. Called(m) = {}
    <3>1. DOMAIN b = {}
      BY <1>8
    <3>2. QED BY <1>4, <3>1 DEF Holds
  <2> HIDE DEF o, b, role
  <2>3. LoopOK(a, msgs, sp, last, out, i + 1)
    BY <2>2, LoopSilent
  <2>4. QED BY <2>1, <2>3 DEF o, b, role
<1>9. CASE b # <<>>
  <2> HIDE DEF m, role, b
  <2>1. PICK e \in Seq(Blocks) : Joins(out, role, b, o, e)
    BY <1>2, <1>3, <1>4, <1>9, MergedIs
  <2> HIDE DEF o
  <2> DEFINE c == StripDuplicateThinking(e, b)
             y == LastOne(o)
  <2>2. /\ o \in Seq(OutMessages) /\ o # <<>> /\ y.role = role
        /\ y.content = Cat(e, c)
        /\ \A q \in DOMAIN o : q # N => q \in DOMAIN out /\ o[q] = out[q]
        /\ \/ /\ e = <<>> /\ N = Len(out) + 1
              /\ out # <<>> => LastOne(out).role # role
           \/ /\ out # <<>> /\ N = Len(out)
              /\ LastOne(out).role = role /\ e = LastOne(out).content
    BY <2>1 DEF Joins
  <2>3. Len(out) \in Nat /\ DOMAIN out = 1 .. Len(out) /\ N \in DOMAIN o
        /\ (out # <<>> => Len(out) \in DOMAIN out) /\ y = o[N]
    BY <1>2, <2>2 DEF LastOne
  <2>4. c \in Seq(Blocks) /\ Holds(c, "tool_use") = Called(m)
    <3>1. "tool_use" \notin Thinking
      BY DEF Thinking
    <3>2. QED BY <1>4, <3>1, StripHolds
  <2> HIDE DEF N, c, y
  <2>5. \/ e = <<>> /\ Holds(e, "tool_use") = {}
        \/ /\ Len(out) \in DOMAIN out /\ e = out[Len(out)].content
           /\ Holds(e, "tool_use") = Uses(out[Len(out)])
    <3>1. CASE e = <<>>
      <4>1. DOMAIN e = {}
        BY <3>1
      <4>2. QED BY <3>1, <4>1 DEF Holds
    <3>2. CASE e # <<>>
      BY <2>2, <2>3, <3>2 DEF LastOne, Uses
    <3>3. QED BY <3>1, <3>2
  <2>6. ContentOK(a, e, sp, last, msgs)
    <3>1. CASE e = <<>>
      <4>1. Replayed(e) = {}
        BY <3>1 DEF Replayed
      <4>2. QED BY <4>1 DEF ContentOK, ThoughtsOf
    <3>2. CASE Len(out) \in DOMAIN out /\ e = out[Len(out)].content
      BY <1>2, <3>2
    <3>3. QED BY <2>5, <3>1, <3>2
  <2>7. \A id \in Holds(e, "tool_use") :
          /\ \E j \in 1 .. i : id \in Called(msgs[j])
          /\ \A j \in 1 .. i : \A id2 \in Called(msgs[j]) :
               id2[2] = id[2] => id2 \in Holds(e, "tool_use")
    BY <1>2, <2>5 DEF Heeded, Gathered
  <2>8. ContentOK(a, Cat(e, c), sp, last, msgs)
    <3>1. ASSUME NEW t \in 1 .. last, CalledIn(m, t) # {},
                 CallsOf(e, <<a, t>>) # {}
          PROVE  ~Uncut(msgs, t)
      <4>1. PICK p \in CallsOf(e, <<a, t>>) : TRUE
        BY <3>1
      <4>2. /\ e[p].name \in Holds(e, "tool_use")
            /\ TurnOfId(e[p].name) = <<a, t>>
        BY CallPlaces2
      <4>3. e[p].name[2] = t
        BY <4>2 DEF TurnOfId
      <4>4. PICK j \in 1 .. i : e[p].name \in Called(msgs[j])
        BY <2>7, <4>2
      <4>5. PICK id2 \in Called(m) : id2[2] = t
        BY <3>1 DEF CalledIn, Called
      <4>6. QED BY <1>7, <4>3, <4>4, <4>5
    <3>2. \A t \in 1 .. last :
            CalledIn(m, t) # {} /\ CallsOf(e, <<a, t>>) # {} =>
              ~Uncut(msgs, t)
      BY <3>1
    <3>3. ContentOK(a, Cat(e, StripDuplicateThinking(e, Content(m, th))),
                    sp, last, msgs)
      BY <1>1, <1>5, <2>6, <3>2, ContentGrows
    <3>4. QED BY <3>3 DEF c, b
  <2>9. Uses(y) = Holds(e, "tool_use") \cup Called(m)
    BY <2>2, <2>4, HoldsBoth DEF Uses
  <2>10. ASSUME NEW q \in DOMAIN out, q # N, NEW id \in Uses(out[q]),
                NEW id2 \in Called(m)
         PROVE  id2[2] # id[2]
    <3>1. SUFFICES ASSUME id2[2] = id[2] PROVE FALSE
      OBVIOUS
    <3>2. PICK j \in 1 .. i : id \in Called(msgs[j])
      BY <1>2 DEF Heeded
    <3>3. PICK id3 \in Called(msgs[i]) :
            id3[2] = id[2] /\ AtTheEnd(out, id3)
      BY <1>7, <3>1, <3>2
    <3>4. role = "assistant"
      BY <1>3
    <3>5. out # <<>> /\ LastOne(out).role = "assistant"
      BY <3>3 DEF AtTheEnd
    <3>6. N = Len(out)
      BY <2>2, <3>4, <3>5
    <3>7. QED BY <2>10, <3>3, <3>6 DEF AtTheEnd
  <2>11. ASSUME NEW q \in DOMAIN o, q # N
         PROVE  /\ ContentOK(a, o[q].content, sp, last, msgs)
                /\ Heeded(o[q], msgs, i + 1) /\ Gathered(o[q], msgs, i + 1)
    <3>1. q \in DOMAIN out /\ o[q] = out[q]
      BY <2>2, <2>11
    <3>2. /\ ContentOK(a, out[q].content, sp, last, msgs)
          /\ Heeded(out[q], msgs, i) /\ Gathered(out[q], msgs, i)
      BY <1>2, <3>1
    <3>3. Heeded(out[q], msgs, i + 1)
      BY <1>6, <3>2 DEF Heeded
    <3>4. Gathered(out[q], msgs, i + 1)
      BY <1>6, <2>10, <2>11, <3>1, <3>2 DEF Gathered, m
    <3>5. QED BY <3>1, <3>2, <3>3, <3>4
  <2>12. Heeded(y, msgs, i + 1)
    BY <1>6, <2>7, <2>9 DEF Heeded, m
  <2>13. Gathered(y, msgs, i + 1)
    <3>1. ASSUME NEW id \in Uses(y), NEW j \in 1 .. i + 1,
                 NEW id2 \in Called(msgs[j]), id2[2] = id[2]
          PROVE  id2 \in Uses(y)
      <4>1. CASE j = i + 1
        BY <2>9, <4>1 DEF m
      <4>2. CASE j \in 1 .. i /\ id \in Holds(e, "tool_use")
        BY <2>7, <2>9, <3>1, <4>2
      <4>3. CASE j \in 1 .. i /\ id \in Called(m)
        <5>1. PICK id3 \in Called(msgs[i]) :
                id3[2] = id2[2] /\ AtTheEnd(out, id3)
          BY <1>7, <3>1, <4>3
        <5>2. role = "assistant"
          BY <1>3, <4>3
        <5>3. /\ out # <<>> /\ LastOne(out).role = "assistant"
              /\ id3 \in Uses(LastOne(out))
          BY <5>1 DEF AtTheEnd
        <5>4. e = LastOne(out).content
          BY <2>2, <5>2, <5>3
        <5>5. id3 \in Holds(e, "tool_use")
          BY <5>3, <5>4 DEF Uses
        <5>6. QED BY <2>7, <2>9, <4>3, <5>1, <5>5
      <4>4. QED BY <1>6, <2>9, <4>1, <4>2, <4>3
    <3>2. QED BY <3>1 DEF Gathered
  <2>14. ASSUME NEW q \in DOMAIN o
         PROVE  /\ ContentOK(a, o[q].content, sp, last, msgs)
                /\ Heeded(o[q], msgs, i + 1) /\ Gathered(o[q], msgs, i + 1)
    <3>1. CASE q = N
      BY <2>2, <2>3, <2>8, <2>12, <2>13, <3>1
    <3>2. CASE q # N
      BY <2>11, <3>2
    <3>3. QED BY <3>1, <3>2
  <2>15. ASSUME NEW id \in Called(msgs[i + 1]) PROVE AtTheEnd(o, id)
    <3>1. id \in Called(m) /\ role = "assistant"
      BY <1>3 DEF m
    <3>2. y.role = "assistant" /\ id \in Uses(y)
      BY <2>2, <2>9, <3>1
    <3>3. ASSUME NEW q \in DOMAIN o, q # N, NEW id2 \in Uses(o[q])
          PROVE  id2[2] # id[2]
      <4>1. q \in DOMAIN out /\ id2 \in Uses(out[q])
        BY <2>2, <3>3
      <4>2. QED BY <2>10, <3>1, <3>3, <4>1
    <3>4. QED BY <2>2, <3>2, <3>3 DEF AtTheEnd, y, N
  <2>16. LoopOK(a, msgs, sp, last, o, i + 1)
    BY <2>2, <2>14, <2>15 DEF LoopOK
  <2>17. QED BY <2>16 DEF o, role, b, m
<1>10. QED BY <1>8, <1>9

LEMMA AllReplayed ==
  ASSUME CacheHolds(cache), NEW a, NEW sp \in Seq(Seq(BlockRecords)),
         NEW last \in Nat, last <= Len(sp), NEW msgs \in Seq(Messages),
         TurnsOK(a, msgs, last),
         \A i \in DOMAIN msgs :
           /\ msgs[i].role \in Roles
           /\ msgs[i].role = "tool" => msgs[i].result \in Names
           /\ BroughtBy(a, msgs[i], sp, last, CachedBlocks(msgs[i])),
         NEW kept
  PROVE  LoopOK(a, msgs, sp, last, All(msgs, kept), Len(msgs))
<1> DEFINE n == Len(msgs)
<1>1. n \in Nat /\ DOMAIN msgs = 1 .. n
  OBVIOUS
<1>2. PICK h : /\ h[0] = <<>> /\ h[Len(msgs)] = All(msgs, kept)
               /\ \A i \in 1 .. Len(msgs) :
                    h[i] = Translate(h[i - 1], msgs[i], i \in kept)
  BY TranslateSteps
<1> HIDE DEF n
<1> DEFINE Good(i) == LoopOK(a, msgs, sp, last, h[i], i)
           T == {i \in Nat : i <= n => Good(i)}
<1>3. 0 \in T
  <2> DEFINE none == <<>>
  <2>1. none \in Seq(OutMessages) /\ DOMAIN none = {}
    OBVIOUS
  <2>2. h[0] = none
    BY <1>2
  <2> HIDE DEF none
  <2>3. Good(0)
    BY <2>1, <2>2 DEF LoopOK
  <2> HIDE DEF Good
  <2>4. QED BY <2>3
<1>4. ASSUME NEW k \in Nat, k \in T PROVE k + 1 \in T
  <2>1. ASSUME k + 1 <= n PROVE Good(k + 1)
    <3> DEFINE m == msgs[k + 1]
               th == IF k + 1 \in kept THEN CachedBlocks(m) ELSE <<>>
    <3>1. /\ k + 1 \in 1 .. n /\ k + 1 \in DOMAIN msgs /\ (k + 1) - 1 = k
          /\ k <= n
      BY <1>1, <2>1
    <3>2. Good(k)
      <4> HIDE DEF Good
      <4>1. QED BY <1>4, <3>1
    <3>3. h[k + 1] = Translate(h[k], m, k + 1 \in kept)
      BY <1>2, <3>1 DEF n
    <3>4. h[k + 1] = Merged(h[k], SideOf(m), Content(m, th))
      BY <3>3 DEF Translate, SideOf
    <3>5. m \in Messages /\ CachedBlocks(m) \in Seq(Thoughts)
      BY <3>1, ElementOf, CachedIs
    <3>6. th \in Seq(Thoughts) /\ BroughtBy(a, m, sp, last, th)
      <4>1. BroughtBy(a, m, sp, last, CachedBlocks(m))
        BY <3>1
      <4>2. CASE k + 1 \in kept
        BY <3>5, <4>1, <4>2
      <4>3. CASE k + 1 \notin kept
        BY <4>3 DEF BroughtBy
      <4>4. QED BY <4>2, <4>3
    <3>7. m.role \in Roles /\ (m.role = "tool" => m.result \in Names)
      BY <3>1
    <3> HIDE DEF th
    <3>8. LoopOK(a, msgs, sp, last, Merged(h[k], SideOf(m), Content(m, th)),
                 k + 1)
      BY <3>1, <3>2, <3>6, <3>7, LoopStep
    <3>9. QED BY <3>4, <3>8
  <2>2. k + 1 \in Nat
    OBVIOUS
  <2> HIDE DEF Good
  <2>3. QED BY <2>1, <2>2
<1>5. Nat \subseteq T
  <2> HIDE DEF T
  <2>1. QED BY <1>3, <1>4, Inductive
<1>6. Good(n)
  <2> HIDE DEF Good
  <2>1. n \in T /\ n <= n
    BY <1>1, <1>5
  <2>2. QED BY <2>1
<1>7. QED BY <1>2, <1>6 DEF n

----------------------------------------------------------------------------
(* A request that is sent. *)

\* The system message makes no calls.
LEMMA RestMade ==
  ASSUME NEW h \in Seq(Messages), Len(h) >= 1, NEW t
  PROVE  \A i : i \in Made(Rest(h), t) <=>
                  i \in 1 .. Len(h) - 1 /\ i + 1 \in Made(h, t)
<1>1. /\ DOMAIN Rest(h) = 1 .. Len(h) - 1
      /\ \A k \in 1 .. Len(h) - 1 : Rest(h)[k] = h[k + 1]
  <2>1. /\ Rest(h) \in Seq(Messages) /\ Len(Rest(h)) = Len(h) - 1
        /\ \A k \in 1 .. Len(h) - 1 : Rest(h)[k] = h[k + 1]
    BY RestIs
  <2>2. QED BY <2>1
<1>2. \A k \in 1 .. Len(h) - 1 : k + 1 \in DOMAIN h
  OBVIOUS
<1>3. QED BY <1>1, <1>2 DEF Made

LEMMA RestTurns ==
  ASSUME NEW a, NEW h \in Seq(Messages), Len(h) >= 1, NEW last \in Nat,
         TurnsOK(a, h, last)
  PROVE  TurnsOK(a, Rest(h), last)
<1> DEFINE r == Rest(h)
           n == Len(h) - 1
<1>1. /\ DOMAIN r = 1 .. n /\ n \in Nat
      /\ \A k \in 1 .. n : r[k] = h[k + 1] /\ k + 1 \in DOMAIN h
  <2>1. /\ Rest(h) \in Seq(Messages) /\ Len(Rest(h)) = Len(h) - 1
        /\ \A k \in 1 .. Len(h) - 1 : Rest(h)[k] = h[k + 1]
    BY RestIs
  <2>2. QED BY <2>1
<1>2. \A t, i : i \in Made(r, t) <=> i \in 1 .. n /\ i + 1 \in Made(h, t)
  <2>1. ASSUME NEW t
        PROVE  \A i : i \in Made(r, t) <=> i \in 1 .. n /\ i + 1 \in Made(h, t)
    BY RestMade
  <2>2. QED BY <2>1
<1> HIDE DEF r, n
<1>3. \A i \in DOMAIN r : MakesOK(a, r[i], last)
  BY <1>1 DEF TurnsOK
<1>4. ASSUME NEW t \in 1 .. last PROVE Uncut(r, t) \/ Parted(r, t)
  <2>1. CASE Uncut(h, t)
    <3>1. ASSUME NEW i \in Made(r, t), NEW j \in Made(r, t) PROVE i = j
      <4>1. i + 1 = j + 1 /\ i \in 1 .. n /\ j \in 1 .. n
        BY <1>2, <2>1 DEF Uncut
      <4>2. QED BY <4>1
    <3>2. QED BY <3>1 DEF Uncut
  <2>2. CASE Parted(h, t)
    <3>1. ASSUME NEW i \in Made(r, t)
          PROVE  /\ DOMAIN r[i].calls = {1}
                 /\ \A j \in Made(r, t) :
                      i # j => r[i].calls[1] # r[j].calls[1]
      <4>1. i \in 1 .. n /\ i + 1 \in Made(h, t) /\ r[i] = h[i + 1]
        BY <1>1, <1>2
      <4>2. ASSUME NEW j \in Made(r, t), i # j
            PROVE  r[i].calls[1] # r[j].calls[1]
        <5>1. j \in 1 .. n /\ j + 1 \in Made(h, t) /\ r[j] = h[j + 1]
          BY <1>1, <1>2
        <5>2. i + 1 # j + 1
          BY <4>1, <4>2, <5>1
        <5>3. QED BY <2>2, <4>1, <5>1, <5>2 DEF Parted
      <4>3. QED BY <2>2, <4>1, <4>2 DEF Parted
    <3>2. QED BY <3>1 DEF Parted
  <2>3. QED BY <2>1, <2>2 DEF TurnsOK
<1>5. ASSUME NEW t \in 1 .. last PROVE InARow(r, t)
  <2>1. InARow(h, t)
    BY DEF TurnsOK
  <2>2. ASSUME NEW i \in DOMAIN r, NEW j \in DOMAIN r, NEW k \in DOMAIN r,
               i < j, j < k, i \in Made(r, t), k \in Made(r, t)
        PROVE  j \in Made(r, t)
    <3>1. /\ i + 1 \in DOMAIN h /\ j + 1 \in DOMAIN h /\ k + 1 \in DOMAIN h
          /\ i + 1 < j + 1 /\ j + 1 < k + 1
      <4>1. i \in 1 .. n /\ j \in 1 .. n /\ k \in 1 .. n
        BY <1>1
      <4>2. i + 1 < j + 1 /\ j + 1 < k + 1
        <5>1. i \in Nat /\ j \in Nat /\ k \in Nat
          BY <4>1
        <5>2. i < j /\ j < k
          BY <2>2
        <5>3. QED BY ONLY <5>1, <5>2
      <4>3. QED BY <1>1, <4>1, <4>2
    <3>2. i + 1 \in Made(h, t) /\ k + 1 \in Made(h, t)
      BY <1>2, <2>2
    <3>3. j + 1 \in Made(h, t)
      BY <2>1, <3>1, <3>2 DEF InARow
    <3>4. QED BY <1>1, <1>2, <3>3
  <2>3. QED BY <2>2 DEF InARow
<1>6. QED BY <1>3, <1>4, <1>5 DEF TurnsOK, r

\* What is translated is a replay of the history.
LEMMA LoopReplays ==
  ASSUME NEW a, NEW sp, NEW last \in Nat, NEW h \in Seq(Messages),
         Len(h) >= 1, TurnsOK(a, h, last), NEW out,
         LoopOK(a, Rest(h), sp, last, out, Len(Rest(h))),
         NEW q \in DOMAIN out
  PROVE  ReplayOK(a, out[q].content, h, sp, last)
<1> DEFINE r == Rest(h)
           n == Len(r)
           x == out[q]
           e == x.content
<1>1. /\ r \in Seq(Messages) /\ n = Len(h) - 1 /\ n \in Nat
      /\ \A k \in 1 .. n : r[k] = h[k + 1]
  <2>1. /\ Rest(h) \in Seq(Messages) /\ Len(Rest(h)) = Len(h) - 1
        /\ \A k \in 1 .. Len(h) - 1 : Rest(h)[k] = h[k + 1]
    BY RestIs
  <2>2. QED BY <2>1
<1>2. ContentOK(a, e, sp, last, r) /\ Gathered(x, r, n)
  BY DEF LoopOK
<1>3. TurnsOK(a, r, last)
  BY RestTurns
<1>4. \A t, i : i \in Made(r, t) <=> i \in 1 .. n /\ i + 1 \in Made(h, t)
  <2>1. ASSUME NEW t
        PROVE  \A i : i \in Made(r, t) <=> i \in 1 .. n /\ i + 1 \in Made(h, t)
    <3>1. \A i : i \in Made(Rest(h), t) <=>
                   i \in 1 .. Len(h) - 1 /\ i + 1 \in Made(h, t)
      BY RestMade
    <3>2. QED BY <1>1, <3>1
  <2>2. QED BY <2>1
<1> HIDE DEF r, n, x
<1>5. ASSUME NEW t \in 1 .. last, ThoughtsOf(e, <<a, t>>) # {}
      PROVE  \/ Leading(e, <<a, t>>)
             \/ Several(e, <<a, t>>) /\ OneCall(h, t)
  <2>1. CallsOf(e, <<a, t>>) # {} /\ (Uncut(r, t) => Leading(e, <<a, t>>))
    BY <1>2, <1>5 DEF ContentOK
  <2>2. CASE Uncut(r, t)
    BY <2>1, <2>2
  <2>3. CASE ~Uncut(r, t)
    <3>1. PICK i, j \in Made(r, t) : i # j
      BY <2>3 DEF Uncut
    <3>2. /\ i \in 1 .. n /\ j \in 1 .. n /\ i + 1 # j + 1
          /\ i + 1 \in Made(h, t) /\ j + 1 \in Made(h, t)
      <4>1. /\ i \in 1 .. n /\ j \in 1 .. n
            /\ i + 1 \in Made(h, t) /\ j + 1 \in Made(h, t)
        BY <1>4
      <4>2. QED BY <3>1, <4>1
    <3>3. Parted(h, t)
      BY <3>2 DEF TurnsOK, Uncut
    <3>4. OneCall(h, t)
      <4>1. ASSUME NEW k \in DOMAIN h, NEW u \in CalledIn(h[k], t),
                   NEW v \in CalledIn(h[k], t)
            PROVE  u = v
        <5>1. k \in Made(h, t)
          BY <4>1 DEF Made
        <5>2. DOMAIN h[k].calls = {1}
          BY <3>3, <5>1 DEF Parted
        <5>3. QED BY <5>2 DEF CalledIn
      <4>2. QED BY <4>1 DEF OneCall
    <3>5. /\ DOMAIN r[i].calls = {1} /\ DOMAIN r[j].calls = {1}
          /\ r[i].calls[1] # r[j].calls[1]
      BY <1>1, <3>2, <3>3 DEF Parted
    <3> DEFINE u == r[i].calls[1]
               v == r[j].calls[1]
    <3>6. u \in Called(r[i]) /\ v \in Called(r[j]) /\ u[2] = t /\ v[2] = t
      <4>1. (\E k \in DOMAIN r[i].calls : r[i].calls[k][2] = t)
            /\ (\E k \in DOMAIN r[j].calls : r[j].calls[k][2] = t)
        BY DEF Made, CalledIn
      <4>2. QED BY <3>5, <4>1 DEF Called
    <3>7. u[1] = a /\ v[1] = a
      <4>1. i \in DOMAIN r /\ j \in DOMAIN r
        BY DEF Made
      <4>2. QED BY <1>1, <1>3, <3>6, <4>1, CallIs
    <3>8. PICK k \in CallsOf(e, <<a, t>>) : TRUE
      BY <2>1
    <3>9. e[k].name \in Uses(x) /\ e[k].name[2] = t
      <4>1. /\ e[k].name \in Holds(e, "tool_use")
            /\ TurnOfId(e[k].name) = <<a, t>>
        BY CallPlaces2
      <4>2. QED BY <4>1 DEF Uses, TurnOfId
    <3>10. u \in Uses(x) /\ v \in Uses(x)
      BY <1>2, <3>2, <3>6, <3>9 DEF Gathered
    <3>11. u \in Holds(e, "tool_use") /\ v \in Holds(e, "tool_use")
      BY <3>10 DEF Uses
    <3>12. TurnOfId(u) = <<a, t>> /\ TurnOfId(v) = <<a, t>> /\ u # v
      BY <3>5, <3>6, <3>7 DEF TurnOfId
    <3> HIDE DEF u, v, e
    <3>13. PICK k1 \in CallsOf(e, <<a, t>>) : e[k1].name = u
      BY <3>11, <3>12, CallPlaces2
    <3>14. PICK k2 \in CallsOf(e, <<a, t>>) : e[k2].name = v
      BY <3>11, <3>12, CallPlaces2
    <3>15. k1 # k2
      BY <3>12, <3>13, <3>14
    <3>16. QED BY <3>4, <3>15 DEF Several
  <2>4. QED BY <2>2, <2>3
<1>6. QED BY <1>2, <1>5 DEF ReplayOK, ContentOK, x

BuiltFor(w, h) == w.msgs = Rest(h)

LEMMA SentReplays ==
  ASSUME CacheHolds(cache), NEW w, WorkOK(w), NEW a,
         NEW sp \in Seq(Seq(BlockRecords)), NEW last \in Nat,
         last <= Len(sp), NEW h \in Seq(Messages), Len(h) >= 1,
         TurnsOK(a, h, last), BuiltFor(w, h),
         \A i \in DOMAIN Rest(h) :
           BroughtBy(a, Rest(h)[i], sp, last, CachedBlocks(Rest(h)[i]))
  PROVE  \A q \in DOMAIN Sent(w).messages :
           ReplayOK(a, Sent(w).messages[q].content, h, sp, last)
<1> DEFINE plan == ThinkingPlan(w.wanted)
           all == TranslateMessages(w.msgs, w.kept)
           cut == Cut(plan, all)
           r == Rest(h)
<1>1. w.msgs = r /\ Balanced(r)
  BY DEF WorkOK, BuiltFor
<1>2. /\ OutOK(All(r, w.kept), {}) /\ All(r, w.kept) # <<>>
      /\ w.kept = {} => NoThinking(All(r, w.kept))
  <2> HIDE DEF r
  <2>1. QED BY <1>1, AllAccepted
<1>3. all = All(r, w.kept)
  <2> DEFINE o == All(r, w.kept)
  <2>1. all = IF o # <<>> /\ o[1].role # "user" THEN <<Hello>> \o o ELSE o
    BY <1>1 DEF TranslateMessages, All
  <2> HIDE DEF o, all, r
  <2>2. Paired(o)
    BY <1>2, AllPaired DEF o
  <2>3. o[1].role = "user"
    BY <2>2 DEF Paired
  <2>4. QED BY <2>1, <2>3 DEF o
<1> HIDE DEF all, plan, r
<1>4. Paired(all) /\ all \in Seq(OutMessages) /\ all # <<>>
  <2>1. Paired(all)
    BY <1>2, <1>3, AllPaired
  <2>2. QED BY <2>1 DEF Paired
<1>5. \A i \in DOMAIN r :
        /\ r[i].role \in Roles
        /\ r[i].role = "tool" => r[i].result \in Names
        /\ BroughtBy(a, r[i], sp, last, CachedBlocks(r[i]))
  <2>1. PICK P : Ledger(r, P, {}, {})
    BY <1>1 DEF Balanced, Leads
  <2>2. r \in Seq(Messages) /\ P \in [0 .. Len(r) -> SUBSET Names]
    BY <2>1 DEF Ledger
  <2>3. ASSUME NEW i \in DOMAIN r
        PROVE  /\ r[i].role \in Roles
               /\ r[i].role = "tool" => r[i].result \in Names
    <3>1. i \in 1 .. Len(r) /\ i - 1 \in 0 .. Len(r)
      BY <2>2
    <3>2. Entry(r, P, i)
      BY <2>1, <3>1 DEF Ledger
    <3>3. P[i - 1] \subseteq Names
      BY <2>2, <3>1
    <3>4. QED BY <3>2, <3>3 DEF Entry
  <2>4. QED BY <2>3 DEF r
<1>6. r \in Seq(Messages) /\ TurnsOK(a, r, last)
  BY RestIs, RestTurns DEF r
<1>7. LoopOK(a, r, sp, last, all, Len(r))
  BY <1>3, <1>5, <1>6, AllReplayed
<1>8. \A q \in DOMAIN all : ReplayOK(a, all[q].content, h, sp, last)
  BY <1>7, LoopReplays DEF r
<1>9. cut # <<>> /\ \A q \in DOMAIN cut : q \in DOMAIN all /\ cut[q] = all[q]
  <2>1. Last(all) = LastOne(all)
    BY DEF Last, LastOne
  <2>2. CASE plan.thinks /\ LastOne(all).role = "assistant"
    <3>1. cut = Front(all)
      BY <1>4, <2>1, <2>2 DEF Cut
    <3>2. Paired(Front(all))
      BY <1>4, <2>2, FrontPaired
    <3>3. Front(all) # <<>>
      BY <3>2 DEF Paired
    <3>4. \A q \in DOMAIN Front(all) :
            q \in DOMAIN all /\ Front(all)[q] = all[q]
      BY <1>4 DEF Front
    <3>5. QED BY <3>1, <3>3, <3>4
  <2>3. CASE ~(plan.thinks /\ LastOne(all).role = "assistant")
    <3>1. cut = all
      BY <2>1, <2>3 DEF Cut
    <3>2. QED BY <1>4, <3>1
  <2>4. QED BY <2>2, <2>3
<1> HIDE DEF cut
<1>10. Sent(w).messages = cut
  BY <1>9 DEF Sent, plan, cut, all
<1>11. QED BY <1>8, <1>9, <1>10

\* What the cache brings is what the turn said, whichever call it is under.
LEMMA CacheBrings ==
  ASSUME CachedOK(cache), NEW a, NEW last \in Nat, NEW m \in Messages,
         MakesOK(a, m, last)
  PROVE  BroughtBy(a, m, spoken[a], last, CachedBlocks(m))
<1> DEFINE known == {k \in DOMAIN m.calls : Has(cache, m.calls[k])}
<1>1. CASE known = {}
  <2>1. CachedBlocks(m) = <<>>
    BY <1>1 DEF CachedBlocks
  <2>2. QED BY <2>1 DEF BroughtBy
<1>2. CASE known # {}
  <2> DEFINE k == CHOOSE k \in known : \A j \in known : k <= j
             id == m.calls[k]
  <2>1. m.calls \in Seq(Names)
    BY DEF Messages
  <2>2. k \in known
    <3>1. Len(m.calls) \in Nat /\ known \in SUBSET (1 .. Len(m.calls))
      BY <2>1
    <3> HIDE DEF known
    <3>2. \E x \in known : \A y \in known : x <= y
      BY <1>2, <3>1, FirstPlace
    <3>3. QED BY <3>2
  <2>3. CachedBlocks(m) = cache.entries[id]
    BY <1>2 DEF CachedBlocks
  <2> HIDE DEF k
  <2>4. k \in DOMAIN m.calls /\ id \in DOMAIN cache.entries
    BY <2>2 DEF Has
  <2>5. id \in Names /\ id[1] = a /\ id[2] <= last
    BY <2>1, <2>4, ElementOf DEF MakesOK
  <2>6. k \in CalledIn(m, id[2])
    BY <2>4 DEF CalledIn
  <2> HIDE DEF id
  <2>7. id[2] \in 1 .. last
    BY <2>5, TurnsNamed
  <2>8. cache.entries[id] = Given(a, spoken[a], id[2])
    BY <2>4, <2>5 DEF CachedOK
  <2>9. QED BY <2>3, <2>6, <2>7, <2>8 DEF BroughtBy
<1>3. QED BY <1>1, <1>2

\* A turn more does not change what the others said.
LEMMA ReplayStays ==
  ASSUME NEW a, NEW e, NEW h, NEW sp, NEW sp2, NEW last,
         ReplayOK(a, e, h, sp, last),
         \A t \in 1 .. last : sp2[t] = sp[t]
  PROVE  ReplayOK(a, e, h, sp2, last)
<1>1. \A t \in 1 .. last : Given(a, sp2, t) = Given(a, sp, t)
  BY DEF Given
<1>2. QED BY <1>1 DEF ReplayOK

----------------------------------------------------------------------------
(* The steps. *)

CacheGrows(a) ==
  \A id \in DOMAIN cache'.entries :
    \/ /\ id \in DOMAIN cache.entries
       /\ cache'.entries[id] = cache.entries[id]
    \/ /\ id[1] = a /\ Settled(adapter'[a], spoken'[a], id[2])
       /\ cache'.entries[id] = Given(a, spoken'[a], id[2])

Persists(s, sp, s2, sp2) ==
  \A t : Settled(s, sp, t) => Settled(s2, sp2, t) /\ sp2[t] = sp[t]

Replaying(a) ==
  /\ AgentReplays(a, adapter'[a], work'[a], history'[a], request'[a],
                  spoken'[a])
  /\ Persists(adapter[a], spoken[a], adapter'[a], spoken'[a])
  /\ CacheGrows(a)

LEMMA ReplayGoesOn ==
  ASSUME ProviderInv, ReplayInv, NEW a \in Agents, Stepped(a), Asked(a),
         Replaying(a)
  PROVE  ReplayInv'
<1>1. ASSUME NEW x \in Agents
      PROVE  AgentReplays(x, adapter'[x], work'[x], history'[x], request'[x],
                          spoken'[x])
  <2>1. CASE x = a
    BY <2>1 DEF Replaying
  <2>2. CASE x # a
    <3>1. /\ adapter'[x] = adapter[x] /\ work'[x] = work[x]
          /\ history'[x] = history[x] /\ request'[x] = request[x]
          /\ spoken'[x] = spoken[x]
      BY <2>2 DEF Stepped, Asked, Others
    <3>2. QED BY <3>1 DEF ReplayInv
  <2>3. QED BY <2>1, <2>2
<1>2. ASSUME NEW id \in DOMAIN cache'.entries
      PROVE  /\ Settled(adapter'[id[1]], spoken'[id[1]], id[2])
             /\ cache'.entries[id] = Given(id[1], spoken'[id[1]], id[2])
  <2>1. \/ /\ id \in DOMAIN cache.entries
           /\ cache'.entries[id] = cache.entries[id]
        \/ /\ id[1] = a /\ Settled(adapter'[a], spoken'[a], id[2])
           /\ cache'.entries[id] = Given(a, spoken'[a], id[2])
    BY DEF Replaying, CacheGrows
  <2>2. CASE /\ id[1] = a /\ Settled(adapter'[a], spoken'[a], id[2])
             /\ cache'.entries[id] = Given(a, spoken'[a], id[2])
    BY <2>2
  <2>3. CASE /\ id \in DOMAIN cache.entries
             /\ cache'.entries[id] = cache.entries[id]
    <3>1. /\ Settled(adapter[id[1]], spoken[id[1]], id[2])
          /\ cache.entries[id] = Given(id[1], spoken[id[1]], id[2])
      BY <2>3 DEF ReplayInv, CachedOK
    <3>2. CASE id[1] = a
      BY <2>3, <3>1, <3>2 DEF Replaying, Persists, Given
    <3>3. CASE id[1] # a
      <4>1. id \in Names
        BY <2>3 DEF ProviderInv, CacheOK
      <4>2. id[1] \in Agents
        BY <4>1 DEF Names
      <4>3. adapter'[id[1]] = adapter[id[1]] /\ spoken'[id[1]] = spoken[id[1]]
        BY <3>3, <4>2 DEF Stepped, Others
      <4>4. QED BY <2>3, <3>1, <4>3
    <3>4. QED BY <3>2, <3>3
  <2>4. QED BY <2>1, <2>2, <2>3
<1>3. QED BY <1>1, <1>2 DEF ReplayInv, CachedOK

\* An event of a stream, or the answer that comes whole.
LEMMA StreamReplays ==
  ASSUME ProviderInv, ReplayInv, NEW a \in Agents,
         cache' = cache, history'[a] = history[a],
         adapter[a].state \in InStates \cup {"sent"},
         adapter'[a].state \in InStates,
         CapturedOK(a, adapter'[a], spoken'[a]),
         Len(spoken'[a]) = Len(spoken[a]),
         \A k \in 1 .. Len(spoken[a]) - 1 : spoken'[a][k] = spoken[a][k],
         adapter[a].flushed =>
           adapter'[a].flushed /\ spoken'[a] = spoken[a],
         \/ request'[a] = <<>>
         \/ /\ request'[a] = request[a] /\ spoken'[a] = spoken[a]
            /\ adapter'[a].start = adapter[a].start
  PROVE  Replaying(a)
<1> DEFINE s == adapter[a]
           t == adapter'[a]
           sp == spoken[a]
           sp2 == spoken'[a]
           r == request[a]
           r2 == request'[a]
           h == history[a]
<1>1. AgentReplays(a, s, work[a], h, r, sp)
  BY DEF ReplayInv
<1>2. /\ s.state \notin {"idle", "building"}
      /\ t.state \notin {"idle", "building"}
  BY DEF InStates
<1>3. /\ Len(sp2) = Len(sp) /\ CapturedOK(a, t, sp2) /\ history'[a] = h
      /\ \A k \in 1 .. Len(sp) - 1 : sp2[k] = sp[k]
      /\ s.flushed => t.flushed /\ sp2 = sp
      /\ r2 = <<>> \/ (r2 = r /\ sp2 = sp /\ t.start = s.start)
  OBVIOUS
<1>4. Len(sp) \in Nat
  BY DEF ProviderInv, AgentOK, SpokenOK
<1> HIDE DEF s, t, sp, sp2, r, r2, h
<1>5. Latest(t, sp2) = Latest(s, sp)
  BY <1>2, <1>3 DEF Latest
<1>6. TurnsOK(a, h, Latest(t, sp2))
  BY <1>1, <1>5 DEF AgentReplays
<1>7. RepliesOK(a, t, h, r2, sp2)
  BY <1>1, <1>3 DEF AgentReplays, RepliesOK
<1>8. AgentReplays(a, t, work'[a], h, r2, sp2)
  BY <1>2, <1>3, <1>6, <1>7 DEF AgentReplays
<1>9. Persists(s, sp, t, sp2)
  <2>1. ASSUME NEW k, Settled(s, sp, k)
        PROVE  Settled(t, sp2, k) /\ sp2[k] = sp[k]
    <3>1. k \in 1 .. Len(sp) /\ (k < Len(sp) \/ s.flushed)
      BY <1>2, <2>1 DEF Settled
    <3>2. CASE k < Len(sp)
      <4>1. k \in 1 .. Len(sp) - 1
        BY <1>4, <3>1, <3>2
      <4>2. QED BY <1>3, <3>1, <3>2, <4>1 DEF Settled
    <3>3. CASE s.flushed
      BY <1>3, <3>1, <3>3 DEF Settled
    <3>4. QED BY <3>1, <3>2, <3>3
  <2>2. QED BY <2>1 DEF Persists
<1>10. CacheGrows(a)
  BY DEF CacheGrows
<1>11. QED BY <1>3, <1>8, <1>9, <1>10 DEF Replaying, s, t, sp, sp2, r, r2, h

\* Most events leave what was captured alone.
LEMMA CapturedStays ==
  ASSUME NEW a, NEW s, NEW sp, CapturedOK(a, s, sp), s.state \in InStates,
         NEW t, t.state \in InStates, SameThoughts(t, s), t.ids = s.ids,
         t.puts = s.puts, t.flushed = s.flushed, t.block = s.block,
         t.state = "open" => s.state = "open" /\ (s.done => t.done),
         t.state \in {"eof", "closed"} => s.flushed
  PROVE  CapturedOK(a, t, sp)
<1>1. Unstored(t) = Unstored(s)
  BY DEF Unstored, SameThoughts
<1>2. HeardOK(a, Len(sp), s, sp[Len(sp)])
        => HeardOK(a, Len(sp), t, sp[Len(sp)])
  BY DEF HeardOK, SameThoughts
<1>3. /\ IdsOf(a, Len(sp), s.ids) /\ IdsOf(a, Len(sp), s.puts)
      /\ s.flushed => s.blocks = SignedBlocks(a, Len(sp), sp[Len(sp)])
      /\ ~s.flushed =>
           /\ s.puts = <<>>
           /\ Cat(s.blocks, Unstored(s))
                = SignedBlocks(a, Len(sp), sp[Len(sp)])
      /\ s.state = "open" /\ s.flushed => s.done
      /\ s.state \in {"eof", "closed"} => s.flushed
      /\ s.state = "open" /\ s.block = "thinking" =>
           HeardOK(a, Len(sp), s, sp[Len(sp)])
  BY DEF CapturedOK
<1>4. t.blocks = s.blocks
  BY DEF SameThoughts
<1>5. QED BY <1>1, <1>2, <1>3, <1>4 DEF CapturedOK

LEMMA StartReplays ==
  ASSUME ProviderInv, RequestInv, ReplayInv, NEW a \in Agents,
         MessageStart(a)
  PROVE  Replaying(a)
<1> DEFINE s == adapter[a]
           t == adapter'[a]
<1>1. /\ history' = history /\ cache' = cache /\ spoken' = spoken
      /\ request' = [request EXCEPT ![a] = <<>>]
      /\ t = [s EXCEPT !.start = TRUE, !.tokens = TRUE]
      /\ s.state = "open"
  BY DEF MessageStart, ProviderInv, Streaming
<1>2. AdapterOK(s) /\ CapturedOK(a, s, spoken[a]) /\ request'[a] = <<>>
  BY <1>1 DEF ProviderInv, AgentOK, ReplayInv, AgentReplays, RequestInv
<1> HIDE DEF s, t
<1>3. /\ t.state = s.state /\ SameThoughts(t, s) /\ t.ids = s.ids
      /\ t.puts = s.puts /\ t.flushed = s.flushed /\ t.block = s.block
      /\ t.done = s.done
  BY <1>1, <1>2 DEF AdapterOK, SameThoughts
<1>4. s.state \in InStates /\ t.state \in InStates
      /\ (t.state = "open" => s.state = "open" /\ (s.done => t.done))
      /\ (t.state \in {"eof", "closed"} => s.flushed)
  BY <1>1, <1>3 DEF InStates
<1>5. CapturedOK(a, t, spoken[a])
  BY <1>2, <1>3, <1>4, CapturedStays
<1>6. QED BY <1>1, <1>2, <1>3, <1>4, <1>5, StreamReplays DEF s, t

LEMMA MessageDeltaReplays ==
  ASSUME ProviderInv, RequestInv, ReplayInv, NEW a \in Agents,
         MessageDelta(a)
  PROVE  Replaying(a)
<1> DEFINE s == adapter[a]
           t == adapter'[a]
<1>1. /\ history' = history /\ cache' = cache /\ spoken' = spoken
      /\ request' = request /\ s.state = "open"
      /\ t = [s EXCEPT !.usage = TRUE, !.tokens = TRUE]
  BY DEF MessageDelta, ProviderInv, Streaming
<1>2. AdapterOK(s) /\ CapturedOK(a, s, spoken[a])
  BY DEF ProviderInv, AgentOK, ReplayInv, AgentReplays
<1> HIDE DEF s, t
<1>3. /\ t.state = s.state /\ SameThoughts(t, s) /\ t.ids = s.ids
      /\ t.puts = s.puts /\ t.flushed = s.flushed /\ t.block = s.block
      /\ t.done = s.done /\ t.start = s.start
  BY <1>1, <1>2 DEF AdapterOK, SameThoughts
<1>4. s.state \in InStates /\ t.state \in InStates
      /\ (t.state = "open" => s.state = "open" /\ (s.done => t.done))
      /\ (t.state \in {"eof", "closed"} => s.flushed)
  BY <1>1, <1>3 DEF InStates
<1>5. CapturedOK(a, t, spoken[a])
  BY <1>2, <1>3, <1>4, CapturedStays
<1>6. QED BY <1>1, <1>3, <1>4, <1>5, StreamReplays DEF s, t

LEMMA ErrorReplays ==
  ASSUME ProviderInv, RequestInv, ReplayInv, NEW a \in Agents,
         ErrorEvent(a)
  PROVE  Replaying(a)
<1> DEFINE s == adapter[a]
           t == adapter'[a]
<1>1. /\ history' = history /\ cache' = cache /\ spoken' = spoken
      /\ request' = request /\ s.state = "open"
      /\ t = [s EXCEPT !.state = "failed"]
  BY DEF ErrorEvent, ProviderInv, Streaming
<1>2. AdapterOK(s) /\ CapturedOK(a, s, spoken[a])
  BY DEF ProviderInv, AgentOK, ReplayInv, AgentReplays
<1> HIDE DEF s, t
<1>3. /\ t.state = "failed" /\ SameThoughts(t, s) /\ t.ids = s.ids
      /\ t.puts = s.puts /\ t.flushed = s.flushed /\ t.block = s.block
      /\ t.start = s.start
  BY <1>1, <1>2 DEF AdapterOK, SameThoughts
<1>4. s.state \in InStates /\ t.state \in InStates
      /\ (t.state = "open" => s.state = "open" /\ (s.done => t.done))
      /\ (t.state \in {"eof", "closed"} => s.flushed)
  BY <1>1, <1>3 DEF InStates
<1>5. CapturedOK(a, t, spoken[a])
  BY <1>2, <1>3, <1>4, CapturedStays
<1>6. QED BY <1>1, <1>3, <1>4, <1>5, StreamReplays DEF s, t

\* Adding one is joining with one.
LEMMA AppendCat ==
  ASSUME NEW T, NEW x \in Seq(T), NEW v \in T
  PROVE  /\ Append(x, v) = Cat(x, One(v)) /\ Cat(x, <<>>) = x
         /\ One(v) \in Seq(T) /\ Len(One(v)) = 1
<1> DEFINE o == One(v)
           y == Append(x, v)
           z == Cat(x, o)
           e == Cat(x, <<>>)
<1>1. o \in Seq(T) /\ Len(o) = 1 /\ o[1] = v
  BY DEF One
<1>2. /\ y \in Seq(T) /\ Len(y) = Len(x) + 1 /\ y[Len(x) + 1] = v
      /\ Len(x) \in Nat
  BY Extended
<1>3. z \in Seq(T) /\ Len(z) = Len(x) + Len(o)
  <2> HIDE DEF o, z
  <2>1. Cat(x, o) \in Seq(T) /\ Len(Cat(x, o)) = Len(x) + Len(o)
    BY <1>1, Joined
  <2>2. QED BY <2>1 DEF z
<1>4. \A k \in 1 .. Len(x) : y[k] = x[k] /\ z[k] = x[k]
  <2> HIDE DEF o
  <2>1. QED BY <1>1 DEF Cat
<1>5. z[Len(x) + 1] = v
  <2>1. 1 \in DOMAIN o
    BY <1>1
  <2> HIDE DEF o
  <2>2. /\ Cat(x, o) \in Seq(T) /\ Len(Cat(x, o)) = Len(x) + Len(o)
        /\ \A k \in DOMAIN x : k \in DOMAIN Cat(x, o) /\ Cat(x, o)[k] = x[k]
        /\ \A k \in DOMAIN o : /\ Len(x) + k \in DOMAIN Cat(x, o)
                               /\ Cat(x, o)[Len(x) + k] = o[k]
        /\ \A k \in DOMAIN Cat(x, o) :
             k \in DOMAIN x \/ k - Len(x) \in DOMAIN o
    BY <1>1, Joined
  <2>3. QED BY <1>1, <2>1, <2>2
<1> HIDE DEF o, y, z
<1>6. \A k \in 1 .. Len(y) : y[k] = z[k]
  <2>1. ASSUME NEW k \in 1 .. Len(y) PROVE y[k] = z[k]
    <3>1. CASE k = Len(x) + 1
      BY <1>2, <1>5, <3>1
    <3>2. CASE k # Len(x) + 1
      <4>1. k \in 1 .. Len(x)
        BY <1>2, <3>2
      <4>2. QED BY <1>4, <4>1
    <3>3. QED BY <3>1, <3>2
  <2>2. QED BY <2>1
<1>7. y = z
  <2>1. Len(y) = Len(z) /\ y \in Seq(T) /\ z \in Seq(T)
    BY <1>1, <1>2, <1>3
  <2>2. QED BY <1>6, <2>1, SameList
<1>8. e = x
  BY DEF Cat
<1>9. QED BY <1>1, <1>7, <1>8 DEF y, z, o

\* What a flush stores is all that was signed.
LEMMA FlushCaptures ==
  ASSUME NEW a, NEW s, NEW sp, AdapterOK(s), ThoughtsOK(s),
         CapturedOK(a, s, sp), s.state \in InStates,
         NEW t, t = FlushThinkingCache(s)
  PROVE  /\ t.flushed /\ IdsOf(a, Len(sp), t.ids) /\ IdsOf(a, Len(sp), t.puts)
         /\ t.blocks = SignedBlocks(a, Len(sp), sp[Len(sp)])
         /\ s.flushed => t = s
<1> DEFINE all == SignedBlocks(a, Len(sp), sp[Len(sp)])
           b == [type |-> "thinking", name |-> <<s.thinking, s.signature>>]
           open == s.block = "thinking" /\ s.signature # <<>>
           g == FinalizeThinkingBlock(s)
           f == [g EXCEPT !.block = "none"]
           w == IF open THEN f ELSE s
           puts == IF w.blocks = <<>> THEN <<>> ELSE w.ids
<1>1. /\ IdsOf(a, Len(sp), s.ids) /\ IdsOf(a, Len(sp), s.puts)
      /\ s.flushed => s.blocks = all
      /\ ~s.flushed => Cat(s.blocks, Unstored(s)) = all
  BY DEF CapturedOK
<1> HIDE DEF all
<1>2. CASE s.flushed
  <2>1. t = s
    BY <1>2 DEF FlushThinkingCache
  <2>2. QED BY <1>1, <1>2, <2>1 DEF all
<1>3. CASE ~s.flushed
  <2>1. t = [w EXCEPT !.flushed = TRUE, !.puts = puts]
    BY <1>3 DEF FlushThinkingCache
  <2>2. b \in Thoughts /\ s.blocks \in Seq(Thoughts)
    BY DEF Thoughts, ThoughtsOK, Thinking
  <2>3. /\ Append(s.blocks, b) = Cat(s.blocks, One(b))
        /\ Cat(s.blocks, <<>>) = s.blocks
    <3> HIDE DEF b
    <3>1. QED BY <2>2, AppendCat
  <2>4. /\ DOMAIN w = DOMAIN s /\ w.blocks = all /\ w.ids = s.ids
    <3>1. CASE open
      <4>1. /\ DOMAIN g = DOMAIN s /\ g.ids = s.ids
            /\ g.blocks = Append(s.blocks, b)
        <5> DEFINE none == <<>>
                   bs == Append(s.blocks, b)
        <5>1. g = [s EXCEPT !.blocks = bs, !.thinking = none,
                            !.signature = none]
          BY <3>1 DEF FinalizeThinkingBlock
        <5> HIDE DEF g, none, bs
        <5>2. DOMAIN g = DOMAIN s /\ g.ids = s.ids /\ g.blocks = bs
          BY <5>1 DEF AdapterOK
        <5>3. QED BY <5>2 DEF bs
      <4>2. Unstored(s) = One(b)
        BY <3>1 DEF Unstored, One
      <4> HIDE DEF g, b
      <4>3. f.blocks = g.blocks /\ f.ids = g.ids /\ DOMAIN f = DOMAIN g
        BY <4>1 DEF AdapterOK
      <4> HIDE DEF f
      <4>4. w = f
        BY <3>1
      <4> HIDE DEF w
      <4>5. Cat(s.blocks, One(b)) = all
        BY <1>1, <1>3, <4>2
      <4>6. QED BY <2>3, <4>1, <4>3, <4>4, <4>5
    <3>2. CASE ~open
      <4>1. Unstored(s) = <<>>
        BY <3>2 DEF Unstored
      <4>2. w = s
        BY <3>2
      <4> HIDE DEF w
      <4>3. Cat(s.blocks, <<>>) = all
        BY <1>1, <1>3, <4>1
      <4>4. QED BY <2>3, <4>2, <4>3
    <3>3. QED BY <3>1, <3>2
  <2> HIDE DEF w, open
  <2>5. IdsOf(a, Len(sp), puts)
    BY <1>1, <2>4 DEF IdsOf
  <2> HIDE DEF puts
  <2>6. t.flushed = TRUE /\ t.blocks = w.blocks /\ t.ids = w.ids
        /\ t.puts = puts
    BY <2>1, <2>4 DEF AdapterOK
  <2>7. QED BY <1>1, <1>3, <2>4, <2>5, <2>6 DEF all
<1>4. QED BY <1>2, <1>3

\* A flush that ends a stream.
LEMMA EndReplays ==
  ASSUME ProviderInv, RequestInv, ReplayInv, NEW a \in Agents,
         history' = history, cache' = cache, spoken' = spoken,
         request' = request, adapter[a].state \in InStates,
         NEW f, f = FlushThinkingCache(adapter[a]),
         NEW state \in InStates,
         adapter'[a].state = state, SameThoughts(adapter'[a], f),
         adapter'[a].ids = f.ids, adapter'[a].puts = f.puts,
         adapter'[a].flushed = f.flushed, adapter'[a].block = f.block,
         adapter'[a].start = f.start,
         state = "open" => adapter'[a].done /\ f.block = "none"
  PROVE  Replaying(a)
<1> DEFINE s == adapter[a]
           t == adapter'[a]
           sp == spoken[a]
<1>1. /\ AdapterOK(s) /\ CapturedOK(a, s, sp) /\ ThoughtsOK(s)
      /\ s.state \in InStates
  BY DEF ProviderInv, AgentOK, ReplayInv, AgentReplays, RequestInv, AskedOK
<1>2. /\ f.flushed /\ IdsOf(a, Len(sp), f.ids) /\ IdsOf(a, Len(sp), f.puts)
      /\ f.blocks = SignedBlocks(a, Len(sp), sp[Len(sp)])
      /\ s.flushed => f = s
  BY <1>1, FlushCaptures
<1>3. Alike(f, s)
  BY <1>1, Flushed
<1>4. t.start = s.start /\ t.state \in InStates /\ t.flushed
  BY <1>2, <1>3 DEF Alike
<1>5. CapturedOK(a, t, sp)
  <2>1. t.blocks = f.blocks
    BY DEF SameThoughts
  <2>2. t.state = "open" => t.done /\ t.block # "thinking"
    OBVIOUS
  <2> HIDE DEF t, sp, s
  <2>3. QED BY <1>2, <1>4, <2>1, <2>2 DEF CapturedOK, t
<1> HIDE DEF s, t, sp
<1>6. QED BY <1>1, <1>4, <1>5, StreamReplays DEF s, t, sp

LEMMA EndingReplays ==
  ASSUME ProviderInv, RequestInv, ReplayInv, NEW a \in Agents,
         MessageStop(a) \/ EndOfBody(a)
  PROVE  Replaying(a)
<1> DEFINE s == adapter[a]
           t == adapter'[a]
           f == FlushThinkingCache(s)
<1>1. PICK state \in {"open", "eof"} :
        /\ history' = history /\ cache' = cache /\ spoken' = spoken
        /\ request' = request /\ t = Ended(s, state)
        /\ s.state \in {"open", "failed"}
        /\ state = "open" => NoBlockOpen(a) /\ s.state = "open"
  BY DEF MessageStop, EndOfBody, ProviderInv, Streaming
<1>2. AdapterOK(s) /\ AgentOK(a, s, client[a], spoken[a])
  BY DEF ProviderInv, AgentOK
<1>3. AdapterOK(f) /\ (s.block = "none" => f.block = "none")
  BY <1>2, Flushed
<1>4. state = "open" => f.block = "none"
  <2>1. ASSUME state = "open" PROVE s.block = "none"
    <3> DEFINE b == spoken[a][Len(spoken[a])]
    <3>1. StreamOK(s, client[a], b)
      BY <1>1, <1>2, <2>1 DEF AgentOK
    <3>2. b # <<>> => ~b[Len(b)].open
      BY <1>1, <2>1 DEF NoBlockOpen, Block, Last
    <3> HIDE DEF s, b
    <3>3. ~(b # <<>> /\ b[Len(b)].open)
      BY <3>2
    <3>4. s.block = IF b # <<>> /\ b[Len(b)].open THEN b[Len(b)].type
                    ELSE "none"
      BY <3>1 DEF StreamOK
    <3>5. QED BY <3>3, <3>4
  <2>2. QED BY <1>3, <2>1
<1>5. t = [f EXCEPT !.usage = TRUE, !.done = TRUE, !.state = state]
  BY <1>1 DEF Ended
<1>6. s.state \in InStates /\ state \in InStates
  BY <1>1 DEF InStates
<1> HIDE DEF s, t, f
<1>7. /\ t.state = state /\ SameThoughts(t, f) /\ t.ids = f.ids
      /\ t.puts = f.puts /\ t.flushed = f.flushed /\ t.block = f.block
      /\ t.start = f.start /\ t.done = TRUE
  BY <1>3, <1>5 DEF AdapterOK, SameThoughts
<1>8. state = "open" => t.done /\ f.block = "none"
  BY <1>4, <1>7
<1>9. f = FlushThinkingCache(s)
  BY DEF f
<1>10. QED BY <1>1, <1>6, <1>7, <1>8, <1>9, EndReplays DEF s, t

LEMMA CloseReplays ==
  ASSUME ProviderInv, RequestInv, ReplayInv, NEW a \in Agents, Close(a)
  PROVE  Replaying(a)
<1> DEFINE s == adapter[a]
           t == adapter'[a]
           f == FlushThinkingCache(s)
           state == "closed"
<1>1. /\ history' = history /\ cache' = cache /\ spoken' = spoken
      /\ request' = request /\ t = [f EXCEPT !.state = state]
      /\ s.state \in {"open", "failed", "eof"}
  BY DEF Close, ProviderInv
<1>2. AdapterOK(s)
  BY DEF ProviderInv, AgentOK
<1>3. AdapterOK(f)
  BY <1>2, Flushed
<1>4. s.state \in InStates /\ state \in InStates
  BY <1>1 DEF InStates
<1>5. state = "open" => t.done /\ f.block = "none"
  OBVIOUS
<1>6. f = FlushThinkingCache(s)
  OBVIOUS
<1> HIDE DEF s, t, f, state
<1>7. /\ t.state = state /\ SameThoughts(t, f) /\ t.ids = f.ids
      /\ t.puts = f.puts /\ t.flushed = f.flushed /\ t.block = f.block
      /\ t.start = f.start
  BY <1>1, <1>3 DEF AdapterOK, SameThoughts
<1>8. QED BY <1>1, <1>4, <1>5, <1>6, <1>7, EndReplays DEF s, t

LEMMA TailIs ==
  ASSUME NEW T, NEW p \in Seq(T), p # <<>>
  PROVE  \A k \in DOMAIN Tail(p) : k + 1 \in DOMAIN p /\ Tail(p)[k] = p[k + 1]
OBVIOUS

\* The flush puts all that was signed under a call of the turn.
LEMMA FlushNextReplays ==
  ASSUME ProviderInv, RequestInv, ReplayInv, NEW a \in Agents, FlushNext(a)
  PROVE  Replaying(a)
<1> DEFINE s == adapter[a]
           t == adapter'[a]
           sp == spoken[a]
           id == Head(s.puts)
<1>1. /\ history' = history /\ spoken' = spoken /\ request' = request
      /\ cache' = Put(cache, id, s.blocks)
      /\ t = [s EXCEPT !.puts = Tail(@)] /\ s.puts # <<>>
      /\ work' = work
  BY DEF FlushNext, ProviderInv
<1>2. /\ AdapterOK(s) /\ CapturedOK(a, s, sp) /\ CacheOK(cache)
      /\ AgentReplays(a, s, work[a], history[a], request[a], sp)
      /\ SpokenOK(a, s, sp)
  BY DEF ProviderInv, AgentOK, ReplayInv, AgentReplays
<1>3. /\ s.state \in InStates /\ s.flushed /\ IdsOf(a, Len(sp), s.puts)
      /\ IdsOf(a, Len(sp), s.ids)
      /\ s.blocks = SignedBlocks(a, Len(sp), sp[Len(sp)])
      /\ s.state = "open" => s.done
      /\ s.state = "open" /\ s.block = "thinking" =>
           HeardOK(a, Len(sp), s, sp[Len(sp)])
  BY <1>1, <1>2 DEF CapturedOK
<1>4. Len(sp) \in 1 .. Len(sp)
  <2>1. Len(sp) \in 1 .. MaxTurns[a]
    BY <1>2, <1>3 DEF SpokenOK, InStates
  <2>2. QED BY <2>1
<1>5. s.puts \in Seq(Names) /\ Len(s.puts) \in Nat /\ 1 \in DOMAIN s.puts
  BY <1>1, <1>2 DEF AdapterOK
<1>6. id[1] = a /\ id[2] = Len(sp)
  BY <1>3, <1>5 DEF IdsOf
<1>7. IdsOf(a, Len(sp), Tail(s.puts))
  <2> DEFINE p == s.puts
             q == Tail(s.puts)
  <2>1. p \in Seq(Names) /\ p # <<>>
    BY <1>1, <1>5
  <2>2. \A k \in DOMAIN q : k + 1 \in DOMAIN p /\ q[k] = p[k + 1]
    BY <2>1, TailIs
  <2>3. IdsOf(a, Len(sp), p)
    BY <1>3
  <2> HIDE DEF p, q
  <2>4. IdsOf(a, Len(sp), q)
    BY <2>2, <2>3 DEF IdsOf
  <2>5. QED BY <2>4 DEF q
<1> HIDE DEF s, t, sp, id
<1>8. /\ t.state = s.state /\ SameThoughts(t, s) /\ t.ids = s.ids
      /\ t.puts = Tail(s.puts) /\ t.flushed = s.flushed
      /\ t.block = s.block /\ t.start = s.start /\ t.done = s.done
  BY <1>1, <1>2 DEF AdapterOK, SameThoughts
<1>9. HeardOK(a, Len(sp), s, sp[Len(sp)])
        => HeardOK(a, Len(sp), t, sp[Len(sp)])
  BY <1>8 DEF HeardOK, SameThoughts
<1>10. CapturedOK(a, t, sp)
  BY <1>3, <1>7, <1>8, <1>9 DEF CapturedOK, SameThoughts
<1>11. AgentReplays(a, t, work[a], history[a], request[a], sp)
  <2>1. Latest(t, sp) = Latest(s, sp)
    BY <1>8 DEF Latest
  <2>2. RepliesOK(a, t, history[a], request[a], sp)
    BY <1>2, <1>8 DEF AgentReplays, RepliesOK
  <2>3. QED BY <1>2, <1>8, <1>10, <2>1, <2>2 DEF AgentReplays
<1>12. Persists(s, sp, t, sp)
  BY <1>8 DEF Persists, Settled
<1>13. Settled(t, sp, Len(sp))
  BY <1>3, <1>4, <1>8 DEF Settled
<1>14. CacheGrows(a)
  <2>1. \/ cache' = cache
        \/ \E gone : cache'.entries = Stored(cache, id, s.blocks, gone)
    BY <1>1, <1>2 DEF Put, CacheOK
  <2>2. CASE cache' = cache
    BY <2>2 DEF CacheGrows
  <2>3. ASSUME NEW gone, cache'.entries = Stored(cache, id, s.blocks, gone)
        PROVE  CacheGrows(a)
    <3>1. ASSUME NEW i \in DOMAIN cache'.entries
          PROVE  \/ /\ i \in DOMAIN cache.entries
                    /\ cache'.entries[i] = cache.entries[i]
                 \/ i = id /\ cache'.entries[i] = s.blocks
      BY <2>3 DEF Stored
    <3>2. s.blocks = Given(a, sp, Len(sp))
      BY <1>3 DEF Given
    <3>3. spoken'[a] = sp
      BY <1>1 DEF sp
    <3>4. QED BY <1>6, <1>13, <3>1, <3>2, <3>3 DEF CacheGrows, t
  <2>4. QED BY <2>1, <2>2, <2>3
<1>15. QED BY <1>1, <1>11, <1>12, <1>14 DEF Replaying, s, t, sp

\* While a block is open nothing is flushed and the request is not needed.
LEMMA InBlock ==
  ASSUME ProviderInv, RequestInv, ReplayInv, NEW a \in Agents,
         adapter[a].state = "open", Last(spoken[a]) # <<>>, Block(a).open
  PROVE  LET s == adapter[a]
             b == Last(spoken[a])
         IN /\ ~s.flushed /\ s.puts = <<>> /\ request[a] = <<>>
            /\ s.block = Block(a).type /\ b \in Seq(BlockRecords)
            /\ Block(a) \in BlockRecords /\ Block(a) = b[Len(b)]
            /\ Cat(s.blocks, Unstored(s)) = SignedBlocks(a, Turn(a), b)
            /\ s.block = "thinking" => HeardOK(a, Turn(a), s, b)
            /\ IdsOf(a, Turn(a), s.ids) /\ AdapterOK(s) /\ ThoughtsOK(s)
<1> DEFINE s == adapter[a]
           sp == spoken[a]
           b == Last(spoken[a])
           r == request[a]
<1>1. AgentOK(a, s, client[a], sp) /\ ThoughtsOK(s) /\ CapturedOK(a, s, sp)
      /\ RepliesOK(a, s, history[a], r, sp)
  BY DEF ProviderInv, RequestInv, AskedOK, ReplayInv, AgentReplays
<1>2. b \in Seq(BlockRecords) /\ b # <<>> /\ b = sp[Len(sp)]
  BY <1>1, InStream DEF Last
<1>3. Block(a) = b[Len(b)]
  BY DEF Block, Last
<1>4. Block(a) \in BlockRecords
  <2> DEFINE S == BlockRecords
  <2>1. b \in Seq(S) /\ b # <<>>
    BY <1>2
  <2> HIDE DEF S, b
  <2>2. b[Len(b)] \in S
    BY <2>1
  <2>3. QED BY <1>3, <2>2 DEF S
<1>5. StreamOK(s, client[a], b)
  BY <1>1, <1>2 DEF AgentOK
<1>6. r = <<>>
  <2>1. r # <<>> => sp[Len(sp)] = <<>>
    BY <1>1 DEF RepliesOK
  <2>2. QED BY <1>2, <2>1
<1>7. s.block = Block(a).type
  <2>1. b # <<>> /\ b[Len(b)].open
    BY <1>2, <1>3
  <2> HIDE DEF b, s
  <2>2. QED BY <1>3, <1>5, <2>1 DEF StreamOK
<1>8. ~s.done
  <2>1. Block(a).type # "none"
    BY <1>4 DEF BlockRecords, Kinds
  <2>2. QED BY <1>5, <1>7, <2>1 DEF StreamOK
<1>9. /\ s.flushed => s.done
      /\ ~s.flushed => /\ s.puts = <<>>
                       /\ Cat(s.blocks, Unstored(s))
                            = SignedBlocks(a, Turn(a), b)
      /\ s.block = "thinking" => HeardOK(a, Turn(a), s, b)
      /\ IdsOf(a, Turn(a), s.ids)
  <2>1. s.state = "open" /\ s.state \in InStates /\ Turn(a) = Len(sp)
    BY DEF InStates, Turn
  <2> HIDE DEF b, sp, s
  <2>2. QED BY <1>1, <1>2, <2>1 DEF CapturedOK
<1>10. AdapterOK(s)
  BY <1>1 DEF AgentOK
<1> HIDE DEF s, b, r, sp
<1>11. ~s.flushed
  BY <1>8, <1>9
<1>12. QED BY <1>1, <1>2, <1>3, <1>4, <1>6, <1>7, <1>9, <1>10, <1>11
       DEF s, b, r

\* The open block is amended.
LEMMA AmendReplays ==
  ASSUME ProviderInv, RequestInv, ReplayInv, NEW a \in Agents,
         adapter[a].state = "open", Last(spoken[a]) # <<>>, Block(a).open,
         NEW r \in BlockRecords, Amend(a, r),
         history' = history, cache' = cache, request' = request,
         adapter'[a].state = "open",
         adapter'[a].flushed = adapter[a].flushed,
         adapter'[a].puts = adapter[a].puts,
         adapter'[a].ids = adapter[a].ids,
         Cat(adapter'[a].blocks, Unstored(adapter'[a])) =
           SignedBlocks(a, Turn(a), Changed(Last(spoken[a]), r)),
         adapter'[a].block = "thinking" =>
           HeardOK(a, Turn(a), adapter'[a], Changed(Last(spoken[a]), r))
  PROVE  Replaying(a)
<1> DEFINE s == adapter[a]
           t == adapter'[a]
           sp == spoken[a]
           sp2 == spoken'[a]
           b == Last(spoken[a])
           b2 == Changed(b, r)
<1>1. /\ ~s.flushed /\ s.puts = <<>> /\ request[a] = <<>>
      /\ IdsOf(a, Turn(a), s.ids)
  BY InBlock
<1>2. /\ Len(sp2) = Len(sp) /\ sp2[Len(sp2)] = b2
  BY AmendKept
<1>3. sp2 = [sp EXCEPT ![Len(sp)] = b2]
  BY DEF Amend, Turn, Changed, Last, ProviderInv
<1>4. \A k \in 1 .. Len(sp) - 1 : sp2[k] = sp[k]
  <2>1. sp \in Seq(Seq(BlockRecords))
    BY DEF ProviderInv, AgentOK, SpokenOK
  <2> DEFINE S == Seq(BlockRecords)
  <2>2. sp \in Seq(S)
    BY <2>1
  <2> HIDE DEF S, sp, sp2, b2
  <2>3. \A k \in 1 .. Len(sp) - 1 : k \in DOMAIN sp /\ k # Len(sp)
    BY <2>2
  <2>4. QED BY <1>3, <2>3
<1>5. IdsOf(a, Turn(a), t.ids) /\ IdsOf(a, Turn(a), t.puts)
  BY <1>1 DEF IdsOf
<1>6. /\ t.state = "open" /\ t.flushed = s.flushed /\ t.puts = s.puts
      /\ Cat(t.blocks, Unstored(t)) = SignedBlocks(a, Turn(a), b2)
      /\ t.block = "thinking" => HeardOK(a, Turn(a), t, b2)
  OBVIOUS
<1>7. Turn(a) = Len(sp2) /\ request'[a] = <<>>
  BY <1>1, <1>2 DEF Turn
<1> HIDE DEF s, t, sp, sp2, b2
<1>8. CapturedOK(a, t, sp2)
  BY <1>1, <1>2, <1>5, <1>6, <1>7 DEF CapturedOK, InStates
<1>9. s.state \in InStates /\ t.state \in InStates
  BY DEF InStates, s, t
<1>10. QED BY <1>1, <1>2, <1>4, <1>7, <1>8, <1>9, StreamReplays
       DEF s, t, sp, sp2

LEMMA BlockStopReplays ==
  ASSUME ProviderInv, RequestInv, ReplayInv, NEW a \in Agents, BlockStop(a)
  PROVE  Replaying(a)
<1> DEFINE s == adapter[a]
           t == adapter'[a]
           b == Last(spoken[a])
           r == [Block(a) EXCEPT !.open = FALSE]
           v == [type |-> "thinking", name |-> <<s.thinking, s.signature>>]
<1>1. /\ s.state = "open" /\ b # <<>> /\ Block(a).open /\ Amend(a, r)
      /\ t = Stopped(s) /\ history' = history /\ cache' = cache
      /\ request' = request
  BY DEF BlockStop, Streaming, Complete, NoBlockOpen, ProviderInv
<1>2. /\ ~s.flushed /\ s.puts = <<>> /\ b \in Seq(BlockRecords)
      /\ Block(a) \in BlockRecords /\ Block(a) = b[Len(b)]
      /\ Cat(s.blocks, Unstored(s)) = SignedBlocks(a, Turn(a), b)
      /\ AdapterOK(s) /\ ThoughtsOK(s)
  BY <1>1, InBlock
<1>3. /\ r \in BlockRecords /\ r.type = b[Len(b)].type
      /\ r.signed = b[Len(b)].signed /\ r.delta = b[Len(b)].delta
  BY <1>2 DEF BlockRecords
<1>4. SignedBlocks(a, Turn(a), Changed(b, r)) = SignedBlocks(a, Turn(a), b)
  <2> HIDE DEF b, r
  <2>1. QED BY <1>1, <1>2, <1>3, SignedStays
<1>5. t.state = s.state /\ t.block = "none" /\ t.puts = s.puts
      /\ t.ids = s.ids
  BY <1>1, <1>2, StoppedBlock
<1>6. v \in Thoughts /\ s.blocks \in Seq(Thoughts)
  BY <1>2 DEF ThoughtsOK, Thoughts, Thinking
<1>7. /\ Append(s.blocks, v) = Cat(s.blocks, One(v))
      /\ Cat(s.blocks, <<>>) = s.blocks
  <2> HIDE DEF v
  <2>1. QED BY <1>6, AppendCat
<1>8. t.flushed = s.flushed /\ t.blocks = Cat(s.blocks, Unstored(s))
  <2> DEFINE w == IF s.block = "thinking" THEN FinalizeThinkingBlock(s)
                  ELSE s
             next == IF s.block = "tool_use" THEN s.index + 1 ELSE s.index
  <2>1. t = [w EXCEPT !.index = next, !.block = "none"]
    BY <1>1 DEF Stopped
  <2>2. /\ DOMAIN w = DOMAIN s /\ w.flushed = s.flushed
        /\ w.blocks = Cat(s.blocks, Unstored(s))
    <3>1. CASE s.block # "thinking"
      <4>1. w = s /\ Unstored(s) = <<>>
        BY <3>1 DEF Unstored
      <4>2. QED BY <1>7, <4>1
    <3>2. CASE s.block = "thinking"
      <4> DEFINE none == <<>>
                 bs == IF s.signature = <<>> THEN s.blocks
                       ELSE Append(s.blocks, v)
      <4>1. w = [s EXCEPT !.blocks = bs, !.thinking = none,
                          !.signature = none]
        BY <3>2 DEF FinalizeThinkingBlock
      <4>2. bs = Cat(s.blocks, Unstored(s))
        <5>1. CASE s.signature = <<>>
          BY <1>7, <5>1 DEF Unstored
        <5>2. CASE s.signature # <<>>
          <6>1. Unstored(s) = One(v)
            BY <3>2, <5>2 DEF Unstored, One
          <6>2. QED BY <1>7, <5>2, <6>1
        <5>3. QED BY <5>1, <5>2
      <4> HIDE DEF w, none, bs
      <4>3. DOMAIN w = DOMAIN s /\ w.flushed = s.flushed /\ w.blocks = bs
        BY <1>2, <4>1 DEF AdapterOK
      <4>4. QED BY <4>2, <4>3
    <3>3. QED BY <3>1, <3>2
  <2> HIDE DEF w, next, t
  <2>3. t.flushed = w.flushed /\ t.blocks = w.blocks
    BY <1>2, <2>1, <2>2 DEF AdapterOK
  <2>4. QED BY <2>2, <2>3
<1>9. Unstored(t) = <<>>
  BY <1>5 DEF Unstored
<1>10. Cat(t.blocks, Unstored(t)) =
         SignedBlocks(a, Turn(a), Changed(b, r))
  <2>1. ThoughtsOK(t)
    BY <1>1, <1>2, StoppedThoughts
  <2>2. t.blocks \in Seq(Thoughts)
    BY <2>1 DEF ThoughtsOK
  <2> HIDE DEF t, b, r, v
  <2>3. Cat(t.blocks, <<>>) = t.blocks
    <3>1. /\ Append(t.blocks, v) = Cat(t.blocks, One(v))
          /\ Cat(t.blocks, <<>>) = t.blocks
          /\ One(v) \in Seq(Thoughts) /\ Len(One(v)) = 1
      BY <1>6, <2>2, AppendCat
    <3>2. QED BY <3>1
  <2>4. QED BY <1>2, <1>4, <1>8, <1>9, <2>3
<1>11. t.block # "thinking"
  BY <1>5
<1> HIDE DEF r
<1>12. QED BY <1>1, <1>3, <1>5, <1>8, <1>10, <1>11, AmendReplays

LEMMA SignatureReplays ==
  ASSUME ProviderInv, RequestInv, ReplayInv, NEW a \in Agents,
         SignatureDelta(a)
  PROVE  Replaying(a)
<1> DEFINE s == adapter[a]
           t == adapter'[a]
           b == Last(spoken[a])
           r == [Block(a) EXCEPT !.signed = TRUE]
           name == BlockName(a)
           v == [type |-> "thinking", name |-> <<t.thinking, t.signature>>]
<1>1. /\ s.state = "open" /\ b # <<>> /\ Block(a).open /\ Amend(a, r)
      /\ Block(a).type = "thinking" /\ ~Block(a).signed
      /\ t = [s EXCEPT !.signature = Append(@, name)]
      /\ history' = history /\ cache' = cache /\ request' = request
  BY DEF SignatureDelta, Streaming, NoBlockOpen, ProviderInv
<1>2. /\ ~s.flushed /\ s.puts = <<>> /\ b \in Seq(BlockRecords)
      /\ Block(a) \in BlockRecords /\ Block(a) = b[Len(b)]
      /\ Cat(s.blocks, Unstored(s)) = SignedBlocks(a, Turn(a), b)
      /\ AdapterOK(s) /\ ThoughtsOK(s) /\ s.block = Block(a).type
      /\ s.block = "thinking" => HeardOK(a, Turn(a), s, b)
  BY <1>1, InBlock
<1>3. /\ r \in BlockRecords /\ r.type = "thinking" /\ r.signed = TRUE
      /\ r.delta = b[Len(b)].delta
  BY <1>1, <1>2 DEF BlockRecords
<1>4. name = <<a, Turn(a), Len(b)>>
  BY DEF BlockName
<1>5. /\ s.thinking = IF r.delta THEN <<name>> ELSE <<>>
      /\ s.signature = <<>>
  BY <1>1, <1>2, <1>3, <1>4 DEF HeardOK
<1>6. /\ t.state = s.state /\ t.puts = s.puts /\ t.ids = s.ids
      /\ t.flushed = s.flushed /\ t.block = s.block /\ t.blocks = s.blocks
      /\ t.thinking = s.thinking
      /\ t.signature = Append(s.signature, name)
  <2> HIDE DEF t, s, name
  <2>1. QED BY <1>1, <1>2 DEF AdapterOK
<1>7. t.signature = <<name>>
  BY <1>5, <1>6
<1>8. /\ DOMAIN Changed(b, r) = DOMAIN b /\ Changed(b, r)[Len(b)] = r
      /\ Len(Changed(b, r)) = Len(b)
  <2> HIDE DEF b, r
  <2>1. QED BY <1>1, <1>2, <1>3, Amended DEF Changed
<1>9. SignedBlocks(a, Turn(a), Changed(b, r)) =
        Append(SignedBlocks(a, Turn(a), b),
               Unredacted(a, Turn(a), Len(b), r.delta))
  <2>1. b[Len(b)].type = "thinking" /\ ~b[Len(b)].signed /\ r.signed
    BY <1>1, <1>2, <1>3
  <2> HIDE DEF b, r
  <2>2. QED BY <1>1, <1>2, <1>3, <2>1, SignedNow
<1> HIDE DEF s, t, r, name
<1>10. v = Unredacted(a, Turn(a), Len(b), r.delta)
  BY <1>4, <1>5, <1>6, <1>7 DEF Unredacted
<1>11. Unstored(t) = One(v)
  <2>1. t.signature # <<>> /\ t.block = "thinking"
    BY <1>1, <1>2, <1>6, <1>7
  <2>2. QED BY <2>1 DEF Unstored, One
<1>12. s.blocks = SignedBlocks(a, Turn(a), b) /\ s.blocks \in Seq(Thoughts)
  <2>1. Unstored(s) = <<>>
    BY <1>5 DEF Unstored
  <2>2. s.blocks \in Seq(Thoughts)
    BY <1>2 DEF ThoughtsOK
  <2>3. Cat(s.blocks, <<>>) = s.blocks
    <3> DEFINE T == Seq(Thoughts)
    <3>1. QED BY <2>2 DEF Cat
  <2>4. QED BY <1>2, <2>1, <2>2, <2>3
<1>13. Cat(t.blocks, Unstored(t)) =
         SignedBlocks(a, Turn(a), Changed(b, r))
  <2>1. name \in Names /\ t.signature \in Seq(Names)
        /\ t.thinking \in Seq(Names)
    <3>1. name \in Names
      BY <1>1, LastName DEF name, s
    <3>2. QED BY <1>2, <1>6, <1>7, <3>1 DEF ThoughtsOK
  <2>2. v \in Thoughts
    BY <2>1 DEF Thoughts, Thinking
  <2> HIDE DEF v, b
  <2>3. /\ Append(s.blocks, v) = Cat(s.blocks, One(v))
        /\ Cat(s.blocks, <<>>) = s.blocks
        /\ One(v) \in Seq(Thoughts) /\ Len(One(v)) = 1
    BY <1>12, <2>2, AppendCat
  <2>4. QED BY <1>6, <1>9, <1>10, <1>11, <1>12, <2>3
<1>14. HeardOK(a, Turn(a), t, Changed(b, r))
  <2> HIDE DEF b
  <2>1. QED BY <1>3, <1>4, <1>5, <1>6, <1>7, <1>8 DEF HeardOK
<1>15. Amend(a, r) /\ r \in BlockRecords
  BY <1>1, <1>3
<1>16. QED BY <1>1, <1>6, <1>13, <1>14, <1>15, AmendReplays DEF s, t

LEMMA DeltaReplays ==
  ASSUME ProviderInv, RequestInv, ReplayInv, NEW a \in Agents, BlockDelta(a)
  PROVE  Replaying(a)
<1> DEFINE s == adapter[a]
           t == adapter'[a]
           b == Last(spoken[a])
           r == [Block(a) EXCEPT !.delta = TRUE]
           name == BlockName(a)
           type == Block(a).type
<1>1. /\ s.state = "open" /\ b # <<>> /\ Block(a).open /\ Amend(a, r)
      /\ type # "redacted_thinking" /\ ~Block(a).signed
      /\ ~Block(a).delta /\ history' = history /\ cache' = cache
      /\ request' = request
  BY DEF BlockDelta, Streaming, NoBlockOpen
<1>2. /\ ~s.flushed /\ s.puts = <<>> /\ b \in Seq(BlockRecords)
      /\ Block(a) \in BlockRecords /\ Block(a) = b[Len(b)]
      /\ Cat(s.blocks, Unstored(s)) = SignedBlocks(a, Turn(a), b)
      /\ AdapterOK(s) /\ ThoughtsOK(s) /\ s.block = type
      /\ s.block = "thinking" => HeardOK(a, Turn(a), s, b)
  BY <1>1, InBlock
<1>3. \/ type # "thinking" /\ t = s
      \/ type = "thinking" /\ t = [s EXCEPT !.thinking = Append(@, name)]
  <2> DEFINE moved == [adapter EXCEPT
                         ![a].thinking = Append(@, BlockName(a))]
  <2>1. CASE type # "thinking" /\ type \in {"text", "tool_use"}
    <3>1. adapter' = adapter
      BY <2>1 DEF BlockDelta
    <3>2. QED BY <2>1, <3>1
  <2>2. CASE type = "thinking"
    <3>1. adapter' = moved
      BY <2>2 DEF BlockDelta
    <3>2. QED BY <2>2, <3>1 DEF ProviderInv
  <2>3. type \in {"text", "tool_use"} \/ type = "thinking"
    BY <1>1, <1>2 DEF BlockRecords, Kinds
  <2> HIDE DEF type
  <2>4. \/ type = "thinking"
        \/ type # "thinking" /\ type \in {"text", "tool_use"}
    BY <2>3
  <2>5. QED BY <2>1, <2>2, <2>4
<1>4. /\ r \in BlockRecords /\ r.type = b[Len(b)].type
      /\ r.signed = b[Len(b)].signed /\ r.signed = FALSE /\ r.delta = TRUE
  BY <1>1, <1>2 DEF BlockRecords
<1>5. SignedBlocks(a, Turn(a), Changed(b, r)) = SignedBlocks(a, Turn(a), b)
  <2> HIDE DEF b, r
  <2>1. QED BY <1>1, <1>2, <1>4, SignedStays
<1>6. /\ DOMAIN Changed(b, r) = DOMAIN b /\ Changed(b, r)[Len(b)] = r
      /\ Len(Changed(b, r)) = Len(b)
  <2> HIDE DEF b, r
  <2>1. QED BY <1>1, <1>2, <1>4, Amended DEF Changed
<1>7. name = <<a, Turn(a), Len(b)>>
  BY DEF BlockName
<1>8. type = "thinking" => s.thinking = <<>> /\ s.signature = <<>>
  BY <1>1, <1>2, <1>4 DEF HeardOK
<1> HIDE DEF s, t, r, name, type
<1>9. /\ t.state = s.state /\ t.puts = s.puts /\ t.ids = s.ids
      /\ t.flushed = s.flushed /\ t.block = s.block /\ t.blocks = s.blocks
      /\ t.signature = s.signature
      /\ type = "thinking" => t.thinking = Append(s.thinking, name)
  BY <1>2, <1>3 DEF AdapterOK
<1>10. Unstored(t) = Unstored(s)
  <2>1. CASE type = "thinking"
    BY <1>8, <1>9, <2>1 DEF Unstored
  <2>2. CASE type # "thinking"
    BY <1>3, <2>2
  <2>3. QED BY <2>1, <2>2
<1>11. Cat(t.blocks, Unstored(t)) =
         SignedBlocks(a, Turn(a), Changed(b, r))
  BY <1>2, <1>5, <1>9, <1>10
<1>12. t.block = "thinking" => HeardOK(a, Turn(a), t, Changed(b, r))
  <2>1. ASSUME t.block = "thinking"
        PROVE  HeardOK(a, Turn(a), t, Changed(b, r))
    <3>1. type = "thinking"
      BY <1>2, <1>9, <2>1
    <3>2. t.thinking = <<name>> /\ t.signature = <<>>
      BY <1>8, <1>9, <3>1
    <3> HIDE DEF b
    <3>3. QED BY <1>4, <1>6, <1>7, <3>2 DEF HeardOK
  <2>2. QED BY <2>1
<1>13. Amend(a, r) /\ r \in BlockRecords
  BY <1>1, <1>4
<1>14. QED BY <1>1, <1>9, <1>11, <1>12, <1>13, AmendReplays DEF s, t

LEMMA BlockStartReplays ==
  ASSUME ProviderInv, RequestInv, ReplayInv, NEW a \in Agents,
         NEW type \in Kinds, BlockStart(a, type)
  PROVE  Replaying(a)
<1> DEFINE s == adapter[a]
           t == adapter'[a]
           sp == spoken[a]
           sp2 == spoken'[a]
           b == Last(sp)
           u == Upstream(type)
           b2 == Append(b, u)
           name == <<a, Turn(a), Len(b) + 1>>
           v == [type |-> type, name |-> name]
           none == <<>>
           ids == IF type = "tool_use" THEN Append(s.ids, name) ELSE s.ids
           thinking == IF type = "thinking" THEN none ELSE s.thinking
           signature == IF type = "thinking" THEN none ELSE s.signature
           blocks == IF type = "redacted_thinking" THEN Append(s.blocks, v)
                     ELSE s.blocks
<1>1. /\ history' = history /\ cache' = cache /\ request' = request
      /\ s.state = "open" /\ s.start /\ NoBlockOpen(a) /\ ~s.done
      /\ sp2 = [sp EXCEPT ![Turn(a)] = Append(@, u)]
      /\ t = [s EXCEPT !.block = type, !.ids = ids, !.thinking = thinking,
                       !.signature = signature, !.blocks = blocks]
  BY DEF BlockStart, ProviderInv, Streaming, Speak
<1>2. /\ AgentOK(a, s, client[a], sp) /\ ThoughtsOK(s) /\ AdapterOK(s)
      /\ CapturedOK(a, s, sp)
      /\ RepliesOK(a, s, history[a], request[a], sp)
  BY DEF ProviderInv, RequestInv, AskedOK, ReplayInv, AgentReplays, AgentOK
<1>3. /\ sp \in Seq(Seq(BlockRecords)) /\ sp # <<>>
      /\ Len(sp) \in 1 .. MaxTurns[a] /\ b \in Seq(BlockRecords)
      /\ b = sp[Len(sp)] /\ Turn(a) = Len(sp)
  BY <1>1, <1>2, InStream DEF Last, Turn
<1>4. request[a] = <<>>
  BY <1>1, <1>2 DEF RepliesOK
<1>5. ~s.flushed /\ s.puts = <<>> /\ IdsOf(a, Len(sp), s.ids)
      /\ Cat(s.blocks, Unstored(s)) = SignedBlocks(a, Len(sp), b)
  <2> HIDE DEF s, sp, b
  <2>1. QED BY <1>1, <1>2, <1>3 DEF CapturedOK, InStates
<1>6. s.block = "none"
  <2>1. StreamOK(s, client[a], b)
    BY <1>1, <1>2, <1>3 DEF AgentOK
  <2>2. b # <<>> => ~b[Len(b)].open
    BY <1>1 DEF NoBlockOpen, Block, Last
  <2> HIDE DEF s, b
  <2>3. ~(b # <<>> /\ b[Len(b)].open)
    BY <2>2
  <2>4. s.block = IF b # <<>> /\ b[Len(b)].open THEN b[Len(b)].type
                  ELSE "none"
    BY <2>1 DEF StreamOK
  <2>5. QED BY <2>3, <2>4
<1>7. u \in BlockRecords /\ u.delta = FALSE /\ u.signed = FALSE
  BY DEF Upstream, BlockRecords
<1>8. /\ b2 \in Seq(BlockRecords) /\ Len(b2) = Len(b) + 1
      /\ b2[Len(b) + 1] = u
  <2> DEFINE S == BlockRecords
  <2>1. b \in Seq(S) /\ u \in S
    BY <1>3, <1>7
  <2> HIDE DEF S, b, u
  <2>2. /\ Append(b, u) \in Seq(S) /\ Len(Append(b, u)) = Len(b) + 1
        /\ Append(b, u)[Len(b) + 1] = u /\ Append(b, u) # <<>>
        /\ Len(b) \in Nat
    BY <2>1, Extended
  <2>3. QED BY <2>2 DEF S
<1>9. /\ Len(sp2) = Len(sp) /\ sp2[Len(sp2)] = b2
      /\ \A k \in 1 .. Len(sp) - 1 : sp2[k] = sp[k]
  <2>1. sp2 = [sp EXCEPT ![Len(sp)] = b2]
    BY <1>1, <1>3
  <2> DEFINE S == Seq(BlockRecords)
  <2>2. sp \in Seq(S) /\ b2 \in S
    BY <1>3, <1>8
  <2> HIDE DEF S, sp, sp2, b2
  <2>3. Len(sp) \in DOMAIN sp
    BY <1>3, <2>2
  <2>4. \A k \in 1 .. Len(sp) - 1 : k \in DOMAIN sp /\ k # Len(sp)
    BY <2>2
  <2>5. QED BY <2>1, <2>2, <2>3, <2>4
<1>10. SignedBlocks(a, Len(sp), b2) =
         IF type = "redacted_thinking"
         THEN Append(SignedBlocks(a, Len(sp), b),
                     Redacted(a, Len(sp), Len(b) + 1))
         ELSE SignedBlocks(a, Len(sp), b)
  <2> HIDE DEF b, sp
  <2>1. QED BY <1>3, SignedStarts
<1>11. s.blocks = SignedBlocks(a, Len(sp), b) /\ s.blocks \in Seq(Thoughts)
  <2>1. Unstored(s) = <<>>
    BY <1>6 DEF Unstored
  <2>2. s.blocks \in Seq(Thoughts)
    BY <1>2 DEF ThoughtsOK
  <2>3. Cat(s.blocks, <<>>) = s.blocks
    BY <2>2 DEF Cat
  <2>4. QED BY <1>5, <2>1, <2>2, <2>3
<1>12. name \in Names
  <2>1. Len(b) + 1 \in 1 .. MaxBlocks
    BY RoomForBlock
  <2>2. QED BY <1>3, <2>1, NameOf
<1>13. type = "redacted_thinking" => v = Redacted(a, Len(sp), Len(b) + 1)
  BY <1>3 DEF Redacted
<1>14. IdsOf(a, Len(sp), ids)
  <2>1. name[1] = a /\ name[2] = Len(sp)
    BY <1>3
  <2>2. s.ids \in Seq(Names)
    BY <1>2 DEF AdapterOK
  <2> HIDE DEF name
  <2>3. IdsOf(a, Len(sp), Append(s.ids, name))
    <3>1. Append(s.ids, name) =
            [k \in 1 .. Len(s.ids) + 1 |->
               IF k = Len(s.ids) + 1 THEN name ELSE s.ids[k]]
      BY <1>12, <2>2, AppendIs
    <3>2. \A k \in 1 .. Len(s.ids) + 1 :
            k # Len(s.ids) + 1 => k \in DOMAIN s.ids
      BY <2>2
    <3>3. DOMAIN Append(s.ids, name) = 1 .. Len(s.ids) + 1
      BY <3>1
    <3>4. QED BY <1>5, <2>1, <3>1, <3>2, <3>3 DEF IdsOf
  <2>4. QED BY <1>5, <2>3
<1>15. blocks = SignedBlocks(a, Len(sp), b2) /\ blocks \in Seq(Thoughts)
  <2>1. CASE type = "redacted_thinking"
    <3>1. v \in Thoughts
      BY <1>12, <2>1 DEF Thoughts, Thinking
    <3> HIDE DEF v, b, b2
    <3>2. blocks = Append(s.blocks, v)
      BY <2>1
    <3>3. Append(s.blocks, v) \in Seq(Thoughts)
      BY <1>11, <3>1, Extended
    <3>4. QED BY <1>10, <1>11, <1>13, <2>1, <3>2, <3>3
  <2>2. CASE type # "redacted_thinking"
    BY <1>10, <1>11, <2>2
  <2>3. QED BY <2>1, <2>2
<1>16. none = <<>>
  OBVIOUS
<1> HIDE DEF s, t, sp, sp2, b, b2, u, ids, blocks, none, name, v
<1>17. /\ t.state = s.state /\ t.block = type /\ t.ids = ids
       /\ t.thinking = thinking /\ t.signature = signature
       /\ t.blocks = blocks /\ t.flushed = s.flushed /\ t.puts = s.puts
  BY <1>1, <1>2 DEF AdapterOK
<1>18. Unstored(t) = <<>>
  BY <1>16, <1>17 DEF Unstored
<1>19. Cat(t.blocks, Unstored(t)) = SignedBlocks(a, Len(sp), b2)
  <2>1. Cat(blocks, <<>>) = blocks
    BY <1>15 DEF Cat
  <2>2. QED BY <1>15, <1>17, <1>18, <2>1
<1>20. t.block = "thinking" => HeardOK(a, Len(sp), t, b2)
  BY <1>7, <1>8, <1>16, <1>17 DEF HeardOK
<1>21. CapturedOK(a, t, sp2)
  <2>1. IdsOf(a, Len(sp), t.puts)
    BY <1>5, <1>17 DEF IdsOf
  <2>2. QED BY <1>1, <1>5, <1>9, <1>14, <1>17, <1>19, <1>20, <2>1
        DEF CapturedOK, InStates
<1>22. s.state \in InStates /\ t.state \in InStates
  BY <1>1, <1>17 DEF InStates
<1>23. request'[a] = <<>>
  BY <1>1, <1>4
<1>24. QED BY <1>1, <1>5, <1>9, <1>21, <1>22, <1>23, StreamReplays
       DEF s, t, sp, sp2

LEMMA TranslateReplays ==
  ASSUME ProviderInv, RequestInv, ReplayInv, NEW a \in Agents,
         NEW types \in Answers[a], NEW signed \in BOOLEAN,
         TranslateResponseBody(a, types, signed)
  PROVE  Replaying(a)
<1> DEFINE s == adapter[a]
           t == adapter'[a]
           sp == spoken[a]
           sp2 == spoken'[a]
           b == Whole(types, signed)
           calls == InOrder({i \in DOMAIN types : types[i] = "tool_use"})
           ids == [k \in DOMAIN calls |-> <<a, Turn(a), calls[k]>>]
           captured == SignedBlocks(a, Turn(a), b)
           puts == IF captured = <<>> THEN <<>> ELSE ids
<1>1. /\ history' = history /\ cache' = cache /\ s.state = "sent"
      /\ request' = [request EXCEPT ![a] = <<>>]
      /\ spoken' = [spoken EXCEPT ![a][Turn(a)] = b]
  BY DEF TranslateResponseBody, Whole
<1>2. t = [s EXCEPT !.state = "closed", !.flushed = TRUE,
                    !.blocks = captured, !.ids = ids, !.puts = puts]
  BY DEF TranslateResponseBody, ProviderInv, Whole
<1>3. /\ AdapterOK(s) /\ CapturedOK(a, s, sp)
      /\ AgentOK(a, s, client[a], sp) /\ DOMAIN request = Agents
  BY DEF ProviderInv, AgentOK, RequestInv, ReplayInv, AgentReplays
<1>4. sp \in Seq(Seq(BlockRecords)) /\ sp # <<>> /\ Turn(a) = Len(sp)
  BY <1>1, <1>3, InStream DEF Turn
<1>5. b \in Seq(BlockRecords)
  BY WholeIs
<1>6. sp2 = [sp EXCEPT ![Len(sp)] = b]
  <2> HIDE DEF b
  <2>1. QED BY <1>1, <1>4 DEF ProviderInv
<1> HIDE DEF b
<1>7. /\ Len(sp2) = Len(sp) /\ sp2[Len(sp2)] = b
      /\ \A k \in 1 .. Len(sp) - 1 : sp2[k] = sp[k]
  <2> DEFINE S == Seq(BlockRecords)
  <2>1. sp \in Seq(S) /\ b \in S /\ sp # <<>>
    BY <1>4, <1>5
  <2> HIDE DEF S, sp, sp2
  <2>2. Len(sp) \in DOMAIN sp
    BY <2>1
  <2>3. \A k \in 1 .. Len(sp) - 1 : k \in DOMAIN sp /\ k # Len(sp)
    BY <2>1
  <2>4. QED BY <1>6, <2>1, <2>2, <2>3
<1>8. IdsOf(a, Len(sp), ids) /\ IdsOf(a, Len(sp), puts)
  <2>1. IdsOf(a, Len(sp), ids)
    BY <1>4 DEF IdsOf
  <2>2. IdsOf(a, Len(sp), <<>>)
    BY DEF IdsOf
  <2> HIDE DEF ids
  <2>3. QED BY <2>1, <2>2
<1>9. captured = SignedBlocks(a, Len(sp), b)
  BY <1>4
<1> HIDE DEF s, t, sp, sp2, ids, puts, captured
<1>10. /\ t.state = "closed" /\ t.flushed = TRUE /\ t.blocks = captured
       /\ t.ids = ids /\ t.puts = puts
  BY <1>2, <1>3 DEF AdapterOK
<1>11. CapturedOK(a, t, sp2)
  BY <1>7, <1>8, <1>9, <1>10 DEF CapturedOK, InStates
<1>12. ~s.flushed
  BY <1>1, <1>3 DEF CapturedOK, InStates
<1>13. s.state \in InStates \cup {"sent"} /\ t.state \in InStates
  BY <1>1, <1>10 DEF InStates
<1>14. request'[a] = <<>>
  BY <1>1, <1>3
<1>15. QED BY <1>1, <1>7, <1>11, <1>12, <1>13, <1>14, StreamReplays
       DEF s, t, sp, sp2

LEMMA BuildReplays ==
  ASSUME ProviderInv, RequestInv, ReplayInv, NEW a \in Agents,
         NEW wanted \in Settings[a], BuildUpstreamRequest(a, wanted)
  PROVE  Replaying(a)
<1> DEFINE s == adapter[a]
           t == adapter'[a]
           h == history[a]
           r == request[a]
           sp == spoken[a]
           w == work'[a]
<1>1. /\ history' = history /\ request' = request /\ cache' = cache
      /\ spoken' = spoken /\ s.state = "idle"
      /\ t = [s EXCEPT !.state = "building"]
  BY DEF BuildUpstreamRequest, ProviderInv
<1>2. PICK kept :
        work' = [work EXCEPT ![a] =
          [wanted |-> wanted, msgs |-> Hoisted(h), kept |-> kept]]
  BY DEF BuildUpstreamRequest, Hoisted
<1>3. w.msgs = Hoisted(h)
  BY <1>2 DEF ProviderInv
<1>4. Hoisted(h) = Rest(h)
  <2>1. HistoryOK(h)
    BY DEF RequestInv, AskedOK
  <2>2. QED BY <2>1, HoistedIs
<1>5. AdapterOK(s) /\ AgentReplays(a, s, work[a], h, r, sp)
  BY DEF ProviderInv, AgentOK, ReplayInv
<1> HIDE DEF s, t, h, r, sp, w
<1>6. /\ t.state = "building" /\ t.puts = s.puts /\ t.flushed = s.flushed
      /\ t.start = s.start
  BY <1>1, <1>5 DEF AdapterOK
<1>7. TurnsOK(a, h, Latest(t, sp))
  <2>1. Latest(t, sp) = Latest(s, sp)
    BY <1>1, <1>6 DEF Latest
  <2>2. QED BY <1>5, <2>1 DEF AgentReplays
<1>8. RepliesOK(a, t, h, r, sp)
  BY <1>5, <1>6 DEF AgentReplays, RepliesOK
<1>9. CapturedOK(a, t, sp)
  BY <1>1, <1>5, <1>6 DEF AgentReplays, CapturedOK, InStates
<1>10. AgentReplays(a, t, w, h, r, sp)
  BY <1>3, <1>4, <1>7, <1>8, <1>9 DEF AgentReplays
<1>11. Persists(s, sp, t, sp)
  BY <1>6 DEF Persists, Settled
<1>12. CacheGrows(a)
  BY <1>1 DEF CacheGrows
<1>13. QED BY <1>1, <1>10, <1>11, <1>12 DEF Replaying, s, t, h, r, sp, w

\* A new adapter has captured nothing.
LEMMA NewCaptures ==
  ASSUME NEW a, NEW state \in {"idle", "unanswered", "open", "sent"},
         NEW sp, state = "open" => sp[Len(sp)] = <<>>
  PROVE  LET s == Adapter(state)
         IN CapturedOK(a, s, sp) /\ s.state = state /\ ~s.start
<1> DEFINE s == Adapter(state)
           none == <<>>
<1>1. /\ s.state = state /\ s.puts = none /\ s.ids = none /\ ~s.flushed
      /\ s.blocks = none /\ s.block = "none" /\ ~s.start
  BY DEF Adapter
<1>2. \A t : IdsOf(a, t, none)
  BY DEF IdsOf
<1>3. Unstored(s) = none
  BY <1>1 DEF Unstored
<1>4. Cat(none, none) = none
  BY DEF Cat
<1>5. \A t : SignedBlocks(a, t, none) = none
  BY SignedNothing
<1>6. none = <<>>
  OBVIOUS
<1> HIDE DEF s, none
<1>7. s.state \in InStates => state = "open" /\ sp[Len(sp)] = none
  BY <1>1, <1>6 DEF InStates
<1>8. CapturedOK(a, s, sp)
  BY <1>1, <1>2, <1>3, <1>4, <1>5, <1>6, <1>7 DEF CapturedOK
<1>9. QED BY <1>1, <1>8 DEF s

LEMMA SendReplays ==
  ASSUME ProviderInv, RequestInv, ReplayInv, NEW a \in Agents, SendRequest(a)
  PROVE  Replaying(a)
<1> DEFINE s == adapter[a]
           t == adapter'[a]
           h == history[a]
           w == work[a]
           sp == spoken[a]
           sp2 == spoken'[a]
           r2 == request'[a]
<1>1. /\ history' = history /\ cache' = cache /\ s.state = "building"
      /\ spoken' = [spoken EXCEPT ![a] = Append(@, <<>>)]
  BY DEF SendRequest
<1>2. r2 = Sent(w)
  <2>1. request' = [request EXCEPT ![a] = Sent(work[a])]
    BY DEF SendRequest, Sent, Cut
  <2>2. QED BY <2>1 DEF RequestInv
<1>3. /\ AgentOK(a, s, client[a], sp)
      /\ AgentReplays(a, s, w, h, request[a], sp)
      /\ WorkOK(w) /\ HistoryOK(h) /\ CacheHolds(cache) /\ CachedOK(cache)
  BY <1>1 DEF ProviderInv, RequestInv, AskedOK, ReplayInv
<1>4. sp \in Seq(Seq(BlockRecords)) /\ Len(sp) \in Nat
  BY <1>3 DEF AgentOK, SpokenOK
<1>5. /\ Len(sp2) = Len(sp) + 1 /\ sp2[Len(sp2)] = <<>>
      /\ \A k \in 1 .. Len(sp) : sp2[k] = sp[k]
      /\ sp2 # <<>>
  <2> DEFINE S == Seq(BlockRecords)
             none == <<>>
  <2>1. sp \in Seq(S) /\ none \in S
    BY <1>4
  <2>2. sp2 = Append(sp, none)
    BY <1>1 DEF ProviderInv
  <2> HIDE DEF S, none, sp, sp2
  <2>3. /\ Append(sp, none) \in Seq(S)
        /\ Len(Append(sp, none)) = Len(sp) + 1
        /\ Append(sp, none)[Len(sp) + 1] = none /\ Append(sp, none) # <<>>
        /\ Len(sp) \in Nat
    BY <2>1, Extended
  <2>4. \A k \in 1 .. Len(sp) : Append(sp, none)[k] = sp[k]
    BY <2>1
  <2>5. QED BY <2>2, <2>3, <2>4 DEF none
<1>6. PICK state \in {"unanswered", "open", "sent"} : t = Adapter(state)
  BY NewTurn
<1> HIDE DEF s, t, h, w, sp, sp2, r2
<1>7. CapturedOK(a, t, sp2) /\ t.state = state /\ ~t.start
  <2>1. state \in {"idle", "unanswered", "open", "sent"}
    OBVIOUS
  <2>2. QED BY <1>5, <1>6, <2>1, NewCaptures
<1>8. Latest(t, sp2) = Len(sp) /\ Latest(s, sp) = Len(sp)
  BY <1>1, <1>4, <1>5, <1>7 DEF Latest
<1>9. TurnsOK(a, h, Len(sp)) /\ w.msgs = Rest(h)
  BY <1>1, <1>3, <1>8 DEF AgentReplays
<1>10. \A q \in DOMAIN r2.messages :
         ReplayOK(a, r2.messages[q].content, h, sp2, Len(sp))
  <2>1. h \in Seq(Messages) /\ Len(h) >= 1
    <3>1. h \in Seq(Messages) /\ Len(h) >= 2
      BY <1>3 DEF HistoryOK, HistoryAt
    <3>2. QED BY <3>1
  <2>2. ASSUME NEW i \in DOMAIN Rest(h)
        PROVE  BroughtBy(a, Rest(h)[i], sp, Len(sp),
                         CachedBlocks(Rest(h)[i]))
    <3>1. Rest(h) \in Seq(Messages)
      BY <2>1, RestIs
    <3>2. TurnsOK(a, Rest(h), Len(sp))
      BY <1>4, <1>9, <2>1, RestTurns
    <3>3. Rest(h)[i] \in Messages /\ MakesOK(a, Rest(h)[i], Len(sp))
      BY <3>1, <3>2, ElementOf DEF TurnsOK
    <3>4. QED BY <1>3, <1>4, <3>3, CacheBrings DEF sp
  <2>3. BuiltFor(w, h)
    BY <1>9 DEF BuiltFor
  <2>4. Len(sp) <= Len(sp)
    BY <1>4
  <2>5. \A q \in DOMAIN Sent(w).messages :
          ReplayOK(a, Sent(w).messages[q].content, h, sp, Len(sp))
    BY <1>3, <1>4, <1>9, <2>1, <2>2, <2>3, <2>4, SentReplays
  <2>6. QED BY <1>2, <1>5, <2>5, ReplayStays
<1>11. RepliesOK(a, t, h, r2, sp2)
  <2>1. Len(sp2) - 1 = Len(sp)
    BY <1>4, <1>5
  <2>2. QED BY <1>5, <1>7, <1>10, <2>1 DEF RepliesOK
<1>12. AgentReplays(a, t, work'[a], h, r2, sp2)
  BY <1>7, <1>8, <1>9, <1>11 DEF AgentReplays
<1>13. Persists(s, sp, t, sp2)
  <2>1. ASSUME NEW k, Settled(s, sp, k)
        PROVE  Settled(t, sp2, k) /\ sp2[k] = sp[k]
    <3>1. k \in 1 .. Len(sp)
      BY <2>1 DEF Settled
    <3>2. k \in 1 .. Len(sp2) /\ k < Len(sp2)
      BY <1>4, <1>5, <3>1
    <3>3. QED BY <1>5, <3>1, <3>2 DEF Settled
  <2>2. QED BY <2>1 DEF Persists
<1>14. CacheGrows(a)
  BY <1>1 DEF CacheGrows
<1>15. QED BY <1>1, <1>12, <1>13, <1>14
       DEF Replaying, s, t, h, sp, sp2, r2

----------------------------------------------------------------------------
(* The turn an agent adds to its history. *)

MakesOnly(a, m, n) ==
  /\ m.role # "assistant" => DOMAIN m.calls = {}
  /\ \A k \in DOMAIN m.calls : m.calls[k][1] = a /\ m.calls[k][2] = n

TurnIn(a, x, n) ==
  /\ x \in Seq(Messages) /\ \A i \in DOMAIN x : MakesOnly(a, x[i], n)
  /\ Uncut(x, n) \/ Parted(x, n)
  /\ InARow(x, n)

LEMMA TurnAdded ==
  ASSUME NEW a, NEW h \in Seq(Messages), NEW last \in Nat,
         TurnsOK(a, h, last), NEW x, TurnIn(a, x, last + 1)
  PROVE  /\ TurnsOK(a, Cat(h, x), last + 1)
         /\ \A t \in 1 .. last : OneCall(h, t) => OneCall(Cat(h, x), t)
<1> DEFINE z == Cat(h, x)
           l == Len(h)
           n == last + 1
<1>1. x \in Seq(Messages) /\ l \in Nat /\ DOMAIN h = 1 .. l
  BY DEF TurnIn
<1>2. /\ Cat(h, x) \in Seq(Messages) /\ Len(Cat(h, x)) = Len(h) + Len(x)
      /\ \A k \in DOMAIN h : k \in DOMAIN Cat(h, x) /\ Cat(h, x)[k] = h[k]
      /\ \A k \in DOMAIN x : /\ Len(h) + k \in DOMAIN Cat(h, x)
                             /\ Cat(h, x)[Len(h) + k] = x[k]
      /\ \A k \in DOMAIN Cat(h, x) :
           k \in DOMAIN h \/ k - Len(h) \in DOMAIN x
  BY <1>1, Joined
<1>3. /\ \A k \in DOMAIN h : k \in DOMAIN z /\ z[k] = h[k]
      /\ \A k \in DOMAIN x : l + k \in DOMAIN z /\ z[l + k] = x[k]
      /\ \A k \in DOMAIN z : k \in DOMAIN h \/ k - l \in DOMAIN x
      /\ \A k \in DOMAIN z : k \in Int
  <2>1. \A k \in DOMAIN z : k \in Int
    <3>1. z \in Seq(Messages)
      BY <1>2
    <3> HIDE DEF z
    <3>2. QED BY <3>1
  <2>2. QED BY <1>2, <2>1
<1>4. /\ \A i \in DOMAIN h : MakesOK(a, h[i], last)
      /\ \A t \in 1 .. last : Uncut(h, t) \/ Parted(h, t)
      /\ \A t \in 1 .. last : InARow(h, t)
  BY DEF TurnsOK
<1>5. /\ \A i \in DOMAIN x : MakesOnly(a, x[i], n)
      /\ Uncut(x, n) \/ Parted(x, n)
      /\ InARow(x, n)
  BY DEF TurnIn
<1>6. n \in Nat /\ n = last + 1
  OBVIOUS
<1>7. \A k \in DOMAIN x : k \in Int /\ k >= 1
  BY <1>1
<1>8. \A i \in DOMAIN h : \A k \in DOMAIN h[i].calls :
        h[i].calls[k] \in Names /\ h[i].calls[k][2] \in Nat
  <2>1. ASSUME NEW i \in DOMAIN h, NEW k \in DOMAIN h[i].calls
        PROVE  h[i].calls[k] \in Names
    <3>1. h[i] \in Messages
      BY ElementOf
    <3>2. h[i].calls \in Seq(Names)
      BY <3>1 DEF Messages
    <3>3. QED BY <3>2, ElementOf
  <2>2. QED BY <2>1, TurnsNamed
<1> HIDE DEF z, l, n
\* The old messages make the old turns, the new ones the new turn.
<1>9. \A t \in 1 .. last : \A k \in DOMAIN z :
        CalledIn(z[k], t) # {} => k \in DOMAIN h
  <2>1. ASSUME NEW t \in 1 .. last, NEW k \in DOMAIN z, k \notin DOMAIN h
        PROVE  CalledIn(z[k], t) = {}
    <3>1. k - l \in DOMAIN x /\ l + (k - l) = k
      BY <1>1, <1>3, <2>1
    <3>2. z[k] = x[k - l]
      BY <1>3, <3>1
    <3>3. MakesOnly(a, z[k], n)
      BY <1>5, <3>1, <3>2
    <3>4. t # n
      BY <1>6
    <3>5. QED BY <3>3, <3>4 DEF CalledIn, MakesOnly
  <2>2. QED BY <2>1
<1>10. \A k \in DOMAIN z :
         CalledIn(z[k], n) # {} => k \notin DOMAIN h /\ k - l \in DOMAIN x
                                   /\ z[k] = x[k - l]
  <2>1. ASSUME NEW k \in DOMAIN h PROVE CalledIn(z[k], n) = {}
    <3>1. z[k] = h[k] /\ MakesOK(a, h[k], last)
      BY <1>3, <1>4
    <3>2. \A c \in DOMAIN h[k].calls :
            h[k].calls[c][2] \in Nat /\ h[k].calls[c][2] <= last
      BY <1>8, <3>1 DEF MakesOK
    <3>3. \A c \in DOMAIN h[k].calls : h[k].calls[c][2] # n
      BY <1>6, <3>2
    <3>4. QED BY <3>1, <3>3 DEF CalledIn
  <2>2. ASSUME NEW k \in DOMAIN z, k \notin DOMAIN h
        PROVE  k - l \in DOMAIN x /\ z[k] = x[k - l]
    <3>1. k - l \in DOMAIN x /\ l + (k - l) = k
      BY <1>1, <1>3, <2>2
    <3>2. QED BY <1>3, <3>1
  <2>3. QED BY <2>1, <2>2
<1>11. \A t \in 1 .. last : Made(z, t) = Made(h, t)
  <2>1. ASSUME NEW t \in 1 .. last PROVE Made(z, t) = Made(h, t)
    <3>1. Made(z, t) \subseteq Made(h, t)
      BY <1>3, <1>9 DEF Made
    <3>2. Made(h, t) \subseteq Made(z, t)
      BY <1>3 DEF Made
    <3>3. QED BY <3>1, <3>2
  <2>2. QED BY <2>1
<1>12. \A k \in Made(z, n) : /\ k \in DOMAIN z /\ k - l \in Made(x, n)
                             /\ z[k] = x[k - l] /\ k \notin DOMAIN h
  BY <1>10 DEF Made
<1>13. ASSUME NEW k \in DOMAIN z PROVE MakesOK(a, z[k], n)
  <2>1. CASE k \in DOMAIN h
    <3>1. z[k] = h[k] /\ MakesOK(a, h[k], last)
      BY <1>3, <1>4, <2>1
    <3>2. \A c \in DOMAIN h[k].calls : h[k].calls[c][2] <= n
      <4>1. \A c \in DOMAIN h[k].calls :
              h[k].calls[c][2] \in Nat /\ h[k].calls[c][2] <= last
        BY <1>8, <2>1, <3>1 DEF MakesOK
      <4>2. QED BY <1>6, <4>1
    <3>3. QED BY <3>1, <3>2 DEF MakesOK
  <2>2. CASE k \notin DOMAIN h
    <3>1. k - l \in DOMAIN x /\ l + (k - l) = k
      BY <1>1, <1>3, <2>2
    <3>2. MakesOnly(a, z[k], n)
      BY <1>3, <1>5, <3>1
    <3>3. n <= n
      BY <1>6
    <3>4. QED BY <3>2, <3>3 DEF MakesOnly, MakesOK
  <2>3. QED BY <2>1, <2>2
<1>14. ASSUME NEW t \in 1 .. last
       PROVE  /\ Uncut(z, t) \/ Parted(z, t)
              /\ InARow(z, t)
              /\ OneCall(h, t) => OneCall(z, t)
  <2>1. Made(z, t) = Made(h, t) /\ \A k \in Made(h, t) : z[k] = h[k]
    BY <1>3, <1>11 DEF Made
  <2>2. Uncut(z, t) \/ Parted(z, t)
    <3>1. CASE Uncut(h, t)
      BY <2>1, <3>1 DEF Uncut
    <3>2. CASE Parted(h, t)
      BY <2>1, <3>2 DEF Parted
    <3>3. QED BY <1>4, <3>1, <3>2
  <2>3. InARow(z, t)
    <3>1. ASSUME NEW i \in DOMAIN z, NEW j \in DOMAIN z, NEW k \in DOMAIN z,
                 i < j, j < k, i \in Made(z, t), k \in Made(z, t)
          PROVE  j \in Made(z, t)
      <4>1. i \in Made(h, t) /\ k \in Made(h, t)
        BY <2>1, <3>1
      <4>2. i \in DOMAIN h /\ k \in DOMAIN h
        BY <4>1 DEF Made
      <4>3. j \in Int
        BY <1>3
      <4>4. j \in DOMAIN h
        BY <1>1, <3>1, <4>2, <4>3
      <4>5. InARow(h, t)
        BY <1>4
      <4>6. j \in Made(h, t)
        BY <3>1, <4>1, <4>2, <4>4, <4>5 DEF InARow
      <4>7. QED BY <2>1, <4>6
    <3>2. QED BY <3>1 DEF InARow
  <2>4. ASSUME OneCall(h, t) PROVE OneCall(z, t)
    <3>1. ASSUME NEW i \in DOMAIN z, NEW u \in CalledIn(z[i], t),
                 NEW v \in CalledIn(z[i], t)
          PROVE  u = v
      <4>1. i \in DOMAIN h /\ z[i] = h[i]
        BY <1>3, <1>9
      <4>2. QED BY <2>4, <4>1 DEF OneCall
    <3>2. QED BY <3>1 DEF OneCall
  <2>5. QED BY <2>2, <2>3, <2>4
<1>15. Uncut(z, n) \/ Parted(z, n)
  <2>1. CASE Uncut(x, n)
    <3>1. ASSUME NEW i \in Made(z, n), NEW j \in Made(z, n) PROVE i = j
      <4>1. i - l = j - l
        BY <1>12, <2>1 DEF Uncut
      <4>2. i \in Int /\ j \in Int
        BY <1>3, <1>12
      <4>3. QED BY <1>1, <4>1, <4>2
    <3>2. QED BY <3>1 DEF Uncut
  <2>2. CASE Parted(x, n)
    <3>1. ASSUME NEW i \in Made(z, n)
          PROVE  /\ DOMAIN z[i].calls = {1}
                 /\ \A j \in Made(z, n) :
                      i # j => z[i].calls[1] # z[j].calls[1]
      <4>1. i - l \in Made(x, n) /\ z[i] = x[i - l] /\ i \in Int
        BY <1>3, <1>12
      <4>2. DOMAIN z[i].calls = {1}
        BY <2>2, <4>1 DEF Parted
      <4>3. ASSUME NEW j \in Made(z, n), i # j
            PROVE  z[i].calls[1] # z[j].calls[1]
        <5>1. j - l \in Made(x, n) /\ z[j] = x[j - l] /\ j \in Int
          BY <1>3, <1>12
        <5>2. i - l # j - l
          BY <1>1, <4>1, <4>3, <5>1
        <5>3. QED BY <2>2, <4>1, <5>1, <5>2 DEF Parted
      <4>4. QED BY <4>2, <4>3
    <3>2. QED BY <3>1 DEF Parted
  <2>3. QED BY <1>5, <2>1, <2>2
<1>16. InARow(z, n)
  <2>1. ASSUME NEW i \in DOMAIN z, NEW j \in DOMAIN z, NEW k \in DOMAIN z,
               i < j, j < k, i \in Made(z, n), k \in Made(z, n)
        PROVE  j \in Made(z, n)
    <3>1. /\ i - l \in Made(x, n) /\ k - l \in Made(x, n)
          /\ i \notin DOMAIN h /\ i \in Int /\ j \in Int /\ k \in Int
      BY <1>3, <1>12, <2>1
    <3>2. i - l \in DOMAIN x /\ k - l \in DOMAIN x
      BY <3>1 DEF Made
    <3>3. j \notin DOMAIN h
      <4>1. i - l >= 1
        BY <1>7, <3>2
      <4>2. i > l
        BY <1>1, <3>1, <4>1
      <4>3. j > l
        BY <1>1, <2>1, <3>1, <4>2
      <4>4. QED BY <1>1, <3>1, <4>3
    <3>4. j - l \in DOMAIN x /\ l + (j - l) = j
      BY <1>1, <1>3, <3>1, <3>3
    <3>5. i - l < j - l /\ j - l < k - l
      BY <1>1, <2>1, <3>1
    <3>6. j - l \in Made(x, n)
      BY <1>5, <3>1, <3>2, <3>4, <3>5 DEF InARow
    <3>7. z[j] = x[j - l]
      BY <1>3, <3>4
    <3>8. QED BY <3>6, <3>7 DEF Made
  <2>2. QED BY <2>1 DEF InARow
<1>17. \A t \in 1 .. n : t \in 1 .. last \/ t = n
  BY <1>6
<1>18. TurnsOK(a, z, n)
  <2>1. \A t \in 1 .. n : Uncut(z, t) \/ Parted(z, t)
    BY <1>14, <1>15, <1>17
  <2>2. \A t \in 1 .. n : InARow(z, t)
    BY <1>14, <1>16, <1>17
  <2>3. QED BY <1>13, <2>1, <2>2 DEF TurnsOK
<1>19. QED BY <1>14, <1>18 DEF z, n

\* Messages that call nothing do not matter.
LEMMA QuietAfter ==
  ASSUME NEW a, NEW n, NEW x, TurnIn(a, x, n), NEW y \in Seq(Messages),
         \A k \in DOMAIN y : DOMAIN y[k].calls = {}
  PROVE  TurnIn(a, Cat(x, y), n)
<1> DEFINE z == Cat(x, y)
           l == Len(x)
<1>1. x \in Seq(Messages) /\ l \in Nat /\ DOMAIN x = 1 .. l
  BY DEF TurnIn
<1>2. /\ Cat(x, y) \in Seq(Messages) /\ Len(Cat(x, y)) = Len(x) + Len(y)
      /\ \A k \in DOMAIN x : k \in DOMAIN Cat(x, y) /\ Cat(x, y)[k] = x[k]
      /\ \A k \in DOMAIN y : /\ Len(x) + k \in DOMAIN Cat(x, y)
                             /\ Cat(x, y)[Len(x) + k] = y[k]
      /\ \A k \in DOMAIN Cat(x, y) :
           k \in DOMAIN x \/ k - Len(x) \in DOMAIN y
  BY <1>1, Joined
<1>3. /\ \A k \in DOMAIN x : k \in DOMAIN z /\ z[k] = x[k]
      /\ \A k \in DOMAIN z : k \in DOMAIN x \/ DOMAIN z[k].calls = {}
      /\ \A k \in DOMAIN z : k \in Int /\ k >= 1
  <2>1. \A k \in DOMAIN z : k \in Int /\ k >= 1
    <3>1. z \in Seq(Messages)
      BY <1>2
    <3> HIDE DEF z
    <3>2. QED BY <3>1
  <2>2. ASSUME NEW k \in DOMAIN z, k \notin DOMAIN x
        PROVE  DOMAIN z[k].calls = {}
    <3>1. k - l \in DOMAIN y /\ l + (k - l) = k
      BY <1>1, <1>2, <2>1, <2>2
    <3>2. QED BY <1>2, <3>1
  <2>3. QED BY <1>2, <2>1, <2>2
<1>4. z \in Seq(Messages)
  BY <1>2
<1>5. /\ \A i \in DOMAIN x : MakesOnly(a, x[i], n)
      /\ Uncut(x, n) \/ Parted(x, n)
      /\ InARow(x, n)
  BY DEF TurnIn
<1> HIDE DEF z, l
<1>6. Made(z, n) = Made(x, n) /\ \A k \in Made(x, n) : z[k] = x[k]
  <2>1. Made(z, n) \subseteq Made(x, n)
    BY <1>3 DEF Made, CalledIn
  <2>2. Made(x, n) \subseteq Made(z, n)
    BY <1>3 DEF Made
  <2>3. QED BY <1>3, <2>1, <2>2 DEF Made
<1>7. \A i \in DOMAIN z : MakesOnly(a, z[i], n)
  BY <1>3, <1>5 DEF MakesOnly
<1>8. Uncut(z, n) \/ Parted(z, n)
  <2>1. CASE Uncut(x, n)
    BY <1>6, <2>1 DEF Uncut
  <2>2. CASE Parted(x, n)
    BY <1>6, <2>2 DEF Parted
  <2>3. QED BY <1>5, <2>1, <2>2
<1>9. InARow(z, n)
  <2>1. ASSUME NEW i \in DOMAIN z, NEW j \in DOMAIN z, NEW k \in DOMAIN z,
               i < j, j < k, i \in Made(z, n), k \in Made(z, n)
        PROVE  j \in Made(z, n)
    <3>1. i \in Made(x, n) /\ k \in Made(x, n)
      BY <1>6, <2>1
    <3>2. i \in DOMAIN x /\ k \in DOMAIN x
      BY <3>1 DEF Made
    <3>3. j \in Int /\ j >= 1
      BY <1>3
    <3>4. j \in DOMAIN x
      BY <1>1, <2>1, <3>2, <3>3
    <3>5. j \in Made(x, n)
      BY <1>5, <2>1, <3>1, <3>2, <3>4 DEF InARow
    <3>6. QED BY <1>6, <3>5
  <2>2. QED BY <2>1 DEF InARow
<1>10. QED BY <1>4, <1>7, <1>8, <1>9 DEF TurnIn, z

LEMMA AnswerTurn ==
  ASSUME NEW a, NEW n, NEW c, NEW reasons \in BOOLEAN,
         NEW ids \in Seq(Names), IdsOf(a, n, ids), NEW said \in BOOLEAN
  PROVE  TurnIn(a, One(Spoken(c, reasons, ids, said)), n)
<1> DEFINE m == Spoken(c, reasons, ids, said)
           x == One(m)
<1>1. m \in Messages /\ m.role = "assistant" /\ m.calls = ids
  BY SpokenIs
<1> HIDE DEF m
<1>2. x \in Seq(Messages) /\ DOMAIN x = {1} /\ x[1] = m
  BY <1>1 DEF One
<1> HIDE DEF x
<1>3. MakesOnly(a, m, n)
  BY <1>1 DEF MakesOnly, IdsOf
<1>4. Made(x, n) \subseteq {1}
  BY <1>2 DEF Made
<1>5. Uncut(x, n)
  BY <1>4 DEF Uncut
<1>6. InARow(x, n)
  <2>1. \A i, j \in {1} : ~(i < j)
    OBVIOUS
  <2>2. QED BY <1>2, <2>1 DEF InARow
<1>7. QED BY <1>2, <1>3, <1>5, <1>6 DEF TurnIn, x, m

LEMMA SplitTurn ==
  ASSUME NEW a, NEW n, NEW c, c.said \in BOOLEAN, NEW reasons \in BOOLEAN,
         NEW ids \in Seq(Names), IdsOf(a, n, ids), Distinct(ids)
  PROVE  TurnIn(a, Split(c, reasons, ids), n)
<1> DEFINE x == Split(c, reasons, ids)
<1>1. x \in Seq(Messages)
  BY SplitLeads DEF Leads, Ledger
<1>2. DOMAIN x = DOMAIN ids
  BY DEF Split
<1>3. ASSUME NEW i \in DOMAIN ids
      PROVE  x[i].role = "assistant" /\ x[i].calls = One(ids[i])
  <2> DEFINE o == One(ids[i])
             r == reasons /\ i = 1
             d == c.said /\ i = 1
  <2>1. ids[i] \in Names
    BY ElementOf
  <2>2. o \in Seq(Names) /\ r \in BOOLEAN /\ d \in BOOLEAN
    BY <2>1 DEF One
  <2>3. x[i] = Spoken(c, r, o, d)
    BY <1>3 DEF Split, One
  <2> HIDE DEF o, r, d, x
  <2>4. /\ Spoken(c, r, o, d) \in Messages
        /\ Spoken(c, r, o, d).role = "assistant"
        /\ Spoken(c, r, o, d).calls = o
    BY <2>2, SpokenIs
  <2>5. QED BY <2>3, <2>4 DEF o
<1> HIDE DEF x
<1>4. \A i \in DOMAIN ids : /\ DOMAIN One(ids[i]) = {1}
                            /\ One(ids[i])[1] = ids[i]
  BY DEF One
<1>5. \A i \in DOMAIN x : MakesOnly(a, x[i], n)
  BY <1>2, <1>3, <1>4 DEF MakesOnly, IdsOf
<1>6. Made(x, n) = DOMAIN x
  <2>1. \A i \in DOMAIN x : 1 \in CalledIn(x[i], n)
    BY <1>2, <1>3, <1>4 DEF CalledIn, IdsOf
  <2>2. QED BY <2>1 DEF Made
<1>7. Parted(x, n)
  BY <1>2, <1>3, <1>4, <1>6 DEF Parted, Distinct
<1>8. InARow(x, n)
  BY <1>6 DEF InARow
<1>9. QED BY <1>1, <1>5, <1>7, <1>8 DEF TurnIn, x

LEMMA ResultsQuiet ==
  ASSUME NEW ids \in Seq(Names), Distinct(ids)
  PROVE  /\ ResultsFor(ids) \in Seq(Messages)
         /\ \A k \in DOMAIN ResultsFor(ids) :
              DOMAIN ResultsFor(ids)[k].calls = {}
<1>1. ResultsFor(ids) \in Seq(Messages)
  BY ResultsLead DEF Leads, Ledger
<1>2. \A id : Result(id).calls = <<>>
  BY DEF Result, Message
<1>3. \A k \in DOMAIN ResultsFor(ids) : ResultsFor(ids)[k].calls = <<>>
  BY <1>2 DEF ResultsFor
<1>4. DOMAIN <<>> = {}
  OBVIOUS
<1>5. QED BY <1>1, <1>3, <1>4

LEMMA FurtherTurn ==
  ASSUME NEW a, NEW h \in Seq(Messages), NEW last \in Nat,
         TurnsOK(a, h, last), NEW c \in ClientRecords,
         NEW reasons \in BOOLEAN, NEW ids \in Seq(Names), Distinct(ids),
         IdsOf(a, last + 1, ids), NEW splits \in BOOLEAN,
         NEW text \in BOOLEAN
  PROVE  LET f == Further(h, c, reasons, ids, splits, text)
         IN /\ TurnsOK(a, f, last + 1)
            /\ \A t \in 1 .. last : OneCall(h, t) => OneCall(f, t)
<1> DEFINE n == last + 1
           answer == IF splits THEN Split(c, reasons, ids)
                     ELSE One(Spoken(c, reasons, ids, c.said))
           f == Further(h, c, reasons, ids, splits, text)
<1>1. c.said \in BOOLEAN /\ c.dones \in Nat
  BY DEF ClientRecords
<1>2. TurnIn(a, answer, n)
  <2>1. TurnIn(a, Split(c, reasons, ids), n)
    BY <1>1, SplitTurn
  <2>2. TurnIn(a, One(Spoken(c, reasons, ids, c.said)), n)
    BY <1>1, AnswerTurn
  <2>3. QED BY <2>1, <2>2
<1> HIDE DEF answer
<1>3. \E x : TurnIn(a, x, n) /\ f = Cat(h, x)
  <2>1. CASE c.dones = 0
    <3> DEFINE none == <<>>
    <3>1. f = h
      BY <2>1 DEF Further
    <3>2. Cat(h, none) = h
      BY DEF Cat
    <3>3. none \in Seq(Messages) /\ DOMAIN none = {}
      OBVIOUS
    <3> HIDE DEF none, f
    <3>4. TurnIn(a, none, n)
      BY <3>3 DEF TurnIn, Uncut, InARow, Made
    <3>5. QED BY <3>1, <3>2, <3>4
  <2>2. CASE c.dones > 0 /\ ids # <<>>
    <3> DEFINE y == ResultsFor(ids)
               x == Cat(answer, y)
    <3>1. f = Cat(Cat(h, answer), y)
      BY <1>1, <2>2 DEF Further, answer
    <3>2. y \in Seq(Messages) /\ \A k \in DOMAIN y : DOMAIN y[k].calls = {}
      BY ResultsQuiet
    <3>3. answer \in Seq(Messages)
      BY <1>2 DEF TurnIn
    <3> HIDE DEF y, f
    <3>4. Cat(Cat(h, answer), y) = Cat(h, Cat(answer, y))
      BY <3>2, <3>3, CatAssoc
    <3>5. TurnIn(a, Cat(answer, y), n)
      <4> HIDE DEF n
      <4>1. QED BY <1>2, <3>2, QuietAfter
    <3>6. QED BY <3>1, <3>4, <3>5
  <2>3. CASE c.dones > 0 /\ ids = <<>>
    <3> DEFINE m == Spoken(c, reasons, ids, c.said)
               u == Message("user", text)
               y == One(u)
               x == Cat(One(m), y)
    <3>1. f = Cat(h, Two(m, u))
      BY <1>1, <2>3 DEF Further
    <3>2. Two(m, u) = x
      <4> HIDE DEF m, u
      <4>1. Join(m, u) = Two(m, u)
        BY JoinedTwo
      <4>2. QED BY <4>1 DEF Join, Cat, One
    <3>3. TurnIn(a, One(m), n)
      <4> HIDE DEF n
      <4>1. QED BY <1>1, AnswerTurn DEF n
    <3>4. u \in Messages /\ DOMAIN u.calls = {}
      <4>1. u \in Messages
        BY MessagesAre
      <4>2. u.calls = <<>>
        BY DEF Message
      <4>3. QED BY <4>1, <4>2
    <3> HIDE DEF m, u
    <3>5. y \in Seq(Messages) /\ \A k \in DOMAIN y : DOMAIN y[k].calls = {}
      BY <3>4 DEF One
    <3> HIDE DEF y, f
    <3>6. TurnIn(a, Cat(One(m), y), n)
      <4> HIDE DEF n
      <4>1. QED BY <3>3, <3>5, QuietAfter
    <3>7. QED BY <3>1, <3>2, <3>6
  <2>4. QED BY <1>1, <2>1, <2>2, <2>3
<1>4. PICK x : TurnIn(a, x, n) /\ f = Cat(h, x)
  BY <1>3
<1> HIDE DEF f
<1>5. /\ TurnsOK(a, Cat(h, x), last + 1)
      /\ \A t \in 1 .. last : OneCall(h, t) => OneCall(Cat(h, x), t)
  BY <1>4, TurnAdded
<1>6. QED BY <1>4, <1>5 DEF f

\* An agent adds a turn, whose calls are those of the answer.
LEMMA ContinueReplays ==
  ASSUME ProviderInv, RequestInv, ReplayInv, NEW a \in Agents,
         NEW keeps \in BOOLEAN, NEW splits \in BOOLEAN, NEW text \in BOOLEAN,
         Continue(a, keeps, splits, text)
  PROVE  Replaying(a)
<1> DEFINE s == adapter[a]
           c == client[a]
           h == history[a]
           t == adapter'[a]
           r == request[a]
           sp == spoken[a]
           last == Len(sp) - 1
           ids == [i \in DOMAIN c.calls |-> c.calls[i].id]
           reasons == keeps /\ c.reasoned
           f == Further(h, c, reasons, ids, splits, text)
<1>1. /\ request' = request /\ cache' = cache /\ spoken' = spoken
      /\ adapter' = [adapter EXCEPT ![a] = Adapter("idle")]
      /\ s.state = "closed"
  <2>1. UNCHANGED <<cache, work, request, spoken>>
    BY Zenon DEF Continue
  <2>2. adapter' = [adapter EXCEPT ![a] = Adapter("idle")]
        /\ adapter[a].state = "closed"
    BY Zenon DEF Continue
  <2>3. QED BY <2>1, <2>2
<1>2. history' = [history EXCEPT ![a] = f]
  BY DEF Continue, Further, Split, One, Two, Cat, ResultsFor
<1>3. AgentOK(a, s, c, sp) /\ AgentReplays(a, s, work[a], h, r, sp)
  BY DEF ProviderInv, ReplayInv
<1>4. /\ c \in ClientRecords
      /\ Delivered(a, Len(sp), c.calls, sp[Len(sp)])
  BY <1>1, <1>3 DEF AgentOK, EndingOK
<1>5. ids \in Seq(Names) /\ Distinct(ids)
  <2> HIDE DEF c
  <2>1. QED BY <1>4, IdsAre
<1>6. reasons \in BOOLEAN
  BY <1>4 DEF ClientRecords
<1>7. history'[a] = f /\ h \in Seq(Messages)
  <2>1. DOMAIN history = Agents /\ HistoryOK(h)
    BY DEF RequestInv, AskedOK
  <2> HIDE DEF f
  <2>2. QED BY <1>2, <2>1 DEF HistoryOK, HistoryAt
<1>8. t = Adapter("idle")
  BY <1>1 DEF ProviderInv
<1>9. IdsOf(a, Len(sp), ids)
  <2>1. ASSUME NEW k \in DOMAIN ids
        PROVE  ids[k][1] = a /\ ids[k][2] = Len(sp)
    <3>1. PICK p \in DOMAIN sp[Len(sp)] : c.calls[k].id = <<a, Len(sp), p>>
      BY <1>4 DEF Delivered
    <3>2. QED BY <3>1
  <2> HIDE DEF ids
  <2>2. QED BY <2>1 DEF IdsOf
<1>10. Len(sp) \in Nat
  BY <1>3 DEF AgentOK, SpokenOK
<1> HIDE DEF s, c, h, t, r, sp, ids, reasons, f
<1>11. last \in Nat /\ last + 1 = Len(sp)
  <2>1. sp # <<>> /\ sp \in Seq(Seq(BlockRecords))
    BY <1>1, <1>3 DEF AgentOK, SpokenOK
  <2>2. Len(sp) # 0
    BY <2>1
  <2>3. QED BY <1>10, <2>2
<1>12. /\ CapturedOK(a, t, sp) /\ t.state = "idle" /\ ~t.start
  <2>1. LET n == Adapter("idle")
        IN CapturedOK(a, n, sp) /\ n.state = "idle" /\ ~n.start
    BY NewCaptures
  <2>2. QED BY <1>8, <2>1
<1>13. Latest(s, sp) = last /\ Latest(t, sp) = Len(sp)
  BY <1>1, <1>12 DEF Latest
<1>14. TurnsOK(a, h, last)
  BY <1>3, <1>13 DEF AgentReplays
<1>15. /\ TurnsOK(a, f, Len(sp))
       /\ \A k \in 1 .. last : OneCall(h, k) => OneCall(f, k)
  <2>1. IdsOf(a, last + 1, ids)
    BY <1>9, <1>11
  <2> HIDE DEF last
  <2>2. LET z == Further(h, c, reasons, ids, splits, text)
        IN /\ TurnsOK(a, z, last + 1)
           /\ \A k \in 1 .. last : OneCall(h, k) => OneCall(z, k)
    BY <1>4, <1>5, <1>6, <1>7, <1>11, <1>14, <2>1, FurtherTurn
  <2>3. QED BY <1>11, <2>2 DEF f
<1>16. RepliesOK(a, t, f, r, sp)
  <2>1. SUFFICES ASSUME r # <<>>
                 PROVE  RepliesOK(a, t, f, r, sp)
    BY DEF RepliesOK
  <2>2. /\ sp # <<>> /\ sp[Len(sp)] = <<>>
        /\ \A i \in DOMAIN r.messages :
             ReplayOK(a, r.messages[i].content, h, sp, last)
    BY <1>3, <2>1 DEF AgentReplays, RepliesOK
  <2>3. ASSUME NEW i \in DOMAIN r.messages
        PROVE  ReplayOK(a, r.messages[i].content, f, sp, last)
    <3>1. ReplayOK(a, r.messages[i].content, h, sp, last)
      BY <2>2
    <3>2. QED BY <1>15, <3>1 DEF ReplayOK
  <2>4. QED BY <1>12, <2>2, <2>3 DEF RepliesOK
<1>17. AgentReplays(a, t, work'[a], f, r, sp)
  BY <1>12, <1>13, <1>15, <1>16 DEF AgentReplays
<1>18. Persists(s, sp, t, sp)
  BY <1>12 DEF Persists, Settled
<1>19. CacheGrows(a)
  BY <1>1 DEF CacheGrows
<1>20. spoken'[a] = sp /\ request'[a] = r
  BY <1>1 DEF sp, r
<1>21. QED BY <1>7, <1>17, <1>18, <1>19, <1>20 DEF Replaying, s, t, sp

----------------------------------------------------------------------------
(* The invariant holds, and FaithfulReplay with it. *)

LEMMA InitReplays == Init => ReplayInv
<1> SUFFICES ASSUME Init PROVE ReplayInv
  OBVIOUS
<1>1. CachedOK(cache)
  <2>1. DOMAIN cache.entries = {}
    BY DEF Init, EmptyCache
  <2>2. QED BY <2>1 DEF CachedOK
<1> DEFINE m == Message("system", TRUE)
           u == Message("user", TRUE)
           h == <<m, u>>
           none == <<>>
<1>2. ASSUME NEW a \in Agents
      PROVE  AgentReplays(a, adapter[a], work[a], history[a], request[a],
                          spoken[a])
  <2> DEFINE s == Adapter("idle")
  <2>1. /\ adapter[a] = s /\ history[a] = h /\ request[a] = none
        /\ spoken[a] = none /\ Len(none) = 0 /\ none = <<>>
    BY DEF Init
  <2>2. TurnsOK(a, h, 0)
    <3>1. m.calls = <<>> /\ u.calls = <<>> /\ DOMAIN <<>> = {}
      BY DEF Message
    <3> HIDE DEF m, u
    <3>2. DOMAIN h = {1, 2} /\ h[1] = m /\ h[2] = u
      OBVIOUS
    <3> HIDE DEF h
    <3>3. \A i \in DOMAIN h : DOMAIN h[i].calls = {}
      BY <3>1, <3>2
    <3>4. 1 .. 0 = {}
      OBVIOUS
    <3>5. QED BY <3>3, <3>4 DEF TurnsOK, MakesOK
  <2>3. CapturedOK(a, s, none) /\ s.state = "idle" /\ ~s.start
    <3> HIDE DEF none
    <3>1. LET x == Adapter("idle")
          IN CapturedOK(a, x, none) /\ x.state = "idle" /\ ~x.start
      BY NewCaptures
    <3>2. QED BY <3>1
  <2> HIDE DEF s, h, none
  <2>4. Latest(s, none) = 0
    BY <2>1, <2>3 DEF Latest
  <2>5. RepliesOK(a, s, h, none, none)
    BY <2>1 DEF RepliesOK
  <2>6. QED BY <2>1, <2>2, <2>3, <2>4, <2>5 DEF AgentReplays
<1>3. QED BY <1>1, <1>2 DEF ReplayInv

LEMMA NextReplays ==
  ProviderInv /\ RequestInv /\ ReplayInv /\ [Next]_vars
    => ProviderInv' /\ RequestInv' /\ ReplayInv'
<1> SUFFICES ASSUME ProviderInv, RequestInv, ReplayInv, [Next]_vars
             PROVE  ProviderInv' /\ RequestInv' /\ ReplayInv'
  OBVIOUS
<1>1. ProviderInv' /\ RequestInv'
  BY NextAsks
<1>2. CASE UNCHANGED vars
  <2>1. ReplayInv'
    BY <1>2 DEF vars, ReplayInv, CachedOK
  <2>2. QED BY <1>1, <2>1
<1>3. CASE Next
  <2>1. PICK a \in Agents : Stream(a) \/ Converse(a)
    BY <1>3 DEF Next
  <2>2. Stepped(a) /\ Asked(a) /\ Replaying(a)
    <3>1. CASE Stream(a)
      <4>1. CASE MessageStart(a)
        BY <4>1, StartKept, StartAsks, StartReplays
      <4>2. CASE BlockDelta(a)
        BY <4>2, DeltaKept, DeltaAsks, DeltaReplays
      <4>3. CASE SignatureDelta(a)
        BY <4>3, SignatureKept, SignatureAsks, SignatureReplays
      <4>4. CASE BlockStop(a)
        BY <4>4, BlockStopKept, BlockStopAsks, BlockStopReplays
      <4>5. CASE MessageDelta(a)
        BY <4>5, MessageDeltaKept, MessageDeltaAsks, MessageDeltaReplays
      <4>6. CASE MessageStop(a)
        BY <4>6, MessageStopKept, EndingAsks, EndingReplays
      <4>7. CASE ErrorEvent(a)
        BY <4>7, ErrorKept, ErrorAsks, ErrorReplays
      <4>8. CASE EndOfBody(a)
        BY <4>8, EndOfBodyKept, EndingAsks, EndingReplays
      <4>9. CASE Close(a)
        BY <4>9, CloseKept, CloseAsks, CloseReplays
      <4>10. CASE FlushNext(a)
        BY <4>10, FlushNextKept, FlushNextAsks, FlushNextReplays
      <4>11. ASSUME NEW type \in Kinds, BlockStart(a, type)
             PROVE  Stepped(a) /\ Asked(a) /\ Replaying(a)
        BY <4>11, BlockStartKept, BlockStartAsks, BlockStartReplays
      <4>12. QED BY <3>1, <4>1, <4>2, <4>3, <4>4, <4>5, <4>6, <4>7, <4>8,
                    <4>9, <4>10, <4>11 DEF Stream
    <3>2. CASE Converse(a)
      <4>1. ASSUME NEW wanted \in Settings[a],
                   BuildUpstreamRequest(a, wanted)
            PROVE  Stepped(a) /\ Asked(a) /\ Replaying(a)
        BY <4>1, BuildKept, BuildAsks, BuildReplays
      <4>2. CASE SendRequest(a)
        BY <4>2, SendKept, SendAsks, SendReplays
      <4>3. ASSUME NEW types \in Answers[a], NEW signed \in BOOLEAN,
                   TranslateResponseBody(a, types, signed)
            PROVE  Stepped(a) /\ Asked(a) /\ Replaying(a)
        BY <4>3, TranslateKept, TranslateAsks, TranslateReplays
      <4>4. ASSUME NEW habit \in Habits[a], NEW text \in BOOLEAN,
                   Continue(a, habit[1], habit[2], text)
            PROVE  Stepped(a) /\ Asked(a) /\ Replaying(a)
        <5>1. habit[1] \in BOOLEAN /\ habit[2] \in BOOLEAN
          BY <4>4, ProviderAssumption
        <5>2. QED BY <4>4, <5>1, ContinueKept, ContinueAsks, ContinueReplays
      <4>5. QED BY <3>2, <4>1, <4>2, <4>3, <4>4 DEF Converse
    <3>3. QED BY <2>1, <3>1, <3>2
  <2>3. ReplayInv'
    BY <2>2, ReplayGoesOn
  <2>4. QED BY <1>1, <2>3
<1>4. QED BY <1>2, <1>3

\* What a run of a message holds is the thinking that was signed.
LEMMA PickedSigned ==
  ASSUME NEW e \in Seq(Blocks), NEW turn, NEW a, NEW t,
         NEW b \in Seq(BlockRecords),
         InPlace(e, turn, SignedBlocks(a, t, b))
  PROVE  Picked(e, ThoughtsOf(e, turn)) = SignedBlocks(a, t, b)
<1> DEFINE s == SignedBlocks(a, t, b)
           n == Len(s)
           l == Len(InOrder(KeptAt(b)))
<1>1. n \in Nat
  BY SignedLength
<1>2. s = [k \in 1 .. n |-> s[k]]
  <2>1. Len(b) \in Nat /\ KeptAt(b) \in SUBSET (1 .. Len(b))
    BY DEF KeptAt
  <2>2. InOrder(KeptAt(b)) \in Seq(KeptAt(b))
    BY <2>1, Ordered
  <2>3. l \in Nat /\ DOMAIN InOrder(KeptAt(b)) = 1 .. l
    BY <2>2
  <2>4. s = [k \in 1 .. l |-> Kept(a, t, b, InOrder(KeptAt(b))[k])]
    BY <2>3, SignedAre
  <2> HIDE DEF l, s
  <2>5. DOMAIN s = 1 .. l
    BY <2>4
  <2>6. n = l
    BY <1>1, <2>3, <2>5
  <2>7. QED BY <2>4, <2>6
<1> HIDE DEF s, n
<1>3. PICK p \in 0 .. Len(e) :
        /\ ThoughtsOf(e, turn) = p + 1 .. p + n
        /\ \A k \in 1 .. n : e[p + k] = s[k]
  BY DEF InPlace, s, n
<1>4. Len(e) \in Nat /\ DOMAIN e = 1 .. Len(e) /\ p \in Nat
  OBVIOUS
<1>5. p + n <= Len(e)
  <2>1. CASE n = 0
    BY <1>4, <2>1
  <2>2. CASE n # 0
    <3>1. p + n \in ThoughtsOf(e, turn)
      BY <1>1, <1>3, <1>4, <2>2
    <3>2. p + n \in DOMAIN e
      BY <3>1 DEF ThoughtsOf, Replayed
    <3>3. QED BY <1>4, <3>2
  <2>3. QED BY <2>1, <2>2
<1>6. Picked(e, p + 1 .. p + n) = Run(e, p, n)
  BY <1>1, <1>4, <1>5, PickedRun
<1>7. Run(e, p, n) = [k \in 1 .. n |-> s[k]]
  BY <1>3 DEF Run
<1>8. QED BY <1>2, <1>3, <1>6, <1>7 DEF s

\* One call of a turn to a message is fewer than several.
LEMMA NotWhole ==
  ASSUME NEW h \in Seq(Messages), NEW i \in DOMAIN h, NEW t, OneCall(h, t),
         NEW C \in SUBSET CalledIn(h[i], t), NEW e \in Seq(Blocks), NEW turn,
         Several(e, turn)
  PROVE  Cardinality(CallsOf(e, turn)) # Cardinality(C)
<1>1. h[i] \in Messages
  BY ElementOf
<1>2. h[i].calls \in Seq(Names)
  BY <1>1 DEF Messages
<1>3. IsFiniteSet(C) /\ Cardinality(C) \in Nat /\ Cardinality(C) <= 1
  <2>1. \A x, y \in C : x = y
    BY DEF OneCall
  <2>2. CASE C = {}
    <3>1. Cardinality(C) = 0
      BY <2>2, FS_EmptySet
    <3>2. IsFiniteSet(C)
      BY <2>2, FS_EmptySet
    <3>3. QED BY <3>1, <3>2
  <2>3. CASE C # {}
    <3>1. PICK x : x \in C
      BY <2>3
    <3>2. C = {x}
      BY <2>1, <3>1
    <3>3. IsFiniteSet({x}) /\ Cardinality({x}) = 1
      BY FS_Singleton
    <3>4. QED BY <3>2, <3>3
  <2>4. QED BY <2>2, <2>3
<1>4. PICK j \in CallsOf(e, turn), k \in CallsOf(e, turn) : j # k
  BY DEF Several
<1>5. IsFiniteSet(CallsOf(e, turn))
  <2>1. CallsOf(e, turn) \subseteq 1 .. Len(e)
    BY DEF CallsOf
  <2>2. IsFiniteSet(1 .. Len(e))
    BY FS_Interval
  <2>3. QED BY <2>1, <2>2, FS_Subset
<1>6. IsFiniteSet({j}) /\ Cardinality({j}) = 1
  BY FS_Singleton
<1>7. /\ IsFiniteSet({j} \cup {k})
      /\ Cardinality({j} \cup {k}) = Cardinality({j}) + 1
  <2>1. k \notin {j}
    BY <1>4
  <2>2. /\ IsFiniteSet({j} \cup {k})
        /\ Cardinality({j} \cup {k}) =
             IF k \in {j} THEN Cardinality({j}) ELSE Cardinality({j}) + 1
    BY <1>6, FS_AddElement
  <2>3. QED BY <2>1, <2>2
<1>8. Cardinality({j} \cup {k}) <= Cardinality(CallsOf(e, turn))
  <2>1. {j} \cup {k} \subseteq CallsOf(e, turn)
    OBVIOUS
  <2>2. QED BY <1>5, <2>1, FS_Subset
<1>9. Cardinality(CallsOf(e, turn)) \in Nat
  BY <1>5, FS_CardinalityType
<1> DEFINE n == Cardinality(CallsOf(e, turn))
           two == Cardinality({j} \cup {k})
           one == Cardinality({j})
<1>10. /\ two = one + 1 /\ one = 1 /\ two <= n /\ n \in Nat
  BY Zenon, <1>6, <1>7, <1>8, <1>9
<1> HIDE DEF n, two, one
<1>11. n >= 2
  BY <1>10
<1>12. QED BY <1>3, <1>11 DEF n

LEMMA ReplayIsFaithful ==
  ProviderInv /\ RequestInv /\ ReplayInv => FaithfulReplay
<1> SUFFICES ASSUME ProviderInv, RequestInv, ReplayInv, NEW a \in Agents,
                    request[a] # <<>>, NEW i \in DOMAIN request[a].messages,
                    NEW j \in Replayed(request[a].messages[i].content)
             PROVE  LET e == request[a].messages[i].content
                        turn == TurnOf(e[j])
                        mine == Picked(e, {k \in Replayed(e) :
                                             TurnOf(e[k]) = turn})
                        C(m) == {k \in DOMAIN history[a][m].calls :
                                   /\ history[a][m].calls[k][1] = turn[1]
                                   /\ history[a][m].calls[k][2] = turn[2]}
                        whole == \E m \in DOMAIN history[a] :
                                   Cardinality(CallsOf(e, turn))
                                     = Cardinality(C(m))
                    IN /\ turn[1] = a
                       /\ mine = SignedBlocks(a, turn[2],
                                              spoken[a][turn[2]])
                       /\ CallsOf(e, turn) # {}
                       /\ whole => \A k \in CallsOf(e, turn) : j < k
  BY DEF FaithfulReplay
<1> DEFINE e == request[a].messages[i].content
           h == history[a]
           sp == spoken[a]
           turn == TurnOf(e[j])
           last == Len(sp) - 1
           C(m) == {k \in DOMAIN h[m].calls : /\ h[m].calls[k][1] = turn[1]
                                              /\ h[m].calls[k][2] = turn[2]}
<1>1. e \in Seq(Blocks)
  <2>1. Paired(request[a].messages)
    BY DEF RequestInv, AskedOK, Accepted
  <2>2. request[a].messages \in Seq(OutMessages)
    BY <2>1 DEF Paired
  <2>3. request[a].messages[i] \in OutMessages
    BY <2>2, ElementOf
  <2>4. QED BY <2>3 DEF OutMessages
<1>2. h \in Seq(Messages)
  BY DEF RequestInv, AskedOK, HistoryOK, HistoryAt
<1>3. sp \in Seq(Seq(BlockRecords)) /\ Len(sp) \in Nat
  BY DEF ProviderInv, AgentOK, SpokenOK
<1>4. ReplayOK(a, e, h, sp, last)
  BY DEF ReplayInv, AgentReplays, RepliesOK
<1> HIDE DEF e, h, sp
<1>5. j \in Replayed(e)
  BY DEF e
<1>6. PICK t \in 1 .. last : turn = <<a, t>>
  BY <1>4, <1>5 DEF ReplayOK
<1> HIDE DEF turn
<1>7. j \in ThoughtsOf(e, turn)
  BY <1>5 DEF ThoughtsOf, turn
<1>8. t \in DOMAIN sp /\ sp[t] \in Seq(BlockRecords)
  <2>1. t \in DOMAIN sp
    BY <1>3
  <2>2. QED BY <1>3, <2>1, ElementOf
<1>9. /\ InPlace(e, turn, SignedBlocks(a, t, sp[t]))
      /\ CallsOf(e, turn) # {}
      /\ Leading(e, turn) \/ (Several(e, turn) /\ OneCall(h, t))
  BY <1>4, <1>6, <1>7 DEF ReplayOK, Given
<1>10. Picked(e, ThoughtsOf(e, turn)) = SignedBlocks(a, t, sp[t])
  BY <1>1, <1>8, <1>9, PickedSigned
<1>11. turn[1] = a /\ turn[2] = t
  BY <1>6
<1>12. ASSUME NEW m \in DOMAIN h,
              Cardinality(CallsOf(e, turn)) = Cardinality(C(m))
       PROVE  \A k \in CallsOf(e, turn) : j < k
  <2>1. C(m) \subseteq CalledIn(h[m], t)
    BY <1>11 DEF CalledIn
  <2> HIDE DEF C
  <2>2. ASSUME Several(e, turn), OneCall(h, t) PROVE FALSE
    BY <1>1, <1>2, <1>12, <2>1, <2>2, NotWhole
  <2>3. Leading(e, turn)
    BY <1>9, <2>2
  <2>4. QED BY <1>7, <2>3 DEF Leading
<1>13. QED BY <1>9, <1>10, <1>11, <1>12 DEF ThoughtsOf, turn, e, h, sp

(* The thinking put back into a history is what the upstream signed, all   *)
(* of it, in order and once, in the message that makes the calls it led    *)
(* to, and before them unless the agent split the calls: whatever the      *)
(* agents are answered, however the parallel turns interleave, and         *)
(* whichever calls the ring of the cache has dropped                       *)
(* (finalizeThinkingBlock, flushThinkingCache, thinkingBlockCache,         *)
(* translateMessagesFast, stripDuplicateThinkingBlocks).                   *)
THEOREM ThinkingReplayed == Spec => []FaithfulReplay
<1>1. Init => ProviderInv /\ RequestInv /\ ReplayInv
  BY InitOK, InitAsks, InitReplays
<1>2. (ProviderInv /\ RequestInv /\ ReplayInv) /\ [Next]_vars
        => (ProviderInv /\ RequestInv /\ ReplayInv)'
  BY NextReplays
<1>3. ProviderInv /\ RequestInv /\ ReplayInv => FaithfulReplay
  BY ReplayIsFaithful
<1>4. QED BY <1>1, <1>2, <1>3, PTL DEF Spec
=============================================================================
