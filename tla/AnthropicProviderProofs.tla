----------------------- MODULE AnthropicProviderProofs -----------------------
(***************************************************************************)
(* Proofs about AnthropicProvider, for any agents, any settings and        *)
(* habits, any answers and any size of the cache: the ring of the cache    *)
(* matches its entries, an agent assembles the calls of its answer, and    *)
(* its requests are ones the service takes.                                *)
(***************************************************************************)
EXTENDS AnthropicProvider, FiniteSetTheorems, TLAPS

----------------------------------------------------------------------------
(* The ring of the cache. *)

\* How far behind the head a slot is.
Behind(h, x) == IF x >= h THEN x - h ELSE x - h + MaxCached

\* One turn of the ring at most.
LEMMA Wraps ==
  ASSUME NEW M \in Nat \ {0}, NEW h \in 0 .. M - 1, NEW i \in 0 .. M
  PROVE  (h + i) % M = IF h + i < M THEN h + i ELSE h + i - M
OBVIOUS

\* The slots in use are those less than count behind the head.
LEMMA SlotsUsed ==
  ASSUME NEW c, c.head \in Slots, c.count \in 0 .. MaxCached
  PROVE  Used(c) = {x \in Slots : Behind(c.head, x) < c.count}
<1> DEFINE M == MaxCached
           h == c.head
           n == c.count
<1>1. M \in Nat \ {0} /\ h \in 0 .. M - 1 /\ n \in 0 .. M
  BY CacheAssumption DEF Slots
<1>2. Slots = 0 .. M - 1
  BY DEF Slots
<1> HIDE DEF M, h, n
<1>3. ASSUME NEW i \in 0 .. n - 1
      PROVE  (h + i) % M \in 0 .. M - 1 /\ Behind(h, (h + i) % M) = i
  <2>1. i \in 0 .. M
    BY <1>1
  <2>2. (h + i) % M = IF h + i < M THEN h + i ELSE h + i - M
    BY ONLY <1>1, <2>1, Wraps
  <2>3. QED BY <1>1, <2>1, <2>2 DEF Behind, M
<1>4. ASSUME NEW x \in 0 .. M - 1, Behind(h, x) < n
      PROVE  \E i \in 0 .. n - 1 : x = (h + i) % M
  <2>1. /\ Behind(h, x) \in 0 .. n - 1 /\ Behind(h, x) \in 0 .. M
        /\ x = IF h + Behind(h, x) < M THEN h + Behind(h, x)
               ELSE h + Behind(h, x) - M
    BY <1>1, <1>4 DEF Behind, M
  <2>2. x = (h + Behind(h, x)) % M
    <3> DEFINE i == Behind(h, x)
    <3>1. i \in 0 .. M /\ x = IF h + i < M THEN h + i ELSE h + i - M
      BY <2>1
    <3> HIDE DEF i
    <3>2. x = (h + i) % M
      BY ONLY <1>1, <3>1, Wraps
    <3>3. QED BY <3>2 DEF i
  <2>3. QED BY <2>1, <2>2
<1>5. Used(c) = {(h + i) % M : i \in 0 .. n - 1}
  BY DEF Used, h, n, M
<1>6. ASSUME NEW i \in 0 .. n - 1 PROVE Behind(h, (h + i) % M) < n
  BY <1>1, <1>3
<1>7. Used(c) = {x \in 0 .. M - 1 : Behind(h, x) < n}
  BY <1>3, <1>4, <1>5, <1>6
<1>8. QED BY <1>2, <1>7 DEF h, n

\* What a cache holds.
CacheOK(c) ==
  /\ DOMAIN c = {"entries", "order", "head", "count"}
  /\ c.head \in Slots /\ c.count \in 0 .. MaxCached
  /\ c.order \in [Slots -> Names \cup {NoCall}]
  /\ DOMAIN c.entries \subseteq Names
  /\ RingMatches(c)

\* A new cache is empty.
LEMMA EmptyMatches == CacheOK(EmptyCache)
<1>1. /\ MaxCached \in Nat \ {0} /\ 0 \in Slots
  BY CacheAssumption DEF Slots
<1>2. Used(EmptyCache) = {}
  BY DEF Used, EmptyCache
<1>3. EmptyCache.order \in [Slots -> Names \cup {NoCall}]
  BY DEF EmptyCache
<1>4. DOMAIN EmptyCache.entries = {}
  BY DEF EmptyCache
<1>5. RingMatches(EmptyCache)
  BY <1>2, <1>4 DEF RingMatches
<1>6. QED BY <1>1, <1>3, <1>4, <1>5 DEF CacheOK, EmptyCache

\* A full ring is in use all over.
LEMMA FullRing ==
  ASSUME NEW c, c.head \in Slots, c.count = MaxCached
  PROVE  Used(c) = Slots
<1>1. MaxCached \in Nat \ {0} /\ c.count \in 0 .. MaxCached
  BY CacheAssumption
<1>2. \A x \in Slots : Behind(c.head, x) < c.count
  BY CacheAssumption DEF Behind, Slots
<1>3. QED BY <1>1, <1>2, SlotsUsed

\* Putting thinking under a call keeps ring and entries together: a known
\* call keeps its slot, a new one takes a free one or that of the oldest.
LEMMA PutMatches ==
  ASSUME NEW c, CacheOK(c), NEW id \in Names, NEW blocks
  PROVE  CacheOK(Put(c, id, blocks))
<1> DEFINE M == MaxCached
<1>1. /\ M \in Nat \ {0} /\ c.head \in 0 .. M - 1 /\ c.count \in 0 .. M
      /\ Slots = 0 .. M - 1 /\ c.head \in Slots
      /\ DOMAIN c.entries \subseteq Names
  BY CacheAssumption DEF CacheOK, Slots
<1>2. CASE blocks = <<>>
  <2>1. Put(c, id, blocks) = c
    BY <1>2 DEF Put
  <2>2. QED BY <2>1
<1>3. CASE blocks # <<>> /\ id \in DOMAIN c.entries
  <2> DEFINE d == [c EXCEPT !.entries = Stored(c, id, blocks, {})]
  <2>1. Put(c, id, blocks) = d
    BY <1>3 DEF Put
  <2>2. /\ DOMAIN d = DOMAIN c /\ d.order = c.order /\ d.head = c.head
        /\ d.count = c.count /\ d.entries = Stored(c, id, blocks, {})
    BY DEF CacheOK
  <2>3. DOMAIN d.entries = DOMAIN c.entries
    BY <1>3, <2>2 DEF Stored
  <2> HIDE DEF d
  <2>4. Used(d) = Used(c)
    BY <2>2 DEF Used
  <2>5. RingMatches(d)
    BY <2>2, <2>3, <2>4 DEF CacheOK, RingMatches
  <2>6. QED BY <2>1, <2>2, <2>3, <2>5 DEF CacheOK
<1>4. CASE blocks # <<>> /\ id \notin DOMAIN c.entries /\ c.count = M
  <2> DEFINE old == c.order[c.head]
             d == [entries |-> Stored(c, id, blocks, {old}),
                   order |-> [c.order EXCEPT ![c.head] = id],
                   head |-> (c.head + 1) % M, count |-> c.count]
  <2>1. Put(c, id, blocks) = d
    BY <1>4 DEF Put
  <2>2. /\ DOMAIN d = {"entries", "order", "head", "count"}
        /\ d.order = [c.order EXCEPT ![c.head] = id]
        /\ d.head = (c.head + 1) % M /\ d.count = M
        /\ d.entries = Stored(c, id, blocks, {old})
    BY <1>4
  <2>3. DOMAIN d.entries = (DOMAIN c.entries \ {old}) \cup {id}
    BY <2>2 DEF Stored
  <2>4. d.head \in Slots
    <3>1. (c.head + 1) % M =
            IF c.head + 1 < M THEN c.head + 1 ELSE c.head + 1 - M
      <4>1. 1 \in 0 .. M
        BY <1>1
      <4> HIDE DEF M
      <4>2. QED BY <1>1, <4>1, Wraps
    <3>2. QED BY <1>1, <2>2, <3>1
  <2> HIDE DEF d
  <2>5. Used(c) = Slots /\ Used(d) = Slots
    BY <1>1, <1>4, <2>2, <2>4, FullRing
  <2>6. /\ c.order \in [Slots -> Names \cup {NoCall}]
        /\ {c.order[i] : i \in Slots} = DOMAIN c.entries
        /\ \A i, j \in Slots : c.order[i] = c.order[j] => i = j
    BY <2>5 DEF CacheOK, RingMatches
  <2>7. /\ d.order \in [Slots -> Names \cup {NoCall}] /\ d.order[c.head] = id
        /\ \A i \in Slots : i # c.head => d.order[i] = c.order[i]
    BY <1>1, <2>2, <2>6
  <2>8. {d.order[i] : i \in Slots} = DOMAIN d.entries
    <3>1. \A i \in Slots : d.order[i] \in DOMAIN d.entries
      BY <1>1, <2>3, <2>6, <2>7
    <3>2. ASSUME NEW x \in DOMAIN d.entries
          PROVE  \E i \in Slots : d.order[i] = x
      BY <1>1, <2>3, <2>6, <2>7
    <3>3. QED BY <3>1, <3>2
  <2>9. ASSUME NEW i \in Slots, NEW j \in Slots, d.order[i] = d.order[j]
        PROVE  i = j
    BY <1>4, <2>6, <2>7, <2>9
  <2>10. RingMatches(d)
    BY <2>5, <2>8, <2>9 DEF RingMatches
  <2>11. DOMAIN d.entries \subseteq Names
    BY <1>1, <2>3
  <2>12. d.count \in 0 .. MaxCached
    BY <1>1, <2>2
  <2>13. CacheOK(d)
    BY ONLY <2>2, <2>4, <2>7, <2>10, <2>11, <2>12, Zenon DEF CacheOK
  <2>14. QED BY <2>1, <2>13
<1>5. CASE blocks # <<>> /\ id \notin DOMAIN c.entries /\ c.count # M
  <2> DEFINE free == (c.head + c.count) % M
             d == [entries |-> Stored(c, id, blocks, {}),
                   order |-> [c.order EXCEPT ![free] = id],
                   head |-> c.head, count |-> c.count + 1]
  <2>1. Put(c, id, blocks) = d
    BY <1>5 DEF Put
  <2>2. /\ DOMAIN d = {"entries", "order", "head", "count"}
        /\ d.order = [c.order EXCEPT ![free] = id]
        /\ d.head = c.head /\ d.count = c.count + 1
        /\ d.entries = Stored(c, id, blocks, {})
    OBVIOUS
  <2>3. DOMAIN d.entries = DOMAIN c.entries \cup {id}
    BY <2>2 DEF Stored
  <2>4. d.head \in Slots /\ d.count \in 0 .. MaxCached
    BY <1>1, <1>5, <2>2
  <2>5. free = IF c.head + c.count < M THEN c.head + c.count
               ELSE c.head + c.count - M
    BY <1>1, Wraps
  <2> HIDE DEF d, free
  <2>6. /\ free \in Slots
        /\ \A x \in Slots :
             Behind(d.head, x) < d.count <=>
               Behind(c.head, x) < c.count \/ x = free
        /\ ~(Behind(c.head, free) < c.count)
    <3>1. free \in Slots /\ c.count < M
      <4>1. c.count < M
        BY <1>1, <1>5
      <4>2. c.head + c.count < M => free \in Slots
        BY <1>1, <2>5
      <4>3. ~(c.head + c.count < M) => free \in Slots
        BY <1>1, <2>5, <4>1
      <4>4. QED BY <4>1, <4>2, <4>3
    <3>2. Behind(c.head, free) = c.count
      BY <1>1, <2>5, <3>1 DEF Behind
    <3>3. ASSUME NEW x \in Slots
          PROVE  /\ Behind(c.head, x) \in Nat
                 /\ Behind(c.head, x) = c.count => x = free
      BY <1>1, <2>5, <3>1, <3>3 DEF Behind
    <3>4. Behind(c.head, free) \in Nat
      BY <3>1, <3>3
    <3> HIDE DEF M
    <3>5. QED BY <1>1, <2>2, <3>1, <3>2, <3>3
  <2>7. Used(c) = {x \in Slots : Behind(c.head, x) < c.count}
    BY <1>1, SlotsUsed
  <2>8. Used(d) = {x \in Slots : Behind(d.head, x) < d.count}
    BY <2>4, SlotsUsed
  <2>9. Used(d) = Used(c) \cup {free} /\ free \notin Used(c)
    BY <2>6, <2>7, <2>8
  <2>10. Used(c) \subseteq Slots
    BY <2>7
  <2>11. /\ c.order \in [Slots -> Names \cup {NoCall}]
         /\ {c.order[i] : i \in Used(c)} = DOMAIN c.entries
         /\ \A i, j \in Used(c) : c.order[i] = c.order[j] => i = j
    BY DEF CacheOK, RingMatches
  <2>12. /\ d.order \in [Slots -> Names \cup {NoCall}] /\ d.order[free] = id
         /\ \A i \in Used(c) : d.order[i] = c.order[i]
    BY <2>2, <2>6, <2>9, <2>10, <2>11
  <2>13. {d.order[i] : i \in Used(d)} = DOMAIN d.entries
    <3>1. \A i \in Used(d) : d.order[i] \in DOMAIN d.entries
      BY <2>3, <2>9, <2>11, <2>12
    <3>2. ASSUME NEW x \in DOMAIN d.entries
          PROVE  \E i \in Used(d) : d.order[i] = x
      BY <2>3, <2>9, <2>11, <2>12
    <3>3. QED BY <3>1, <3>2
  <2>14. ASSUME NEW i \in Used(d), NEW j \in Used(d), d.order[i] = d.order[j]
         PROVE  i = j
    BY <1>5, <2>9, <2>11, <2>12, <2>14
  <2>15. RingMatches(d)
    BY <2>13, <2>14 DEF RingMatches
  <2>16. DOMAIN d.entries \subseteq Names
    BY <1>1, <2>3
  <2>17. QED BY <2>1, <2>2, <2>4, <2>12, <2>15, <2>16 DEF CacheOK
<1>6. QED BY <1>2, <1>3, <1>4, <1>5

----------------------------------------------------------------------------
(* Positions in order. *)

\* The first-order form of induction: T is the set of numbers a fact holds of.
LEMMA Inductive ==
  ASSUME NEW T, 0 \in T, \A i \in Nat : i \in T => i + 1 \in T
  PROVE  Nat \subseteq T
<1> DEFINE Rest == Nat \ T
<1>1. ASSUME Rest # {} PROVE FALSE
  <2>1. IsWellFoundedOn(OpToRel(<, Nat), Nat)
    BY NatLessThanWellFounded
  <2>2. Rest \subseteq Nat
    OBVIOUS
  <2>3. \E i \in Rest : \A j \in Rest : ~(<<j, i>> \in OpToRel(<, Nat))
    <3> HIDE DEF Rest
    <3>1. QED BY <1>1, <2>1, <2>2, WFMin
  <2>4. PICK i \in Rest : \A j \in Rest : ~(<<j, i>> \in OpToRel(<, Nat))
    BY <2>3
  <2>5. i \in Nat /\ i # 0 /\ i - 1 \in Nat /\ i - 1 < i
    OBVIOUS
  <2>6. i - 1 \notin Rest
    BY <2>4, <2>5 DEF OpToRel
  <2>7. (i - 1) + 1 \in T
    BY <2>5, <2>6
  <2>8. QED BY <2>5, <2>7
<1>2. QED BY <1>1

\* s lists positions in increasing order.
Rising(s) == \A i, j \in DOMAIN s : i < j => s[i] < s[j]
Listing(S) == {s \in [1 .. Cardinality(S) -> S] : Rising(s)}

\* Any set of positions can be listed in order.
LEMMA Listed ==
  ASSUME NEW n \in Nat, NEW S \in SUBSET (1 .. n)
  PROVE  Listing(S) # {}
<1> DEFINE T == {k \in Nat : \A U \in SUBSET (1 .. k) : Listing(U) # {}}
<1>1. 0 \in T
  <2>1. ASSUME NEW U \in SUBSET (1 .. 0) PROVE Listing(U) # {}
    <3>1. U = {}
      OBVIOUS
    <3>2. Cardinality(U) = 0
      BY <3>1, FS_EmptySet
    <3>3. <<>> \in [1 .. 0 -> {}] /\ Rising(<<>>)
      BY DEF Rising
    <3>4. <<>> \in Listing(U)
      BY <3>1, <3>2, <3>3 DEF Listing
    <3>5. QED BY <3>4
  <2>2. QED BY <2>1
<1>2. ASSUME NEW k \in Nat, k \in T PROVE k + 1 \in T
  <2>1. ASSUME NEW U \in SUBSET (1 .. k + 1) PROVE Listing(U) # {}
    <3> DEFINE W == U \ {k + 1}
               c == Cardinality(W)
    <3>1. W \in SUBSET (1 .. k)
      OBVIOUS
    <3>2. PICK s \in [1 .. c -> W] : Rising(s)
      BY <1>2, <3>1 DEF Listing
    <3>3. IsFiniteSet(W) /\ c \in Nat
      <4>1. IsFiniteSet(1 .. k)
        BY FS_Interval
      <4>2. QED BY <3>1, <4>1, FS_Subset, FS_CardinalityType
    <3>4. CASE k + 1 \notin U
      <4>1. W = U
        BY <3>4
      <4>2. QED BY <3>2, <4>1 DEF Listing
    <3>5. CASE k + 1 \in U
      <4> DEFINE t == [i \in 1 .. c + 1 |-> IF i <= c THEN s[i] ELSE k + 1]
      <4>1. Cardinality(U) = c + 1
        <5>1. U = W \cup {k + 1} /\ k + 1 \notin W
          BY <3>5
        <5>2. Cardinality(W \cup {k + 1}) = c + 1
          <6> HIDE DEF W
          <6>1. QED BY <3>3, <5>1, FS_AddElement DEF c
        <5> HIDE DEF W
        <5>3. Cardinality(U) = Cardinality(W \cup {k + 1})
          BY ONLY <5>1
        <5>4. QED BY ONLY <5>2, <5>3
      <4>2. \A i \in 1 .. c + 1 : i <= c => i \in 1 .. c /\ s[i] \in W
        <5> HIDE DEF W, c
        <5>1. QED BY <3>2, <3>3
      <4>3. t \in [1 .. c + 1 -> U]
        BY <3>5, <4>2
      <4>4. \A i, j \in 1 .. c : i < j => s[i] < s[j]
        BY <3>2 DEF Rising
      <4>5. ASSUME NEW i \in 1 .. c + 1, NEW j \in 1 .. c + 1, i < j
            PROVE  t[i] < t[j]
        <5>1. i <= c /\ i \in 1 .. c /\ s[i] \in 1 .. k
          <6>1. i <= c /\ i \in 1 .. c
            BY <3>3, <4>5
          <6>2. s[i] \in W
            BY <3>2, <6>1
          <6>3. QED BY <3>1, <6>1, <6>2
        <5>2. CASE j <= c
          <6>1. j \in 1 .. c
            BY <3>3, <5>2
          <6>2. QED BY <4>4, <4>5, <5>1, <5>2, <6>1
        <5>3. CASE ~(j <= c)
          BY <5>1, <5>3
        <5>4. QED BY <5>2, <5>3
      <4>6. Rising(t)
        BY <4>5 DEF Rising
      <4> HIDE DEF t
      <4>7. t \in Listing(U)
        BY <4>1, <4>3, <4>6 DEF Listing
      <4>8. QED BY <4>7
    <3>6. QED BY <3>4, <3>5
  <2>2. QED BY <2>1
<1> HIDE DEF T
<1>3. Nat \subseteq T
  BY <1>1, <1>2, Inductive
<1>4. QED BY <1>3 DEF T

\* A listing in increasing order is the one InOrder gives.
LEMMA Ranked ==
  ASSUME NEW n \in Nat, NEW S \in SUBSET (1 .. n), NEW t \in Listing(S)
  PROVE  /\ InOrder(S) = t /\ Cardinality(S) \in Nat /\ Cardinality(S) <= n
         /\ \A x \in S : \E i \in 1 .. Cardinality(S) : t[i] = x
<1> DEFINE c == Cardinality(S)
           Below(x) == {y \in S : y < x}
<1>1. IsFiniteSet(S) /\ c \in Nat /\ c <= n
  <2>1. IsFiniteSet(1 .. n) /\ Cardinality(1 .. n) = n
    BY FS_Interval
  <2>2. IsFiniteSet(S) /\ c <= Cardinality(1 .. n)
    BY <2>1, FS_Subset
  <2>3. QED BY <2>1, <2>2, FS_CardinalityType
<1>2. t \in [1 .. c -> S] /\ \A i, j \in 1 .. c : i < j => t[i] < t[j]
  BY DEF Listing, Rising
<1>3. \A i \in 1 .. c : t[i] \in S /\ t[i] \in Int
  <2>1. S \subseteq Int
    OBVIOUS
  <2>2. QED BY <1>2, <2>1
<1> HIDE DEF c
<1>4. \A i, j \in 1 .. c : (t[i] < t[j] <=> i < j) /\ (t[i] = t[j] => i = j)
  <2>1. ASSUME NEW i \in 1 .. c, NEW j \in 1 .. c
        PROVE  (t[i] < t[j] <=> i < j) /\ (t[i] = t[j] => i = j)
    BY <1>1, <1>2, <1>3, <2>1
  <2>2. QED BY <2>1
<1>5. t \in Injection(1 .. c, S)
  BY <1>2, <1>4 DEF Injection, IsInjective
<1>6. t \in Surjection(1 .. c, S)
  <2>1. Cardinality(1 .. c) = Cardinality(S)
    BY <1>1, FS_Interval DEF c
  <2>2. QED BY <1>1, <1>5, <2>1, FS_Injection
<1>7. \A x \in S : \E i \in 1 .. c : t[i] = x
  BY <1>6 DEF Surjection
<1>8. ASSUME NEW k \in 1 .. c PROVE Cardinality(Below(t[k])) = k - 1
  <2> DEFINE f == [i \in 1 .. k - 1 |-> t[i]]
  <2>1. k - 1 \in Nat /\ \A i \in 1 .. k - 1 : i \in 1 .. c /\ i < k
    BY <1>1, <1>8
  <2>2. f \in [1 .. k - 1 -> Below(t[k])]
    BY <1>3, <1>4, <1>8, <2>1
  <2>3. \A i, j \in 1 .. k - 1 : f[i] = f[j] => i = j
    BY <1>4, <2>1
  <2>4. \A y \in Below(t[k]) : \E i \in 1 .. k - 1 : f[i] = y
    <3>1. ASSUME NEW y \in Below(t[k]) PROVE \E i \in 1 .. k - 1 : f[i] = y
      <4>1. PICK i \in 1 .. c : t[i] = y
        BY <1>7, <3>1
      <4>2. i < k
        BY <1>4, <1>8, <3>1, <4>1
      <4>3. i \in 1 .. k - 1 /\ f[i] = y
        BY <1>1, <1>8, <4>1, <4>2
      <4>4. QED BY <4>3
    <3>2. QED BY <3>1
  <2>5. f \in Bijection(1 .. k - 1, Below(t[k]))
    <3> HIDE DEF f, Below
    <3>1. QED BY <2>2, <2>3, <2>4
            DEF Bijection, Injection, Surjection, IsInjective
  <2>6. IsFiniteSet(1 .. k - 1) /\ Cardinality(1 .. k - 1) = k - 1
    BY <2>1, FS_Interval
  <2> HIDE DEF f, Below
  <2>7. ExistsBijection(1 .. k - 1, Below(t[k]))
    BY <2>5 DEF ExistsBijection
  <2>8. QED BY <2>6, <2>7, FS_Bijection
<1>9. ASSUME NEW k \in 1 .. c
      PROVE  (CHOOSE x \in S : Cardinality({y \in S : y < x}) = k - 1) = t[k]
  <2>1. t[k] \in S /\ Cardinality({y \in S : y < t[k]}) = k - 1
    BY <1>3, <1>8, <1>9
  <2>2. ASSUME NEW x \in S, Cardinality({y \in S : y < x}) = k - 1
        PROVE  x = t[k]
    <3>1. PICK i \in 1 .. c : t[i] = x
      BY <1>7, <2>2
    <3>2. Cardinality(Below(t[i])) = k - 1
      BY <2>2, <3>1
    <3>3. i - 1 = k - 1
      BY <1>8, <3>1, <3>2
    <3>4. QED BY <1>1, <1>9, <3>1, <3>3
  <2>3. QED BY <2>1, <2>2
<1>10. InOrder(S) = [k \in 1 .. c |-> t[k]]
  BY <1>9 DEF InOrder, c
<1>11. t = [k \in 1 .. c |-> t[k]]
  BY <1>2
<1>12. QED BY <1>1, <1>7, <1>10, <1>11 DEF c

\* InOrder lists each position once and in order.
LEMMA Ordered ==
  ASSUME NEW n \in Nat, NEW S \in SUBSET (1 .. n)
  PROVE  /\ InOrder(S) \in Seq(S) /\ Len(InOrder(S)) <= n
         /\ Rising(InOrder(S))
         /\ \A x \in S : \E i \in DOMAIN InOrder(S) : InOrder(S)[i] = x
<1> DEFINE c == Cardinality(S)
           s == InOrder(S)
<1>1. PICK t \in Listing(S) : TRUE
  BY Listed
<1>2. /\ s = t /\ c \in Nat /\ c <= n
      /\ \A x \in S : \E i \in 1 .. c : t[i] = x
  BY Ranked
<1>3. s \in [1 .. c -> S] /\ Rising(s)
  BY <1>1, <1>2 DEF Listing
<1> HIDE DEF s, c
<1>4. s \in Seq(S) /\ Len(s) = c /\ DOMAIN s = 1 .. c
  BY <1>2, <1>3
<1>5. QED BY <1>2, <1>3, <1>4 DEF s

----------------------------------------------------------------------------
(* What the agent makes of one or two chunks. *)

One(x) == <<x>>
Two(x, y) == <<x, y>>

LEMMA Largest ==
  /\ Max({1}) = 1 /\ Max({2}) = 2 /\ Max({1, 2}) = 2
<1>1. \A x, y \in {1} : x >= y
  OBVIOUS
<1>2. \A x \in {1, 2} : (\A y \in {1, 2} : x >= y) <=> x = 2
  OBVIOUS
<1>3. QED BY <1>1, <1>2 DEF Max

\* What the agent has after chunks s.
After(c, s) == FoldLeft(Received, c, s)

\* it solves the recursion by which chunks are applied.
Applies(it, s, c) ==
  it = [p \in SUBSET (DOMAIN s) |->
          IF p = {} THEN c ELSE Received(it[p \ {Max(p)}], s[Max(p)])]

LEMMA Applied ==
  ASSUME NEW s, NEW c, NEW r, \E it : Applies(it, s, c),
         \A it : Applies(it, s, c) => it[DOMAIN s] = r
  PROVE  After(c, s) = r
<1> DEFINE it == CHOOSE it : Applies(it, s, c)
<1>1. Applies(it, s, c)
  OBVIOUS
<1>2. After(c, s) = it[DOMAIN s]
  BY Zenon DEF After, FoldLeft, MapThenFoldSet, Applies
<1> HIDE DEF it
<1>3. QED BY <1>1, <1>2

\* The agent applies chunk after chunk.
LEMMA TakesNone ==
  ASSUME NEW c
  PROVE  After(c, <<>>) = c
<1>1. DOMAIN <<>> = {} /\ SUBSET {} = {{}}
  OBVIOUS
<1>2. Applies([p \in SUBSET {} |-> c], <<>>, c)
  BY <1>1 DEF Applies
<1>3. \A it : Applies(it, <<>>, c) => it[{}] = c
  BY <1>1 DEF Applies
<1>4. QED BY <1>1, <1>2, <1>3, Applied

LEMMA TakesOne ==
  ASSUME NEW c, NEW x
  PROVE  After(c, One(x)) = Received(c, x)
<1> DEFINE s == <<x>>
           f == [p \in SUBSET {1} |-> IF p = {} THEN c ELSE Received(c, x)]
<1>1. DOMAIN s = {1} /\ s[1] = x
  OBVIOUS
<1>2. {1} \ {1} = {} /\ {1} # {}
  OBVIOUS
<1>3. \A p \in SUBSET {1} : p = {} \/ p = {1}
  OBVIOUS
<1> HIDE DEF s
<1>4. f[{}] = c /\ f[{1}] = Received(c, x)
  BY <1>2
<1>5. f = [p \in SUBSET {1} |-> f[p]]
  OBVIOUS
<1> HIDE DEF f
<1>6. ASSUME NEW p \in SUBSET {1}
      PROVE  f[p] = IF p = {} THEN c
                    ELSE Received(f[p \ {Max(p)}], s[Max(p)])
  <2>1. CASE p = {}
    BY <1>4, <2>1
  <2>2. CASE p = {1}
    BY <1>1, <1>2, <1>4, <2>2, Largest
  <2>3. QED BY <1>3, <2>1, <2>2
<1>7. Applies(f, s, c)
  BY <1>1, <1>5, <1>6 DEF Applies
<1>8. ASSUME NEW it, Applies(it, s, c) PROVE it[{1}] = Received(c, x)
  <2>1. \A p \in SUBSET {1} :
          it[p] = IF p = {} THEN c
                  ELSE Received(it[p \ {Max(p)}], s[Max(p)])
    BY <1>1, <1>8 DEF Applies
  <2>2. it[{}] = c
    BY <2>1
  <2>3. it[{1}] = Received(it[{1} \ {1}], s[1])
    BY <1>2, <2>1, Largest
  <2>4. QED BY <1>1, <1>2, <2>2, <2>3
<1>9. After(c, s) = Received(c, x)
  BY <1>1, <1>7, <1>8, Applied
<1>10. QED BY <1>9 DEF s, One

LEMMA TakesTwo ==
  ASSUME NEW c, NEW x, NEW y
  PROVE  After(c, Two(x, y)) = Received(Received(c, x), y)
<1> DEFINE s == <<x, y>>
           f == [p \in SUBSET {1, 2} |->
                   IF p = {} THEN c
                   ELSE IF p = {1} THEN Received(c, x)
                   ELSE IF p = {2} THEN Received(c, y)
                   ELSE Received(Received(c, x), y)]
<1>1. DOMAIN s = {1, 2} /\ s[1] = x /\ s[2] = y
  OBVIOUS
<1>2. /\ {1} # {} /\ {2} # {} /\ {1, 2} # {} /\ {1, 2} # {1}
      /\ {1, 2} # {2} /\ {1} # {2}
  OBVIOUS
<1> HIDE DEF s
<1>3. \A p \in SUBSET {1, 2} : p = {} \/ p = {1} \/ p = {2} \/ p = {1, 2}
  OBVIOUS
<1>4. {1} \ {1} = {} /\ {2} \ {2} = {} /\ {1, 2} \ {2} = {1}
  OBVIOUS
<1>5. /\ f[{}] = c /\ f[{1}] = Received(c, x) /\ f[{2}] = Received(c, y)
      /\ f[{1, 2}] = Received(Received(c, x), y)
  BY <1>2
<1>6. f = [p \in SUBSET {1, 2} |-> f[p]]
  OBVIOUS
<1> HIDE DEF f
<1>7. ASSUME NEW p \in SUBSET {1, 2}
      PROVE  f[p] = IF p = {} THEN c
                    ELSE Received(f[p \ {Max(p)}], s[Max(p)])
  <2>1. CASE p = {}
    BY <1>5, <2>1
  <2>2. CASE p = {1}
    BY <1>1, <1>2, <1>5, <1>4, <2>2, Largest
  <2>3. CASE p = {2}
    BY <1>1, <1>2, <1>5, <1>4, <2>3, Largest
  <2>4. CASE p = {1, 2}
    BY <1>1, <1>2, <1>5, <1>4, <2>4, Largest
  <2>5. QED BY <1>3, <2>1, <2>2, <2>3, <2>4
<1>8. Applies(f, s, c)
  BY <1>1, <1>6, <1>7 DEF Applies
<1>9. ASSUME NEW it, Applies(it, s, c)
      PROVE  it[{1, 2}] = Received(Received(c, x), y)
  <2>1. \A p \in SUBSET {1, 2} :
          it[p] = IF p = {} THEN c ELSE Received(it[p \ {Max(p)}], s[Max(p)])
    BY <1>1, <1>9 DEF Applies
  <2>2. /\ it[{}] = c /\ it[{1}] = Received(it[{1} \ {1}], s[1])
        /\ it[{1, 2}] = Received(it[{1, 2} \ {2}], s[2])
    BY <1>2, <2>1, Largest
  <2>3. QED BY <1>1, <1>4, <2>2
<1>10. After(c, s) = Received(Received(c, x), y)
  BY <1>1, <1>8, <1>9, Applied
<1>11. QED BY <1>10 DEF s, Two

----------------------------------------------------------------------------
(* The inductive invariant.  It speaks of one agent at a time: s is its    *)
(* adapter, c what it has received, sp what the upstream has said, b the   *)
(* blocks of the last answer.                                              *)

BlockRecords ==
  [type : Kinds, delta : BOOLEAN, signed : BOOLEAN, open : BOOLEAN]
ClientRecords ==
  [calls : Seq([id : Names, args : Seq(Names)]), said : BOOLEAN,
   reasoned : BOOLEAN, usages : Nat, dones : Nat, late : BOOLEAN]

AdapterOK(s) ==
  /\ DOMAIN s = {"state", "start", "block", "index", "tokens", "usage",
                 "done", "thinking", "signature", "blocks", "ids",
                 "flushed", "puts"}
  /\ s.state \in {"idle", "building", "sent", "open", "failed", "eof",
                  "closed", "unanswered"}
  /\ s.start \in BOOLEAN /\ s.tokens \in BOOLEAN
  /\ s.usage \in BOOLEAN /\ s.done \in BOOLEAN
  /\ s.ids \in Seq(Names) /\ s.puts \in Seq(Names)
  /\ s.index \in 1 .. MaxBlocks + 1

\* No answer beyond the last turn.
SpokenOK(a, s, sp) ==
  /\ sp \in Seq(Seq(BlockRecords)) /\ Len(sp) <= MaxTurns[a] + 1
  /\ s.state \in {"idle", "building"} => Len(sp) <= MaxTurns[a]
  /\ s.state \in {"sent", "open", "failed", "eof", "closed"} =>
       Len(sp) \in 1 .. MaxTurns[a]

\* The flags of the adapter count what the agent got.
EndingOK(s, c) ==
  /\ c \in ClientRecords /\ c.late = FALSE /\ c.dones <= 1 /\ c.usages <= 1
  /\ s.state \in {"idle", "building", "sent", "unanswered"} => c = Nothing
  /\ s.state \in {"open", "failed"} =>
       /\ c.dones = IF s.done THEN 1 ELSE 0
       /\ c.usages = IF s.usage THEN 1 ELSE 0
       /\ (s.done => s.usage) /\ (s.usage => s.start)
       /\ (s.start => s.tokens)
  /\ s.state = "failed" => ~s.done
  /\ s.state = "eof" => c.dones = 1 /\ (s.start => c.usages = 1)

\* The index of an open stream is that of its open call, or of the next one.
StreamOK(s, c, b) ==
  /\ Len(b) <= MaxBlocks /\ Len(c.calls) <= Len(b)
  /\ s.block = IF b # <<>> /\ b[Len(b)].open THEN b[Len(b)].type ELSE "none"
  /\ s.index = IF s.block = "tool_use" THEN Len(c.calls)
               ELSE Len(c.calls) + 1
  /\ s.done => s.block = "none"

\* The calls are the tool_use blocks of answer t, in order.
Delivered(a, t, calls, b) ==
  /\ \A k \in DOMAIN calls :
       \E p \in DOMAIN b :
         /\ calls[k].id = <<a, t, p>> /\ b[p].type = "tool_use"
         /\ calls[k].args = IF b[p].delta THEN <<<<a, t, p>>>> ELSE <<>>
  /\ \A p \in DOMAIN b : b[p].type = "tool_use" =>
       \E k \in DOMAIN calls : calls[k].id = <<a, t, p>>
  /\ \A j, k \in DOMAIN calls : j < k => calls[j].id[3] < calls[k].id[3]

AgentOK(a, s, c, sp) ==
  /\ AdapterOK(s) /\ SpokenOK(a, s, sp) /\ EndingOK(s, c)
  /\ s.state = "open" => StreamOK(s, c, sp[Len(sp)])
  /\ s.state \in {"open", "failed", "eof", "closed"} =>
       Delivered(a, Len(sp), c.calls, sp[Len(sp)])

ProviderInv ==
  /\ CacheOK(cache)
  /\ DOMAIN adapter = Agents /\ DOMAIN client = Agents
  /\ DOMAIN spoken = Agents /\ DOMAIN work = Agents
  /\ \A a \in Agents : AgentOK(a, adapter[a], client[a], spoken[a])
  /\ \A a \in Agents : work[a].kept \subseteq DOMAIN work[a].msgs

----------------------------------------------------------------------------
(* Sequences. *)

LEMMA ElementOf ==
  ASSUME NEW S, NEW s \in Seq(S), NEW k \in DOMAIN s
  PROVE  s[k] \in S
OBVIOUS

\* Replacing an element.
LEMMA Replaced ==
  ASSUME NEW S, NEW s \in Seq(S), NEW k \in DOMAIN s, NEW v \in S
  PROVE  LET t == [s EXCEPT ![k] = v]
         IN /\ t \in Seq(S) /\ Len(t) = Len(s) /\ DOMAIN t = DOMAIN s
            /\ t[k] = v /\ \A j \in DOMAIN s \ {k} : t[j] = s[j]
OBVIOUS

LEMMA ListIs ==
  ASSUME NEW S, NEW n \in Nat, NEW s \in [1 .. n -> S]
  PROVE  s \in Seq(S) /\ Len(s) = n
OBVIOUS

\* Adding an element.
LEMMA Extended ==
  ASSUME NEW S, NEW s \in Seq(S), NEW v \in S
  PROVE  /\ Append(s, v) \in Seq(S) /\ Len(Append(s, v)) = Len(s) + 1
         /\ Append(s, v)[Len(s) + 1] = v /\ Append(s, v) # <<>>
         /\ Len(s) \in Nat
OBVIOUS

\* Joining.
Join(x, y) == <<x>> \o <<y>>

LEMMA JoinedTwo ==
  ASSUME NEW x, NEW y
  PROVE  Join(x, y) = Two(x, y)
<1> DEFINE s == <<x>> \o <<y>>
<1>1. Len(<<x>>) = 1 /\ Len(<<y>>) = 1
  OBVIOUS
<1>2. s = [i \in 1 .. 2 |-> IF i <= 1 THEN <<x>>[i] ELSE <<y>>[i - 1]]
  BY <1>1
<1>3. Join(x, y) = s
  BY DEF Join
<1> HIDE DEF s
<1>4. DOMAIN s = 1 .. 2 /\ s[1] = x /\ s[2] = y
  BY <1>2
<1>5. s \in [1 .. 2 -> {x, y}]
  BY <1>2, <1>4
<1>6. s \in Seq({x, y}) /\ Len(s) = 2
  <2> DEFINE S == {x, y}
  <2>1. s \in [1 .. 2 -> S]
    BY <1>5
  <2> HIDE DEF S
  <2>2. s \in Seq(S)
    <3>1. \A n \in Nat : [1 .. n -> S] \subseteq Seq(S)
      OBVIOUS
    <3>2. QED BY <2>1, <3>1
  <2>3. Len(s) = 2
    BY <1>4, <2>2
  <2>4. QED BY <2>2, <2>3 DEF S
<1>7. s = <<s[1], s[2]>>
  BY <1>6
<1>8. QED BY <1>3, <1>4, <1>7 DEF Two

----------------------------------------------------------------------------
(* What one chunk changes, before the [DONE]. *)

Fresh(c) == c \in ClientRecords /\ c.dones = 0 /\ c.late = FALSE
Got(r, calls, usages, dones) ==
  /\ r \in ClientRecords /\ r.late = FALSE
  /\ r.calls = calls /\ r.usages = usages /\ r.dones = dones

\* Nothing but the mark of lateness is touched first.
LEMMA InTime ==
  ASSUME NEW c, Fresh(c), NEW new,
         new = [c EXCEPT !.late = @ \/ c.dones > 0]
  PROVE  new \in ClientRecords /\ new = c
<1>1. (c.late \/ c.dones > 0) = FALSE
  BY DEF Fresh
<1>2. new = [c EXCEPT !.late = FALSE]
  BY <1>1
<1>3. c.late = FALSE /\ c \in ClientRecords
  BY DEF Fresh
<1>4. QED BY <1>2, <1>3 DEF ClientRecords

LEMMA GotCall ==
  ASSUME NEW c, Fresh(c), NEW n \in Names
  PROVE  Got(Received(c, [type |-> "call", name |-> n]),
             Append(c.calls, [id |-> n, args |-> <<>>]), c.usages, 0)
<1> DEFINE x == [type |-> "call", name |-> n]
           new == [c EXCEPT !.late = @ \/ c.dones > 0]
           call == [id |-> n, args |-> <<>>]
<1>1. new = c
  BY InTime
<1>2. x.type = "call" /\ x.name = n
  OBVIOUS
<1> HIDE DEF x
<1>3. Received(c, x) = [new EXCEPT !.calls = Append(@, call)]
  BY <1>2 DEF Received
<1> HIDE DEF new
<1>4. c \in ClientRecords /\ c.dones = 0 /\ c.late = FALSE
  BY DEF Fresh
<1>5. Append(c.calls, call) \in Seq([id : Names, args : Seq(Names)])
  BY <1>4 DEF ClientRecords
<1> HIDE DEF call
<1>6. Got(Received(c, x), Append(c.calls, call), c.usages, 0)
  BY <1>1, <1>3, <1>4, <1>5 DEF Got, ClientRecords
<1>7. QED BY <1>6 DEF x, call

LEMMA GotArgs ==
  ASSUME NEW c, Fresh(c), NEW n \in Names, NEW k \in DOMAIN c.calls
  PROVE  Got(Received(c, [type |-> "args", index |-> k, name |-> n]),
             [c.calls EXCEPT ![k].args = Append(@, n)], c.usages, 0)
<1> DEFINE x == [type |-> "args", index |-> k, name |-> n]
           new == [c EXCEPT !.late = @ \/ c.dones > 0]
           calls == [c.calls EXCEPT ![k].args = Append(@, n)]
<1>1. new = c
  BY InTime
<1>2. x.type = "args" /\ x.name = n /\ x.index = k
  OBVIOUS
<1> HIDE DEF x
<1>3. Received(c, x) = [new EXCEPT !.calls[k].args = Append(@, n)]
  BY <1>2 DEF Received
<1> HIDE DEF new
<1>4. c \in ClientRecords /\ c.dones = 0 /\ c.late = FALSE
  BY DEF Fresh
<1>5. calls \in Seq([id : Names, args : Seq(Names)])
  <2>1. c.calls \in Seq([id : Names, args : Seq(Names)])
    BY <1>4 DEF ClientRecords
  <2>2. c.calls[k] \in [id : Names, args : Seq(Names)]
    BY ONLY <2>1, k \in DOMAIN c.calls, ElementOf
  <2>3. [c.calls[k] EXCEPT !.args = Append(@, n)]
          \in [id : Names, args : Seq(Names)]
    <3> DEFINE w == c.calls[k]
    <3>1. w \in [id : Names, args : Seq(Names)]
      BY <2>2
    <3> HIDE DEF w
    <3>2. w.args \in Seq(Names)
      BY ONLY <3>1
    <3>3. Append(w.args, n) \in Seq(Names)
      BY ONLY <3>2, n \in Names
    <3>4. [w EXCEPT !.args = Append(w.args, n)]
            \in [id : Names, args : Seq(Names)]
      <4> DEFINE more == Append(w.args, n)
      <4> HIDE DEF more
      <4>1. more \in Seq(Names) =>
              [w EXCEPT !.args = more] \in [id : Names, args : Seq(Names)]
        BY ONLY <3>1
      <4>2. QED BY <3>3, <4>1 DEF more
    <3>5. QED BY <3>4 DEF w
  <2>4. calls = [c.calls EXCEPT ![k] =
                   [c.calls[k] EXCEPT !.args = Append(@, n)]]
    OBVIOUS
  <2>5. QED BY <2>1, <2>3, <2>4
<1>6. Received(c, x) = [c EXCEPT !.calls = calls]
  BY <1>1, <1>3
<1> HIDE DEF calls
<1>7. Got(Received(c, x), calls, c.usages, 0)
  BY <1>4, <1>5, <1>6 DEF Got, ClientRecords
<1>8. QED BY <1>7 DEF x, calls

LEMMA GotOther ==
  ASSUME NEW c, Fresh(c),
         NEW x \in {"content", "reasoning", "finish", "error"}
  PROVE  Got(Received(c, Chunk(x)), c.calls, c.usages, 0)
<1> DEFINE new == [c EXCEPT !.late = @ \/ c.dones > 0]
<1>1. new = c
  BY InTime
<1>2. \/ Received(c, Chunk(x)) = [new EXCEPT !.said = TRUE]
      \/ Received(c, Chunk(x)) = [new EXCEPT !.reasoned = TRUE]
      \/ Received(c, Chunk(x)) = new
  BY DEF Received, Chunk
<1> HIDE DEF new
<1>3. c \in ClientRecords /\ c.dones = 0 /\ c.late = FALSE
  BY DEF Fresh
<1>4. QED BY <1>1, <1>2, <1>3 DEF Got, ClientRecords

LEMMA GotUsage ==
  ASSUME NEW c, Fresh(c)
  PROVE  Got(Received(c, Chunk("usage")), c.calls, c.usages + 1, 0)
<1> DEFINE new == [c EXCEPT !.late = @ \/ c.dones > 0]
<1>1. new = c
  BY InTime
<1>2. Received(c, Chunk("usage")) = [new EXCEPT !.usages = @ + 1]
  BY DEF Received, Chunk
<1> HIDE DEF new
<1>3. c \in ClientRecords /\ c.dones = 0 /\ c.late = FALSE
  BY DEF Fresh
<1>4. QED BY <1>1, <1>2, <1>3 DEF Got, ClientRecords

LEMMA GotDone ==
  ASSUME NEW c, Fresh(c)
  PROVE  Got(Received(c, Chunk("done")), c.calls, c.usages, 1)
<1> DEFINE new == [c EXCEPT !.late = @ \/ c.dones > 0]
<1>1. new = c
  BY InTime
<1>2. Received(c, Chunk("done")) = [new EXCEPT !.dones = @ + 1]
  BY DEF Received, Chunk
<1> HIDE DEF new
<1>3. c \in ClientRecords /\ c.dones = 0 /\ c.late = FALSE
  BY DEF Fresh
<1>4. QED BY <1>1, <1>2, <1>3 DEF Got, ClientRecords

\* Two chunks, joined.
LEMMA GotBoth ==
  ASSUME NEW c, Fresh(c)
  PROVE  Got(After(c, Join(Chunk("usage"), Chunk("done"))), c.calls,
             c.usages + 1, 1)
<1> DEFINE x == Chunk("usage")
           y == Chunk("done")
<1>1. Got(Received(c, x), c.calls, c.usages + 1, 0)
  BY GotUsage
<1>2. ASSUME NEW e, Got(e, c.calls, c.usages + 1, 0)
      PROVE  Got(Received(e, y), c.calls, c.usages + 1, 1)
  <2>1. Fresh(e) /\ e.calls = c.calls /\ e.usages = c.usages + 1
    BY <1>2 DEF Got, Fresh
  <2>2. Got(Received(e, y), e.calls, e.usages, 1)
    BY <2>1, GotDone
  <2>3. QED BY <2>1, <2>2
<1> HIDE DEF x, y
<1>3. After(c, Join(x, y)) = Received(Received(c, x), y)
  BY JoinedTwo, TakesTwo
<1>4. Got(After(c, Join(x, y)), c.calls, c.usages + 1, 1)
  BY <1>1, <1>2, <1>3
<1>5. QED BY <1>4 DEF x, y

\* The end of a message: the usage if it is still owed, then one [DONE].
LEMMA GotEndings ==
  ASSUME NEW c, Fresh(c), NEW s, s.done = FALSE,
         s.usage \in BOOLEAN, s.tokens \in BOOLEAN, NEW stop \in BOOLEAN
  PROVE  Got(After(c, Endings(s, stop)), c.calls,
             IF ~s.usage /\ (stop \/ s.tokens) THEN c.usages + 1
             ELSE c.usages, 1)
<1>1. CASE ~s.usage /\ (stop \/ s.tokens)
  <2>1. Endings(s, stop) = Join(Chunk("usage"), Chunk("done"))
    BY <1>1 DEF Endings, Join
  <2>2. QED BY <1>1, <2>1, GotBoth
<1>2. CASE ~(~s.usage /\ (stop \/ s.tokens))
  <2> DEFINE d == Chunk("done")
  <2>1. Endings(s, stop) = <<>> \o <<d>>
    BY <1>2 DEF Endings
  <2> HIDE DEF d
  <2>2. <<>> \o <<d>> = One(d)
    BY DEF One
  <2>3. After(c, Endings(s, stop)) = Received(c, d)
    BY <2>1, <2>2, TakesOne
  <2>4. Got(Received(c, d), c.calls, c.usages, 1)
    BY GotDone DEF d
  <2>5. QED BY <1>2, <2>3, <2>4
<1>3. QED BY <1>1, <1>2

\* Nothing is owed after the [DONE].
LEMMA GotNoMore ==
  ASSUME NEW c, NEW s, s.done = TRUE, s.usage = TRUE, NEW stop
  PROVE  After(c, Endings(s, stop)) = c
<1>1. Endings(s, stop) = <<>> \o <<>>
  BY DEF Endings
<1>2. <<>> \o <<>> = <<>>
  OBVIOUS
<1>3. QED BY <1>1, <1>2, TakesNone

----------------------------------------------------------------------------
(* What the upstream says, and what the agent then has. *)

LEMMA NameOf ==
  ASSUME NEW a \in Agents, NEW t \in 1 .. MaxTurns[a],
         NEW p \in 1 .. MaxBlocks
  PROVE  <<a, t, p>> \in Names
BY DEF Names

\* The last answer is replaced.
LEMMA SaidLast ==
  ASSUME NEW sp \in Seq(Seq(BlockRecords)), sp # <<>>,
         NEW b \in Seq(BlockRecords)
  PROVE  LET sp2 == [sp EXCEPT ![Len(sp)] = b]
         IN /\ sp2 \in Seq(Seq(BlockRecords)) /\ Len(sp2) = Len(sp)
            /\ sp2[Len(sp2)] = b
<1> DEFINE S == Seq(BlockRecords)
<1>1. sp \in Seq(S) /\ b \in S
  OBVIOUS
<1> HIDE DEF S
<1>2. Len(sp) \in DOMAIN sp
  BY <1>1
<1>3. LET sp2 == [sp EXCEPT ![Len(sp)] = b]
      IN sp2 \in Seq(S) /\ Len(sp2) = Len(sp) /\ sp2[Len(sp2)] = b
  BY <1>1, <1>2
<1>4. QED BY <1>3 DEF S

\* The block that is amended stays of its type.
LEMMA Amended ==
  ASSUME NEW b \in Seq(BlockRecords), b # <<>>,
         NEW r \in BlockRecords
  PROVE  LET b2 == [b EXCEPT ![Len(b)] = r]
         IN /\ b2 \in Seq(BlockRecords) /\ Len(b2) = Len(b)
            /\ DOMAIN b2 = DOMAIN b /\ b2[Len(b)] = r /\ b2 # <<>>
            /\ \A p \in DOMAIN b : p # Len(b) => b2[p] = b[p]
<1> DEFINE S == BlockRecords
<1>1. b \in Seq(S) /\ r \in S
  OBVIOUS
<1> HIDE DEF S
<1>2. LET b2 == [b EXCEPT ![Len(b)] = r]
      IN /\ b2 \in Seq(S) /\ Len(b2) = Len(b)
         /\ DOMAIN b2 = DOMAIN b /\ b2[Len(b)] = r /\ b2 # <<>>
         /\ \A p \in DOMAIN b : p # Len(b) => b2[p] = b[p]
  BY <1>1
<1>3. QED BY <1>2 DEF S

\* What is delivered depends on the types of the blocks and the deltas of the
\* calls only.
LEMMA DeliveredSame ==
  ASSUME NEW a, NEW t, NEW calls, NEW b, NEW b2, Delivered(a, t, calls, b),
         DOMAIN b2 = DOMAIN b,
         \A p \in DOMAIN b :
           /\ b2[p].type = b[p].type
           /\ b[p].type = "tool_use" => b2[p].delta = b[p].delta
  PROVE  Delivered(a, t, calls, b2)
<1>1. ASSUME NEW k \in DOMAIN calls
      PROVE  \E p \in DOMAIN b2 :
               /\ calls[k].id = <<a, t, p>> /\ b2[p].type = "tool_use"
               /\ calls[k].args = IF b2[p].delta THEN <<<<a, t, p>>>>
                                  ELSE <<>>
  <2>1. PICK p \in DOMAIN b :
          /\ calls[k].id = <<a, t, p>> /\ b[p].type = "tool_use"
          /\ calls[k].args = IF b[p].delta THEN <<<<a, t, p>>>> ELSE <<>>
    BY <1>1 DEF Delivered
  <2>2. p \in DOMAIN b2 /\ b2[p].type = "tool_use" /\ b2[p].delta = b[p].delta
    BY <2>1
  <2>3. calls[k].args = IF b2[p].delta THEN <<<<a, t, p>>>> ELSE <<>>
    BY <2>1, <2>2
  <2>4. QED BY <2>1, <2>2, <2>3
<1>2. \A p \in DOMAIN b2 : b2[p].type = "tool_use" =>
        \E k \in DOMAIN calls : calls[k].id = <<a, t, p>>
  BY DEF Delivered
<1>3. \A j, k \in DOMAIN calls : j < k => calls[j].id[3] < calls[k].id[3]
  BY DEF Delivered
<1>4. QED BY <1>1, <1>2, <1>3 DEF Delivered

\* A block that is not a call is added.
LEMMA DeliveredText ==
  ASSUME NEW a, NEW t, NEW calls, NEW b \in Seq(BlockRecords),
         NEW r \in BlockRecords, r.type # "tool_use",
         Delivered(a, t, calls, b)
  PROVE  Delivered(a, t, calls, Append(b, r))
<1> DEFINE b2 == Append(b, r)
<1>1. /\ DOMAIN b = 1 .. Len(b) /\ DOMAIN b2 = 1 .. Len(b) + 1
      /\ b2[Len(b) + 1] = r /\ Len(b) \in Nat
      /\ \A p \in DOMAIN b : p \in DOMAIN b2 /\ b2[p] = b[p]
  <2> DEFINE S == BlockRecords
  <2>1. b \in Seq(S) /\ r \in S
    OBVIOUS
  <2> HIDE DEF S
  <2>2. QED BY <2>1
<1> HIDE DEF b2
<1>2. ASSUME NEW k \in DOMAIN calls
      PROVE  \E p \in DOMAIN b2 :
               /\ calls[k].id = <<a, t, p>> /\ b2[p].type = "tool_use"
               /\ calls[k].args = IF b2[p].delta THEN <<<<a, t, p>>>>
                                  ELSE <<>>
  <2>1. PICK p \in DOMAIN b :
          /\ calls[k].id = <<a, t, p>> /\ b[p].type = "tool_use"
          /\ calls[k].args = IF b[p].delta THEN <<<<a, t, p>>>> ELSE <<>>
    BY <1>2 DEF Delivered
  <2>2. p \in DOMAIN b2 /\ b2[p] = b[p]
    BY <1>1
  <2>3. b2[p].type = "tool_use" /\ b2[p].delta = b[p].delta
    BY <2>1, <2>2
  <2>4. calls[k].args = IF b2[p].delta THEN <<<<a, t, p>>>> ELSE <<>>
    BY <2>1, <2>3
  <2>5. QED BY <2>1, <2>2, <2>3, <2>4
<1>3. ASSUME NEW p \in DOMAIN b2, b2[p].type = "tool_use"
      PROVE  \E k \in DOMAIN calls : calls[k].id = <<a, t, p>>
  <2>1. p \in DOMAIN b /\ b[p].type = "tool_use"
    BY <1>1, <1>3
  <2>2. QED BY <2>1 DEF Delivered
<1>4. \A j, k \in DOMAIN calls : j < k => calls[j].id[3] < calls[k].id[3]
  BY DEF Delivered
<1>5. Delivered(a, t, calls, b2)
  BY <1>2, <1>3, <1>4 DEF Delivered
<1>6. QED BY <1>5 DEF b2

\* The place of a call is that of a block.
LEMMA PlaceOf ==
  ASSUME NEW a, NEW t, NEW calls, NEW b, Delivered(a, t, calls, b),
         NEW k \in DOMAIN calls
  PROVE  /\ calls[k].id[3] \in DOMAIN b
         /\ calls[k].id = <<a, t, calls[k].id[3]>>
         /\ b[calls[k].id[3]].type = "tool_use"
         /\ calls[k].args = IF b[calls[k].id[3]].delta THEN <<calls[k].id>>
                            ELSE <<>>
<1>1. PICK p \in DOMAIN b :
        /\ calls[k].id = <<a, t, p>> /\ b[p].type = "tool_use"
        /\ calls[k].args = IF b[p].delta THEN <<<<a, t, p>>>> ELSE <<>>
  BY DEF Delivered
<1>2. calls[k].id[3] = p
  BY <1>1
<1>3. calls[k].args = IF b[p].delta THEN <<calls[k].id>> ELSE <<>>
  BY <1>1
<1>4. QED BY <1>1, <1>2, <1>3

\* A call is added behind the others, and heard of at once.
LEMMA DeliveredCall ==
  ASSUME NEW a, NEW t, NEW Calls, NEW calls \in Seq(Calls),
         NEW b \in Seq(BlockRecords), NEW call \in Calls,
         NEW r \in BlockRecords, r.type = "tool_use", r.delta = FALSE,
         Delivered(a, t, calls, b),
         call.id = <<a, t, Len(b) + 1>>, call.args = <<>>
  PROVE  Delivered(a, t, Append(calls, call), Append(b, r))
<1> DEFINE b2 == Append(b, r)
           calls2 == Append(calls, call)
<1>1. /\ DOMAIN b = 1 .. Len(b) /\ DOMAIN b2 = 1 .. Len(b) + 1
      /\ b2[Len(b) + 1] = r /\ Len(b) \in Nat
      /\ \A p \in DOMAIN b : p \in DOMAIN b2 /\ b2[p] = b[p]
  <2> DEFINE S == BlockRecords
  <2>1. b \in Seq(S) /\ r \in S
    OBVIOUS
  <2> HIDE DEF S
  <2>2. QED BY <2>1
<1>2. /\ DOMAIN calls = 1 .. Len(calls) /\ DOMAIN calls2 = 1 .. Len(calls) + 1
      /\ calls2[Len(calls) + 1] = call /\ Len(calls) \in Nat
      /\ \A k \in DOMAIN calls : k \in DOMAIN calls2 /\ calls2[k] = calls[k]
  OBVIOUS
<1> HIDE DEF b2, calls2
<1>3. call.id[3] = Len(b) + 1
  OBVIOUS
<1>4. ASSUME NEW k \in DOMAIN calls2
      PROVE  \E p \in DOMAIN b2 :
               /\ calls2[k].id = <<a, t, p>> /\ b2[p].type = "tool_use"
               /\ calls2[k].args = IF b2[p].delta THEN <<<<a, t, p>>>>
                                   ELSE <<>>
  <2>1. CASE k \in DOMAIN calls
    <3>1. PICK p \in DOMAIN b :
            /\ calls[k].id = <<a, t, p>> /\ b[p].type = "tool_use"
            /\ calls[k].args = IF b[p].delta THEN <<<<a, t, p>>>> ELSE <<>>
      BY <2>1 DEF Delivered
    <3>2. p \in DOMAIN b2 /\ b2[p] = b[p] /\ calls2[k] = calls[k]
      BY <1>1, <1>2, <2>1
    <3>3. b2[p].type = "tool_use" /\ b2[p].delta = b[p].delta
      BY <3>1, <3>2
    <3>4. calls2[k].args = IF b2[p].delta THEN <<<<a, t, p>>>> ELSE <<>>
      BY <3>1, <3>2, <3>3
    <3>5. calls2[k].id = <<a, t, p>>
      BY <3>1, <3>2
    <3>6. QED BY <3>2, <3>3, <3>4, <3>5
  <2>2. CASE k = Len(calls) + 1
    <3> DEFINE q == Len(b) + 1
    <3>1. q \in DOMAIN b2 /\ b2[q] = r /\ calls2[k] = call
      BY <1>1, <1>2, <2>2
    <3>2. calls2[k].id = <<a, t, q>>
      BY <3>1
    <3>3. calls2[k].args = IF b2[q].delta THEN <<<<a, t, q>>>> ELSE <<>>
      BY <3>1
    <3>4. b2[q].type = "tool_use"
      BY <3>1
    <3>5. q \in DOMAIN b2
      BY <3>1
    <3> HIDE DEF q
    <3>6. QED BY <3>2, <3>3, <3>4, <3>5
  <2>3. k \in DOMAIN calls \/ k = Len(calls) + 1
    BY <1>2, <1>4
  <2>4. QED BY ONLY <2>1, <2>2, <2>3
<1>5. ASSUME NEW p \in DOMAIN b2, b2[p].type = "tool_use"
      PROVE  \E k \in DOMAIN calls2 : calls2[k].id = <<a, t, p>>
  <2>1. CASE p \in DOMAIN b
    <3>1. b[p].type = "tool_use"
      BY <1>1, <1>5, <2>1
    <3>2. PICK k \in DOMAIN calls : calls[k].id = <<a, t, p>>
      BY <2>1, <3>1 DEF Delivered
    <3>3. k \in DOMAIN calls2 /\ calls2[k] = calls[k]
      BY <1>2
    <3>4. QED BY <3>2, <3>3
  <2>2. CASE p = Len(b) + 1
    <3>1. Len(calls) + 1 \in DOMAIN calls2 /\ calls2[Len(calls) + 1] = call
      BY <1>2
    <3>2. QED BY <2>2, <3>1
  <2>3. QED BY <1>1, <2>1, <2>2
<1>6. ASSUME NEW j \in DOMAIN calls2, NEW k \in DOMAIN calls2, j < k
      PROVE  calls2[j].id[3] < calls2[k].id[3]
  <2>1. j \in DOMAIN calls /\ calls2[j] = calls[j]
    BY <1>2, <1>6
  <2>2. calls[j].id[3] \in DOMAIN b
    BY <2>1, PlaceOf
  <2>3. CASE k \in DOMAIN calls
    <3>1. calls[j].id[3] < calls[k].id[3]
      BY <1>6, <2>1, <2>3 DEF Delivered
    <3>2. QED BY <1>2, <2>1, <2>3, <3>1
  <2>4. CASE k = Len(calls) + 1
    <3>1. calls2[k].id[3] = Len(b) + 1
      BY <1>2, <1>3, <2>4
    <3>2. QED BY <1>1, <2>1, <2>2, <3>1
  <2>5. QED BY <1>2, <2>3, <2>4
<1>7. Delivered(a, t, calls2, b2)
  BY <1>4, <1>5, <1>6 DEF Delivered
<1>8. QED BY <1>7 DEF b2, calls2

\* A call that is still open is the last one.
LEMMA LastCall ==
  ASSUME NEW a, NEW t, NEW Calls, NEW calls \in Seq(Calls),
         NEW b \in Seq(BlockRecords), b # <<>>, b[Len(b)].type = "tool_use",
         Delivered(a, t, calls, b)
  PROVE  /\ Len(calls) \in DOMAIN calls
         /\ calls[Len(calls)].id = <<a, t, Len(b)>>
         /\ \A k \in DOMAIN calls : k # Len(calls) => calls[k].id[3] # Len(b)
<1>1. Len(b) \in DOMAIN b /\ DOMAIN b = 1 .. Len(b) /\ Len(b) \in Nat
  <2> DEFINE S == BlockRecords
  <2>1. b \in Seq(S)
    OBVIOUS
  <2> HIDE DEF S
  <2>2. QED BY <2>1
<1>2. PICK k \in DOMAIN calls : calls[k].id = <<a, t, Len(b)>>
  BY <1>1 DEF Delivered
<1>3. calls[k].id[3] = Len(b)
  BY <1>2
<1>4. DOMAIN calls = 1 .. Len(calls) /\ Len(calls) \in Nat
  OBVIOUS
<1>5. Len(calls) \in DOMAIN calls
  BY <1>2, <1>4
<1>6. calls[Len(calls)].id[3] \in DOMAIN b
  BY <1>5, PlaceOf
<1>7. \A i, j \in DOMAIN calls : i < j => calls[i].id[3] < calls[j].id[3]
  BY DEF Delivered
<1>8. k = Len(calls)
  <2>1. SUFFICES ASSUME k < Len(calls) PROVE FALSE
    BY <1>2, <1>4
  <2>2. calls[k].id[3] < calls[Len(calls)].id[3]
    BY <1>2, <1>5, <1>7, <2>1
  <2>3. QED BY <1>1, <1>3, <1>6, <2>2
<1>9. ASSUME NEW j \in DOMAIN calls, j # Len(calls)
      PROVE  calls[j].id[3] # Len(b)
  <2>1. j < Len(calls)
    BY <1>4, <1>9
  <2>2. calls[j].id[3] < Len(b) /\ calls[j].id[3] \in DOMAIN b
    BY <1>3, <1>5, <1>7, <1>8, <2>1, PlaceOf
  <2>3. QED BY <1>1, <2>2
<1>10. QED BY <1>2, <1>5, <1>8, <1>9

\* Its arguments reach it and no other call.
LEMMA DeliveredArgs ==
  ASSUME NEW a, NEW t, NEW calls \in Seq([id : Names, args : Seq(Names)]),
         NEW b \in Seq(BlockRecords), b # <<>>, b[Len(b)].type = "tool_use",
         b[Len(b)].delta = FALSE, Delivered(a, t, calls, b),
         NEW r \in BlockRecords, r.type = "tool_use", r.delta = TRUE
  PROVE  Delivered(a, t,
           [calls EXCEPT ![Len(calls)].args = Append(@, <<a, t, Len(b)>>)],
           [b EXCEPT ![Len(b)] = r])
<1> DEFINE n == Len(b)
           m == Len(calls)
           name == <<a, t, n>>
           b2 == [b EXCEPT ![n] = r]
           new == [calls[m] EXCEPT !.args = Append(@, name)]
           calls2 == [calls EXCEPT ![m].args = Append(@, name)]
<1>1. /\ m \in DOMAIN calls /\ calls[m].id = name
      /\ \A k \in DOMAIN calls : k # m => calls[k].id[3] # n
  BY LastCall
<1>2. /\ DOMAIN b2 = DOMAIN b /\ b2[n] = r
      /\ \A p \in DOMAIN b : p # n => b2[p] = b[p]
  BY Amended
<1>3. /\ DOMAIN calls2 = DOMAIN calls
      /\ calls2[m] = new
      /\ \A k \in DOMAIN calls : k # m => calls2[k] = calls[k]
  BY <1>1
<1>4. calls[m] \in [id : Names, args : Seq(Names)]
  <2> DEFINE S == [id : Names, args : Seq(Names)]
  <2>1. calls \in Seq(S)
    OBVIOUS
  <2> HIDE DEF S, m
  <2>2. calls[m] \in S
    BY <1>1, <2>1, ElementOf
  <2>3. QED BY <2>2 DEF S
<1>5. n \in DOMAIN b
  <2> DEFINE S == BlockRecords
  <2>1. b \in Seq(S)
    OBVIOUS
  <2> HIDE DEF S
  <2>2. QED BY <2>1
<1>6. calls[m].args = <<>>
  <2>1. calls[m].id[3] = n
    BY <1>1
  <2> HIDE DEF n, m, name
  <2>2. calls[m].args = IF b[calls[m].id[3]].delta THEN <<calls[m].id>>
                        ELSE <<>>
    BY <1>1, PlaceOf
  <2>3. b[n].delta = FALSE
    BY DEF n
  <2>4. QED BY <2>1, <2>2, <2>3
<1>7. new.id = name /\ new.args = <<name>>
  <2>1. new.id = calls[m].id /\ new.args = Append(calls[m].args, name)
    BY <1>4
  <2>2. Append(<<>>, name) = <<name>>
    OBVIOUS
  <2> HIDE DEF name, new
  <2>3. QED BY <1>1, <1>6, <2>1, <2>2
<1> HIDE DEF b2, calls2, new, m
<1>8. ASSUME NEW k \in DOMAIN calls2
      PROVE  \E p \in DOMAIN b2 :
               /\ calls2[k].id = <<a, t, p>> /\ b2[p].type = "tool_use"
               /\ calls2[k].args = IF b2[p].delta THEN <<<<a, t, p>>>>
                                   ELSE <<>>
  <2>1. CASE k # m
    <3>1. PICK p \in DOMAIN b :
            /\ calls[k].id = <<a, t, p>> /\ b[p].type = "tool_use"
            /\ calls[k].args = IF b[p].delta THEN <<<<a, t, p>>>> ELSE <<>>
      BY <1>3, <1>8, <2>1 DEF Delivered
    <3>2. calls[k].id[3] = p
      BY <3>1
    <3>3. p # n
      BY <1>1, <1>3, <1>8, <2>1, <3>2
    <3>4. p \in DOMAIN b2 /\ b2[p] = b[p] /\ calls2[k] = calls[k]
      BY <1>2, <1>3, <1>8, <2>1, <3>1, <3>3
    <3>5. b2[p].type = "tool_use" /\ b2[p].delta = b[p].delta
      BY <3>1, <3>4
    <3>6. calls2[k].args = IF b2[p].delta THEN <<<<a, t, p>>>> ELSE <<>>
      BY <3>1, <3>4, <3>5
    <3>7. calls2[k].id = <<a, t, p>>
      BY <3>1, <3>4
    <3>8. QED BY <3>4, <3>5, <3>6, <3>7
  <2>2. CASE k = m
    <3>1. calls2[k].id = name /\ calls2[k].args = <<name>>
      BY <1>3, <1>7, <2>2
    <3>2. b2[n].type = "tool_use" /\ b2[n].delta = TRUE /\ n \in DOMAIN b2
      BY <1>2, <1>5
    <3>3. calls2[k].args = IF b2[n].delta THEN <<<<a, t, n>>>> ELSE <<>>
      BY <3>1, <3>2
    <3> HIDE DEF n
    <3>4. QED BY <3>1, <3>2, <3>3
  <2>3. QED BY <2>1, <2>2
<1>9. \A k \in DOMAIN calls : calls2[k].id = calls[k].id
  <2> HIDE DEF name
  <2>1. QED BY <1>1, <1>3, <1>7
<1> HIDE DEF n, name
<1>10. ASSUME NEW p \in DOMAIN b2, b2[p].type = "tool_use"
       PROVE  \E k \in DOMAIN calls2 : calls2[k].id = <<a, t, p>>
  <2>1. p \in DOMAIN b /\ b[p].type = "tool_use"
    BY <1>2, <1>10 DEF n
  <2>2. PICK k \in DOMAIN calls : calls[k].id = <<a, t, p>>
    BY <2>1 DEF Delivered
  <2>3. QED BY <1>3, <1>9, <2>2
<1>11. \A j, k \in DOMAIN calls2 : j < k => calls2[j].id[3] < calls2[k].id[3]
  BY <1>3, <1>9 DEF Delivered
<1>12. Delivered(a, t, calls2, b2)
  BY <1>8, <1>10, <1>11 DEF Delivered
<1>13. QED BY <1>12 DEF calls2, b2, n, m, name

----------------------------------------------------------------------------
(* The steps.  A step of an agent leaves the others alone. *)

Others(f, g, a) == DOMAIN g = Agents /\ \A x \in Agents \ {a} : g[x] = f[x]

Stepped(a) ==
  /\ Others(adapter, adapter', a) /\ Others(client, client', a)
  /\ Others(spoken, spoken', a) /\ Others(work, work', a)
  /\ AgentOK(a, adapter'[a], client'[a], spoken'[a])
  /\ work'[a].kept \subseteq DOMAIN work'[a].msgs
  /\ CacheOK(cache')

LEMMA Stays ==
  ASSUME ProviderInv, NEW a \in Agents, Stepped(a)
  PROVE  ProviderInv'
<1>1. /\ DOMAIN adapter' = Agents /\ DOMAIN client' = Agents
      /\ DOMAIN spoken' = Agents /\ DOMAIN work' = Agents
  BY DEF Stepped, Others
<1>2. ASSUME NEW x \in Agents
      PROVE  /\ AgentOK(x, adapter'[x], client'[x], spoken'[x])
             /\ work'[x].kept \subseteq DOMAIN work'[x].msgs
  <2>1. CASE x = a
    BY <2>1 DEF Stepped
  <2>2. CASE x # a
    BY <2>2 DEF Stepped, Others, ProviderInv
  <2>3. QED BY <2>1, <2>2
<1>3. CacheOK(cache')
  BY DEF Stepped
<1>4. QED BY <1>1, <1>2, <1>3 DEF ProviderInv

\* What the last answer of an agent in its stream is.
LEMMA InStream ==
  ASSUME NEW a \in Agents, NEW s, NEW c, NEW sp, AgentOK(a, s, c, sp),
         s.state \in {"sent", "open", "failed", "eof", "closed"}
  PROVE  /\ sp \in Seq(Seq(BlockRecords)) /\ sp # <<>>
         /\ Len(sp) \in 1 .. MaxTurns[a]
         /\ sp[Len(sp)] \in Seq(BlockRecords)
<1> DEFINE S == Seq(BlockRecords)
<1>1. sp \in Seq(S) /\ Len(sp) \in 1 .. MaxTurns[a] /\ MaxTurns[a] \in Nat
  BY ProviderAssumption DEF AgentOK, SpokenOK
<1> HIDE DEF S
<1>2. sp # <<>> /\ sp[Len(sp)] \in S
  BY <1>1
<1>3. QED BY <1>1, <1>2 DEF S

\* The whole stream stays as it is but for the usage and the ending.
LEMMA StartKept ==
  ASSUME ProviderInv, NEW a \in Agents, MessageStart(a)
  PROVE  Stepped(a)
<1> DEFINE s == adapter[a]
           c == client[a]
           sp == spoken[a]
           s2 == adapter'[a]
<1>1. AgentOK(a, s, c, sp) /\ s.state = "open" /\ CacheOK(cache)
  BY DEF ProviderInv, MessageStart, Streaming
<1>2. s2 = [s EXCEPT !.start = TRUE, !.tokens = TRUE]
  BY DEF MessageStart, ProviderInv
<1>3. /\ DOMAIN s2 = DOMAIN s /\ s2.start = TRUE /\ s2.tokens = TRUE
      /\ s2.state = s.state /\ s2.usage = s.usage /\ s2.done = s.done
      /\ s2.block = s.block /\ s2.ids = s.ids /\ s2.puts = s.puts
      /\ s2.index = s.index
  BY <1>1, <1>2 DEF AgentOK, AdapterOK
<1>4. /\ Others(adapter, adapter', a) /\ Others(client, client', a)
      /\ Others(spoken, spoken', a) /\ Others(work, work', a)
      /\ client' = client /\ spoken' = spoken /\ work' = work
      /\ cache' = cache
  BY DEF MessageStart, Others, ProviderInv
<1> HIDE DEF s, c, sp, s2
<1>5. AdapterOK(s2)
  BY <1>1, <1>3 DEF AgentOK, AdapterOK
<1>6. SpokenOK(a, s2, sp)
  BY <1>1, <1>3 DEF AgentOK, SpokenOK
<1>7. EndingOK(s2, c)
  BY <1>1, <1>3 DEF AgentOK, EndingOK
<1>8. StreamOK(s2, c, sp[Len(sp)])
  BY <1>1, <1>3 DEF AgentOK, StreamOK
<1>9. Delivered(a, Len(sp), c.calls, sp[Len(sp)])
  BY <1>1 DEF AgentOK
<1>10. AgentOK(a, s2, c, sp)
  BY <1>5, <1>6, <1>7, <1>8, <1>9 DEF AgentOK
<1>11. work[a].kept \subseteq DOMAIN work[a].msgs
  BY DEF ProviderInv
<1>12. QED BY <1>1, <1>4, <1>10, <1>11 DEF Stepped, s2, c, sp

LEMMA Same ==
  ASSUME NEW f, DOMAIN f = Agents, NEW a \in Agents, NEW g, g = f
  PROVE  Others(f, g, a) /\ g[a] = f[a]
BY DEF Others

LEMMA Moved ==
  ASSUME ProviderInv, NEW a \in Agents, cache' = cache, work' = work,
         Others(adapter, adapter', a), Others(client, client', a),
         Others(spoken, spoken', a),
         AgentOK(a, adapter'[a], client'[a], spoken'[a])
  PROVE  Stepped(a)
<1>1. Others(work, work', a)
  BY Same DEF ProviderInv
<1>2. work[a].kept \subseteq DOMAIN work[a].msgs /\ CacheOK(cache)
  BY DEF ProviderInv
<1>3. QED BY <1>1, <1>2 DEF Stepped

\* A block that starts is one of those of an answer.
LEMMA RoomForBlock ==
  ASSUME ProviderInv, NEW a \in Agents, NEW type \in Kinds,
         BlockStart(a, type)
  PROVE  Len(Last(spoken[a])) + 1 \in 1 .. MaxBlocks
<1> DEFINE b == Last(spoken[a])
           types == [i \in DOMAIN b |-> b[i].type]
<1>1. \E answer \in Answers[a] : IsPrefix(Append(types, type), answer)
  BY DEF BlockStart, Last
<1>2. PICK answer \in Answers[a] : IsPrefix(Append(types, type), answer)
  BY <1>1
<1>3. b \in Seq(BlockRecords)
  <2>1. adapter[a].state = "open"
    BY DEF BlockStart, Streaming
  <2>2. AgentOK(a, adapter[a], client[a], spoken[a])
    BY DEF ProviderInv
  <2>3. QED BY <2>1, <2>2, InStream DEF Last
<1>4. DOMAIN b = 1 .. Len(b) /\ Len(b) \in Nat
  <2> DEFINE S == BlockRecords
  <2>1. b \in Seq(S)
    BY <1>3
  <2> HIDE DEF S, b
  <2>2. QED BY <2>1
<1> HIDE DEF b
<1>5. types \in Seq({b[i].type : i \in DOMAIN b}) /\ Len(types) = Len(b)
  <2>1. types = [i \in 1 .. Len(b) |-> b[i].type]
    BY <1>4
  <2>2. QED BY <1>4, <2>1
<1>6. Len(Append(types, type)) = Len(b) + 1
  <2> HIDE DEF types
  <2>1. QED BY <1>5
<1> HIDE DEF types
<1>7. Len(Append(types, type)) <= Len(answer)
  BY <1>2 DEF IsPrefix
<1>8. Len(answer) \in 0 .. MaxBlocks
  BY ProviderAssumption
<1>9. Len(b) + 1 \in 1 .. MaxBlocks
  BY <1>4, <1>6, <1>7, <1>8, ProviderAssumption
<1>10. QED BY <1>9 DEF b

\* A block starts: if it is a call, the agent learns its id.
LEMMA BlockStartKept ==
  ASSUME ProviderInv, NEW a \in Agents, NEW type \in Kinds,
         BlockStart(a, type)
  PROVE  Stepped(a)
<1> DEFINE s == adapter[a]
           c == client[a]
           sp == spoken[a]
           b == sp[Len(sp)]
           s2 == adapter'[a]
           c2 == client'[a]
           sp2 == spoken'[a]
           n == Len(b) + 1
           name == <<a, Len(sp), n>>
           r == Upstream(type)
           call == [id |-> name, args |-> <<>>]
<1>1. /\ AgentOK(a, s, c, sp) /\ s.state = "open" /\ s.done # TRUE
      /\ b # <<>> => ~b[Len(b)].open
  BY DEF ProviderInv, BlockStart, Streaming, NoBlockOpen, Block, Last
<1>2. /\ sp \in Seq(Seq(BlockRecords)) /\ sp # <<>>
      /\ Len(sp) \in 1 .. MaxTurns[a] /\ b \in Seq(BlockRecords)
  BY <1>1, InStream
<1>3. n \in 1 .. MaxBlocks
  BY RoomForBlock DEF Last
<1>4. name \in Names
  BY <1>2, <1>3, NameOf
<1>5. /\ sp2 = [sp EXCEPT ![Len(sp)] = Append(b, r)]
      /\ Others(spoken, spoken', a)
  BY DEF BlockStart, Speak, Turn, Others, ProviderInv
<1>6. r \in BlockRecords /\ r.type = type /\ r.delta = FALSE /\ r.open = TRUE
  BY DEF BlockRecords, Upstream
<1>7. /\ Append(b, r) \in Seq(BlockRecords) /\ Len(Append(b, r)) = n
      /\ Append(b, r)[n] = r
  <2> HIDE DEF b, r
  <2>1. QED BY <1>2, <1>6, Extended
<1>8. /\ s2 = [s EXCEPT
                 !.block = type,
                 !.ids = IF type = "tool_use" THEN Append(@, name) ELSE @,
                 !.thinking = IF type = "thinking" THEN <<>> ELSE @,
                 !.signature = IF type = "thinking" THEN <<>> ELSE @,
                 !.blocks = IF type = "redacted_thinking"
                            THEN Append(@, [type |-> type, name |-> name])
                            ELSE @]
      /\ Others(adapter, adapter', a)
  BY DEF BlockStart, ProviderInv, Others, Turn, Last
<1>9. /\ DOMAIN s2 = DOMAIN s /\ s2.start = s.start /\ s2.tokens = s.tokens
      /\ s2.state = s.state /\ s2.usage = s.usage /\ s2.done = s.done
      /\ s2.block = type /\ s2.puts = s.puts /\ s2.index = s.index
      /\ s2.ids = IF type = "tool_use" THEN Append(s.ids, name) ELSE s.ids
  BY <1>1, <1>8 DEF AgentOK, AdapterOK
<1>10. /\ c2 = After(c, IF type = "tool_use"
                        THEN <<[type |-> "call", name |-> name]>> ELSE <<>>)
       /\ Others(client, client', a) /\ work' = work /\ cache' = cache
  BY DEF BlockStart, Emit, After, ProviderInv, Others, Turn, Last
<1>11. Fresh(c) /\ Len(c.calls) \in Nat
       /\ c.calls \in Seq([id : Names, args : Seq(Names)])
  <2>1. c \in ClientRecords /\ c.late = FALSE
    BY <1>1 DEF AgentOK, EndingOK
  <2>2. s.done \in BOOLEAN /\ c.dones = IF s.done THEN 1 ELSE 0
    BY <1>1 DEF AgentOK, EndingOK, AdapterOK
  <2>3. c.dones = 0
    BY <1>1, <2>2
  <2>4. c.calls \in Seq([id : Names, args : Seq(Names)])
    BY <2>1 DEF ClientRecords
  <2> HIDE DEF c
  <2>5. QED BY <2>1, <2>3, <2>4 DEF Fresh
<1>12. Got(c2, IF type = "tool_use" THEN Append(c.calls, call) ELSE c.calls,
           c.usages, 0)
  <2>1. CASE type = "tool_use"
    <3>1. c2 = After(c, One([type |-> "call", name |-> name]))
      BY <1>10, <2>1 DEF One
    <3> HIDE DEF name, c, c2
    <3>2. c2 = Received(c, [type |-> "call", name |-> name])
      BY <3>1, TakesOne
    <3>3. QED BY <1>4, <1>11, <2>1, <3>2, GotCall
  <2>2. CASE type # "tool_use"
    <3>1. c2 = c
      BY <1>10, <2>2, TakesNone
    <3> HIDE DEF c, c2
    <3>2. QED BY <1>11, <2>2, <3>1 DEF Fresh, Got
  <2>3. QED BY <2>1, <2>2
<1>13. /\ sp2 \in Seq(Seq(BlockRecords)) /\ Len(sp2) = Len(sp)
       /\ sp2[Len(sp2)] = Append(b, r)
  <2> HIDE DEF b, r, sp, sp2
  <2>1. QED BY <1>2, <1>5, <1>7, SaidLast
<1>14. Delivered(a, Len(sp), c2.calls, Append(b, r))
  <2>1. Delivered(a, Len(sp), c.calls, b)
    BY <1>1 DEF AgentOK
  <2>2. CASE type = "tool_use"
    <3>1. c2.calls = Append(c.calls, call)
      BY <1>12, <2>2 DEF Got
    <3>2. /\ call \in [id : Names, args : Seq(Names)]
          /\ call.id = <<a, Len(sp), Len(b) + 1>> /\ call.args = <<>>
      BY <1>4
    <3> DEFINE R == [id : Names, args : Seq(Names)]
    <3>3. c.calls \in Seq(R) /\ call \in R
      BY <1>11, <3>2
    <3> HIDE DEF b, r, sp, sp2, c, c2, call, name, n, R
    <3>4. Delivered(a, Len(sp), Append(c.calls, call), Append(b, r))
      BY <1>2, <1>6, <2>1, <2>2, <3>2, <3>3, DeliveredCall
    <3>5. QED BY <3>1, <3>4
  <2>3. CASE type # "tool_use"
    <3>1. c2.calls = c.calls
      BY <1>12, <2>3 DEF Got
    <3> HIDE DEF b, r, sp, sp2, c, c2
    <3>2. QED BY <1>2, <1>6, <2>1, <2>3, <3>1, DeliveredText
  <2>4. QED BY <2>2, <2>3
<1>15. /\ c2 \in ClientRecords /\ c2.late = FALSE /\ c2.dones = 0
       /\ c2.usages = c.usages
       /\ Len(c2.calls) = IF type = "tool_use" THEN Len(c.calls) + 1
                          ELSE Len(c.calls)
  BY <1>11, <1>12 DEF Got
<1> HIDE DEF s, c, sp, b, s2, c2, sp2, r, call
<1>16. AdapterOK(s2)
  <2>1. s2.ids \in Seq(Names)
    BY <1>1, <1>4, <1>9 DEF AgentOK, AdapterOK
  <2>2. QED BY <1>1, <1>9, <2>1 DEF AgentOK, AdapterOK
<1>17. SpokenOK(a, s2, sp2)
  BY <1>1, <1>2, <1>9, <1>13 DEF AgentOK, SpokenOK
<1>18. EndingOK(s2, c2)
  BY <1>1, <1>9, <1>15 DEF AgentOK, EndingOK, AdapterOK
<1>19. StreamOK(s2, c2, sp2[Len(sp2)])
  <2>1. Append(b, r) # <<>> /\ Len(b) \in Nat
    BY <1>2, <1>6, Extended
  <2>2. StreamOK(s, c, b)
    BY <1>1 DEF AgentOK, b
  <2>3. s.block = "none" /\ s.index = Len(c.calls) + 1
        /\ Len(c.calls) <= Len(b)
    BY <1>1, <2>2 DEF StreamOK
  <2>4. /\ Len(Append(b, r)) <= MaxBlocks
        /\ Len(c2.calls) <= Len(Append(b, r))
    BY <1>3, <1>7, <1>11, <1>15, <2>1, <2>3, ProviderAssumption
  <2>5. s2.block = IF /\ Append(b, r) # <<>>
                      /\ Append(b, r)[Len(Append(b, r))].open
                   THEN Append(b, r)[Len(Append(b, r))].type ELSE "none"
    BY <1>6, <1>7, <1>9, <2>1
  <2>6. s2.index = IF s2.block = "tool_use" THEN Len(c2.calls)
                   ELSE Len(c2.calls) + 1
    BY <1>9, <1>15, <2>3
  <2>7. QED BY <1>1, <1>9, <1>13, <2>4, <2>5, <2>6 DEF StreamOK
<1>20. AgentOK(a, s2, c2, sp2)
  BY <1>13, <1>14, <1>16, <1>17, <1>18, <1>19 DEF AgentOK
<1>21. QED BY <1>5, <1>8, <1>10, <1>20, Moved DEF s2, c2, sp2

\* The open block of an answer, amended.
Changed(b, r) == [b EXCEPT ![Len(b)] = r]

LEMMA AmendKept ==
  ASSUME ProviderInv, NEW a \in Agents, adapter[a].state = "open",
         NEW r \in BlockRecords, Amend(a, r),
         Last(spoken[a]) # <<>>
  PROVE  LET b == Last(spoken[a])
             b2 == Changed(b, r)
             sp2 == spoken'[a]
         IN /\ Others(spoken, spoken', a)
            /\ sp2 \in Seq(Seq(BlockRecords)) /\ Len(sp2) = Len(spoken[a])
            /\ sp2[Len(sp2)] = b2 /\ b \in Seq(BlockRecords)
            /\ b2 \in Seq(BlockRecords) /\ Len(b2) = Len(b) /\ b2 # <<>>
            /\ DOMAIN b2 = DOMAIN b /\ b2[Len(b)] = r
            /\ \A p \in DOMAIN b : p # Len(b) => b2[p] = b[p]
            /\ b[Len(b)] \in BlockRecords
            /\ Len(spoken[a]) \in 1 .. MaxTurns[a]
<1> DEFINE sp == spoken[a]
           b == Last(spoken[a])
           b2 == Changed(b, r)
           sp2 == spoken'[a]
<1>1. AgentOK(a, adapter[a], client[a], sp)
  BY DEF ProviderInv
<1>2. /\ sp \in Seq(Seq(BlockRecords)) /\ sp # <<>>
      /\ Len(sp) \in 1 .. MaxTurns[a] /\ b \in Seq(BlockRecords)
  BY <1>1, InStream DEF Last
<1>3. Others(spoken, spoken', a) /\ sp2 = [sp EXCEPT ![Len(sp)] = b2]
  BY DEF Amend, Turn, Changed, Last, Others, ProviderInv
<1>4. /\ b2 \in Seq(BlockRecords) /\ Len(b2) = Len(b) /\ b2 # <<>>
      /\ DOMAIN b2 = DOMAIN b /\ b2[Len(b)] = r
      /\ \A p \in DOMAIN b : p # Len(b) => b2[p] = b[p]
  <2> HIDE DEF b
  <2>1. QED BY <1>2, Amended DEF Changed, b
<1>5. b[Len(b)] \in BlockRecords
  <2> DEFINE S == BlockRecords
  <2>1. b \in Seq(S) /\ b # <<>>
    BY <1>2
  <2> HIDE DEF S, b
  <2>2. b[Len(b)] \in S
    BY <2>1
  <2>3. QED BY <2>2 DEF S
<1> HIDE DEF sp, b, b2, sp2
<1>6. /\ sp2 \in Seq(Seq(BlockRecords)) /\ Len(sp2) = Len(sp)
      /\ sp2[Len(sp2)] = b2
  BY <1>2, <1>3, <1>4, SaidLast
<1>7. QED BY <1>2, <1>3, <1>4, <1>5, <1>6 DEF sp, b, b2, sp2

\* A signature is amended in: the agent hears nothing of it.
LEMMA SignatureKept ==
  ASSUME ProviderInv, NEW a \in Agents, SignatureDelta(a)
  PROVE  Stepped(a)
<1> DEFINE s == adapter[a]
           c == client[a]
           sp == spoken[a]
           b == Last(spoken[a])
           r == [Block(a) EXCEPT !.signed = TRUE]
           b2 == Changed(b, r)
           s2 == adapter'[a]
           sp2 == spoken'[a]
<1>1. /\ AgentOK(a, s, c, sp) /\ s.state = "open"
      /\ b # <<>> /\ b[Len(b)].open # FALSE
  BY DEF ProviderInv, SignatureDelta, Streaming, NoBlockOpen, Block, Last
<1>2. b[Len(b)] \in BlockRecords
  <2>1. sp # <<>> /\ b \in Seq(BlockRecords)
    BY <1>1, InStream DEF Last
  <2> DEFINE S == BlockRecords
  <2>2. b \in Seq(S) /\ b # <<>>
    BY <1>1, <2>1
  <2> HIDE DEF S, b
  <2>3. b[Len(b)] \in S
    BY <2>2
  <2>4. QED BY <2>3 DEF S
<1>3. /\ r \in BlockRecords /\ r.type = b[Len(b)].type
      /\ r.delta = b[Len(b)].delta /\ r.open = b[Len(b)].open
  BY <1>2 DEF BlockRecords, Block, Last
<1>4. Amend(a, r)
  BY DEF SignatureDelta
<1>5. /\ Others(spoken, spoken', a)
      /\ sp2 \in Seq(Seq(BlockRecords)) /\ Len(sp2) = Len(sp)
      /\ sp2[Len(sp2)] = b2 /\ b \in Seq(BlockRecords)
      /\ b2 \in Seq(BlockRecords) /\ Len(b2) = Len(b) /\ b2 # <<>>
      /\ DOMAIN b2 = DOMAIN b /\ b2[Len(b)] = r
      /\ \A p \in DOMAIN b : p # Len(b) => b2[p] = b[p]
  BY <1>1, <1>3, <1>4, AmendKept
<1>6. /\ s2 = [s EXCEPT !.signature = Append(@, BlockName(a))]
      /\ Others(adapter, adapter', a) /\ client' = client
      /\ work' = work /\ cache' = cache
  BY DEF SignatureDelta, ProviderInv, Others
<1>7. /\ DOMAIN s2 = DOMAIN s /\ s2.start = s.start /\ s2.tokens = s.tokens
      /\ s2.state = s.state /\ s2.usage = s.usage /\ s2.done = s.done
      /\ s2.block = s.block /\ s2.puts = s.puts /\ s2.index = s.index
      /\ s2.ids = s.ids
  BY <1>1, <1>6 DEF AgentOK, AdapterOK
<1>8. b = sp[Len(sp)]
  BY DEF Last
<1> HIDE DEF s, c, sp, b, b2, r, s2, sp2
<1>9. AdapterOK(s2) /\ SpokenOK(a, s2, sp2) /\ EndingOK(s2, c)
  BY <1>1, <1>5, <1>7 DEF AgentOK, AdapterOK, SpokenOK, EndingOK
<1>10. StreamOK(s2, c, b2)
  <2>1. StreamOK(s, c, b)
    BY <1>1, <1>8 DEF AgentOK
  <2>2. QED BY <1>1, <1>3, <1>5, <1>7, <2>1 DEF StreamOK
<1>11. Delivered(a, Len(sp), c.calls, b2)
  <2>1. Delivered(a, Len(sp), c.calls, b)
    BY <1>1, <1>8 DEF AgentOK
  <2>2. \A p \in DOMAIN b :
          b2[p].type = b[p].type /\ b2[p].delta = b[p].delta
    BY <1>3, <1>5
  <2>3. QED BY <1>5, <2>1, <2>2, DeliveredSame
<1>12. AgentOK(a, s2, c, sp2)
  BY <1>5, <1>9, <1>10, <1>11 DEF AgentOK
<1>13. Others(client, client', a) /\ client'[a] = c
  BY <1>6, Same DEF ProviderInv, c
<1>14. QED BY <1>5, <1>6, <1>12, <1>13, Moved DEF s2, sp2

\* A delta reaches the agent; arguments reach the call that is open.
LEMMA DeltaKept ==
  ASSUME ProviderInv, NEW a \in Agents, BlockDelta(a)
  PROVE  Stepped(a)
<1> DEFINE s == adapter[a]
           c == client[a]
           sp == spoken[a]
           b == Last(spoken[a])
           r == [Block(a) EXCEPT !.delta = TRUE]
           b2 == Changed(b, r)
           s2 == adapter'[a]
           c2 == client'[a]
           sp2 == spoken'[a]
           name == BlockName(a)
           type == b[Len(b)].type
<1>1. /\ AgentOK(a, s, c, sp) /\ s.state = "open"
      /\ b # <<>> /\ b[Len(b)].open # FALSE /\ b[Len(b)].delta # TRUE
      /\ type # "redacted_thinking" /\ b = sp[Len(sp)]
  BY DEF ProviderInv, BlockDelta, Streaming, NoBlockOpen, Block, Last
<1>2. b[Len(b)] \in BlockRecords
  <2>1. sp # <<>> /\ b \in Seq(BlockRecords)
    BY <1>1, InStream DEF Last
  <2> DEFINE S == BlockRecords
  <2>2. b \in Seq(S) /\ b # <<>>
    BY <1>1, <2>1
  <2> HIDE DEF S, b
  <2>3. b[Len(b)] \in S
    BY <2>2
  <2>4. QED BY <2>3 DEF S
<1>3. /\ r \in BlockRecords /\ r.type = type /\ r.delta = TRUE
      /\ r.open = b[Len(b)].open /\ r.open = TRUE
      /\ b[Len(b)].delta = FALSE /\ type \in Kinds
  BY <1>1, <1>2 DEF BlockRecords, Block, Last
<1>4. Amend(a, r)
  BY DEF BlockDelta
<1>5. /\ Others(spoken, spoken', a)
      /\ sp2 \in Seq(Seq(BlockRecords)) /\ Len(sp2) = Len(sp)
      /\ sp2[Len(sp2)] = b2 /\ b \in Seq(BlockRecords)
      /\ b2 \in Seq(BlockRecords) /\ Len(b2) = Len(b) /\ b2 # <<>>
      /\ DOMAIN b2 = DOMAIN b /\ b2[Len(b)] = r
      /\ \A p \in DOMAIN b : p # Len(b) => b2[p] = b[p]
      /\ Len(sp) \in 1 .. MaxTurns[a]
  BY <1>1, <1>3, <1>4, AmendKept
<1>6. work' = work /\ cache' = cache
  BY DEF BlockDelta
<1>7. StreamOK(s, c, b) /\ Delivered(a, Len(sp), c.calls, b)
  BY <1>1 DEF AgentOK
<1>8. s.block = type /\ s.done # TRUE /\ Len(b) <= MaxBlocks
  BY <1>1, <1>3, <1>7 DEF StreamOK, Kinds
<1>9. /\ Fresh(c) /\ c.calls \in Seq([id : Names, args : Seq(Names)])
  <2>1. c \in ClientRecords /\ c.late = FALSE
    BY <1>1 DEF AgentOK, EndingOK
  <2>2. s.done \in BOOLEAN /\ c.dones = IF s.done THEN 1 ELSE 0
    BY <1>1 DEF AgentOK, EndingOK, AdapterOK
  <2>3. c.dones = 0
    BY <1>8, <2>2
  <2>4. c.calls \in Seq([id : Names, args : Seq(Names)])
    BY <2>1 DEF ClientRecords
  <2> HIDE DEF c
  <2>5. QED BY <2>1, <2>3, <2>4 DEF Fresh
<1>10. /\ name = <<a, Len(sp), Len(b)>> /\ name \in Names
  <2>1. name = <<a, Len(sp), Len(b)>>
    BY DEF BlockName, Turn
  <2>2. Len(b) \in 1 .. MaxBlocks
    <3> DEFINE S == BlockRecords
    <3>1. b \in Seq(S) /\ b # <<>>
      BY <1>1, <1>5
    <3> HIDE DEF S, b
    <3>2. Len(b) \in Nat /\ Len(b) # 0
      BY <3>1
    <3>3. QED BY <1>8, <3>2, ProviderAssumption
  <2> HIDE DEF b, sp, name
  <2>3. <<a, Len(sp), Len(b)>> \in Names
    BY <1>5, <2>2, NameOf
  <2>4. QED BY <2>1, <2>3
<1>11. /\ Others(adapter, adapter', a) /\ Others(client, client', a)
       /\ s2.state = s.state /\ s2.usage = s.usage /\ s2.done = s.done
       /\ s2.start = s.start /\ s2.tokens = s.tokens /\ DOMAIN s2 = DOMAIN s
       /\ s2.block = s.block /\ s2.puts = s.puts /\ s2.index = s.index
       /\ s2.ids = s.ids
  <2>1. \/ adapter' = adapter
        \/ adapter' = [adapter EXCEPT ![a].thinking = Append(@, BlockName(a))]
    BY <1>3, <1>1 DEF BlockDelta, Block, Last, Kinds
  <2>2. Others(adapter, adapter', a)
    BY <2>1 DEF Others, ProviderInv
  <2>3. s2 = s \/ s2 = [s EXCEPT !.thinking = Append(@, BlockName(a))]
    BY <2>1 DEF ProviderInv
  <2>4. \E chunks : Emit(a, chunks)
    BY <1>3, <1>1 DEF BlockDelta, Block, Last, Kinds
  <2>5. Others(client, client', a)
    BY <2>4 DEF Emit, Others, ProviderInv
  <2>6. DOMAIN s = {"state", "start", "block", "index", "tokens", "usage",
                    "done", "thinking", "signature", "blocks", "ids",
                    "flushed", "puts"}
    BY <1>1 DEF AgentOK, AdapterOK
  <2> HIDE DEF s, s2
  <2>7. QED BY <2>2, <2>3, <2>5, <2>6
<1>12. /\ Got(c2, c2.calls, c.usages, 0)
       /\ c2.calls = IF type = "tool_use"
                     THEN [c.calls EXCEPT ![Len(c.calls)].args =
                             Append(@, name)]
                     ELSE c.calls
  <2>1. CASE type = "text"
    <3>1. c2 = After(c, One(Chunk("content")))
      BY <2>1 DEF BlockDelta, Emit, After, One, Block, Last, ProviderInv
    <3> HIDE DEF c, c2, type
    <3>2. Got(c2, c.calls, c.usages, 0)
      BY <1>9, <3>1, TakesOne, GotOther
    <3>3. QED BY <2>1, <3>2 DEF Got
  <2>2. CASE type = "thinking"
    <3>1. c2 = After(c, One(Chunk("reasoning")))
      BY <2>2 DEF BlockDelta, Emit, After, One, Block, Last, ProviderInv
    <3> HIDE DEF c, c2, type
    <3>2. Got(c2, c.calls, c.usages, 0)
      BY <1>9, <3>1, TakesOne, GotOther
    <3>3. QED BY <2>2, <3>2 DEF Got
  <2>3. CASE type = "tool_use"
    <3> DEFINE x == [type |-> "args", index |-> s.index, name |-> name]
    <3>1. c2 = After(c, One(x))
      BY <2>3 DEF BlockDelta, Emit, After, One, Block, Last, ProviderInv
    <3>2. s.index = Len(c.calls)
      BY <1>7, <1>8, <2>3 DEF StreamOK
    <3>3. Len(c.calls) \in DOMAIN c.calls
      <4> DEFINE R == [id : Names, args : Seq(Names)]
      <4>1. c.calls \in Seq(R)
        BY <1>9
      <4> HIDE DEF R, c, b, sp
      <4>2. QED BY <1>1, <1>5, <1>7, <2>3, <4>1, LastCall
    <3>4. Got(Received(c, x), [c.calls EXCEPT ![Len(c.calls)].args =
                                 Append(@, name)], c.usages, 0)
      <4>1. x = [type |-> "args", index |-> Len(c.calls), name |-> name]
        BY <3>2
      <4> HIDE DEF c, name, s
      <4>2. QED BY <1>9, <1>10, <3>2, <3>3, GotArgs
    <3>5. c2 = Received(c, x)
      <4> HIDE DEF c, c2, x
      <4>1. QED BY <3>1, TakesOne
    <3> HIDE DEF c, c2, x, type, name
    <3>6. Got(c2, [c.calls EXCEPT ![Len(c.calls)].args = Append(@, name)],
              c.usages, 0)
      BY <3>4, <3>5
    <3>7. QED BY <2>3, <3>6 DEF Got
  <2>4. QED BY <1>1, <1>3, <2>1, <2>2, <2>3 DEF Kinds
<1>13. Len(c2.calls) = Len(c.calls)
  <2> DEFINE R == [id : Names, args : Seq(Names)]
  <2>1. c.calls \in Seq(R)
    BY <1>9
  <2> HIDE DEF R, c, c2, type, name
  <2>2. Len([c.calls EXCEPT ![Len(c.calls)].args = Append(@, name)])
          = Len(c.calls)
    BY <2>1
  <2>3. QED BY <1>12, <2>2
<1>14. Delivered(a, Len(sp), c2.calls, b2)
  <2>1. CASE type = "tool_use"
    <3>1. c2.calls = [c.calls EXCEPT ![Len(c.calls)].args =
                        Append(@, <<a, Len(sp), Len(b)>>)]
      BY <1>10, <1>12, <2>1
    <3> HIDE DEF c, c2, b, sp, r
    <3>2. Delivered(a, Len(sp),
            [c.calls EXCEPT ![Len(c.calls)].args =
               Append(@, <<a, Len(sp), Len(b)>>)],
            [b EXCEPT ![Len(b)] = r])
      BY <1>1, <1>3, <1>5, <1>7, <1>9, <2>1, DeliveredArgs
    <3>3. QED BY <3>1, <3>2 DEF Changed
  <2>2. CASE type # "tool_use"
    <3>1. c2.calls = c.calls
      BY <1>12, <2>2
    <3> HIDE DEF c, c2, b, b2, sp, r
    <3>2. \A p \in DOMAIN b :
            /\ b2[p].type = b[p].type
            /\ b[p].type = "tool_use" => b2[p].delta = b[p].delta
      BY <1>3, <1>5, <2>2
    <3>3. Delivered(a, Len(sp), c.calls, b2)
      BY <1>5, <1>7, <3>2, DeliveredSame
    <3>4. QED BY <3>1, <3>3
  <2>3. QED BY <2>1, <2>2
<1> HIDE DEF s, c, sp, b, r, b2, s2, c2, sp2, name, type
<1>15. AdapterOK(s2) /\ SpokenOK(a, s2, sp2)
  BY <1>1, <1>5, <1>11 DEF AgentOK, AdapterOK, SpokenOK
<1>16. EndingOK(s2, c2)
  BY <1>1, <1>8, <1>9, <1>11, <1>12
     DEF AgentOK, AdapterOK, EndingOK, Got, Fresh
<1>17. StreamOK(s2, c2, b2)
  BY <1>1, <1>3, <1>5, <1>7, <1>8, <1>11, <1>13 DEF StreamOK, type
<1>18. AgentOK(a, s2, c2, sp2)
  BY <1>5, <1>14, <1>15, <1>16, <1>17 DEF AgentOK
<1>19. QED BY <1>5, <1>6, <1>11, <1>18, Moved DEF s2, c2, sp2

\* The parts of an adapter its flush leaves alone.
Alike(t, s) ==
  /\ DOMAIN t = DOMAIN s /\ t.start = s.start /\ t.tokens = s.tokens
  /\ t.usage = s.usage /\ t.done = s.done /\ t.index = s.index
  /\ t.state = s.state /\ t.ids = s.ids

\* Blocks are finalized without a trace in the rest of the adapter.
LEMMA Finalized ==
  ASSUME NEW s, AdapterOK(s)
  PROVE  LET t == FinalizeThinkingBlock(s)
         IN Alike(t, s) /\ t.block = s.block /\ t.puts = s.puts
<1>1. DOMAIN s = {"state", "start", "block", "index", "tokens", "usage",
                  "done", "thinking", "signature", "blocks", "ids",
                  "flushed", "puts"}
  BY DEF AdapterOK
<1> DEFINE t == FinalizeThinkingBlock(s)
<1>2. \E x : t = [s EXCEPT !.blocks = x, !.thinking = <<>>, !.signature = <<>>]
  BY DEF FinalizeThinkingBlock
<1> HIDE DEF t
<1>3. Alike(t, s) /\ t.block = s.block /\ t.puts = s.puts
  BY <1>1, <1>2 DEF Alike
<1>4. QED BY <1>3 DEF t

LEMMA Flushed ==
  ASSUME NEW s, AdapterOK(s)
  PROVE  LET t == FlushThinkingCache(s)
         IN /\ Alike(t, s) /\ AdapterOK(t)
            /\ s.block = "none" => t.block = "none"
<1> DEFINE t == FlushThinkingCache(s)
<1>1. CASE s.flushed
  <2>1. t = s
    BY <1>1 DEF FlushThinkingCache
  <2>2. QED BY <2>1 DEF Alike
<1>2. CASE ~s.flushed
  <2> DEFINE f == [FinalizeThinkingBlock(s) EXCEPT !.block = "none"]
  <2>1. Alike(FinalizeThinkingBlock(s), s)
        /\ FinalizeThinkingBlock(s).puts = s.puts
    BY Finalized
  <2>2. Alike(f, s) /\ f.block = "none"
    <3> DEFINE g == FinalizeThinkingBlock(s)
    <3>1. Alike(g, s) /\ f = [g EXCEPT !.block = "none"]
      BY <2>1
    <3>2. "block" \in DOMAIN g
      BY <3>1 DEF Alike, AdapterOK
    <3> HIDE DEF g, f
    <3>3. DOMAIN f = DOMAIN g /\ f.block = "none"
      BY <3>1, <3>2
    <3>4. f.start = g.start /\ f.tokens = g.tokens /\ f.usage = g.usage
          /\ f.done = g.done /\ f.index = g.index /\ f.state = g.state
          /\ f.ids = g.ids
      BY <3>1 DEF Alike, AdapterOK
    <3>5. QED BY <3>1, <3>3, <3>4 DEF Alike
  <2> HIDE DEF f
  <2>3. PICK w : /\ w = f \/ w = s
                 /\ \E p : /\ p = <<>> \/ p = w.ids
                           /\ t = [w EXCEPT !.flushed = TRUE, !.puts = p]
    BY <1>2 DEF FlushThinkingCache, f
  <2>4. Alike(w, s) /\ (s.block = "none" => w.block = "none")
    BY <2>2, <2>3 DEF Alike
  <2>5. DOMAIN w = DOMAIN s /\ s.ids \in Seq(Names) /\ w.ids = s.ids
        /\ DOMAIN s = {"state", "start", "block", "index", "tokens", "usage",
                       "done", "thinking", "signature", "blocks", "ids",
                       "flushed", "puts"}
    BY <2>4 DEF Alike, AdapterOK
  <2> HIDE DEF t
  <2>6. Alike(t, w) /\ t.block = w.block /\ (t.puts = <<>> \/ t.puts = s.ids)
    BY <2>3, <2>5 DEF Alike
  <2>7. Alike(t, s) /\ (s.block = "none" => t.block = "none")
    BY <2>4, <2>6 DEF Alike
  <2>8. t.puts \in Seq(Names)
    <3>1. CASE t.puts = <<>>
      <4>1. <<>> \in Seq(Names)
        OBVIOUS
      <4>2. QED BY <3>1, <4>1
    <3>2. CASE t.puts = s.ids
      BY <2>5, <3>2
    <3>3. QED BY <2>6, <3>1, <3>2
  <2>9. AdapterOK(t)
    BY <2>7, <2>8 DEF Alike, AdapterOK
  <2>10. QED BY <2>7, <2>9 DEF t
<1>3. QED BY <1>1, <1>2

LEMMA StoppedBlock ==
  ASSUME NEW s, AdapterOK(s)
  PROVE  LET t == Stopped(s)
         IN /\ DOMAIN t = DOMAIN s /\ t.start = s.start /\ t.tokens = s.tokens
            /\ t.state = s.state /\ t.usage = s.usage /\ t.done = s.done
            /\ t.block = "none" /\ t.puts = s.puts /\ t.ids = s.ids
            /\ t.index = IF s.block = "tool_use" THEN s.index + 1
                         ELSE s.index
<1> DEFINE w == IF s.block = "thinking" THEN FinalizeThinkingBlock(s) ELSE s
           next == IF s.block = "tool_use" THEN s.index + 1 ELSE s.index
           t == Stopped(s)
<1>1. Alike(w, s) /\ w.puts = s.puts
  <2>1. Alike(s, s)
    BY DEF Alike
  <2>2. QED BY <2>1, Finalized
<1>2. t = [w EXCEPT !.index = next, !.block = "none"]
  BY DEF Stopped
<1> HIDE DEF w, t, next
<1>3. DOMAIN w = {"state", "start", "block", "index", "tokens", "usage",
                  "done", "thinking", "signature", "blocks", "ids",
                  "flushed", "puts"}
  BY <1>1 DEF Alike, AdapterOK
<1>4. t.index = next /\ t.block = "none" /\ t.puts = s.puts /\ Alike(w, s)
      /\ DOMAIN t = DOMAIN w /\ t.start = w.start /\ t.tokens = w.tokens
      /\ t.state = w.state /\ t.usage = w.usage /\ t.done = w.done
      /\ t.ids = w.ids
  BY <1>1, <1>2, <1>3
<1>5. QED BY <1>4 DEF Alike, t, next

\* The block that ends is no longer open; after a call the index moves on.
LEMMA BlockStopKept ==
  ASSUME ProviderInv, NEW a \in Agents, BlockStop(a)
  PROVE  Stepped(a)
<1> DEFINE s == adapter[a]
           c == client[a]
           sp == spoken[a]
           b == Last(spoken[a])
           r == [Block(a) EXCEPT !.open = FALSE]
           b2 == Changed(b, r)
           s2 == adapter'[a]
           sp2 == spoken'[a]
<1>1. /\ AgentOK(a, s, c, sp) /\ s.state = "open"
      /\ b # <<>> /\ b[Len(b)].open # FALSE /\ b = sp[Len(sp)]
  BY DEF ProviderInv, BlockStop, Streaming, Complete, NoBlockOpen, Block, Last
<1>2. b[Len(b)] \in BlockRecords
  <2>1. sp # <<>> /\ b \in Seq(BlockRecords)
    BY <1>1, InStream DEF Last
  <2> DEFINE S == BlockRecords
  <2>2. b \in Seq(S) /\ b # <<>>
    BY <1>1, <2>1
  <2> HIDE DEF S, b
  <2>3. b[Len(b)] \in S
    BY <2>2
  <2>4. QED BY <2>3 DEF S
<1>3. /\ r \in BlockRecords /\ r.type = b[Len(b)].type
      /\ r.delta = b[Len(b)].delta /\ r.open = FALSE
      /\ b[Len(b)].open = TRUE /\ b[Len(b)].type \in Kinds
  BY <1>1, <1>2 DEF BlockRecords, Block, Last
<1>4. Amend(a, r)
  BY DEF BlockStop
<1>5. /\ Others(spoken, spoken', a)
      /\ sp2 \in Seq(Seq(BlockRecords)) /\ Len(sp2) = Len(sp)
      /\ sp2[Len(sp2)] = b2 /\ b \in Seq(BlockRecords)
      /\ b2 \in Seq(BlockRecords) /\ Len(b2) = Len(b) /\ b2 # <<>>
      /\ DOMAIN b2 = DOMAIN b /\ b2[Len(b)] = r
      /\ \A p \in DOMAIN b : p # Len(b) => b2[p] = b[p]
  BY <1>1, <1>3, <1>4, AmendKept
<1>6. /\ s2 = Stopped(s) /\ Others(adapter, adapter', a)
      /\ client' = client /\ work' = work /\ cache' = cache
  BY DEF BlockStop, ProviderInv, Others
<1>7. AdapterOK(s)
  BY <1>1 DEF AgentOK
<1>8. /\ DOMAIN s2 = DOMAIN s /\ s2.start = s.start /\ s2.tokens = s.tokens
      /\ s2.state = s.state /\ s2.usage = s.usage /\ s2.done = s.done
      /\ s2.block = "none" /\ s2.puts = s.puts /\ s2.ids = s.ids
      /\ s2.index = IF s.block = "tool_use" THEN s.index + 1 ELSE s.index
  <2> HIDE DEF s, s2
  <2>1. QED BY <1>6, <1>7, StoppedBlock
<1>9. StreamOK(s, c, b) /\ Delivered(a, Len(sp), c.calls, b)
  BY <1>1 DEF AgentOK
<1>10. Len(c.calls) \in Nat
  <2>1. c.calls \in Seq([id : Names, args : Seq(Names)])
    BY <1>1 DEF AgentOK, EndingOK, ClientRecords
  <2> HIDE DEF c
  <2>2. QED BY <2>1
<1> HIDE DEF s, c, sp, b, r, b2, s2, sp2
<1>11. s2.index = Len(c.calls) + 1
  BY <1>8, <1>9 DEF StreamOK
<1>12. Len(b) \in Nat
  BY <1>5
<1>13. s2.index \in 1 .. MaxBlocks + 1
  BY <1>9, <1>10, <1>11, <1>12, ProviderAssumption DEF StreamOK
<1>14. AdapterOK(s2) /\ SpokenOK(a, s2, sp2) /\ EndingOK(s2, c)
  BY <1>1, <1>5, <1>8, <1>13 DEF AgentOK, AdapterOK, SpokenOK, EndingOK
<1>15. StreamOK(s2, c, b2)
  BY <1>3, <1>5, <1>8, <1>9, <1>11 DEF StreamOK
<1>16. Delivered(a, Len(sp), c.calls, b2)
  <2>1. \A p \in DOMAIN b :
          /\ b2[p].type = b[p].type
          /\ b[p].type = "tool_use" => b2[p].delta = b[p].delta
    BY <1>3, <1>5
  <2>2. QED BY <1>5, <1>9, <2>1, DeliveredSame
<1>17. AgentOK(a, s2, c, sp2)
  BY <1>5, <1>14, <1>15, <1>16 DEF AgentOK
<1>18. Others(client, client', a) /\ client'[a] = c
  BY <1>6, Same DEF ProviderInv, c
<1>19. QED BY <1>5, <1>6, <1>17, <1>18, Moved DEF s2, sp2

\* What an open stream whose ending has not come has let the agent have.
LEMMA NotDone ==
  ASSUME NEW a, NEW s, NEW c, NEW sp, AgentOK(a, s, c, sp),
         s.state \in {"open", "failed"}, ~s.done
  PROVE  /\ Fresh(c) /\ s.done = FALSE /\ s.usage \in BOOLEAN
         /\ s.tokens \in BOOLEAN /\ s.start \in BOOLEAN
         /\ c.usages = IF s.usage THEN 1 ELSE 0
<1>1. c \in ClientRecords /\ c.late = FALSE
  BY DEF AgentOK, EndingOK
<1>2. s.done \in BOOLEAN /\ s.usage \in BOOLEAN /\ s.tokens \in BOOLEAN
      /\ s.start \in BOOLEAN
  BY DEF AgentOK, AdapterOK
<1>3. /\ c.dones = IF s.done THEN 1 ELSE 0
      /\ c.usages = IF s.usage THEN 1 ELSE 0
  BY DEF AgentOK, EndingOK
<1>4. QED BY <1>1, <1>2, <1>3 DEF Fresh

\* What the agent makes of chunks that are not about its calls.
LEMMA Heard ==
  ASSUME NEW a, NEW s, NEW c, NEW sp, AgentOK(a, s, c, sp),
         s.state \in {"open", "failed", "eof", "closed"},
         NEW c2, c2.calls = c.calls,
         NEW s2, s2.block = s.block, s2.index = s.index, s2.done = s.done
  PROVE  /\ s.state = "open" => StreamOK(s2, c2, sp[Len(sp)])
         /\ Delivered(a, Len(sp), c2.calls, sp[Len(sp)])
BY DEF AgentOK, StreamOK

\* The usage goes out with the first message_delta, and once.
LEMMA MessageDeltaKept ==
  ASSUME ProviderInv, NEW a \in Agents, MessageDelta(a)
  PROVE  Stepped(a)
<1> DEFINE s == adapter[a]
           c == client[a]
           sp == spoken[a]
           s2 == adapter'[a]
           c2 == client'[a]
<1>1. AgentOK(a, s, c, sp) /\ s.state = "open" /\ ~s.done /\ s.start
  BY DEF ProviderInv, MessageDelta, Streaming
<1>2. /\ s2 = [s EXCEPT !.usage = TRUE, !.tokens = TRUE]
      /\ Others(adapter, adapter', a) /\ Others(client, client', a)
      /\ spoken' = spoken /\ work' = work /\ cache' = cache
  BY DEF MessageDelta, Emit, ProviderInv, Others
<1>3. c2 = After(c, IF s.usage THEN One(Chunk("finish"))
                    ELSE Two(Chunk("finish"), Chunk("usage")))
  BY DEF MessageDelta, Emit, ProviderInv, After, One, Two
<1> HIDE DEF s, c, sp, s2, c2
<1>4. /\ DOMAIN s2 = DOMAIN s /\ s2.start = s.start /\ s2.tokens = TRUE
      /\ s2.state = s.state /\ s2.usage = TRUE /\ s2.done = s.done
      /\ s2.block = s.block /\ s2.puts = s.puts /\ s2.index = s.index
      /\ s2.ids = s.ids
  BY <1>1, <1>2 DEF AgentOK, AdapterOK
<1>5. /\ Fresh(c) /\ s.done = FALSE /\ s.usage \in BOOLEAN
      /\ c.usages = IF s.usage THEN 1 ELSE 0
  BY <1>1, NotDone
<1>6. Got(Received(c, Chunk("finish")), c.calls, c.usages, 0)
  BY <1>5, GotOther
<1>7. Got(c2, c.calls, 1, 0)
  <2>1. CASE s.usage
    <3>1. c2 = Received(c, Chunk("finish"))
      BY <1>3, <2>1, TakesOne
    <3>2. QED BY <1>5, <1>6, <2>1, <3>1
  <2>2. CASE ~s.usage
    <3> DEFINE e == Received(c, Chunk("finish"))
    <3>1. c2 = Received(e, Chunk("usage"))
      BY <1>3, <2>2, TakesTwo
    <3> HIDE DEF e
    <3>2. Fresh(e) /\ e.calls = c.calls /\ e.usages = 0
      BY <1>5, <1>6, <2>2 DEF Got, Fresh, e
    <3>3. Got(Received(e, Chunk("usage")), e.calls, e.usages + 1, 0)
      BY <3>2, GotUsage
    <3>4. QED BY <3>1, <3>2, <3>3
  <2>3. QED BY <2>1, <2>2
<1>8. c2.calls = c.calls
  BY <1>7 DEF Got
<1>9. /\ StreamOK(s2, c2, sp[Len(sp)])
      /\ Delivered(a, Len(sp), c2.calls, sp[Len(sp)])
  BY <1>1, <1>4, <1>8, Heard
<1>10. AdapterOK(s2) /\ SpokenOK(a, s2, sp)
  BY <1>1, <1>4 DEF AgentOK, AdapterOK, SpokenOK
<1>11. EndingOK(s2, c2)
  BY <1>1, <1>4, <1>5, <1>7 DEF EndingOK, Got
<1>12. AgentOK(a, s2, c2, sp)
  BY <1>9, <1>10, <1>11 DEF AgentOK
<1>13. Others(spoken, spoken', a) /\ spoken'[a] = sp
  BY <1>2, Same DEF ProviderInv, sp
<1>14. QED BY <1>2, <1>12, <1>13, Moved DEF s2, c2

\* What is owed at the end is the usage, unless it has gone out, and [DONE].
LEMMA EndedKept ==
  ASSUME NEW a \in Agents, NEW s, NEW c, NEW sp, AgentOK(a, s, c, sp),
         s.state \in {"open", "failed"}, NEW stop \in BOOLEAN,
         NEW state \in {"open", "eof"},
         state = "open" => /\ s.state = "open" /\ stop /\ s.start /\ ~s.done
                           /\ s.block = "none"
  PROVE  AgentOK(a, Ended(s, state), After(c, Endings(s, stop)), sp)
<1> DEFINE t == FlushThinkingCache(s)
           s2 == Ended(s, state)
           c2 == After(c, Endings(s, stop))
<1>1. Alike(t, s) /\ AdapterOK(t) /\ (s.block = "none" => t.block = "none")
      /\ AdapterOK(s)
  BY Flushed DEF AgentOK
<1>2. s2 = [t EXCEPT !.usage = TRUE, !.done = TRUE, !.state = state]
  BY DEF Ended
<1> HIDE DEF t, s2
<1>3. /\ s2.usage = TRUE /\ s2.done = TRUE /\ s2.state = state
      /\ s2.start = s.start /\ s2.tokens = s.tokens /\ s2.index = s.index
      /\ s2.block = t.block
  BY <1>1, <1>2 DEF Alike, AdapterOK
<1>4. AdapterOK(s2)
  <2>1. DOMAIN s2 = DOMAIN t /\ s2.ids = t.ids /\ s2.puts = t.puts
        /\ t.index = s2.index
    BY <1>1, <1>2, <1>3 DEF AdapterOK, Alike
  <2>2. QED BY <1>1, <1>3, <2>1 DEF AdapterOK
<1>5. SpokenOK(a, s2, sp)
  BY <1>3 DEF AgentOK, SpokenOK
<1>6. /\ c \in ClientRecords /\ c.late = FALSE
      /\ c.dones = IF s.done THEN 1 ELSE 0
      /\ c.usages = IF s.usage THEN 1 ELSE 0
      /\ (s.done => s.usage) /\ (s.usage => s.start)
      /\ (s.start => s.tokens)
  BY DEF AgentOK, EndingOK
<1>7. /\ s.done \in BOOLEAN /\ s.usage \in BOOLEAN /\ s.tokens \in BOOLEAN
      /\ s.start \in BOOLEAN
  BY <1>1 DEF AdapterOK
<1>8. /\ c2 \in ClientRecords /\ c2.late = FALSE /\ c2.dones = 1
      /\ c2.calls = c.calls /\ c2.usages <= 1
      /\ s.start => c2.usages = 1
  <2>1. CASE s.done
    <3>1. c2 = c
      BY <1>6, <1>7, <2>1, GotNoMore
    <3> HIDE DEF c2
    <3>2. QED BY <1>6, <2>1, <3>1
  <2>2. CASE ~s.done
    <3>1. Fresh(c) /\ s.done = FALSE
      BY <2>2, NotDone
    <3>2. Got(c2, c.calls, IF ~s.usage /\ (stop \/ s.tokens)
                           THEN c.usages + 1 ELSE c.usages, 1)
      BY <1>7, <3>1, GotEndings
    <3> HIDE DEF c2
    <3>3. QED BY <1>6, <1>7, <3>2 DEF Got
  <2>3. QED BY <2>1, <2>2
<1> HIDE DEF c2
<1>9. EndingOK(s2, c2)
  BY <1>3, <1>6, <1>7, <1>8 DEF EndingOK
<1>10. Delivered(a, Len(sp), c2.calls, sp[Len(sp)])
  BY <1>8 DEF AgentOK
<1>11. ASSUME state = "open" PROVE StreamOK(s2, c2, sp[Len(sp)])
  <2>1. s2.block = s.block /\ s2.block = "none"
    BY <1>1, <1>3, <1>11
  <2>2. QED BY <1>3, <1>8, <1>11, <2>1 DEF AgentOK, StreamOK
<1>12. QED BY <1>3, <1>4, <1>5, <1>9, <1>10, <1>11 DEF AgentOK, s2, c2

\* message_stop, or the end of the body.
LEMMA MessageStopKept ==
  ASSUME ProviderInv, NEW a \in Agents, MessageStop(a)
  PROVE  Stepped(a)
<1> DEFINE s == adapter[a]
           c == client[a]
           sp == spoken[a]
<1>1. /\ AgentOK(a, s, c, sp) /\ s.state = "open" /\ s.start /\ ~s.done
      /\ sp[Len(sp)] # <<>> => ~sp[Len(sp)][Len(sp[Len(sp)])].open
  BY DEF ProviderInv, MessageStop, Streaming, NoBlockOpen, Block, Last
<1>2. /\ adapter'[a] = Ended(s, "open")
      /\ client'[a] = After(c, Endings(s, TRUE))
      /\ Others(adapter, adapter', a) /\ Others(client, client', a)
      /\ spoken' = spoken /\ work' = work /\ cache' = cache
  BY DEF MessageStop, Emit, After, ProviderInv, Others
<1>3. Others(spoken, spoken', a) /\ spoken'[a] = sp
  BY <1>2, Same DEF ProviderInv
<1> HIDE DEF s, c, sp
<1>4. s.block = "none"
  BY <1>1 DEF AgentOK, StreamOK
<1>5. AgentOK(a, Ended(s, "open"), After(c, Endings(s, TRUE)), sp)
  BY <1>1, <1>4, EndedKept
<1>6. QED BY <1>2, <1>3, <1>5, Moved

LEMMA EndOfBodyKept ==
  ASSUME ProviderInv, NEW a \in Agents, EndOfBody(a)
  PROVE  Stepped(a)
<1> DEFINE s == adapter[a]
           c == client[a]
           sp == spoken[a]
<1>1. AgentOK(a, s, c, sp) /\ s.state \in {"open", "failed"}
  BY DEF ProviderInv, EndOfBody
<1>2. /\ adapter'[a] = Ended(s, "eof")
      /\ client'[a] = After(c, Endings(s, FALSE))
      /\ Others(adapter, adapter', a) /\ Others(client, client', a)
      /\ spoken' = spoken /\ work' = work /\ cache' = cache
  BY DEF EndOfBody, Emit, After, ProviderInv, Others
<1>3. Others(spoken, spoken', a) /\ spoken'[a] = sp
  BY <1>2, Same DEF ProviderInv
<1> HIDE DEF s, c, sp
<1>4. AgentOK(a, Ended(s, "eof"), After(c, Endings(s, FALSE)), sp)
  BY <1>1, EndedKept
<1>5. QED BY <1>2, <1>3, <1>4, Moved

\* An error is passed on; its [DONE] comes with the end of the body.
LEMMA ErrorKept ==
  ASSUME ProviderInv, NEW a \in Agents, ErrorEvent(a)
  PROVE  Stepped(a)
<1> DEFINE s == adapter[a]
           c == client[a]
           sp == spoken[a]
           s2 == adapter'[a]
           c2 == client'[a]
<1>1. AgentOK(a, s, c, sp) /\ s.state = "open" /\ ~s.done
  BY DEF ProviderInv, ErrorEvent, Streaming
<1>2. /\ s2 = [s EXCEPT !.state = "failed"]
      /\ c2 = After(c, One(Chunk("error")))
      /\ Others(adapter, adapter', a) /\ Others(client, client', a)
      /\ spoken' = spoken /\ work' = work /\ cache' = cache
  BY DEF ErrorEvent, Emit, After, One, ProviderInv, Others
<1>3. Others(spoken, spoken', a) /\ spoken'[a] = sp
  BY <1>2, Same DEF ProviderInv
<1> HIDE DEF s, c, sp, s2, c2
<1>4. /\ DOMAIN s2 = DOMAIN s /\ s2.start = s.start /\ s2.tokens = s.tokens
      /\ s2.state = "failed" /\ s2.usage = s.usage /\ s2.done = s.done
      /\ s2.block = s.block /\ s2.puts = s.puts /\ s2.index = s.index
      /\ s2.ids = s.ids
  BY <1>1, <1>2 DEF AgentOK, AdapterOK
<1>5. Fresh(c) /\ s.done = FALSE /\ c.usages = IF s.usage THEN 1 ELSE 0
  BY <1>1, NotDone
<1>6. Got(c2, c.calls, c.usages, 0)
  BY <1>2, <1>5, TakesOne, GotOther
<1>7. c2.calls = c.calls
  BY <1>6 DEF Got
<1>8. Delivered(a, Len(sp), c2.calls, sp[Len(sp)])
  BY <1>1, <1>7 DEF AgentOK
<1>9. AdapterOK(s2) /\ SpokenOK(a, s2, sp)
  BY <1>1, <1>4 DEF AgentOK, AdapterOK, SpokenOK
<1>10. EndingOK(s2, c2)
  BY <1>1, <1>4, <1>5, <1>6 DEF AgentOK, EndingOK, Got
<1>11. AgentOK(a, s2, c2, sp)
  BY <1>4, <1>8, <1>9, <1>10 DEF AgentOK
<1>12. QED BY <1>2, <1>3, <1>11, Moved DEF s2, c2

\* Close flushes; what the agent has stays as it is.
LEMMA CloseKept ==
  ASSUME ProviderInv, NEW a \in Agents, Close(a)
  PROVE  Stepped(a)
<1> DEFINE s == adapter[a]
           c == client[a]
           sp == spoken[a]
           s2 == adapter'[a]
           t == FlushThinkingCache(s)
<1>1. AgentOK(a, s, c, sp) /\ s.state \in {"open", "failed", "eof"}
  BY DEF ProviderInv, Close
<1>2. /\ s2 = [t EXCEPT !.state = "closed"]
      /\ Others(adapter, adapter', a)
      /\ spoken' = spoken /\ client' = client /\ work' = work
      /\ cache' = cache
  BY DEF Close, ProviderInv, Others
<1>3. /\ Others(spoken, spoken', a) /\ spoken'[a] = sp
      /\ Others(client, client', a) /\ client'[a] = c
  BY <1>2, Same DEF ProviderInv
<1> HIDE DEF s, c, sp, s2, t
<1>4. Alike(t, s) /\ AdapterOK(t) /\ AdapterOK(s)
  BY <1>1, Flushed DEF AgentOK, t
<1>5. /\ DOMAIN s2 = DOMAIN t /\ s2.start = t.start /\ s2.tokens = t.tokens
      /\ s2.state = "closed" /\ s2.usage = t.usage /\ s2.done = t.done
      /\ s2.puts = t.puts /\ s2.index = t.index /\ s2.ids = t.ids
  BY <1>2, <1>4 DEF AdapterOK
<1>6. AdapterOK(s2)
  BY <1>4, <1>5 DEF AdapterOK
<1>7. SpokenOK(a, s2, sp) /\ EndingOK(s2, c)
  BY <1>1, <1>5 DEF AgentOK, SpokenOK, EndingOK
<1>8. Delivered(a, Len(sp), c.calls, sp[Len(sp)])
  BY <1>1 DEF AgentOK
<1>9. AgentOK(a, s2, c, sp)
  BY <1>5, <1>6, <1>7, <1>8 DEF AgentOK
<1>10. QED BY <1>2, <1>3, <1>9, Moved DEF s2

\* One call of a flush.
LEMMA FlushNextKept ==
  ASSUME ProviderInv, NEW a \in Agents, FlushNext(a)
  PROVE  Stepped(a)
<1> DEFINE s == adapter[a]
           c == client[a]
           sp == spoken[a]
           s2 == adapter'[a]
<1>1. AgentOK(a, s, c, sp) /\ s.puts # <<>> /\ CacheOK(cache)
  BY DEF ProviderInv, FlushNext
<1>2. /\ s2 = [s EXCEPT !.puts = Tail(@)]
      /\ Others(adapter, adapter', a)
      /\ cache' = Put(cache, Head(s.puts), s.blocks)
      /\ spoken' = spoken /\ client' = client /\ work' = work
  BY DEF FlushNext, ProviderInv, Others
<1>3. /\ Others(spoken, spoken', a) /\ spoken'[a] = sp
      /\ Others(client, client', a) /\ client'[a] = c
      /\ Others(work, work', a)
      /\ work'[a].kept \subseteq DOMAIN work'[a].msgs
  BY <1>2, Same DEF ProviderInv
<1> HIDE DEF s, c, sp, s2
<1>4. /\ DOMAIN s2 = DOMAIN s /\ s2.start = s.start /\ s2.tokens = s.tokens
      /\ s2.state = s.state /\ s2.usage = s.usage /\ s2.done = s.done
      /\ s2.block = s.block /\ s2.puts = Tail(s.puts)
      /\ s2.index = s.index /\ s2.ids = s.ids
  BY <1>1, <1>2 DEF AgentOK, AdapterOK
<1>5. Head(s.puts) \in Names /\ Tail(s.puts) \in Seq(Names)
  BY <1>1 DEF AgentOK, AdapterOK
<1>6. CacheOK(cache')
  BY <1>1, <1>2, <1>5, PutMatches
<1>7. AdapterOK(s2)
  BY <1>1, <1>4, <1>5 DEF AgentOK, AdapterOK
<1>8. SpokenOK(a, s2, sp) /\ EndingOK(s2, c)
  BY <1>1, <1>4 DEF AgentOK, SpokenOK, EndingOK
<1>9. s2.state = "open" => StreamOK(s2, c, sp[Len(sp)])
  BY <1>1, <1>4 DEF AgentOK, StreamOK
<1>10. AgentOK(a, s2, c, sp)
  BY <1>1, <1>4, <1>7, <1>8, <1>9 DEF AgentOK
<1>11. QED BY <1>2, <1>3, <1>6, <1>10 DEF Stepped, s2, c, sp

\* A new adapter.
LEMMA NewAdapter ==
  ASSUME NEW state \in {"idle", "building", "sent", "open", "failed", "eof",
                        "closed", "unanswered"}
  PROVE  LET s == Adapter(state)
         IN /\ AdapterOK(s) /\ s.state = state /\ s.block = "none"
            /\ s.index = 1 /\ s.start = FALSE /\ s.usage = FALSE
            /\ s.done = FALSE /\ s.tokens = FALSE
<1> DEFINE s == Adapter(state)
<1>1. /\ DOMAIN s = {"state", "start", "block", "index", "tokens", "usage",
                     "done", "thinking", "signature", "blocks", "ids",
                     "flushed", "puts"}
      /\ s.state = state /\ s.block = "none"
      /\ s.index = 1 /\ s.start = FALSE /\ s.usage = FALSE
      /\ s.done = FALSE /\ s.tokens = FALSE
      /\ s.ids = <<>> /\ s.puts = <<>>
  BY DEF Adapter
<1>2. <<>> \in Seq(Names)
  OBVIOUS
<1>3. 1 \in 1 .. MaxBlocks + 1
  BY ProviderAssumption
<1> HIDE DEF s
<1>4. s.ids \in Seq(Names) /\ s.puts \in Seq(Names)
  <2>1. s.ids = <<>> /\ s.puts = <<>>
    BY <1>1
  <2>2. QED BY <1>2, <2>1
<1>5. AdapterOK(s)
  BY <1>1, <1>3, <1>4 DEF AdapterOK
<1>6. QED BY <1>1, <1>5 DEF s

LEMMA NothingYet ==
  /\ Nothing \in ClientRecords /\ Nothing.calls = <<>> /\ Nothing.usages = 0
  /\ Nothing.dones = 0 /\ Nothing.late = FALSE
<1>1. <<>> \in Seq([id : Names, args : Seq(Names)])
  OBVIOUS
<1>2. QED BY <1>1 DEF Nothing, ClientRecords

LEMMA DeliveredNone ==
  ASSUME NEW a, NEW t
  PROVE  Delivered(a, t, <<>>, <<>>)
<1>1. DOMAIN <<>> = {}
  OBVIOUS
<1>2. QED BY <1>1 DEF Delivered

\* The agent goes on: nothing of the answer is left in its adapter.
LEMMA ContinueKept ==
  ASSUME ProviderInv, NEW a \in Agents, NEW keeps, NEW splits, NEW text,
         Continue(a, keeps, splits, text)
  PROVE  Stepped(a)
<1> DEFINE s == adapter[a]
           c == client[a]
           sp == spoken[a]
           s2 == adapter'[a]
<1>1. AgentOK(a, s, c, sp) /\ s.state = "closed"
  <2>1. s.state = "closed"
    BY Zenon DEF Continue
  <2>2. QED BY <2>1 DEF ProviderInv
<1>2. /\ s2 = Adapter("idle") /\ client'[a] = Nothing
      /\ Others(adapter, adapter', a) /\ Others(client, client', a)
      /\ spoken' = spoken /\ work' = work /\ cache' = cache
  <2>1. /\ adapter' = [adapter EXCEPT ![a] = Adapter("idle")]
        /\ client' = [client EXCEPT ![a] = Nothing]
        /\ UNCHANGED <<cache, work, request, spoken>>
    BY Zenon DEF Continue
  <2>2. QED BY <2>1 DEF ProviderInv, Others
<1>3. Others(spoken, spoken', a) /\ spoken'[a] = sp
  BY <1>2, Same DEF ProviderInv
<1> HIDE DEF s, c, sp, s2
<1>4. AdapterOK(s2) /\ s2.state = "idle"
  BY <1>2, NewAdapter
<1>5. SpokenOK(a, s2, sp)
  <2>1. Len(sp) \in 1 .. MaxTurns[a] /\ sp \in Seq(Seq(BlockRecords))
        /\ MaxTurns[a] \in Nat
    BY <1>1, ProviderAssumption DEF AgentOK, SpokenOK
  <2>2. QED BY <1>4, <2>1 DEF SpokenOK
<1>6. EndingOK(s2, Nothing)
  BY <1>4, NothingYet DEF EndingOK
<1>7. AgentOK(a, s2, Nothing, sp)
  BY <1>4, <1>5, <1>6 DEF AgentOK
<1>8. QED BY <1>2, <1>3, <1>7, Moved DEF s2

\* The first pass picks among the messages.
LEMMA Rehydrates ==
  ASSUME NEW msgs
  PROVE  ToRehydrate(msgs) \subseteq DOMAIN msgs
BY DEF ToRehydrate

LEMMA BuildKept ==
  ASSUME ProviderInv, NEW a \in Agents, NEW wanted,
         BuildUpstreamRequest(a, wanted)
  PROVE  Stepped(a)
<1> DEFINE s == adapter[a]
           c == client[a]
           sp == spoken[a]
           s2 == adapter'[a]
<1>1. AgentOK(a, s, c, sp) /\ s.state = "idle" /\ CacheOK(cache)
  BY DEF ProviderInv, BuildUpstreamRequest
<1>2. /\ s2 = [s EXCEPT !.state = "building"]
      /\ Others(adapter, adapter', a)
      /\ spoken' = spoken /\ client' = client /\ cache' = cache
  BY DEF BuildUpstreamRequest, ProviderInv, Others
<1>3. PICK msgs, kept : /\ kept = ToRehydrate(msgs) \/ kept = {}
                        /\ work' = [work EXCEPT ![a] =
                             [wanted |-> wanted, msgs |-> msgs,
                              kept |-> kept]]
  BY DEF BuildUpstreamRequest
<1>4. /\ Others(work, work', a)
      /\ work'[a].kept = kept /\ work'[a].msgs = msgs
  BY <1>3 DEF Others, ProviderInv
<1>5. work'[a].kept \subseteq DOMAIN work'[a].msgs
  BY <1>3, <1>4, Rehydrates
<1>6. /\ Others(spoken, spoken', a) /\ spoken'[a] = sp
      /\ Others(client, client', a) /\ client'[a] = c
  BY <1>2, Same DEF ProviderInv
<1> HIDE DEF s, c, sp, s2
<1>7. /\ DOMAIN s2 = DOMAIN s /\ s2.start = s.start /\ s2.tokens = s.tokens
      /\ s2.state = "building" /\ s2.usage = s.usage /\ s2.done = s.done
      /\ s2.puts = s.puts /\ s2.index = s.index /\ s2.ids = s.ids
  BY <1>1, <1>2 DEF AgentOK, AdapterOK
<1>8. AdapterOK(s2) /\ SpokenOK(a, s2, sp) /\ EndingOK(s2, c)
  BY <1>1, <1>7 DEF AgentOK, AdapterOK, SpokenOK, EndingOK
<1>9. AgentOK(a, s2, c, sp)
  BY <1>7, <1>8 DEF AgentOK
<1>10. QED BY <1>1, <1>2, <1>4, <1>5, <1>6, <1>9 DEF Stepped, s2

\* The answer of the last request never comes.
LEMMA NewTurn ==
  ASSUME ProviderInv, NEW a \in Agents, SendRequest(a)
  PROVE  \E state \in {"unanswered", "open", "sent"} :
           /\ adapter'[a] = Adapter(state)
           /\ state \in {"open", "sent"} => Len(spoken[a]) < MaxTurns[a]
<1> DEFINE sp == spoken[a]
           s2 == adapter'[a]
<1>1. AgentOK(a, adapter[a], client[a], sp) /\ adapter[a].state = "building"
  BY DEF ProviderInv, SendRequest
<1>2. Len(sp) <= MaxTurns[a] /\ Len(sp) \in Nat /\ MaxTurns[a] \in Nat
  BY <1>1, ProviderAssumption DEF AgentOK, SpokenOK
<1>3. Len(sp) = MaxTurns[a] \/ Len(sp) < MaxTurns[a]
  BY <1>2
<1>4. CASE Len(sp) = MaxTurns[a]
  <2>1. s2 = Adapter("unanswered")
    BY <1>2, <1>4 DEF SendRequest, Turn, ProviderInv
  <2>2. QED BY <1>2, <1>4, <2>1
<1>5. CASE Len(sp) < MaxTurns[a] /\ a \in Streamers
  <2>1. s2 = Adapter("open")
    BY <1>2, <1>5 DEF SendRequest, Turn, ProviderInv
  <2>2. QED BY <1>5, <2>1
<1>6. CASE Len(sp) < MaxTurns[a] /\ a \notin Streamers
  <2>1. s2 = Adapter("sent")
    BY <1>2, <1>6 DEF SendRequest, Turn, ProviderInv
  <2>2. QED BY <1>6, <2>1
<1>7. QED BY <1>3, <1>4, <1>5, <1>6

\* The second pass: a turn begins, and nothing is said in it yet.
LEMMA SendKept ==
  ASSUME ProviderInv, NEW a \in Agents, SendRequest(a)
  PROVE  Stepped(a)
<1> DEFINE s == adapter[a]
           c == client[a]
           sp == spoken[a]
           s2 == adapter'[a]
           sp2 == spoken'[a]
<1>1. AgentOK(a, s, c, sp) /\ s.state = "building" /\ CacheOK(cache)
  BY DEF ProviderInv, SendRequest
<1>2. /\ sp2 = Append(sp, <<>>) /\ Others(spoken, spoken', a)
      /\ Others(adapter, adapter', a) /\ Others(work, work', a)
      /\ work'[a] = NoWork /\ client' = client /\ cache' = cache
  BY DEF SendRequest, ProviderInv, Others
<1>3. Others(client, client', a) /\ client'[a] = c
  BY <1>2, Same DEF ProviderInv
<1>4. work'[a].kept \subseteq DOMAIN work'[a].msgs
  BY <1>2 DEF NoWork
<1>5. /\ sp \in Seq(Seq(BlockRecords)) /\ Len(sp) <= MaxTurns[a]
      /\ Len(sp) \in Nat /\ MaxTurns[a] \in Nat
  BY <1>1, ProviderAssumption DEF AgentOK, SpokenOK
<1>6. PICK state \in {"unanswered", "open", "sent"} :
        /\ s2 = Adapter(state)
        /\ state \in {"open", "sent"} => Len(sp) < MaxTurns[a]
  BY NewTurn
<1> HIDE DEF s, c, sp, s2, sp2
<1>7. /\ AdapterOK(s2) /\ s2.state = state /\ s2.block = "none"
      /\ s2.index = 1 /\ s2.start = FALSE /\ s2.usage = FALSE
      /\ s2.done = FALSE /\ s2.tokens = FALSE
  BY <1>6, NewAdapter
<1>8. /\ sp2 \in Seq(Seq(BlockRecords)) /\ Len(sp2) = Len(sp) + 1
      /\ sp2[Len(sp2)] = <<>>
  <2>1. <<>> \in Seq(BlockRecords)
    OBVIOUS
  <2> DEFINE S == Seq(BlockRecords)
             none == <<>>
  <2>2. sp \in Seq(S) /\ none \in S /\ sp2 = Append(sp, none)
    BY <1>2, <1>5, <2>1
  <2> HIDE DEF S, none
  <2>3. sp2 \in Seq(S) /\ Len(sp2) = Len(sp) + 1 /\ sp2[Len(sp) + 1] = none
    BY <2>2, Extended
  <2>4. QED BY <2>3 DEF S, none
<1>9. c = Nothing
  BY <1>1 DEF AgentOK, EndingOK
<1>10. SpokenOK(a, s2, sp2)
  BY <1>5, <1>6, <1>7, <1>8 DEF SpokenOK
<1>11. EndingOK(s2, c)
  BY <1>7, <1>9, NothingYet DEF EndingOK
<1>12. StreamOK(s2, c, <<>>)
  <2>1. Len(<<>>) = 0 /\ Len(c.calls) = 0
    BY <1>9, NothingYet
  <2>2. QED BY <1>7, <2>1, ProviderAssumption DEF StreamOK
<1>13. Delivered(a, Len(sp2), c.calls, <<>>)
  <2>1. c.calls = <<>>
    BY <1>9, NothingYet
  <2>2. QED BY <2>1, DeliveredNone
<1>14. StreamOK(s2, c, sp2[Len(sp2)])
       /\ Delivered(a, Len(sp2), c.calls, sp2[Len(sp2)])
  BY <1>8, <1>12, <1>13
<1>15. AgentOK(a, s2, c, sp2)
  BY <1>7, <1>10, <1>11, <1>14 DEF AgentOK
<1>16. QED BY <1>1, <1>2, <1>3, <1>4, <1>15 DEF Stepped, s2, sp2

\* The places of an answer's calls, their names, and a call with its own
\* arguments.
CallPlaces(b) == {i \in DOMAIN b : b[i].type = "tool_use"}
NamesAt(a, t, places) == [k \in DOMAIN places |-> <<a, t, places[k]>>]
WholeCalls(ids) == [k \in DOMAIN ids |-> [id |-> ids[k], args |-> <<ids[k]>>]]

\* An answer that comes whole: its calls are listed in order.
LEMMA DeliveredWhole ==
  ASSUME NEW a \in Agents, NEW t \in 1 .. MaxTurns[a],
         NEW b \in Seq(BlockRecords), Len(b) \in 0 .. MaxBlocks,
         \A i \in DOMAIN b : b[i].delta = TRUE
  PROVE  /\ NamesAt(a, t, InOrder(CallPlaces(b))) \in Seq(Names)
         /\ WholeCalls(NamesAt(a, t, InOrder(CallPlaces(b))))
              \in Seq([id : Names, args : Seq(Names)])
         /\ Delivered(a, t,
                      WholeCalls(NamesAt(a, t, InOrder(CallPlaces(b)))), b)
<1> DEFINE n == Len(b)
           S == CallPlaces(b)
           s == InOrder(S)
           ids == NamesAt(a, t, s)
           calls == WholeCalls(ids)
<1>0. /\ DOMAIN b = 1 .. n /\ n \in 0 .. MaxBlocks
      /\ \A i \in 1 .. n : b[i].delta = TRUE
      /\ S = {i \in 1 .. n : b[i].type = "tool_use"}
  <2>1. DOMAIN b = 1 .. n
    OBVIOUS
  <2>2. QED BY <2>1 DEF CallPlaces
<1> HIDE DEF n, S, s, ids, calls
<1>1. /\ s \in Seq(S) /\ Len(s) <= n /\ Rising(s)
      /\ \A x \in S : \E i \in DOMAIN s : s[i] = x
      /\ n \in Nat /\ S \subseteq 1 .. n
  <2>1. n \in Nat /\ S \in SUBSET (1 .. n)
    BY <1>0, ProviderAssumption
  <2>2. QED BY <2>1, Ordered DEF s
<1>2. DOMAIN ids = DOMAIN s /\ \A k \in DOMAIN s : ids[k] = <<a, t, s[k]>>
  BY DEF ids, NamesAt
<1>3. /\ DOMAIN calls = DOMAIN s
      /\ \A k \in DOMAIN s : /\ calls[k].id = ids[k]
                             /\ calls[k].args = <<ids[k]>>
                             /\ DOMAIN calls[k] = {"id", "args"}
  BY <1>2 DEF calls, WholeCalls
<1>4. DOMAIN s = 1 .. Len(s) /\ Len(s) \in Nat
  BY <1>1
<1>5. ASSUME NEW k \in DOMAIN s
      PROVE  /\ s[k] \in S /\ s[k] \in 1 .. n /\ s[k] \in 1 .. MaxBlocks
             /\ ids[k] \in Names /\ ids[k][3] = s[k]
  <2>1. s[k] \in S
    BY <1>1, <1>5, ElementOf
  <2>2. s[k] \in 1 .. MaxBlocks
    BY <1>0, <1>1, <2>1, ProviderAssumption
  <2>3. <<a, t, s[k]>> \in Names
    BY <2>2, NameOf
  <2>4. <<a, t, s[k]>>[3] = s[k]
    OBVIOUS
  <2>5. QED BY <1>1, <1>2, <1>5, <2>1, <2>2, <2>3, <2>4
<1>6. ids \in Seq(Names)
  <2>1. ids \in [1 .. Len(s) -> Names]
    <3>1. ids = [k \in 1 .. Len(s) |-> ids[k]]
      BY <1>2, <1>4 DEF ids, NamesAt
    <3>2. \A k \in 1 .. Len(s) : ids[k] \in Names
      BY <1>4, <1>5
    <3>3. QED BY ONLY <3>1, <3>2
  <2>2. QED BY <1>4, <2>1, ListIs
<1>7. calls \in Seq([id : Names, args : Seq(Names)])
  <2> DEFINE R == [id : Names, args : Seq(Names)]
  <2>1. ASSUME NEW k \in DOMAIN s PROVE calls[k] \in R
    <3>1. calls[k] = [id |-> ids[k], args |-> <<ids[k]>>]
      BY <1>2, <2>1 DEF calls, WholeCalls
    <3>2. ids[k] \in Names
      BY <1>5, <2>1
    <3>3. <<ids[k]>> \in Seq(Names)
      BY <3>2
    <3>4. \A x \in Names, y \in Seq(Names) :
            [id |-> x, args |-> y] \in [id : Names, args : Seq(Names)]
      OBVIOUS
    <3>5. [id |-> ids[k], args |-> <<ids[k]>>] \in R
      BY ONLY <3>2, <3>3, <3>4
    <3> HIDE DEF R
    <3>6. QED BY <3>1, <3>5
  <2>2. calls = [k \in 1 .. Len(s) |-> calls[k]]
    BY <1>3, <1>4 DEF calls, WholeCalls
  <2> HIDE DEF R
  <2>3. calls \in [1 .. Len(s) -> R]
    BY <1>4, <2>1, <2>2
  <2>4. calls \in Seq(R)
    BY <1>4, <2>3, ListIs
  <2>5. QED BY <2>4 DEF R
<1>8. ASSUME NEW k \in DOMAIN calls
      PROVE  \E p \in DOMAIN b :
               /\ calls[k].id = <<a, t, p>> /\ b[p].type = "tool_use"
               /\ calls[k].args = IF b[p].delta THEN <<<<a, t, p>>>> ELSE <<>>
  <2> DEFINE q == s[k]
  <2>1. k \in DOMAIN s
    BY <1>3, <1>8
  <2>2. q \in DOMAIN b /\ b[q].type = "tool_use" /\ b[q].delta = TRUE
    BY <1>0, <1>5, <2>1
  <2>3. ids[k] = <<a, t, q>>
    BY <1>2, <2>1
  <2>4. calls[k].id = <<a, t, q>>
    BY <1>3, <2>1, <2>3
  <2>5. calls[k].args = <<<<a, t, q>>>>
    BY <1>3, <2>1, <2>3
  <2>6. calls[k].args = IF b[q].delta THEN <<<<a, t, q>>>> ELSE <<>>
    BY <2>2, <2>5
  <2> HIDE DEF q
  <2>7. QED BY <2>2, <2>4, <2>6
<1>9. ASSUME NEW p \in DOMAIN b, b[p].type = "tool_use"
      PROVE  \E k \in DOMAIN calls : calls[k].id = <<a, t, p>>
  <2>1. p \in S
    BY <1>0, <1>9
  <2>2. PICK k \in DOMAIN s : s[k] = p
    BY <1>1, <2>1
  <2>3. calls[k].id = <<a, t, p>>
    BY <1>2, <1>3, <2>2
  <2>4. QED BY <1>3, <2>2, <2>3
<1>10. ASSUME NEW j \in DOMAIN calls, NEW k \in DOMAIN calls, j < k
       PROVE  calls[j].id[3] < calls[k].id[3]
  <2>1. j \in DOMAIN s /\ k \in DOMAIN s
    BY <1>3, <1>10
  <2>2. s[j] < s[k]
    BY <1>1, <1>10, <2>1 DEF Rising
  <2>3. calls[j].id[3] = s[j] /\ calls[k].id[3] = s[k]
    BY <1>3, <1>5, <2>1
  <2>4. QED BY <2>2, <2>3
<1>11. Delivered(a, t, calls, b)
  BY <1>8, <1>9, <1>10 DEF Delivered
<1>12. QED BY <1>6, <1>7, <1>11 DEF S, s, ids, calls

LEMMA TranslateKept ==
  ASSUME ProviderInv, NEW a \in Agents, NEW types \in Answers[a],
         NEW signed \in BOOLEAN, TranslateResponseBody(a, types, signed)
  PROVE  Stepped(a)
<1> DEFINE s == adapter[a]
           c == client[a]
           sp == spoken[a]
           s2 == adapter'[a]
           c2 == client'[a]
           sp2 == spoken'[a]
           blocks == [i \in DOMAIN types |->
                       [type |-> types[i], delta |-> TRUE, open |-> FALSE,
                        signed |-> signed /\ types[i] = "thinking"]]
           S == {i \in DOMAIN types : types[i] = "tool_use"}
           ids == [k \in DOMAIN InOrder(S) |->
                    <<a, Turn(a), InOrder(S)[k]>>]
           calls == [k \in DOMAIN ids |-> [id |-> ids[k],
                                           args |-> <<ids[k]>>]]
           captured == SignedBlocks(a, Turn(a), blocks)
           n == Len(types)
<1>1. AgentOK(a, s, c, sp) /\ s.state = "sent"
  BY DEF ProviderInv, TranslateResponseBody
<1>2. spoken' = [spoken EXCEPT ![a][Turn(a)] = blocks]
  BY DEF TranslateResponseBody
<1>3. adapter' = [adapter EXCEPT
        ![a].state = "closed", ![a].flushed = TRUE,
        ![a].blocks = captured, ![a].ids = ids,
        ![a].puts = IF captured = <<>> THEN <<>> ELSE ids]
  BY DEF TranslateResponseBody
<1>4. client' = [client EXCEPT
        ![a] = [calls |-> calls, said |-> Said(blocks, "text"),
                reasoned |-> Said(blocks, "thinking"),
                usages |-> 1, dones |-> 1, late |-> FALSE]]
  BY DEF TranslateResponseBody
<1>5. work' = work /\ cache' = cache
  BY DEF TranslateResponseBody
<1>6. types \in [1 .. n -> Kinds] /\ n \in 0 .. MaxBlocks
  <2>1. types \in UNION {[1 .. k -> Kinds] : k \in 0 .. MaxBlocks}
    BY ProviderAssumption
  <2>2. PICK k \in 0 .. MaxBlocks : types \in [1 .. k -> Kinds]
    BY <2>1
  <2>3. k \in Nat
    BY ProviderAssumption
  <2>4. n = k
    BY <2>2, <2>3, ListIs
  <2>5. QED BY <2>2, <2>4
<1>7. DOMAIN types = 1 .. n /\ n \in Nat /\ \A i \in 1 .. n : types[i] \in Kinds
  BY <1>6, ProviderAssumption
<1>8. /\ DOMAIN blocks = 1 .. n
      /\ \A i \in 1 .. n : /\ blocks[i].type = types[i]
                           /\ blocks[i].delta = TRUE
                           /\ blocks[i] \in BlockRecords
  <2>1. DOMAIN blocks = 1 .. n
    BY <1>7
  <2>2. ASSUME NEW i \in 1 .. n
        PROVE  /\ blocks[i].type = types[i] /\ blocks[i].delta = TRUE
               /\ blocks[i] \in BlockRecords
    <3>1. types[i] \in Kinds /\ i \in DOMAIN types
      BY <1>7, <2>2
    <3>2. blocks[i] = [type |-> types[i], delta |-> TRUE, open |-> FALSE,
                       signed |-> signed /\ types[i] = "thinking"]
      BY <3>1
    <3>3. (signed /\ types[i] = "thinking") \in BOOLEAN
      OBVIOUS
    <3>4. QED BY <3>1, <3>2, <3>3 DEF BlockRecords
  <2>3. QED BY <2>1, <2>2
<1>9. blocks \in Seq(BlockRecords)
  <2> DEFINE R == BlockRecords
  <2>1. blocks = [i \in 1 .. n |-> blocks[i]]
    BY <1>8
  <2>2. \A i \in 1 .. n : blocks[i] \in R
    BY <1>8
  <2> HIDE DEF blocks, R, n
  <2>3. blocks \in [1 .. n -> R]
    BY <2>1, <2>2
  <2>4. blocks \in Seq(R)
    BY <1>7, <2>3, ListIs
  <2>5. QED BY <2>4 DEF R
<1>10. S = {i \in 1 .. n : blocks[i].type = "tool_use"}
  BY <1>7, <1>8
<1>11. /\ sp \in Seq(Seq(BlockRecords)) /\ sp # <<>>
       /\ Len(sp) \in 1 .. MaxTurns[a]
  BY <1>1, InStream
<1>12. /\ sp2 = [sp EXCEPT ![Len(sp)] = blocks] /\ Others(spoken, spoken', a)
  <2> HIDE DEF blocks
  <2>1. QED BY <1>2 DEF Turn, Others, ProviderInv
<1>13. /\ sp2 \in Seq(Seq(BlockRecords)) /\ Len(sp2) = Len(sp)
       /\ sp2[Len(sp2)] = blocks
  <2> HIDE DEF blocks, sp, sp2
  <2>1. QED BY <1>9, <1>11, <1>12, SaidLast
<1>14. /\ ids = NamesAt(a, Len(sp), InOrder(S))
       /\ calls = WholeCalls(ids)
  BY DEF Turn, NamesAt, WholeCalls
<1>15. S = CallPlaces(blocks)
  BY <1>8, <1>10 DEF CallPlaces
<1>16. Len(blocks) = n /\ \A i \in DOMAIN blocks : blocks[i].delta = TRUE
  <2> HIDE DEF blocks
  <2>1. QED BY <1>7, <1>8, <1>9
<1>17. /\ ids \in Seq(Names)
       /\ calls \in Seq([id : Names, args : Seq(Names)])
       /\ Delivered(a, Len(sp), calls, blocks)
  <2> HIDE DEF ids, calls, blocks, S, n, sp
  <2>1. Len(blocks) \in 0 .. MaxBlocks
    BY <1>6, <1>16
  <2>2. QED BY <1>9, <1>11, <1>14, <1>15, <1>16, <2>1, DeliveredWhole
<1>18. /\ c2 = [calls |-> calls, said |-> Said(blocks, "text"),
                reasoned |-> Said(blocks, "thinking"),
                usages |-> 1, dones |-> 1, late |-> FALSE]
       /\ Others(client, client', a)
  <2> HIDE DEF calls, blocks
  <2>1. QED BY <1>4 DEF Others, ProviderInv
<1>19. /\ s2 = [s EXCEPT !.state = "closed", !.flushed = TRUE,
                         !.blocks = captured, !.ids = ids,
                         !.puts = IF captured = <<>> THEN <<>> ELSE ids]
       /\ Others(adapter, adapter', a)
  <2> HIDE DEF captured, ids
  <2>1. QED BY <1>3 DEF Others, ProviderInv
<1>20. Said(blocks, "text") \in BOOLEAN /\ Said(blocks, "thinking") \in BOOLEAN
  BY DEF Said
<1> HIDE DEF s, c, sp, s2, c2, sp2, blocks, ids, calls, captured, S, n
<1>21. /\ c2 \in ClientRecords /\ c2.late = FALSE /\ c2.dones = 1
       /\ c2.usages = 1 /\ c2.calls = calls
  BY <1>17, <1>18, <1>20 DEF ClientRecords
<1>22. /\ DOMAIN s2 = DOMAIN s /\ s2.start = s.start /\ s2.tokens = s.tokens
       /\ s2.state = "closed" /\ s2.usage = s.usage /\ s2.done = s.done
       /\ s2.puts = (IF captured = <<>> THEN <<>> ELSE ids)
       /\ s2.index = s.index /\ s2.ids = ids
  BY <1>1, <1>19 DEF AgentOK, AdapterOK
<1>23. s2.puts \in Seq(Names)
  <2>1. <<>> \in Seq(Names)
    OBVIOUS
  <2>2. QED BY <1>17, <1>22, <2>1
<1>24. AdapterOK(s2)
  BY <1>1, <1>17, <1>22, <1>23 DEF AgentOK, AdapterOK
<1>25. SpokenOK(a, s2, sp2)
  BY <1>1, <1>11, <1>13, <1>22 DEF AgentOK, SpokenOK
<1>26. EndingOK(s2, c2)
  BY <1>21, <1>22 DEF EndingOK
<1>27. AgentOK(a, s2, c2, sp2)
  BY <1>13, <1>17, <1>21, <1>22, <1>24, <1>25, <1>26 DEF AgentOK
<1>28. QED BY <1>5, <1>12, <1>18, <1>19, <1>27, Moved DEF s2, c2, sp2

\* Before the first request nothing has been said.
LEMMA InitOK == Init => ProviderInv
<1> SUFFICES ASSUME Init PROVE ProviderInv
  OBVIOUS
<1>1. CacheOK(cache)
  BY EmptyMatches DEF Init
<1>2. /\ DOMAIN adapter = Agents /\ DOMAIN client = Agents
      /\ DOMAIN spoken = Agents /\ DOMAIN work = Agents
  BY DEF Init
<1>3. ASSUME NEW a \in Agents
      PROVE  /\ AgentOK(a, adapter[a], client[a], spoken[a])
             /\ work[a].kept \subseteq DOMAIN work[a].msgs
  <2> DEFINE s == adapter[a]
             none == <<>>
  <2>1. s = Adapter("idle") /\ client[a] = Nothing /\ spoken[a] = none
        /\ work[a] = NoWork
    BY DEF Init
  <2> HIDE DEF s
  <2>2. AdapterOK(s) /\ s.state = "idle"
    BY <2>1, NewAdapter
  <2>3. none \in Seq(Seq(BlockRecords)) /\ Len(none) = 0
    OBVIOUS
  <2>4. MaxTurns[a] \in Nat
    BY ProviderAssumption
  <2> HIDE DEF none
  <2>5. SpokenOK(a, s, none)
    BY <2>2, <2>3, <2>4 DEF SpokenOK
  <2>6. EndingOK(s, Nothing)
    BY <2>2, NothingYet DEF EndingOK
  <2>7. AgentOK(a, s, Nothing, none)
    BY <2>2, <2>5, <2>6 DEF AgentOK
  <2>8. work[a].kept \subseteq DOMAIN work[a].msgs
    BY <2>1 DEF NoWork
  <2>9. QED BY <2>1, <2>7, <2>8 DEF s
<1>4. QED BY <1>1, <1>2, <1>3 DEF ProviderInv

LEMMA NextKept == ProviderInv /\ [Next]_vars => ProviderInv'
<1> SUFFICES ASSUME ProviderInv, [Next]_vars PROVE ProviderInv'
  OBVIOUS
<1>1. CASE UNCHANGED vars
  BY <1>1 DEF vars, ProviderInv
<1>2. CASE Next
  <2>1. PICK a \in Agents : Stream(a) \/ Converse(a)
    BY <1>2 DEF Next
  <2>2. CASE Stream(a)
    <3>1. CASE MessageStart(a)
      BY <3>1, StartKept, Stays
    <3>2. CASE BlockDelta(a)
      BY <3>2, DeltaKept, Stays
    <3>3. CASE SignatureDelta(a)
      BY <3>3, SignatureKept, Stays
    <3>4. CASE BlockStop(a)
      BY <3>4, BlockStopKept, Stays
    <3>5. CASE MessageDelta(a)
      BY <3>5, MessageDeltaKept, Stays
    <3>6. CASE MessageStop(a)
      BY <3>6, MessageStopKept, Stays
    <3>7. CASE ErrorEvent(a)
      BY <3>7, ErrorKept, Stays
    <3>8. CASE EndOfBody(a)
      BY <3>8, EndOfBodyKept, Stays
    <3>9. CASE Close(a)
      BY <3>9, CloseKept, Stays
    <3>10. CASE FlushNext(a)
      BY <3>10, FlushNextKept, Stays
    <3>11. ASSUME NEW type \in Kinds, BlockStart(a, type) PROVE ProviderInv'
      BY <3>11, BlockStartKept, Stays
    <3>12. QED BY <2>2, <3>1, <3>2, <3>3, <3>4, <3>5, <3>6, <3>7, <3>8, <3>9,
                  <3>10, <3>11 DEF Stream
  <2>3. CASE Converse(a)
    <3>1. ASSUME NEW wanted \in Settings[a], BuildUpstreamRequest(a, wanted)
          PROVE  ProviderInv'
      BY <3>1, BuildKept, Stays
    <3>2. CASE SendRequest(a)
      BY <3>2, SendKept, Stays
    <3>3. ASSUME NEW types \in Answers[a], NEW signed \in BOOLEAN,
                 TranslateResponseBody(a, types, signed)
          PROVE  ProviderInv'
      BY <3>3, TranslateKept, Stays
    <3>4. ASSUME NEW habit \in Habits[a], NEW text \in BOOLEAN,
                 Continue(a, habit[1], habit[2], text)
          PROVE  ProviderInv'
      BY <3>4, ContinueKept, Stays
    <3>5. QED BY <2>3, <3>1, <3>2, <3>3, <3>4 DEF Converse
  <2>4. QED BY <2>1, <2>2, <2>3
<1>3. QED BY <1>1, <1>2

----------------------------------------------------------------------------
\* What the invariant says of the ring.
LEMMA RingKept == ProviderInv => CacheMatchesRing
<1> SUFFICES ASSUME ProviderInv PROVE CacheMatchesRing
  OBVIOUS
<1>1. RingMatches(cache) /\ cache.count \in 0 .. MaxCached
      /\ cache.head \in Slots
      /\ cache.order \in [Slots -> Names \cup {NoCall}]
  BY DEF ProviderInv, CacheOK
<1>2. ASSUME NEW a \in Agents
      PROVE  /\ adapter[a].state \in {"idle", "building", "sent", "open",
                                      "failed", "eof", "closed",
                                      "unanswered"}
             /\ adapter[a].index \in 1 .. MaxBlocks + 1
             /\ Turn(a) \in 0 .. MaxTurns[a] + 1
             /\ work[a].kept \subseteq DOMAIN work[a].msgs
  <2>1. AgentOK(a, adapter[a], client[a], spoken[a])
        /\ work[a].kept \subseteq DOMAIN work[a].msgs
    BY DEF ProviderInv
  <2>2. Len(spoken[a]) \in Nat /\ Len(spoken[a]) <= MaxTurns[a] + 1
        /\ MaxTurns[a] \in Nat
    BY <2>1, ProviderAssumption DEF AgentOK, SpokenOK
  <2>3. QED BY <2>1, <2>2 DEF AgentOK, AdapterOK, Turn
<1>3. TypeOK
  BY <1>1, <1>2 DEF TypeOK
<1>4. QED BY <1>1, <1>3 DEF CacheMatchesRing

\* And of the calls.
LEMMA CallsKept == ProviderInv => CallsDelivered
<1> SUFFICES ASSUME ProviderInv PROVE CallsDelivered
  OBVIOUS
<1>1. ASSUME NEW a \in Agents
      PROVE  AgentOK(a, adapter[a], client[a], spoken[a])
  BY DEF ProviderInv
<1>2. OneEnding
  BY <1>1 DEF OneEnding, AgentOK, EndingOK
<1>3. ASSUME NEW a \in Agents, InAnswer(a)
      PROVE  LET blocks == Last(spoken[a])
                 calls == client[a].calls
                 place(k) == calls[k].id[3]
                 name(i) == <<a, Turn(a), i>>
             IN /\ {calls[k].id : k \in DOMAIN calls} =
                     {name(i) : i \in {j \in DOMAIN blocks :
                                        blocks[j].type = "tool_use"}}
                /\ \A j, k \in DOMAIN calls : j < k => place(j) < place(k)
                /\ \A k \in DOMAIN calls :
                     calls[k].args = IF blocks[place(k)].delta
                                     THEN <<calls[k].id>> ELSE <<>>
  <2> DEFINE b == Last(spoken[a])
             calls == client[a].calls
             t == Turn(a)
  <2>1. Delivered(a, t, calls, b)
    BY <1>1, <1>3 DEF AgentOK, InAnswer, Last, Turn
  <2> HIDE DEF b, calls, t
  <2>2. ASSUME NEW k \in DOMAIN calls
        PROVE  /\ calls[k].id[3] \in DOMAIN b
               /\ calls[k].id = <<a, t, calls[k].id[3]>>
               /\ b[calls[k].id[3]].type = "tool_use"
               /\ calls[k].args = IF b[calls[k].id[3]].delta
                                  THEN <<calls[k].id>> ELSE <<>>
    BY <2>1, PlaceOf
  <2>3. \A p \in DOMAIN b : b[p].type = "tool_use" =>
          \E k \in DOMAIN calls : calls[k].id = <<a, t, p>>
    BY <2>1 DEF Delivered
  <2>4. \A j, k \in DOMAIN calls : j < k => calls[j].id[3] < calls[k].id[3]
    BY <2>1 DEF Delivered
  <2>5. {calls[k].id : k \in DOMAIN calls} =
          {<<a, t, i>> : i \in {j \in DOMAIN b : b[j].type = "tool_use"}}
    <3> DEFINE here == {calls[k].id : k \in DOMAIN calls}
               places == {j \in DOMAIN b : b[j].type = "tool_use"}
               there == {<<a, t, i>> : i \in places}
    <3>1. ASSUME NEW x \in here PROVE x \in there
      <4>1. PICK k \in DOMAIN calls : x = calls[k].id
        BY <3>1
      <4>2. calls[k].id[3] \in places /\ x = <<a, t, calls[k].id[3]>>
        BY <2>2, <4>1
      <4>3. QED BY <4>2
    <3>2. ASSUME NEW x \in there PROVE x \in here
      <4>1. PICK p \in places : x = <<a, t, p>>
        BY <3>2
      <4>2. PICK k \in DOMAIN calls : calls[k].id = <<a, t, p>>
        BY <2>3, <4>1
      <4>3. x = calls[k].id
        BY <4>1, <4>2
      <4>4. QED BY <4>3
    <3> HIDE DEF here, there
    <3>3. here = there
      BY <3>1, <3>2
    <3>4. QED BY <3>3 DEF here, there
  <2>6. QED BY <2>2, <2>4, <2>5 DEF b, calls, t
<1>4. QED BY <1>2, <1>3 DEF CallsDelivered

----------------------------------------------------------------------------
(* Blocks and messages. *)

\* What the cache holds, and the blocks of a request.
Thoughts == [type : Thinking, name : Names \cup (Seq(Names) \X Seq(Names))]
Blocks ==
  Thoughts \cup [type : {"text"}, name : {<<>>}]
           \cup [type : {"tool_use", "tool_result"}, name : Names]

\* The names of the blocks of a type.
Holds(b, type) == {b[j].name : j \in {k \in DOMAIN b : b[k].type = type}}

Cat(x, y) == x \o y

LEMMA Joined ==
  ASSUME NEW T, NEW x \in Seq(T), NEW y \in Seq(T)
  PROVE  /\ Cat(x, y) \in Seq(T) /\ Len(Cat(x, y)) = Len(x) + Len(y)
         /\ \A k \in DOMAIN x : k \in DOMAIN Cat(x, y) /\ Cat(x, y)[k] = x[k]
         /\ \A k \in DOMAIN y : /\ Len(x) + k \in DOMAIN Cat(x, y)
                                /\ Cat(x, y)[Len(x) + k] = y[k]
         /\ \A k \in DOMAIN Cat(x, y) :
              k \in DOMAIN x \/ k - Len(x) \in DOMAIN y
<1>1. x \o y \in Seq(T) /\ Len(x \o y) = Len(x) + Len(y)
  OBVIOUS
<1>2. DOMAIN x = 1 .. Len(x) /\ DOMAIN y = 1 .. Len(y)
      /\ DOMAIN (x \o y) = 1 .. Len(x) + Len(y)
      /\ Len(x) \in Nat /\ Len(y) \in Nat
  BY <1>1
<1>3. \A k \in DOMAIN x : k \in DOMAIN (x \o y) /\ (x \o y)[k] = x[k]
  BY <1>2
<1>4. \A k \in DOMAIN y : /\ Len(x) + k \in DOMAIN (x \o y)
                          /\ (x \o y)[Len(x) + k] = y[k]
  BY <1>2
<1>5. \A k \in DOMAIN (x \o y) : k \in DOMAIN x \/ k - Len(x) \in DOMAIN y
  BY <1>2
<1>6. QED BY <1>1, <1>3, <1>4, <1>5 DEF Cat

\* What a joined message holds.
LEMMA HoldsBoth ==
  ASSUME NEW T, NEW x \in Seq(T), NEW y \in Seq(T), NEW type
  PROVE  Holds(Cat(x, y), type) = Holds(x, type) \cup Holds(y, type)
<1> DEFINE z == Cat(x, y)
<1>1. /\ z \in Seq(T) /\ Len(z) = Len(x) + Len(y)
      /\ \A k \in DOMAIN x : k \in DOMAIN z /\ z[k] = x[k]
      /\ \A k \in DOMAIN y : /\ Len(x) + k \in DOMAIN z
                             /\ z[Len(x) + k] = y[k]
      /\ \A k \in DOMAIN z : k \in DOMAIN x \/ k - Len(x) \in DOMAIN y
  BY Joined
<1>7. Len(x) \in Nat /\ DOMAIN z = 1 .. Len(z) /\ Len(z) \in Nat
  <2> HIDE DEF z
  <2>1. QED BY <1>1
<1> HIDE DEF z
<1>2. \A k \in DOMAIN z : Len(x) + (k - Len(x)) = k
  BY <1>7
<1>3. ASSUME NEW v \in Holds(z, type)
      PROVE  v \in Holds(x, type) \cup Holds(y, type)
  <2>1. PICK k \in DOMAIN z : z[k].type = type /\ z[k].name = v
    BY <1>3 DEF Holds
  <2>2. CASE k \in DOMAIN x
    BY <1>1, <2>1, <2>2 DEF Holds
  <2>3. CASE k - Len(x) \in DOMAIN y
    <3>1. z[k] = y[k - Len(x)]
      BY <1>1, <1>2, <2>1, <2>3
    <3>2. QED BY <2>1, <2>3, <3>1 DEF Holds
  <2>4. QED BY <1>1, <2>1, <2>2, <2>3
<1>4. ASSUME NEW v \in Holds(x, type) PROVE v \in Holds(z, type)
  <2>1. PICK k \in DOMAIN x : x[k].type = type /\ x[k].name = v
    BY <1>4 DEF Holds
  <2>2. QED BY <1>1, <2>1 DEF Holds
<1>5. ASSUME NEW v \in Holds(y, type) PROVE v \in Holds(z, type)
  <2>1. PICK k \in DOMAIN y : y[k].type = type /\ y[k].name = v
    BY <1>5 DEF Holds
  <2>2. QED BY <1>1, <2>1 DEF Holds
<1>6. QED BY <1>3, <1>4, <1>5 DEF z

\* What is picked of a sequence.
LEMMA PickedIs ==
  ASSUME NEW T, NEW s \in Seq(T), NEW S \in SUBSET (DOMAIN s)
  PROVE  /\ Picked(s, S) \in Seq(T)
         /\ Len(Picked(s, S)) = Len(InOrder(S)) /\ InOrder(S) \in Seq(S)
         /\ \A k \in DOMAIN Picked(s, S) :
              InOrder(S)[k] \in S /\ Picked(s, S)[k] = s[InOrder(S)[k]]
         /\ \A x \in S : \E k \in DOMAIN Picked(s, S) :
              InOrder(S)[k] = x /\ Picked(s, S)[k] = s[x]
<1> DEFINE at == InOrder(S)
           p == Picked(s, S)
<1>1. Len(s) \in Nat /\ S \in SUBSET (1 .. Len(s))
  OBVIOUS
<1>2. at \in Seq(S) /\ \A x \in S : \E i \in DOMAIN at : at[i] = x
  BY <1>1, Ordered
<1>3. p = [k \in DOMAIN at |-> s[at[k]]]
  BY DEF Picked
<1> HIDE DEF at, p
<1>4. \A k \in DOMAIN at : at[k] \in S /\ at[k] \in DOMAIN s /\ s[at[k]] \in T
  BY <1>2
<1>5. Len(at) \in Nat /\ DOMAIN at = 1 .. Len(at)
  BY <1>2
<1>6. p \in [1 .. Len(at) -> T]
  BY <1>3, <1>4, <1>5
<1>7. p \in Seq(T) /\ Len(p) = Len(at) /\ DOMAIN p = DOMAIN at
  BY <1>5, <1>6, ListIs
<1>8. \A k \in DOMAIN p : p[k] = s[at[k]]
  BY <1>3, <1>7
<1>9. QED BY <1>2, <1>4, <1>7, <1>8 DEF at, p

\* Only thinking is stripped from a message that is merged.
LEMMA StripHolds ==
  ASSUME NEW T, NEW e, NEW x \in Seq(T)
  PROVE  /\ StripDuplicateThinking(e, x) \in Seq(T)
         /\ \A type : /\ Holds(StripDuplicateThinking(e, x), type)
                           \subseteq Holds(x, type)
                      /\ type \notin Thinking =>
                           Holds(StripDuplicateThinking(e, x), type)
                             = Holds(x, type)
<1> DEFINE S == {k \in DOMAIN x : \/ x[k].type \notin Thinking
                                  \/ \A i \in DOMAIN e : e[i] # x[k]}
           p == Picked(x, S)
<1>1. p = StripDuplicateThinking(e, x)
  BY DEF StripDuplicateThinking
<1>2. S \in SUBSET (DOMAIN x)
  OBVIOUS
<1>3. \A k \in DOMAIN x : x[k].type \notin Thinking => k \in S
  OBVIOUS
<1> HIDE DEF S
<1>4. /\ p \in Seq(T)
      /\ \A k \in DOMAIN p : InOrder(S)[k] \in S /\ p[k] = x[InOrder(S)[k]]
      /\ \A j \in S : \E k \in DOMAIN p : p[k] = x[j]
  BY <1>2, PickedIs
<1> HIDE DEF p
<1>5. ASSUME NEW type, NEW v \in Holds(p, type) PROVE v \in Holds(x, type)
  <2>1. PICK k \in DOMAIN p : p[k].type = type /\ p[k].name = v
    BY <1>5 DEF Holds
  <2>2. PICK j \in DOMAIN x : p[k] = x[j]
    BY <1>2, <1>4, <2>1
  <2>3. QED BY <2>1, <2>2 DEF Holds
<1>6. ASSUME NEW type, type \notin Thinking, NEW v \in Holds(x, type)
      PROVE  v \in Holds(p, type)
  <2>1. PICK j \in DOMAIN x : x[j].type = type /\ x[j].name = v
    BY <1>6 DEF Holds
  <2>2. j \in S
    BY <1>3, <1>6, <2>1
  <2>3. PICK k \in DOMAIN p : p[k] = x[j]
    BY <1>4, <2>2
  <2>4. p[k].type = type /\ p[k].name = v
    BY <2>1, <2>3
  <2>5. QED BY <2>3, <2>4 DEF Holds
<1>7. \A type : Holds(p, type) \subseteq Holds(x, type)
  <2>1. ASSUME NEW type PROVE Holds(p, type) \subseteq Holds(x, type)
    BY <1>5
  <2>2. QED BY <2>1
<1>8. \A type : type \notin Thinking => Holds(p, type) = Holds(x, type)
  <2>1. ASSUME NEW type, type \notin Thinking
        PROVE  Holds(p, type) = Holds(x, type)
    <3>1. Holds(p, type) \subseteq Holds(x, type)
      BY <1>7
    <3>2. \A v \in Holds(x, type) : v \in Holds(p, type)
      BY <1>6, <2>1
    <3>3. QED BY <3>1, <3>2
  <2>2. QED BY <2>1
<1>9. QED BY <1>1, <1>4, <1>7, <1>8

LEMMA ThoughtIs ==
  ASSUME NEW b \in Thoughts
  PROVE  b \in Blocks /\ b.type \in Thinking
BY DEF Thoughts, Blocks

\* Thoughts are no text, calls or results.
LEMMA ThoughtsHold ==
  ASSUME NEW s \in Seq(Thoughts)
  PROVE  /\ s \in Seq(Blocks)
         /\ \A type : type \notin Thinking => Holds(s, type) = {}
<1>1. \A k \in DOMAIN s : s[k] \in Thoughts
  BY ElementOf
<1>2. \A k \in DOMAIN s : s[k] \in Blocks /\ s[k].type \in Thinking
  BY <1>1, ThoughtIs
<1>3. s \in Seq(Blocks)
  <2>1. Thoughts \subseteq Blocks
    BY DEF Blocks
  <2>2. QED BY <2>1
<1>4. ASSUME NEW type, type \notin Thinking PROVE Holds(s, type) = {}
  BY <1>2, <1>4 DEF Holds
<1>5. QED BY <1>3, <1>4

Messages ==
  [role : {"system", "user", "assistant", "tool"}, text : BOOLEAN,
   reasons : BOOLEAN, calls : Seq(Names), result : Names \cup {<<>>}]

Called(m) == {m.calls[k] : k \in DOMAIN m.calls}

TextOf(m) == IF m.text THEN <<[type |-> "text", name |-> <<>>]>> ELSE <<>>
UsesOf(m) ==
  [i \in DOMAIN m.calls |-> [type |-> "tool_use", name |-> m.calls[i]]]

LEMMA TextHolds ==
  ASSUME NEW m \in Messages
  PROVE  /\ TextOf(m) \in Seq(Blocks)
         /\ Len(TextOf(m)) = IF m.text THEN 1 ELSE 0
         /\ \A type : type # "text" => Holds(TextOf(m), type) = {}
<1> DEFINE t == [type |-> "text", name |-> <<>>]
<1>1. t \in Blocks /\ t.type = "text"
  BY DEF Blocks
<1> HIDE DEF t
<1>2. <<t>> \in Seq(Blocks) /\ Len(<<t>>) = 1 /\ DOMAIN <<t>> = {1}
      /\ <<t>>[1] = t
  BY <1>1
<1>3. <<>> \in Seq(Blocks) /\ Len(<<>>) = 0 /\ DOMAIN <<>> = {}
  OBVIOUS
<1>4. m.text \in BOOLEAN
  BY DEF Messages
<1>5. CASE m.text
  <2>1. TextOf(m) = <<t>>
    BY <1>5 DEF TextOf, t
  <2>2. ASSUME NEW type, type # "text" PROVE Holds(<<t>>, type) = {}
    <3> DEFINE s == <<t>>
    <3>1. DOMAIN s = {1} /\ s[1].type = "text"
      BY <1>1, <1>2
    <3> HIDE DEF s
    <3>2. Holds(s, type) = {}
      BY <2>2, <3>1 DEF Holds
    <3>3. QED BY <3>2 DEF s
  <2> DEFINE s == <<t>>
  <2>3. /\ s \in Seq(Blocks) /\ Len(s) = 1 /\ TextOf(m) = s
        /\ \A type : type # "text" => Holds(s, type) = {}
    BY <1>2, <2>1, <2>2
  <2> HIDE DEF s
  <2>4. QED BY <1>5, <2>3
<1>6. CASE ~m.text
  <2> DEFINE s == <<>>
  <2>1. TextOf(m) = s
    BY <1>6 DEF TextOf
  <2>2. s \in Seq(Blocks) /\ Len(s) = 0 /\ DOMAIN s = {}
    BY <1>3
  <2> HIDE DEF s
  <2>3. \A type : Holds(s, type) = {}
    <3>1. ASSUME NEW type PROVE Holds(s, type) = {}
      BY <2>2 DEF Holds
    <3>2. QED BY <3>1
  <2>4. QED BY <1>6, <2>1, <2>2, <2>3
<1>7. QED BY <1>4, <1>5, <1>6

LEMMA UsesHold ==
  ASSUME NEW m \in Messages
  PROVE  /\ UsesOf(m) \in Seq(Blocks) /\ Len(UsesOf(m)) = Len(m.calls)
         /\ Holds(UsesOf(m), "tool_use") = Called(m)
         /\ \A type : type # "tool_use" => Holds(UsesOf(m), type) = {}
<1> DEFINE s == UsesOf(m)
           use(i) == [type |-> "tool_use", name |-> m.calls[i]]
<1>1. m.calls \in Seq(Names)
  BY DEF Messages
<1>2. /\ DOMAIN m.calls = 1 .. Len(m.calls) /\ Len(m.calls) \in Nat
      /\ \A i \in DOMAIN m.calls : m.calls[i] \in Names
  BY <1>1
<1>3. \A i \in DOMAIN m.calls :
        use(i) \in Blocks /\ use(i).type = "tool_use"
        /\ use(i).name = m.calls[i]
  BY <1>2 DEF Blocks
<1>4. s = [i \in DOMAIN m.calls |-> use(i)]
  BY DEF UsesOf
<1> HIDE DEF s, use
<1>5. s \in [1 .. Len(m.calls) -> Blocks]
  BY <1>2, <1>3, <1>4
<1>6. s \in Seq(Blocks) /\ Len(s) = Len(m.calls) /\ DOMAIN s = DOMAIN m.calls
  BY <1>2, <1>5, ListIs
<1>7. \A i \in DOMAIN s : s[i].type = "tool_use" /\ s[i].name = m.calls[i]
  BY <1>3, <1>4, <1>6
<1>8. Holds(s, "tool_use") = Called(m)
  BY <1>6, <1>7 DEF Holds, Called
<1>9. \A type : type # "tool_use" => Holds(s, type) = {}
  <2>1. ASSUME NEW type, type # "tool_use" PROVE Holds(s, type) = {}
    BY <1>7, <2>1 DEF Holds
  <2>2. QED BY <2>1
<1>10. QED BY <1>6, <1>8, <1>9 DEF s

ResultsOf(m) == IF m.role = "tool" THEN {m.result} ELSE {}
CallsIn(m) == IF m.role = "tool" THEN {} ELSE Called(m)

\* What a message of the agent is translated into.
LEMMA ContentHolds ==
  ASSUME NEW m \in Messages, NEW thinking \in Seq(Thoughts),
         m.role = "tool" => m.result \in Names
  PROVE  LET b == Content(m, thinking)
         IN /\ b \in Seq(Blocks)
            /\ Holds(b, "tool_use") = CallsIn(m)
            /\ Holds(b, "tool_result") = ResultsOf(m)
            /\ thinking = <<>> => \A t \in Thinking : Holds(b, t) = {}
            /\ m.role = "tool" \/ m.text \/ CallsIn(m) # {} => b # <<>>
<1> DEFINE b == Content(m, thinking)
           text == TextOf(m)
           uses == UsesOf(m)
           front == Cat(thinking, text)
<1>1. CASE m.role = "tool"
  <2> DEFINE r == [type |-> "tool_result", name |-> m.result]
             s == <<r>>
  <2>1. b = s
    BY <1>1 DEF Content
  <2>2. r \in Blocks /\ r.type = "tool_result" /\ r.name = m.result
    BY <1>1 DEF Blocks
  <2> HIDE DEF r, b
  <2>3. s \in Seq(Blocks) /\ DOMAIN s = {1} /\ s[1] = r /\ s # <<>>
    BY <2>2
  <2> HIDE DEF s
  <2>4. Holds(s, "tool_result") = {m.result}
    BY <2>2, <2>3 DEF Holds
  <2>5. \A t : t # "tool_result" => Holds(s, t) = {}
    <3>1. ASSUME NEW t, t # "tool_result" PROVE Holds(s, t) = {}
      BY <2>2, <2>3, <3>1 DEF Holds
    <3>2. QED BY <3>1
  <2>6. Holds(s, "tool_use") = {} /\ \A t \in Thinking : Holds(s, t) = {}
    BY <2>5 DEF Thinking
  <2>7. QED BY <1>1, <2>1, <2>3, <2>4, <2>6 DEF ResultsOf, CallsIn, b
<1>2. CASE m.role # "tool"
  <2>1. b = Cat(Cat(thinking, text), uses)
    BY <1>2 DEF Content, Cat, TextOf, UsesOf
  <2>2. /\ thinking \in Seq(Blocks)
        /\ \A t : t \notin Thinking => Holds(thinking, t) = {}
    BY ThoughtsHold
  <2>3. /\ text \in Seq(Blocks) /\ Len(text) = (IF m.text THEN 1 ELSE 0)
        /\ \A t : t # "text" => Holds(text, t) = {}
    BY TextHolds
  <2>4. /\ uses \in Seq(Blocks) /\ Len(uses) = Len(m.calls)
        /\ Holds(uses, "tool_use") = Called(m)
        /\ \A t : t # "tool_use" => Holds(uses, t) = {}
    BY UsesHold
  <2> HIDE DEF b, text, uses
  <2>5. front \in Seq(Blocks) /\ Len(front) = Len(thinking) + Len(text)
    BY <2>2, <2>3, Joined
  <2>6. b \in Seq(Blocks) /\ Len(b) = Len(front) + Len(uses)
    <3> HIDE DEF front
    <3>1. b = Cat(front, uses)
      BY <2>1 DEF front
    <3>2. /\ Cat(front, uses) \in Seq(Blocks)
          /\ Len(Cat(front, uses)) = Len(front) + Len(uses)
      <4>1. front \in Seq(Blocks) /\ uses \in Seq(Blocks)
        BY <2>4, <2>5
      <4>2. QED BY <4>1, Joined
    <3>3. QED BY <3>1, <3>2
  <2>7. \A t : Holds(b, t) =
                 (Holds(thinking, t) \cup Holds(text, t)) \cup Holds(uses, t)
    <3>1. ASSUME NEW t
          PROVE  Holds(b, t) = (Holds(thinking, t) \cup Holds(text, t))
                                 \cup Holds(uses, t)
      <4>1. Holds(front, t) = Holds(thinking, t) \cup Holds(text, t)
        BY <2>2, <2>3, HoldsBoth
      <4> HIDE DEF front
      <4>2. Holds(Cat(front, uses), t) = Holds(front, t) \cup Holds(uses, t)
        BY <2>4, <2>5, HoldsBoth
      <4>3. b = Cat(front, uses)
        BY <2>1 DEF front
      <4>4. QED BY <4>1, <4>2, <4>3
    <3>2. QED BY <3>1
  <2>8. Holds(b, "tool_use") = Called(m) /\ Holds(b, "tool_result") = {}
    <3>1. /\ Holds(thinking, "tool_use") = {}
          /\ Holds(thinking, "tool_result") = {}
      BY <2>2 DEF Thinking
    <3>2. /\ Holds(text, "tool_use") = {} /\ Holds(text, "tool_result") = {}
          /\ Holds(uses, "tool_result") = {}
      BY <2>3, <2>4
    <3>3. QED BY <2>4, <2>7, <3>1, <3>2
  <2>9. ASSUME thinking = <<>>, NEW t \in Thinking PROVE Holds(b, t) = {}
    <3>1. t # "text" /\ t # "tool_use"
      BY DEF Thinking
    <3>2. Holds(text, t) = {} /\ Holds(uses, t) = {}
      BY <2>3, <2>4, <3>1
    <3>3. Holds(thinking, t) = {}
      <4>1. DOMAIN thinking = {}
        BY <2>9
      <4>2. QED BY <4>1 DEF Holds
    <3>4. QED BY <2>7, <3>2, <3>3
  <2>10. ASSUME m.text \/ Called(m) # {} PROVE b # <<>>
    <3>1. m.calls \in Seq(Names) /\ m.text \in BOOLEAN
      BY DEF Messages
    <3>2. Called(m) # {} => Len(m.calls) > 0
      BY <3>1 DEF Called
    <3>3. Len(b) > 0
      <4>1. Len(thinking) \in Nat /\ Len(text) \in Nat /\ Len(uses) \in Nat
            /\ Len(m.calls) \in Nat
        BY <2>2, <2>3, <2>4, <3>1
      <4> HIDE DEF front
      <4>2. Len(text) + Len(uses) > 0
        <5>1. CASE m.text
          <6>1. Len(text) = 1
            BY <2>3, <5>1
          <6>2. QED BY <4>1, <6>1
        <5>2. CASE Called(m) # {}
          <6>1. Len(uses) > 0
            BY <2>4, <3>2, <5>2
          <6>2. QED BY <4>1, <6>1
        <5>3. QED BY <2>10, <5>1, <5>2
      <4>3. Len(b) = (Len(thinking) + Len(text)) + Len(uses)
        BY <2>5, <2>6
      <4>4. QED BY <4>1, <4>2, <4>3
    <3>4. QED BY <2>6, <3>3
  <2>11. QED BY <1>2, <2>6, <2>8, <2>9, <2>10 DEF ResultsOf, CallsIn, b
<1>3. QED BY <1>1, <1>2

----------------------------------------------------------------------------
(* Merging.  out is what has been translated, pending the calls that have  *)
(* no result yet.                                                          *)

Sides == {"user", "assistant"}
OutMessages == [role : Sides, content : Seq(Blocks)]
Uses(x) == Holds(x.content, "tool_use")
Results(x) == Holds(x.content, "tool_result")

LastOne(out) == out[Len(out)]

OutSides(out) ==
  /\ \A k \in DOMAIN out : /\ out[k].role = "user" => Uses(out[k]) = {}
                           /\ out[k].role = "assistant" => Results(out[k]) = {}
  /\ \A k \in 2 .. Len(out) : out[k].role # out[k - 1].role
  /\ \A k \in 2 .. Len(out) - 1 : Uses(out[k - 1]) = Results(out[k])

OutEnds(out, pending) ==
  /\ Len(out) <= 1 => pending = {}
  /\ Len(out) > 0 => out[1].role = "user"
  /\ Len(out) > 1 /\ LastOne(out).role = "assistant" =>
       Uses(LastOne(out)) = pending
  /\ Len(out) > 1 /\ LastOne(out).role = "user" =>
       /\ Results(LastOne(out)) \subseteq Uses(out[Len(out) - 1])
       /\ Uses(out[Len(out) - 1]) \ Results(LastOne(out)) = pending

\* A result follows its call, all but for the pending ones.
OutOK(out, pending) ==
  out \in Seq(OutMessages) /\ OutSides(out) /\ OutEnds(out, pending)

NoThinking(out) ==
  \A k \in DOMAIN out : \A t \in Thinking : Holds(out[k].content, t) = {}

Grown(out, x) == [out EXCEPT ![Len(out)] = x]
Pending(role, pending, x) ==
  IF role = "user" THEN pending \ Results(x) ELSE pending \cup Uses(x)

\* A message of the other side.
LEMMA AppendOut ==
  ASSUME NEW pending, NEW out, OutOK(out, pending), NEW x \in OutMessages,
         out = <<>> => x.role = "user",
         out # <<>> => LastOne(out).role # x.role,
         x.role = "user" => Uses(x) = {} /\ Results(x) \subseteq pending,
         x.role = "assistant" => Results(x) = {} /\ pending = {}
  PROVE  OutOK(Append(out, x), Pending(x.role, pending, x))
<1> DEFINE n == Len(out)
           o == Append(out, x)
           p == Pending(x.role, pending, x)
<1>1. out \in Seq(OutMessages) /\ n \in Nat
  BY DEF OutOK, OutSides, OutEnds
<1>2. o \in Seq(OutMessages) /\ Len(o) = n + 1 /\ o[n + 1] = x
  BY <1>1, Extended
<1>3. \A k \in 1 .. n : o[k] = out[k]
  BY <1>1
<1>4. x.role \in Sides /\ \A k \in 1 .. n : out[k].role \in Sides
  <2>1. \A k \in 1 .. n : out[k] \in OutMessages
    BY <1>1
  <2>2. QED BY <2>1 DEF OutMessages
<1>5. n = 0 <=> out = <<>>
  BY <1>1
<1> HIDE DEF n, o
<1>6. LastOne(o) = x
  BY <1>2 DEF LastOne
<1>7. \A k \in DOMAIN o : k \in 1 .. n \/ k = n + 1
  BY <1>1, <1>2
<1>8. \A k \in DOMAIN o : /\ o[k].role = "user" => Uses(o[k]) = {}
                          /\ o[k].role = "assistant" => Results(o[k]) = {}
  <2>1. \A k \in 1 .. n : /\ out[k].role = "user" => Uses(out[k]) = {}
                          /\ out[k].role = "assistant" => Results(out[k]) = {}
    BY <1>1 DEF OutOK, OutSides, OutEnds, n
  <2>2. QED BY <1>2, <1>3, <1>7, <2>1
<1>9. \A k \in 2 .. Len(o) : o[k].role # o[k - 1].role
  <2>1. ASSUME NEW k \in 2 .. n + 1 PROVE o[k].role # o[k - 1].role
    <3>1. CASE k = n + 1
      <4>1. n > 0 /\ o[k - 1] = out[n] /\ o[k] = x
        BY <1>1, <1>2, <1>3, <2>1, <3>1
      <4>2. QED BY <1>5, <4>1 DEF LastOne, n
    <3>2. CASE k # n + 1
      <4>1. k \in 2 .. n /\ k \in 1 .. n /\ k - 1 \in 1 .. n
        BY <1>1, <2>1, <3>2
      <4>2. out[k].role # out[k - 1].role
        BY <4>1 DEF OutOK, OutSides, OutEnds, n
      <4>3. QED BY <1>3, <4>1, <4>2
    <3>3. QED BY <3>1, <3>2
  <2>2. QED BY <1>2, <2>1
<1>10. \A k \in 2 .. Len(o) - 1 : Uses(o[k - 1]) = Results(o[k])
  <2>1. ASSUME NEW k \in 2 .. n PROVE Uses(o[k - 1]) = Results(o[k])
    <3>1. k \in 1 .. n /\ k - 1 \in 1 .. n /\ n > 1 /\ n \in 1 .. n
      BY <1>1, <2>1
    <3>2. o[k] = out[k] /\ o[k - 1] = out[k - 1]
      BY <1>3, <3>1
    <3>3. CASE k # n
      <4>1. k \in 2 .. n - 1
        BY <1>1, <2>1, <3>3
      <4>2. Uses(out[k - 1]) = Results(out[k])
        BY <4>1 DEF OutOK, OutSides, OutEnds, n
      <4>3. QED BY <3>2, <4>2
    <3>4. CASE k = n /\ out[n].role = "assistant"
      <4>1. out[n - 1].role = "user"
        <5>1. out[n].role # out[n - 1].role
          BY <2>1, <3>4 DEF OutOK, OutSides, OutEnds, n
        <5>2. QED BY <1>4, <3>1, <3>4, <5>1 DEF Sides
      <4>2. Uses(out[n - 1]) = {} /\ Results(out[n]) = {}
        <5>1. n \in DOMAIN out /\ n - 1 \in DOMAIN out
          BY <1>1, <3>1, <3>4 DEF n
        <5>2. QED BY <3>4, <4>1, <5>1 DEF OutOK, OutSides, OutEnds
      <4>3. QED BY <3>2, <3>4, <4>2
    <3>5. CASE k = n /\ out[n].role = "user"
      <4>1. x.role = "assistant"
        <5>1. LastOne(out).role # x.role
          BY <1>5, <3>1
        <5>2. QED BY <1>4, <3>5, <5>1 DEF LastOne, n, Sides
      <4>2. pending = {}
        BY <4>1
      <4>3. /\ Results(out[n]) \subseteq Uses(out[n - 1])
            /\ Uses(out[n - 1]) \ Results(out[n]) = {}
        BY <3>1, <3>5, <4>2 DEF OutOK, OutSides, OutEnds, LastOne, n
      <4>4. Uses(out[n - 1]) = Results(out[n])
        BY <4>3
      <4>5. QED BY <3>2, <3>5, <4>4
    <3>6. out[n].role \in Sides
      BY <1>4, <3>1
    <3>7. QED BY <3>3, <3>4, <3>5, <3>6 DEF Sides
  <2>2. QED BY <1>1, <1>2, <2>1
<1>11. Len(o) <= 1 => p = {}
  <2>1. ASSUME Len(o) <= 1 PROVE p = {}
    <3>1. n = 0 /\ out = <<>> /\ x.role = "user"
      BY <1>1, <1>2, <1>5, <2>1
    <3>2. pending = {}
      BY <3>1 DEF OutOK, OutSides, OutEnds, n
    <3>3. QED BY <3>1, <3>2 DEF Pending
  <2>2. QED BY <2>1
<1>12. o[1].role = "user"
  <2>1. CASE n = 0
    BY <1>2, <1>5, <2>1
  <2>2. CASE n > 0
    <3>1. o[1] = out[1]
      BY <1>1, <1>3, <2>2
    <3>2. QED BY <2>2, <3>1 DEF OutOK, OutSides, OutEnds, n
  <2>3. QED BY <1>1, <2>1, <2>2
<1>13. x.role = "assistant" => Uses(x) = p
  BY DEF Pending
<1>14. ASSUME Len(o) > 1, x.role = "user"
       PROVE  /\ Results(x) \subseteq Uses(o[Len(o) - 1])
              /\ Uses(o[Len(o) - 1]) \ Results(x) = p
  <2>1. n > 0 /\ o[Len(o) - 1] = out[n] /\ n \in 1 .. n
    BY <1>1, <1>2, <1>3, <1>14
  <2>2. out[n].role = "assistant"
    <3>1. LastOne(out).role # x.role
      BY <1>5, <2>1
    <3>2. QED BY <1>4, <1>14, <2>1, <3>1 DEF LastOne, n, Sides
  <2>3. n > 1
    <3>1. out[1].role = "user"
      BY <2>1 DEF OutOK, OutSides, OutEnds, n
    <3>2. n # 1
      BY <2>2, <3>1
    <3>3. QED BY <1>1, <2>1, <3>2
  <2>4. Uses(out[n]) = pending
    BY <2>2, <2>3 DEF OutOK, OutSides, OutEnds, LastOne, n
  <2>5. Results(x) \subseteq pending /\ p = pending \ Results(x)
    BY <1>14 DEF Pending
  <2>6. QED BY <2>1, <2>4, <2>5
<1> HIDE DEF p
<1>15. OutOK(o, p)
  BY <1>2, <1>6, <1>8, <1>9, <1>10, <1>11, <1>12, <1>13, <1>14
     DEF OutOK, OutSides, OutEnds
<1>16. QED BY <1>15 DEF o, p

\* More of the same side.
LEMMA GrowOut ==
  ASSUME NEW pending, NEW out, OutOK(out, pending), out # <<>>,
         NEW x \in OutMessages, NEW b,
         x.role = LastOne(out).role,
         Uses(x) = Uses(LastOne(out)) \cup Uses(b),
         Results(x) = Results(LastOne(out)) \cup Results(b),
         x.role = "user" => Uses(b) = {} /\ Results(b) \subseteq pending,
         x.role = "assistant" => Results(b) = {}
  PROVE  OutOK(Grown(out, x), Pending(x.role, pending, b))
<1> DEFINE n == Len(out)
           o == Grown(out, x)
           p == Pending(x.role, pending, b)
           y == LastOne(out)
<1>1. /\ out \in Seq(OutMessages) /\ n \in Nat /\ n > 0 /\ n \in DOMAIN out
      /\ DOMAIN out = 1 .. n
  <2>1. out \in Seq(OutMessages)
    BY DEF OutOK, OutSides, OutEnds
  <2>2. QED BY <2>1
<1>2. /\ o \in Seq(OutMessages) /\ Len(o) = n /\ o[n] = x
      /\ \A k \in 1 .. n : k # n => o[k] = out[k]
  <2> HIDE DEF n
  <2>1. LET t == [out EXCEPT ![n] = x]
        IN /\ t \in Seq(OutMessages) /\ Len(t) = Len(out) /\ t[n] = x
           /\ \A j \in DOMAIN out \ {n} : t[j] = out[j]
    BY <1>1, Replaced
  <2>2. QED BY <1>1, <2>1 DEF Grown, n
<1>3. x.role \in Sides /\ y = out[n] /\ y.role = x.role
  BY DEF OutMessages, LastOne
<1>4. \A k \in 1 .. n : o[k].role = out[k].role
  BY <1>2, <1>3
<1> HIDE DEF n, o, y
<1>5. LastOne(o) = x
  BY <1>2 DEF LastOne
<1>6. /\ \A k \in 1 .. n : /\ out[k].role = "user" => Uses(out[k]) = {}
                           /\ out[k].role = "assistant" =>
                                Results(out[k]) = {}
      /\ \A k \in 2 .. n : out[k].role # out[k - 1].role
      /\ \A k \in 2 .. n - 1 : Uses(out[k - 1]) = Results(out[k])
      /\ n <= 1 => pending = {}
      /\ out[1].role = "user"
      /\ n > 1 /\ y.role = "assistant" => Uses(y) = pending
      /\ n > 1 /\ y.role = "user" =>
           /\ Results(y) \subseteq Uses(out[n - 1])
           /\ Uses(out[n - 1]) \ Results(y) = pending
  BY <1>1 DEF OutOK, OutSides, OutEnds, n, y
<1>7. \A k \in 1 .. n : /\ o[k].role = "user" => Uses(o[k]) = {}
                        /\ o[k].role = "assistant" => Results(o[k]) = {}
  <2>1. x.role = "user" => Uses(x) = {}
    BY <1>1, <1>3, <1>6 DEF y
  <2>2. x.role = "assistant" => Results(x) = {}
    BY <1>1, <1>3, <1>6 DEF y
  <2>3. ASSUME NEW k \in 1 .. n
        PROVE  /\ o[k].role = "user" => Uses(o[k]) = {}
               /\ o[k].role = "assistant" => Results(o[k]) = {}
    <3>1. CASE k = n
      BY <1>2, <2>1, <2>2, <3>1
    <3>2. CASE k # n
      BY <1>2, <1>6, <3>2
    <3>3. QED BY <3>1, <3>2
  <2>4. QED BY <2>3
<1>8. \A k \in 2 .. n : o[k].role # o[k - 1].role
  <2>1. ASSUME NEW k \in 2 .. n PROVE o[k].role # o[k - 1].role
    <3>1. k \in 1 .. n /\ k - 1 \in 1 .. n
      BY <1>1
    <3>2. o[k].role = out[k].role /\ o[k - 1].role = out[k - 1].role
      BY <1>4, <3>1
    <3>3. QED BY <1>6, <3>2
  <2>2. QED BY <2>1
<1>9. \A k \in 2 .. n - 1 : Uses(o[k - 1]) = Results(o[k])
  <2>1. ASSUME NEW k \in 2 .. n - 1 PROVE Uses(o[k - 1]) = Results(o[k])
    <3>1. k \in 1 .. n /\ k - 1 \in 1 .. n /\ k # n /\ k - 1 # n
      BY <1>1
    <3>2. o[k] = out[k] /\ o[k - 1] = out[k - 1]
      BY <1>2, <3>1
    <3>3. QED BY <1>6, <3>2
  <2>2. QED BY <2>1
<1>10. ASSUME n <= 1 PROVE p = {}
  <2>1. n = 1 /\ x.role = "user" /\ pending = {}
    BY <1>1, <1>3, <1>6, <1>10 DEF y
  <2>2. QED BY <2>1 DEF Pending
<1>11. o[1].role = "user"
  BY <1>1, <1>4, <1>6
<1>12. ASSUME n > 1, x.role = "assistant" PROVE Uses(x) = p
  BY <1>3, <1>6, <1>12 DEF Pending, y
<1>13. ASSUME n > 1, x.role = "user"
       PROVE  /\ Results(x) \subseteq Uses(o[n - 1])
              /\ Uses(o[n - 1]) \ Results(x) = p
  <2>1. o[n - 1] = out[n - 1]
    BY <1>1, <1>2, <1>13
  <2>2. /\ Results(y) \subseteq Uses(out[n - 1])
        /\ Uses(out[n - 1]) \ Results(y) = pending
    BY <1>3, <1>6, <1>13
  <2>3. Results(b) \subseteq pending /\ p = pending \ Results(b)
        /\ Results(x) = Results(y) \cup Results(b)
    BY <1>13 DEF Pending, y
  <2> HIDE DEF p
  <2>4. QED BY <2>1, <2>2, <2>3
<1> HIDE DEF p
<1>14. OutOK(o, p)
  <2>1. Len(o) = n /\ DOMAIN o = 1 .. n /\ o \in Seq(OutMessages)
    BY <1>1, <1>2
  <2>2. OutSides(o)
    BY <1>7, <1>8, <1>9, <2>1 DEF OutSides
  <2>3. OutEnds(o, p)
    <3>1. Len(o) <= 1 => p = {}
      BY <1>10, <2>1
    <3>2. Len(o) > 0 => o[1].role = "user"
      BY <1>11
    <3>3. Len(o) > 1 /\ LastOne(o).role = "assistant" => Uses(LastOne(o)) = p
      BY <1>5, <1>12, <2>1
    <3>4. Len(o) > 1 /\ LastOne(o).role = "user" =>
            /\ Results(LastOne(o)) \subseteq Uses(o[Len(o) - 1])
            /\ Uses(o[Len(o) - 1]) \ Results(LastOne(o)) = p
      BY <1>5, <1>13, <2>1
    <3>5. QED BY <3>1, <3>2, <3>3, <3>4 DEF OutEnds
  <2>4. QED BY <2>1, <2>2, <2>3 DEF OutOK
<1>15. QED BY <1>14 DEF o, p

Plain(role, b) == [role |-> role, content |-> b]

MergeFits(out, pending, role, b) ==
  /\ OutOK(out, pending) /\ role \in Sides /\ b \in Seq(Blocks)
  /\ out = <<>> /\ b # <<>> => role = "user"
  /\ role = "user" => /\ Holds(b, "tool_use") = {}
                      /\ Holds(b, "tool_result") \subseteq pending
  /\ role = "assistant" => Holds(b, "tool_result") = {}
  /\ role = "assistant" /\ b # <<>> /\ out # <<>>
     /\ LastOne(out).role = "user" => pending = {}

MergeOK(out, pending, role, b, o) ==
  /\ OutOK(o, Pending(role, pending, Plain(role, b)))
  /\ b = <<>> => o = out
  /\ b # <<>> => o # <<>> /\ LastOne(o).role = role
  /\ out # <<>> => o # <<>>
  /\ NoThinking(out) /\ (\A t \in Thinking : Holds(b, t) = {}) =>
       NoThinking(o)

\* What merging a message adds.
LEMMA MergeKept ==
  ASSUME NEW pending, NEW out, NEW role, NEW b,
         MergeFits(out, pending, role, b)
  PROVE  MergeOK(out, pending, role, b, Merged(out, role, b))
<1> DEFINE o == Merged(out, role, b)
           x == Plain(role, b)
<1>0. /\ OutOK(out, pending) /\ role \in Sides /\ b \in Seq(Blocks)
      /\ out = <<>> /\ b # <<>> => role = "user"
      /\ role = "user" => /\ Holds(b, "tool_use") = {}
                          /\ Holds(b, "tool_result") \subseteq pending
      /\ role = "assistant" => Holds(b, "tool_result") = {}
      /\ role = "assistant" /\ b # <<>> /\ out # <<>>
         /\ LastOne(out).role = "user" => pending = {}
  BY Zenon DEF MergeFits
<1> USE <1>0
<1> SUFFICES /\ OutOK(o, Pending(role, pending, Plain(role, b)))
             /\ b = <<>> => o = out
             /\ b # <<>> => o # <<>> /\ LastOne(o).role = role
             /\ out # <<>> => o # <<>>
             /\ NoThinking(out) /\ (\A t \in Thinking : Holds(b, t) = {}) =>
                  NoThinking(o)
  BY DEF MergeOK
<1>1. out \in Seq(OutMessages)
  BY DEF OutOK, OutSides, OutEnds
<1>2. x.role = role /\ x.content = b /\ x \in OutMessages
  BY DEF Plain, OutMessages
<1>3. Uses(x) = Holds(b, "tool_use") /\ Results(x) = Holds(b, "tool_result")
  BY <1>2 DEF Uses, Results
<1> HIDE DEF x
<1>4. CASE b = <<>>
  <2>1. o = out
    BY <1>4 DEF Merged
  <2>2. Uses(x) = {} /\ Results(x) = {}
    <3>1. DOMAIN b = {}
      BY <1>4
    <3>2. QED BY <1>3, <3>1 DEF Holds
  <2>3. Pending(role, pending, x) = pending
    BY <2>2 DEF Pending
  <2> HIDE DEF o
  <2>4. QED BY <1>4, <2>1, <2>3 DEF x, o
<1>5. CASE b # <<>> /\ ~(out # <<>> /\ LastOne(out).role = role)
  <2>1. o = Append(out, x)
    BY <1>5 DEF Merged, LastOne, Last, x, Plain
  <2>2. OutOK(Append(out, x), Pending(x.role, pending, x))
    <3>1. out = <<>> => x.role = "user"
      BY <1>2, <1>5
    <3>2. out # <<>> => LastOne(out).role # x.role
      BY <1>2, <1>5
    <3>3. x.role = "user" => Uses(x) = {} /\ Results(x) \subseteq pending
      BY <1>2, <1>3
    <3>4. x.role = "assistant" => Results(x) = {} /\ pending = {}
      <4>1. ASSUME role = "assistant" PROVE pending = {}
        <5>1. out # <<>> /\ LastOne(out).role # "assistant"
          BY <1>5, <4>1
        <5>2. LastOne(out) \in OutMessages
          BY <1>1, <5>1 DEF LastOne
        <5>3. LastOne(out).role = "user"
          BY <5>1, <5>2 DEF OutMessages, Sides
        <5>4. QED BY <1>5, <4>1, <5>1, <5>3
      <4>2. QED BY <1>2, <1>3, <4>1
    <3>5. QED BY <1>2, <3>1, <3>2, <3>3, <3>4, AppendOut
  <2>3. /\ Append(out, x) # <<>> /\ LastOne(Append(out, x)) = x
        /\ \A k \in DOMAIN Append(out, x) :
             \/ Append(out, x)[k] = x
             \/ k \in DOMAIN out /\ Append(out, x)[k] = out[k]
    <3> DEFINE n == Len(out)
               p == Append(out, x)
    <3>1. /\ p \in Seq(OutMessages) /\ Len(p) = n + 1 /\ p[n + 1] = x
          /\ p # <<>> /\ n \in Nat /\ DOMAIN out = 1 .. n
      BY ONLY <1>1, <1>2, Extended
    <3>2. \A k \in 1 .. n : p[k] = out[k]
      BY ONLY <1>1, <1>2
    <3> HIDE DEF n, p
    <3>3. DOMAIN p = 1 .. n + 1 /\ LastOne(p) = x
      BY ONLY <3>1 DEF LastOne
    <3>4. \A k \in 1 .. n + 1 : k \in 1 .. n \/ k = n + 1
      BY ONLY <3>1
    <3>5. QED BY ONLY <3>1, <3>2, <3>3, <3>4 DEF p
  <2> HIDE DEF o
  <2>4. ASSUME NoThinking(out), \A t \in Thinking : Holds(b, t) = {}
        PROVE  NoThinking(o)
    <3>1. ASSUME NEW k \in DOMAIN o, NEW t \in Thinking
          PROVE  Holds(o[k].content, t) = {}
      <4>1. CASE o[k] = x
        BY <1>2, <2>4, <4>1
      <4>2. CASE k \in DOMAIN out /\ o[k] = out[k]
        BY <2>4, <4>2 DEF NoThinking
      <4>3. QED BY <2>1, <2>3, <4>1, <4>2
    <3>2. QED BY <3>1 DEF NoThinking
  <2>5. o # <<>> /\ LastOne(o).role = role
    BY <1>2, <2>1, <2>3
  <2>6. OutOK(o, Pending(role, pending, Plain(role, b)))
    BY <1>2, <2>1, <2>2 DEF x
  <2>7. QED BY <1>5, <2>4, <2>5, <2>6 DEF o
<1>6. CASE b # <<>> /\ out # <<>> /\ LastOne(out).role = role
  <2> DEFINE y == LastOne(out)
             c == StripDuplicateThinking(y.content, b)
             z == Plain(role, Cat(y.content, c))
  <2>1. y \in OutMessages
    BY <1>1, <1>6 DEF LastOne
  <2>2. y.content \in Seq(Blocks) /\ y = [role |-> role, content |-> y.content]
    <3>1. y.role = role
      BY <1>6
    <3> HIDE DEF y
    <3>2. QED BY <2>1, <3>1 DEF OutMessages
  <2>3. /\ c \in Seq(Blocks)
        /\ \A t : /\ Holds(c, t) \subseteq Holds(b, t)
                  /\ t \notin Thinking => Holds(c, t) = Holds(b, t)
    BY StripHolds
  <2>4. o = Grown(out, z)
    <3>1. o = [out EXCEPT ![Len(out)].content = Cat(y.content, c)]
      BY <1>6 DEF Merged, Last, LastOne, Cat
    <3>2. [out[Len(out)] EXCEPT !.content = Cat(y.content, c)] = z
      <4>1. out[Len(out)] = y
        BY DEF LastOne
      <4> HIDE DEF y, c
      <4>2. [y EXCEPT !.content = Cat(y.content, c)] = z
        BY <2>2 DEF Plain
      <4>3. QED BY <4>1, <4>2
    <3> HIDE DEF y, c, z, o
    <3>3. QED BY <3>1, <3>2 DEF Grown
  <2> HIDE DEF c, y
  <2>5. Cat(y.content, c) \in Seq(Blocks)
    <3>1. y.content \in Seq(Blocks) /\ c \in Seq(Blocks)
      BY <2>2, <2>3
    <3>2. QED BY <3>1, Joined
  <2>6. \A t : Holds(Cat(y.content, c), t) =
                 Holds(y.content, t) \cup Holds(c, t)
    <3>1. y.content \in Seq(Blocks) /\ c \in Seq(Blocks)
      BY <2>2, <2>3
    <3>2. ASSUME NEW t PROVE Holds(Cat(y.content, c), t) =
                               Holds(y.content, t) \cup Holds(c, t)
      BY <3>1, HoldsBoth
    <3>3. QED BY <3>2
  <2>7. z \in OutMessages /\ z.role = role
        /\ z.content = Cat(y.content, c)
    BY <2>5 DEF Plain, OutMessages
  <2>8. Uses(z) = Uses(y) \cup Uses(x)
        /\ Results(z) = Results(y) \cup Results(x)
    <3>1. "tool_use" \notin Thinking /\ "tool_result" \notin Thinking
      BY DEF Thinking
    <3>2. /\ Holds(c, "tool_use") = Uses(x)
          /\ Holds(c, "tool_result") = Results(x)
      BY <1>3, <2>3, <3>1
    <3>3. Uses(z) = Holds(Cat(y.content, c), "tool_use")
          /\ Results(z) = Holds(Cat(y.content, c), "tool_result")
      BY <2>7 DEF Uses, Results
    <3>4. QED BY <2>6, <3>2, <3>3 DEF Uses, Results
  <2> HIDE DEF z
  <2>9. OutOK(Grown(out, z), Pending(z.role, pending, x))
    <3>1. z.role = "user" => Uses(x) = {} /\ Results(x) \subseteq pending
      BY <1>3, <2>7
    <3>2. z.role = "assistant" => Results(x) = {}
      BY <1>3, <2>7
    <3>3. z.role = LastOne(out).role /\ out # <<>>
      BY <1>6, <2>7
    <3>4. QED BY <2>7, <2>8, <3>1, <3>2, <3>3, GrowOut DEF y
  <2>10. /\ DOMAIN Grown(out, z) = DOMAIN out /\ Len(out) \in DOMAIN out
         /\ Grown(out, z) \in Seq(OutMessages)
         /\ Len(Grown(out, z)) = Len(out) /\ Grown(out, z)[Len(out)] = z
         /\ \A k \in DOMAIN out : k # Len(out) => Grown(out, z)[k] = out[k]
    <3>1. Len(out) \in DOMAIN out
      BY <1>1, <1>6
    <3>2. LET g == [out EXCEPT ![Len(out)] = z]
          IN /\ g \in Seq(OutMessages) /\ Len(g) = Len(out)
             /\ DOMAIN g = DOMAIN out /\ g[Len(out)] = z
             /\ \A j \in DOMAIN out \ {Len(out)} : g[j] = out[j]
      BY <1>1, <2>7, <3>1, Replaced
    <3>3. QED BY <3>1, <3>2 DEF Grown
  <2> HIDE DEF o
  <2>11. o # <<>> /\ LastOne(o).role = role
    <3>1. Len(o) = Len(out) /\ o[Len(out)] = z /\ Len(out) \in 1 .. Len(out)
      BY <1>1, <1>6, <2>4, <2>10
    <3>2. LastOne(o) = z
      BY <3>1 DEF LastOne
    <3>3. Len(o) # 0
      BY <1>1, <1>6, <3>1
    <3>4. QED BY <2>7, <3>2, <3>3
  <2>12. ASSUME NoThinking(out), \A t \in Thinking : Holds(b, t) = {}
         PROVE  NoThinking(o)
    <3>1. ASSUME NEW k \in DOMAIN o, NEW t \in Thinking
          PROVE  Holds(o[k].content, t) = {}
      <4>1. CASE k = Len(out)
        <5>1. Holds(y.content, t) = {}
          BY <2>10, <2>12, <3>1 DEF NoThinking, y, LastOne
        <5>2. Holds(c, t) = {}
          BY <2>3, <2>12, <3>1
        <5>3. o[k].content = Cat(y.content, c)
          BY <2>4, <2>7, <2>10, <4>1
        <5>4. QED BY <2>6, <5>1, <5>2, <5>3
      <4>2. CASE k # Len(out)
        BY <2>4, <2>10, <2>12, <3>1, <4>2 DEF NoThinking
      <4>3. QED BY <4>1, <4>2
    <3>2. QED BY <3>1 DEF NoThinking
  <2>13. OutOK(o, Pending(role, pending, Plain(role, b)))
    BY <2>4, <2>7, <2>9 DEF x
  <2>14. QED BY <1>6, <2>11, <2>12, <2>13 DEF o
<1>7. QED BY <1>4, <1>5, <1>6

----------------------------------------------------------------------------
(* Translating a history, message by message. *)

LEMMA LastPlace ==
  ASSUME NEW n \in Nat, NEW s \in SUBSET (1 .. n), s # {}
  PROVE  Max(s) \in s /\ \A i \in s : Max(s) >= i
<1> DEFINE T == {k \in Nat : \A p \in SUBSET (1 .. k) : p # {} =>
                               \E x \in p : \A y \in p : x >= y}
<1>1. 0 \in T
  <2>1. \A p \in SUBSET (1 .. 0) : p = {}
    OBVIOUS
  <2>2. QED BY <2>1
<1>2. ASSUME NEW k \in Nat, k \in T PROVE k + 1 \in T
  <2>1. ASSUME NEW p \in SUBSET (1 .. k + 1), p # {}
        PROVE  \E x \in p : \A y \in p : x >= y
    <3>1. CASE k + 1 \in p
      <4>1. \A y \in p : k + 1 >= y
        OBVIOUS
      <4>2. QED BY <3>1, <4>1
    <3>2. CASE k + 1 \notin p
      <4>1. p \subseteq 1 .. k
        BY <3>2
      <4>2. QED BY <1>2, <2>1, <4>1
    <3>3. QED BY <3>1, <3>2
  <2>2. QED BY <2>1
<1>3. Nat \subseteq T
  <2> HIDE DEF T
  <2>1. QED BY <1>1, <1>2, Inductive
<1>4. \E x \in s : \A y \in s : x >= y
  BY <1>3
<1>5. QED BY <1>4 DEF Max

LEMMA LastOfInterval ==
  ASSUME NEW n \in Nat
  PROVE  /\ 1 .. n + 1 # {} /\ Max(1 .. n + 1) = n + 1
         /\ (1 .. n + 1) \ {n + 1} = 1 .. n
<1>1. 1 .. n + 1 # {} /\ (1 .. n + 1) \ {n + 1} = 1 .. n
  <2>1. n + 1 \in 1 .. n + 1
    OBVIOUS
  <2>2. (1 .. n + 1) \ {n + 1} = 1 .. n
    OBVIOUS
  <2>3. QED BY <2>1, <2>2
<1>2. /\ Max(1 .. n + 1) \in 1 .. n + 1
      /\ \A i \in 1 .. n + 1 : Max(1 .. n + 1) >= i
  <2>1. n + 1 \in Nat /\ 1 .. n + 1 \subseteq 1 .. n + 1
    OBVIOUS
  <2>2. QED BY <1>1, <2>1, LastPlace
<1>3. n + 1 \in 1 .. n + 1
  OBVIOUS
<1>4. Max(1 .. n + 1) = n + 1
  BY <1>2, <1>3
<1>5. QED BY <1>1, <1>4

\* The translation of message i, behind what there is.
Step(out, msgs, kept, i) == Translate(out, msgs[i], i \in kept)

\* What all messages are translated into.
All(msgs, kept) ==
  FoldLeft(LAMBDA out, i : Translate(out, msgs[i], i \in kept),
           <<>>, [i \in DOMAIN msgs |-> i])

\* it gives every set of places the translation of the messages there.
Translates(it, msgs, kept, n) ==
  \A s \in SUBSET (1 .. n) :
    it[s] = IF s = {} THEN <<>>
            ELSE Step(it[s \ {Max(s)}], msgs, kept, Max(s))

LEMMA Translatable ==
  ASSUME NEW msgs, NEW kept, NEW n \in Nat
  PROVE  \E it : it = [s \in SUBSET (1 .. n) |-> it[s]]
                 /\ Translates(it, msgs, kept, n)
<1> DEFINE Solves(it, k) == /\ it = [s \in SUBSET (1 .. k) |-> it[s]]
                            /\ Translates(it, msgs, kept, k)
           T == {k \in Nat : \E it : Solves(it, k)}
<1>1. 0 \in T
  <2> DEFINE it == [s \in SUBSET (1 .. 0) |-> <<>>]
  <2>1. \A s \in SUBSET (1 .. 0) : s = {}
    OBVIOUS
  <2>2. it = [s \in SUBSET (1 .. 0) |-> it[s]]
    OBVIOUS
  <2>3. Translates(it, msgs, kept, 0)
    BY <2>1 DEF Translates
  <2>4. 0 \in Nat
    OBVIOUS
  <2> HIDE DEF it
  <2>5. QED BY <2>2, <2>3, <2>4
<1>2. ASSUME NEW k \in Nat, k \in T PROVE k + 1 \in T
  <2>1. PICK it : Solves(it, k)
    BY <1>2
  <2> DEFINE more == [s \in SUBSET (1 .. k + 1) |->
                        IF k + 1 \in s
                        THEN Step(it[s \ {k + 1}], msgs, kept, k + 1)
                        ELSE it[s]]
  <2>2. \A s \in SUBSET (1 .. k + 1) :
           IF k + 1 \in s THEN s \ {k + 1} \in SUBSET (1 .. k)
           ELSE s \in SUBSET (1 .. k)
    OBVIOUS
  <2>3. more = [s \in SUBSET (1 .. k + 1) |-> more[s]]
    OBVIOUS
  <2>5. ASSUME NEW s \in SUBSET (1 .. k)
        PROVE  more[s] = it[s] /\ s \in SUBSET (1 .. k + 1)
    <3>1. s \in SUBSET (1 .. k + 1) /\ k + 1 \notin s
      OBVIOUS
    <3>2. QED BY <3>1
  <2>6. ASSUME NEW s \in SUBSET (1 .. k + 1)
        PROVE  more[s] = IF s = {} THEN <<>>
                         ELSE Step(more[s \ {Max(s)}], msgs, kept, Max(s))
    <3>1. CASE k + 1 \in s
      <4>1. Max(s) \in s /\ \A i \in s : Max(s) >= i
        <5>1. k + 1 \in Nat /\ s \subseteq 1 .. k + 1 /\ s # {}
          BY <3>1
        <5>2. QED BY <5>1, LastPlace
      <4>2. Max(s) = k + 1
        <5>1. Max(s) \in 1 .. k + 1 /\ Max(s) >= k + 1
          BY <3>1, <4>1
        <5>2. QED BY <5>1
      <4>3. more[s] = Step(it[s \ {k + 1}], msgs, kept, k + 1)
        BY <3>1
      <4>4. more[s \ {k + 1}] = it[s \ {k + 1}]
        BY <2>2, <2>5, <3>1
      <4> HIDE DEF more
      <4>5. QED BY <3>1, <4>2, <4>3, <4>4
    <3>2. CASE k + 1 \notin s
      <4>1. s \in SUBSET (1 .. k) /\ more[s] = it[s]
        BY <2>2, <2>5, <3>2
      <4>2. it[s] = IF s = {} THEN <<>>
                    ELSE Step(it[s \ {Max(s)}], msgs, kept, Max(s))
        BY <2>1, <4>1 DEF Translates
      <4>3. more[s \ {Max(s)}] = it[s \ {Max(s)}]
        BY <2>5, <4>1
      <4> HIDE DEF more
      <4>4. QED BY <4>1, <4>2, <4>3
    <3>3. QED BY <3>1, <3>2
  <2>7. Translates(more, msgs, kept, k + 1)
    <3> HIDE DEF more
    <3>1. QED BY <2>6 DEF Translates
  <2>8. k + 1 \in Nat
    OBVIOUS
  <2> HIDE DEF more
  <2>9. QED BY <2>3, <2>7, <2>8
<1>3. Nat \subseteq T
  <2> HIDE DEF T
  <2>1. QED BY <1>1, <1>2, Inductive
<1>4. \E it : Solves(it, n)
  BY <1>3
<1>5. QED BY <1>4

\* h[i] is what the first i messages are translated into.
LEMMA TranslateSteps ==
  ASSUME NEW T, NEW msgs \in Seq(T), NEW kept
  PROVE  \E h : /\ h[0] = <<>> /\ h[Len(msgs)] = All(msgs, kept)
                /\ \A i \in 1 .. Len(msgs) :
                     h[i] = Translate(h[i - 1], msgs[i], i \in kept)
<1> DEFINE n == Len(msgs)
           at == [i \in DOMAIN msgs |-> i]
           Solves(it) ==
             it = [s \in SUBSET (DOMAIN at) |->
                     IF s = {} THEN <<>>
                     ELSE Translate(it[s \ {Max(s)}], msgs[at[Max(s)]],
                                    at[Max(s)] \in kept)]
           it == CHOOSE it : Solves(it)
           h == [i \in 0 .. n |-> it[1 .. i]]
<1>1. n \in Nat /\ DOMAIN msgs = 1 .. n /\ DOMAIN at = 1 .. n
      /\ \A i \in 1 .. n : at[i] = i
  OBVIOUS
<1>2. PICK f : f = [s \in SUBSET (1 .. n) |-> f[s]]
               /\ Translates(f, msgs, kept, n)
  BY <1>1, Translatable
<1> HIDE DEF n, at
<1>3. \A s \in SUBSET (1 .. n) : s # {} => Max(s) \in 1 .. n
  BY <1>1, LastPlace
<1>4. Solves(f)
  <2>1. \A s \in SUBSET (1 .. n) :
          f[s] = IF s = {} THEN <<>>
                 ELSE Translate(f[s \ {Max(s)}], msgs[at[Max(s)]],
                                at[Max(s)] \in kept)
    BY <1>1, <1>2, <1>3 DEF Translates, Step
  <2>2. QED BY <1>1, <1>2, <2>1
<1>5. Solves(it)
  <2> HIDE DEF Solves
  <2>1. QED BY <1>4
<1>6. All(msgs, kept) = it[DOMAIN at]
  BY Zenon DEF All, FoldLeft, MapThenFoldSet, at
<1> HIDE DEF it
<1>7. \A s \in SUBSET (1 .. n) :
        it[s] = IF s = {} THEN <<>>
                ELSE Translate(it[s \ {Max(s)}], msgs[at[Max(s)]],
                               at[Max(s)] \in kept)
  BY <1>1, <1>5
<1>8. h[0] = <<>>
  <2>1. 1 .. 0 = {} /\ 0 \in 0 .. n
    BY <1>1
  <2>2. QED BY <1>7, <2>1
<1>9. h[n] = it[1 .. n]
  BY <1>1
<1>10. ASSUME NEW i \in 1 .. n
       PROVE  h[i] = Translate(h[i - 1], msgs[i], i \in kept)
  <2>1. i \in 0 .. n /\ i - 1 \in 0 .. n /\ i - 1 \in Nat /\ (i - 1) + 1 = i
    BY <1>1
  <2>2. 1 .. i # {} /\ Max(1 .. i) = i /\ (1 .. i) \ {i} = 1 .. i - 1
    BY ONLY <2>1, LastOfInterval
  <2>3. 1 .. i \in SUBSET (1 .. n)
    BY <1>1
  <2>4. h[i] = it[1 .. i] /\ h[i - 1] = it[1 .. i - 1]
    BY <2>1
  <2> HIDE DEF h
  <2>5. it[1 .. i] = Translate(it[1 .. i - 1], msgs[i], i \in kept)
    BY <1>1, <1>7, <2>2, <2>3
  <2>6. QED BY <2>4, <2>5
<1> HIDE DEF h
<1>11. QED BY <1>1, <1>6, <1>8, <1>9, <1>10 DEF n

----------------------------------------------------------------------------
(* A history keeps its ledger: P[i] are the calls without a result after   *)
(* message i.  An agent may split the calls of an answer, but speaks of    *)
(* nothing else before it has their results.                               *)

CacheHolds(c) == \A id \in DOMAIN c.entries : c.entries[id] \in Seq(Thoughts)

LEMMA FirstPlace ==
  ASSUME NEW n \in Nat, NEW s \in SUBSET (1 .. n), s # {}
  PROVE  \E x \in s : \A y \in s : x <= y
<1> DEFINE T == {k \in Nat : \A p \in SUBSET (1 .. k) : p # {} =>
                               \E x \in p : \A y \in p : x <= y}
<1>1. 0 \in T
  <2>1. \A p \in SUBSET (1 .. 0) : p = {}
    OBVIOUS
  <2>2. QED BY <2>1
<1>2. ASSUME NEW k \in Nat, k \in T PROVE k + 1 \in T
  <2>1. ASSUME NEW p \in SUBSET (1 .. k + 1), p # {}
        PROVE  \E x \in p : \A y \in p : x <= y
    <3> DEFINE q == p \ {k + 1}
    <3>1. q \in SUBSET (1 .. k) /\ \A y \in p : y \in q \/ y = k + 1
      OBVIOUS
    <3>2. CASE q = {}
      <4>1. \A y \in p : y = k + 1
        BY <3>1, <3>2
      <4>2. k + 1 \in p /\ k + 1 <= k + 1
        <5>1. PICK y \in p : TRUE
          BY <2>1
        <5>2. y = k + 1
          BY <4>1
        <5>3. QED BY <5>1, <5>2
      <4>3. QED BY <4>1, <4>2
    <3>3. CASE q # {}
      <4>1. PICK x \in q : \A y \in q : x <= y
        BY <1>2, <3>1, <3>3
      <4>2. x \in p /\ x <= k + 1
        BY <3>1
      <4>3. QED BY <3>1, <4>1, <4>2
    <3>4. QED BY <3>2, <3>3
  <2>2. QED BY <2>1
<1>3. Nat \subseteq T
  <2> HIDE DEF T
  <2>1. QED BY <1>1, <1>2, Inductive
<1>4. QED BY <1>3

LEMMA CachedIs ==
  ASSUME CacheHolds(cache), NEW m \in Messages
  PROVE  CachedBlocks(m) \in Seq(Thoughts)
<1> DEFINE known == {k \in DOMAIN m.calls : Has(cache, m.calls[k])}
<1>1. CASE known = {}
  <2>1. CachedBlocks(m) = <<>>
    BY <1>1 DEF CachedBlocks
  <2>2. <<>> \in Seq(Thoughts)
    OBVIOUS
  <2>3. QED BY <2>1, <2>2
<1>2. CASE known # {}
  <2> DEFINE k == CHOOSE k \in known : \A j \in known : k <= j
  <2>1. k \in known
    <3>1. m.calls \in Seq(Names)
      BY DEF Messages
    <3>2. Len(m.calls) \in Nat /\ known \in SUBSET (1 .. Len(m.calls))
      BY <3>1
    <3> HIDE DEF known
    <3>3. \E x \in known : \A y \in known : x <= y
      BY <1>2, <3>2, FirstPlace
    <3>4. QED BY <3>3
  <2>2. CachedBlocks(m) = cache.entries[m.calls[k]]
    BY <1>2 DEF CachedBlocks
  <2> HIDE DEF k
  <2>3. m.calls[k] \in DOMAIN cache.entries
    BY <2>1 DEF Has
  <2>4. QED BY <2>2, <2>3 DEF CacheHolds
<1>3. QED BY <1>1, <1>2

After1(m, pending) ==
  CASE m.role = "tool" -> pending \ {m.result}
    [] m.role = "user" -> {}
    [] m.role = "assistant" -> pending \cup Called(m)

Roles == {"user", "assistant", "tool"}

\* One message more.
LEMMA MessageAdded ==
  ASSUME CacheHolds(cache), NEW m \in Messages, m.role \in Roles,
         NEW pending, NEW out, OutOK(out, pending), NEW rehydrates \in BOOLEAN,
         pending \subseteq Names,
         m.role = "user" => pending = {} /\ Called(m) = {},
         m.role = "tool" => m.result \in pending,
         m.role = "assistant" /\ pending # {} =>
           out # <<>> /\ LastOne(out).role = "assistant",
         out = <<>> => m.role = "user" /\ m.text
  PROVE  LET o == Translate(out, m, rehydrates)
         IN /\ OutOK(o, After1(m, pending)) /\ o # <<>>
            /\ m.role = "assistant" /\ After1(m, pending) # {} =>
                 LastOne(o).role = "assistant"
            /\ NoThinking(out) /\ ~rehydrates => NoThinking(o)
<1> DEFINE t == IF rehydrates THEN CachedBlocks(m) ELSE <<>>
           role == IF m.role = "tool" THEN "user" ELSE m.role
           b == Content(m, t)
           o == Merged(out, role, b)
<1>1. o = Translate(out, m, rehydrates)
  BY DEF Translate
<1>2. t \in Seq(Thoughts) /\ (~rehydrates => t = <<>>)
  <2>1. <<>> \in Seq(Thoughts)
    OBVIOUS
  <2>2. QED BY <2>1, CachedIs
<1>3. role \in Sides /\ (role = "assistant" <=> m.role = "assistant")
      /\ (m.role = "tool" => role = "user")
      /\ (m.role = "user" => role = "user")
  BY DEF Roles, Sides
<1> HIDE DEF t, role
<1>4. /\ b \in Seq(Blocks)
      /\ Holds(b, "tool_use") = CallsIn(m)
      /\ Holds(b, "tool_result") = ResultsOf(m)
      /\ t = <<>> => \A x \in Thinking : Holds(b, x) = {}
      /\ m.role = "tool" \/ m.text \/ CallsIn(m) # {} => b # <<>>
  BY <1>2, ContentHolds
<1> HIDE DEF b
<1>5. out = <<>> /\ b # <<>> => role = "user"
  BY <1>3
<1>6. role = "user" => /\ Holds(b, "tool_use") = {}
                       /\ Holds(b, "tool_result") \subseteq pending
  BY <1>3, <1>4 DEF CallsIn, ResultsOf, Roles
<1>7. role = "assistant" => Holds(b, "tool_result") = {}
  BY <1>3, <1>4 DEF ResultsOf
<1>8. role = "assistant" /\ b # <<>> /\ out # <<>>
        /\ LastOne(out).role = "user" => pending = {}
  BY <1>3
<1>0. b \in Seq(Blocks)
  BY <1>4
<1>m. MergeOK(out, pending, role, b, o)
  <2>1. MergeFits(out, pending, role, b)
    BY <1>0, <1>3, <1>5, <1>6, <1>7, <1>8 DEF MergeFits
  <2>2. QED BY <2>1, MergeKept
<1>9. /\ OutOK(o, Pending(role, pending, Plain(role, b)))
      /\ b = <<>> => o = out
      /\ b # <<>> => o # <<>> /\ LastOne(o).role = role
      /\ out # <<>> => o # <<>>
      /\ NoThinking(out) /\ (\A x \in Thinking : Holds(b, x) = {}) =>
           NoThinking(o)
  BY <1>m DEF MergeOK
<1> HIDE DEF o
<1>10. Pending(role, pending, Plain(role, b)) = After1(m, pending)
  <2>1. Uses(Plain(role, b)) = CallsIn(m)
        /\ Results(Plain(role, b)) = ResultsOf(m)
    BY <1>4 DEF Uses, Results, Plain
  <2>2. CASE m.role = "tool"
    BY <1>3, <2>1, <2>2 DEF Pending, After1, ResultsOf
  <2>3. CASE m.role = "user"
    <3>1. Pending(role, pending, Plain(role, b)) = {}
      BY <1>3, <2>1, <2>3 DEF Pending
    <3>2. After1(m, pending) = {}
      BY <2>3 DEF After1
    <3>3. QED BY <3>1, <3>2
  <2>4. CASE m.role = "assistant"
    BY <1>3, <2>1, <2>4 DEF Pending, After1, CallsIn
  <2>5. QED BY <2>2, <2>3, <2>4 DEF Roles
<1>11. o # <<>>
  BY <1>4, <1>9
<1>12. ASSUME m.role = "assistant", After1(m, pending) # {}
       PROVE  LastOne(o).role = "assistant"
  <2>1. CASE b # <<>>
    BY <1>3, <1>9, <1>12, <2>1
  <2>2. CASE b = <<>>
    <3>1. Called(m) = {}
      BY <1>4, <1>12, <2>2 DEF CallsIn
    <3>2. pending # {}
      BY <1>12, <3>1 DEF After1
    <3>3. QED BY <1>9, <1>12, <2>2, <3>2
  <2>3. QED BY <2>1, <2>2
<1>13. NoThinking(out) /\ ~rehydrates => NoThinking(o)
  BY <1>2, <1>4, <1>9
<1>14. QED BY <1>1, <1>9, <1>10, <1>11, <1>12, <1>13

Entry(msgs, P, i) ==
  /\ msgs[i].role \in Roles
  /\ P[i] = After1(msgs[i], P[i - 1])
  /\ msgs[i].role = "user" => P[i - 1] = {} /\ Called(msgs[i]) = {}
  /\ msgs[i].role = "tool" => msgs[i].result \in P[i - 1]
  /\ msgs[i].role = "assistant" /\ P[i - 1] # {} =>
       i > 1 /\ msgs[i - 1].role = "assistant"

Ledger(msgs, P, from, to) ==
  /\ msgs \in Seq(Messages) /\ P \in [0 .. Len(msgs) -> SUBSET Names]
  /\ P[0] = from /\ P[Len(msgs)] = to
  /\ \A i \in 1 .. Len(msgs) : Entry(msgs, P, i)

\* Messages that come when the calls "from" are pending, and leave "to".
Leads(msgs, from, to) == \E P : Ledger(msgs, P, from, to)

Opened(msgs) == msgs # <<>> /\ msgs[1].role = "user" /\ msgs[1].text

Balanced(msgs) == Opened(msgs) /\ Leads(msgs, {}, {})

\* A balanced history is translated into messages that Anthropic takes.
LEMMA AllAccepted ==
  ASSUME CacheHolds(cache), NEW msgs, Balanced(msgs), NEW kept
  PROVE  LET o == All(msgs, kept)
         IN /\ OutOK(o, {}) /\ o # <<>>
            /\ kept = {} => NoThinking(o)
<1> DEFINE n == Len(msgs)
<1>1. PICK P : Ledger(msgs, P, {}, {})
  BY DEF Balanced, Leads
<1>2. /\ msgs \in Seq(Messages) /\ n \in Nat /\ DOMAIN msgs = 1 .. n /\ n > 0
      /\ \A i \in 1 .. n : msgs[i] \in Messages
  BY <1>1 DEF Ledger, Balanced, Opened
<1>3. PICK h : /\ h[0] = <<>> /\ h[Len(msgs)] = All(msgs, kept)
               /\ \A i \in 1 .. Len(msgs) :
                    h[i] = Translate(h[i - 1], msgs[i], i \in kept)
  BY <1>2, TranslateSteps
<1> HIDE DEF n
<1> DEFINE Good(i) ==
             /\ OutOK(h[i], P[i])
             /\ i > 0 => h[i] # <<>>
             /\ i > 0 /\ msgs[i].role = "assistant" /\ P[i] # {} =>
                  LastOne(h[i]).role = "assistant"
             /\ kept = {} => NoThinking(h[i])
           T == {i \in Nat : i <= n => Good(i)}
<1>4. 0 \in T
  <2> DEFINE none == <<>>
  <2>1. none \in Seq(OutMessages) /\ Len(none) = 0 /\ DOMAIN none = {}
    OBVIOUS
  <2> HIDE DEF none
  <2>2. OutOK(none, {}) /\ NoThinking(none)
    BY <2>1 DEF OutOK, OutSides, OutEnds, NoThinking
  <2>3. h[0] = none /\ P[0] = {} /\ ~(0 > 0)
    BY <1>1, <1>3 DEF Ledger, none
  <2>4. Good(0)
    BY <2>2, <2>3
  <2>5. 0 \in Nat
    OBVIOUS
  <2> HIDE DEF Good
  <2>6. QED BY <2>4, <2>5
<1>5. ASSUME NEW k \in Nat, k \in T PROVE k + 1 \in T
  <2>1. ASSUME k + 1 <= n PROVE Good(k + 1)
    <3> DEFINE i == k + 1
               m == msgs[i]
               out == h[k]
               o == h[i]
    <3>1. i \in 1 .. n /\ i - 1 = k /\ k <= n /\ k \in 0 .. n /\ i \in Nat
          /\ i > 0
      BY <1>2, <2>1
    <3>2. Good(k)
      <4> HIDE DEF Good
      <4>1. QED BY <1>5, <3>1
    <3>3. Entry(msgs, P, i)
      BY <1>1, <3>1 DEF Ledger, n
    <3>4. o = Translate(out, m, i \in kept)
      BY <1>3, <3>1 DEF n
    <3>5. m \in Messages /\ P[k] \subseteq Names
      BY <1>1, <1>2, <3>1 DEF Ledger, n
    <3> HIDE DEF i, o
    <3>6. /\ m.role \in Roles /\ P[i] = After1(m, P[k])
          /\ m.role = "user" => P[k] = {} /\ Called(m) = {}
          /\ m.role = "tool" => m.result \in P[k]
          /\ m.role = "assistant" /\ P[k] # {} =>
               i > 1 /\ msgs[k].role = "assistant"
      BY <3>1, <3>3 DEF Entry
    <3>7. m.role = "assistant" /\ P[k] # {} =>
            out # <<>> /\ LastOne(out).role = "assistant"
      <4>1. ASSUME m.role = "assistant", P[k] # {}
            PROVE  out # <<>> /\ LastOne(out).role = "assistant"
        <5>1. i > 1 /\ msgs[k].role = "assistant"
          BY <3>6, <4>1
        <5>2. k > 0
          BY <3>1, <5>1
        <5>3. QED BY <3>2, <4>1, <5>1, <5>2
      <4>2. QED BY <4>1
    <3>8. out = <<>> => m.role = "user" /\ m.text
      <4>1. ASSUME out = <<>> PROVE m.role = "user" /\ m.text
        <5>1. ~(k > 0)
          BY <3>2, <4>1
        <5>2. k = 0 /\ i = 1
          BY <3>1, <5>1
        <5>3. QED BY <5>2 DEF Balanced, Opened
      <4>2. QED BY <4>1
    <3>9. OutOK(out, P[k]) /\ (kept = {} => NoThinking(out))
          /\ (i \in kept) \in BOOLEAN
      BY <3>2
    <3> HIDE DEF m, out
    <3>10. /\ OutOK(Translate(out, m, i \in kept), After1(m, P[k]))
           /\ Translate(out, m, i \in kept) # <<>>
           /\ m.role = "assistant" /\ After1(m, P[k]) # {} =>
                LastOne(Translate(out, m, i \in kept)).role = "assistant"
           /\ NoThinking(out) /\ ~(i \in kept) =>
                NoThinking(Translate(out, m, i \in kept))
      BY <3>5, <3>6, <3>7, <3>8, <3>9, MessageAdded
    <3>11. /\ OutOK(o, P[i]) /\ o # <<>>
           /\ m.role = "assistant" /\ P[i] # {} =>
                LastOne(o).role = "assistant"
           /\ kept = {} => NoThinking(o)
      BY <3>4, <3>6, <3>9, <3>10
    <3>12. QED BY <3>11 DEF i, o, m
  <2>2. k + 1 \in Nat
    OBVIOUS
  <2> HIDE DEF Good
  <2>3. QED BY <2>1, <2>2
<1>6. Nat \subseteq T
  <2> HIDE DEF T
  <2>1. QED BY <1>4, <1>5, Inductive
<1>7. Good(n)
  <2> HIDE DEF Good
  <2>1. n \in T /\ n <= n
    BY <1>2, <1>6
  <2>2. QED BY <2>1
<1>8. h[n] = All(msgs, kept) /\ P[n] = {}
  BY <1>1, <1>3 DEF Ledger, n
<1>9. QED BY <1>2, <1>7, <1>8

----------------------------------------------------------------------------
(* A request that is sent. *)

Paired(m) ==
  /\ m \in Seq(OutMessages) /\ m # <<>> /\ m[1].role = "user"
  /\ \A i \in 2 .. Len(m) : /\ m[i].role # m[i - 1].role
                            /\ Results(m[i]) = Uses(m[i - 1])

Accepted(r) ==
  /\ Paired(r.messages)
  /\ r.plan.thinks => LastOne(r.messages).role = "user"
  /\ r.plan.type = "enabled" => r.plan.budget < r.plan.max
  /\ r.plan.type = "disabled" => NoThinking(r.messages)

\* When no call is pending, every result has its call before it.
LEMMA AllPaired ==
  ASSUME NEW out, OutOK(out, {}), out # <<>>
  PROVE  Paired(out)
<1> DEFINE n == Len(out)
<1>1. out \in Seq(OutMessages) /\ n \in Nat /\ n > 0 /\ DOMAIN out = 1 .. n
      /\ \A i \in 1 .. n : out[i].role \in Sides
  <2>1. out \in Seq(OutMessages)
    BY DEF OutOK
  <2>2. \A i \in DOMAIN out : out[i] \in OutMessages
    BY <2>1, ElementOf
  <2>3. QED BY <2>1, <2>2 DEF OutMessages
<1>2. out[1].role = "user"
  BY <1>1 DEF OutOK, OutEnds
<1>3. \A i \in 2 .. n : out[i].role # out[i - 1].role
  BY DEF OutOK, OutSides
<1>4. \A i \in 2 .. n - 1 : Uses(out[i - 1]) = Results(out[i])
  BY DEF OutOK, OutSides
<1>5. ASSUME n > 1, out[n].role = "user"
      PROVE  Uses(out[n - 1]) = Results(out[n])
  <2>1. /\ Results(out[n]) \subseteq Uses(out[n - 1])
        /\ Uses(out[n - 1]) \ Results(out[n]) = {}
    BY <1>5 DEF OutOK, OutEnds, LastOne
  <2>2. QED BY <2>1
<1>6. ASSUME n > 1, out[n].role = "assistant"
      PROVE  Uses(out[n - 1]) = Results(out[n])
  <2>1. n \in 2 .. n /\ n - 1 \in 1 .. n /\ n \in 1 .. n
    BY <1>1, <1>6
  <2>2. out[n - 1].role = "user"
    <3>1. out[n].role # out[n - 1].role /\ out[n - 1].role \in Sides
      BY <1>1, <1>3, <2>1
    <3>2. QED BY <1>6, <3>1 DEF Sides
  <2>3. Uses(out[n - 1]) = {} /\ Results(out[n]) = {}
    BY <1>1, <1>6, <2>1, <2>2 DEF OutOK, OutSides
  <2>4. QED BY <2>3
<1> HIDE DEF n
<1>7. ASSUME NEW i \in 2 .. n PROVE Results(out[i]) = Uses(out[i - 1])
  <2>1. CASE i = n
    <3>1. n > 1 /\ out[n].role \in Sides
      BY <1>1, <2>1
    <3>2. QED BY <1>5, <1>6, <2>1, <3>1 DEF Sides
  <2>2. CASE i # n
    <3>1. i \in 2 .. n - 1
      BY <1>1, <2>2
    <3>2. QED BY <1>4, <3>1
  <2>3. QED BY <2>1, <2>2
<1>8. QED BY <1>1, <1>2, <1>3, <1>7 DEF Paired, n

\* Without a prefill.
LEMMA FrontPaired ==
  ASSUME NEW out, Paired(out), LastOne(out).role = "assistant"
  PROVE  /\ Paired(Front(out)) /\ LastOne(Front(out)).role = "user"
         /\ NoThinking(out) => NoThinking(Front(out))
<1> DEFINE n == Len(out)
           f == Front(out)
<1>1. out \in Seq(OutMessages) /\ n \in Nat /\ n > 0 /\ DOMAIN out = 1 .. n
      /\ \A i \in 1 .. n : out[i].role \in Sides
  <2>1. out \in Seq(OutMessages) /\ out # <<>>
    BY DEF Paired
  <2>2. \A i \in DOMAIN out : out[i] \in OutMessages
    BY <2>1, ElementOf
  <2>3. QED BY <2>1, <2>2 DEF OutMessages
<1>2. n > 1
  <2>1. out[1].role = "user" /\ out[n].role = "assistant"
    BY DEF Paired, LastOne
  <2>2. n # 1
    BY <2>1
  <2>3. QED BY <1>1, <2>2
<1>3. /\ f \in Seq(OutMessages) /\ Len(f) = n - 1 /\ DOMAIN f = 1 .. n - 1
      /\ \A i \in 1 .. n - 1 : f[i] = out[i]
  BY <1>1, <1>2 DEF Front
<1> HIDE DEF n, f
<1>4. f # <<>> /\ f[1] = out[1] /\ LastOne(f) = out[n - 1]
  <2>1. 1 \in 1 .. n - 1 /\ n - 1 \in 1 .. n - 1 /\ n - 1 # 0
    BY <1>1, <1>2
  <2>2. Len(f) # 0 /\ f[1] = out[1] /\ f[Len(f)] = out[n - 1]
    BY <1>3, <2>1
  <2>3. f # <<>>
    <3>1. Len(<<>>) = 0
      OBVIOUS
    <3>2. QED BY <2>2, <3>1
  <2>4. QED BY <2>2, <2>3 DEF LastOne
<1>5. /\ out[1].role = "user"
      /\ \A i \in 2 .. n : /\ out[i].role # out[i - 1].role
                           /\ Results(out[i]) = Uses(out[i - 1])
  BY DEF Paired, n
<1>6. out[n - 1].role = "user"
  <2>1. n \in 2 .. n /\ n - 1 \in 1 .. n
    BY <1>1, <1>2
  <2>2. out[n].role # out[n - 1].role /\ out[n - 1].role \in Sides
        /\ out[n].role = "assistant"
    BY <1>1, <1>5, <2>1 DEF LastOne, n
  <2>3. QED BY <2>2 DEF Sides
<1>7. ASSUME NEW i \in 2 .. n - 1
      PROVE  f[i].role # f[i - 1].role /\ Results(f[i]) = Uses(f[i - 1])
  <2>1. i \in 2 .. n /\ i \in 1 .. n - 1 /\ i - 1 \in 1 .. n - 1
    BY <1>1, <1>2
  <2>2. f[i] = out[i] /\ f[i - 1] = out[i - 1]
    BY <1>3, <2>1
  <2>3. QED BY <1>5, <2>1, <2>2
<1>8. Paired(f)
  BY <1>3, <1>4, <1>5, <1>7 DEF Paired
<1>9. NoThinking(out) => NoThinking(f)
  <2>1. \A i \in DOMAIN f : i \in DOMAIN out /\ f[i] = out[i]
    BY <1>1, <1>2, <1>3
  <2>2. QED BY <2>1 DEF NoThinking
<1>10. QED BY <1>4, <1>6, <1>8, <1>9 DEF f

\* The budget is below the tokens of the answer, which are raised for it.
LEMMA BudgetFits ==
  ASSUME NEW w \in Wanted, ThinkingPlan(w).type = "enabled"
  PROVE  ThinkingPlan(w).budget < ThinkingPlan(w).max
<1> DEFINE effort == IF w.effort = "" /\ w.model.thinking THEN "medium"
                     ELSE w.effort
           max == IF w.max = 0 THEN DefaultMaxTokens ELSE w.max
           budget == Budget(effort)
           raised == IF max <= budget THEN budget + 4096 ELSE max
<1>1. max \in Nat /\ budget \in {2048, 4096, 8192}
  <2>1. w.max \in Nat
    BY DEF Wanted
  <2>2. max \in Nat
    BY <2>1 DEF DefaultMaxTokens
  <2>3. budget \in {2048, 4096, 8192}
    <3> HIDE DEF effort
    <3>1. CASE effort = "low"
      BY <3>1 DEF Budget
    <3>2. CASE effort = "high"
      BY <3>2 DEF Budget
    <3>3. CASE effort # "low" /\ effort # "high"
      BY <3>3 DEF Budget
    <3>4. QED BY <3>1, <3>2, <3>3
  <2> HIDE DEF max, budget
  <2>4. QED BY <2>2, <2>3
<1>2. effort # "" /\ ~IsAdaptiveThinking(w.model) =>
        ThinkingPlan(w) = [type |-> "enabled", budget |-> budget,
                           thinks |-> TRUE, max |-> raised]
  BY DEF ThinkingPlan
<1>3. effort # "" /\ ~IsAdaptiveThinking(w.model)
  <2>1. IsAdaptiveThinking(w.model) \in BOOLEAN
    BY DEF IsAdaptiveThinking
  <2>2. CASE effort = ""
    <3>1. ThinkingPlan(w).type = "absent"
      BY <2>2 DEF ThinkingPlan
    <3>2. QED BY <3>1
  <2>3. CASE effort = "none" /\ IsAdaptiveThinking(w.model)
    <3>1. ThinkingPlan(w).type = "disabled"
      BY <2>3 DEF ThinkingPlan
    <3>2. QED BY <3>1
  <2>4. CASE effort \notin {"", "none"} /\ IsAdaptiveThinking(w.model)
    <3>1. ThinkingPlan(w).type = "adaptive"
      BY <2>4 DEF ThinkingPlan
    <3>2. QED BY <3>1
  <2> HIDE DEF effort
  <2>5. QED BY <2>1, <2>2, <2>3, <2>4
<1> HIDE DEF max, budget, effort, raised
<1>4. ThinkingPlan(w).budget = budget /\ ThinkingPlan(w).max = raised
  <2> DEFINE p == ThinkingPlan(w)
  <2>1. p = [type |-> "enabled", budget |-> budget, thinks |-> TRUE,
             max |-> raised]
    BY <1>2, <1>3
  <2> HIDE DEF p
  <2>2. p.budget = budget /\ p.max = raised
    BY <2>1
  <2>3. QED BY <2>2 DEF p
<1>5. CASE max <= budget
  <2>1. budget < budget + 4096
    BY <1>1
  <2>2. raised = budget + 4096
    BY <1>5 DEF raised
  <2>3. QED BY <1>4, <2>1, <2>2
<1>6. CASE ~(max <= budget)
  <2>1. budget < max
    BY <1>1, <1>6
  <2>2. raised = max
    BY <1>6 DEF raised
  <2>3. QED BY <1>4, <2>1, <2>2
<1>7. QED BY <1>5, <1>6

WorkOK(w) ==
  /\ w.wanted \in Wanted /\ Balanced(w.msgs)
  /\ ThinkingPlan(w.wanted).type = "disabled" => w.kept = {}

Cut(plan, all) ==
  IF plan.thinks /\ all # <<>> /\ Last(all).role = "assistant"
  THEN Front(all) ELSE all

Sent(w) ==
  LET plan == ThinkingPlan(w.wanted)
      cut == Cut(plan, TranslateMessages(w.msgs, w.kept))
  IN [plan |-> plan, messages |-> IF cut = <<>> THEN <<Hello>> ELSE cut,
      kept |-> w.kept]

LEMMA SentAccepted ==
  ASSUME CacheHolds(cache), NEW w, WorkOK(w)
  PROVE  Accepted(Sent(w))
<1> DEFINE plan == ThinkingPlan(w.wanted)
           all == TranslateMessages(w.msgs, w.kept)
           cut == Cut(plan, all)
<1>1. w.wanted \in Wanted /\ Balanced(w.msgs)
      /\ (plan.type = "disabled" => w.kept = {})
  BY DEF WorkOK
<1>2. /\ OutOK(All(w.msgs, w.kept), {}) /\ All(w.msgs, w.kept) # <<>>
      /\ w.kept = {} => NoThinking(All(w.msgs, w.kept))
  BY <1>1, AllAccepted
<1>3. all = All(w.msgs, w.kept)
  <2> DEFINE o == All(w.msgs, w.kept)
  <2>1. all = IF o # <<>> /\ o[1].role # "user" THEN <<Hello>> \o o ELSE o
    BY DEF TranslateMessages, All
  <2> HIDE DEF o, all
  <2>2. Paired(o)
    BY <1>2, AllPaired DEF o
  <2>3. o[1].role = "user"
    BY <2>2 DEF Paired
  <2>4. QED BY <2>1, <2>3 DEF o
<1> HIDE DEF all, plan
<1>4. Paired(all) /\ all # <<>>
  BY <1>2, <1>3, AllPaired
<1>5. plan.type = "disabled" => NoThinking(all)
  BY <1>1, <1>2, <1>3
<1>6. /\ Paired(cut) /\ (plan.thinks => LastOne(cut).role = "user")
      /\ NoThinking(all) => NoThinking(cut)
  <2>1. Last(all) = LastOne(all)
    BY DEF Last, LastOne
  <2>2. CASE plan.thinks /\ LastOne(all).role = "assistant"
    <3>1. cut = Front(all)
      BY <1>4, <2>1, <2>2 DEF Cut
    <3>2. QED BY <1>4, <2>2, <3>1, FrontPaired
  <2>3. CASE ~(plan.thinks /\ LastOne(all).role = "assistant")
    <3>1. cut = all
      BY <2>1, <2>3 DEF Cut
    <3>2. LastOne(all).role \in Sides
      <4>1. all \in Seq(OutMessages) /\ all # <<>>
        BY <1>4 DEF Paired
      <4>2. LastOne(all) \in OutMessages
        BY <4>1 DEF LastOne
      <4>3. QED BY <4>2 DEF OutMessages
    <3>3. plan.thinks => LastOne(all).role = "user"
      BY <2>3, <3>2 DEF Sides
    <3>4. QED BY <1>4, <3>1, <3>3
  <2>4. QED BY <2>2, <2>3
<1> HIDE DEF cut
<1>7. cut # <<>>
  BY <1>6 DEF Paired
<1>8. /\ Sent(w).plan = plan /\ Sent(w).messages = cut
  BY <1>7 DEF Sent, plan, cut, all
<1>9. plan.type = "enabled" => plan.budget < plan.max
  BY <1>1, BudgetFits DEF plan
<1>10. QED BY <1>5, <1>6, <1>8, <1>9 DEF Accepted

----------------------------------------------------------------------------
(* Turns of an agent. *)

\* Messages after messages.
LEMMA LeadsBoth ==
  ASSUME NEW m, NEW x, NEW from, NEW mid, NEW to,
         Leads(m, from, mid), Leads(x, mid, to)
  PROVE  Leads(Cat(m, x), from, to)
<1> DEFINE n == Len(m)
           z == Cat(m, x)
<1>1. PICK P : Ledger(m, P, from, mid)
  BY DEF Leads
<1>2. PICK Q : Ledger(x, Q, mid, to)
  BY DEF Leads
<1> DEFINE R == [i \in 0 .. n + Len(x) |-> IF i <= n THEN P[i] ELSE Q[i - n]]
<1>3. /\ m \in Seq(Messages) /\ x \in Seq(Messages)
      /\ n \in Nat /\ Len(x) \in Nat
      /\ P \in [0 .. n -> SUBSET Names] /\ Q \in [0 .. Len(x) -> SUBSET Names]
      /\ P[0] = from /\ P[n] = mid /\ Q[0] = mid /\ Q[Len(x)] = to
  BY <1>1, <1>2 DEF Ledger
<1>4. /\ z \in Seq(Messages) /\ Len(z) = n + Len(x)
      /\ \A k \in DOMAIN m : k \in DOMAIN z /\ z[k] = m[k]
      /\ \A k \in DOMAIN x : /\ n + k \in DOMAIN z
                             /\ z[n + k] = x[k]
      /\ \A k \in DOMAIN z : k \in DOMAIN m \/ k - n \in DOMAIN x
  BY <1>3, Joined
<1>5. DOMAIN m = 1 .. n /\ DOMAIN x = 1 .. Len(x)
  BY <1>3
<1> HIDE DEF n, z
<1>6. /\ \A k \in 0 .. n : R[k] = P[k]
      /\ \A k \in 0 .. Len(x) : R[n + k] = Q[k]
      /\ R \in [0 .. n + Len(x) -> SUBSET Names]
  <2>1. \A k \in 0 .. n : R[k] = P[k] /\ R[k] \in SUBSET Names
    BY <1>3
  <2>2. ASSUME NEW k \in 0 .. Len(x)
        PROVE  R[n + k] = Q[k] /\ R[n + k] \in SUBSET Names
    <3>1. /\ n + k \in 0 .. n + Len(x)
          /\ k = 0 => n + k <= n /\ n + k = n
          /\ k # 0 => ~(n + k <= n)
          /\ (n + k) - n = k
      BY <1>3
    <3>2. R[n + k] = IF n + k <= n THEN P[n + k] ELSE Q[(n + k) - n]
      BY <3>1
    <3> HIDE DEF R
    <3>3. R[n + k] = Q[k]
      BY <1>3, <3>1, <3>2
    <3>4. Q[k] \in SUBSET Names
      BY <1>3
    <3>5. QED BY <3>3, <3>4
  <2>3. \A i \in 0 .. n + Len(x) :
          i \in 0 .. n \/ (i - n \in 0 .. Len(x) /\ n + (i - n) = i)
    BY <1>3
  <2>4. \A i \in 0 .. n + Len(x) : R[i] \in SUBSET Names
    <3> HIDE DEF R
    <3>1. QED BY <2>1, <2>2, <2>3
  <2>5. R = [i \in 0 .. n + Len(x) |-> R[i]]
    OBVIOUS
  <2> HIDE DEF R
  <2>6. R \in [0 .. n + Len(x) -> SUBSET Names]
    BY <2>4, <2>5
  <2>7. QED BY <2>1, <2>2, <2>6
<1> HIDE DEF R
<1>7. ASSUME NEW i \in 1 .. n PROVE Entry(z, R, i)
  <2>1. Entry(m, P, i)
    BY <1>1 DEF Ledger, n
  <2>2. /\ z[i] = m[i] /\ R[i] = P[i] /\ R[i - 1] = P[i - 1]
        /\ i > 1 => z[i - 1] = m[i - 1]
    <3>1. i \in 0 .. n /\ i - 1 \in 0 .. n /\ (i > 1 => i - 1 \in 1 .. n)
      BY <1>3
    <3>2. QED BY <1>4, <1>5, <1>6, <3>1
  <2>3. QED BY <2>1, <2>2 DEF Entry
<1>8. ASSUME NEW j \in 1 .. Len(x) PROVE Entry(z, R, n + j)
  <2>1. Entry(x, Q, j)
    BY <1>2 DEF Ledger
  <2>2. /\ z[n + j] = x[j] /\ R[n + j] = Q[j] /\ R[(n + j) - 1] = Q[j - 1]
        /\ j > 1 => z[(n + j) - 1] = x[j - 1]
    <3>1. /\ j \in 0 .. Len(x) /\ j - 1 \in 0 .. Len(x)
          /\ j > 1 => j - 1 \in 1 .. Len(x)
          /\ (n + j) - 1 = n + (j - 1)
      BY <1>3
    <3>2. QED BY <1>4, <1>5, <1>6, <3>1
  <2>3. j > 1 => n + j > 1
    BY <1>3
  <2>4. QED BY <2>1, <2>2, <2>3 DEF Entry
<1>9. ASSUME NEW i \in 1 .. Len(z) PROVE Entry(z, R, i)
  <2>1. i \in 1 .. n \/ (i - n \in 1 .. Len(x) /\ n + (i - n) = i)
    BY <1>3, <1>4
  <2>2. CASE i \in 1 .. n
    BY <1>7, <2>2
  <2>3. CASE i - n \in 1 .. Len(x) /\ n + (i - n) = i
    <3>1. Entry(z, R, n + (i - n))
      BY <1>8, <2>3
    <3>2. QED BY <2>3, <3>1
  <2>4. QED BY <2>1, <2>2, <2>3
<1>10. R[0] = from /\ R[Len(z)] = to
  BY <1>3, <1>4, <1>6
<1>11. Ledger(z, R, from, to)
  BY <1>4, <1>6, <1>9, <1>10 DEF Ledger
<1>12. QED BY <1>11 DEF Leads, z

\* One message.
LEMMA LeadsOne ==
  ASSUME NEW m \in Messages, NEW from, from \subseteq Names,
         After1(m, from) \subseteq Names, m.role \in Roles,
         m.role = "user" => from = {} /\ Called(m) = {},
         m.role = "tool" => m.result \in from,
         m.role = "assistant" => from = {}
  PROVE  Leads(One(m), from, After1(m, from))
<1> DEFINE x == One(m)
           P == [i \in 0 .. 1 |-> IF i = 0 THEN from ELSE After1(m, from)]
<1>1. x \in Seq(Messages) /\ Len(x) = 1 /\ x[1] = m
  BY DEF One
<1>2. P \in [0 .. 1 -> SUBSET Names] /\ P[0] = from /\ P[1] = After1(m, from)
  OBVIOUS
<1> HIDE DEF x, P
<1>3. Entry(x, P, 1)
  <2>1. 1 - 1 = 0
    OBVIOUS
  <2>2. QED BY <1>1, <1>2, <2>1 DEF Entry
<1>4. \A i \in 1 .. Len(x) : Entry(x, P, i)
  BY <1>1, <1>3
<1>5. Ledger(x, P, from, After1(m, from))
  BY <1>1, <1>2, <1>4 DEF Ledger
<1>6. QED BY <1>5 DEF Leads, x

CallsTo(ids, i) == {ids[k] : k \in {j \in DOMAIN ids : j <= i}}
CallsPast(ids, i) == {ids[k] : k \in {j \in DOMAIN ids : j > i}}
AllCalls(ids) == {ids[k] : k \in DOMAIN ids}
ResultsFor(ids) == [i \in DOMAIN ids |-> Result(ids[i])]
Split(c, reasons, ids) ==
  [i \in DOMAIN ids |->
     Spoken(c, reasons /\ i = 1, <<ids[i]>>, c.said /\ i = 1)]

LEMMA RecordIs ==
  \A role \in {"system", "user", "assistant", "tool"}, text \in BOOLEAN,
     reasons \in BOOLEAN, calls \in Seq(Names), result \in Names \cup {<<>>} :
    [role |-> role, text |-> text, reasons |-> reasons, calls |-> calls,
     result |-> result] \in Messages
BY DEF Messages

LEMMA MessagesAre ==
  /\ \A text \in BOOLEAN :
       LET m == Message("user", text)
       IN m \in Messages /\ m.role = "user" /\ Called(m) = {}
  /\ \A id \in Names : LET m == Result(id)
                       IN m \in Messages /\ m.role = "tool" /\ m.result = id
<1>1. ASSUME NEW text \in BOOLEAN
      PROVE  LET m == Message("user", text)
             IN m \in Messages /\ m.role = "user" /\ Called(m) = {}
  <2> DEFINE none == <<>>
  <2>1. none \in Seq(Names) /\ DOMAIN none = {} /\ none \in Names \cup {<<>>}
    OBVIOUS
  <2> HIDE DEF none
  <2>2. Message("user", text) =
          [role |-> "user", text |-> text, reasons |-> FALSE, calls |-> none,
           result |-> none]
    BY DEF Message, none
  <2> DEFINE m == Message("user", text)
  <2>3. /\ m = [role |-> "user", text |-> text, reasons |-> FALSE,
                calls |-> none, result |-> none]
        /\ m.role = "user" /\ m.calls = none
    BY <2>2
  <2>4. m \in Messages
    <3>1. /\ "user" \in {"system", "user", "assistant", "tool"}
          /\ text \in BOOLEAN /\ FALSE \in BOOLEAN
      OBVIOUS
    <3>2. [role |-> "user", text |-> text, reasons |-> FALSE, calls |-> none,
           result |-> none] \in Messages
      BY <2>1, <3>1, RecordIs, Zenon
    <3> HIDE DEF m
    <3>3. QED BY <2>3, <3>2, Zenon
  <2> HIDE DEF m
  <2>5. Called(m) = {}
    BY <2>1, <2>3 DEF Called
  <2>6. QED BY <2>3, <2>4, <2>5 DEF m
<1>2. ASSUME NEW id \in Names
      PROVE  LET m == Result(id)
             IN m \in Messages /\ m.role = "tool" /\ m.result = id
  <2>1. ASSUME NEW text \in BOOLEAN
        PROVE  /\ Message("tool", text) \in Messages
               /\ Message("tool", text).role = "tool"
    <3> DEFINE none == <<>>
    <3>1. none \in Seq(Names) /\ none \in Names \cup {<<>>}
      OBVIOUS
    <3> HIDE DEF none
    <3> DEFINE r == Message("tool", text)
    <3>2. r = [role |-> "tool", text |-> text, reasons |-> FALSE,
               calls |-> none, result |-> none]
      BY DEF Message, none
    <3>3. r \in Messages
      BY <3>1, <3>2, RecordIs
    <3>4. r.role = "tool"
      BY <3>2
    <3>5. QED BY <3>3, <3>4
  <2> DEFINE r == Message("tool", TRUE)
  <2>2. TRUE \in BOOLEAN
    OBVIOUS
  <2>3. r \in Messages /\ r.role = "tool"
    BY <2>1, <2>2
  <2>4. Result(id) = [r EXCEPT !.result = id]
    BY DEF Result
  <2> HIDE DEF r
  <2>5. Result(id) \in Messages /\ Result(id).role = "tool"
        /\ Result(id).result = id
    BY <2>3, <2>4 DEF Messages
  <2>6. QED BY <2>5
<1>3. QED BY <1>1, <1>2

\* What an agent says.
LEMMA SpokenIs ==
  ASSUME NEW c, NEW reasons \in BOOLEAN, NEW calls \in Seq(Names),
         NEW text \in BOOLEAN
  PROVE  /\ Spoken(c, reasons, calls, text) \in Messages
         /\ Spoken(c, reasons, calls, text).role = "assistant"
         /\ Spoken(c, reasons, calls, text).calls = calls
<1> DEFINE none == <<>>
<1>1. none \in Names \cup {<<>>}
  OBVIOUS
<1> HIDE DEF none
<1> DEFINE r == Message("assistant", text)
           m == Spoken(c, reasons, calls, text)
<1>2. r = [role |-> "assistant", text |-> text, reasons |-> FALSE,
           calls |-> none, result |-> none]
  BY DEF Message, none
<1>3. none \in Seq(Names)
  BY DEF none
<1>4. r \in Messages /\ r.role = "assistant"
  <2>1. r.role = "assistant"
    BY <1>2
  <2>2. r \in Messages
    BY <1>1, <1>2, <1>3, RecordIs
  <2>3. QED BY <2>1, <2>2
<1>5. m = [r EXCEPT !.reasons = reasons, !.calls = calls]
  BY DEF Spoken
<1> HIDE DEF r, m
<1>6. m \in Messages /\ m.role = "assistant" /\ m.calls = calls
  BY <1>4, <1>5 DEF Messages
<1>7. QED BY <1>6 DEF m

Distinct(ids) == \A i, j \in DOMAIN ids : ids[i] = ids[j] => i = j

\* The calls of an answer in one message.
LEMMA AnswerLeads ==
  ASSUME NEW c, NEW reasons \in BOOLEAN, NEW ids \in Seq(Names),
         NEW said \in BOOLEAN
  PROVE  Leads(One(Spoken(c, reasons, ids, said)), {}, AllCalls(ids))
<1> DEFINE m == Spoken(c, reasons, ids, said)
<1>1. m \in Messages /\ m.role = "assistant" /\ m.calls = ids
  BY SpokenIs
<1> HIDE DEF m
<1>2. After1(m, {}) = AllCalls(ids)
  BY <1>1 DEF After1, Called, AllCalls
<1>3. AllCalls(ids) \subseteq Names
  BY ElementOf DEF AllCalls
<1>4. {} \subseteq Names /\ m.role \in Roles /\ m.role # "user"
      /\ m.role # "tool" /\ After1(m, {}) \subseteq Names
  BY <1>1, <1>2, <1>3 DEF Roles
<1>5. Leads(One(m), {}, After1(m, {}))
  BY <1>1, <1>4, LeadsOne
<1>6. QED BY <1>2, <1>5 DEF m

\* Calls in messages of their own.
LEMMA SplitLeads ==
  ASSUME NEW c, c.said \in BOOLEAN, NEW reasons \in BOOLEAN,
         NEW ids \in Seq(Names)
  PROVE  Leads(Split(c, reasons, ids), {}, AllCalls(ids))
<1> DEFINE n == Len(ids)
           x == Split(c, reasons, ids)
           P == [i \in 0 .. n |-> CallsTo(ids, i)]
<1>1. n \in Nat /\ DOMAIN ids = 1 .. n /\ \A i \in 1 .. n : ids[i] \in Names
  BY ElementOf
<1>2. DOMAIN x = 1 .. n
  BY <1>1 DEF Split
<1>3. ASSUME NEW i \in 1 .. n
      PROVE  /\ x[i] \in Messages /\ x[i].role = "assistant"
             /\ Called(x[i]) = {ids[i]}
  <2> DEFINE one == <<ids[i]>>
             r == reasons /\ i = 1
             t == c.said /\ i = 1
  <2>1. one \in Seq(Names) /\ DOMAIN one = {1} /\ one[1] = ids[i]
    BY <1>1
  <2>2. r \in BOOLEAN /\ t \in BOOLEAN
    OBVIOUS
  <2>3. x[i] = Spoken(c, r, one, t)
    BY <1>1 DEF Split
  <2> HIDE DEF one, r, t, x
  <2>4. x[i] \in Messages /\ x[i].role = "assistant" /\ x[i].calls = one
    BY <2>1, <2>2, <2>3, SpokenIs
  <2>5. Called(x[i]) = {ids[i]}
    BY <2>1, <2>4 DEF Called
  <2>6. QED BY <2>4, <2>5
<1>4. x \in Seq(Messages) /\ Len(x) = n
  <2> DEFINE M == Messages
  <2>1. x = [i \in 1 .. n |-> x[i]]
    BY <1>1 DEF Split
  <2>2. \A i \in 1 .. n : x[i] \in M
    BY <1>3
  <2> HIDE DEF x, M, n
  <2>3. x \in [1 .. n -> M]
    BY <2>1, <2>2
  <2>4. x \in Seq(M) /\ Len(x) = n
    BY <1>1, <2>3, ListIs
  <2>5. QED BY <2>4 DEF M
<1> HIDE DEF n, x
<1>5. \A i \in 0 .. n : P[i] = CallsTo(ids, i)
  OBVIOUS
<1>6. P \in [0 .. n -> SUBSET Names]
  <2>1. \A i \in 0 .. n : CallsTo(ids, i) \in SUBSET Names
    BY <1>1 DEF CallsTo
  <2>2. QED BY <2>1
<1> HIDE DEF P
<1>7. P[0] = {} /\ P[n] = AllCalls(ids)
  <2>1. 0 \in 0 .. n /\ n \in 0 .. n
    BY <1>1
  <2>2. {j \in DOMAIN ids : j <= 0} = {}
    BY <1>1
  <2>3. {j \in DOMAIN ids : j <= n} = DOMAIN ids
    BY <1>1
  <2>4. CallsTo(ids, 0) = {}
    BY <2>2 DEF CallsTo
  <2>5. CallsTo(ids, n) = AllCalls(ids)
    BY <2>3 DEF CallsTo, AllCalls
  <2>6. QED BY <1>5, <2>1, <2>4, <2>5
<1>8. ASSUME NEW i \in 1 .. n PROVE Entry(x, P, i)
  <2>1. i \in 0 .. n /\ i - 1 \in 0 .. n
    BY <1>1
  <2>2. P[i] = CallsTo(ids, i) /\ P[i - 1] = CallsTo(ids, i - 1)
    BY <1>5, <2>1
  <2>3. CallsTo(ids, i) = CallsTo(ids, i - 1) \cup {ids[i]}
    <3>1. {j \in DOMAIN ids : j <= i} =
            {j \in DOMAIN ids : j <= i - 1} \cup {i}
      BY <1>1
    <3>2. QED BY <3>1 DEF CallsTo
  <2>4. P[i] = After1(x[i], P[i - 1])
    BY <1>3, <2>2, <2>3 DEF After1
  <2>5. P[i - 1] # {} => i > 1 /\ x[i - 1].role = "assistant"
    <3>1. i = 1 => P[i - 1] = {}
      BY <1>7
    <3>2. i # 1 => i > 1 /\ i - 1 \in 1 .. n
      BY <1>1
    <3>3. QED BY <1>3, <3>1, <3>2
  <2>6. x[i].role = "assistant" /\ x[i].role \in Roles
        /\ x[i].role # "user" /\ x[i].role # "tool"
    BY <1>3 DEF Roles
  <2>7. QED BY <2>4, <2>5, <2>6 DEF Entry
<1>9. Ledger(x, P, {}, AllCalls(ids))
  BY <1>4, <1>6, <1>7, <1>8 DEF Ledger
<1>10. QED BY <1>9 DEF Leads, x

\* A result for each call.
LEMMA ResultsLead ==
  ASSUME NEW ids \in Seq(Names), Distinct(ids)
  PROVE  Leads(ResultsFor(ids), AllCalls(ids), {})
<1> DEFINE n == Len(ids)
           x == ResultsFor(ids)
           P == [i \in 0 .. n |-> CallsPast(ids, i)]
<1>1. n \in Nat /\ DOMAIN ids = 1 .. n /\ \A i \in 1 .. n : ids[i] \in Names
  BY ElementOf
<1>2. DOMAIN x = 1 .. n
  BY <1>1 DEF ResultsFor
<1>3. ASSUME NEW i \in 1 .. n
      PROVE  x[i] \in Messages /\ x[i].role = "tool" /\ x[i].result = ids[i]
  <2>1. x[i] = Result(ids[i])
    BY <1>1 DEF ResultsFor
  <2>2. QED BY <1>1, <2>1, MessagesAre
<1>4. x \in Seq(Messages) /\ Len(x) = n
  <2> DEFINE M == Messages
  <2>1. x = [i \in 1 .. n |-> x[i]]
    BY <1>1 DEF ResultsFor
  <2>2. \A i \in 1 .. n : x[i] \in M
    BY <1>3
  <2> HIDE DEF x, M, n
  <2>3. x \in [1 .. n -> M]
    BY <2>1, <2>2
  <2>4. x \in Seq(M) /\ Len(x) = n
    BY <1>1, <2>3, ListIs
  <2>5. QED BY <2>4 DEF M
<1> HIDE DEF n, x
<1>5. \A i \in 0 .. n : P[i] = CallsPast(ids, i)
  OBVIOUS
<1>6. P \in [0 .. n -> SUBSET Names]
  <2>1. \A i \in 0 .. n : CallsPast(ids, i) \in SUBSET Names
    BY <1>1 DEF CallsPast
  <2>2. QED BY <2>1
<1> HIDE DEF P
<1>7. P[0] = AllCalls(ids) /\ P[n] = {}
  <2>1. 0 \in 0 .. n /\ n \in 0 .. n
    BY <1>1
  <2>2. {j \in DOMAIN ids : j > 0} = DOMAIN ids
    BY <1>1
  <2>3. {j \in DOMAIN ids : j > n} = {}
    BY <1>1
  <2>4. CallsPast(ids, 0) = AllCalls(ids)
    BY <2>2 DEF CallsPast, AllCalls
  <2>5. CallsPast(ids, n) = {}
    BY <2>3 DEF CallsPast
  <2>6. QED BY <1>5, <2>1, <2>4, <2>5
<1>8. ASSUME NEW i \in 1 .. n PROVE Entry(x, P, i)
  <2>1. i \in 0 .. n /\ i - 1 \in 0 .. n
    BY <1>1
  <2>2. P[i] = CallsPast(ids, i) /\ P[i - 1] = CallsPast(ids, i - 1)
    BY <1>5, <2>1
  <2>3. ids[i] \in CallsPast(ids, i - 1)
    <3>1. i \in {j \in DOMAIN ids : j > i - 1}
      BY <1>1
    <3>2. QED BY <3>1 DEF CallsPast
  <2>4. CallsPast(ids, i) = CallsPast(ids, i - 1) \ {ids[i]}
    <3>1. {j \in DOMAIN ids : j > i} = {j \in DOMAIN ids : j > i - 1} \ {i}
      BY <1>1
    <3>2. \A j \in DOMAIN ids : ids[j] = ids[i] => j = i
      BY <1>1 DEF Distinct
    <3>3. QED BY <3>1, <3>2 DEF CallsPast
  <2>5. P[i] = After1(x[i], P[i - 1])
    BY <1>3, <2>2, <2>4 DEF After1
  <2>6. x[i].role = "tool" /\ x[i].role \in Roles
        /\ x[i].role # "user" /\ x[i].role # "assistant"
    BY <1>3 DEF Roles
  <2>7. x[i].result \in P[i - 1]
    BY <1>3, <2>2, <2>3
  <2>8. QED BY <2>5, <2>6, <2>7 DEF Entry
<1>9. Ledger(x, P, AllCalls(ids), {})
  BY <1>4, <1>6, <1>7, <1>8 DEF Ledger
<1>10. QED BY <1>9 DEF Leads, x

\* An answer without calls, and another prompt.
LEMMA PromptLeads ==
  ASSUME NEW c, NEW reasons \in BOOLEAN, NEW ids \in Seq(Names),
         DOMAIN ids = {}, NEW said \in BOOLEAN, NEW text \in BOOLEAN
  PROVE  Leads(Two(Spoken(c, reasons, ids, said), Message("user", text)),
               {}, {})
<1> DEFINE m == Spoken(c, reasons, ids, said)
           u == Message("user", text)
<1>1. AllCalls(ids) = {}
  BY DEF AllCalls
<1>2. Leads(One(m), {}, {})
  BY <1>1, AnswerLeads
<1>3. u \in Messages /\ u.role = "user" /\ Called(u) = {}
  BY MessagesAre
<1> HIDE DEF m, u
<1>4. After1(u, {}) = {}
  BY <1>3 DEF After1
<1>5. {} \subseteq Names /\ u.role \in Roles /\ u.role # "tool"
      /\ u.role # "assistant" /\ After1(u, {}) \subseteq Names
  BY <1>3, <1>4 DEF Roles
<1>6. Leads(One(u), {}, After1(u, {}))
  BY <1>3, <1>5, LeadsOne
<1>7. Leads(One(u), {}, {})
  BY <1>4, <1>6
<1>8. Leads(Cat(One(m), One(u)), {}, {})
  BY <1>2, <1>7, LeadsBoth
<1>9. Cat(One(m), One(u)) = Two(m, u)
  BY JoinedTwo DEF Cat, One, Join
<1>10. QED BY <1>8, <1>9 DEF m, u

----------------------------------------------------------------------------
(* The history of an agent: one system message, and what comes behind it.  *)

Rest(h) == [k \in 1 .. Len(h) - 1 |-> h[k + 1]]
HistoryAt(h, pending) ==
  /\ h \in Seq(Messages) /\ Len(h) >= 2 /\ h[1].role = "system"
  /\ Opened(Rest(h)) /\ Leads(Rest(h), {}, pending)
HistoryOK(h) == HistoryAt(h, {})
Hoisted(h) == Picked(h, {i \in DOMAIN h : h[i].role # "system"})

LEMMA SameList ==
  ASSUME NEW T, NEW s \in Seq(T), NEW t \in Seq(T), Len(s) = Len(t),
         \A k \in 1 .. Len(s) : s[k] = t[k]
  PROVE  s = t
OBVIOUS

LEMMA RestIs ==
  ASSUME NEW T, NEW h \in Seq(T), Len(h) >= 1
  PROVE  /\ Rest(h) \in Seq(T) /\ Len(Rest(h)) = Len(h) - 1
         /\ \A k \in 1 .. Len(h) - 1 : Rest(h)[k] = h[k + 1]
<1> DEFINE n == Len(h) - 1
           r == Rest(h)
<1>1. n \in Nat /\ \A k \in 1 .. n : h[k + 1] \in T
  <2>1. Len(h) \in Nat /\ DOMAIN h = 1 .. Len(h)
    OBVIOUS
  <2>2. \A k \in 1 .. n : k + 1 \in DOMAIN h
    BY <2>1
  <2>3. QED BY <2>1, <2>2, ElementOf
<1>2. r = [k \in 1 .. n |-> h[k + 1]]
  BY DEF Rest
<1> HIDE DEF r, n
<1>3. r \in [1 .. n -> T] /\ \A k \in 1 .. n : r[k] = h[k + 1]
  BY <1>1, <1>2
<1>4. r \in Seq(T) /\ Len(r) = n
  BY <1>1, <1>3, ListIs
<1>5. QED BY <1>3, <1>4 DEF r, n

\* The roles behind the system message.
LEMMA RestRoles ==
  ASSUME NEW m, Balanced(m)
  PROVE  \A i \in 1 .. Len(m) : m[i].role \in Roles
<1>1. PICK P : Ledger(m, P, {}, {})
  BY DEF Balanced, Leads
<1>2. QED BY <1>1 DEF Ledger, Entry

\* System messages are hoisted: the rest is what is translated.
LEMMA HoistedIs ==
  ASSUME NEW h, HistoryOK(h)
  PROVE  Hoisted(h) = Rest(h)
<1> DEFINE n == Len(h)
           S == {i \in DOMAIN h : h[i].role # "system"}
           t == [k \in 1 .. n - 1 |-> k + 1]
<1>1. /\ h \in Seq(Messages) /\ n >= 2 /\ h[1].role = "system"
      /\ Balanced(Rest(h))
  BY DEF HistoryOK, HistoryAt, Balanced
<1>2. n \in Nat /\ DOMAIN h = 1 .. n
  BY <1>1
<1>3. /\ Len(Rest(h)) = n - 1
      /\ \A k \in 1 .. n - 1 : Rest(h)[k] = h[k + 1]
  <2>1. Len(h) >= 1
    BY <1>1, <1>2
  <2>2. QED BY <1>1, <2>1, RestIs
<1>4. \A k \in 1 .. n - 1 : h[k + 1].role # "system"
  <2>1. \A k \in 1 .. n - 1 : Rest(h)[k].role \in Roles
    BY <1>1, <1>3, RestRoles
  <2>2. "system" \notin Roles
    BY DEF Roles
  <2>3. QED BY <1>3, <2>1, <2>2
<1>5. S = 2 .. n
  <2>1. ASSUME NEW i \in 2 .. n PROVE i \in S
    <3>1. i - 1 \in 1 .. n - 1 /\ (i - 1) + 1 = i /\ i \in 1 .. n
      BY <1>2
    <3>2. QED BY <1>2, <1>4, <3>1
  <2>2. ASSUME NEW i \in S PROVE i \in 2 .. n
    BY <1>1, <1>2
  <2>3. QED BY <2>1, <2>2
<1> HIDE DEF n, S
<1>6. Cardinality(S) = n - 1
  <2>1. 2 \in Int /\ n \in Int
    BY <1>2
  <2>2. Cardinality(2 .. n) = IF 2 > n THEN 0 ELSE n - 2 + 1
    BY <2>1, FS_Interval
  <2>3. QED BY <1>1, <1>2, <1>5, <2>2 DEF n
<1>7. t \in Listing(S)
  <2>1. t \in [1 .. n - 1 -> S]
    BY <1>2, <1>5
  <2>2. \A i, j \in 1 .. n - 1 : i < j => t[i] < t[j]
    BY <1>2
  <2>3. DOMAIN t = 1 .. n - 1
    OBVIOUS
  <2> HIDE DEF t
  <2>4. Rising(t)
    BY <2>2, <2>3 DEF Rising
  <2>5. QED BY <1>6, <2>1, <2>4 DEF Listing
<1>8. \A k \in 1 .. n - 1 : t[k] = k + 1
  OBVIOUS
<1>9. DOMAIN t = 1 .. n - 1
  OBVIOUS
<1> HIDE DEF t
<1>10. InOrder(S) = t
  <2>1. S \in SUBSET (1 .. n)
    BY <1>2, <1>5
  <2>2. QED BY <1>2, <1>7, <2>1, Ranked
<1>11. Hoisted(h) = [k \in DOMAIN t |-> h[t[k]]]
  BY <1>10 DEF Hoisted, Picked, S
<1>12. [k \in 1 .. n - 1 |-> h[t[k]]] = [k \in 1 .. n - 1 |-> h[k + 1]]
  BY <1>8
<1>13. QED BY <1>9, <1>11, <1>12 DEF Rest, n

\* What is said next is behind the rest.
LEMMA RestGrows ==
  ASSUME NEW T, NEW h \in Seq(T), NEW x \in Seq(T), Len(h) >= 1
  PROVE  Rest(Cat(h, x)) = Cat(Rest(h), x)
<1> DEFINE n == Len(h)
           z == Cat(h, x)
           r == Rest(h)
           l == Rest(z)
           y == Cat(r, x)
<1>1. /\ z \in Seq(T) /\ Len(z) = n + Len(x)
      /\ \A k \in DOMAIN h : k \in DOMAIN z /\ z[k] = h[k]
      /\ \A k \in DOMAIN x : /\ n + k \in DOMAIN z
                             /\ z[n + k] = x[k]
      /\ \A k \in DOMAIN z : k \in DOMAIN h \/ k - n \in DOMAIN x
  BY Joined
<1>2. n \in Nat /\ Len(x) \in Nat /\ DOMAIN h = 1 .. n /\ n >= 1
      /\ DOMAIN x = 1 .. Len(x)
  OBVIOUS
<1>3. /\ r \in Seq(T) /\ Len(r) = n - 1
      /\ \A k \in 1 .. n - 1 : r[k] = h[k + 1]
  BY RestIs
<1> HIDE DEF z, n
<1>4. /\ l \in Seq(T) /\ Len(l) = (n + Len(x)) - 1
      /\ \A k \in 1 .. (n + Len(x)) - 1 : l[k] = z[k + 1]
  <2>1. Len(z) >= 1
    BY <1>1, <1>2
  <2>2. /\ l \in Seq(T) /\ Len(l) = Len(z) - 1
        /\ \A k \in 1 .. Len(z) - 1 : l[k] = z[k + 1]
    BY <1>1, <2>1, RestIs
  <2> HIDE DEF l
  <2>3. QED BY <1>1, <2>2
<1> HIDE DEF r, l
<1>5. /\ y \in Seq(T) /\ Len(y) = Len(r) + Len(x)
      /\ \A k \in DOMAIN r : k \in DOMAIN y /\ y[k] = r[k]
      /\ \A k \in DOMAIN x : /\ Len(r) + k \in DOMAIN y
                             /\ y[Len(r) + k] = x[k]
      /\ \A k \in DOMAIN y : k \in DOMAIN r \/ k - Len(r) \in DOMAIN x
  BY <1>3, Joined
<1>6. DOMAIN r = 1 .. n - 1
  BY <1>3
<1> HIDE DEF y
<1>7. Len(l) = Len(y)
  BY <1>2, <1>3, <1>4, <1>5
<1>8. ASSUME NEW k \in 1 .. Len(l) PROVE l[k] = y[k]
  <2>1. k \in 1 .. (n + Len(x)) - 1 /\ l[k] = z[k + 1]
    BY <1>4
  <2>2. CASE k \in 1 .. n - 1
    <3>1. k + 1 \in DOMAIN h
      BY <1>2, <2>2
    <3>2. z[k + 1] = h[k + 1] /\ r[k] = h[k + 1] /\ y[k] = r[k]
      BY <1>1, <1>3, <1>5, <1>6, <2>2, <3>1
    <3>3. QED BY <2>1, <3>2
  <2>3. CASE k \notin 1 .. n - 1
    <3> DEFINE j == k - (n - 1)
    <3>1. j \in DOMAIN x /\ n + j = k + 1 /\ Len(r) + j = k
      BY <1>2, <1>3, <2>1, <2>3
    <3> HIDE DEF j
    <3>2. z[n + j] = x[j] /\ y[Len(r) + j] = x[j]
      BY <1>1, <1>5, <3>1
    <3>3. z[k + 1] = x[j] /\ y[k] = x[j]
      BY <3>1, <3>2
    <3>4. QED BY <2>1, <3>3
  <2>4. QED BY <2>2, <2>3
<1>9. l = y
  BY <1>4, <1>5, <1>7, <1>8, SameList
<1>10. QED BY <1>9 DEF l, y, z, r

\* A turn is added to a history.
LEMMA HistoryGrows ==
  ASSUME NEW h, NEW from, HistoryAt(h, from), NEW x, NEW to,
         Leads(x, from, to)
  PROVE  HistoryAt(Cat(h, x), to)
<1> DEFINE z == Cat(h, x)
           r == Rest(h)
<1>1. h \in Seq(Messages) /\ Len(h) >= 2 /\ h[1].role = "system"
      /\ Opened(r) /\ Leads(r, {}, from) /\ Len(h) >= 1
  BY DEF HistoryAt
<1>2. x \in Seq(Messages)
  BY DEF Leads, Ledger
<1>3. /\ z \in Seq(Messages) /\ Len(z) = Len(h) + Len(x)
      /\ \A k \in DOMAIN h : k \in DOMAIN z /\ z[k] = h[k]
  BY <1>1, <1>2, Joined
<1>4. Len(z) >= 2 /\ z[1] = h[1]
  <2>1. Len(h) \in Nat /\ Len(x) \in Nat /\ 1 \in DOMAIN h
    BY <1>1, <1>2
  <2> HIDE DEF z
  <2>2. QED BY <1>1, <1>3, <2>1
<1>5. Rest(z) = Cat(r, x)
  BY <1>1, <1>2, RestGrows
<1>6. r \in Seq(Messages) /\ Len(r) = Len(h) - 1
  BY <1>1, RestIs
<1> HIDE DEF r, z
<1>7. Opened(Cat(r, x))
  <2> DEFINE y == Cat(r, x)
  <2>1. /\ y \in Seq(Messages) /\ Len(y) = Len(r) + Len(x)
        /\ \A k \in DOMAIN r : k \in DOMAIN y /\ y[k] = r[k]
    <3>1. r \in Seq(Messages)
      BY <1>6
    <3>2. QED BY <1>2, <3>1, Joined, SMTT(20)
  <2>2. Len(r) >= 1 /\ Len(x) \in Nat /\ 1 \in DOMAIN r
    BY <1>1, <1>2, <1>6
  <2> HIDE DEF y
  <2>3. y[1] = r[1] /\ Len(y) # 0
    BY <2>1, <2>2
  <2>4. y # <<>>
    <3>1. Len(<<>>) = 0
      OBVIOUS
    <3>2. QED BY <2>3, <3>1
  <2>5. r[1].role = "user" /\ r[1].text
    BY <1>1 DEF Opened
  <2>6. QED BY <2>3, <2>4, <2>5 DEF Opened, y
<1>8. Leads(Cat(r, x), {}, to)
  BY <1>1, LeadsBoth
<1>9. Opened(Rest(z)) /\ Leads(Rest(z), {}, to)
  BY <1>5, <1>7, <1>8
<1>10. z[1].role = "system"
  BY <1>1, <1>4
<1>11. QED BY <1>3, <1>4, <1>9, <1>10 DEF HistoryAt, z

----------------------------------------------------------------------------
(* What is sent, and the steps that lead there.                            *)

\* The thinking an adapter has gathered.
ThoughtsOK(s) ==
  /\ s.thinking \in Seq(Names) /\ s.signature \in Seq(Names)
  /\ s.blocks \in Seq(Thoughts)

AskedOK(s, w, h, r) ==
  /\ ThoughtsOK(s) /\ HistoryOK(h)
  /\ s.state = "building" => WorkOK(w)
  /\ r # <<>> => Accepted(r)

RequestInv ==
  /\ CacheHolds(cache)
  /\ DOMAIN history = Agents /\ DOMAIN request = Agents
  /\ \A a \in Agents : AskedOK(adapter[a], work[a], history[a], request[a])

Asked(a) ==
  /\ Others(history, history', a) /\ Others(request, request', a)
  /\ AskedOK(adapter'[a], work'[a], history'[a], request'[a])
  /\ CacheHolds(cache')

LEMMA AskStays ==
  ASSUME RequestInv, NEW a \in Agents, Stepped(a), Asked(a)
  PROVE  RequestInv'
<1>1. /\ DOMAIN history' = Agents /\ DOMAIN request' = Agents
      /\ CacheHolds(cache')
  BY DEF Asked, Others
<1>2. ASSUME NEW x \in Agents
      PROVE  AskedOK(adapter'[x], work'[x], history'[x], request'[x])
  <2>1. CASE x = a
    BY <2>1 DEF Asked
  <2>2. CASE x # a
    <3>1. /\ adapter'[x] = adapter[x] /\ work'[x] = work[x]
          /\ history'[x] = history[x] /\ request'[x] = request[x]
      BY <2>2 DEF Stepped, Asked, Others
    <3>2. QED BY <3>1 DEF RequestInv
  <2>3. QED BY <2>1, <2>2
<1>3. QED BY <1>1, <1>2 DEF RequestInv

\* Nothing is asked in a stream.
LEMMA NotAsked ==
  ASSUME RequestInv, NEW a \in Agents, history' = history,
         request' = request \/ request' = [request EXCEPT ![a] = <<>>],
         work' = work, ThoughtsOK(adapter'[a]),
         adapter'[a].state = adapter[a].state
           \/ adapter'[a].state # "building",
         CacheHolds(cache')
  PROVE  Asked(a)
<1>1. /\ DOMAIN history = Agents /\ DOMAIN request = Agents
      /\ AskedOK(adapter[a], work[a], history[a], request[a])
  BY DEF RequestInv
<1>2. Others(history, history', a) /\ history'[a] = history[a]
  BY <1>1, Same
<1>3. /\ Others(request, request', a)
      /\ request'[a] = request[a] \/ request'[a] = <<>>
  BY <1>1 DEF Others
<1>4. AskedOK(adapter'[a], work'[a], history'[a], request'[a])
  BY <1>1, <1>2, <1>3 DEF AskedOK
<1>5. QED BY <1>2, <1>3, <1>4 DEF Asked

\* Most events of a stream do not touch the thinking.
SameThoughts(t, s) ==
  t.thinking = s.thinking /\ t.signature = s.signature /\ t.blocks = s.blocks

LEMMA ThoughtsStay ==
  ASSUME NEW s, ThoughtsOK(s), NEW t, SameThoughts(t, s)
  PROVE  ThoughtsOK(t)
BY DEF ThoughtsOK, SameThoughts

LEMMA StartAsks ==
  ASSUME ProviderInv, RequestInv, NEW a \in Agents, MessageStart(a)
  PROVE  Asked(a)
<1> DEFINE s == adapter[a]
           t == adapter'[a]
<1>1. /\ history' = history /\ cache' = cache /\ work' = work
      /\ request' = [request EXCEPT ![a] = <<>>]
      /\ t = [s EXCEPT !.start = TRUE, !.tokens = TRUE]
  BY DEF MessageStart, ProviderInv
<1>2. AdapterOK(s) /\ ThoughtsOK(s) /\ CacheHolds(cache)
  BY DEF ProviderInv, AgentOK, RequestInv, AskedOK
<1> HIDE DEF s, t
<1>3. t.state = s.state /\ SameThoughts(t, s)
  BY <1>1, <1>2 DEF AdapterOK, SameThoughts
<1>4. QED BY <1>1, <1>2, <1>3, ThoughtsStay, NotAsked DEF s, t

LEMMA MessageDeltaAsks ==
  ASSUME ProviderInv, RequestInv, NEW a \in Agents, MessageDelta(a)
  PROVE  Asked(a)
<1> DEFINE s == adapter[a]
           t == adapter'[a]
<1>1. /\ history' = history /\ cache' = cache /\ work' = work
      /\ request' = request
      /\ t = [s EXCEPT !.usage = TRUE, !.tokens = TRUE]
  BY DEF MessageDelta, ProviderInv
<1>2. AdapterOK(s) /\ ThoughtsOK(s) /\ CacheHolds(cache)
  BY DEF ProviderInv, AgentOK, RequestInv, AskedOK
<1> HIDE DEF s, t
<1>3. t.state = s.state /\ SameThoughts(t, s)
  BY <1>1, <1>2 DEF AdapterOK, SameThoughts
<1>4. QED BY <1>1, <1>2, <1>3, ThoughtsStay, NotAsked DEF s, t

LEMMA ErrorAsks ==
  ASSUME ProviderInv, RequestInv, NEW a \in Agents, ErrorEvent(a)
  PROVE  Asked(a)
<1> DEFINE s == adapter[a]
           t == adapter'[a]
<1>1. /\ history' = history /\ cache' = cache /\ work' = work
      /\ request' = request /\ t = [s EXCEPT !.state = "failed"]
  BY DEF ErrorEvent, ProviderInv
<1>2. AdapterOK(s) /\ ThoughtsOK(s) /\ CacheHolds(cache)
  BY DEF ProviderInv, AgentOK, RequestInv, AskedOK
<1> HIDE DEF s, t
<1>3. t.state # "building" /\ SameThoughts(t, s)
  BY <1>1, <1>2 DEF AdapterOK, SameThoughts
<1>4. QED BY <1>1, <1>2, <1>3, ThoughtsStay, NotAsked DEF s, t

\* A block that is finalized has a name made of its thinking and signature.
LEMMA FinalThoughts ==
  ASSUME NEW s, AdapterOK(s), ThoughtsOK(s)
  PROVE  ThoughtsOK(FinalizeThinkingBlock(s))
<1> DEFINE none == <<>>
           b == [type |-> "thinking", name |-> <<s.thinking, s.signature>>]
           bs == IF s.signature = <<>> THEN s.blocks ELSE Append(s.blocks, b)
           t == FinalizeThinkingBlock(s)
<1>1. t = [s EXCEPT !.blocks = bs, !.thinking = none, !.signature = none]
  BY DEF FinalizeThinkingBlock
<1>2. none \in Seq(Names)
  OBVIOUS
<1>3. b \in Thoughts
  BY DEF Thoughts, ThoughtsOK, Thinking
<1> HIDE DEF none, b
<1>4. bs \in Seq(Thoughts)
  <2>1. s.blocks \in Seq(Thoughts)
    BY DEF ThoughtsOK
  <2>2. Append(s.blocks, b) \in Seq(Thoughts)
    BY <1>3, <2>1, Extended
  <2>3. QED BY <2>1, <2>2
<1> HIDE DEF bs, t
<1>5. t.blocks = bs /\ t.thinking = none /\ t.signature = none
  BY <1>1 DEF AdapterOK
<1>6. QED BY <1>2, <1>4, <1>5 DEF ThoughtsOK, t

LEMMA StoppedThoughts ==
  ASSUME NEW s, AdapterOK(s), ThoughtsOK(s)
  PROVE  ThoughtsOK(Stopped(s)) /\ Stopped(s).state = s.state
<1> DEFINE w == IF s.block = "thinking" THEN FinalizeThinkingBlock(s) ELSE s
           next == IF s.block = "tool_use" THEN s.index + 1 ELSE s.index
           t == Stopped(s)
<1>1. Alike(w, s) /\ ThoughtsOK(w)
  <2>1. Alike(s, s)
    BY DEF Alike
  <2>2. QED BY <2>1, Finalized, FinalThoughts
<1>2. t = [w EXCEPT !.index = next, !.block = "none"]
  BY DEF Stopped
<1> HIDE DEF w, t, next
<1>3. DOMAIN w = {"state", "start", "block", "index", "tokens", "usage",
                  "done", "thinking", "signature", "blocks", "ids",
                  "flushed", "puts"} /\ w.state = s.state
  BY <1>1 DEF Alike, AdapterOK
<1>4. SameThoughts(t, w) /\ t.state = s.state
  BY <1>2, <1>3 DEF SameThoughts
<1>5. QED BY <1>1, <1>4, ThoughtsStay DEF t

LEMMA FlushedThoughts ==
  ASSUME NEW s, AdapterOK(s), ThoughtsOK(s)
  PROVE  ThoughtsOK(FlushThinkingCache(s))
<1> DEFINE t == FlushThinkingCache(s)
           g == FinalizeThinkingBlock(s)
           f == [g EXCEPT !.block = "none"]
<1>1. CASE s.flushed
  BY <1>1 DEF FlushThinkingCache
<1>2. CASE ~s.flushed
  <2>1. Alike(g, s) /\ ThoughtsOK(g)
    BY Finalized, FinalThoughts
  <2>2. f = [g EXCEPT !.block = "none"]
    OBVIOUS
  <2>3. PICK w : /\ w = f \/ w = s
                 /\ \E p : t = [w EXCEPT !.flushed = TRUE, !.puts = p]
    BY <1>2 DEF FlushThinkingCache
  <2> HIDE DEF f, g, t
  <2>4. ThoughtsOK(f) /\ DOMAIN f = DOMAIN s
    <3>1. SameThoughts(f, g) /\ DOMAIN f = DOMAIN g
      BY <2>1, <2>2 DEF SameThoughts, Alike, AdapterOK
    <3>2. DOMAIN g = DOMAIN s
      BY <2>1 DEF Alike
    <3>3. QED BY <2>1, <3>1, <3>2, ThoughtsStay
  <2>5. ThoughtsOK(w) /\ DOMAIN w = DOMAIN s
    BY <2>3, <2>4
  <2>6. SameThoughts(t, w)
    BY <2>3, <2>5 DEF SameThoughts, AdapterOK
  <2>7. QED BY <2>5, <2>6, ThoughtsStay DEF t
<1>3. QED BY <1>1, <1>2

LEMMA EndedThoughts ==
  ASSUME NEW s, AdapterOK(s), ThoughtsOK(s), NEW state
  PROVE  ThoughtsOK(Ended(s, state)) /\ Ended(s, state).state = state
<1> DEFINE t == FlushThinkingCache(s)
           e == Ended(s, state)
<1>1. ThoughtsOK(t) /\ AdapterOK(t)
  BY Flushed, FlushedThoughts
<1>2. e = [t EXCEPT !.usage = TRUE, !.done = TRUE, !.state = state]
  BY DEF Ended
<1> HIDE DEF t, e
<1>3. SameThoughts(e, t) /\ e.state = state
  BY <1>1, <1>2 DEF AdapterOK, SameThoughts
<1>4. QED BY <1>1, <1>3, ThoughtsStay DEF e

LEMMA BlockStopAsks ==
  ASSUME ProviderInv, RequestInv, NEW a \in Agents, BlockStop(a)
  PROVE  Asked(a)
<1> DEFINE s == adapter[a]
           t == adapter'[a]
<1>1. /\ history' = history /\ cache' = cache /\ work' = work
      /\ request' = request /\ t = Stopped(s)
  BY DEF BlockStop, ProviderInv
<1>2. AdapterOK(s) /\ ThoughtsOK(s) /\ CacheHolds(cache)
  BY DEF ProviderInv, AgentOK, RequestInv, AskedOK
<1> HIDE DEF s, t
<1>3. t.state = s.state /\ ThoughtsOK(t)
  BY <1>1, <1>2, StoppedThoughts
<1>4. QED BY <1>1, <1>2, <1>3, NotAsked DEF s, t

LEMMA EndingAsks ==
  ASSUME ProviderInv, RequestInv, NEW a \in Agents,
         MessageStop(a) \/ EndOfBody(a)
  PROVE  Asked(a)
<1> DEFINE s == adapter[a]
           t == adapter'[a]
<1>1. /\ history' = history /\ cache' = cache /\ work' = work
      /\ request' = request
      /\ t = Ended(s, "open") \/ t = Ended(s, "eof")
  BY DEF MessageStop, EndOfBody, ProviderInv
<1>2. AdapterOK(s) /\ ThoughtsOK(s) /\ CacheHolds(cache)
  BY DEF ProviderInv, AgentOK, RequestInv, AskedOK
<1> HIDE DEF s, t
<1>3. t.state # "building" /\ ThoughtsOK(t)
  BY <1>1, <1>2, EndedThoughts
<1>4. QED BY <1>1, <1>2, <1>3, NotAsked DEF s, t

LEMMA CloseAsks ==
  ASSUME ProviderInv, RequestInv, NEW a \in Agents, Close(a)
  PROVE  Asked(a)
<1> DEFINE s == adapter[a]
           t == adapter'[a]
           f == FlushThinkingCache(s)
<1>1. /\ history' = history /\ cache' = cache /\ work' = work
      /\ request' = request /\ t = [f EXCEPT !.state = "closed"]
  BY DEF Close, ProviderInv
<1>2. AdapterOK(s) /\ ThoughtsOK(s) /\ CacheHolds(cache)
  BY DEF ProviderInv, AgentOK, RequestInv, AskedOK
<1> HIDE DEF s, t
<1>3. AdapterOK(f) /\ ThoughtsOK(f)
  BY <1>2, Flushed, FlushedThoughts
<1> HIDE DEF f
<1>4. t.state = "closed" /\ SameThoughts(t, f)
  BY <1>1, <1>3 DEF AdapterOK, SameThoughts
<1>5. t.state # "building" /\ ThoughtsOK(t)
  BY <1>3, <1>4, ThoughtsStay
<1>6. QED BY <1>1, <1>2, <1>5, NotAsked DEF s, t

\* What is put under a call is thinking.
LEMMA PutHolds ==
  ASSUME NEW c, CacheHolds(c), CacheOK(c), NEW id,
         NEW blocks \in Seq(Thoughts)
  PROVE  CacheHolds(Put(c, id, blocks))
<1> DEFINE p == Put(c, id, blocks)
<1>1. \/ p = c
      \/ \E gone : p.entries = Stored(c, id, blocks, gone)
  BY DEF Put, CacheOK
<1> HIDE DEF p
<1>2. ASSUME NEW gone, p.entries = Stored(c, id, blocks, gone)
      PROVE  CacheHolds(p)
  <2> DEFINE T == Seq(Thoughts)
  <2>1. \A i \in DOMAIN c.entries : c.entries[i] \in T
    BY DEF CacheHolds
  <2>2. blocks \in T
    OBVIOUS
  <2> HIDE DEF T
  <2>3. \A i \in DOMAIN p.entries : p.entries[i] \in T
    BY <1>2, <2>1, <2>2 DEF Stored
  <2>4. QED BY <2>3 DEF CacheHolds, T
<1>3. QED BY <1>1, <1>2 DEF p

LEMMA FlushNextAsks ==
  ASSUME ProviderInv, RequestInv, NEW a \in Agents, FlushNext(a)
  PROVE  Asked(a)
<1> DEFINE s == adapter[a]
           t == adapter'[a]
<1>1. /\ history' = history /\ work' = work /\ request' = request
      /\ cache' = Put(cache, Head(s.puts), s.blocks)
      /\ t = [s EXCEPT !.puts = Tail(@)]
  BY DEF FlushNext, ProviderInv
<1>2. AdapterOK(s) /\ ThoughtsOK(s) /\ CacheHolds(cache) /\ CacheOK(cache)
  BY DEF ProviderInv, AgentOK, RequestInv, AskedOK
<1> HIDE DEF s, t
<1>3. t.state = s.state /\ SameThoughts(t, s)
  BY <1>1, <1>2 DEF AdapterOK, SameThoughts
<1>4. CacheHolds(cache')
  BY <1>1, <1>2, PutHolds DEF ThoughtsOK
<1>5. QED BY <1>1, <1>2, <1>3, <1>4, ThoughtsStay, NotAsked DEF s, t

\* The name of the last block said.
LEMMA LastName ==
  ASSUME ProviderInv, NEW a \in Agents, adapter[a].state = "open",
         Last(spoken[a]) # <<>>
  PROVE  BlockName(a) \in Names
<1> DEFINE sp == spoken[a]
           b == sp[Len(sp)]
<1>1. AgentOK(a, adapter[a], client[a], sp)
  BY DEF ProviderInv
<1>2. Len(sp) \in 1 .. MaxTurns[a] /\ b \in Seq(BlockRecords) /\ b # <<>>
  BY <1>1, InStream DEF Last
<1>3. Len(b) <= MaxBlocks
  BY <1>1 DEF AgentOK, StreamOK
<1>4. Len(b) \in 1 .. MaxBlocks
  <2> DEFINE S == BlockRecords
  <2>1. b \in Seq(S) /\ b # <<>>
    BY <1>2
  <2> HIDE DEF S, b
  <2>2. QED BY <1>3, <2>1, ProviderAssumption
<1> HIDE DEF b
<1>5. <<a, Len(sp), Len(b)>> \in Names
  BY <1>2, <1>4, NameOf
<1>6. QED BY <1>5 DEF BlockName, Turn, Last, b

LEMMA SignatureAsks ==
  ASSUME ProviderInv, RequestInv, NEW a \in Agents, SignatureDelta(a)
  PROVE  Asked(a)
<1> DEFINE s == adapter[a]
           t == adapter'[a]
           name == BlockName(a)
<1>1. /\ history' = history /\ cache' = cache /\ work' = work
      /\ request' = request
      /\ t = [s EXCEPT !.signature = Append(@, name)]
  BY DEF SignatureDelta, ProviderInv
<1>2. AdapterOK(s) /\ ThoughtsOK(s) /\ CacheHolds(cache)
  BY DEF ProviderInv, AgentOK, RequestInv, AskedOK
<1>3. name \in Names
  <2>1. s.state = "open" /\ Last(spoken[a]) # <<>>
    BY DEF SignatureDelta, Streaming, NoBlockOpen
  <2>2. QED BY <2>1, LastName
<1> HIDE DEF s, t, name
<1>4. /\ t.state = s.state /\ t.thinking = s.thinking /\ t.blocks = s.blocks
      /\ t.signature = Append(s.signature, name)
  BY <1>1, <1>2 DEF AdapterOK
<1>5. t.signature \in Seq(Names)
  <2>1. s.signature \in Seq(Names)
    BY <1>2 DEF ThoughtsOK
  <2>2. QED BY <1>3, <1>4, <2>1, Extended
<1>6. ThoughtsOK(t)
  BY <1>2, <1>4, <1>5 DEF ThoughtsOK
<1>7. QED BY <1>1, <1>2, <1>4, <1>6, NotAsked DEF s, t

LEMMA DeltaAsks ==
  ASSUME ProviderInv, RequestInv, NEW a \in Agents, BlockDelta(a)
  PROVE  Asked(a)
<1> DEFINE s == adapter[a]
           t == adapter'[a]
           name == BlockName(a)
<1>1. /\ history' = history /\ cache' = cache /\ work' = work
      /\ request' = request
  BY DEF BlockDelta
<1>2. t = s \/ t = [s EXCEPT !.thinking = Append(@, name)]
  <2> DEFINE type == Block(a).type
             moved == [adapter EXCEPT
                         ![a].thinking = Append(@, BlockName(a))]
  <2>1. CASE type # "thinking" /\ type \in {"text", "tool_use"}
    <3>1. adapter' = adapter
      BY <2>1 DEF BlockDelta
    <3>2. QED BY <3>1
  <2>2. CASE type = "thinking"
    <3>1. adapter' = moved
      BY <2>2 DEF BlockDelta
    <3>2. QED BY <3>1 DEF ProviderInv
  <2>3. type \in Kinds /\ type # "redacted_thinking"
    <3>1. s.state = "open" /\ Last(spoken[a]) # <<>>
          /\ type # "redacted_thinking"
      BY DEF BlockDelta, Streaming, NoBlockOpen
    <3> DEFINE b == Last(spoken[a])
               S == BlockRecords
    <3>2. AgentOK(a, s, client[a], spoken[a])
      BY DEF ProviderInv
    <3>3. b \in Seq(S) /\ b # <<>>
      BY <3>1, <3>2, InStream DEF Last
    <3>4. Block(a) = b[Len(b)]
      BY DEF Block, Last
    <3> HIDE DEF b, S
    <3>5. Block(a) \in S
      BY <3>3, <3>4
    <3>6. QED BY <3>1, <3>5 DEF S, BlockRecords
  <2>4. type \in {"text", "tool_use"} \/ type = "thinking"
    BY <2>3 DEF Kinds
  <2> HIDE DEF type
  <2>5. \/ type = "thinking"
        \/ type # "thinking" /\ type \in {"text", "tool_use"}
    BY <2>4
  <2>6. QED BY <2>1, <2>2, <2>5
<1>3. AdapterOK(s) /\ ThoughtsOK(s) /\ CacheHolds(cache)
  BY DEF ProviderInv, AgentOK, RequestInv, AskedOK
<1>4. name \in Names
  <2>1. s.state = "open" /\ Last(spoken[a]) # <<>>
    BY DEF BlockDelta, Streaming, NoBlockOpen
  <2>2. QED BY <2>1, LastName
<1> HIDE DEF s, t, name
<1>5. /\ t.state = s.state /\ t.signature = s.signature
      /\ t.blocks = s.blocks
      /\ t.thinking = s.thinking \/ t.thinking = Append(s.thinking, name)
  BY <1>2, <1>3 DEF AdapterOK
<1>6. t.thinking \in Seq(Names)
  <2>1. s.thinking \in Seq(Names)
    BY <1>3 DEF ThoughtsOK
  <2>2. Append(s.thinking, name) \in Seq(Names)
    BY <1>4, <2>1, Extended
  <2>3. QED BY <1>5, <2>1, <2>2
<1>7. ThoughtsOK(t)
  BY <1>3, <1>5, <1>6 DEF ThoughtsOK
<1>8. QED BY <1>1, <1>3, <1>5, <1>7, NotAsked DEF s, t

LEMMA BlockStartAsks ==
  ASSUME ProviderInv, RequestInv, NEW a \in Agents, NEW type \in Kinds,
         BlockStart(a, type)
  PROVE  Asked(a)
<1> DEFINE s == adapter[a]
           t == adapter'[a]
           sp == spoken[a]
           name == <<a, Turn(a), Len(Last(sp)) + 1>>
           b == [type |-> type, name |-> name]
           none == <<>>
           ids == IF type = "tool_use" THEN Append(s.ids, name) ELSE s.ids
           thinking == IF type = "thinking" THEN none ELSE s.thinking
           signature == IF type = "thinking" THEN none ELSE s.signature
           blocks == IF type = "redacted_thinking" THEN Append(s.blocks, b)
                     ELSE s.blocks
<1>1. /\ history' = history /\ cache' = cache /\ work' = work
      /\ request' = request
  BY DEF BlockStart
<1>2. t = [s EXCEPT !.block = type, !.ids = ids, !.thinking = thinking,
                    !.signature = signature, !.blocks = blocks]
  BY DEF BlockStart, ProviderInv
<1>3. AdapterOK(s) /\ ThoughtsOK(s) /\ CacheHolds(cache)
  BY DEF ProviderInv, AgentOK, RequestInv, AskedOK
<1>4. name \in Names
  <2>1. Len(Last(sp)) + 1 \in 1 .. MaxBlocks
    BY RoomForBlock
  <2>2. AgentOK(a, s, client[a], sp) /\ s.state = "open"
    BY DEF ProviderInv, BlockStart, Streaming
  <2>3. Len(sp) \in 1 .. MaxTurns[a]
    BY <2>2, InStream
  <2>4. QED BY <2>1, <2>3, NameOf DEF Turn
<1>5. none \in Seq(Names)
  OBVIOUS
<1> HIDE DEF name, none
<1>6. type = "redacted_thinking" => b \in Thoughts
  BY <1>4 DEF Thoughts, Thinking
<1> HIDE DEF s, t, b, ids
<1>7. blocks \in Seq(Thoughts)
  <2>1. s.blocks \in Seq(Thoughts)
    BY <1>3 DEF ThoughtsOK
  <2>2. CASE type = "redacted_thinking"
    <3>1. Append(s.blocks, b) \in Seq(Thoughts)
      BY <1>6, <2>1, <2>2, Extended
    <3>2. QED BY <2>2, <3>1
  <2>3. CASE type # "redacted_thinking"
    BY <2>1, <2>3
  <2>4. QED BY <2>2, <2>3
<1>8. thinking \in Seq(Names) /\ signature \in Seq(Names)
  BY <1>3, <1>5 DEF ThoughtsOK
<1> HIDE DEF blocks, thinking, signature
<1>9. /\ t.state = s.state /\ t.thinking = thinking
      /\ t.signature = signature /\ t.blocks = blocks
  BY <1>2, <1>3 DEF AdapterOK
<1>10. ThoughtsOK(t)
  BY <1>7, <1>8, <1>9 DEF ThoughtsOK
<1>11. QED BY <1>1, <1>3, <1>9, <1>10, NotAsked DEF s, t

\* Thinking that was signed, of an answer that came whole.
LEMMA SignedThoughts ==
  ASSUME NEW a \in Agents, NEW turn \in 1 .. MaxTurns[a],
         NEW blocks \in Seq(BlockRecords), Len(blocks) <= MaxBlocks
  PROVE  SignedBlocks(a, turn, blocks) \in Seq(Thoughts)
<1> DEFINE S == {i \in DOMAIN blocks :
                   \/ blocks[i].type = "redacted_thinking"
                   \/ blocks[i].type = "thinking" /\ blocks[i].signed}
           n == Len(blocks)
           kept == InOrder(S)
           p == SignedBlocks(a, turn, blocks)
           name(i) == <<a, turn, i>>
           Captured(i) ==
             IF blocks[i].type = "redacted_thinking"
             THEN [type |-> "redacted_thinking", name |-> name(i)]
             ELSE [type |-> "thinking",
                   name |-> <<IF blocks[i].delta THEN <<name(i)>> ELSE <<>>,
                              <<name(i)>>>>]
<1>1. n \in Nat /\ DOMAIN blocks = 1 .. n
  <2> DEFINE R == BlockRecords
  <2>1. blocks \in Seq(R)
    OBVIOUS
  <2> HIDE DEF R
  <2>2. QED BY <2>1
<1>2. S \in SUBSET (1 .. n)
  BY <1>1
<1>3. p = [k \in DOMAIN kept |-> Captured(kept[k])]
  BY DEF SignedBlocks
<1>4. ASSUME NEW i \in S PROVE Captured(i) \in Thoughts
  <2>1. i \in 1 .. MaxBlocks
    BY <1>1, <1>2, ProviderAssumption
  <2>2. name(i) \in Names
    BY <2>1, NameOf
  <2> HIDE DEF name
  <2> DEFINE v == IF blocks[i].delta THEN <<name(i)>> ELSE <<>>
             one == <<name(i)>>
  <2>3. v \in Seq(Names) /\ one \in Seq(Names)
    <3>1. one \in Seq(Names)
      BY <2>2
    <3>2. <<>> \in Seq(Names)
      OBVIOUS
    <3>3. QED BY <3>1, <3>2
  <2> HIDE DEF v, one
  <2>4. [type |-> "thinking", name |-> <<v, one>>] \in Thoughts
    BY <2>3 DEF Thoughts, Thinking
  <2>5. [type |-> "redacted_thinking", name |-> name(i)] \in Thoughts
    BY <2>2 DEF Thoughts, Thinking
  <2>6. QED BY <2>4, <2>5 DEF v, one
<1> HIDE DEF S, Captured
<1>5. PICK t : t \in Listing(S)
  BY <1>1, <1>2, Listed
<1>6. kept = t /\ Cardinality(S) \in Nat
  BY <1>1, <1>2, <1>5, Ranked
<1>7. kept \in [1 .. Cardinality(S) -> S]
  BY <1>5, <1>6 DEF Listing
<1> HIDE DEF kept, p
<1>8. p \in [1 .. Cardinality(S) -> Thoughts]
  <2>1. DOMAIN kept = 1 .. Cardinality(S)
        /\ \A k \in 1 .. Cardinality(S) : kept[k] \in S
    BY <1>7
  <2>2. p = [k \in 1 .. Cardinality(S) |-> Captured(kept[k])]
    BY <1>3, <2>1
  <2>3. \A k \in 1 .. Cardinality(S) : Captured(kept[k]) \in Thoughts
    BY <1>4, <2>1
  <2>4. QED BY <2>2, <2>3
<1>9. p \in Seq(Thoughts)
  BY <1>6, <1>8, ListIs
<1>10. QED BY <1>9 DEF p

\* An answer that comes whole.
Whole(types, signed) ==
  [i \in DOMAIN types |->
     [type |-> types[i], delta |-> TRUE, open |-> FALSE,
      signed |-> signed /\ types[i] = "thinking"]]

LEMMA WholeIs ==
  ASSUME NEW a \in Agents, NEW types \in Answers[a], NEW signed \in BOOLEAN
  PROVE  /\ Whole(types, signed) \in Seq(BlockRecords)
         /\ Len(Whole(types, signed)) <= MaxBlocks
<1> DEFINE n == Len(types)
           blocks == Whole(types, signed)
<1>1. types \in [1 .. n -> Kinds] /\ n \in 0 .. MaxBlocks
  <2>1. types \in UNION {[1 .. k -> Kinds] : k \in 0 .. MaxBlocks}
    BY ProviderAssumption
  <2>2. PICK k \in 0 .. MaxBlocks : types \in [1 .. k -> Kinds]
    BY <2>1
  <2>3. k \in Nat
    BY ProviderAssumption
  <2>4. n = k
    BY <2>2, <2>3, ListIs
  <2>5. QED BY <2>2, <2>4
<1>2. DOMAIN types = 1 .. n /\ n \in Nat /\ n <= MaxBlocks
  BY <1>1, ProviderAssumption
<1>3. ASSUME NEW i \in 1 .. n PROVE blocks[i] \in BlockRecords
  <2>1. types[i] \in Kinds /\ i \in DOMAIN types
    BY <1>1, <1>2, <1>3
  <2>2. blocks[i] = [type |-> types[i], delta |-> TRUE, open |-> FALSE,
                     signed |-> signed /\ types[i] = "thinking"]
    BY <2>1 DEF Whole
  <2>3. (signed /\ types[i] = "thinking") \in BOOLEAN
    OBVIOUS
  <2>4. QED BY <2>1, <2>2, <2>3 DEF BlockRecords
<1>4. blocks \in [1 .. n -> BlockRecords]
  <2> DEFINE R == BlockRecords
  <2>1. blocks = [i \in 1 .. n |-> blocks[i]]
    BY <1>2 DEF Whole
  <2>2. \A i \in 1 .. n : blocks[i] \in R
    BY <1>3
  <2> HIDE DEF blocks, R, n
  <2>3. blocks \in [1 .. n -> R]
    BY <2>1, <2>2
  <2>4. QED BY <2>3 DEF R
<1> HIDE DEF n, blocks
<1>5. blocks \in Seq(BlockRecords) /\ Len(blocks) = n
  BY <1>2, <1>4, ListIs
<1>6. QED BY <1>2, <1>5 DEF blocks

LEMMA TranslateAsks ==
  ASSUME ProviderInv, RequestInv, NEW a \in Agents, NEW types \in Answers[a],
         NEW signed \in BOOLEAN, TranslateResponseBody(a, types, signed)
  PROVE  Asked(a)
<1> DEFINE s == adapter[a]
           t == adapter'[a]
           blocks == Whole(types, signed)
           calls == InOrder({i \in DOMAIN types : types[i] = "tool_use"})
           ids == [k \in DOMAIN calls |-> <<a, Turn(a), calls[k]>>]
           captured == SignedBlocks(a, Turn(a), blocks)
           puts == IF captured = <<>> THEN <<>> ELSE ids
<1>1. /\ history' = history /\ cache' = cache /\ work' = work
      /\ request' = [request EXCEPT ![a] = <<>>]
  BY DEF TranslateResponseBody
<1>2. t = [s EXCEPT !.state = "closed", !.flushed = TRUE,
                    !.blocks = captured, !.ids = ids, !.puts = puts]
  BY DEF TranslateResponseBody, ProviderInv, Whole
<1>3. AdapterOK(s) /\ ThoughtsOK(s) /\ CacheHolds(cache)
  BY DEF ProviderInv, AgentOK, RequestInv, AskedOK
<1>4. Turn(a) \in 1 .. MaxTurns[a]
  <2>1. AgentOK(a, s, client[a], spoken[a]) /\ s.state = "sent"
    BY DEF ProviderInv, TranslateResponseBody
  <2>2. QED BY <2>1, InStream DEF Turn
<1>5. captured \in Seq(Thoughts)
  <2>1. blocks \in Seq(BlockRecords) /\ Len(blocks) <= MaxBlocks
    BY WholeIs
  <2> HIDE DEF blocks
  <2>2. QED BY <1>4, <2>1, SignedThoughts
<1> HIDE DEF s, t, captured, ids, puts
<1>6. /\ t.state = "closed" /\ t.thinking = s.thinking
      /\ t.signature = s.signature /\ t.blocks = captured
  BY <1>2, <1>3 DEF AdapterOK
<1>7. t.state # "building" /\ ThoughtsOK(t)
  BY <1>3, <1>5, <1>6 DEF ThoughtsOK
<1>8. QED BY <1>1, <1>3, <1>7, NotAsked DEF s, t

\* The first pass takes the history without its system message; thinking
\* that is disabled is not looked up.
LEMMA BuildAsks ==
  ASSUME ProviderInv, RequestInv, NEW a \in Agents, NEW wanted \in Settings[a],
         BuildUpstreamRequest(a, wanted)
  PROVE  Asked(a)
<1> DEFINE s == adapter[a]
           t == adapter'[a]
           h == history[a]
           w == work'[a]
<1>1. /\ history' = history /\ request' = request /\ cache' = cache
      /\ t = [s EXCEPT !.state = "building"]
  BY DEF BuildUpstreamRequest, ProviderInv
<1>2. PICK kept :
        /\ ThinkingPlan(wanted).type = "disabled" => kept = {}
        /\ work' = [work EXCEPT ![a] =
             [wanted |-> wanted, msgs |-> Hoisted(h), kept |-> kept]]
  BY DEF BuildUpstreamRequest, Hoisted
<1>3. w.wanted = wanted /\ w.msgs = Hoisted(h) /\ w.kept = kept
  BY <1>2 DEF ProviderInv
<1>4. /\ DOMAIN history = Agents /\ DOMAIN request = Agents
      /\ AskedOK(s, work[a], h, request[a]) /\ CacheHolds(cache)
      /\ AdapterOK(s)
  BY DEF RequestInv, ProviderInv, AgentOK
<1> HIDE DEF s, t, h, w
<1>5. wanted \in Wanted
  BY ProviderAssumption
<1>6. HistoryOK(h)
  BY <1>4 DEF AskedOK
<1>7. Balanced(w.msgs)
  <2>1. Hoisted(h) = Rest(h)
    BY <1>6, HoistedIs
  <2>2. Balanced(Rest(h))
    BY <1>6 DEF HistoryOK, HistoryAt, Balanced
  <2>3. QED BY <1>3, <2>1, <2>2
<1>8. WorkOK(w)
  BY <1>2, <1>3, <1>5, <1>7 DEF WorkOK
<1>9. SameThoughts(t, s)
  BY <1>1, <1>4 DEF SameThoughts, AdapterOK
<1>10. ThoughtsOK(t)
  BY <1>4, <1>9, ThoughtsStay DEF AskedOK
<1>11. /\ Others(history, history', a) /\ history'[a] = h
       /\ Others(request, request', a) /\ request'[a] = request[a]
  BY <1>1, <1>4, Same DEF h
<1>12. AskedOK(t, w, h, request[a])
  BY <1>4, <1>6, <1>8, <1>10 DEF AskedOK
<1>13. QED BY <1>1, <1>4, <1>11, <1>12 DEF Asked, t, w

\* A new adapter has no thinking yet.
LEMMA NewThoughts ==
  ASSUME NEW state
  PROVE  ThoughtsOK(Adapter(state)) /\ Adapter(state).state = state
<1> DEFINE none == <<>>
           s == Adapter(state)
<1>1. s.thinking = none /\ s.signature = none /\ s.blocks = none
      /\ s.state = state
  BY DEF Adapter
<1>2. none \in Seq(Names) /\ none \in Seq(Thoughts)
  OBVIOUS
<1> HIDE DEF none, s
<1>3. QED BY <1>1, <1>2 DEF ThoughtsOK, s

\* The second pass.
LEMMA SendAsks ==
  ASSUME ProviderInv, RequestInv, NEW a \in Agents, SendRequest(a)
  PROVE  Asked(a)
<1> DEFINE s == adapter[a]
           t == adapter'[a]
           r == request'[a]
<1>1. history' = history /\ cache' = cache
  BY DEF SendRequest
<1>2. request' = [request EXCEPT ![a] = Sent(work[a])]
  BY DEF SendRequest, Sent, Cut
<1>3. /\ DOMAIN history = Agents /\ DOMAIN request = Agents
      /\ AskedOK(s, work[a], history[a], request[a]) /\ CacheHolds(cache)
  BY DEF RequestInv
<1>4. WorkOK(work[a])
  <2>1. s.state = "building"
    BY DEF SendRequest
  <2>2. QED BY <1>3, <2>1 DEF AskedOK
<1>5. Accepted(Sent(work[a]))
  BY <1>3, <1>4, SentAccepted
<1>6. r = Sent(work[a]) /\ Others(request, request', a)
  BY <1>2, <1>3 DEF Others
<1>7. t.state # "building" /\ ThoughtsOK(t)
  <2>1. PICK state \in {"unanswered", "open", "sent"} : t = Adapter(state)
    BY NewTurn
  <2>2. QED BY <2>1, NewThoughts
<1>8. Others(history, history', a) /\ history'[a] = history[a]
  BY <1>1, <1>3, Same
<1> HIDE DEF s, t, r
<1>9. Accepted(r)
  BY <1>5, <1>6
<1>10. AskedOK(t, work'[a], history[a], r)
  BY <1>3, <1>7, <1>9 DEF AskedOK
<1>11. QED BY <1>1, <1>3, <1>6, <1>8, <1>10 DEF Asked, t, r

\* The calls an agent goes on with.
LEMMA IdsAre ==
  ASSUME NEW a, NEW t, NEW b, NEW c \in ClientRecords,
         Delivered(a, t, c.calls, b)
  PROVE  LET ids == [i \in DOMAIN c.calls |-> c.calls[i].id]
         IN ids \in Seq(Names) /\ Distinct(ids)
<1> DEFINE calls == c.calls
           n == Len(calls)
           ids == [i \in DOMAIN calls |-> calls[i].id]
           R == [id : Names, args : Seq(Names)]
<1>1. calls \in Seq(R)
  BY DEF ClientRecords
<1>2. \A j, k \in DOMAIN calls : j < k => calls[j].id[3] < calls[k].id[3]
  BY DEF Delivered
<1> HIDE DEF calls
<1>3. n \in Nat /\ DOMAIN calls = 1 .. n /\ \A i \in 1 .. n : calls[i] \in R
  <2> HIDE DEF R
  <2>1. QED BY <1>1
<1>4. \A i \in 1 .. n : calls[i].id \in Names
  BY <1>3
<1>5. ids \in [1 .. n -> Names]
  BY <1>3, <1>4
<1>6. \A i \in 1 .. n : ids[i] = calls[i].id
  BY <1>3
<1> HIDE DEF ids, n
<1>7. ids \in Seq(Names) /\ Len(ids) = n
  BY <1>3, <1>5, ListIs
<1>8. DOMAIN ids = 1 .. n
  BY <1>5
<1>9. ASSUME NEW i \in 1 .. n, NEW j \in 1 .. n, ids[i] = ids[j]
      PROVE  i = j
  <2>1. calls[i].id[3] = calls[j].id[3]
    BY <1>6, <1>9
  <2>2. calls[i].id \in Names /\ calls[j].id \in Names
    BY <1>4
  <2>3. calls[i].id[3] \in Int /\ calls[j].id[3] \in Int
    BY <2>2 DEF Names
  <2>4. ~(i < j) /\ ~(j < i)
    BY <1>2, <1>3, <2>1, <2>3
  <2>5. QED BY <1>3, <2>4
<1>10. Distinct(ids)
  BY <1>8, <1>9 DEF Distinct
<1>11. QED BY <1>7, <1>10 DEF ids, calls

\* The history when the agent goes on.
Further(h, c, reasons, ids, splits, text) ==
  LET answer == IF splits THEN Split(c, reasons, ids)
                ELSE One(Spoken(c, reasons, ids, c.said))
  IN CASE c.dones = 0 -> h
       [] c.dones > 0 /\ ids # <<>> ->
            Cat(Cat(h, answer), ResultsFor(ids))
       [] c.dones > 0 /\ ids = <<>> ->
            Cat(h, Two(Spoken(c, reasons, ids, c.said),
                       Message("user", text)))

LEMMA FurtherOK ==
  ASSUME NEW h, HistoryOK(h), NEW c \in ClientRecords,
         NEW reasons \in BOOLEAN, NEW ids \in Seq(Names), Distinct(ids),
         NEW splits \in BOOLEAN, NEW text \in BOOLEAN
  PROVE  HistoryOK(Further(h, c, reasons, ids, splits, text))
<1> DEFINE answer == IF splits THEN Split(c, reasons, ids)
                     ELSE One(Spoken(c, reasons, ids, c.said))
           f == Further(h, c, reasons, ids, splits, text)
<1>1. c.said \in BOOLEAN /\ c.dones \in Nat
  BY DEF ClientRecords
<1>2. Leads(answer, {}, AllCalls(ids))
  <2>1. Leads(Split(c, reasons, ids), {}, AllCalls(ids))
    BY <1>1, SplitLeads
  <2>2. Leads(One(Spoken(c, reasons, ids, c.said)), {}, AllCalls(ids))
    BY <1>1, AnswerLeads
  <2>3. QED BY <2>1, <2>2
<1> HIDE DEF answer
<1>3. CASE c.dones = 0
  <2>1. f = h
    BY <1>3 DEF Further
  <2>2. QED BY <2>1
<1>4. CASE c.dones > 0 /\ ids # <<>>
  <2>1. f = Cat(Cat(h, answer), ResultsFor(ids))
    BY <1>1, <1>4 DEF Further, answer
  <2>2. HistoryAt(Cat(h, answer), AllCalls(ids))
    BY <1>2, HistoryGrows DEF HistoryOK
  <2>3. Leads(ResultsFor(ids), AllCalls(ids), {})
    BY ResultsLead
  <2>4. HistoryAt(Cat(Cat(h, answer), ResultsFor(ids)), {})
    BY <2>2, <2>3, HistoryGrows
  <2>5. QED BY <2>1, <2>4 DEF HistoryOK
<1>5. CASE c.dones > 0 /\ ids = <<>>
  <2> DEFINE m == Spoken(c, reasons, ids, c.said)
             u == Message("user", text)
  <2>1. f = Cat(h, Two(m, u))
    BY <1>1, <1>5 DEF Further
  <2>2. DOMAIN ids = {}
    BY <1>5
  <2>3. Leads(Two(m, u), {}, {})
    BY <1>1, <2>2, PromptLeads
  <2> HIDE DEF m, u, f
  <2>4. HistoryAt(Cat(h, Two(m, u)), {})
    BY <2>3, HistoryGrows DEF HistoryOK
  <2>5. QED BY <2>1, <2>4 DEF HistoryOK, f
<1>6. QED BY <1>1, <1>3, <1>4, <1>5

\* An agent adds turns in which every call has its result.
LEMMA ContinueAsks ==
  ASSUME ProviderInv, RequestInv, NEW a \in Agents, NEW keeps \in BOOLEAN,
         NEW splits \in BOOLEAN, NEW text \in BOOLEAN,
         Continue(a, keeps, splits, text)
  PROVE  Asked(a)
<1> DEFINE c == client[a]
           h == history[a]
           t == adapter'[a]
           ids == [i \in DOMAIN c.calls |-> c.calls[i].id]
           reasons == keeps /\ c.reasoned
           f == Further(h, c, reasons, ids, splits, text)
<1>1. /\ request' = request /\ cache' = cache
      /\ adapter' = [adapter EXCEPT ![a] = Adapter("idle")]
      /\ adapter[a].state = "closed"
  <2>1. UNCHANGED <<cache, work, request, spoken>>
    BY Zenon DEF Continue
  <2>2. adapter' = [adapter EXCEPT ![a] = Adapter("idle")]
        /\ adapter[a].state = "closed"
    BY Zenon DEF Continue
  <2>3. QED BY <2>1, <2>2
<1>2. history' = [history EXCEPT ![a] = f]
  BY DEF Continue, Further, Split, One, Two, Cat, ResultsFor
<1>3. AgentOK(a, adapter[a], c, spoken[a])
  BY DEF ProviderInv
<1>4. /\ c \in ClientRecords
      /\ Delivered(a, Len(spoken[a]), c.calls, spoken[a][Len(spoken[a])])
  BY <1>1, <1>3 DEF AgentOK, EndingOK
<1>5. ids \in Seq(Names) /\ Distinct(ids)
  <2> HIDE DEF c
  <2>1. QED BY <1>4, IdsAre
<1>6. reasons \in BOOLEAN
  BY <1>4 DEF ClientRecords
<1>7. /\ DOMAIN history = Agents /\ DOMAIN request = Agents
      /\ AskedOK(adapter[a], work[a], h, request[a]) /\ CacheHolds(cache)
  BY DEF RequestInv
<1>8. history'[a] = f /\ Others(history, history', a)
  <2> HIDE DEF f
  <2>1. QED BY <1>2, <1>7 DEF Others
<1>9. t = Adapter("idle")
  BY <1>1 DEF ProviderInv
<1> HIDE DEF c, h, t, ids, reasons
<1>10. HistoryOK(f)
  <2>1. HistoryOK(h)
    BY <1>7 DEF AskedOK
  <2>2. QED BY <1>4, <1>5, <1>6, <2>1, FurtherOK
<1> HIDE DEF f
<1>11. ThoughtsOK(t) /\ t.state # "building"
  BY <1>9, NewThoughts
<1>12. Others(request, request', a) /\ request'[a] = request[a]
  BY <1>1, <1>7, Same
<1>13. AskedOK(t, work'[a], f, request[a])
  BY <1>7, <1>10, <1>11 DEF AskedOK
<1>14. QED BY <1>1, <1>7, <1>8, <1>12, <1>13 DEF Asked, t

LEMMA InitAsks == Init => RequestInv
<1> SUFFICES ASSUME Init PROVE RequestInv
  OBVIOUS
<1>1. DOMAIN history = Agents /\ DOMAIN request = Agents
  BY DEF Init
<1>2. CacheHolds(cache)
  BY DEF Init, EmptyCache, CacheHolds
<1> DEFINE m == Message("system", TRUE)
           u == Message("user", TRUE)
           h == <<m, u>>
<1>3. HistoryOK(h)
  <2>1. m \in Messages /\ m.role = "system"
    <3>1. ASSUME NEW text \in BOOLEAN
          PROVE  /\ Message("system", text) \in Messages
                 /\ Message("system", text).role = "system"
      <4> DEFINE none == <<>>
      <4>1. none \in Seq(Names) /\ none \in Names \cup {<<>>}
        OBVIOUS
      <4> HIDE DEF none
      <4> DEFINE r == Message("system", text)
      <4>2. r = [role |-> "system", text |-> text, reasons |-> FALSE,
                 calls |-> none, result |-> none]
        BY DEF Message, none
      <4>3. r \in Messages
        BY <4>1, <4>2, RecordIs
      <4>4. r.role = "system"
        BY <4>2
      <4>5. QED BY <4>3, <4>4
    <3>2. TRUE \in BOOLEAN
      OBVIOUS
    <3>3. QED BY <3>1, <3>2
  <2>2. u \in Messages /\ u.role = "user" /\ Called(u) = {}
    <3>1. \A text \in BOOLEAN :
            LET x == Message("user", text)
            IN x \in Messages /\ x.role = "user" /\ Called(x) = {}
      BY MessagesAre
    <3>2. TRUE \in BOOLEAN
      OBVIOUS
    <3>3. QED BY <3>1, <3>2
  <2>3. u.text
    BY DEF Message
  <2> HIDE DEF m, u
  <2>4. h \in Seq(Messages) /\ Len(h) = 2 /\ h[1] = m /\ h[2] = u
    BY <2>1, <2>2
  <2>5. Rest(h) = One(u)
    <3>1. Rest(h) = [k \in 1 .. 1 |-> h[k + 1]]
      BY <2>4 DEF Rest
    <3>2. \A k \in 1 .. 1 : h[k + 1] = u
      BY <2>4
    <3>3. One(u) = [k \in 1 .. 1 |-> u]
      BY DEF One
    <3> HIDE DEF h
    <3>4. QED BY <3>1, <3>2, <3>3
  <2> HIDE DEF h
  <2>6. Opened(One(u))
    <3>1. One(u)[1] = u /\ One(u) # <<>>
      BY DEF One
    <3>2. QED BY <2>2, <2>3, <3>1 DEF Opened
  <2>7. Leads(One(u), {}, {})
    <3>1. After1(u, {}) = {}
      BY <2>2 DEF After1
    <3>2. {} \subseteq Names /\ u.role \in Roles /\ u.role # "tool"
          /\ u.role # "assistant" /\ After1(u, {}) \subseteq Names
      BY <2>2, <3>1 DEF Roles
    <3>3. Leads(One(u), {}, After1(u, {}))
      BY <2>2, <3>2, LeadsOne
    <3>4. QED BY <3>1, <3>3
  <2>8. QED BY <2>1, <2>4, <2>5, <2>6, <2>7 DEF HistoryOK, HistoryAt
<1>4. ASSUME NEW a \in Agents
      PROVE  AskedOK(adapter[a], work[a], history[a], request[a])
  <2>1. adapter[a] = Adapter("idle") /\ history[a] = h /\ request[a] = <<>>
    BY DEF Init
  <2> HIDE DEF h
  <2>2. ThoughtsOK(adapter[a]) /\ adapter[a].state # "building"
    BY <2>1, NewThoughts
  <2>3. QED BY <1>3, <2>1, <2>2 DEF AskedOK
<1>5. QED BY <1>1, <1>2, <1>4 DEF RequestInv

LEMMA NextAsks ==
  ProviderInv /\ RequestInv /\ [Next]_vars => ProviderInv' /\ RequestInv'
<1> SUFFICES ASSUME ProviderInv, RequestInv, [Next]_vars
             PROVE  ProviderInv' /\ RequestInv'
  OBVIOUS
<1>1. ProviderInv'
  BY NextKept
<1>2. CASE UNCHANGED vars
  <2>1. RequestInv'
    BY <1>2 DEF vars, RequestInv
  <2>2. QED BY <1>1, <2>1
<1>3. CASE Next
  <2>1. PICK a \in Agents : Stream(a) \/ Converse(a)
    BY <1>3 DEF Next
  <2>2. Stepped(a) /\ Asked(a)
    <3>1. CASE Stream(a)
      <4>1. CASE MessageStart(a)
        BY <4>1, StartKept, StartAsks
      <4>2. CASE BlockDelta(a)
        BY <4>2, DeltaKept, DeltaAsks
      <4>3. CASE SignatureDelta(a)
        BY <4>3, SignatureKept, SignatureAsks
      <4>4. CASE BlockStop(a)
        BY <4>4, BlockStopKept, BlockStopAsks
      <4>5. CASE MessageDelta(a)
        BY <4>5, MessageDeltaKept, MessageDeltaAsks
      <4>6. CASE MessageStop(a)
        BY <4>6, MessageStopKept, EndingAsks
      <4>7. CASE ErrorEvent(a)
        BY <4>7, ErrorKept, ErrorAsks
      <4>8. CASE EndOfBody(a)
        BY <4>8, EndOfBodyKept, EndingAsks
      <4>9. CASE Close(a)
        BY <4>9, CloseKept, CloseAsks
      <4>10. CASE FlushNext(a)
        BY <4>10, FlushNextKept, FlushNextAsks
      <4>11. ASSUME NEW type \in Kinds, BlockStart(a, type)
             PROVE  Stepped(a) /\ Asked(a)
        BY <4>11, BlockStartKept, BlockStartAsks
      <4>12. QED BY <3>1, <4>1, <4>2, <4>3, <4>4, <4>5, <4>6, <4>7, <4>8,
                    <4>9, <4>10, <4>11 DEF Stream
    <3>2. CASE Converse(a)
      <4>1. ASSUME NEW wanted \in Settings[a],
                   BuildUpstreamRequest(a, wanted)
            PROVE  Stepped(a) /\ Asked(a)
        BY <4>1, BuildKept, BuildAsks
      <4>2. CASE SendRequest(a)
        BY <4>2, SendKept, SendAsks
      <4>3. ASSUME NEW types \in Answers[a], NEW signed \in BOOLEAN,
                   TranslateResponseBody(a, types, signed)
            PROVE  Stepped(a) /\ Asked(a)
        BY <4>3, TranslateKept, TranslateAsks
      <4>4. ASSUME NEW habit \in Habits[a], NEW text \in BOOLEAN,
                   Continue(a, habit[1], habit[2], text)
            PROVE  Stepped(a) /\ Asked(a)
        <5>1. habit[1] \in BOOLEAN /\ habit[2] \in BOOLEAN
          BY <4>4, ProviderAssumption
        <5>2. QED BY <4>4, <5>1, ContinueKept, ContinueAsks
      <4>5. QED BY <3>2, <4>1, <4>2, <4>3, <4>4 DEF Converse
    <3>3. QED BY <2>1, <3>1, <3>2
  <2>3. RequestInv'
    BY <2>2, AskStays
  <2>4. QED BY <1>1, <2>3
<1>4. QED BY <1>2, <1>3

\* What is accepted is what the service takes.
LEMMA AcceptedIs == RequestInv => RequestAccepted
<1> SUFFICES ASSUME RequestInv PROVE RequestAccepted
  OBVIOUS
<1>1. ASSUME NEW a \in Agents, request[a] # <<>>
      PROVE  LET m == request[a].messages
                 plan == request[a].plan
                 Has1(i, type) == {m[i].content[j].name : j \in
                                   {k \in DOMAIN m[i].content :
                                      m[i].content[k].type = type}}
             IN /\ m[1].role = "user"
                /\ \A i \in 2 .. Len(m) :
                     /\ m[i].role # m[i - 1].role
                     /\ Has1(i, "tool_result")
                          \subseteq Has1(i - 1, "tool_use")
                     /\ Has1(i - 1, "tool_use")
                          \subseteq Has1(i, "tool_result")
                /\ plan.thinks => Last(m).role = "user"
                /\ plan.type = "enabled" => plan.budget < plan.max
                /\ plan.type = "disabled" =>
                     \A i \in DOMAIN m : Has1(i, "thinking") = {}
  <2> DEFINE m == request[a].messages
             plan == request[a].plan
  <2>1. Accepted(request[a])
    BY <1>1 DEF RequestInv, AskedOK
  <2>2. /\ Paired(m) /\ (plan.thinks => LastOne(m).role = "user")
        /\ plan.type = "enabled" => plan.budget < plan.max
        /\ plan.type = "disabled" => NoThinking(m)
    BY <2>1 DEF Accepted
  <2> HIDE DEF m, plan
  <2>3. \A i \in 2 .. Len(m) :
          /\ m[i].role # m[i - 1].role
          /\ Holds(m[i].content, "tool_result")
               \subseteq Holds(m[i - 1].content, "tool_use")
          /\ Holds(m[i - 1].content, "tool_use")
               \subseteq Holds(m[i].content, "tool_result")
    BY <2>2 DEF Paired, Results, Uses
  <2>4. plan.type = "disabled" =>
          \A i \in DOMAIN m : Holds(m[i].content, "thinking") = {}
    BY <2>2 DEF NoThinking, Thinking
  <2>5. m[1].role = "user"
    BY <2>2 DEF Paired
  <2>6. plan.thinks => Last(m).role = "user"
    BY <2>2 DEF Last, LastOne
  <2>7. QED BY <2>2, <2>3, <2>4, <2>5, <2>6 DEF Holds, m, plan
<1>2. QED BY <1>1 DEF RequestAccepted

----------------------------------------------------------------------------
(* The ring of the thinking cache and its entries hold the same calls, for *)
(* any size of the ring and any streams that put thinking under calls at   *)
(* once (thinkingBlockCache.Put); and every agent, adapter and turn stays  *)
(* within its states.                                                      *)
THEOREM RingHolds == Spec => []CacheMatchesRing
<1>1. Init => ProviderInv
  BY InitOK
<1>2. ProviderInv /\ [Next]_vars => ProviderInv'
  BY NextKept
<1>3. ProviderInv => CacheMatchesRing
  BY RingKept
<1>4. QED BY <1>1, <1>2, <1>3, PTL DEF Spec

(* An agent assembles the calls of its answer, each with its own arguments *)
(* and in order, in every state of the stream and however it ends; and one *)
(* [DONE] at most ends it, behind one usage chunk at most                  *)
(* (AnthropicStreamAdapter, TranslateResponseBody).                        *)
THEOREM CallsArrive == Spec => []CallsDelivered
<1>1. Init => ProviderInv
  BY InitOK
<1>2. ProviderInv /\ [Next]_vars => ProviderInv'
  BY NextKept
<1>3. ProviderInv => CallsDelivered
  BY CallsKept
<1>4. QED BY <1>1, <1>2, <1>3, PTL DEF Spec

(* A request is one the Messages API takes, whatever the agents have been  *)
(* answered and however they keep, split and drop their turns: roles       *)
(* alternate from a user message, every call has its result in the next    *)
(* message, a model that thinks gets no prefill, its budget fits in its    *)
(* tokens, and no thinking is sent when it is disabled                     *)
(* (BuildUpstreamRequest, translateMessagesFast).                          *)
THEOREM RequestsTaken == Spec => []RequestAccepted
<1>1. Init => ProviderInv /\ RequestInv
  BY InitOK, InitAsks
<1>2. (ProviderInv /\ RequestInv) /\ [Next]_vars
        => (ProviderInv /\ RequestInv)'
  BY NextAsks
<1>3. ProviderInv /\ RequestInv => RequestAccepted
  BY AcceptedIs
<1>4. QED BY <1>1, <1>2, <1>3, PTL DEF Spec
==============================================================================
