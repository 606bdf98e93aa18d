--------------------------- MODULE StreamTurnProofs ---------------------------
(***************************************************************************)
(* Proofs about StreamTurn, for any size of the peek and any limits: a     *)
(* streaming turn keeps what ClientStream promises, and leaves nothing     *)
(* behind when it is over.                                                 *)
(***************************************************************************)
EXTENDS StreamTurn, TLAPS

----------------------------------------------------------------------------
(* What a sequence of events holds. *)

Says(s) == \E i \in DOMAIN s : s[i] = "speech"
Stops(s) == \E i \in DOMAIN s : s[i] = "finish"
Ends(s) == \E i \in DOMAIN s : s[i] = "done"
Empty(s) == s = <<>>
Clean(s) == \A i \in DOMAIN s : s[i] = "done" => i = Len(s)

\* Concatenation brings nothing and loses nothing.
LEMMA Joined ==
  ASSUME NEW s \in Seq(Events), NEW u \in Seq(Events)
  PROVE  /\ s \o u \in Seq(Events)
         /\ Says(s \o u) <=> Says(s) \/ Says(u)
         /\ Stops(s \o u) <=> Stops(s) \/ Stops(u)
         /\ Ends(s \o u) <=> Ends(s) \/ Ends(u)
         /\ ~Ends(s) /\ Clean(u) => Clean(s \o u)
         /\ Empty(s \o u) <=> Empty(s) /\ Empty(u)
<1>1. /\ s \o u \in Seq(Events)
      /\ Len(s \o u) = Len(s) + Len(u) /\ Len(s) \in Nat /\ Len(u) \in Nat
      /\ DOMAIN s = 1 .. Len(s) /\ DOMAIN u = 1 .. Len(u)
      /\ DOMAIN (s \o u) = 1 .. Len(s) + Len(u)
      /\ \A i \in 1 .. Len(s) : (s \o u)[i] = s[i]
      /\ \A i \in 1 .. Len(u) : (s \o u)[Len(s) + i] = u[i]
  OBVIOUS
<1>2. ASSUME NEW e
      PROVE  (\E i \in DOMAIN (s \o u) : (s \o u)[i] = e)
               <=> \/ \E i \in DOMAIN s : s[i] = e
                   \/ \E i \in DOMAIN u : u[i] = e
  <2>1. ASSUME NEW i \in DOMAIN (s \o u), (s \o u)[i] = e
        PROVE  (\E j \in DOMAIN s : s[j] = e) \/ (\E j \in DOMAIN u : u[j] = e)
    <3>1. CASE i <= Len(s)
      BY <1>1, <2>1, <3>1
    <3>2. CASE i > Len(s)
      <4>1. i - Len(s) \in DOMAIN u /\ u[i - Len(s)] = e
        BY <1>1, <2>1, <3>2
      <4>2. QED BY <4>1
    <3>3. QED BY <1>1, <2>1, <3>1, <3>2
  <2>2. ASSUME NEW i \in DOMAIN s, s[i] = e
        PROVE  \E j \in DOMAIN (s \o u) : (s \o u)[j] = e
    BY <1>1, <2>2
  <2>3. ASSUME NEW i \in DOMAIN u, u[i] = e
        PROVE  \E j \in DOMAIN (s \o u) : (s \o u)[j] = e
    <3>1. /\ Len(s) + i \in DOMAIN (s \o u)
          /\ (s \o u)[Len(s) + i] = e
      BY <1>1, <2>3
    <3>2. QED BY <3>1
  <2>4. QED BY <2>1, <2>2, <2>3
<1>3. ASSUME ~Ends(s), Clean(u), NEW i \in DOMAIN (s \o u),
             (s \o u)[i] = "done"
      PROVE  i = Len(s \o u)
  <2>1. i > Len(s)
    BY <1>1, <1>3 DEF Ends
  <2>2. i - Len(s) \in DOMAIN u /\ u[i - Len(s)] = "done"
    BY <1>1, <1>3, <2>1
  <2>3. i - Len(s) = Len(u)
    BY <1>3, <2>2 DEF Clean
  <2>4. QED BY <1>1, <2>3
<1>4. s \o u = <<>> <=> s = <<>> /\ u = <<>>
  BY <1>1
<1>5. QED BY <1>1, <1>2, <1>3, <1>4 DEF Says, Stops, Ends, Empty, Clean

\* The events that are sent together.
LEMMA One ==
  ASSUME NEW e \in Events
  PROVE  /\ <<e>> \in Seq(Events) /\ ~Empty(<<e>>)
         /\ Says(<<e>>) <=> e = "speech"
         /\ Stops(<<e>>) <=> e = "finish"
         /\ Ends(<<e>>) <=> e = "done"
         /\ Clean(<<e>>)
BY DEF Says, Stops, Ends, Empty, Clean, Events

LEMMA None ==
  ASSUME NEW s, Empty(s)
  PROVE  s \in Seq(Events) /\ ~Says(s) /\ ~Stops(s) /\ ~Ends(s) /\ Clean(s)
BY DEF Says, Stops, Ends, Empty, Clean, Events

LEMMA Notices ==
  /\ <<"speech", "finish">> \in Seq(Events)
  /\ Says(<<"speech", "finish">>) /\ ~Ends(<<"speech", "finish">>)
  /\ Clean(<<"speech", "finish">>) /\ ~Empty(<<"speech", "finish">>)
  /\ <<"notice", "finish">> \in Seq(Events)
  /\ ~Says(<<"notice", "finish">>) /\ ~Ends(<<"notice", "finish">>)
  /\ Clean(<<"notice", "finish">>) /\ ~Empty(<<"notice", "finish">>)
BY DEF Says, Ends, Empty, Clean, Events

\* What a chunk is written as.
LEMMA PartsAre ==
  ASSUME NEW s \in {<<"speech">>, <<>>}, NEW u \in {<<"finish">>, <<>>},
         NEW w, w = IF s \o u = <<>> THEN <<"chunk">> ELSE s \o u
  PROVE  /\ w \in Seq(Events) /\ ~Empty(w) /\ ~Ends(w) /\ Clean(w)
         /\ Says(w) <=> s = <<"speech">>
         /\ Stops(w) <=> u = <<"finish">>
<1>1. /\ s \in Seq(Events) /\ ~Stops(s) /\ ~Ends(s) /\ Clean(s)
      /\ Says(s) <=> s = <<"speech">>
      /\ Empty(s) <=> s # <<"speech">>
  <2>1. <<>> # <<"speech">> /\ Empty(<<>>)
    BY DEF Empty
  <2>2. QED BY <2>1, One, None DEF Events
<1>2. /\ u \in Seq(Events) /\ ~Says(u) /\ ~Ends(u) /\ Clean(u)
      /\ Stops(u) <=> u = <<"finish">>
      /\ Empty(u) <=> u # <<"finish">>
  <2>1. <<>> # <<"finish">> /\ Empty(<<>>)
    BY DEF Empty
  <2>2. QED BY <2>1, One, None DEF Events
<1> DEFINE parts == s \o u
<1>3. w = IF Empty(parts) THEN <<"chunk">> ELSE parts
  BY DEF Empty
<1>4. /\ parts \in Seq(Events) /\ ~Ends(parts) /\ Clean(parts)
      /\ Says(parts) <=> s = <<"speech">>
      /\ Stops(parts) <=> u = <<"finish">>
      /\ Empty(parts) <=> s # <<"speech">> /\ u # <<"finish">>
  BY <1>1, <1>2, Joined
<1> HIDE DEF parts
<1>5. QED BY <1>3, <1>4, One DEF Events

LEMMA WrittenIs ==
  ASSUME NEW line, line.tool \in BOOLEAN, NEW speaks \in BOOLEAN,
         NEW w, w = Written(line, speaks)
  PROVE  /\ w \in Seq(Events) /\ ~Empty(w) /\ ~Ends(w) /\ Clean(w)
         /\ Says(w) <=> line.tool \/ speaks
         /\ Stops(w) <=> line.finish # "none"
<1> DEFINE s == IF line.tool \/ speaks THEN <<"speech">> ELSE <<>>
           u == IF line.finish # "none" THEN <<"finish">> ELSE <<>>
<1>1. w = IF s \o u = <<>> THEN <<"chunk">> ELSE s \o u
  BY DEF Written
<1>2. <<>> # <<"speech">> /\ <<>> # <<"finish">>
  OBVIOUS
<1>3. /\ s \in {<<"speech">>, <<>>} /\ u \in {<<"finish">>, <<>>}
      /\ s = <<"speech">> <=> line.tool \/ speaks
      /\ u = <<"finish">> <=> line.finish # "none"
  BY <1>2
<1> HIDE DEF s, u
<1>4. QED BY <1>1, <1>3, PartsAre

\* One whose delta shows no text.
LEMMA MuteIs ==
  ASSUME NEW line \in Line, NEW w, w = Written(line, FALSE)
  PROVE  /\ w \in Seq(Events) /\ ~Empty(w) /\ ~Ends(w) /\ Clean(w)
         /\ Says(w) <=> line.tool
         /\ Stops(w) <=> line.finish # "none"
<1> DEFINE s == IF line.tool \/ FALSE THEN <<"speech">> ELSE <<>>
           u == IF line.finish # "none" THEN <<"finish">> ELSE <<>>
<1>1. w = IF s \o u = <<>> THEN <<"chunk">> ELSE s \o u
  BY DEF Written
<1>2. <<>> # <<"speech">> /\ <<>> # <<"finish">>
  OBVIOUS
<1>3. /\ s \in {<<"speech">>, <<>>} /\ u \in {<<"finish">>, <<>>}
      /\ s = <<"speech">> <=> line.tool
      /\ u = <<"finish">> <=> line.finish # "none"
  BY <1>2
<1> HIDE DEF s, u
<1>4. QED BY <1>1, <1>3, PartsAre

\* The two loop notices and the notice of an exhausted recovery.
Farewells == {<<"chunk", "notice", "done">>, <<"notice", "finish", "done">>,
              <<"notice", "finish", "chunk", "done">>}

LEMMA Farewell ==
  ASSUME NEW s \in Farewells
  PROVE  s \in Seq(Events) /\ ~Says(s) /\ Ends(s) /\ Clean(s)
<1>1. CASE s = <<"chunk", "notice", "done">>
  <2>1. s[3] = "done" /\ 3 \in DOMAIN s
    BY <1>1
  <2>2. QED BY <1>1, <2>1 DEF Says, Ends, Empty, Clean, Events
<1>2. CASE s = <<"notice", "finish", "done">>
  <2>1. s[3] = "done" /\ 3 \in DOMAIN s
    BY <1>2
  <2>2. QED BY <1>2, <2>1 DEF Says, Ends, Empty, Clean, Events
<1>3. CASE s = <<"notice", "finish", "chunk", "done">>
  <2>1. s[4] = "done" /\ 4 \in DOMAIN s
    BY <1>3
  <2>2. QED BY <1>3, <2>1 DEF Says, Ends, Empty, Clean, Events
<1>4. QED BY <1>1, <1>2, <1>3 DEF Farewells

\* What the client has been sent after a write.
LEMMA SentIs ==
  ASSUME NEW c, NEW s \in Seq(Events)
  PROVE  /\ DOMAIN Sent(c, s) = {"said", "over", "done", "late"}
         /\ Sent(c, s).said <=> c.said \/ Says(s)
         /\ Sent(c, s).over <=> c.over \/ Stops(s)
         /\ Sent(c, s).done <=> c.done \/ Ends(s)
         /\ Sent(c, s).late <=> c.late \/ (c.done /\ ~Empty(s)) \/ ~Clean(s)
<1>1. \A i \in DOMAIN s : i < Len(s) <=> i # Len(s)
  BY DEF Clean
<1>2. QED BY <1>1 DEF Sent, Says, Stops, Ends, Empty, Clean
----------------------------------------------------------------------------
(* The normalizer. *)

Fields == {"content", "nonblank", "tools", "native", "thinking", "pending",
           "finish", "held", "out", "done", "ended", "violated", "usage",
           "defer", "prelude"}

\* Two normalizers differ at most in the fields of F.
Same(m, n, F) == \A f \in Fields \ F : m[f] = n[f]

(***************************************************************************)
(* What holds of a normalizer between two calls of Read, whatever it has   *)
(* been sent.  A terminal is held only while nothing has been said; [DONE] *)
(* goes out only when none is held; and after it nothing is pending that   *)
(* the end of the upstream would flush.                                    *)
(***************************************************************************)
Sound(n) ==
  /\ DOMAIN n = Fields
  /\ n.out \in Seq(Events) /\ Clean(n.out)
  /\ n.nonblank => n.content
  /\ n.held => ~n.content /\ ~n.tools /\ n.finish # "none"
  /\ n.done => n.pending = "none" /\ (n.held => Truncated(n))
  /\ Ends(n.out) => n.done /\ ~n.held

\* The client has not been told that the answer is over.
Open(n) == n.held \/ (n.finish = "none" /\ ~n.done)

\* What it has sent is what it has recorded: prose and tool calls, and no
\* finish_reason while one is held or still to come.
Noted(n) ==
  /\ Says(n.out) => n.nonblank \/ n.tools
  /\ Open(n) => ~Stops(n.out)

LEMMA PutAdds ==
  ASSUME NEW n, DOMAIN n = Fields, n.out \in Seq(Events), ~Ends(n.out),
         NEW e \in Seq(Events), Clean(e),
         NEW m, m = Put(n, e)
  PROVE  /\ DOMAIN m = Fields /\ m.out \in Seq(Events)
         /\ Same(m, n, {"out"})
         /\ Says(m.out) <=> Says(n.out) \/ Says(e)
         /\ Stops(m.out) <=> Stops(n.out) \/ Stops(e)
         /\ Ends(m.out) <=> Ends(e)
         /\ Clean(m.out)
         /\ Empty(m.out) <=> Empty(n.out) /\ Empty(e)
<1>1. /\ DOMAIN m = Fields /\ m.out = n.out \o e
      /\ Same(m, n, {"out"})
  BY DEF Put, Fields, Same
<1>2. QED BY <1>1, Joined

Flushed == {"pending", "out", "content", "nonblank", "violated"}

Flush(n, skip) == n.pending = "lt" /\ ~n.thinking /\ ~(skip /\ n.tools)

\* What flushing a pending delimiter makes of n: it sends what it records,
\* and never [DONE].
FlushedTo(n, skip, trips, m) ==
  /\ DOMAIN m = Fields /\ m.out \in Seq(Events)
  /\ m.pending = "none"
  /\ Same(m, n, Flushed)
  /\ Stops(m.out) <=> Stops(n.out)
  /\ Ends(m.out) <=> Ends(n.out)
  /\ ~Ends(n.out) /\ Clean(n.out) => Clean(m.out)
  /\ Flush(n, skip) => Says(m.out) /\ m.nonblank /\ m.content
  /\ ~Flush(n, skip) => (Says(m.out) <=> Says(n.out))
  /\ ~Flush(n, skip) => m.nonblank = n.nonblank /\ m.content = n.content
  /\ n.pending # "lt" => m.out = n.out /\ m.violated = n.violated
  /\ m.violated => n.violated \/ trips
  /\ Empty(m.out) => Empty(n.out) /\ m.violated = n.violated

LEMMA FlushAdds ==
  ASSUME NEW n, DOMAIN n = Fields, n.out \in Seq(Events),
         NEW skip \in BOOLEAN, NEW trips \in BOOLEAN,
         NEW m, m = FlushPendingDelimiter(n, skip, trips)
  PROVE  FlushedTo(n, skip, trips, m)
<1> DEFINE chunk == <<"chunk">>
           speech == <<"speech">>
<1>1. /\ chunk \in Seq(Events) /\ speech \in Seq(Events)
      /\ ~Says(chunk) /\ ~Ends(chunk) /\ Clean(chunk) /\ ~Empty(chunk)
      /\ Says(speech) /\ ~Ends(speech) /\ Clean(speech) /\ ~Empty(speech)
      /\ ~Stops(chunk) /\ ~Stops(speech)
  BY One DEF Events
<1>2. /\ DOMAIN m = Fields /\ m.pending = "none"
      /\ Same(m, n, Flushed)
      /\ IF n.pending = "lt" /\ ~(skip /\ n.tools)
         THEN /\ m.violated = (n.violated \/ trips)
              /\ IF n.thinking
                 THEN /\ m.out = n.out \o chunk
                      /\ m.nonblank = n.nonblank /\ m.content = n.content
                 ELSE m.out = n.out \o speech /\ m.nonblank /\ m.content
         ELSE /\ m.out = n.out /\ m.violated = n.violated
              /\ m.nonblank = n.nonblank /\ m.content = n.content
  BY DEF FlushPendingDelimiter, Put, RecordProse, Observe, Fields, Same, Flushed
<1> HIDE DEF chunk, speech
<1>3. /\ n.out \o chunk \in Seq(Events) /\ n.out \o speech \in Seq(Events)
      /\ Says(n.out \o chunk) <=> Says(n.out)
      /\ Says(n.out \o speech)
      /\ Stops(n.out \o chunk) <=> Stops(n.out)
      /\ Stops(n.out \o speech) <=> Stops(n.out)
      /\ Ends(n.out \o chunk) <=> Ends(n.out)
      /\ Ends(n.out \o speech) <=> Ends(n.out)
      /\ ~Ends(n.out) => Clean(n.out \o chunk) /\ Clean(n.out \o speech)
      /\ ~Empty(n.out \o chunk) /\ ~Empty(n.out \o speech)
  BY <1>1, Joined
<1>4. CASE n.pending = "lt" /\ ~(skip /\ n.tools) /\ n.thinking
  BY ONLY <1>2, <1>3, <1>4 DEF Fields, Same, Flushed, Flush, FlushedTo
<1>5. CASE n.pending = "lt" /\ ~(skip /\ n.tools) /\ ~n.thinking
  BY ONLY <1>2, <1>3, <1>5 DEF Fields, Same, Flushed, Flush, FlushedTo
<1>6. CASE ~(n.pending = "lt" /\ ~(skip /\ n.tools))
  BY <1>2, <1>6 DEF Flush, FlushedTo
<1>7. QED BY <1>4, <1>5, <1>6

\* Letting go of a terminal sends neither speech nor [DONE].
LEMMA HeldAdds ==
  ASSUME NEW n, DOMAIN n = Fields, n.out \in Seq(Events),
         ~Ends(n.out), Clean(n.out),
         NEW m, m = FlushHeldTerminal(n)
  PROVE  /\ DOMAIN m = Fields /\ m.out \in Seq(Events)
         /\ Same(m, n, {"held", "out"})
         /\ ~Ends(m.out) /\ Clean(m.out) /\ (Says(m.out) <=> Says(n.out))
         /\ Empty(m.out) => Empty(n.out)
         /\ m.held <=> n.held /\ Truncated(n)
         /\ ~n.held \/ Truncated(n) => m = n
<1> DEFINE k == [n EXCEPT !.held = FALSE]
<1>1. /\ DOMAIN k = Fields /\ k.held = FALSE /\ k.out = n.out
      /\ Same(k, n, {"held"})
  BY DEF Fields, Same, Flushed
<1>2. /\ m = n \/ m = Put(k, <<"notice", "finish">>) \/ m = Put(k, <<"finish">>)
      /\ m = n <=> ~n.held \/ Truncated(n)
  <2>1. CASE ~n.held \/ Truncated(n)
    BY <2>1 DEF FlushHeldTerminal
  <2>2. CASE ~(~n.held \/ Truncated(n))
    <3>1. m = Put(k, <<"notice", "finish">>) \/ m = Put(k, <<"finish">>)
      BY <2>2 DEF FlushHeldTerminal
    <3>2. ~m.held
      BY <3>1, <1>1 DEF Put, Fields, Same, Flushed
    <3>3. QED BY <2>2, <3>1, <3>2
  <2>3. QED BY <2>1, <2>2
<1> HIDE DEF k
<1>3. CASE m = n
  BY <1>2, <1>3 DEF Truncated, Same
<1>4. ASSUME NEW e \in Seq(Events), m = Put(k, e), m # n,
             ~Empty(e), ~Says(e), ~Ends(e), Clean(e)
      PROVE  /\ DOMAIN m = Fields /\ m.out \in Seq(Events) /\ ~Empty(m.out)
             /\ Same(m, n, {"held", "out"})
             /\ ~Ends(m.out) /\ Clean(m.out) /\ (Says(m.out) <=> Says(n.out))
             /\ ~m.held
  <2>1. /\ DOMAIN m = Fields /\ m.out \in Seq(Events) /\ ~Empty(m.out)
        /\ Same(m, k, {"out"})
        /\ ~Ends(m.out) /\ Clean(m.out) /\ (Says(m.out) <=> Says(n.out))
    <3>1. /\ DOMAIN k = Fields /\ k.out \in Seq(Events)
          /\ ~Ends(k.out) /\ (Says(k.out) <=> Says(n.out))
      BY <1>1
    <3>2. /\ DOMAIN m = Fields /\ m.out \in Seq(Events)
          /\ Same(m, k, {"out"})
          /\ Says(m.out) <=> Says(k.out) \/ Says(e)
          /\ Ends(m.out) <=> Ends(e)
          /\ Clean(m.out)
          /\ Empty(m.out) <=> Empty(k.out) /\ Empty(e)
      BY ONLY <1>4, <3>1, PutAdds
    <3>3. QED BY <1>4, <3>1, <3>2
  <2>2. QED BY <1>1, <2>1 DEF Fields, Same, Flushed
<1>5. CASE m # n
  BY <1>2, <1>4, <1>5, Notices, One DEF Events
<1>6. QED BY <1>3, <1>5

\* [DONE] from the upstream: either a terminal stays held, or [DONE] is the
\* last thing sent.
LEMMA DoneSound ==
  ASSUME NEW n, Sound(n), Noted(n), Empty(n.out), ~n.done,
         NEW trips \in BOOLEAN, NEW synthesize \in BOOLEAN,
         NEW m, m = HandleDone(n, trips, synthesize)
  PROVE  /\ Sound(m) /\ Noted(m)
         /\ m.done /\ (m.held \/ Ends(m.out))
         /\ m.held => n.held
         /\ m.violated => n.violated \/ trips
         /\ Empty(m.out) => m.violated = n.violated
         /\ n.tools \/ n.nonblank => m.tools \/ m.nonblank
<1> DEFINE f1 == FlushPendingDelimiter(n, TRUE, trips)
           fl == [f1 EXCEPT !.thinking = FALSE, !.done = TRUE]
           ft == [fl EXCEPT !.tools = TRUE]
           called == IF synthesize THEN Put(ft, <<"speech", "finish">>)
                     ELSE fl
           h == FlushHeldTerminal(called)
<1>1. /\ DOMAIN f1 = Fields /\ f1.out \in Seq(Events)
      /\ f1.pending = "none"
      /\ Same(f1, n, Flushed)
      /\ ~Ends(f1.out) /\ Clean(f1.out)
      /\ f1.nonblank => f1.content
      /\ Says(f1.out) => f1.nonblank
      /\ ~Stops(f1.out)
      /\ ~f1.nonblank => f1.content = n.content
      /\ f1.violated => n.violated \/ trips
      /\ n.nonblank => f1.nonblank
      /\ Empty(f1.out) => f1.violated = n.violated
  <2> DEFINE skip == TRUE
  <2>1. /\ DOMAIN n = Fields /\ n.out \in Seq(Events)
        /\ skip \in BOOLEAN /\ f1 = FlushPendingDelimiter(n, skip, trips)
    BY DEF Sound
  <2>2. skip = TRUE
    OBVIOUS
  <2> HIDE DEF skip, f1
  <2>3. FlushedTo(n, skip, trips, f1)
    BY ONLY <2>1, FlushAdds
  <2>4. QED BY <2>2, <2>3, None DEF Sound, Flush, FlushedTo
<1> HIDE DEF f1
<1>2. /\ DOMAIN fl = Fields /\ fl.done = TRUE /\ fl.thinking = FALSE
      /\ Same(fl, f1, {"thinking", "done"})
  BY <1>1 DEF Fields, Same, Flushed
<1> HIDE DEF fl
<1>3. /\ DOMAIN ft = Fields /\ ft.tools = TRUE
      /\ Same(ft, fl, {"tools"})
  BY <1>2 DEF Fields, Same, Flushed
<1> HIDE DEF ft
<1>4. /\ DOMAIN called = Fields /\ called.out \in Seq(Events)
      /\ Same(called, fl, {"tools", "out"})
      /\ ~Ends(called.out) /\ Clean(called.out)
      /\ Says(called.out) => called.nonblank \/ called.tools
      /\ IF synthesize THEN called.tools /\ ~Empty(called.out)
         ELSE called.tools = n.tools /\ called.out = f1.out
  <2>1. CASE synthesize
    <3> DEFINE e == <<"speech", "finish">>
    <3>1. called = Put(ft, e)
      BY <2>1
    <3>2. ft.out \in Seq(Events) /\ ~Ends(ft.out)
      BY <1>1, <1>2, <1>3 DEF Fields, Same, Flushed
    <3>3. e \in Seq(Events) /\ ~Empty(e) /\ ~Ends(e) /\ Clean(e)
      BY Notices
    <3> HIDE DEF e, called
    <3>4. /\ DOMAIN called = Fields /\ called.out \in Seq(Events)
          /\ Same(called, ft, {"out"})
          /\ ~Ends(called.out) /\ Clean(called.out) /\ ~Empty(called.out)
      <4>1. DOMAIN ft = Fields
        BY <1>3
      <4>2. /\ DOMAIN called = Fields /\ called.out \in Seq(Events)
            /\ Same(called, ft, {"out"})
            /\ Ends(called.out) <=> Ends(e)
            /\ Clean(called.out)
            /\ Empty(called.out) <=> Empty(ft.out) /\ Empty(e)
        BY ONLY <3>1, <3>2, <3>3, <4>1, PutAdds
      <4>3. QED BY <3>3, <4>2
    <3>5. QED BY <1>3, <2>1, <3>4 DEF Fields, Same, Flushed
  <2>2. CASE ~synthesize
    BY <1>1, <1>2, <2>2 DEF Fields, Same, Flushed
  <2>3. QED BY <2>1, <2>2
<1>5. m = IF Truncated(called) THEN h ELSE Put(h, <<"done">>)
  BY DEF HandleDone, f1, fl, ft
<1> HIDE DEF called
<1>6. /\ DOMAIN h = Fields /\ h.out \in Seq(Events)
      /\ Same(h, called, {"held", "out"})
      /\ ~Ends(h.out) /\ Clean(h.out) /\ (Says(h.out) <=> Says(called.out))
      /\ Empty(h.out) => Empty(called.out)
      /\ h.held <=> called.held /\ Truncated(called)
      /\ Truncated(called) => h = called
  BY <1>4, HeldAdds
<1> HIDE DEF h
<1>7. /\ called.held = n.held /\ called.finish = n.finish
      /\ called.defer = n.defer /\ called.ended = n.ended
      /\ called.nonblank = f1.nonblank /\ called.content = f1.content
      /\ called.pending = "none" /\ called.done /\ ~called.thinking
      /\ called.violated = f1.violated
  BY <1>1, <1>2, <1>4 DEF Fields, Same, Flushed
<1>8. CASE Truncated(called)
  <2>1. m = called
    BY <1>5, <1>6, <1>8
  <2>2. /\ called.held /\ ~called.tools /\ ~called.nonblank
    BY <1>8 DEF Truncated, IsEmptyTruncatedTurn
  <2>3. ~called.content /\ called.out = f1.out /\ ~synthesize /\ ~n.tools
    BY <1>1, <1>4, <1>7, <2>2 DEF Sound
  <2>4. QED BY <1>1, <1>4, <1>7, <1>8, <2>1, <2>2, <2>3 DEF Sound, Noted, Open
<1>9. CASE ~Truncated(called)
  <2>1. /\ DOMAIN m = Fields /\ m.out \in Seq(Events)
        /\ Same(m, h, {"out"})
        /\ Ends(m.out) /\ Clean(m.out) /\ (Says(m.out) <=> Says(h.out))
        /\ ~Empty(m.out)
    <3> DEFINE e == <<"done">>
    <3>1. m = Put(h, e)
      BY <1>5, <1>9
    <3>2. e \in Seq(Events) /\ ~Empty(e) /\ ~Says(e) /\ Ends(e) /\ Clean(e)
      BY One DEF Events
    <3> HIDE DEF e
    <3>3. DOMAIN h = Fields /\ h.out \in Seq(Events) /\ ~Ends(h.out)
      BY <1>6
    <3>4. /\ DOMAIN m = Fields /\ m.out \in Seq(Events)
          /\ Same(m, h, {"out"})
          /\ Says(m.out) <=> Says(h.out) \/ Says(e)
          /\ Ends(m.out) <=> Ends(e)
          /\ Clean(m.out)
          /\ Empty(m.out) <=> Empty(h.out) /\ Empty(e)
      BY ONLY <3>1, <3>2, <3>3, PutAdds
    <3>5. QED BY <3>2, <3>4
  <2>2. ~m.held
    BY <1>6, <1>9, <2>1 DEF Fields, Same, Flushed
  <2>3. /\ m.tools = called.tools /\ m.nonblank = called.nonblank
        /\ m.content = called.content /\ m.violated = called.violated
        /\ m.pending = "none" /\ m.done /\ ~m.thinking
        /\ m.defer = n.defer /\ m.ended = n.ended /\ m.finish = n.finish
    BY <1>6, <1>7, <2>1 DEF Fields, Same, Flushed
  <2>4. n.tools \/ n.nonblank => m.tools \/ m.nonblank
    BY <1>1, <1>4, <1>7, <2>3
  <2>5. QED BY <1>1, <1>4, <1>6, <1>7, <2>1, <2>2, <2>3, <2>4
            DEF Sound, Noted, Open
<1>10. QED BY <1>8, <1>9

Spoken(n) == n.nonblank \/ n.tools

\* What holds of a normalizer that has sent nothing since the last Read.
Quiet(n) ==
  /\ DOMAIN n = Fields /\ Empty(n.out) /\ ~n.done
  /\ n.nonblank => n.content
  /\ n.held => ~n.content /\ ~n.tools /\ n.finish # "none"

\* What a line makes of n before anything is sent.
Noting(n, m, trips) ==
  /\ Quiet(m)
  /\ Spoken(n) => Spoken(m)
  /\ Open(m) => Open(n)
  /\ m.violated => n.violated \/ trips

\* What a line other than [DONE] makes of n.
Keeps(n, m, trips) ==
  /\ Sound(m) /\ Noted(m)
  /\ ~m.done /\ ~Ends(m.out)
  /\ Spoken(n) => Spoken(m)
  /\ Open(m) => Open(n)
  /\ m.violated => n.violated \/ trips
  /\ Empty(m.out) => m.violated = n.violated

LEMMA PutSound ==
  ASSUME NEW n, NEW trips, NEW j, Noting(n, j, trips),
         NEW e \in Seq(Events), ~Empty(e), ~Ends(e), Clean(e),
         Says(e) => Spoken(j), Stops(e) => ~Open(j),
         NEW m, m = Put(j, e)
  PROVE  Keeps(n, m, trips) /\ ~Empty(m.out)
<1>1. DOMAIN j = Fields /\ j.out \in Seq(Events) /\ ~Ends(j.out)
      /\ ~Says(j.out) /\ ~Stops(j.out)
  BY None DEF Noting, Quiet
<1>2. /\ DOMAIN m = Fields /\ m.out \in Seq(Events)
      /\ Same(m, j, {"out"})
      /\ Says(m.out) <=> Says(j.out) \/ Says(e)
      /\ Stops(m.out) <=> Stops(j.out) \/ Stops(e)
      /\ Ends(m.out) <=> Ends(e)
      /\ Clean(m.out)
      /\ Empty(m.out) <=> Empty(j.out) /\ Empty(e)
  BY ONLY <1>1, PutAdds, e \in Seq(Events), Clean(e), m = Put(j, e)
<1>3. /\ m.content = j.content /\ m.nonblank = j.nonblank /\ m.tools = j.tools
      /\ m.pending = j.pending /\ m.held = j.held /\ m.finish = j.finish
      /\ m.done = j.done /\ m.violated = j.violated
  BY ONLY <1>2 DEF Same, Fields
<1>4. QED BY <1>1, <1>2, <1>3
          DEF Noting, Quiet, Keeps, Sound, Noted, Spoken, Open

\* What is noted by two steps, one after the other.
LEMMA NotingTwice ==
  ASSUME NEW n, NEW k, NEW m, NEW trips,
         Noting(n, k, trips), Noting(k, m, trips)
  PROVE  Noting(n, m, trips)
BY DEF Noting

\* Prose, a tool call and reasoning are recorded, and hold nothing.
LEMMA RecordNotes ==
  ASSUME NEW n, Quiet(n), ~n.held, NEW trips \in BOOLEAN, NEW m,
         \/ m = Observe(n, trips) \/ m = RecordTool(n, trips)
         \/ \E v \in BOOLEAN : m = RecordProse(n, v, trips)
  PROVE  /\ Noting(n, m, trips) /\ ~m.held
         /\ m.finish = n.finish /\ m.pending = n.pending
         /\ m = RecordTool(n, trips) => Spoken(m)
         /\ m = RecordProse(n, TRUE, trips) => Spoken(m)
<1>1. /\ DOMAIN m = Fields
      /\ Same(m, n, {"violated", "content", "nonblank", "tools"})
      /\ m.violated => n.violated \/ trips
      /\ n.nonblank => m.nonblank
      /\ n.tools => m.tools
      /\ n.content => m.content
      /\ m.nonblank => m.content
      /\ m = RecordTool(n, trips) => m.tools
      /\ m = RecordProse(n, TRUE, trips) => m.nonblank
  BY DEF Quiet, Observe, RecordTool, RecordProse, Fields, Same
<1>2. /\ m.held = n.held /\ m.finish = n.finish /\ m.pending = n.pending
      /\ m.out = n.out /\ m.done = n.done
  BY ONLY <1>1 DEF Same, Fields
<1>3. QED BY <1>1, <1>2 DEF Noting, Quiet, Spoken, Open

\* So does a mark that no invariant is about.
LEMMA MarkNotes ==
  ASSUME NEW n, Quiet(n), NEW trips,
         NEW m, DOMAIN m = Fields,
         Same(m, n, {"thinking", "pending", "prelude", "native", "usage"})
  PROVE  /\ Noting(n, m, trips)
         /\ m.held = n.held /\ m.finish = n.finish /\ m.violated = n.violated
         /\ m.content = n.content /\ m.tools = n.tools
         /\ Spoken(n) => Spoken(m)
<1>1. /\ m.content = n.content /\ m.nonblank = n.nonblank
      /\ m.tools = n.tools /\ m.held = n.held /\ m.finish = n.finish
      /\ m.out = n.out /\ m.done = n.done /\ m.violated = n.violated
  BY DEF Same, Fields
<1>2. QED BY <1>1 DEF Noting, Quiet, Spoken, Open

\* Reasoning, and the text beside it.
LEMMA ReasonSound ==
  ASSUME NEW n, Quiet(n), ~n.held, NEW trips \in BOOLEAN,
         NEW line \in Line, line.tool => Spoken(n),
         line.finish # "none" => n.finish # "none",
         NEW m, m = ReasonPart(n, line, trips)
  PROVE  Keeps(n, m, trips) /\ ~Empty(m.out)
<1> DEFINE seen == Observe(n, trips)
           thought == [seen EXCEPT
                         !.thinking = TRUE,
                         !.pending = IF line.reason = "text" THEN "none"
                                     ELSE line.reason]
           speaks == line.text = "prose"
           told == RecordProse(thought, speaks, trips)
           w == Written(line, speaks)
           j == IF line.text = "none" THEN thought ELSE told
<1>1. m = Put(j, w)
  BY DEF ReasonPart
<1>2. Noting(n, seen, trips) /\ ~seen.held /\ seen.finish = n.finish
  BY RecordNotes
<1>3. /\ DOMAIN thought = Fields
      /\ Same(thought, seen, {"thinking", "pending", "prelude", "native",
                              "usage"})
  <2> HIDE DEF seen
  <2>1. QED BY <1>2 DEF Noting, Quiet, Same, Fields
<1>4. line.tool \in BOOLEAN
  BY DEF Line
<1> HIDE DEF seen, thought
<1>5. /\ Noting(n, thought, trips) /\ ~thought.held
      /\ thought.finish = n.finish /\ Quiet(thought)
  BY <1>2, <1>3, MarkNotes, NotingTwice DEF Noting
<1>6. /\ Noting(thought, told, trips) /\ ~told.held
      /\ told.finish = thought.finish
      /\ speaks => Spoken(told)
  <2>1. speaks \in BOOLEAN /\ told = RecordProse(thought, speaks, trips)
    OBVIOUS
  <2> HIDE DEF told
  <2>2. speaks => told = RecordProse(thought, TRUE, trips)
    BY <2>1
  <2> HIDE DEF speaks
  <2>3. QED BY <1>5, <2>1, <2>2, RecordNotes
<1>7. /\ w \in Seq(Events) /\ ~Empty(w) /\ ~Ends(w) /\ Clean(w)
      /\ Says(w) <=> line.tool \/ speaks
      /\ Stops(w) <=> line.finish # "none"
  <2>1. speaks \in BOOLEAN
    OBVIOUS
  <2> HIDE DEF speaks
  <2>2. QED BY <1>4, <2>1, WrittenIs
<1>8. speaks => line.text # "none"
  OBVIOUS
<1> HIDE DEF told, w, speaks
<1>9. /\ Noting(n, j, trips) /\ ~j.held /\ j.finish = n.finish
      /\ speaks => Spoken(j)
  BY <1>5, <1>6, <1>8, NotingTwice
<1> HIDE DEF j
<1>10. (Says(w) => Spoken(j)) /\ (Stops(w) => ~Open(j))
  BY <1>7, <1>9 DEF Noting, Open, Quiet
<1>11. QED BY <1>1, <1>7, <1>9, <1>10, PutSound

\* Text without reasoning.
LEMMA ContentSound ==
  ASSUME NEW n, Quiet(n), ~n.held, NEW trips \in BOOLEAN,
         NEW line \in Line, line.tool => Spoken(n),
         line.finish # "none" => n.finish # "none",
         NEW m, m = ContentPart(n, line, trips)
  PROVE  Keeps(n, m, trips) /\ ~Empty(m.out)
<1> DEFINE whole == n.pending # "none"
           joined == [n EXCEPT !.thinking = FALSE,
                               !.pending = IF line.text \in Partial
                                           THEN line.text ELSE "none"]
           part == line.text \in Partial /\ ~whole
           speaks == whole \/ line.text = "prose"
           told == RecordProse(joined, speaks, trips)
           w == Written(line, speaks)
           v == Written(line, FALSE)
<1>1. m = IF part THEN Put(joined, v) ELSE Put(told, w)
  BY DEF ContentPart
<1>2. /\ DOMAIN joined = Fields
      /\ Same(joined, n, {"thinking", "pending", "prelude", "native",
                          "usage"})
  BY DEF Quiet, Same, Fields
<1>3. line.tool \in BOOLEAN /\ speaks \in BOOLEAN
  BY DEF Line
<1> HIDE DEF joined, speaks
<1>4. /\ Noting(n, joined, trips) /\ ~joined.held /\ joined.finish = n.finish
      /\ Quiet(joined)
  BY <1>2, MarkNotes DEF Noting
<1>5. /\ Noting(joined, told, trips) /\ ~told.held
      /\ told.finish = joined.finish
      /\ speaks => Spoken(told)
  <2>1. told = RecordProse(joined, speaks, trips)
    OBVIOUS
  <2> HIDE DEF told
  <2>2. speaks => told = RecordProse(joined, TRUE, trips)
    BY <1>3, <2>1
  <2>3. QED BY <1>3, <1>4, <2>1, <2>2, RecordNotes
<1>6. Noting(n, told, trips)
  BY <1>4, <1>5, NotingTwice
<1>7. /\ w \in Seq(Events) /\ ~Empty(w) /\ ~Ends(w) /\ Clean(w)
      /\ Says(w) <=> line.tool \/ speaks
      /\ Stops(w) <=> line.finish # "none"
  BY <1>3, WrittenIs
<1>8. /\ v \in Seq(Events) /\ ~Empty(v) /\ ~Ends(v) /\ Clean(v)
      /\ Says(v) <=> line.tool
      /\ Stops(v) <=> line.finish # "none"
  BY <1>3, MuteIs
<1> HIDE DEF told, w, v, part
<1>9. CASE part
  <2>1. m = Put(joined, v)
    BY <1>1, <1>9
  <2>2. (Says(v) => Spoken(joined)) /\ (Stops(v) => ~Open(joined))
    BY <1>4, <1>8 DEF Noting, Open, Quiet
  <2>3. QED BY <1>4, <1>8, <2>1, <2>2, PutSound
<1>10. CASE ~part
  <2>1. m = Put(told, w)
    BY <1>1, <1>10
  <2>2. (Says(w) => Spoken(told)) /\ (Stops(w) => ~Open(told))
    BY <1>4, <1>5, <1>6, <1>7 DEF Noting, Open, Quiet
  <2>3. QED BY <1>6, <1>7, <2>1, <2>2, PutSound
<1>11. QED BY <1>9, <1>10

\* A chunk, whatever it joins.
LEMMA ChunkSound ==
  ASSUME NEW n, Quiet(n), ~n.held, NEW trips \in BOOLEAN,
         NEW line \in Line, line.finish # "none" => n.finish = "none",
         NEW m, m = ChunkPart(n, line, trips)
  PROVE  Keeps(n, m, trips)
<1> DEFINE ended == IF line.finish = "none" THEN n
                    ELSE [n EXCEPT !.finish = line.finish]
           tool == RecordTool(ended, trips)
           cut == [tool EXCEPT !.pending = "none"]
           j == IF line.tool THEN cut ELSE ended
           i == [j EXCEPT !.held = TRUE]
           v == Written(line, FALSE)
           stays == line.finish # "none" /\ ~j.content /\ ~j.tools
<1>1. /\ line.reason # "none" => m = ReasonPart(j, line, trips)
      /\ line.reason = "none" /\ line.text # "none" =>
           m = ContentPart(j, line, trips)
      /\ line.reason = "none" /\ line.text = "none" =>
           m = IF stays THEN i ELSE Put(j, v)
  <2> DEFINE reason == line.reason # "none"
             text == line.reason = "none" /\ line.text # "none"
  <2>1. m = CASE reason -> ReasonPart(j, line, trips)
              [] text -> ContentPart(j, line, trips)
              [] OTHER -> IF stays THEN i ELSE Put(j, v)
    BY DEF ChunkPart
  <2>2. ~reason \/ ~text
    OBVIOUS
  <2>3. /\ reason => m = ReasonPart(j, line, trips)
        /\ text => m = ContentPart(j, line, trips)
        /\ ~reason /\ ~text => m = IF stays THEN i ELSE Put(j, v)
    <3> HIDE DEF reason, text, j, i, v, stays
    <3>1. QED BY <2>1, <2>2
  <2>4. QED BY <2>3
<1>2. /\ DOMAIN ended = Fields /\ Same(ended, n, {"finish"})
      /\ ended.finish = IF line.finish = "none" THEN n.finish ELSE line.finish
  BY DEF Quiet, Same, Fields
<1>3. line.tool \in BOOLEAN
  BY DEF Line
<1> HIDE DEF ended
<1>4. /\ Noting(n, ended, trips) /\ ~ended.held /\ Quiet(ended)
      /\ ended.violated = n.violated
  <2>1. /\ ended.content = n.content /\ ended.nonblank = n.nonblank
        /\ ended.tools = n.tools /\ ended.held = n.held
        /\ ended.out = n.out /\ ended.done = n.done
        /\ ended.violated = n.violated
    BY ONLY <1>2 DEF Same, Fields
  <2>2. QED BY <1>2, <2>1 DEF Noting, Quiet, Spoken, Open
<1>5. /\ Noting(ended, tool, trips) /\ ~tool.held
      /\ tool.finish = ended.finish /\ Spoken(tool) /\ Quiet(tool)
  BY <1>4, RecordNotes DEF Noting
<1> HIDE DEF tool
<1>6. /\ DOMAIN cut = Fields
      /\ Same(cut, tool, {"thinking", "pending", "prelude", "native",
                          "usage"})
  BY <1>5 DEF Quiet, Same, Fields
<1> HIDE DEF cut
<1>7. /\ Noting(tool, cut, trips) /\ ~cut.held /\ cut.finish = tool.finish
      /\ Spoken(cut)
  BY <1>5, <1>6, MarkNotes
<1>8. /\ Noting(n, j, trips) /\ ~j.held /\ j.finish = ended.finish
      /\ line.tool => Spoken(j)
      /\ ~line.tool => j.violated = n.violated
  BY <1>4, <1>5, <1>7, NotingTwice
<1>9. line.finish # "none" => j.finish # "none"
  BY <1>2, <1>8
<1>10. line.tool => j.tools \/ j.content
  BY <1>8 DEF Noting, Quiet, Spoken
<1>11. Quiet(j) /\ DOMAIN j = Fields
  BY <1>8 DEF Noting, Quiet
<1> HIDE DEF j
<1>12. ASSUME Keeps(j, m, trips), ~Empty(m.out)
       PROVE  Keeps(n, m, trips)
  BY <1>8, <1>12 DEF Noting, Keeps
<1>13. CASE line.reason # "none"
  BY <1>1, <1>8, <1>9, <1>11, <1>12, <1>13, ReasonSound
<1>14. CASE line.reason = "none" /\ line.text # "none"
  BY <1>1, <1>8, <1>9, <1>11, <1>12, <1>14, ContentSound
<1>15. CASE line.reason = "none" /\ line.text = "none" /\ stays
  <2>1. m = i /\ ~line.tool
    BY <1>1, <1>10, <1>15
  <2>2. DOMAIN i = Fields /\ i.held = TRUE /\ Same(i, j, {"held"})
    BY <1>11 DEF Same, Fields
  <2> HIDE DEF i
  <2>3. /\ m.content = j.content /\ m.nonblank = j.nonblank
        /\ m.tools = j.tools /\ m.finish = j.finish /\ m.out = j.out
        /\ m.done = j.done /\ m.violated = j.violated
    BY ONLY <2>1, <2>2 DEF Same, Fields
  <2>4. Sound(m) /\ ~m.done /\ ~Ends(m.out)
    BY <1>8, <1>9, <1>11, <1>15, <2>1, <2>2, <2>3, None
       DEF Quiet, Sound
  <2>5. Noted(m) /\ (Spoken(n) => Spoken(m))
    BY <1>8, <1>11, <2>3, None DEF Noting, Quiet, Noted, Spoken
  <2>6. Open(n)
    BY <1>15 DEF Quiet, Open
  <2>7. QED BY <1>8, <2>1, <2>3, <2>4, <2>5, <2>6 DEF Keeps, Noting
<1>16. CASE line.reason = "none" /\ line.text = "none" /\ ~stays
  <2>1. m = Put(j, v)
    BY <1>1, <1>16
  <2>2. /\ v \in Seq(Events) /\ ~Empty(v) /\ ~Ends(v) /\ Clean(v)
        /\ Says(v) <=> line.tool
        /\ Stops(v) <=> line.finish # "none"
    BY <1>3, MuteIs
  <2> HIDE DEF v
  <2>3. (Says(v) => Spoken(j)) /\ (Stops(v) => ~Open(j))
    BY <1>8, <1>9, <2>2 DEF Open
  <2>4. QED BY <1>8, <2>1, <2>2, <2>3, PutSound
<1>17. QED BY <1>13, <1>14, <1>15, <1>16

\* A line, [DONE] and comments aside.
LEMMA DataSound ==
  ASSUME NEW n, Quiet(n), NEW trips \in BOOLEAN,
         NEW line \in Line, line.finish # "none" => n.finish = "none",
         NEW m, m = DataLine(n, line, trips)
  PROVE  Keeps(n, m, trips)
<1> DEFINE k == [n EXCEPT !.prelude = FALSE,
                          !.native = @ \/ line.tool,
                          !.usage = @ \/ line.usage]
           past == [n EXCEPT !.prelude = FALSE]
           first == n.prelude /\ line.kind = "prelude"
<1>1. /\ DOMAIN k = Fields /\ DOMAIN past = Fields
      /\ Same(k, n, {"thinking", "pending", "prelude", "native", "usage"})
      /\ Same(past, n, {"thinking", "pending", "prelude", "native", "usage"})
  BY DEF Quiet, Fields, Same
<1>2. m \in {past, k} \/ (~n.held /\ m = ChunkPart(k, line, trips))
  <2>1. m = CASE first -> past
              [] n.held -> k
              [] OTHER -> ChunkPart(k, line, trips)
    BY DEF DataLine
  <2> HIDE DEF past, k, first
  <2>2. QED BY <2>1
<1> HIDE DEF k, past
<1>3. /\ Noting(n, k, trips) /\ k.held = n.held /\ k.finish = n.finish
      /\ k.violated = n.violated
      /\ Noting(n, past, trips) /\ past.violated = n.violated
  BY <1>1, MarkNotes
<1>4. CASE m \in {past, k}
  <2>1. Noting(n, m, trips) /\ m.violated = n.violated
    BY <1>3, <1>4
  <2>2. QED BY <2>1, None DEF Noting, Quiet, Keeps, Sound, Noted
<1>5. CASE ~n.held /\ m = ChunkPart(k, line, trips)
  <2>1. Keeps(k, m, trips)
    BY <1>3, <1>5, ChunkSound DEF Noting
  <2>2. QED BY <1>3, <2>1 DEF Noting, Keeps
<1>6. QED BY <1>2, <1>4, <1>5

\* What the end of the upstream makes of n.
Over(n, m, trips) ==
  /\ Sound(m) /\ Noted(m) /\ ~Ends(m.out)
  /\ m.finish = n.finish /\ m.done = n.done
  /\ Spoken(n) => Spoken(m)
  /\ m.violated => n.violated \/ trips
  /\ m.held => n.held
  /\ Empty(m.out) => m.violated = n.violated
  /\ n.done => Empty(m.out) /\ (n.held => m.held)
  /\ n.pending # "lt" => (Spoken(m) => Spoken(n)) /\ m.violated = n.violated
  /\ m.pending = "none" /\ m.ended = "eof"

LEMMA EndSound ==
  ASSUME NEW n, Sound(n), Noted(n), Empty(n.out), NEW trips \in BOOLEAN,
         NEW m, m = FlushHeldTerminal(
                      [FlushPendingDelimiter(n, FALSE, trips)
                         EXCEPT !.thinking = FALSE, !.ended = "eof"])
  PROVE  Over(n, m, trips)
<1> DEFINE skip == FALSE
           f == FlushPendingDelimiter(n, skip, trips)
           g == [f EXCEPT !.thinking = FALSE, !.ended = "eof"]
<1>1. /\ DOMAIN n = Fields /\ n.out \in Seq(Events) /\ ~Ends(n.out)
      /\ ~Says(n.out) /\ ~Stops(n.out) /\ Clean(n.out)
      /\ skip \in BOOLEAN /\ ~skip
  BY None DEF Sound
<1>2. m = FlushHeldTerminal(g)
  OBVIOUS
<1> HIDE DEF skip
<1>3. FlushedTo(n, skip, trips, f)
  <2>1. f = FlushPendingDelimiter(n, skip, trips)
    OBVIOUS
  <2> HIDE DEF f
  <2>2. QED BY ONLY <1>1, <2>1, FlushAdds
<1> HIDE DEF f
<1>4. /\ DOMAIN g = Fields /\ Same(g, f, {"thinking", "ended"})
      /\ g.thinking = FALSE /\ g.ended = "eof"
  BY <1>3 DEF FlushedTo, Same, Fields
<1> HIDE DEF g
<1>5. /\ g.out = f.out /\ g.pending = "none" /\ g.content = f.content
      /\ g.nonblank = f.nonblank /\ g.violated = f.violated
      /\ g.tools = n.tools /\ g.held = n.held /\ g.finish = n.finish
      /\ g.done = n.done /\ g.defer = n.defer
  BY <1>3, <1>4 DEF FlushedTo, Same, Fields, Flushed
<1>6. /\ DOMAIN m = Fields /\ m.out \in Seq(Events)
      /\ Same(m, g, {"held", "out"})
      /\ ~Ends(m.out) /\ Clean(m.out) /\ (Says(m.out) <=> Says(g.out))
      /\ Empty(m.out) => Empty(g.out)
      /\ m.held <=> g.held /\ Truncated(g)
      /\ ~g.held \/ Truncated(g) => m = g
  <2>1. /\ DOMAIN g = Fields /\ g.out \in Seq(Events)
        /\ ~Ends(g.out) /\ Clean(g.out)
    BY <1>1, <1>3, <1>4, <1>5 DEF FlushedTo
  <2>2. QED BY ONLY <1>2, <2>1, HeldAdds
<1>7. /\ m.pending = "none" /\ m.content = f.content
      /\ m.nonblank = f.nonblank /\ m.violated = f.violated
      /\ m.tools = n.tools /\ m.finish = n.finish /\ m.thinking = FALSE
      /\ m.done = n.done /\ m.defer = n.defer /\ m.ended = "eof"
  BY ONLY <1>4, <1>5, <1>6 DEF Same, Fields
<1>8. /\ n.nonblank => f.nonblank
      /\ f.nonblank => f.content
      /\ Says(f.out) => f.nonblank
      /\ n.pending # "lt" => f.nonblank = n.nonblank
  BY <1>1, <1>3 DEF FlushedTo, Sound, Flush
<1>9. n.done => /\ f.out = n.out /\ f.content = n.content
                /\ f.nonblank = n.nonblank /\ n.pending = "none"
  BY <1>1, <1>3 DEF FlushedTo, Sound, Flush
<1>10. Truncated(g) <=> n.held /\ n.finish = "length" /\ ~n.tools
                         /\ ~f.nonblank /\ n.defer
  BY <1>5 DEF Truncated, IsEmptyTruncatedTurn
<1>11. n.done => m.out = f.out /\ (n.held => m.held)
  <2>1. n.done /\ n.held => Truncated(n)
    BY DEF Sound
  <2>2. n.done /\ n.held => Truncated(g)
    BY <1>9, <1>10, <2>1 DEF Truncated, IsEmptyTruncatedTurn
  <2>3. n.done => ~g.held \/ Truncated(g)
    BY <1>5, <2>2
  <2>4. QED BY <1>5, <1>6, <2>2, <2>3
<1>12. m.held => /\ n.held /\ ~m.content /\ ~m.tools /\ m.finish # "none"
                 /\ Truncated(m)
  <2>1. m.held => m = g /\ g.held /\ Truncated(g) /\ ~f.nonblank
    BY <1>6, <1>10
  <2>2. ~f.nonblank => f.content = n.content
    BY <1>3 DEF FlushedTo
  <2>3. n.held => ~n.content /\ ~n.tools /\ n.finish # "none"
    BY DEF Sound
  <2>4. QED BY <1>5, <1>7, <2>1, <2>2, <2>3
<1>13. Sound(m)
  BY <1>6, <1>7, <1>8, <1>9, <1>12, <1>1 DEF Sound
<1>14. Noted(m)
  <2>1. Open(m) => m = g
    BY <1>5, <1>6, <1>7 DEF Open, Sound
  <2>2. ~Stops(g.out)
    BY <1>1, <1>3, <1>5 DEF FlushedTo
  <2>3. QED BY <1>5, <1>6, <1>7, <1>8, <2>1, <2>2 DEF Noted
<1>15. /\ m.violated => n.violated \/ trips
       /\ Empty(m.out) => m.violated = n.violated
       /\ n.pending # "lt" => m.violated = n.violated
  BY <1>3, <1>5, <1>6, <1>7 DEF FlushedTo
<1>16. QED
  BY <1>1, <1>6, <1>7, <1>8, <1>9, <1>11, <1>12, <1>13, <1>14, <1>15
     DEF Over, Spoken

----------------------------------------------------------------------------
(* The turn: an invariant for every position of handleStreaming, about     *)
(* what the client has been sent and what the normalizer has recorded.     *)


\* A raw stream is passed through as it comes.
Plain(n) == n.pending = "none" /\ ~n.held /\ ~Spoken(n)

\* [DONE] has come, and no terminal is held back with it.
Came(n) == n.done /\ ~n.held

NormInv ==
  /\ Sound(norm)
  /\ IF turn.raw THEN Plain(norm) ELSE Noted(norm)
  /\ norm.violated => turn.killer /\ ~turn.raw

ClientInv ==
  /\ DOMAIN client = {"said", "over", "done", "late"}
  /\ client.late => EndsTwice /\ phase \in {"after", "closed"}

\* Nothing is sent before the head; what is peeked ends with [DONE] at most.
PeekInv ==
  phase \in {"peek", "judge"} =>
    /\ Silent
    /\ peek \in Seq(Events) /\ Clean(peek)
    /\ ~turn.raw => /\ Says(peek) => Spoken(norm)
                    /\ Open(norm) => ~Stops(peek)
    /\ Ends(peek) => Came(norm) /\ Empty(norm.out)
    /\ Came(norm) => Ends(peek) \/ Ends(norm.out)
    /\ norm.violated => phase = "judge" \/ ~Empty(norm.out)
    /\ phase = "judge" => Empty(norm.out) /\ (Empty(peek) => AtEnd)

RelayInv ==
  phase = "relay" =>
    /\ ~turn.raw => /\ client.said => Spoken(norm)
                    /\ Open(norm) => ~client.over
    /\ client.done => /\ Came(norm) /\ Empty(norm.out)
                      /\ norm.violated => turn.fallback
    /\ Came(norm) => client.done \/ Ends(norm.out)

AfterInv ==
  phase = "after" =>
    /\ norm.held => Silent /\ ~turn.raw
    /\ Came(norm) /\ ~norm.violated /\ ~EmptyBody => client.done

\* While slaps are sent the client has heard nothing of the answer.
SlapInv ==
  /\ phase \in {"slap", "wait"} => ~turn.raw
  /\ phase = "wait" => Silent
  /\ phase = "slap" => /\ held => Silent
                       /\ client.done => EndsTwice

RescueInv ==
  phase = "rescue" =>
    /\ ~turn.raw
    /\ client.said => Spoken(norm)
    /\ Open(norm) => ~client.over
    /\ client.done => Came(norm) /\ Empty(norm.out) /\ ~norm.violated
    /\ Came(norm) => client.done \/ Ends(norm.out)

CloseInv ==
  /\ phase = "verdict" =>
       IF outcome \in Recovered
       THEN norm.done /\ ~norm.violated => client.done
       ELSE client.done => EndsTwice
  /\ phase = "closed" =>
       (norm.done /\ ~norm.violated /\ ~EmptyBody => client.done)

\* A notice is sent for every slap, before its answer is known.
CountInv ==
  /\ attempts \in Nat /\ notices \in Nat
  /\ phase \in {"peek", "judge", "relay", "after"} => attempts = 0
  /\ phase \in {"peek", "judge", "relay", "after", "slap"} =>
       notices = attempts
  /\ phase \in {"wait", "rescue"} =>
       notices = attempts + 1 /\ attempts < MaxAttempts
  /\ phase \notin {"verdict", "closed"} => outcome \notin Recovered

IInv ==
  /\ phase \in Phases
  /\ NormInv /\ ClientInv /\ PeekInv /\ RelayInv /\ AfterInv
  /\ SlapInv /\ RescueInv /\ CloseInv /\ CountInv

----------------------------------------------------------------------------
(* One call of Read. *)

\* What Read makes of a normalizer that has nothing to deliver.
ReadTo(n, m) ==
  /\ Sound(m)
  /\ IF turn.raw THEN Plain(m) ELSE Noted(m) /\ (Open(m) => Open(n))
  /\ Spoken(n) => Spoken(m)
  /\ m.violated => n.violated \/ (turn.killer /\ ~turn.raw)
  /\ n.done => /\ m.done /\ Empty(m.out) /\ (m.violated => n.violated)
               /\ m.held <=> n.held
  /\ Came(m) => Ends(m.out) \/ Came(n)
  /\ m.violated /\ ~n.violated => ~Empty(m.out)

\* A raw line is sent as it is.
LEMMA RawSound ==
  ASSUME NEW n, Sound(n), Plain(n), Empty(n.out), ~n.done,
         NEW line \in Line, NEW m,
         m = Put([n EXCEPT !.done = @ \/ line.kind = "done"],
                 IF line.kind = "done" THEN <<"done">>
                 ELSE Written(line, line.text # "none"))
  PROVE  /\ Sound(m) /\ Plain(m)
         /\ m.violated = n.violated
         /\ Came(m) => Ends(m.out)
<1> DEFINE k == [n EXCEPT !.done = @ \/ line.kind = "done"]
           speaks == line.text # "none"
           w == Written(line, speaks)
           u == IF line.kind = "done" THEN <<"done">> ELSE w
<1>1. line.tool \in BOOLEAN /\ speaks \in BOOLEAN
  BY DEF Line
<1>2. /\ u \in Seq(Events) /\ ~Empty(u) /\ Clean(u)
      /\ Ends(u) <=> line.kind = "done"
  <2> HIDE DEF speaks
  <2>1. w \in Seq(Events) /\ ~Empty(w) /\ ~Ends(w) /\ Clean(w)
    BY <1>1, WrittenIs
  <2> HIDE DEF w
  <2>2. QED BY <2>1, One DEF Events
<1>3. /\ DOMAIN k = Fields /\ Same(k, n, {"done"})
      /\ k.done <=> line.kind = "done"
  BY DEF Sound, Same, Fields
<1>4. m = Put(k, u)
  OBVIOUS
<1> HIDE DEF k, w, u
<1>5. DOMAIN k = Fields /\ k.out \in Seq(Events) /\ ~Ends(k.out)
  BY <1>3, None DEF Same, Fields
<1>6. /\ DOMAIN m = Fields /\ m.out \in Seq(Events)
      /\ Same(m, k, {"out"})
      /\ Ends(m.out) <=> Ends(u)
      /\ Clean(m.out)
  BY ONLY <1>2, <1>4, <1>5, PutAdds
<1>7. /\ m.pending = n.pending /\ m.held = n.held /\ m.nonblank = n.nonblank
      /\ m.content = n.content /\ m.tools = n.tools /\ m.done = k.done
      /\ m.violated = n.violated
  BY <1>3, <1>6 DEF Same, Fields
<1>8. QED
  BY <1>2, <1>3, <1>6, <1>7 DEF Sound, Plain, Spoken, Came

LEMMA LineRead ==
  ASSUME NormInv, NEW line \in Lines, NEW trips \in BOOLEAN,
         NEW synthesize \in BOOLEAN, ReadLine(line, trips, synthesize)
  PROVE  ReadTo(norm, norm')
<1> DEFINE n == norm
           m == norm'
<1>1. /\ Sound(n) /\ (IF turn.raw THEN Plain(n) ELSE Noted(n))
      /\ Empty(n.out) /\ ~n.done
      /\ m = ProcessLine(n, line, trips, synthesize)
      /\ trips => turn.killer /\ ~turn.raw
      /\ line \in Line
      /\ line.finish # "none" => n.finish = "none"
  BY LinesAssumption DEF NormInv, ReadLine, Empty
<1> SUFFICES ReadTo(n, m)
  OBVIOUS
<1> HIDE DEF n, m
<1>2. CASE turn.raw
  <2>1. m = Put([n EXCEPT !.done = @ \/ line.kind = "done"],
                IF line.kind = "done" THEN <<"done">>
                ELSE Written(line, line.text # "none"))
    BY <1>1, <1>2 DEF ProcessLine
  <2>2. Sound(n) /\ Plain(n) /\ Empty(n.out) /\ ~n.done /\ line \in Line
    BY <1>1, <1>2
  <2>3. /\ Sound(m) /\ Plain(m)
        /\ m.violated = n.violated
        /\ Came(m) => Ends(m.out)
    BY ONLY <2>1, <2>2, RawSound
  <2>4. QED BY <1>1, <1>2, <2>2, <2>3 DEF ReadTo, Plain
<1>3. CASE ~turn.raw /\ line.kind = "done"
  <2>1. m = HandleDone(n, trips, synthesize)
    BY <1>1, <1>3 DEF ProcessLine
  <2>2. Noted(n)
    BY <1>1, <1>3
  <2>3. /\ Sound(m) /\ Noted(m)
        /\ m.done /\ (m.held \/ Ends(m.out))
        /\ m.held => n.held
        /\ m.violated => n.violated \/ trips
        /\ Empty(m.out) => m.violated = n.violated
        /\ n.tools \/ n.nonblank => m.tools \/ m.nonblank
    BY <1>1, <2>1, <2>2, DoneSound
  <2>4. Open(m) => Open(n)
    BY <2>3 DEF Open
  <2>5. QED BY <1>1, <1>3, <2>3, <2>4 DEF ReadTo, Came, Spoken
<1>4. CASE ~turn.raw /\ line.kind # "done"
  <2>1. Quiet(n) /\ Noting(n, n, trips)
    BY <1>1 DEF Quiet, Sound, Noting
  <2>2. Keeps(n, m, trips)
    <3>1. CASE line.kind = "comment" /\ n.held
      <4>1. m = n
        BY <1>1, <1>4, <3>1 DEF ProcessLine
      <4>2. QED BY <1>1, <1>4, <3>1, <4>1, None DEF Keeps
    <3>2. CASE line.kind = "comment" /\ ~n.held
      <4> DEFINE e == <<"chunk">>
      <4>1. m = Put(n, e)
        BY <1>1, <1>4, <3>2 DEF ProcessLine
      <4>2. /\ e \in Seq(Events) /\ ~Empty(e) /\ ~Ends(e) /\ Clean(e)
            /\ ~Says(e) /\ ~Stops(e)
        BY One DEF Events
      <4> HIDE DEF e
      <4>3. QED BY ONLY <2>1, <4>1, <4>2, PutSound
    <3>3. CASE line.kind # "comment"
      <4>1. m = DataLine(n, line, trips)
        BY <1>1, <1>4, <3>3 DEF ProcessLine
      <4>2. QED BY <1>1, <2>1, <4>1, DataSound
    <3>4. QED BY <3>1, <3>2, <3>3
  <2>3. QED
    BY <1>1, <1>4, <2>2 DEF ReadTo, Keeps, Came
<1>5. QED BY <1>2, <1>3, <1>4

LEMMA EndRead ==
  ASSUME NormInv, NEW trips \in BOOLEAN, ReadEnd(trips)
  PROVE  ReadTo(norm, norm')
<1> DEFINE n == norm
           m == norm'
<1>1. /\ Sound(n) /\ (IF turn.raw THEN Plain(n) ELSE Noted(n))
      /\ Empty(n.out)
      /\ m = FlushHeldTerminal([FlushPendingDelimiter(n, FALSE, trips)
                                  EXCEPT !.thinking = FALSE, !.ended = "eof"])
      /\ trips => turn.killer /\ ~turn.raw
  BY DEF NormInv, ReadEnd, Empty
<1> SUFFICES ReadTo(n, m)
  OBVIOUS
<1> HIDE DEF n, m
<1>2. Noted(n)
  BY <1>1, None DEF Noted
<1>3. Over(n, m, trips)
  BY ONLY <1>1, <1>2, EndSound
<1>4. turn.raw => Plain(m)
  BY <1>1, <1>3 DEF Over, Plain
<1>5. (Came(m) => Came(n)) /\ (Open(m) => Open(n))
  BY <1>3 DEF Over, Came, Open
<1>6. QED BY <1>1, <1>3, <1>4, <1>5 DEF Over, ReadTo

LEMMA ErrorRead ==
  ASSUME NormInv, ReadError
  PROVE  ReadTo(norm, norm')
<1> DEFINE n == norm
           m == norm'
<1>1. /\ Sound(n) /\ (IF turn.raw THEN Plain(n) ELSE Noted(n))
      /\ Empty(n.out)
      /\ m = [n EXCEPT !.ended = "error"]
  BY DEF NormInv, ReadError, Empty
<1> SUFFICES ReadTo(n, m)
  OBVIOUS
<1> HIDE DEF n, m
<1>2. DOMAIN m = Fields /\ Same(m, n, {"ended"})
  BY <1>1 DEF Sound, Same, Fields
<1>3. /\ m.content = n.content /\ m.nonblank = n.nonblank /\ m.tools = n.tools
      /\ m.pending = n.pending /\ m.held = n.held
      /\ m.finish = n.finish /\ m.done = n.done /\ m.out = n.out
      /\ m.violated = n.violated /\ m.defer = n.defer
  BY ONLY <1>2 DEF Same, Fields
<1>4. Truncated(m) <=> Truncated(n)
  BY <1>3 DEF Truncated, IsEmptyTruncatedTurn
<1>5. Sound(m)
  BY <1>1, <1>2, <1>3, <1>4 DEF Sound
<1>6. /\ IF turn.raw THEN Plain(m) ELSE Noted(m)
      /\ Spoken(n) => Spoken(m)
      /\ Open(m) => Open(n)
  BY <1>1, <1>3 DEF Plain, Noted, Spoken, Open
<1>7. QED
  BY <1>1, <1>3, <1>5, <1>6, None DEF ReadTo, Came

LEMMA ReadKeeps ==
  ASSUME IInv, phase \in Reading, Empty(norm.out),
         ReadTo(norm, norm'),
         UNCHANGED <<turn, phase, held, peek, attempts, notices, outcome,
                     client>>
  PROVE  IInv'
<1> DEFINE n == norm
           m == norm'
<1>1. /\ ReadTo(n, m) /\ Empty(n.out) /\ ~Ends(n.out)
      /\ n.violated => turn.killer /\ ~turn.raw
  BY None DEF IInv, NormInv
<1> USE DEF IInv, Reading, Phases
<1>2. NormInv'
  BY <1>1 DEF NormInv, ReadTo
<1>3. PeekInv'
  <2> SUFFICES ASSUME phase = "peek" PROVE PeekInv'
    BY DEF PeekInv
  <2>1. /\ Silent /\ peek \in Seq(Events) /\ Clean(peek)
        /\ ~turn.raw => /\ Says(peek) => Spoken(n)
                        /\ Open(n) => ~Stops(peek)
        /\ Ends(peek) => Came(n)
        /\ ~n.violated
        /\ Came(n) => Ends(peek)
    BY <1>1 DEF PeekInv
  <2>2. /\ Came(n) => Came(m) /\ Empty(m.out)
        /\ Came(m) => Ends(m.out) \/ Came(n)
        /\ m.violated => ~Empty(m.out)
        /\ Spoken(n) => Spoken(m)
        /\ ~turn.raw => (Open(m) => Open(n))
    BY <1>1, <2>1 DEF ReadTo, Came
  <2> HIDE DEF n, m
  <2>3. QED BY <2>1, <2>2 DEF PeekInv, Silent, n, m
<1>4. RelayInv'
  <2> SUFFICES ASSUME phase = "relay" PROVE RelayInv'
    BY DEF RelayInv
  <2>1. /\ ~turn.raw => /\ client.said => Spoken(n)
                        /\ Open(n) => ~client.over
        /\ client.done => Came(n) /\ (n.violated => turn.fallback)
        /\ Came(n) => client.done
    BY <1>1 DEF RelayInv
  <2>2. /\ Came(n) => Came(m) /\ Empty(m.out) /\ (m.violated => n.violated)
        /\ Came(m) => Ends(m.out) \/ Came(n)
        /\ Spoken(n) => Spoken(m)
        /\ ~turn.raw => (Open(m) => Open(n))
    BY <1>1 DEF ReadTo, Came
  <2> HIDE DEF n, m
  <2>3. QED BY <2>1, <2>2 DEF RelayInv, n, m
<1>5. RescueInv'
  <2> SUFFICES ASSUME phase = "rescue" PROVE RescueInv'
    BY DEF RescueInv
  <2>1. /\ ~turn.raw
        /\ client.said => Spoken(n)
        /\ Open(n) => ~client.over
        /\ client.done => Came(n) /\ ~n.violated
        /\ Came(n) => client.done
    BY <1>1 DEF RescueInv
  <2>2. /\ Came(n) => Came(m) /\ Empty(m.out) /\ (m.violated => n.violated)
        /\ Came(m) => Ends(m.out) \/ Came(n)
        /\ Spoken(n) => Spoken(m)
        /\ Open(m) => Open(n)
    BY <1>1, <2>1 DEF ReadTo, Came
  <2> HIDE DEF n, m
  <2>3. QED BY <2>1, <2>2 DEF RescueInv, n, m
<1>6. ~client.late /\ ClientInv'
  BY DEF ClientInv
<1>7. AfterInv' /\ SlapInv' /\ CloseInv' /\ CountInv'
  BY DEF AfterInv, SlapInv, CloseInv, CountInv
<1>8. QED BY <1>2, <1>3, <1>4, <1>5, <1>6, <1>7

----------------------------------------------------------------------------
(* The deliveries. *)

\* What was returned is delivered.
LEMMA DrainedIs ==
  ASSUME NormInv, NEW d, d = Drained
  PROVE  /\ Sound(d) /\ Empty(d.out) /\ ~Ends(d.out) /\ Noted(d)
         /\ turn.raw => Plain(d)
         /\ d.violated => turn.killer /\ ~turn.raw
         /\ d.violated = norm.violated /\ d.held = norm.held
         /\ d.done = norm.done /\ d.ended = norm.ended
         /\ Came(d) <=> Came(norm)
         /\ Spoken(d) <=> Spoken(norm)
         /\ Open(d) <=> Open(norm)
         /\ d.nonblank = norm.nonblank /\ d.tools = norm.tools
<1>1. DOMAIN d = Fields /\ Empty(d.out) /\ Same(d, norm, {"out"})
  BY DEF NormInv, Sound, Drained, Same, Fields, Empty
<1>2. /\ d.content = norm.content /\ d.nonblank = norm.nonblank
      /\ d.tools = norm.tools /\ d.thinking = norm.thinking
      /\ d.pending = norm.pending /\ d.held = norm.held
      /\ d.finish = norm.finish /\ d.done = norm.done
      /\ d.violated = norm.violated /\ d.defer = norm.defer
      /\ d.ended = norm.ended
  BY ONLY <1>1 DEF Same, Fields
<1>3. /\ d.out \in Seq(Events) /\ Clean(d.out) /\ ~Ends(d.out)
      /\ ~Says(d.out) /\ ~Stops(d.out)
  BY <1>1, None
<1>4. Truncated(d) <=> Truncated(norm)
  BY <1>2 DEF Truncated, IsEmptyTruncatedTurn
<1>5. Sound(d)
  BY <1>1, <1>2, <1>3, <1>4 DEF NormInv, Sound
<1>6. QED
  BY <1>1, <1>2, <1>3, <1>5 DEF NormInv, Noted, Plain, Came, Spoken, Open

\* A terminal is let go of without being sent.
LEMMA ReleasedIs ==
  ASSUME NormInv, NEW d, Sound(d), Empty(d.out),
         d.violated => turn.killer /\ ~turn.raw,
         turn.raw => Plain(d),
         NEW r, r = [d EXCEPT !.held = FALSE]
  PROVE  /\ Sound(r) /\ Empty(r.out) /\ Noted(r) /\ ~r.held
         /\ turn.raw => Plain(r)
         /\ r.violated = d.violated /\ r.done = d.done /\ r.ended = d.ended
         /\ Spoken(r) <=> Spoken(d)
         /\ Open(r) => Open(d)
<1>1. DOMAIN r = Fields /\ r.held = FALSE /\ Same(r, d, {"held"})
  BY DEF Sound, Same, Fields
<1>2. /\ r.content = d.content /\ r.nonblank = d.nonblank
      /\ r.tools = d.tools /\ r.thinking = d.thinking
      /\ r.pending = d.pending /\ r.out = d.out /\ r.done = d.done
      /\ r.violated = d.violated /\ r.ended = d.ended
      /\ r.finish = d.finish
  BY ONLY <1>1 DEF Same, Fields
<1>3. Sound(r)
  BY <1>1, <1>2, None DEF Sound
<1>4. QED BY <1>1, <1>2, <1>3, None DEF Noted, Plain, Spoken, Open

LEMMA PeekKeeps == ASSUME IInv, Peek PROVE IInv'
<1> DEFINE d == Drained
<1>1. /\ Sound(d) /\ Empty(d.out) /\ ~Ends(d.out) /\ Noted(d)
      /\ turn.raw => Plain(d)
      /\ d.violated => turn.killer /\ ~turn.raw
      /\ d.violated = norm.violated /\ d.ended = norm.ended
      /\ Came(d) <=> Came(norm)
      /\ Spoken(d) <=> Spoken(norm)
      /\ Open(d) <=> Open(norm)
  BY DrainedIs DEF IInv
<1>2. /\ phase = "peek" /\ Returned /\ norm' = d /\ peek' = peek \o norm.out
      /\ phase' \in {"peek", "judge"}
      /\ norm.violated => phase' = "judge"
      /\ UNCHANGED <<turn, held, attempts, notices, outcome, client>>
  BY DEF Peek
<1> HIDE DEF d
<1> USE DEF IInv, Phases
<1>3. NormInv'
  BY <1>1, <1>2 DEF NormInv
<1>4. PeekInv'
  <2>1. /\ Silent /\ peek \in Seq(Events) /\ Clean(peek)
        /\ ~turn.raw => /\ Says(peek) => Spoken(norm)
                        /\ Open(norm) => ~Stops(peek)
        /\ Ends(peek) => Came(norm) /\ Empty(norm.out)
        /\ Came(norm) => Ends(peek) \/ Ends(norm.out)
    BY <1>2 DEF PeekInv
  <2>2. /\ norm.out \in Seq(Events) /\ Clean(norm.out)
        /\ Ends(norm.out) => Came(norm)
        /\ ~turn.raw => /\ Says(norm.out) => Spoken(norm)
                        /\ Open(norm) => ~Stops(norm.out)
    BY DEF NormInv, Sound, Came, Noted, Spoken
  <2>3. /\ peek' \in Seq(Events)
        /\ Says(peek') <=> Says(peek) \/ Says(norm.out)
        /\ Stops(peek') <=> Stops(peek) \/ Stops(norm.out)
        /\ Ends(peek') <=> Ends(peek) \/ Ends(norm.out)
        /\ Clean(peek')
        /\ Empty(peek') <=> Empty(peek) /\ Empty(norm.out)
    <3>1. CASE ~Ends(peek)
      BY <1>2, <2>1, <2>2, <3>1, Joined
    <3>2. CASE Ends(peek)
      <4>1. peek' = peek /\ Empty(norm.out)
        BY <1>2, <2>1, <3>2 DEF Empty
      <4>2. QED BY <2>1, <4>1, None
    <3>3. QED BY <3>1, <3>2
  <2>4. Empty(peek') => d.ended # "no"
    BY <1>1, <1>2, <2>3 DEF Returned, Empty
  <2>5. QED
    BY <1>1, <1>2, <2>1, <2>2, <2>3, <2>4 DEF PeekInv, Silent, AtEnd
<1>5. ClientInv' /\ AfterInv' /\ SlapInv' /\ CloseInv' /\ CountInv'
      /\ RelayInv' /\ RescueInv'
  BY <1>2 DEF ClientInv, AfterInv, SlapInv, CloseInv, CountInv, RelayInv,
              RescueInv
<1>6. QED BY <1>2, <1>3, <1>4, <1>5

LEMMA SendHeadKeeps == ASSUME IInv, SendHead PROVE IInv'
<1> DEFINE r == [norm EXCEPT !.held = FALSE]
<1> USE DEF IInv, Phases
<1>1. /\ Silent /\ peek \in Seq(Events) /\ Clean(peek)
      /\ ~turn.raw => /\ Says(peek) => Spoken(norm)
                      /\ Open(norm) => ~Stops(peek)
      /\ Ends(peek) => Came(norm)
      /\ Came(norm) => Ends(peek)
      /\ Empty(norm.out) /\ (Empty(peek) => AtEnd)
  BY None DEF SendHead, PeekInv
<1>2. /\ phase' = IF AtEnd THEN "after" ELSE "relay"
      /\ norm' = IF EmptyLocal THEN r ELSE norm
      /\ client' = Sent(client, peek)
      /\ UNCHANGED <<turn, held, attempts, notices, outcome>>
      /\ phase = "judge"
      /\ norm.violated => turn.fallback
  BY DEF SendHead, Caught, NormInv
<1>3. /\ DOMAIN client' = {"said", "over", "done", "late"} /\ ~client'.late
      /\ client'.said <=> Says(peek)
      /\ client'.over <=> Stops(peek)
      /\ client'.done <=> Ends(peek)
  BY <1>1, <1>2, SentIs DEF ClientInv, Silent
<1>4. /\ Sound(r) /\ Empty(r.out) /\ Noted(r) /\ ~r.held
      /\ turn.raw => Plain(r)
      /\ r.violated = norm.violated /\ r.done = norm.done
      /\ r.ended = norm.ended
      /\ Spoken(r) <=> Spoken(norm)
      /\ Open(r) => Open(norm)
  BY <1>1, ReleasedIs DEF NormInv
<1> HIDE DEF r
<1>5. /\ Sound(norm) /\ (turn.raw => Plain(norm)) /\ Noted(norm)
      /\ norm.violated => turn.killer /\ ~turn.raw
  BY <1>1, None DEF NormInv, Noted
<1>6. norm.held => ~Spoken(norm) /\ ~turn.raw /\ Open(norm)
  BY <1>5 DEF Sound, Spoken, Plain, Open
<1>7. EmptyLocal /\ ~AtEnd => Ends(peek)
  BY One DEF EmptyLocal, AtEnd, Events
<1>8. NormInv'
  BY <1>2, <1>4, <1>5 DEF NormInv
<1>9. RelayInv'
  <2>1. CASE ~AtEnd /\ EmptyLocal
    BY <1>1, <1>2, <1>3, <1>4, <1>7, <2>1 DEF RelayInv, Came
  <2>2. CASE ~AtEnd /\ ~EmptyLocal
    BY <1>1, <1>2, <1>3, <2>2 DEF RelayInv
  <2>3. CASE AtEnd
    BY <1>2, <2>3 DEF RelayInv
  <2>4. QED BY <2>1, <2>2, <2>3
<1>10. AfterInv'
  <2>1. CASE AtEnd /\ EmptyLocal
    <3>1. CASE Ends(peek)
      BY <1>2, <1>3, <1>4, <2>1, <3>1 DEF AfterInv
    <3>2. CASE ~Ends(peek)
      <4>1. peek # <<"done">>
        BY <3>2, One DEF Events
      <4>2. Empty(peek)
        BY <2>1, <4>1 DEF EmptyLocal, Empty
      <4>3. notices = 0
        BY <1>2 DEF CountInv
      <4>4. EmptyBody'
        BY <1>2, <1>3, <2>1, <4>2, <4>3, None
           DEF EmptyBody, EmptyLocal, Silent
      <4>5. QED BY <1>2, <1>4, <2>1, <4>4 DEF AfterInv
    <3>3. QED BY <3>1, <3>2
  <2>2. CASE AtEnd /\ ~EmptyLocal
    BY <1>1, <1>2, <1>3, <1>6, <2>2 DEF AfterInv, Silent, Came
  <2>3. CASE ~AtEnd
    BY <1>2, <2>3 DEF AfterInv
  <2>4. QED BY <2>1, <2>2, <2>3
<1>11. ClientInv' /\ PeekInv' /\ SlapInv' /\ RescueInv' /\ CloseInv'
       /\ CountInv' /\ phase' \in Phases
  BY <1>2, <1>3 DEF ClientInv, PeekInv, SlapInv, RescueInv, CloseInv, CountInv
<1>12. QED BY <1>8, <1>9, <1>10, <1>11

LEMMA RelayKeeps == ASSUME IInv, Relay PROVE IInv'
<1> DEFINE d == Drained
<1> USE DEF IInv, Phases
<1>1. /\ Sound(d) /\ Empty(d.out) /\ ~Ends(d.out) /\ Noted(d)
      /\ turn.raw => Plain(d)
      /\ d.violated = norm.violated /\ d.held = norm.held
      /\ Came(d) <=> Came(norm)
      /\ Spoken(d) <=> Spoken(norm)
      /\ Open(d) <=> Open(norm)
  BY DrainedIs
<1>2. /\ phase = "relay" /\ norm' = d /\ client' = Sent(client, norm.out)
      /\ phase' = IF AtEnd THEN "after" ELSE "relay"
      /\ ~norm.violated
      /\ UNCHANGED <<turn, held, peek, attempts, notices, outcome>>
  BY DEF Relay, NormInv
<1> HIDE DEF d
<1>3. /\ ~client.late
      /\ ~turn.raw => /\ client.said => Spoken(norm)
                      /\ Open(norm) => ~client.over
      /\ client.done => Came(norm) /\ Empty(norm.out)
      /\ Came(norm) => client.done \/ Ends(norm.out)
  BY <1>2 DEF RelayInv, ClientInv
<1>4. /\ norm.out \in Seq(Events) /\ Clean(norm.out)
      /\ Ends(norm.out) => Came(norm)
      /\ ~turn.raw => /\ Says(norm.out) => Spoken(norm)
                      /\ Open(norm) => ~Stops(norm.out)
      /\ norm.held => ~Spoken(norm) /\ ~turn.raw /\ Open(norm)
  BY DEF NormInv, Sound, Came, Noted, Spoken, Plain, Open
<1>5. /\ DOMAIN client' = {"said", "over", "done", "late"} /\ ~client'.late
      /\ client'.said <=> client.said \/ Says(norm.out)
      /\ client'.over <=> client.over \/ Stops(norm.out)
      /\ client'.done <=> client.done \/ Ends(norm.out)
  BY <1>2, <1>3, <1>4, SentIs DEF ClientInv
<1>6. NormInv'
  BY <1>1, <1>2 DEF NormInv
<1>7. RelayInv'
  BY <1>1, <1>2, <1>3, <1>4, <1>5 DEF RelayInv
<1>8. AfterInv'
  BY <1>1, <1>2, <1>3, <1>4, <1>5 DEF AfterInv, Silent, Came
<1>9. ClientInv' /\ PeekInv' /\ SlapInv' /\ RescueInv' /\ CloseInv'
      /\ CountInv' /\ phase' \in Phases
  BY <1>2, <1>5 DEF ClientInv, PeekInv, SlapInv, RescueInv, CloseInv, CountInv
<1>10. QED BY <1>6, <1>7, <1>8, <1>9

\* A farewell: [DONE], for a client that may have had it.
LEMMA Severed ==
  ASSUME ClientInv, ~client.late, NEW s \in Farewells
  PROVE  /\ DOMAIN Sent(client, s) = {"said", "over", "done", "late"}
         /\ Sent(client, s).late => client.done
         /\ Sent(client, s).done
BY Farewell, SentIs DEF ClientInv

LEMMA SeverKeeps ==
  ASSUME IInv, NEW toolLoop \in BOOLEAN,
         SeverPeeked(toolLoop) \/ Sever(toolLoop)
  PROVE  IInv'
<1> DEFINE s == IF toolLoop THEN <<"chunk", "notice", "done">>
                ELSE <<"notice", "finish", "done">>
<1> USE DEF IInv, Phases
<1>1. s \in Farewells
  BY DEF Farewells
<1>2. CASE SeverPeeked(toolLoop)
  <2>1. /\ phase = "judge" /\ norm.violated /\ client' = Sent(client, s)
        /\ phase' = "closed"
        /\ UNCHANGED <<turn, norm, peek, attempts, notices, outcome>>
    BY <1>2 DEF SeverPeeked, Caught
  <2> HIDE DEF s
  <2>2. ~client.done /\ ~client.late
    BY <2>1 DEF PeekInv, Silent, ClientInv
  <2>3. ClientInv'
    BY <1>1, <2>1, <2>2, Severed DEF ClientInv
  <2>4. QED
    BY <2>1, <2>3 DEF NormInv, PeekInv, RelayInv, AfterInv, SlapInv,
                      RescueInv, CloseInv, CountInv
<1>3. CASE Sever(toolLoop)
  <2> DEFINE d == Drained
             r == [d EXCEPT !.held = FALSE]
  <2>1. /\ phase = "relay" /\ norm.violated /\ client' = Sent(client, s)
        /\ phase' = "after" /\ norm' = r
        /\ UNCHANGED <<turn, peek, attempts, notices, outcome>>
    BY <1>3 DEF Sever
  <2>2. /\ Sound(d) /\ Empty(d.out) /\ (turn.raw => Plain(d))
        /\ d.violated => turn.killer /\ ~turn.raw
        /\ d.violated = norm.violated /\ d.done = norm.done
    BY DrainedIs
  <2> HIDE DEF s, d
  <2>3. /\ Sound(r) /\ Noted(r) /\ ~r.held /\ (turn.raw => Plain(r))
        /\ r.violated = norm.violated /\ r.done = norm.done
    BY <2>2, ReleasedIs
  <2> HIDE DEF r
  <2>4. ~client.late /\ (client.done => norm.done /\ turn.fallback)
    BY <2>1 DEF RelayInv, ClientInv, Came
  <2>5. ClientInv'
    <3>1. client'.late => EndsTwice'
      BY <1>1, <2>1, <2>3, <2>4, Severed DEF EndsTwice, CountInv
    <3>2. QED BY <1>1, <2>1, <2>4, <3>1, Severed DEF ClientInv
  <2>6. NormInv'
    BY <2>1, <2>3 DEF NormInv
  <2>7. AfterInv'
    BY <2>1, <2>3 DEF AfterInv
  <2>8. QED
    BY <2>1, <2>5, <2>6, <2>7 DEF PeekInv, RelayInv, SlapInv, RescueInv,
                                   CloseInv, CountInv
<1>4. QED BY <1>2, <1>3

LEMMA AfterKeeps == ASSUME IInv, After PROVE IInv'
<1> USE DEF IInv, Phases
<1>1. /\ phase = "after" /\ held' = norm.held
      /\ phase' = IF norm.held THEN "slap" ELSE "closed"
      /\ UNCHANGED <<turn, norm, peek, attempts, notices, outcome, client>>
  BY DEF After
<1>2. /\ norm.held => Silent /\ ~turn.raw
      /\ Came(norm) /\ ~norm.violated /\ ~EmptyBody => client.done
  BY <1>1 DEF AfterInv
<1>3. (EmptyBody' <=> EmptyBody) /\ (EndsTwice' <=> EndsTwice)
  BY <1>1 DEF EmptyBody, Silent, EndsTwice
<1>4. SlapInv' /\ CloseInv'
  BY <1>1, <1>2, <1>3 DEF SlapInv, CloseInv, Silent, Came
<1>5. ClientInv'
  BY <1>1, <1>3 DEF ClientInv, EndsTwice
<1>6. QED
  BY <1>1, <1>4, <1>5 DEF NormInv, PeekInv, RelayInv, AfterInv, RescueInv,
                          CountInv

LEMMA HandOverKeeps == ASSUME IInv, HandOver PROVE IInv'
BY DEF IInv, Phases, HandOver, NormInv, ClientInv, PeekInv, RelayInv, AfterInv,
       SlapInv, RescueInv, CloseInv, CountInv

\* A notice or a sign of life sent to a client that has not had [DONE].
LEMMA Noticed ==
  ASSUME ClientInv, ~client.done, ~client.late, NEW e \in {"notice", "chunk"}
  PROVE  /\ DOMAIN Sent(client, <<e>>) = {"said", "over", "done", "late"}
         /\ ~Sent(client, <<e>>).late /\ ~Sent(client, <<e>>).done
         /\ Sent(client, <<e>>).said <=> client.said
         /\ Sent(client, <<e>>).over <=> client.over
<1> DEFINE s == <<e>>
<1>1. s \in Seq(Events) /\ ~Says(s) /\ ~Stops(s) /\ ~Ends(s) /\ Clean(s)
  BY One DEF Events
<1> SUFFICES /\ DOMAIN Sent(client, s) = {"said", "over", "done", "late"}
             /\ ~Sent(client, s).late /\ ~Sent(client, s).done
             /\ Sent(client, s).said <=> client.said
             /\ Sent(client, s).over <=> client.over
  OBVIOUS
<1> HIDE DEF s
<1>2. QED BY <1>1, SentIs DEF ClientInv

LEMMA SlapKeeps ==
  ASSUME IInv, SlapAgain \/ SlapStops \/ KeepAlive \/ RecoveryFails
  PROVE  IInv'
<1> USE DEF IInv, Phases
<1>1. ~turn.raw /\ ~client.late /\ phase \in {"slap", "wait"}
  BY DEF SlapInv, ClientInv, SlapAgain, SlapStops, KeepAlive, RecoveryFails
<1>2. CASE SlapAgain
  <2>1. /\ phase = "slap" /\ phase' = "wait" /\ held
        /\ client' = Sent(client, <<"notice">>) /\ notices' = notices + 1
        /\ attempts < MaxAttempts
        /\ UNCHANGED <<turn, norm, peek, attempts, outcome>>
    BY <1>2, LimitsAssumption DEF SlapAgain, SlapLimit, CountInv
  <2>2. Silent
    BY <2>1 DEF SlapInv
  <2>3. ClientInv' /\ Silent'
    BY <1>1, <2>1, <2>2, Noticed DEF ClientInv, Silent
  <2>4. CountInv'
    BY <2>1 DEF CountInv
  <2>5. QED
    BY <1>1, <2>1, <2>3, <2>4 DEF NormInv, PeekInv, RelayInv, AfterInv,
                                   SlapInv, RescueInv, CloseInv
<1>3. CASE SlapStops
  <2>1. /\ phase = "slap" /\ phase' = "verdict" /\ outcome' \notin Recovered
        /\ UNCHANGED <<turn, norm, peek, attempts, notices, client>>
    BY <1>3 DEF SlapStops, CountInv, Recovered
  <2>2. (client.done => EndsTwice) /\ (EndsTwice' <=> EndsTwice)
    BY <2>1 DEF SlapInv, EndsTwice
  <2>3. QED
    BY <1>1, <2>1, <2>2 DEF NormInv, ClientInv, PeekInv, RelayInv, AfterInv,
                            SlapInv, RescueInv, CloseInv, CountInv
<1>4. CASE KeepAlive
  <2>1. /\ phase = "wait" /\ client' = Sent(client, <<"chunk">>)
        /\ UNCHANGED <<turn, phase, norm, peek, attempts, notices, outcome>>
    BY <1>4 DEF KeepAlive
  <2>2. ClientInv' /\ Silent'
    BY <1>1, <2>1, Noticed DEF ClientInv, Silent, SlapInv
  <2>3. QED
    BY <1>1, <2>1, <2>2 DEF NormInv, PeekInv, RelayInv, AfterInv, SlapInv,
                            RescueInv, CloseInv, CountInv
<1>5. CASE RecoveryFails
  <2>1. /\ phase = "wait" /\ phase' = "verdict" /\ outcome' \notin Recovered
        /\ UNCHANGED <<turn, norm, peek, attempts, notices, client>>
    BY <1>5 DEF RecoveryFails, Recovered
  <2>2. QED
    BY <1>1, <2>1 DEF NormInv, ClientInv, PeekInv, RelayInv, AfterInv, SlapInv,
                      RescueInv, CloseInv, CountInv, Silent
<1>6. QED BY <1>2, <1>3, <1>4, <1>5

LEMMA NewIs ==
  ASSUME NEW defer \in BOOLEAN, NEW suppress \in BOOLEAN,
         NEW n, n = NewNormalizer(defer, suppress)
  PROVE  /\ Sound(n) /\ Noted(n) /\ Plain(n) /\ Empty(n.out) /\ ~Ends(n.out)
         /\ ~n.violated /\ ~n.done
<1>1. /\ DOMAIN n = Fields /\ Empty(n.out) /\ ~n.content /\ ~n.nonblank
      /\ ~n.tools /\ ~n.held /\ ~n.done /\ ~n.violated /\ n.pending = "none"
  BY DEF NewNormalizer, Fields, Empty
<1>2. QED BY <1>1, None DEF Sound, Noted, Plain, Spoken

LEMMA RecoveryKeeps ==
  ASSUME IInv, RecoveryAnswers \/ RelayRecovery \/ RecoveryEnds
  PROVE  IInv'
<1> DEFINE d == Drained
<1> USE DEF IInv, Phases
<1>1. /\ Sound(d) /\ Empty(d.out) /\ ~Ends(d.out) /\ Noted(d)
      /\ d.violated => turn.killer /\ ~turn.raw
      /\ d.violated = norm.violated /\ d.held = norm.held
      /\ d.done = norm.done
      /\ Came(d) <=> Came(norm)
      /\ Spoken(d) <=> Spoken(norm)
      /\ Open(d) <=> Open(norm)
      /\ d.nonblank = norm.nonblank /\ d.tools = norm.tools
  BY DrainedIs
<1>2. ~client.late
  BY DEF ClientInv, RecoveryAnswers, RelayRecovery, RecoveryEnds
<1>3. CASE RecoveryAnswers
  <2>1. /\ phase = "wait" /\ phase' = "rescue"
        /\ norm' = NewNormalizer(TRUE, TRUE)
        /\ UNCHANGED <<turn, peek, attempts, notices, outcome, client>>
    BY <1>3 DEF RecoveryAnswers
  <2>2. /\ Sound(norm') /\ Noted(norm') /\ Plain(norm') /\ ~Ends(norm'.out)
        /\ ~norm'.violated /\ ~norm'.done
    BY <2>1, NewIs
  <2>3. Silent /\ ~turn.raw
    BY <2>1 DEF SlapInv
  <2>4. NormInv' /\ RescueInv'
    BY <2>1, <2>2, <2>3 DEF NormInv, RescueInv, Silent, Came
  <2>5. QED
    BY <1>2, <2>1, <2>4 DEF ClientInv, PeekInv, RelayInv, AfterInv, SlapInv,
                            CloseInv, CountInv
<1> HIDE DEF d
<1>4. CASE RelayRecovery \/ RecoveryEnds
  <2>1. /\ phase = "rescue" /\ norm' = d
        /\ ~turn.raw
        /\ client.said => Spoken(norm)
        /\ Open(norm) => ~client.over
        /\ client.done => Came(norm) /\ Empty(norm.out) /\ ~norm.violated
        /\ Came(norm) => client.done \/ Ends(norm.out)
        /\ UNCHANGED <<turn, peek, notices>>
    BY <1>4 DEF RelayRecovery, RecoveryEnds, RescueInv, d
  <2>2. /\ norm.out \in Seq(Events) /\ Clean(norm.out)
        /\ Ends(norm.out) => Came(norm)
        /\ Says(norm.out) => Spoken(norm)
        /\ Open(norm) => ~Stops(norm.out)
        /\ norm.held => ~Spoken(norm) /\ Open(norm)
    BY <2>1 DEF NormInv, Sound, Came, Noted, Spoken, Open
  <2>3. client' = Sent(client, norm.out) =>
          /\ DOMAIN client' = {"said", "over", "done", "late"}
          /\ ~client'.late
          /\ client'.said <=> client.said \/ Says(norm.out)
          /\ client'.over <=> client.over \/ Stops(norm.out)
          /\ client'.done <=> client.done \/ Ends(norm.out)
    BY <1>2, <2>1, <2>2, SentIs DEF ClientInv
  <2>4. NormInv'
    BY <1>1, <2>1 DEF NormInv
  <2>5. CASE RelayRecovery
    <3>1. /\ phase' = "rescue" /\ client' = Sent(client, norm.out)
          /\ ~norm.violated
          /\ UNCHANGED <<attempts, outcome>>
      BY <2>1, <2>5 DEF RelayRecovery, NormInv
    <3>2. RescueInv'
      BY <1>1, <2>1, <2>2, <2>3, <3>1 DEF RescueInv
    <3>3. QED
      BY <2>1, <2>3, <2>4, <3>1, <3>2 DEF ClientInv, PeekInv, RelayInv,
                                       AfterInv, SlapInv, CloseInv, CountInv
  <2>6. CASE RecoveryEnds
    <3>1. /\ attempts' = attempts + 1 /\ held' = norm.held
          /\ \/ client' = client /\ norm.violated
             \/ client' = Sent(client, norm.out) /\ ~norm.violated
          /\ IF Spoken(norm)
             THEN phase' = "verdict" /\ outcome' \in Recovered
             ELSE phase' = "slap" /\ outcome' = outcome
      BY <2>6 DEF RecoveryEnds, Spoken, Recovered, NormInv
    <3>2. ClientInv'
      BY <1>2, <2>3, <3>1 DEF ClientInv
    <3>3. CountInv'
      BY <2>1, <3>1 DEF CountInv
    <3>4. CloseInv'
      <4>1. CASE Spoken(norm)
        <5>1. phase' = "verdict" /\ outcome' \in Recovered
          BY <3>1, <4>1
        <5>2. norm.done /\ ~norm.violated => client'.done
          BY <2>1, <2>2, <2>3, <3>1, <4>1 DEF Came
        <5>3. QED BY <1>1, <2>1, <5>1, <5>2 DEF CloseInv
      <4>2. CASE ~Spoken(norm)
        BY <3>1, <4>2 DEF CloseInv
      <4>3. QED BY <4>1, <4>2
    <3>5. SlapInv'
      <4>1. CASE ~Spoken(norm)
        <5>1. held' => ~client'.said /\ ~client'.over /\ ~client'.done
          BY <2>1, <2>2, <2>3, <3>1, <4>1 DEF Came
        <5>2. client'.done => norm.done /\ ~norm.held /\ ~norm.violated
          BY <2>1, <2>2, <2>3, <3>1 DEF Came
        <5>3. attempts' > 0
          BY <3>1 DEF CountInv
        <5>4. client'.done => EndsTwice'
          BY <1>1, <2>1, <4>1, <5>2, <5>3 DEF EndsTwice, Spoken
        <5>5. QED BY <2>1, <3>1, <4>1, <5>1, <5>4 DEF SlapInv, Silent
      <4>2. CASE Spoken(norm)
        BY <3>1, <4>2 DEF SlapInv
      <4>3. QED BY <4>1, <4>2
    <3>6. phase' \in {"verdict", "slap"}
      BY <3>1
    <3>7. QED
      BY <2>4, <3>2, <3>3, <3>4, <3>5, <3>6 DEF PeekInv, RelayInv, AfterInv,
                                               RescueInv
  <2>7. QED BY <1>4, <2>5, <2>6
<1>5. QED BY <1>3, <1>4

LEMMA VerdictKeeps == ASSUME IInv, Verdict PROVE IInv'
<1> DEFINE s == <<"notice", "finish", "chunk", "done">>
<1> USE DEF IInv, Phases
<1>1. /\ phase = "verdict" /\ phase' = "closed"
      /\ client' = IF outcome \in Recovered THEN client ELSE Sent(client, s)
      /\ UNCHANGED <<turn, norm, peek, attempts, notices, outcome>>
  BY DEF Verdict
<1>2. s \in Farewells
  BY DEF Farewells
<1>3. ~client.late
  BY <1>1 DEF ClientInv
<1> HIDE DEF s
<1>4. CASE outcome \in Recovered
  BY <1>1, <1>3, <1>4 DEF NormInv, ClientInv, PeekInv, RelayInv, AfterInv,
                          SlapInv, RescueInv, CloseInv, CountInv
<1>5. CASE outcome \notin Recovered
  <2>1. (client.done => EndsTwice) /\ (EndsTwice' <=> EndsTwice)
    BY <1>1, <1>5 DEF CloseInv, EndsTwice
  <2>2. ClientInv' /\ client'.done
    BY <1>1, <1>2, <1>3, <1>5, <2>1, Severed DEF ClientInv
  <2>3. QED
    BY <1>1, <2>2 DEF NormInv, PeekInv, RelayInv, AfterInv, SlapInv, RescueInv,
                      CloseInv, CountInv
<1>6. QED BY <1>4, <1>5

----------------------------------------------------------------------------
(* The invariant of a turn. *)

LEMMA InitHolds == ASSUME Init PROVE IInv
<1>1. /\ phase = "peek" /\ norm = NewNormalizer(turn.slap, FALSE)
      /\ peek = <<>> /\ attempts = 0 /\ notices = 0
      /\ outcome = "exhausted" /\ client = Silence
      /\ turn.slap \in BOOLEAN
  BY DEF Init, Turns
<1>2. /\ Sound(norm) /\ Noted(norm) /\ Plain(norm) /\ ~norm.violated
      /\ ~norm.done /\ ~Ends(norm.out)
  BY <1>1, NewIs
<1>3. /\ peek \in Seq(Events) /\ ~Says(peek) /\ ~Stops(peek)
      /\ ~Ends(peek) /\ Clean(peek)
  BY <1>1, None DEF Empty
<1>4. DOMAIN client = {"said", "over", "done", "late"} /\ ~client.late /\ Silent
  BY <1>1 DEF Silence, Silent
<1>5. NormInv /\ ClientInv
  BY <1>2, <1>4 DEF NormInv, ClientInv
<1>6. PeekInv
  BY <1>1, <1>2, <1>3, <1>4 DEF PeekInv, Came
<1>7. CountInv
  BY <1>1 DEF CountInv, Recovered
<1>8. QED
  BY <1>1, <1>5, <1>6, <1>7 DEF IInv, Phases, RelayInv, AfterInv, SlapInv,
                               RescueInv, CloseInv

LEMMA StepKeeps ==
  ASSUME IInv, [Next]_vars
  PROVE  IInv'
<1>1. ASSUME NEW line \in Lines, NEW trips \in BOOLEAN,
             NEW synthesize \in BOOLEAN, ReadLine(line, trips, synthesize)
      PROVE  IInv'
  <2>1. ReadTo(norm, norm')
    BY <1>1, LineRead DEF IInv
  <2>2. /\ phase \in Reading /\ Empty(norm.out)
        /\ UNCHANGED <<turn, phase, held, peek, attempts, notices, outcome,
                       client>>
    BY <1>1 DEF ReadLine, Empty
  <2>3. QED BY <2>1, <2>2, ReadKeeps
<1>2. ASSUME NEW trips \in BOOLEAN, ReadEnd(trips)
      PROVE  IInv'
  <2>1. ReadTo(norm, norm')
    BY <1>2, EndRead DEF IInv
  <2>2. /\ phase \in Reading /\ Empty(norm.out)
        /\ UNCHANGED <<turn, phase, held, peek, attempts, notices, outcome,
                       client>>
    BY <1>2 DEF ReadEnd, Empty
  <2>3. QED BY <2>1, <2>2, ReadKeeps
<1>3. CASE ReadError
  <2>1. ReadTo(norm, norm')
    BY <1>3, ErrorRead DEF IInv
  <2>2. /\ phase \in Reading /\ Empty(norm.out)
        /\ UNCHANGED <<turn, phase, held, peek, attempts, notices, outcome,
                       client>>
    BY <1>3 DEF ReadError, Empty
  <2>3. QED BY <2>1, <2>2, ReadKeeps
<1>4. CASE RelayStep
  BY <1>4, PeekKeeps, HandOverKeeps, SendHeadKeeps, RelayKeeps, AfterKeeps,
     SeverKeeps DEF RelayStep
<1>5. CASE SlapStep
  BY <1>5, SlapKeeps, RecoveryKeeps, VerdictKeeps DEF SlapStep
<1>6. CASE UNCHANGED vars
  BY <1>6 DEF vars, IInv, NormInv, ClientInv, PeekInv, RelayInv, AfterInv,
              SlapInv, RescueInv, CloseInv, CountInv, Silent, EmptyBody, AtEnd,
              EndsTwice
<1>7. QED BY <1>1, <1>2, <1>3, <1>4, <1>5, <1>6 DEF Next, UpstreamStep

(***************************************************************************)
(* The client of a stream gets one [DONE] at most and nothing after it,    *)
(* but for the two streams EndsTwice names, and gets it whenever its       *)
(* stream came to its [DONE]: for any size of the peek, any number of      *)
(* slaps and any retries, whatever the upstream joins in its chunks.       *)
(***************************************************************************)
THEOREM DoneOnce == Spec => []OneDone
<1>1. Init => IInv
  BY InitHolds
<1>2. IInv /\ [Next]_vars => IInv'
  BY StepKeeps
<1>3. IInv => OneDone
  BY DEF IInv, ClientInv, CloseInv, OneDone
<1>4. QED BY <1>1, <1>2, <1>3, PTL DEF Spec

----------------------------------------------------------------------------
(* The detailed turn implements the promise. *)

BoolInv == /\ client.said \in BOOLEAN /\ client.over \in BOOLEAN
           /\ client.done \in BOOLEAN

LEMMA SentBool ==
  ASSUME NEW c, NEW s
  PROVE  /\ Sent(c, s).said \in BOOLEAN /\ Sent(c, s).over \in BOOLEAN
         /\ Sent(c, s).done \in BOOLEAN
BY DEF Sent

LEMMA BoolKeeps == ASSUME BoolInv, [Next]_vars PROVE BoolInv'
<1>1. (\E s : client' = Sent(client, s)) \/ client' = client
  <2>1. CASE RelayStep
    BY <2>1 DEF RelayStep, Peek, HandOver, SendHead, Relay, After, SeverPeeked,
                Sever
  <2>2. CASE SlapStep
    BY <2>2 DEF SlapStep, SlapAgain, SlapStops, KeepAlive, RecoveryFails,
                RecoveryAnswers, RelayRecovery, RecoveryEnds, Verdict
  <2>3. CASE UpstreamStep
    BY <2>3 DEF UpstreamStep, ReadLine, ReadEnd, ReadError
  <2>4. CASE UNCHANGED vars
    BY <2>4 DEF vars
  <2>5. QED BY <2>1, <2>2, <2>3, <2>4 DEF Next
<1>2. QED BY <1>1, SentBool DEF BoolInv

\* A write is a step of the promise, and one that says nothing to a client
\* that has had [DONE] is none.
LEMMA WriteSends ==
  ASSUME BoolInv, NEW s \in Seq(Events), client' = Sent(client, s),
         client.done => ~Says(s), notices' = notices
  PROVE  [Promise!Next]_(Promise!promise)
<1>1. /\ client'.said <=> client.said \/ Says(s)
      /\ client'.over <=> client.over \/ Stops(s)
      /\ client'.done <=> client.done \/ Ends(s)
      /\ client'.said \in BOOLEAN /\ client'.over \in BOOLEAN
      /\ client'.done \in BOOLEAN
  BY SentIs, SentBool
<1> DEFINE over == client.over \/ client.done
<1>2. CASE client.done
  <2>1. client'.said = client.said /\ client'.done = client.done
    BY <1>1, <1>2 DEF BoolInv
  <2>2. over' = over
    BY <1>2, <2>1
  <2>3. QED BY <2>1, <2>2 DEF Promise!promise
<1>3. CASE ~client.done
  <2>1. client'.said \in {client.said, TRUE}
    BY <1>1 DEF BoolInv
  <2>2. over' \in {over, TRUE} /\ client'.done \in {FALSE, over'}
    BY <1>1, <1>3 DEF BoolInv
  <2>3. Promise!Send
    BY <1>3, <2>1, <2>2 DEF Promise!Send
  <2>4. QED BY <2>3 DEF Promise!Next
<1>4. QED BY <1>2, <1>3

LEMMA StepSends ==
  ASSUME IInv, BoolInv, [Next]_vars
  PROVE  [Promise!Next]_(Promise!promise)
<1> DEFINE Goal == [Promise!Next]_(Promise!promise)
<1>1. ClientInv
  BY DEF IInv
<1>2. ASSUME UNCHANGED <<client, notices>> PROVE Goal
  BY <1>2 DEF Promise!promise
<1>3. ASSUME NEW s \in Seq(Events), client' = Sent(client, s),
             client.done => ~Says(s), notices' = notices
      PROVE  Goal
  BY <1>3, WriteSends
<1> SUFFICES Goal
  OBVIOUS
<1> HIDE DEF Goal
<1>4. CASE RelayStep
  <2>1. CASE Peek \/ HandOver \/ After
    BY <1>2, <2>1 DEF Peek, HandOver, After
  <2>2. CASE SendHead
    <3>1. /\ peek \in Seq(Events) /\ ~client.done
          /\ client' = Sent(client, peek) /\ notices' = notices
      BY <2>2 DEF SendHead, IInv, PeekInv, Silent
    <3>2. QED BY <1>3, <3>1
  <2>3. CASE Relay
    <3>1. /\ norm.out \in Seq(Events) /\ (client.done => Empty(norm.out))
          /\ client' = Sent(client, norm.out) /\ notices' = notices
      BY <2>3 DEF Relay, IInv, NormInv, Sound, RelayInv
    <3>2. QED BY <1>3, <3>1, None
  <2>4. ASSUME NEW toolLoop \in BOOLEAN,
               SeverPeeked(toolLoop) \/ Sever(toolLoop)
        PROVE  Goal
    <3> DEFINE s == IF toolLoop THEN <<"chunk", "notice", "done">>
                    ELSE <<"notice", "finish", "done">>
    <3>1. s \in Seq(Events) /\ ~Says(s)
      BY Farewell DEF Farewells
    <3>2. client' = Sent(client, s) /\ notices' = notices
      BY <2>4 DEF SeverPeeked, Sever
    <3> HIDE DEF s
    <3>3. QED BY <1>3, <3>1, <3>2
  <2>5. QED BY <1>4, <2>1, <2>2, <2>3, <2>4 DEF RelayStep
<1>5. CASE SlapStep
  <2>1. CASE SlapStops \/ RecoveryFails \/ RecoveryAnswers
    BY <1>2, <2>1 DEF SlapStops, RecoveryFails, RecoveryAnswers
  <2>2. CASE SlapAgain
    <3>1. /\ ~client.said /\ ~client.over /\ ~client.done /\ ~client.late
          /\ phase = "slap"
          /\ client' = Sent(client, <<"notice">>) /\ notices' = notices + 1
          /\ notices < MaxAttempts
      BY <2>2, LimitsAssumption
         DEF SlapAgain, SlapLimit, IInv, ClientInv, SlapInv, CountInv, Silent
    <3>2. ~client'.said /\ ~client'.over /\ ~client'.done
      BY <1>1, <3>1, Noticed
    <3>3. /\ client'.said \in BOOLEAN /\ client'.over \in BOOLEAN
          /\ client'.done \in BOOLEAN
      BY <3>1, SentBool
    <3>4. /\ client'.said = client.said /\ client'.over = client.over
          /\ client'.done = client.done
      BY <3>1, <3>2, <3>3 DEF BoolInv
    <3>5. Promise!Slap
      BY <3>1, <3>4 DEF Promise!Slap
    <3>6. QED BY <3>5 DEF Goal, Promise!Next
  <2>3. CASE KeepAlive
    <3> DEFINE s == <<"chunk">>
    <3>1. s \in Seq(Events)
      BY One DEF Events
    <3>2. ~client.done /\ client' = Sent(client, s) /\ notices' = notices
      BY <2>3 DEF KeepAlive, IInv, SlapInv, Silent
    <3> HIDE DEF s
    <3>3. QED BY <1>3, <3>1, <3>2
  <2>4. CASE RelayRecovery \/ RecoveryEnds
    <3>1. /\ norm.out \in Seq(Events) /\ (client.done => Empty(norm.out))
          /\ notices' = notices
          /\ client' = client \/ client' = Sent(client, norm.out)
      BY <2>4 DEF RelayRecovery, RecoveryEnds, IInv, NormInv, Sound, RescueInv
    <3>2. QED BY <1>2, <1>3, <3>1, None
  <2>5. CASE Verdict
    <3> DEFINE s == <<"notice", "finish", "chunk", "done">>
    <3>1. s \in Seq(Events) /\ ~Says(s)
      BY Farewell DEF Farewells
    <3>2. /\ notices' = notices
          /\ client' = client \/ client' = Sent(client, s)
      BY <2>5 DEF Verdict
    <3> HIDE DEF s
    <3>3. QED BY <1>2, <1>3, <3>1, <3>2
  <2>6. QED BY <1>5, <2>1, <2>2, <2>3, <2>4, <2>5 DEF SlapStep
<1>6. CASE UpstreamStep
  BY <1>2, <1>6 DEF UpstreamStep, ReadLine, ReadEnd, ReadError
<1>7. CASE UNCHANGED vars
  BY <1>2, <1>7 DEF vars
<1>8. QED BY <1>4, <1>5, <1>6, <1>7 DEF Next

(***************************************************************************)
(* handleStreaming with the normalizer and the recovery loop implements    *)
(* ClientStream: it asks a model to act only while the client has heard    *)
(* nothing and has not been told, by a finish_reason or by [DONE], that    *)
(* the answer is over, and at most max_attempts times.                     *)
(***************************************************************************)
THEOREM PromiseKept == Spec => KeepsPromise
<1>1. Init => IInv /\ BoolInv /\ Promise!Init
  <2> SUFFICES ASSUME Init PROVE IInv /\ BoolInv /\ Promise!Init
    OBVIOUS
  <2>1. client = Silence /\ notices = 0
    BY DEF Init
  <2>2. QED BY <2>1, InitHolds DEF BoolInv, Promise!Init, Silence
<1>2. IInv /\ BoolInv /\ [Next]_vars => (IInv /\ BoolInv)'
  BY StepKeeps, BoolKeeps
<1>3. IInv /\ BoolInv /\ [Next]_vars => [Promise!Next]_(Promise!promise)
  BY StepSends
<1>4. QED BY <1>1, <1>2, <1>3, PTL DEF Spec, KeepsPromise, Promise!Spec
----------------------------------------------------------------------------
(* What a turn holds: the normalizers it has opened, and the streams whose *)
(* usage it has still to count.                                            *)

Normalizers ==
  [content : BOOLEAN, nonblank : BOOLEAN, tools : BOOLEAN, native : BOOLEAN,
   thinking : BOOLEAN, pending : {"none", "lt", "tag"},
   finish : {"none"} \cup Finishes, held : BOOLEAN, out : Seq(Events),
   done : BOOLEAN, ended : {"no", "eof", "error"}, violated : BOOLEAN,
   usage : BOOLEAN, defer : BOOLEAN, prelude : BOOLEAN]

Clients == [said : BOOLEAN, over : BOOLEAN, done : BOOLEAN, late : BOOLEAN]

\* The first stream has not been accounted for.
Opening == {"peek", "judge", "relay", "after"}

\* The newest stream of the turn.
Newest == IF phase = "rescue" THEN attempts + 1 ELSE attempts

HoldInv ==
  /\ turn \in Turns /\ phase \in Phases /\ norm \in Normalizers
  /\ peek \in Seq(Events) /\ held \in BOOLEAN /\ outcome \in Outcomes
  /\ client \in Clients

\* A slap is announced before it is made, and counted when it has answered.
SlapsInv ==
  /\ attempts \in 0 .. MaxAttempts /\ notices \in 0 .. MaxAttempts
  /\ phase \in Opening => attempts = 0 /\ notices = 0
  /\ phase = "slap" => notices = attempts
  /\ phase \in {"wait", "rescue"} => notices = attempts + 1

\* Only the first normalizer, the one of the last attempt and the one that
\* is being read are open, and none once the turn is over.
OpenInv ==
  /\ unclosed \subseteq {0, attempts, Newest}
  /\ phase \in {"handed", "closed"} => unclosed = {}

\* What has been reported is counted, but for the stream being read; that
\* its usage is to be counted is what the normalizer has noted.
UsageInv ==
  /\ reported \subseteq 0 .. Newest /\ tallied \subseteq reported
  /\ phase \in Opening \cup {"rescue"} =>
       /\ norm.usage => Newest \in reported
       /\ ~turn.raw => /\ Newest \in reported => norm.usage
                       /\ reported \ tallied \subseteq {Newest}
  /\ phase \notin Opening \cup {"rescue", "handed"} /\ ~turn.raw =>
       tallied = reported

LeakInv == HoldInv /\ SlapsInv /\ OpenInv /\ UsageInv

\* A normalizer that has gone on from n without new usage.
Kin(n, m) == m \in Normalizers /\ m.usage = n.usage

\* Delivering events changes nothing else.
LEMMA PutKin ==
  ASSUME NEW n \in Normalizers, NEW e \in Seq(Events)
  PROVE  Kin(n, Put(n, e))
<1>1. n.out \in Seq(Events)
  BY DEF Normalizers
<1>2. n.out \o e \in Seq(Events)
  BY <1>1
<1>3. QED BY <1>2 DEF Kin, Put, Normalizers

\* Every event that is delivered is one.
LEMMA EventsAre ==
  /\ <<"chunk">> \in Seq(Events) /\ <<"speech">> \in Seq(Events)
  /\ <<"finish">> \in Seq(Events) /\ <<"done">> \in Seq(Events)
  /\ <<"notice", "finish">> \in Seq(Events)
  /\ <<"speech", "finish">> \in Seq(Events)
BY DEF Events

\* Nor does what is recorded, flushed or let go of.
LEMMA ProseKin ==
  ASSUME NEW n \in Normalizers, NEW visible \in BOOLEAN, NEW trips \in BOOLEAN
  PROVE  Kin(n, RecordProse(n, visible, trips))
BY DEF Kin, Normalizers, RecordProse, Observe

LEMMA FlushKin ==
  ASSUME NEW n \in Normalizers, NEW skip \in BOOLEAN, NEW trips \in BOOLEAN
  PROVE  Kin(n, FlushPendingDelimiter(n, skip, trips))
<1> DEFINE clear == [n EXCEPT !.pending = "none"]
           seen == Observe(clear, trips)
           told == RecordProse(clear, TRUE, trips)
           text == n.pending = "lt" /\ ~(skip /\ n.tools)
<1>1. Kin(n, clear)
  BY DEF Kin, Normalizers
<1>2. Kin(n, seen)
  BY DEF Kin, Normalizers, Observe
<1>3. Kin(n, told)
  BY DEF Kin, Normalizers, RecordProse, Observe
<1>4. Kin(n, Put(seen, <<"chunk">>)) /\ Kin(n, Put(told, <<"speech">>))
  <2> HIDE DEF seen, told
  <2>1. QED BY <1>2, <1>3, PutKin, EventsAre DEF Kin
<1>5. FlushPendingDelimiter(n, skip, trips) =
        IF text THEN IF n.thinking THEN Put(seen, <<"chunk">>)
                     ELSE Put(told, <<"speech">>)
        ELSE clear
  <2>1. FlushPendingDelimiter(n, skip, trips) =
          CASE text /\ n.thinking -> Put(seen, <<"chunk">>)
            [] text /\ ~n.thinking -> Put(told, <<"speech">>)
            [] OTHER -> clear
    BY DEF FlushPendingDelimiter
  <2> HIDE DEF seen, told, clear, text
  <2>2. QED BY <2>1
<1> HIDE DEF seen, told, clear, text
<1>6. QED BY <1>1, <1>4, <1>5

LEMMA HeldKin ==
  ASSUME NEW n \in Normalizers
  PROVE  Kin(n, FlushHeldTerminal(n))
<1> DEFINE open == [n EXCEPT !.held = FALSE]
<1>1. Kin(n, n)
  BY DEF Kin
<1>2. Kin(n, open)
  BY DEF Kin, Normalizers
<1>3. /\ Kin(n, Put(open, <<"notice", "finish">>))
      /\ Kin(n, Put(open, <<"finish">>))
  <2> HIDE DEF open
  <2>1. QED BY <1>2, PutKin, EventsAre DEF Kin
<1>4. \/ FlushHeldTerminal(n) = n
      \/ FlushHeldTerminal(n) = Put(open, <<"notice", "finish">>)
      \/ FlushHeldTerminal(n) = Put(open, <<"finish">>)
  BY DEF FlushHeldTerminal
<1> HIDE DEF open
<1>5. QED BY <1>1, <1>3, <1>4

LEMMA DoneKin ==
  ASSUME NEW n \in Normalizers, NEW trips \in BOOLEAN,
         NEW synthesize \in BOOLEAN
  PROVE  Kin(n, HandleDone(n, trips, synthesize))
<1> DEFINE first == FlushPendingDelimiter(n, TRUE, trips)
           flushed == [first EXCEPT !.thinking = FALSE, !.done = TRUE]
           call == [flushed EXCEPT !.tools = TRUE]
           called == IF synthesize THEN Put(call, <<"speech", "finish">>)
                     ELSE flushed
           let == FlushHeldTerminal(called)
<1>1. Kin(n, first)
  BY FlushKin
<1>2. Kin(n, flushed)
  <2> HIDE DEF first
  <2>1. QED BY <1>1 DEF Kin, Normalizers
<1>3. Kin(n, call)
  <2> HIDE DEF first
  <2>1. QED BY <1>1 DEF Kin, Normalizers
<1>4. Kin(n, called)
  <2> HIDE DEF flushed, call
  <2>1. QED BY <1>2, <1>3, PutKin, EventsAre DEF Kin
<1>5. Kin(n, let)
  <2> HIDE DEF called
  <2>1. QED BY <1>4, HeldKin DEF Kin
<1>6. Kin(n, Put(let, <<"done">>))
  <2> HIDE DEF let
  <2>1. QED BY <1>5, PutKin, EventsAre DEF Kin
<1>7. HandleDone(n, trips, synthesize) \in {let, Put(let, <<"done">>)}
  BY DEF HandleDone
<1> HIDE DEF let
<1>8. QED BY <1>5, <1>6, <1>7

LEMMA ReasonKin ==
  ASSUME NEW n \in Normalizers, NEW trips \in BOOLEAN, NEW line \in Line
  PROVE  Kin(n, ReasonPart(n, line, trips))
<1> DEFINE seen == Observe(n, trips)
           thought == [seen EXCEPT
                         !.thinking = TRUE,
                         !.pending = IF line.reason = "text" THEN "none"
                                     ELSE line.reason]
           speaks == line.text = "prose"
           told == RecordProse(thought, speaks, trips)
           w == Written(line, speaks)
           j == IF line.text = "none" THEN thought ELSE told
<1>1. line.reason \in {"none", "text", "lt", "tag"} /\ line.tool \in BOOLEAN
  BY DEF Line, Partial
<1>2. Kin(n, seen)
  BY DEF Kin, Normalizers, Observe
<1>3. Kin(n, thought)
  <2> HIDE DEF seen
  <2>1. QED BY <1>1, <1>2 DEF Kin, Normalizers
<1>4. speaks \in BOOLEAN
  OBVIOUS
<1> HIDE DEF thought, speaks
<1>5. Kin(n, told)
  BY <1>3, <1>4, ProseKin DEF Kin
<1>6. w \in Seq(Events)
  BY <1>1, <1>4, WrittenIs
<1>7. ReasonPart(n, line, trips) = Put(j, w)
  BY DEF ReasonPart, thought, speaks
<1> HIDE DEF told, w
<1>8. Kin(n, j)
  BY <1>3, <1>5
<1> HIDE DEF j
<1>9. QED BY <1>6, <1>7, <1>8, PutKin DEF Kin

LEMMA ContentKin ==
  ASSUME NEW n \in Normalizers, NEW trips \in BOOLEAN, NEW line \in Line
  PROVE  Kin(n, ContentPart(n, line, trips))
<1> DEFINE whole == n.pending # "none"
           left == IF line.text \in Partial THEN line.text ELSE "none"
           joined == [n EXCEPT !.thinking = FALSE, !.pending = left]
           speaks == whole \/ line.text = "prose"
           told == RecordProse(joined, speaks, trips)
           w == Written(line, speaks)
           v == Written(line, FALSE)
<1>1. left \in {"none", "lt", "tag"} /\ line.tool \in BOOLEAN
      /\ speaks \in BOOLEAN
  BY DEF Line, Partial
<1>2. ContentPart(n, line, trips) \in {Put(joined, v), Put(told, w)}
  BY DEF ContentPart
<1> HIDE DEF left, speaks
<1>3. Kin(n, joined)
  BY <1>1 DEF Kin, Normalizers
<1> HIDE DEF joined
<1>4. Kin(n, told)
  BY <1>1, <1>3, ProseKin DEF Kin
<1>5. w \in Seq(Events) /\ v \in Seq(Events)
  <2>1. w \in Seq(Events)
    BY <1>1, WrittenIs
  <2>2. v \in Seq(Events)
    BY MuteIs
  <2>3. QED BY <2>1, <2>2
<1> HIDE DEF told, w, v
<1>6. QED BY <1>2, <1>3, <1>4, <1>5, PutKin DEF Kin

LEMMA ChunkKin ==
  ASSUME NEW n \in Normalizers, NEW trips \in BOOLEAN, NEW line \in Line
  PROVE  Kin(n, ChunkPart(n, line, trips))
<1> DEFINE ended == IF line.finish = "none" THEN n
                    ELSE [n EXCEPT !.finish = line.finish]
           tool == RecordTool(ended, trips)
           cut == [tool EXCEPT !.pending = "none"]
           j == IF line.tool THEN cut ELSE ended
           i == [j EXCEPT !.held = TRUE]
           v == Written(line, FALSE)
<1>1. line.tool \in BOOLEAN /\ line.finish \in {"none"} \cup Finishes
  BY DEF Line
<1>2. Kin(n, ended)
  BY <1>1 DEF Kin, Normalizers
<1>3. ChunkPart(n, line, trips) \in
        {ReasonPart(j, line, trips), ContentPart(j, line, trips), i, Put(j, v)}
  BY DEF ChunkPart
<1> HIDE DEF ended
<1>4. Kin(n, tool)
  BY <1>2 DEF Kin, Normalizers, RecordTool, Observe
<1> HIDE DEF tool
<1>5. Kin(n, cut)
  BY <1>4 DEF Kin, Normalizers
<1> HIDE DEF cut
<1>6. Kin(n, j)
  BY <1>2, <1>5
<1> HIDE DEF j
<1>7. Kin(n, i)
  BY <1>6 DEF Kin, Normalizers
<1>8. v \in Seq(Events)
  BY <1>1, MuteIs
<1> HIDE DEF i, v
<1>9. Kin(n, ReasonPart(j, line, trips)) /\ Kin(n, ContentPart(j, line, trips))
      /\ Kin(n, Put(j, v))
  BY <1>6, <1>8, ReasonKin, ContentKin, PutKin DEF Kin
<1>10. QED BY <1>3, <1>7, <1>9

\* A line adds usage only when it carries it.
LEMMA DataKin ==
  ASSUME NEW n \in Normalizers, NEW trips \in BOOLEAN,
         NEW line \in Line, line.kind # "chunk" => ~line.usage
  PROVE  /\ DataLine(n, line, trips) \in Normalizers
         /\ DataLine(n, line, trips).usage = (n.usage \/ line.usage)
<1> DEFINE m == [n EXCEPT !.prelude = FALSE,
                          !.native = @ \/ line.tool,
                          !.usage = @ \/ line.usage]
           past == [n EXCEPT !.prelude = FALSE]
           first == n.prelude /\ line.kind = "prelude"
           to == DataLine(n, line, trips)
           use == n.usage \/ line.usage
           native == n.native \/ line.tool
<1>1. line.tool \in BOOLEAN /\ line.usage \in BOOLEAN /\ n.usage \in BOOLEAN
  BY DEF Line, Normalizers
<1>2. m \in Normalizers /\ m.usage = use
  <2>1. use \in BOOLEAN /\ native \in BOOLEAN
    OBVIOUS
  <2>2. m = [n EXCEPT !.prelude = FALSE, !.native = native, !.usage = use]
    OBVIOUS
  <2> HIDE DEF m, use, native
  <2>3. QED BY <2>1, <2>2 DEF Normalizers
<1>3. past \in Normalizers /\ past.usage = n.usage
  BY DEF Normalizers
<1>4. /\ first => to \in {past, m}
      /\ ~first /\ n.held => to = m
      /\ ~first /\ ~n.held => to = ChunkPart(m, line, trips)
  <2>1. to = CASE first -> past
               [] n.held -> m
               [] OTHER -> ChunkPart(m, line, trips)
    BY DEF DataLine
  <2> HIDE DEF to, first, past, m
  <2>2. QED BY <2>1
<1>5. first => n.usage = use
  BY <1>1
<1>6. SUFFICES to \in Normalizers /\ to.usage = use
  OBVIOUS
<1> HIDE DEF to, first, past, m, use
<1>7. ~first /\ ~n.held => Kin(m, to)
  BY <1>2, <1>4, ChunkKin
<1>8. QED BY <1>2, <1>3, <1>4, <1>5, <1>7 DEF Kin

\* What Read makes of the normalizer.
LEMMA LineKin ==
  ASSUME norm \in Normalizers, NEW line \in Lines,
         NEW trips \in BOOLEAN, NEW synthesize \in BOOLEAN,
         ReadLine(line, trips, synthesize)
  PROVE  /\ norm' \in Normalizers
         /\ norm'.usage => norm.usage \/ line.usage
         /\ norm.usage => norm'.usage
         /\ line.usage /\ ~turn.raw => norm'.usage
<1> DEFINE n == norm
           m == norm'
<1>1. n \in Normalizers /\ m = ProcessLine(n, line, trips, synthesize)
  BY DEF ReadLine
<1>2. /\ line \in Line
      /\ line.kind # "chunk" => ~line.usage
      /\ line.tool \in BOOLEAN
  BY LinesAssumption DEF Line
<1> SUFFICES /\ m \in Normalizers
             /\ m.usage => n.usage \/ line.usage
             /\ n.usage => m.usage
             /\ line.usage /\ ~turn.raw => m.usage
  OBVIOUS
<1> HIDE DEF n, m
<1>3. CASE turn.raw
  <2> DEFINE k == [n EXCEPT !.done = @ \/ line.kind = "done"]
             speaks == line.text # "none"
             e == IF line.kind = "done" THEN <<"done">>
                  ELSE Written(line, speaks)
  <2>1. m = Put(k, e)
    BY <1>1, <1>3 DEF ProcessLine
  <2>2. speaks \in BOOLEAN
    OBVIOUS
  <2>3. Kin(n, k)
    BY <1>1 DEF Kin, Normalizers
  <2> HIDE DEF k, speaks
  <2>4. e \in Seq(Events)
    BY <1>2, <2>2, WrittenIs, EventsAre
  <2> HIDE DEF e
  <2>5. Kin(k, m)
    BY <2>1, <2>3, <2>4, PutKin DEF Kin
  <2>6. QED BY <1>3, <2>3, <2>5 DEF Kin
<1>4. CASE ~turn.raw /\ line.kind = "comment"
  <2>1. m = n \/ m = Put(n, <<"chunk">>)
    BY <1>1, <1>4 DEF ProcessLine
  <2>2. Kin(n, m)
    BY <1>1, <2>1, PutKin, EventsAre DEF Kin
  <2>3. QED BY <1>2, <1>4, <2>2 DEF Kin
<1>5. CASE ~turn.raw /\ line.kind = "done"
  <2>1. m = HandleDone(n, trips, synthesize)
    BY <1>1, <1>5 DEF ProcessLine
  <2>2. Kin(n, m)
    BY <1>1, <2>1, DoneKin
  <2>3. QED BY <1>2, <1>5, <2>2 DEF Kin
<1>6. CASE ~turn.raw /\ line.kind \notin {"comment", "done"}
  <2>1. m = DataLine(n, line, trips)
    BY <1>1, <1>6 DEF ProcessLine
  <2>2. /\ m \in Normalizers
        /\ m.usage = (n.usage \/ line.usage)
    BY <1>1, <1>2, <2>1, DataKin
  <2>3. QED BY <2>2
<1>7. QED BY <1>3, <1>4, <1>5, <1>6

LEMMA EndKin ==
  ASSUME norm \in Normalizers, NEW trips \in BOOLEAN,
         ReadEnd(trips) \/ ReadError
  PROVE  Kin(norm, norm')
<1> DEFINE n == norm
           m == norm'
           first == FlushPendingDelimiter(n, FALSE, trips)
           last == [first EXCEPT !.thinking = FALSE, !.ended = "eof"]
<1>1. /\ n \in Normalizers
      /\ m \in {FlushHeldTerminal(last), [n EXCEPT !.ended = "error"]}
  BY DEF ReadEnd, ReadError
<1> SUFFICES Kin(n, m)
  OBVIOUS
<1>2. Kin(n, first)
  BY <1>1, FlushKin
<1> HIDE DEF n, m, first
<1>3. Kin(n, last)
  BY <1>2 DEF Kin, Normalizers
<1>4. Kin(n, [n EXCEPT !.ended = "error"])
  BY <1>1 DEF Kin, Normalizers
<1> HIDE DEF last
<1>5. Kin(n, FlushHeldTerminal(last))
  BY <1>3, HeldKin DEF Kin
<1>6. QED BY <1>1, <1>4, <1>5

LEMMA DrainedKin ==
  ASSUME norm \in Normalizers
  PROVE  /\ Kin(norm, Drained)
         /\ Kin(norm, [norm EXCEPT !.held = FALSE])
         /\ Kin(norm, [Drained EXCEPT !.held = FALSE])
<1>1. <<>> \in Seq(Events)
  OBVIOUS
<1>2. Kin(norm, Drained)
  BY <1>1 DEF Kin, Normalizers, Drained
<1>3. Kin(norm, [norm EXCEPT !.held = FALSE])
  BY DEF Kin, Normalizers
<1>4. Kin(norm, [Drained EXCEPT !.held = FALSE])
  BY <1>2 DEF Kin, Normalizers
<1>5. QED BY <1>2, <1>3, <1>4

LEMMA NewKin ==
  ASSUME NEW defer \in BOOLEAN, NEW suppress \in BOOLEAN
  PROVE  /\ NewNormalizer(defer, suppress) \in Normalizers
         /\ ~NewNormalizer(defer, suppress).usage
<1>1. <<>> \in Seq(Events)
  OBVIOUS
<1>2. QED BY <1>1 DEF NewNormalizer, Normalizers

LEMMA SentTyped ==
  ASSUME client \in Clients,
         NEW s
  PROVE  Sent(client, s) \in Clients
BY DEF Sent, Clients

\* Reading may report usage; it opens and counts nothing.
LEMMA UpstreamHolds == ASSUME LeakInv, UpstreamStep PROVE LeakInv'
<1>1. /\ norm' \in Normalizers
      /\ UNCHANGED <<turn, phase, held, peek, attempts, notices, outcome,
                     client, unclosed, tallied>>
      /\ phase \in Reading
      /\ \/ norm'.usage = norm.usage /\ reported' = reported
         \/ /\ reported' = reported \cup {StreamId}
            /\ norm.usage => norm'.usage
            /\ ~turn.raw => norm'.usage
  <2>1. norm \in Normalizers
    BY DEF LeakInv, HoldInv
  <2>2. ASSUME NEW line \in Lines, NEW trips \in BOOLEAN,
               NEW synthesize \in BOOLEAN, ReadLine(line, trips, synthesize)
        PROVE  <1>1!:
    <3>1. norm.usage \in BOOLEAN /\ norm'.usage \in BOOLEAN
      BY <2>1, <2>2, LineKin DEF Normalizers
    <3>2. CASE line.usage
      BY <2>1, <2>2, <3>2, LineKin DEF ReadLine
    <3>3. CASE ~line.usage
      BY <2>1, <2>2, <3>1, <3>3, LineKin DEF ReadLine
    <3>4. QED BY <3>2, <3>3
  <2>3. ASSUME NEW trips \in BOOLEAN, ReadEnd(trips) \/ ReadError
        PROVE  <1>1!:
    <3>1. Kin(norm, norm')
      BY <2>1, <2>3, EndKin
    <3>2. QED BY <2>3, <3>1 DEF Kin, ReadEnd, ReadError
  <2>4. QED BY <2>2, <2>3 DEF UpstreamStep
<1>2. StreamId = Newest /\ Newest' = Newest
      /\ phase \in Opening \cup {"rescue"}
  BY <1>1 DEF LeakInv, SlapsInv, StreamId, Newest, Reading, Opening
<1>3. HoldInv'
  BY <1>1 DEF LeakInv, HoldInv
<1>4. SlapsInv'
  BY <1>1 DEF LeakInv, SlapsInv
<1>5. OpenInv'
  BY <1>1, <1>2 DEF LeakInv, OpenInv
<1>6. Newest \in 0 .. Newest
  BY <1>1 DEF LeakInv, SlapsInv, Newest
<1>7. UsageInv'
  BY <1>1, <1>2, <1>6 DEF LeakInv, UsageInv
<1>8. QED BY <1>3, <1>4, <1>5, <1>7 DEF LeakInv

\* The first stream is released, and counted, wherever it ends.
LEMMA RelayHolds == ASSUME LeakInv, RelayStep PROVE LeakInv'
<1> USE DEF LeakInv, HoldInv, SlapsInv, OpenInv, UsageInv
<1>1. /\ turn \in Turns /\ norm \in Normalizers /\ peek \in Seq(Events)
      /\ norm.out \in Seq(Events) /\ norm.held \in BOOLEAN
      /\ norm.usage \in BOOLEAN
      /\ client \in Clients
  BY DEF Normalizers
<1>2. /\ Kin(norm, Drained)
      /\ Kin(norm, [norm EXCEPT !.held = FALSE])
      /\ Kin(norm, [Drained EXCEPT !.held = FALSE])
  BY <1>1, DrainedKin
<1>3. \A s : Sent(client, s) \in
               Clients
  BY <1>1, SentTyped
\* The first stream goes on: nothing is counted yet.
<1>4. ASSUME phase \in {"peek", "judge", "relay"}, phase' \in Opening,
             Kin(norm, norm'), peek' \in Seq(Events),
             client' \in Clients,
             unclosed' \subseteq unclosed,
             UNCHANGED <<turn, held, attempts, notices, outcome, reported,
                         tallied>>
      PROVE  LeakInv'
  BY <1>4, <1>1 DEF Kin, Opening, Newest, Phases
<1>5. CASE Peek
  <2>1. peek \o norm.out \in Seq(Events)
    BY <1>1
  <2>2. phase = "peek" /\ phase' \in {"peek", "judge"}
    BY <1>5 DEF Peek
  <2>3. norm' = Drained /\ peek' = peek \o norm.out
    BY <1>5 DEF Peek
  <2>4. UNCHANGED <<turn, held, attempts, notices, outcome, client, unclosed,
                    reported, tallied>>
    BY <1>5 DEF Peek
  <2>5. QED BY <1>1, <1>2, <1>4, <2>1, <2>2, <2>3, <2>4 DEF Opening
<1>6. CASE SendHead
  <2>1. phase = "judge" /\ phase' \in {"after", "relay"}
    BY <1>6 DEF SendHead
  <2>2. Kin(norm, norm') /\ unclosed' \subseteq unclosed
    BY <1>1, <1>2, <1>6 DEF SendHead, Kin
  <2>3. /\ client' \in Clients /\ peek' = <<>>
        /\ UNCHANGED <<turn, held, attempts, notices, outcome, reported,
                       tallied>>
    BY <1>3, <1>6 DEF SendHead
  <2>4. <<>> \in Seq(Events)
    OBVIOUS
  <2>5. QED BY <1>1, <1>4, <2>1, <2>2, <2>3, <2>4 DEF Opening
<1>7. CASE Relay
  <2>1. phase = "relay" /\ phase' \in {"after", "relay"}
    BY <1>7 DEF Relay
  <2>2. Kin(norm, norm') /\ unclosed' \subseteq unclosed
    BY <1>2, <1>7 DEF Relay
  <2>3. /\ client' \in Clients
        /\ UNCHANGED <<turn, held, peek, attempts, notices, outcome, reported,
                       tallied>>
    BY <1>3, <1>7 DEF Relay
  <2>4. QED BY <1>1, <1>4, <2>1, <2>2, <2>3 DEF Opening
<1>8. ASSUME NEW toolLoop \in BOOLEAN, Sever(toolLoop) PROVE LeakInv'
  <2>1. phase = "relay" /\ phase' = "after"
    BY <1>8 DEF Sever
  <2>2. Kin(norm, norm') /\ unclosed' \subseteq unclosed
    BY <1>2, <1>8 DEF Sever
  <2>3. /\ client' \in Clients
        /\ UNCHANGED <<turn, held, peek, attempts, notices, outcome, reported,
                       tallied>>
    BY <1>3, <1>8 DEF Sever
  <2>4. QED BY <1>1, <1>4, <2>1, <2>2, <2>3 DEF Opening
\* It ends: it is handed over, or counted.
<1>9. CASE HandOver
  <2>1. /\ phase = "judge" /\ phase' = "handed"
        /\ unclosed' = unclosed \ {0}
        /\ UNCHANGED <<turn, norm, held, peek, attempts, notices, outcome,
                       client, reported, tallied>>
    BY <1>9 DEF HandOver
  <2>2. QED BY <1>1, <2>1 DEF Opening, Newest, Phases
<1>10. ASSUME phase \in Opening,
              tallied' = IF norm.usage THEN tallied \cup {0} ELSE tallied,
              UNCHANGED <<turn, norm, peek, attempts, notices, outcome,
                          reported>>,
              client' \in Clients,
              held' \in BOOLEAN,
              \/ phase' = "closed" /\ unclosed' = unclosed \ {0}
              \/ phase' = "slap" /\ unclosed' = unclosed
       PROVE  LeakInv'
  <2>1. /\ attempts = 0 /\ notices = 0 /\ Newest = 0 /\ Newest' = 0
        /\ phase' \notin Opening \cup {"rescue", "handed"}
    BY <1>10 DEF Opening, Newest
  <2>2. HoldInv'
    BY <1>1, <1>10 DEF Phases
  <2>3. SlapsInv'
    BY <1>10, <2>1
  <2>4. OpenInv'
    BY <1>10, <2>1
  <2>5. reported' \subseteq 0 .. Newest' /\ tallied' \subseteq reported'
    BY <1>10, <2>1
  <2>6. ASSUME ~turn.raw PROVE tallied' = reported'
    <3>1. /\ reported' = reported /\ reported \subseteq tallied \cup {0}
          /\ tallied \subseteq reported /\ (0 \in reported <=> norm.usage)
      BY <1>10, <2>1, <2>6
    <3>2. tallied' = IF norm.usage THEN tallied \cup {0} ELSE tallied
      BY <1>10
    <3>3. reported \subseteq tallied' /\ tallied' \subseteq reported
      BY ONLY <3>1, <3>2
    <3>4. QED BY <3>1, <3>3
  <2>7. UsageInv'
    BY <1>10, <2>1, <2>5, <2>6
  <2>8. QED BY <2>2, <2>3, <2>4, <2>7
<1>11. ASSUME NEW toolLoop \in BOOLEAN, SeverPeeked(toolLoop) PROVE LeakInv'
  <2>1. /\ phase \in Opening /\ phase' = "closed"
        /\ unclosed' = unclosed \ {0}
        /\ tallied' = IF norm.usage THEN tallied \cup {0} ELSE tallied
        /\ UNCHANGED <<turn, norm, held, peek, attempts, notices, outcome,
                       reported>>
    BY <1>11 DEF SeverPeeked, Opening
  <2>2. client' \in Clients
    BY <1>3, <1>11 DEF SeverPeeked
  <2>3. QED BY <1>10, <2>1, <2>2
<1>12. CASE After
  <2>1. /\ phase \in Opening
        /\ tallied' = IF norm.usage THEN tallied \cup {0} ELSE tallied
        /\ UNCHANGED <<turn, norm, peek, attempts, notices, outcome, client,
                       reported>>
        /\ \/ phase' = "closed" /\ unclosed' = unclosed \ {0}
           \/ phase' = "slap" /\ unclosed' = unclosed
    BY <1>12 DEF After, Opening
  <2>2. held' \in BOOLEAN
    BY <1>1, <1>12 DEF After
  <2>3. QED BY <1>1, <1>10, <2>1, <2>2
<1>13. QED BY <1>5, <1>6, <1>7, <1>8, <1>9, <1>11, <1>12 DEF RelayStep

\* Every attempt closes the one before it and counts its own usage.
LEMMA SlapHolds == ASSUME LeakInv, SlapStep PROVE LeakInv'
<1> USE DEF LeakInv, HoldInv, SlapsInv, OpenInv, UsageInv
<1>1. /\ turn \in Turns /\ norm \in Normalizers /\ peek \in Seq(Events)
      /\ norm.out \in Seq(Events) /\ norm.held \in BOOLEAN
      /\ norm.usage \in BOOLEAN
      /\ client \in Clients
      /\ MaxAttempts \in Nat /\ attempts \in Nat /\ notices \in Nat
  BY LimitsAssumption DEF Normalizers
<1>2. Kin(norm, Drained)
  BY <1>1, DrainedKin
<1>3. \A s : Sent(client, s) \in
               Clients
  BY <1>1, SentTyped
\* Between two streams nothing is opened and nothing is left to count.
<1>4. ASSUME phase \in {"slap", "wait"}, phase' \in {"slap", "wait", "verdict"},
             client' \in Clients,
             outcome' \in Outcomes, notices' \in 0 .. MaxAttempts,
             phase' = "slap" => notices' = attempts,
             phase' = "wait" => notices' = attempts + 1,
             UNCHANGED <<turn, norm, held, peek, attempts, unclosed, reported,
                         tallied>>
      PROVE  LeakInv'
  BY <1>1, <1>4 DEF Opening, Newest, Phases
<1>5. CASE SlapAgain
  <2>1. /\ phase = "slap" /\ phase' = "wait" /\ notices' = notices + 1
        /\ attempts < SlapLimit
        /\ UNCHANGED <<turn, norm, held, peek, attempts, outcome, unclosed,
                       reported, tallied>>
    BY <1>5 DEF SlapAgain
  <2>2. attempts < MaxAttempts
    BY <1>1, <2>1 DEF SlapLimit
  <2>3. client' \in Clients
    BY <1>3, <1>5 DEF SlapAgain
  <2>4. notices' = attempts + 1 /\ notices' \in 0 .. MaxAttempts
    BY <1>1, <2>1, <2>2
  <2>5. QED BY <1>4, <2>1, <2>3, <2>4
<1>6. CASE SlapStops
  <2>1. /\ phase = "slap" /\ phase' = "verdict"
        /\ outcome' \in {outcome, "exhausted", "cancelled"}
        /\ UNCHANGED <<turn, norm, held, peek, attempts, notices, client,
                       unclosed, reported, tallied>>
    BY <1>6 DEF SlapStops
  <2>2. outcome' \in Outcomes
    BY <2>1 DEF Outcomes
  <2>3. QED BY <1>1, <1>4, <2>1, <2>2
<1>7. CASE KeepAlive
  <2>1. client' \in Clients
    BY <1>3, <1>7 DEF KeepAlive
  <2>2. QED BY <1>1, <1>4, <1>7, <2>1 DEF KeepAlive
<1>8. CASE RecoveryFails
  <2>1. outcome' \in Outcomes
    BY <1>8 DEF RecoveryFails, Outcomes
  <2>2. QED BY <1>1, <1>4, <1>8, <2>1 DEF RecoveryFails
<1>9. CASE RecoveryAnswers
  <2>1. /\ phase = "wait" /\ phase' = "rescue"
        /\ norm' = NewNormalizer(TRUE, TRUE)
        /\ unclosed' = unclosed \cup {attempts + 1}
        /\ UNCHANGED <<turn, held, peek, attempts, notices, outcome, client,
                       reported, tallied>>
    BY <1>9 DEF RecoveryAnswers
  <2>2. norm' \in Normalizers /\ ~norm'.usage
    BY <2>1, NewKin
  <2>3. Newest = attempts /\ Newest' = attempts + 1
    BY <2>1 DEF Newest
  <2>4. Newest' \notin reported /\ reported \subseteq 0 .. Newest'
    BY <1>1, <2>3
  <2>5. HoldInv'
    BY <2>1, <2>2 DEF Phases
  <2>6. SlapsInv'
    BY <2>1 DEF Opening
  <2>7. OpenInv'
    BY <2>1, <2>3
  <2>8. tallied \subseteq reported /\ (~turn.raw => tallied = reported)
    BY <2>1 DEF Opening
  <2>9. UsageInv'
    BY <2>1, <2>2, <2>3, <2>4, <2>8
  <2>10. QED BY <2>5, <2>6, <2>7, <2>9
<1>10. CASE RelayRecovery
  <2>1. /\ phase = "rescue" /\ phase' = "rescue" /\ norm' = Drained
        /\ client' = Sent(client, norm.out)
        /\ UNCHANGED <<turn, held, peek, attempts, notices, outcome, unclosed,
                       reported, tallied>>
    BY <1>10 DEF RelayRecovery
  <2>2. client' \in Clients
    BY <1>3, <2>1
  <2>3. QED BY <1>1, <1>2, <2>1, <2>2 DEF Kin, Opening, Newest
<1>11. CASE RecoveryEnds
  <2>1. /\ phase = "rescue" /\ phase' \in {"slap", "verdict"}
        /\ norm' = Drained /\ held' = norm.held
        /\ attempts' = attempts + 1
        /\ tallied' = IF norm.usage THEN tallied \cup {attempts + 1}
                      ELSE tallied
        /\ unclosed' = IF attempts > 0 THEN unclosed \ {attempts} ELSE unclosed
        /\ UNCHANGED <<turn, peek, notices, reported>>
    BY <1>11 DEF RecoveryEnds
  <2>2. outcome' \in Outcomes
    BY <1>11 DEF RecoveryEnds, Outcomes, Recovered
  <2>3. client' \in Clients
    BY <1>1, <1>3, <1>11 DEF RecoveryEnds
  <2>4. Newest = attempts + 1 /\ Newest' = attempts + 1
    BY <2>1 DEF Newest
  <2>5. HoldInv'
    BY <1>1, <1>2, <2>1, <2>2, <2>3 DEF Kin, Phases
  <2>6. notices = attempts + 1 /\ attempts' \in 0 .. MaxAttempts
    BY <1>1, <2>1
  <2>7. SlapsInv'
    BY <2>1, <2>6 DEF Opening
  <2>8. unclosed' \subseteq {0, attempts + 1}
    <3>1. unclosed \subseteq {0, attempts, attempts + 1}
      BY <2>4
    <3>2. CASE attempts > 0
      BY <2>1, <3>1, <3>2
    <3>3. CASE attempts = 0
      BY <2>1, <3>1, <3>3
    <3>4. QED BY <1>1, <3>2, <3>3
  <2>9. OpenInv'
    BY <2>1, <2>4, <2>8
  <2>10. reported' = reported /\ reported \subseteq 0 .. attempts + 1
         /\ tallied \subseteq reported
         /\ (norm.usage => attempts + 1 \in reported)
    BY <2>1, <2>4
  <2>11. tallied' \subseteq reported'
    BY <2>1, <2>10
  <2>12. ASSUME ~turn.raw PROVE tallied' = reported'
    <3>1. reported \subseteq tallied \cup {attempts + 1}
          /\ (attempts + 1 \in reported => norm.usage)
      BY <2>1, <2>4, <2>12
    <3>2. tallied' = IF norm.usage THEN tallied \cup {attempts + 1}
                     ELSE tallied
      BY <2>1
    <3>3. reported \subseteq tallied' /\ tallied' \subseteq reported
      BY ONLY <2>10, <3>1, <3>2
    <3>4. QED BY <2>10, <3>3
  <2>13. UsageInv'
    BY <2>1, <2>4, <2>10, <2>11, <2>12 DEF Opening
  <2>14. QED BY <2>5, <2>7, <2>9, <2>13
<1>12. CASE Verdict
  <2>1. /\ phase = "verdict" /\ phase' = "closed"
        /\ unclosed' = unclosed \ {0, attempts}
        /\ UNCHANGED <<turn, norm, held, peek, attempts, notices, outcome,
                       reported, tallied>>
    BY <1>12 DEF Verdict
  <2>2. client' \in Clients
    BY <1>1, <1>3, <1>12 DEF Verdict
  <2>3. Newest = attempts /\ Newest' = attempts
    BY <2>1 DEF Newest
  <2>4. OpenInv'
    BY <2>1, <2>3
  <2>5. UsageInv'
    BY <2>1, <2>3 DEF Opening
  <2>6. QED BY <2>1, <2>2, <2>4, <2>5 DEF Opening, Phases
<1>13. QED BY <1>5, <1>6, <1>7, <1>8, <1>9, <1>10, <1>11, <1>12 DEF SlapStep

\* The invariant holds, and says what was meant.
LEMMA LeakStarts == ASSUME Init PROVE LeakInv
<1>1. /\ turn \in Turns /\ phase = "peek"
      /\ norm = NewNormalizer(turn.slap, FALSE)
      /\ held = FALSE /\ peek = <<>> /\ attempts = 0 /\ notices = 0
      /\ outcome = "exhausted" /\ client = Silence
      /\ unclosed = {0} /\ reported = {} /\ tallied = {}
  BY DEF Init
<1>2. norm \in Normalizers /\ ~norm.usage
  <2>1. turn.slap \in BOOLEAN
    BY <1>1 DEF Turns
  <2>2. QED BY <1>1, <2>1, NewKin
<1>3. HoldInv
  <2>1. peek \in Seq(Events)
    BY <1>1
  <2>2. QED BY <1>1, <1>2, <2>1 DEF HoldInv, Phases, Outcomes, Clients,
                                  Silence
<1>4. SlapsInv
  BY <1>1, LimitsAssumption DEF SlapsInv, Opening
<1>5. OpenInv /\ UsageInv
  BY <1>1, <1>2 DEF OpenInv, UsageInv, Newest, Opening
<1>6. QED BY <1>3, <1>4, <1>5 DEF LeakInv

LEMMA LeakKeeps == ASSUME LeakInv, [Next]_vars PROVE LeakInv'
<1>1. CASE UNCHANGED vars
  BY <1>1 DEF vars, LeakInv, HoldInv, SlapsInv, OpenInv, UsageInv, Newest
<1>2. QED BY <1>1, UpstreamHolds, RelayHolds, SlapHolds DEF Next

LEMMA LeakSays == ASSUME LeakInv PROVE NothingLeaks
<1> USE DEF LeakInv, HoldInv, SlapsInv, OpenInv, UsageInv
<1>1. norm.out \in Seq(Events)
  BY DEF Normalizers
<1>2. Newest \in 0 .. MaxAttempts /\ MaxAttempts \in Nat
  BY LimitsAssumption DEF Newest
<1>3. unclosed \subseteq 0 .. MaxAttempts
  BY <1>2
<1>4. 0 .. Newest \subseteq 0 .. MaxAttempts
  BY <1>2
<1>5. TypeOK
  BY <1>1, <1>3, <1>4 DEF TypeOK, Clients
<1>6. phase = "closed" /\ ~turn.raw => tallied = reported
  BY DEF Opening
<1>7. QED BY <1>5, <1>6 DEF NothingLeaks

(***************************************************************************)
(* Whatever the upstream sends and however the recovery loop is left: when *)
(* a turn is over no normalizer holds pooled buffers, and the usage of     *)
(* every stream that reported it has been counted.                         *)
(***************************************************************************)
THEOREM NothingLeft == Spec => []NothingLeaks
<1>1. Init => LeakInv
  BY LeakStarts
<1>2. LeakInv /\ [Next]_vars => LeakInv'
  BY LeakKeeps
<1>3. LeakInv => NothingLeaks
  BY LeakSays
<1>4. QED BY <1>1, <1>2, <1>3, PTL DEF Spec
===============================================================================
