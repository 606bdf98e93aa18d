------------------------- MODULE TurnPipelineProofs -------------------------
(***************************************************************************)
(* The session table of SessionTracker makes room as it should, for any    *)
(* limit, any keys, any clock and any calls; and the limits of             *)
(* TurnPipeline for any number of requests and sessions, any tiers and any *)
(* checkpoints: the escalation budget, the retry floor of a killed turn,   *)
(* the read slaps and the checkpoints of a session.                        *)
(*                                                                         *)
(* Each limit is an invariant that relates what was sent (the history      *)
(* variables) to what the tracker has counted (Counts), and the count to    *)
(* the turns that have been decided and not sent yet.                      *)
(***************************************************************************)
EXTENDS TurnPipeline, FiniteSetTheorems, TLAPS

\* The table has room for every session, so that none is evicted.
NeverFull == IsFiniteSet(Keys) /\ Cardinality(Keys) <= MaxSessions

-----------------------------------------------------------------------------
(* What the tracker has counted *)

Tally(s) == [escalation |-> s.escalation, fails |-> s.kickFailures,
             floor |-> s.floor, dust |-> s.dust]
Nil == [escalation |-> 0, fails |-> 0, floor |-> 0,
        dust |-> [e \in Entries |-> 0]]
Tallies == [escalation : Nat, fails : Nat, floor : Nat, dust : [Entries -> Nat]]

Counts == [k \in Keys |-> IF Known(k) THEN Tally(sessions[k]) ELSE Nil]

\* A call on session k leaves it with the tally t, and the others alone.
Sets(k, t) ==
  /\ SessionsTyped'
  /\ DOMAIN sessions \subseteq DOMAIN sessions'
  /\ Counts' = [Counts EXCEPT ![k] = t]

\* A call leaves all tallies alone.
Stays ==
  /\ SessionsTyped'
  /\ DOMAIN sessions \subseteq DOMAIN sessions'
  /\ Counts' = Counts

\* Tallies have their types.
LEMMA CountsTyped ==
  ASSUME SessionsTyped PROVE Counts \in [Keys -> Tallies]
<1>1. Nil \in Tallies
  BY DEF Nil, Tallies
<1>2. \A s \in SessionState : Tally(s) \in Tallies
  BY DEF Tally, Tallies, SessionState
<1>3. QED
  BY <1>1, <1>2 DEF Counts, Known, SessionsTyped

\* A session begins with a state of the right types, and with nothing counted.
LEMMA NewStateTyped ==
  ASSUME SessionsTyped PROVE NewState \in SessionState /\ Tally(NewState) = Nil
<1>1. now \in Nat
  BY DEF SessionsTyped
<1>2. NewState \in SessionState
  BY <1>1 DEF NewState, SessionState
<1>3. Tally(NewState) = Nil
  BY DEF NewState, Tally, Nil
<1>4. QED
  BY <1>2, <1>3

\* A call that changes the state of a known session.
LEMMA Updated ==
  ASSUME SessionsTyped, UNCHANGED now, NEW k \in DOMAIN sessions,
         NEW s \in SessionState, Update(k, s)
  PROVE  Sets(k, Tally(s))
<1>1. sessions' = [sessions EXCEPT ![k] = s]
  BY DEF Update
<1>2. DOMAIN sessions' = DOMAIN sessions /\ sessions'[k] = s
  BY <1>1
<1>3. \A x \in DOMAIN sessions : sessions'[x] \in SessionState
  BY <1>1 DEF SessionsTyped
<1>4. SessionsTyped'
  BY <1>2, <1>3 DEF SessionsTyped
<1>5. \A x \in DOMAIN sessions : sessions'[x] = IF x = k THEN s ELSE sessions[x]
  BY <1>1
<1>6. Counts' = [Counts EXCEPT ![k] = Tally(s)]
  BY <1>2, <1>5 DEF Counts, Known
<1>7. QED
  BY <1>2, <1>4, <1>6 DEF Sets

\* A call that creates a session, in a table with room for all of them.
LEMMA Created ==
  ASSUME NeverFull, SessionsTyped, UNCHANGED now, NEW k \in Keys, ~Known(k),
         NEW s \in SessionState, Create(k, s)
  PROVE  Sets(k, Tally(s)) /\ k \in DOMAIN sessions'
<1> DEFINE D == DOMAIN sessions
<1>1. D \subseteq Keys \ {k}
  BY DEF SessionsTyped, Known
<1>2. /\ IsFiniteSet(Keys \ {k})
      /\ Cardinality(Keys \ {k}) = Cardinality(Keys) - 1
  BY FS_RemoveElement DEF NeverFull
<1>3. IsFiniteSet(D) /\ Cardinality(D) <= Cardinality(Keys \ {k})
  BY <1>1, <1>2, FS_Subset
<1>4. Cardinality(D) \in Nat /\ Cardinality(Keys) \in Nat /\ MaxSessions \in Nat
  BY <1>3, FS_CardinalityType, TrackerAssumption DEF NeverFull
<1>5. Cardinality(D) < MaxSessions
  BY <1>2, <1>3, <1>4 DEF NeverFull
<1>6. EvictExpiredOrOldest = {D}
  BY <1>5 DEF EvictExpiredOrOldest
<1>7. sessions' = [x \in D \cup {k} |-> IF x = k THEN s ELSE sessions[x]]
  BY <1>6 DEF Create
<1>8. DOMAIN sessions' = D \cup {k} /\ sessions'[k] = s
  BY <1>7
<1>9. \A x \in D : x # k => sessions'[x] = sessions[x]
  BY <1>7
<1>10. \A x \in D \cup {k} : sessions'[x] \in SessionState
  BY <1>7 DEF SessionsTyped
<1>11. SessionsTyped'
  BY <1>1, <1>8, <1>10 DEF SessionsTyped
<1>12. Counts' = [Counts EXCEPT ![k] = Tally(s)]
  BY <1>8, <1>9 DEF Counts, Known
<1>13. QED
  BY <1>8, <1>11, <1>12 DEF Sets

\* No call, or one that finds no session; the clock may tick.
LEMMA Untouched ==
  ASSUME SessionsTyped, UNCHANGED sessions, now' \in Nat PROVE Stays
<1>1. SessionsTyped'
  BY DEF SessionsTyped
<1>2. Counts' = Counts
  BY DEF Counts, Known
<1>3. QED
  BY <1>1, <1>2 DEF Stays

\* Leaving the tally of one session alone leaves them all alone.
LEMMA SetsSame ==
  ASSUME NEW k \in Keys, Sets(k, Counts[k]) PROVE Stays
<1>1. [Counts EXCEPT ![k] = Counts[k]] = Counts
  BY DEF Counts
<1>2. QED
  BY <1>1 DEF Sets, Stays

\* And the other way round.
LEMMA StaysSets ==
  ASSUME NEW k \in Keys, Stays PROVE Sets(k, Counts[k])
<1>1. [Counts EXCEPT ![k] = Counts[k]] = Counts
  BY DEF Counts
<1>2. QED
  BY <1>1 DEF Sets, Stays

-----------------------------------------------------------------------------
(* What each method of the tracker counts *)

\* A session that is new or has expired counts nothing; a turn that starts
\* afresh ends the escalation, and the floor sinks by one.
Recorded(k, t) ==
  IF Known(k) /\ ~Expired(k)
    THEN [escalation |-> IF Verdict(sessions[k], t) = "fresh" THEN 0
                         ELSE Counts[k].escalation,
          fails |-> Counts[k].fails,
          floor |-> IF Counts[k].floor > 0 THEN Counts[k].floor - 1 ELSE 0,
          dust |-> Counts[k].dust]
    ELSE Nil

\* RecordTurnTaskWithHold
LEMMA RecordTurnSets ==
  ASSUME NeverFull, SessionsTyped, UNCHANGED now, NEW k \in Keys, NEW t, Turn(t),
         RecordTurnTaskWithHold(k, t)
  PROVE  Sets(k, Recorded(k, t)) /\ k \in DOMAIN sessions'
<1>0. t.root \in Nat /\ t.prompt \in Nat /\ t.messages \in Nat /\ now \in Nat
  BY DEF Turn, SessionsTyped
<1>1. CASE ~Known(k)
  <2> DEFINE s == [NewState EXCEPT !.root = t.root, !.prompt = t.prompt,
                                   !.messages = t.messages]
  <2>1. s \in SessionState
    BY <1>0, NewStateTyped DEF SessionState
  <2>2. Tally(s) = Nil
    BY NewStateTyped DEF NewState, Tally
  <2>3. Recorded(k, t) = Nil
    BY <1>1 DEF Recorded
  <2>4. Create(k, s)
    BY <1>1 DEF RecordTurnTaskWithHold
  <2> HIDE DEF s
  <2>5. QED
    BY <1>1, <2>1, <2>2, <2>3, <2>4, Created
<1>2. CASE Known(k)
  <2> DEFINE s == sessions[k]
  <2>1. s \in SessionState /\ k \in DOMAIN sessions
    BY <1>2 DEF Known, SessionsTyped
  <2>2. Cleaned(s) \in [Models -> Nat]
    BY <2>1 DEF Cleaned, SessionState
  <2>3. CountedRetries(s, t) \in Nat
    BY <2>1 DEF CountedRetries, SessionState
  <2>4. (IF s.floor > 0 THEN s.floor - 1 ELSE 0) \in Nat
    BY <2>1 DEF SessionState
  <2>5. AfterExpiry(s, t) \in SessionState
    BY <1>0, <2>1, <2>2 DEF AfterExpiry, SessionState
  <2>6. AfterTurn(s, t) \in SessionState
    BY <1>0, <2>1, <2>2, <2>3, <2>4 DEF AfterTurn, SessionState
  <2>7. Tally(AfterExpiry(s, t)) = Nil
    BY <2>1 DEF Tally, AfterExpiry, SessionState, Nil
  <2>8. CASE Expired(k)
    <3>1. Recorded(k, t) = Nil
      BY <2>8 DEF Recorded
    <3>2. QED
      BY <1>2, <2>1, <2>5, <2>7, <2>8, <3>1, Updated
         DEF RecordTurnTaskWithHold, Sets
  <2>9. CASE ~Expired(k)
    <3>1. Tally(AfterTurn(s, t)) = Recorded(k, t)
      BY <1>2, <2>1, <2>9 DEF Tally, AfterTurn, Recorded, Counts, SessionState
    <3>2. QED
      BY <1>2, <2>1, <2>6, <2>9, <3>1, Updated DEF RecordTurnTaskWithHold, Sets
  <2>10. QED
    BY <2>8, <2>9
<1>3. QED
  BY <1>1, <1>2

\* RecordEscalation
LEMMA EscalationSets ==
  ASSUME SessionsTyped, UNCHANGED now, NEW k \in Keys, Known(k),
         RecordEscalation(k)
  PROVE  Sets(k, [Counts[k] EXCEPT !.escalation = @ + 1])
<1> DEFINE s == sessions[k]
           t == [s EXCEPT !.escalation = @ + 1]
<1>1. s \in SessionState /\ k \in DOMAIN sessions
  BY DEF Known, SessionsTyped
<1>2. t \in SessionState
  BY <1>1 DEF SessionState
<1>3. Tally(t) = [Counts[k] EXCEPT !.escalation = @ + 1]
  BY <1>1 DEF Tally, Counts, SessionState
<1>4. Update(k, t)
  BY DEF RecordEscalation, IfKnown
<1> HIDE DEF t
<1>5. QED
  BY <1>1, <1>2, <1>3, <1>4, Updated DEF Sets

\* ResetEscalation
LEMMA ResetEscalationSets ==
  ASSUME SessionsTyped, UNCHANGED now, NEW k \in Keys, Known(k),
         ResetEscalation(k)
  PROVE  Sets(k, [Counts[k] EXCEPT !.escalation = 0])
<1> DEFINE s == sessions[k]
           t == [s EXCEPT !.escalation = 0]
<1>1. s \in SessionState /\ k \in DOMAIN sessions
  BY DEF Known, SessionsTyped
<1>2. t \in SessionState
  BY <1>1 DEF SessionState
<1>3. Tally(t) = [Counts[k] EXCEPT !.escalation = 0]
  BY <1>1 DEF Tally, Counts, SessionState
<1>4. Update(k, t)
  BY DEF ResetEscalation, IfKnown
<1> HIDE DEF t
<1>5. QED
  BY <1>1, <1>2, <1>3, <1>4, Updated DEF Sets

\* RecordKickstartState
LEMMA KickstartSets ==
  ASSUME SessionsTyped, UNCHANGED now, NEW k \in Keys, Known(k),
         NEW progress \in BOOLEAN, NEW max,
         RecordKickstartState(k, progress, max)
  PROVE  Sets(k, [Counts[k] EXCEPT !.fails = IF progress THEN 0 ELSE @])
<1> DEFINE s == sessions[k]
           t == IF progress THEN [s EXCEPT !.kicks = 0, !.kickFailures = 0]
                ELSE IF s.kickFailures >= max THEN s
                ELSE [s EXCEPT !.kicks = @ + 1]
<1>1. s \in SessionState /\ k \in DOMAIN sessions
  BY DEF Known, SessionsTyped
<1>2. /\ [s EXCEPT !.kicks = 0, !.kickFailures = 0] \in SessionState
      /\ [s EXCEPT !.kicks = @ + 1] \in SessionState
  <2>1. [s EXCEPT !.kicks = 0, !.kickFailures = 0] \in SessionState
    BY <1>1 DEF SessionState
  <2>2. [s EXCEPT !.kicks = @ + 1] \in SessionState
    BY <1>1 DEF SessionState
  <2>3. QED
    BY <2>1, <2>2
<1>3. Tally(t) = [Counts[k] EXCEPT !.fails = IF progress THEN 0 ELSE @]
  BY <1>1 DEF Tally, Counts, SessionState
<1>4. Update(k, t)
  BY DEF RecordKickstartState, IfKnown
<1>5. t \in SessionState
  BY <1>1, <1>2
<1> HIDE DEF t
<1>6. QED
  BY <1>1, <1>3, <1>4, <1>5, Updated DEF Sets

\* RecordKickstartFailure
LEMMA FailureSets ==
  ASSUME SessionsTyped, UNCHANGED now, NEW k \in Keys, Known(k),
         RecordKickstartFailure(k)
  PROVE  Sets(k, [Counts[k] EXCEPT !.fails = @ + 1])
<1> DEFINE s == sessions[k]
           t == [s EXCEPT !.kickFailures = @ + 1]
<1>1. s \in SessionState /\ k \in DOMAIN sessions
  BY DEF Known, SessionsTyped
<1>2. t \in SessionState
  BY <1>1 DEF SessionState
<1>3. Tally(t) = [Counts[k] EXCEPT !.fails = @ + 1]
  BY <1>1 DEF Tally, Counts, SessionState
<1>4. Update(k, t)
  BY DEF RecordKickstartFailure, IfKnown
<1> HIDE DEF t
<1>5. QED
  BY <1>1, <1>2, <1>3, <1>4, Updated DEF Sets

\* CheckFairyDust counts an entry that is due.
LEMMA DustSets ==
  ASSUME SessionsTyped, UNCHANGED now, NEW k \in Keys, NEW e \in Entries,
         NEW frequency, NEW max,
         DustDue(k, e, frequency, max), CheckFairyDust(k, e, frequency, max)
  PROVE  Sets(k, [Counts[k] EXCEPT !.dust[e] = @ + 1])
<1> DEFINE s == sessions[k]
           t == [s EXCEPT !.dust[e] = @ + 1]
<1>1. s \in SessionState /\ k \in DOMAIN sessions /\ Known(k)
  BY DEF DustDue, Known, SessionsTyped
<1>2. t \in SessionState
  BY <1>1 DEF SessionState
<1>3. Tally(t) = [Counts[k] EXCEPT !.dust[e] = @ + 1]
  BY <1>1 DEF Tally, Counts, SessionState
<1>4. Update(k, t)
  BY DEF CheckFairyDust
<1> HIDE DEF t
<1>5. QED
  BY <1>1, <1>2, <1>3, <1>4, Updated DEF Sets

\* ResetSession: nothing is counted of the session any more.
LEMMA ResetSessionSets ==
  ASSUME SessionsTyped, UNCHANGED now, NEW k \in Keys, ResetSession(k)
  PROVE  Sets(k, Nil)
<1> DEFINE s == sessions[k]
           t == [s EXCEPT !.retries = 0, !.escalation = 0, !.kicks = 0,
                          !.kickFailures = 0, !.floor = 0,
                          !.cooling = [m \in Models |-> 0], !.writes = 0,
                          !.dust = [e \in Entries |-> 0], !.guards = {},
                          !.root = 0, !.prompt = 0, !.messages = 0]
<1>1. CASE Known(k)
  <2>1. s \in SessionState /\ k \in DOMAIN sessions
    BY <1>1 DEF Known, SessionsTyped
  <2>2. t \in SessionState
    BY <2>1 DEF SessionState
  <2>3. Tally(t) = Nil
    BY <2>1 DEF Tally, Nil, SessionState
  <2>4. Update(k, t)
    BY <1>1 DEF ResetSession, IfKnown
  <2> HIDE DEF t
  <2>5. QED
    BY <2>1, <2>2, <2>3, <2>4, Updated DEF Sets
<1>2. CASE ~Known(k)
  <2>1. UNCHANGED sessions
    BY <1>2 DEF ResetSession, IfKnown
  <2>2. Stays
    BY <2>1, Untouched DEF SessionsTyped
  <2>3. Counts[k] = Nil
    BY <1>2 DEF Counts
  <2>4. QED
    BY <2>2, <2>3, StaysSets
<1>3. QED
  BY <1>1, <1>2

\* RecordCycleKill raises the floor, of a new session too.
LEMMA CycleKillSets ==
  ASSUME NeverFull, SessionsTyped, UNCHANGED now, NEW k \in Keys, NEW m,
         RecordCycleKill(k, m, Floor)
  PROVE  Sets(k, [Counts[k] EXCEPT !.floor = IF Floor > @ THEN Floor ELSE @])
<1> DEFINE t(s) == [s EXCEPT !.floor = IF Floor > @ THEN Floor ELSE @,
                             !.cooling[m] = now + Cooldown]
<1>0. now + Cooldown \in Nat /\ Floor \in Nat
  BY TrackerAssumption, PipelineAssumption DEF SessionsTyped
<1>1. ASSUME NEW s \in SessionState
      PROVE  /\ t(s) \in SessionState
             /\ Tally(t(s)) = [Tally(s) EXCEPT !.floor = IF Floor > @ THEN Floor
                                                         ELSE @]
  <2>1. t(s) \in SessionState
    BY <1>0 DEF SessionState
  <2>2. Tally(t(s)) = [Tally(s) EXCEPT !.floor = IF Floor > @ THEN Floor ELSE @]
    BY DEF SessionState, Tally
  <2>3. QED
    BY <2>1, <2>2
<1>2. /\ Known(k) => Update(k, t(sessions[k]))
      /\ ~Known(k) => Create(k, t(NewState))
  BY DEF RecordCycleKill, Upsert
<1> HIDE DEF t
<1>3. CASE Known(k)
  <2>1. sessions[k] \in SessionState /\ k \in DOMAIN sessions
    BY <1>3 DEF Known, SessionsTyped
  <2>2. Counts[k] = Tally(sessions[k])
    BY <1>3 DEF Counts
  <2>3. QED
    BY <1>1, <1>2, <1>3, <2>1, <2>2, Updated
<1>4. CASE ~Known(k)
  <2>1. Counts[k] = Nil
    BY <1>4 DEF Counts
  <2>2. NewState \in SessionState /\ Tally(NewState) = Nil
    BY NewStateTyped
  <2>3. QED
    BY <1>1, <1>2, <1>4, <2>1, <2>2, Created
<1>5. QED
  BY <1>3, <1>4

\* RecordThoughtSlap and RecordWriteProgress count nothing that is limited here.
LEMMA KnownStays ==
  ASSUME SessionsTyped, UNCHANGED now, NEW k \in Keys,
         \/ RecordThoughtSlap(k)
         \/ \E wrote \in BOOLEAN : RecordWriteProgress(k, wrote)
  PROVE  Stays
<1>1. CASE ~Known(k)
  <2>1. UNCHANGED sessions
    BY <1>1 DEF RecordThoughtSlap, RecordWriteProgress, IfKnown
  <2>2. QED
    BY <2>1, Untouched DEF SessionsTyped
<1>2. CASE Known(k)
  <2> DEFINE s == sessions[k]
  <2>1. s \in SessionState /\ k \in DOMAIN sessions
    BY <1>2 DEF Known, SessionsTyped
  <2>2. SUFFICES ASSUME NEW t \in SessionState, Update(k, t), Tally(t) = Tally(s)
                 PROVE  Stays
    <3>1. [s EXCEPT !.thoughtSlaps = @ + 1] \in SessionState
      BY <2>1 DEF SessionState
    <3>2. Tally([s EXCEPT !.thoughtSlaps = @ + 1]) = Tally(s)
      BY <2>1 DEF Tally, SessionState
    <3>3. [s EXCEPT !.writes = @ + 1] \in SessionState
      BY <2>1 DEF SessionState
    <3>4. Tally([s EXCEPT !.writes = @ + 1]) = Tally(s)
      BY <2>1 DEF Tally, SessionState
    <3>5. CASE RecordThoughtSlap(k)
      BY <1>2, <2>2, <3>1, <3>2, <3>5 DEF RecordThoughtSlap, IfKnown
    <3>6. CASE \E wrote \in BOOLEAN : RecordWriteProgress(k, wrote)
      BY <1>2, <2>1, <2>2, <3>3, <3>4, <3>6 DEF RecordWriteProgress, IfKnown
    <3>7. QED
      BY <3>5, <3>6
  <2>3. Counts[k] = Tally(s)
    BY <1>2 DEF Counts
  <2>4. Sets(k, Counts[k])
    BY <2>1, <2>2, <2>3, Updated
  <2>5. QED
    BY <2>4, SetsSame
<1>3. QED
  BY <1>1, <1>2

\* Nor do the guardrail switches, which may create a session.
LEMMA SetGuardStays ==
  ASSUME NeverFull, SessionsTyped, UNCHANGED now, NEW k \in Keys,
         NEW g \in Toggles, NEW on \in BOOLEAN, SetGuard(k, g, on)
  PROVE  Stays
<1> DEFINE t(s) == [s EXCEPT !.guards = IF on THEN @ \cup {g} ELSE @ \ {g}]
<1>1. ASSUME NEW s \in SessionState
      PROVE  t(s) \in SessionState /\ Tally(t(s)) = Tally(s)
  <2>1. t(s) \in SessionState
    BY DEF SessionState
  <2>2. Tally(t(s)) = Tally(s)
    BY DEF SessionState, Tally
  <2>3. QED
    BY <2>1, <2>2
<1>2. /\ Known(k) => Update(k, t(sessions[k]))
      /\ ~Known(k) => Create(k, t(NewState))
  BY DEF SetGuard, Upsert
<1> HIDE DEF t
<1>3. Known(k) => sessions[k] \in SessionState /\ k \in DOMAIN sessions
  BY DEF Known, SessionsTyped
<1>4. NewState \in SessionState /\ Tally(NewState) = Nil
  BY NewStateTyped
<1>5. Sets(k, Counts[k])
  BY <1>1, <1>2, <1>3, <1>4, Updated, Created DEF Counts
<1>6. QED
  BY <1>5, SetsSame

\* Nor does ShouldDebounceMeta, which may create one as well.
LEMMA DebounceStays ==
  ASSUME NeverFull, SessionsTyped, UNCHANGED now, NEW k \in Keys,
         NEW d \in Directives, ShouldDebounceMeta(k, d)
  PROVE  Stays
<1> DEFINE t(s) == IF Debounced(k, d) THEN [s EXCEPT !.last = now]
                   ELSE [s EXCEPT !.last = now, !.meta = d, !.metaAt = now]
<1>1. ASSUME NEW s \in SessionState
      PROVE  t(s) \in SessionState /\ Tally(t(s)) = Tally(s)
  <2>1. now \in Nat
    BY DEF SessionsTyped
  <2>2. [s EXCEPT !.last = now] \in SessionState
    BY <2>1 DEF SessionState
  <2>3. [s EXCEPT !.last = now, !.meta = d, !.metaAt = now] \in SessionState
    BY <2>1 DEF SessionState
  <2>4. Tally(t(s)) = Tally(s)
    BY DEF SessionState, Tally
  <2>5. QED
    BY <2>2, <2>3, <2>4
<1>2. /\ Known(k) => Update(k, t(sessions[k]))
      /\ ~Known(k) => Create(k, t(NewState))
  BY DEF ShouldDebounceMeta, Upsert
<1> HIDE DEF t
<1>3. Known(k) => sessions[k] \in SessionState /\ k \in DOMAIN sessions
  BY DEF Known, SessionsTyped
<1>4. NewState \in SessionState /\ Tally(NewState) = Nil
  BY NewStateTyped
<1>5. Sets(k, Counts[k])
  BY <1>1, <1>2, <1>3, <1>4, Updated, Created DEF Counts
<1>6. QED
  BY <1>5, SetsSame

-----------------------------------------------------------------------------
(* Turns *)

AnyTier == TierNames \cup {"Forced Model", "Fairy Dust", None}

Turns ==
  [pc : PCs, in : Inputs \cup {None}, guards : SUBSET Toggles, retries : Nat,
   owed : Nat, cooling : SUBSET Models, kicked : BOOLEAN, noKick : BOOLEAN,
   forced : TierNames \cup {None, "model"}, entry : Nat, winner : 0..Len(Dust),
   tier : AnyTier, model : Models \cup {None}]

Typed ==
  /\ SessionsTyped
  /\ turn \in [Requests -> Turns]
  /\ turns \in 0..MaxTurns
  /\ frontier \in [Keys -> Nat] /\ rescued \in [Keys -> Nat]
  /\ slapped \in [Keys -> Nat]
  /\ owed \in [Keys -> Nat] /\ dusted \in [Keys -> [Entries -> Nat]]

\* What a turn has decided by the stage it is at; from RecordTurn on its
\* session is one of those known, and it reports the retries it owes.
Placed(t, known) ==
  /\ t.pc # "idle" => t.in \in Inputs
  /\ t.pc \in {"meta", "execute"} => t.in.meta # None
  /\ t.pc = "toggle" => t.in.toggle # None
  /\ t.pc = "writes" => Len(Dust) # 0
  /\ t.pc = "entries" => t.entry \in 1..Len(Dust)
  /\ t.pc \in {"meta", "execute", "toggle", "guards", "record", "cooling", "slap"}
       => ~t.kicked
  /\ t.pc \in {"meta", "execute", "toggle", "guards", "record", "cooling", "slap",
               "dust", "writes"} => t.winner = 0
  /\ t.pc \in {"cooling", "slap", "dust", "writes", "entries", "select", "forced",
               "inject", "upstream"} => t.in.key \in known
  /\ t.retries >= t.owed

Base == Typed /\ \A r \in Requests : Placed(turn[r], DOMAIN sessions)

\* A turn that will inject a read slap, and one that has chosen a checkpoint.
Kicks(t) ==
  t.pc \in {"dust", "writes", "entries", "select", "forced", "inject"} /\ t.kicked
Chooses(t) == t.pc \in {"entries", "select"} /\ t.winner # 0

\* The turn of r becomes t, which keeps its place, with types.
Becomes(r, t) ==
  /\ t \in Turns /\ Placed(t, DOMAIN sessions')
  /\ turn' = [turn EXCEPT ![r] = t]

\* A turn of a session may have fallen back to the default tier.
Rescues ==
  \/ UNCHANGED <<frontier, rescued>>
  \/ \E k \in Keys : /\ frontier' = [frontier EXCEPT ![k] = @ + 1]
                     /\ rescued' = [rescued EXCEPT ![k] = @ + 1]

\* The turn of r becomes another one, which decides nothing new.
Quietly(r) ==
  \E t \in Turns :
    /\ Becomes(r, t)
    /\ Kicks(t) => Kicks(turn[r]) /\ t.in = turn[r].in
    /\ Chooses(t) => /\ Chooses(turn[r])
                     /\ t.in = turn[r].in /\ t.winner = turn[r].winner
    /\ Stays
    /\ turns' \in 0..MaxTurns
    /\ Rescues /\ UNCHANGED <<slapped, owed, dusted, carried>>

\* A request at any stage but the first has an input and a session key.
LEMMA InputTyped ==
  ASSUME Base, NEW r \in Requests, turn[r].pc # "idle"
  PROVE  /\ In(r) \in Inputs /\ Input(In(r)) /\ Key(r) \in Keys
         /\ turn[r] \in Turns /\ Placed(turn[r], DOMAIN sessions)
<1>1. turn[r] \in Turns /\ Placed(turn[r], DOMAIN sessions)
  BY DEF Base, Typed
<1>2. In(r) \in Inputs
  BY <1>1 DEF Placed, In
<1>3. Input(In(r))
  BY <1>2, PipelineAssumption
<1>4. QED
  BY <1>1, <1>2, <1>3 DEF Key, Input

\* An idle turn is typed and holds nothing.
LEMMA IdleTyped ==
  Idle \in Turns /\ Placed(Idle, DOMAIN sessions') /\ ~Kicks(Idle) /\ ~Chooses(Idle)
<1>1. Len(Dust) \in Nat
  BY PipelineAssumption
<1>2. Idle \in Turns
  BY <1>1 DEF Idle, Turns, PCs, AnyTier
<1>3. QED
  BY <1>2 DEF Idle, Placed, Kicks, Chooses

-----------------------------------------------------------------------------
(* Steps that decide nothing the limits are about *)

\* A request arrives.
LEMMA ArriveQuiet ==
  ASSUME Base, NEW r \in Requests, Arrive(r) PROVE Quietly(r)
<1>1. PICK i \in Inputs :
        turn' = [turn EXCEPT ![r] =
                  [Idle EXCEPT !.in = i, !.forced = i.forced,
                               !.pc = IF i.meta # None THEN "meta"
                                      ELSE IF i.toggle # None THEN "toggle"
                                      ELSE "guards"]]
  BY DEF Arrive
<1> DEFINE t == [Idle EXCEPT !.in = i, !.forced = i.forced,
                             !.pc = IF i.meta # None THEN "meta"
                                    ELSE IF i.toggle # None THEN "toggle"
                                    ELSE "guards"]
<1>2. Input(i)
  BY PipelineAssumption
<1>3. t \in Turns
  BY <1>2, IdleTyped DEF Turns, PCs, Input
<1>4. Placed(t, DOMAIN sessions') /\ ~Kicks(t) /\ ~Chooses(t)
  BY DEF Placed, Kicks, Chooses, Idle
<1>5. turns' \in 0..MaxTurns
  BY PipelineAssumption DEF Arrive, Base, Typed
<1>6. Stays
  BY Untouched DEF Arrive, Base, Typed, SessionsTyped
<1> HIDE DEF t
<1>7. QED
  BY <1>1, <1>3, <1>4, <1>5, <1>6 DEF Quietly, Rescues, history, Becomes, Arrive, t

\* A meta directive is debounced or goes on to be executed.
LEMMA DebounceQuiet ==
  ASSUME NeverFull, Base, NEW r \in Requests, MetaDebounce(r) PROVE Quietly(r)
<1> DEFINE t == IF Debounced(Key(r), In(r).meta) THEN Idle
                ELSE [turn[r] EXCEPT !.pc = "execute"]
<1>1. /\ In(r) \in Inputs /\ Input(In(r)) /\ Key(r) \in Keys
      /\ turn[r] \in Turns /\ Placed(turn[r], DOMAIN sessions)
  BY InputTyped DEF MetaDebounce, At
<1>2. In(r).meta \in Directives
  BY <1>1 DEF MetaDebounce, At, Placed, Input, In
<1>3. Stays
  BY <1>1, <1>2, DebounceStays DEF MetaDebounce, Base, Typed
<1>4. [turn[r] EXCEPT !.pc = "execute"] \in Turns
  BY <1>1 DEF Turns, PCs
<1>5. t \in Turns
  BY <1>4, IdleTyped
<1>6. Placed([turn[r] EXCEPT !.pc = "execute"], DOMAIN sessions')
  BY <1>1 DEF Placed, MetaDebounce, At, Turns
<1>7. Placed(t, DOMAIN sessions')
  BY <1>6, IdleTyped
<1>8. ~Kicks(t) /\ ~Chooses(t)
  BY <1>1, IdleTyped DEF Kicks, Chooses, Turns
<1>9. turn' = [turn EXCEPT ![r] = t]
  BY <1>1 DEF MetaDebounce, Base, Typed
<1> HIDE DEF t
<1>10. QED
  BY <1>3, <1>5, <1>7, <1>8, <1>9 DEF Quietly, Rescues, history, Becomes, MetaDebounce, Base, Typed

\* A directive other than a reset ends the turn.
LEMMA MetaQuiet ==
  ASSUME NeverFull, Base, NEW r \in Requests, MetaExecute(r),
         In(r).meta # "reset"
  PROVE  Quietly(r)
<1>1. In(r) \in Inputs /\ Input(In(r)) /\ Key(r) \in Keys
  BY InputTyped DEF MetaExecute, At
<1>2. CASE In(r).toggle # None
  <2>1. In(r).toggle[1] \in Toggles /\ In(r).toggle[2] \in BOOLEAN
    BY <1>1, <1>2 DEF Input
  <2>2. SetGuard(Key(r), In(r).toggle[1], In(r).toggle[2]) /\ UNCHANGED history
    BY <1>2 DEF MetaExecute
  <2>3. Stays
    BY <1>1, <2>1, <2>2, SetGuardStays DEF MetaExecute, Base, Typed
  <2>4. QED
    BY <2>2, <2>3, IdleTyped DEF Quietly, Rescues, history, Becomes, MetaExecute, Base, Typed
<1>3. CASE In(r).toggle = None
  <2>1. UNCHANGED <<sessions, history>>
    BY <1>3 DEF MetaExecute
  <2>2. Stays
    BY <2>1, Untouched DEF MetaExecute, Base, Typed, SessionsTyped
  <2>3. QED
    BY <2>1, <2>2, IdleTyped DEF Quietly, Rescues, history, Becomes, MetaExecute, Base, Typed
<1>4. QED
  BY <1>2, <1>3

\* A guardrail is switched by a directive in the prompt.
LEMMA ToggleQuiet ==
  ASSUME NeverFull, Base, NEW r \in Requests, ToggleGuardrail(r)
  PROVE  Quietly(r)
<1> DEFINE t == [turn[r] EXCEPT !.pc = "guards"]
<1>1. /\ In(r) \in Inputs /\ Input(In(r)) /\ Key(r) \in Keys
      /\ turn[r] \in Turns /\ Placed(turn[r], DOMAIN sessions)
  BY InputTyped DEF ToggleGuardrail, At
<1>2. In(r).toggle[1] \in Toggles /\ In(r).toggle[2] \in BOOLEAN
  BY <1>1 DEF Input, Placed, ToggleGuardrail, At, In
<1>3. Stays
  BY <1>1, <1>2, SetGuardStays DEF ToggleGuardrail, Base, Typed
<1>4. t \in Turns
  BY <1>1 DEF Turns, PCs
<1>5. Placed(t, DOMAIN sessions') /\ ~Kicks(t) /\ ~Chooses(t)
  BY <1>1 DEF Placed, Kicks, Chooses, ToggleGuardrail, At, Turns
<1>6. turn' = [turn EXCEPT ![r] = t]
  BY <1>1 DEF ToggleGuardrail, Goto, Base, Typed
<1> HIDE DEF t
<1>7. QED
  BY <1>3, <1>4, <1>5, <1>6 DEF Quietly, Rescues, history, Becomes, ToggleGuardrail, Base, Typed

\* The guardrails are read.
LEMMA GuardrailsQuiet ==
  ASSUME Base, NEW r \in Requests, ReadGuardrails(r) PROVE Quietly(r)
<1> DEFINE g == GetGuardrails(Key(r))
           off == "kickstart" \in g
           t == [turn[r] EXCEPT !.pc = "record", !.guards = g, !.noKick = off]
<1>1. turn[r] \in Turns /\ Placed(turn[r], DOMAIN sessions) /\ Key(r) \in Keys
  BY InputTyped DEF ReadGuardrails, At
<1>2. g \in SUBSET Toggles
  BY DEF GetGuardrails, Known, Base, Typed, SessionsTyped, SessionState
<1>3. Stays
  BY Untouched DEF ReadGuardrails, Base, Typed, SessionsTyped
<1>4. turn' = [turn EXCEPT ![r] = t]
  BY <1>1 DEF ReadGuardrails, Base, Typed
<1>5. off \in BOOLEAN
  OBVIOUS
<1> HIDE DEF g, off
<1>6. t \in Turns
  BY <1>1, <1>2, <1>5 DEF Turns, PCs
<1>7. Placed(t, DOMAIN sessions') /\ ~Kicks(t) /\ ~Chooses(t)
  BY <1>1, <1>5 DEF Placed, Kicks, Chooses, ReadGuardrails, At, Turns
<1> HIDE DEF t
<1>8. QED
  BY <1>3, <1>4, <1>6, <1>7 DEF Quietly, Rescues, history, Becomes, ReadGuardrails, Base, Typed

\* The models that cool down are read, and the retries raised.
LEMMA CooldownsQuiet ==
  ASSUME Base, NEW r \in Requests, ReadCooldowns(r) PROVE Quietly(r)
<1> DEFINE c == CoolingDownModels(Key(r))
           n == IF In(r).errors > turn[r].retries THEN In(r).errors
                ELSE turn[r].retries
           t == [turn[r] EXCEPT !.pc = IF SlapActive(r) THEN "slap" ELSE "dust",
                                !.cooling = c, !.retries = n]
<1>1. /\ In(r) \in Inputs /\ Input(In(r)) /\ Key(r) \in Keys
      /\ turn[r] \in Turns /\ Placed(turn[r], DOMAIN sessions)
  BY InputTyped DEF ReadCooldowns, At
<1>2. c \in SUBSET Models
  BY DEF CoolingDownModels
<1>3. n \in Nat /\ n >= turn[r].owed
  BY <1>1 DEF Input, Turns, Placed
<1>4. Stays
  BY Untouched DEF ReadCooldowns, Base, Typed, SessionsTyped
<1>5. turn' = [turn EXCEPT ![r] = t]
  BY <1>1 DEF ReadCooldowns, Base, Typed
<1> HIDE DEF c, n
<1>6. t \in Turns
  BY <1>1, <1>2, <1>3 DEF Turns, PCs
<1>7. UNCHANGED sessions
  BY DEF ReadCooldowns
<1>8. Placed(t, DOMAIN sessions') /\ ~Kicks(t) /\ ~Chooses(t)
  BY <1>1, <1>3, <1>7 DEF Placed, Kicks, Chooses, ReadCooldowns, At, Turns
<1> HIDE DEF t
<1>9. QED
  BY <1>4, <1>5, <1>6, <1>8 DEF Quietly, Rescues, history, Becomes, ReadCooldowns, Base, Typed

\* The guardrails are read again, before the checkpoints.
LEMMA DustGuardrailQuiet ==
  ASSUME Base, NEW r \in Requests, DustGuardrail(r) PROVE Quietly(r)
<1> DEFINE t == [turn[r] EXCEPT
                   !.pc = IF Len(Dust) = 0 \/ "fairydust" \in GetGuardrails(Key(r))
                          THEN "select" ELSE "writes"]
<1>1. turn[r] \in Turns /\ Placed(turn[r], DOMAIN sessions) /\ Key(r) \in Keys
  BY InputTyped DEF DustGuardrail, At
<1>2. Stays
  BY Untouched DEF DustGuardrail, Base, Typed, SessionsTyped
<1>3. turn' = [turn EXCEPT ![r] = t]
  BY <1>1 DEF DustGuardrail, Goto, Base, Typed
<1>4. t \in Turns
  BY <1>1 DEF Turns, PCs
<1>5. UNCHANGED sessions /\ turn[r].pc = "dust"
  BY DEF DustGuardrail, At
<1>6. /\ t.pc \in {"select", "writes"} /\ t.in = turn[r].in
      /\ t.pc = "writes" => Len(Dust) # 0
      /\ t.kicked = turn[r].kicked /\ t.winner = turn[r].winner
      /\ t.retries = turn[r].retries /\ t.owed = turn[r].owed
  BY <1>1 DEF Turns
<1> HIDE DEF t
<1>7. Placed(t, DOMAIN sessions')
  BY <1>1, <1>5, <1>6 DEF Placed
<1>8. (Kicks(t) => Kicks(turn[r])) /\ ~Chooses(t)
  BY <1>1, <1>5, <1>6 DEF Kicks, Chooses, Placed
<1>9. QED
  BY <1>2, <1>3, <1>4, <1>6, <1>7, <1>8
     DEF Quietly, Rescues, history, Becomes, DustGuardrail, Base, Typed

\* The write count is raised.
LEMMA WritesQuiet ==
  ASSUME Base, NEW r \in Requests, RecordWrites(r) PROVE Quietly(r)
<1> DEFINE pc == IF /\ "write" \in In(r).saw
                    /\ WriteCount(Key(r), Wrote(In(r))) > 0 THEN "entries"
                 ELSE "select"
           t == [turn[r] EXCEPT !.entry = 1, !.pc = pc]
<1>1. /\ turn[r] \in Turns /\ Placed(turn[r], DOMAIN sessions) /\ Key(r) \in Keys
      /\ Input(In(r))
  BY InputTyped DEF RecordWrites, At
<1>2. Wrote(In(r)) \in BOOLEAN
  BY DEF Wrote
<1>3. Stays
  BY <1>1, <1>2, KnownStays DEF RecordWrites, Base, Typed
<1>4. turn' = [turn EXCEPT ![r].entry = 1, ![r].pc = pc]
  BY DEF RecordWrites
<1>5. pc \in {"entries", "select"}
  OBVIOUS
<1> HIDE DEF pc
<1>6. turn' = [turn EXCEPT ![r] = t]
  BY <1>1, <1>4 DEF Base, Typed
<1>7. t \in Turns
  BY <1>1, <1>5 DEF Turns, PCs
<1>8. /\ t.pc \in {"entries", "select"} /\ t.in = turn[r].in /\ t.entry = 1
      /\ t.kicked = turn[r].kicked /\ t.winner = turn[r].winner
      /\ t.retries = turn[r].retries /\ t.owed = turn[r].owed
  BY <1>1, <1>5 DEF Turns
<1> HIDE DEF t
<1>9. turn[r].pc = "writes"
  BY DEF RecordWrites, At
<1>10. 1 \in 1..Len(Dust)
  BY <1>1, <1>9, PipelineAssumption DEF Placed
<1>11. Placed(t, DOMAIN sessions')
  BY <1>1, <1>3, <1>8, <1>9, <1>10 DEF Placed, Stays
<1>12. (Kicks(t) => Kicks(turn[r])) /\ ~Chooses(t)
  BY <1>1, <1>8, <1>9 DEF Kicks, Chooses, Placed
<1>13. QED
  BY <1>3, <1>6, <1>7, <1>8, <1>11, <1>12
     DEF Quietly, Rescues, history, Becomes, RecordWrites, Base, Typed

\* A forced turn goes on or is answered.
LEMMA ForcedQuiet ==
  ASSUME Base, NEW r \in Requests, ForcedProvider(r) PROVE Quietly(r)
<1>1. turn[r] \in Turns /\ Placed(turn[r], DOMAIN sessions)
  BY InputTyped DEF ForcedProvider, At
<1>2. Stays
  BY Untouched DEF ForcedProvider, Base, Typed, SessionsTyped
<1>3. CASE turn' = [turn EXCEPT ![r] = Idle]
  BY <1>2, <1>3, IdleTyped DEF Quietly, Rescues, history, Becomes, ForcedProvider, Base, Typed
<1>4. CASE Goto(r, "inject")
  <2> DEFINE t == [turn[r] EXCEPT !.pc = "inject"]
  <2>1. turn' = [turn EXCEPT ![r] = t]
    BY <1>1, <1>4 DEF Goto, Base, Typed
  <2>2. t \in Turns
    BY <1>1 DEF Turns, PCs
  <2>3. /\ t.pc = "inject" /\ t.in = turn[r].in
        /\ t.kicked = turn[r].kicked /\ t.winner = turn[r].winner
        /\ t.retries = turn[r].retries /\ t.owed = turn[r].owed
    BY <1>1 DEF Turns
  <2> HIDE DEF t
  <2>4. UNCHANGED sessions /\ turn[r].pc = "forced"
    BY DEF ForcedProvider, At
  <2>5. Placed(t, DOMAIN sessions')
    BY <1>1, <2>3, <2>4 DEF Placed
  <2>6. (Kicks(t) => Kicks(turn[r])) /\ ~Chooses(t)
    BY <2>3, <2>4 DEF Kicks, Chooses
  <2>7. QED
    BY <1>2, <2>1, <2>2, <2>3, <2>5, <2>6
       DEF Quietly, Rescues, history, Becomes, ForcedProvider, Base, Typed
<1>5. QED
  BY <1>3, <1>4 DEF ForcedProvider

\* A dispatched turn decides nothing: whether it ends or falls back, it keeps
\* its place.
LEMMA EndOrFallBackPlaced ==
  ASSUME Base, NEW r \in Requests, turn[r].pc = "upstream", EndOrFallBack(r),
         DOMAIN sessions \subseteq DOMAIN sessions'
  PROVE  /\ \E t \in Turns : Becomes(r, t) /\ ~Kicks(t) /\ ~Chooses(t)
         /\ Rescues
<1>1. turn[r] \in Turns /\ Placed(turn[r], DOMAIN sessions)
  BY InputTyped
<1>2. Rescues
  BY InputTyped DEF EndOrFallBack, Rescues
<1>3. CASE turn' = [turn EXCEPT ![r] = Idle]
  BY <1>2, <1>3, IdleTyped DEF Becomes
<1>4. CASE turn' = [turn EXCEPT ![r].tier = DefaultTier,
                                ![r].model = ModelOf[DefaultTier]]
  <2> DEFINE t == [turn[r] EXCEPT !.tier = DefaultTier,
                                  !.model = ModelOf[DefaultTier]]
  <2>1. turn' = [turn EXCEPT ![r] = t]
    BY <1>1, <1>4 DEF Base, Typed
  <2>2. DefaultTier \in AnyTier /\ ModelOf[DefaultTier] \in Models
    BY PipelineAssumption DEF AnyTier, TierNames
  <2>3. t \in Turns
    BY <1>1, <2>2 DEF Turns
  <2>4. /\ t.pc = "upstream" /\ t.in = turn[r].in
        /\ t.retries = turn[r].retries /\ t.owed = turn[r].owed
    BY <1>1 DEF Turns
  <2> HIDE DEF t
  <2>5. Placed(t, DOMAIN sessions')
    BY <1>1, <2>4 DEF Placed
  <2>6. ~Kicks(t) /\ ~Chooses(t)
    BY <2>4 DEF Kicks, Chooses
  <2>7. QED
    BY <1>2, <2>1, <2>3, <2>5, <2>6 DEF Becomes
<1>5. QED
  BY <1>3, <1>4 DEF EndOrFallBack

\* An answer ends the turn or moves it to the default tier.
LEMMA AnsweredQuiet ==
  ASSUME Base, NEW r \in Requests, Answered(r) PROVE Quietly(r)
<1>1. Stays
  BY Untouched DEF Answered, Base, Typed, SessionsTyped
<1>2. (\E t \in Turns : Becomes(r, t) /\ ~Kicks(t) /\ ~Chooses(t)) /\ Rescues
  BY <1>1, EndOrFallBackPlaced DEF Answered, At, Stays
<1>3. UNCHANGED <<slapped, owed, dusted, carried>> /\ turns' \in 0..MaxTurns
  BY DEF Answered, Base, Typed
<1>4. QED
  BY <1>1, <1>2, <1>3 DEF Quietly

\* A thought slap changes nothing else.
LEMMA ThoughtSlapQuiet ==
  ASSUME Base, NEW r \in Requests, ThoughtSlap(r) PROVE Quietly(r)
<1>1. turn[r] \in Turns /\ Placed(turn[r], DOMAIN sessions) /\ Key(r) \in Keys
  BY InputTyped DEF ThoughtSlap, At
<1>2. Stays
  BY <1>1, KnownStays DEF ThoughtSlap, Base, Typed
<1>3. turn' = [turn EXCEPT ![r] = turn[r]]
  BY DEF ThoughtSlap, Base, Typed
<1>4. Placed(turn[r], DOMAIN sessions')
  BY <1>1, <1>2 DEF Placed, Stays
<1>5. QED
  BY <1>1, <1>2, <1>3, <1>4 DEF Quietly, Rescues, history, Becomes, ThoughtSlap, Base, Typed

-----------------------------------------------------------------------------
(* Steps that the limits are about *)

\* @nacho:reset ends the turn, and nothing is counted of its session any more.
LEMMA ResetDoes ==
  ASSUME Base, NEW r \in Requests, MetaExecute(r), In(r).meta = "reset"
  PROVE  /\ Key(r) \in Keys /\ Becomes(r, Idle) /\ Sets(Key(r), Nil)
         /\ UNCHANGED turns
         /\ frontier' = [frontier EXCEPT ![Key(r)] = 0]
         /\ rescued' = [rescued EXCEPT ![Key(r)] = 0]
         /\ slapped' = [slapped EXCEPT ![Key(r)] = 0]
         /\ owed' = [owed EXCEPT ![Key(r)] = 0]
         /\ ForgetDust(Key(r))
<1>1. Key(r) \in Keys
  BY InputTyped DEF MetaExecute, At
<1>2. /\ ResetSession(Key(r))
      /\ frontier' = [frontier EXCEPT ![Key(r)] = 0]
      /\ rescued' = [rescued EXCEPT ![Key(r)] = 0]
      /\ slapped' = [slapped EXCEPT ![Key(r)] = 0]
      /\ owed' = [owed EXCEPT ![Key(r)] = 0]
      /\ ForgetDust(Key(r))
  BY DEF MetaExecute
<1>3. Sets(Key(r), Nil)
  BY <1>1, <1>2, ResetSessionSets DEF MetaExecute, Base, Typed
<1>4. Becomes(r, Idle)
  BY IdleTyped DEF Becomes, MetaExecute
<1>5. QED
  BY <1>1, <1>2, <1>3, <1>4 DEF MetaExecute

\* A recorded turn is one the tracker can be told of.
LEMMA TurnOfTyped ==
  ASSUME NEW i, Input(i) PROVE Turn(TurnOf(i))
<1>1. i.root \in Nat /\ i.prompt \in Nat /\ i.messages \in Nat
      /\ i.client \in {"agent", "chat"}
  BY DEF Input
<1> DEFINE progress == TurnProgress(i)
           hold == "repair" \in i.saw /\ ~progress
<1>2. progress \in BOOLEAN /\ hold \in BOOLEAN
  BY DEF TurnProgress
<1> HIDE DEF progress, hold
<1>3. TurnOf(i) = [root |-> IF i.root = 0 THEN i.prompt ELSE i.root,
                   prompt |-> i.prompt, messages |-> i.messages,
                   client |-> i.client, progress |-> progress, hold |-> hold]
  BY DEF TurnOf, progress, hold
<1>4. QED
  BY <1>1, <1>2, <1>3 DEF Turn

\* A turn is recorded: its session is known from then on, and it reports what
\* the session's floor demands.
LEMMA RecordDoes ==
  ASSUME NeverFull, Base, NEW r \in Requests, RecordTurn(r),
         \A k \in Keys : owed[k] <= Counts[k].floor
  PROVE  /\ Key(r) \in Keys
         /\ \E t \in Turns : Becomes(r, t) /\ ~Kicks(t) /\ ~Chooses(t)
         /\ Sets(Key(r), Recorded(Key(r), TurnOf(In(r))))
         /\ UNCHANGED turns
<1> DEFINE k == Key(r)
           u == TurnOf(In(r))
           retries == TurnRetries(k, u)
           debt == IF Known(k) /\ ~Expired(k) THEN owed[k] ELSE 0
           t == [turn[r] EXCEPT !.pc = "cooling", !.retries = retries,
                                !.owed = debt]
<1>1. /\ turn[r] \in Turns /\ Placed(turn[r], DOMAIN sessions) /\ k \in Keys
      /\ Input(In(r)) /\ turn[r].pc = "record"
  BY InputTyped DEF RecordTurn, At
<1>2. Turn(u)
  BY <1>1, TurnOfTyped
<1>3. Sets(k, Recorded(k, u)) /\ k \in DOMAIN sessions'
  BY <1>1, <1>2, RecordTurnSets DEF RecordTurn, Base, Typed
<1>4. retries \in Nat /\ debt \in Nat /\ retries >= debt
  <2>1. owed[k] \in Nat
    BY <1>1 DEF Base, Typed
  <2>2. CASE ~Known(k) \/ Expired(k)
    BY <2>2 DEF TurnRetries
  <2>3. CASE Known(k) /\ ~Expired(k)
    <3>1. sessions[k] \in SessionState
      BY <2>3 DEF Base, Typed, Known, SessionsTyped
    <3>2. CountedRetries(sessions[k], u) \in Nat /\ sessions[k].floor \in Nat
      BY <3>1 DEF CountedRetries, SessionState
    <3>3. owed[k] <= sessions[k].floor
      BY <1>1, <2>3 DEF Counts, Tally
    <3>4. QED
      BY <2>1, <2>3, <3>2, <3>3 DEF TurnRetries
  <2>4. QED
    BY <2>2, <2>3
<1>5. turn' = [turn EXCEPT ![r].pc = "cooling", ![r].retries = retries,
                           ![r].owed = debt]
  BY DEF RecordTurn
<1> HIDE DEF retries, debt
<1>6. turn' = [turn EXCEPT ![r] = t]
  BY <1>1, <1>5 DEF Base, Typed
<1>7. t \in Turns
  BY <1>1, <1>4 DEF Turns, PCs
<1>8. /\ t.pc = "cooling" /\ t.in = turn[r].in /\ t.kicked = turn[r].kicked
      /\ t.winner = turn[r].winner /\ t.retries = retries /\ t.owed = debt
  BY <1>1 DEF Turns
<1>9. t.in.key \in DOMAIN sessions'
  BY <1>3, <1>8 DEF Key, In
<1> HIDE DEF t
<1>10. Placed(t, DOMAIN sessions')
  BY <1>1, <1>4, <1>8, <1>9 DEF Placed
<1>11. ~Kicks(t) /\ ~Chooses(t)
  BY <1>8 DEF Kicks, Chooses
<1>12. QED
  BY <1>1, <1>3, <1>6, <1>7, <1>10, <1>11 DEF Becomes, RecordTurn

\* The read slap: a turn that will inject one found fewer failures than allowed.
LEMMA SlapDoes ==
  ASSUME Base, NEW r \in Requests, ReadSlap(r)
  PROVE  LET k == Key(r)
             progress == KickstartProgress(In(r))
         IN  /\ k \in Keys /\ progress \in BOOLEAN
             /\ Sets(k, [Counts[k] EXCEPT !.fails = IF progress THEN 0 ELSE @])
             /\ \E t \in Turns :
                  /\ Becomes(r, t) /\ ~Chooses(t)
                  /\ Kicks(t) => /\ t.in = turn[r].in
                                 /\ ~progress /\ Counts[k].fails < MaxFailures
             /\ UNCHANGED turns
<1> DEFINE k == Key(r)
           progress == KickstartProgress(In(r))
           kicked == Kickstarted(k, progress, Threshold, MaxFailures)
           forced == IF /\ kicked /\ turn[r].forced # "model"
                        /\ KickstartCount(k, progress, MaxFailures) >= MaxSlaps
                     THEN DefaultTier ELSE turn[r].forced
           t == [turn[r] EXCEPT !.pc = "dust", !.kicked = kicked,
                                !.forced = forced]
<1>1. /\ turn[r] \in Turns /\ Placed(turn[r], DOMAIN sessions) /\ k \in Keys
      /\ turn[r].pc = "slap"
  BY InputTyped DEF ReadSlap, At
<1>2. Known(k)
  BY <1>1 DEF Placed, Known, Key, In
<1>3. progress \in BOOLEAN /\ kicked \in BOOLEAN
  <2>1. progress \in BOOLEAN
    <3>1. CASE WriteOnly = "on"
      BY <3>1 DEF KickstartProgress
    <3>2. CASE WriteOnly # "on"
      BY <3>2 DEF KickstartProgress
    <3>3. QED
      BY <3>1, <3>2
  <2>2. kicked \in BOOLEAN
    BY DEF Kickstarted
  <2>3. QED
    BY <2>1, <2>2
<1>4. RecordKickstartState(k, progress, MaxFailures)
  BY DEF ReadSlap
<1>5. kicked => ~progress /\ Counts[k].fails < MaxFailures
  BY <1>1, <1>2 DEF Kickstarted, Counts, Tally
<1>6. turn' = [turn EXCEPT ![r].pc = "dust", ![r].kicked = kicked,
                           ![r].forced = forced]
  BY DEF ReadSlap
<1>7. forced \in TierNames \cup {None, "model"}
  BY <1>1 DEF Turns, TierNames
<1> HIDE DEF forced, kicked, progress
<1>8. Sets(k, [Counts[k] EXCEPT !.fails = IF progress THEN 0 ELSE @])
  BY <1>1, <1>2, <1>3, <1>4, KickstartSets DEF ReadSlap, Base, Typed
<1>9. turn' = [turn EXCEPT ![r] = t]
  BY <1>1, <1>6 DEF Base, Typed
<1>10. t \in Turns
  BY <1>1, <1>3, <1>7 DEF Turns, PCs
<1>11. /\ t.pc = "dust" /\ t.in = turn[r].in /\ t.kicked = kicked
       /\ t.winner = turn[r].winner /\ t.retries = turn[r].retries
       /\ t.owed = turn[r].owed
  BY <1>1 DEF Turns
<1> HIDE DEF t
<1>12. DOMAIN sessions \subseteq DOMAIN sessions'
  BY <1>8 DEF Sets
<1>13. Placed(t, DOMAIN sessions')
  BY <1>1, <1>11, <1>12 DEF Placed
<1>14. ~Chooses(t) /\ (Kicks(t) => kicked)
  BY <1>11 DEF Chooses, Kicks
<1>15. Becomes(r, t)
  BY <1>9, <1>10, <1>13 DEF Becomes
<1>16. UNCHANGED turns
  BY DEF ReadSlap
<1>17. \E x \in Turns :
         /\ Becomes(r, x) /\ ~Chooses(x)
         /\ Kicks(x) => /\ x.in = turn[r].in
                        /\ ~progress /\ Counts[k].fails < MaxFailures
  BY <1>5, <1>10, <1>11, <1>14, <1>15
<1>18. QED
  BY <1>1, <1>3, <1>8, <1>16, <1>17 DEF progress

\* The configured entries have their types.
LEMMA EntryTyped ==
  ASSUME NEW n \in 1..Len(Dust)
  PROVE  /\ Dust[n].name \in Entries /\ Dust[n].max \in Nat \ {0}
         /\ Dust[n].model \in Models
<1> DEFINE E == [name : Entries, model : Models, frequency : Nat \ {0},
                 max : Nat \ {0}, priority : Nat]
<1>1. Dust \in Seq(E)
  BY PipelineAssumption
<1> HIDE DEF E
<1>2. Dust[n] \in E
  BY <1>1
<1>3. QED
  BY <1>2 DEF E

\* The entry the loop of r is at.
Entry(r) == Dust[turn[r].entry]

\* An entry is checked: it is counted if it is due, and only then may it become
\* the one that r will send.
LEMMA EntryDoes ==
  ASSUME Base, NEW r \in Requests, CheckEntry(r)
  PROVE  /\ Key(r) \in Keys /\ turn[r].pc = "entries"
         /\ turn[r].entry \in 1..Len(Dust)
         /\ \E t \in Turns, wins \in BOOLEAN :
              /\ Becomes(r, t) /\ (Kicks(t) => Kicks(turn[r]))
              /\ t.pc \in {"entries", "select"} /\ t.in = turn[r].in
              /\ t.winner = IF wins THEN turn[r].entry ELSE turn[r].winner
              /\ carried' = IF wins THEN carried \ {r} ELSE carried
              /\ \/ ~wins /\ Stays
                 \/ /\ Counts[Key(r)].dust[Entry(r).name] < Entry(r).max
                    /\ Sets(Key(r), [Counts[Key(r)] EXCEPT
                                       !.dust[Entry(r).name] = @ + 1])
         /\ UNCHANGED turns
<1> DEFINE k == Key(r)
           n == turn[r].entry
           due == DustDue(k, Dust[n].name, Dust[n].frequency, Dust[n].max)
           best == turn[r].winner
           wins == due /\ (best = 0 \/ Dust[n].priority > Dust[best].priority)
           winner == IF wins THEN n ELSE best
           pc == IF n = Len(Dust) THEN "select" ELSE "entries"
           t == [turn[r] EXCEPT !.winner = winner, !.entry = n + 1, !.pc = pc]
<1>1. /\ turn[r] \in Turns /\ Placed(turn[r], DOMAIN sessions) /\ k \in Keys
      /\ turn[r].pc = "entries"
  BY InputTyped DEF CheckEntry, At
<1>2. n \in 1..Len(Dust) /\ Len(Dust) \in Nat
  BY <1>1, PipelineAssumption DEF Placed
<1>3. Dust[n].name \in Entries /\ n + 1 \in Nat
  BY <1>2, EntryTyped
<1>4. turn' = [turn EXCEPT ![r].winner = winner, ![r].entry = n + 1, ![r].pc = pc]
  BY <1>1 DEF CheckEntry, Base, Typed
<1>5. due \in BOOLEAN /\ wins \in BOOLEAN /\ (wins => due)
  BY DEF DustDue
<1>6. carried' = IF wins THEN carried \ {r} ELSE carried
  BY DEF CheckEntry
<1>7. CheckFairyDust(k, Dust[n].name, Dust[n].frequency, Dust[n].max)
  BY DEF CheckEntry
<1>8. due => Sets(k, [Counts[k] EXCEPT !.dust[Dust[n].name] = @ + 1])
  BY <1>1, <1>3, <1>7, DustSets DEF CheckEntry, Base, Typed
<1>9. due => Counts[k].dust[Dust[n].name] < Dust[n].max
  BY <1>1 DEF DustDue, Counts, Tally
<1>10. ~due => Stays
  BY <1>7, Untouched DEF CheckFairyDust, CheckEntry, Base, Typed, SessionsTyped
<1>11. winner \in 0..Len(Dust) /\ pc \in {"entries", "select"}
  BY <1>1, <1>2 DEF Turns
<1>12. pc = "entries" => n + 1 \in 1..Len(Dust)
  BY <1>2
<1>13. DOMAIN sessions \subseteq DOMAIN sessions'
  BY <1>8, <1>10 DEF Sets, Stays
<1> HIDE DEF winner, pc, wins, due
<1>14. turn' = [turn EXCEPT ![r] = t]
  BY <1>1, <1>4 DEF Base, Typed
<1>15. t \in Turns
  BY <1>1, <1>3, <1>11 DEF Turns, PCs
<1>16. /\ t.pc = pc /\ t.in = turn[r].in /\ t.kicked = turn[r].kicked
       /\ t.winner = winner /\ t.entry = n + 1 /\ t.retries = turn[r].retries
       /\ t.owed = turn[r].owed
  BY <1>1 DEF Turns
<1> HIDE DEF t
<1>17. Placed(t, DOMAIN sessions')
  BY <1>1, <1>11, <1>12, <1>13, <1>16 DEF Placed
<1>18. Kicks(t) => Kicks(turn[r])
  BY <1>1, <1>16 DEF Kicks
<1>19. Becomes(r, t)
  BY <1>14, <1>15, <1>17 DEF Becomes
<1>20. \/ ~wins /\ Stays
       \/ /\ Counts[k].dust[Dust[n].name] < Dust[n].max
          /\ Sets(k, [Counts[k] EXCEPT !.dust[Dust[n].name] = @ + 1])
  BY <1>5, <1>8, <1>9, <1>10
<1>21. t.winner = IF wins THEN turn[r].entry ELSE turn[r].winner
  BY <1>16 DEF winner
<1>22. UNCHANGED turns
  BY DEF CheckEntry
<1>23. QED
  BY <1>1, <1>2, <1>5, <1>6, <1>11, <1>15, <1>16, <1>18, <1>19, <1>20, <1>21,
     <1>22 DEF Entry

\* There is a tier to de-escalate to, and the default tier is not named like a
\* checkpoint's.
Economy == /\ \E i \in 1..Len(Tiers) : Tiers[i] # DefaultTier
           /\ DefaultTier # "Fairy Dust"

\* De-escalation finds a configured tier, and one that is not the default if
\* there is any.
LEMMA EconomicalTier ==
  Economical \in TierNames /\ (Economy => Economical # DefaultTier)
<1> DEFINE others == {i \in 1..Len(Tiers) : Tiers[i] # DefaultTier}
<1>1. CASE others = {}
  BY <1>1 DEF Economical, Economy, TierNames
<1>2. CASE others # {}
  <2>1. others \subseteq Nat
    BY PipelineAssumption
  <2>2. \E i \in others : \A j \in others : ~(<<j, i>> \in OpToRel(<, Nat))
    <3> HIDE DEF others
    <3>1. IsWellFoundedOn(OpToRel(<, Nat), Nat)
      BY NatLessThanWellFounded
    <3>2. QED
      BY <1>2, <2>1, <3>1, WFMin
  <2>3. \E i \in others : \A j \in others : i <= j
    <3>1. \A i, j \in Nat : ~(<<j, i>> \in OpToRel(<, Nat)) => i <= j
      BY DEF OpToRel
    <3>2. QED
      BY <2>1, <2>2, <3>1
  <2>4. PICK i \in others : Economical = Tiers[i]
    BY <1>2, <2>3 DEF Economical
  <2>5. QED
    BY <2>4 DEF TierNames
<1>3. QED
  BY <1>1, <1>2

\* What a turn may be routed to is configured.
LEMMA RoutedTyped ==
  ASSUME Base, NEW r \in Requests, turn[r].pc = "select", NEW routed \in Routed(r)
  PROVE  /\ AntiLatch(Key(r), routed).tier \in AnyTier
         /\ AntiLatch(Key(r), routed).model \in Models
<1>1. \A x \in TierNames : ModelOf[x] \in Models
  BY PipelineAssumption
<1>2. routed.tier \in AnyTier /\ routed.model \in Models
  <2>1. CASE turn[r].forced = "model"
    <3>1. Routed(r) = {[tier |-> "Forced Model", model |-> m] : m \in Models}
      BY <2>1, PipelineAssumption DEF Routed
    <3>2. PICK m \in Models : routed = [tier |-> "Forced Model", model |-> m]
      BY <3>1
    <3>3. QED
      BY <3>2 DEF AnyTier
  <2>2. CASE turn[r].forced # "model" /\ turn[r].forced \in TierNames
    <3>1. Routed(r) = {[tier |-> turn[r].forced, model |-> ModelOf[turn[r].forced]]}
      BY <2>2 DEF Routed
    <3>2. routed = [tier |-> turn[r].forced, model |-> ModelOf[turn[r].forced]]
      BY <3>1
    <3>3. QED
      BY <1>1, <2>2, <3>2 DEF AnyTier
  <2>3. CASE turn[r].forced # "model" /\ turn[r].forced \notin TierNames
    <3> DEFINE open == {DefaultTier} \cup
                 {Tiers[i] : i \in {j \in 1..Len(Tiers) :
                                     ModelOf[Tiers[j]] \notin turn[r].cooling}}
    <3>1. open \subseteq TierNames
      BY DEF TierNames
    <3>2. Routed(r) = {[tier |-> x, model |-> ModelOf[x]] : x \in open}
      BY <2>3 DEF Routed
    <3> HIDE DEF open
    <3>3. PICK x \in TierNames : routed = [tier |-> x, model |-> ModelOf[x]]
      BY <3>1, <3>2
    <3>4. QED
      BY <1>1, <3>3 DEF AnyTier
  <2>4. QED
    BY <2>1, <2>2, <2>3
<1>3. Economical \in AnyTier /\ ModelOf[Economical] \in Models
  BY <1>1, EconomicalTier DEF AnyTier
<1>4. QED
  BY <1>2, <1>3 DEF AntiLatch

\* A turn is routed: the escalation is counted or ended, and a turn that is sent
\* to the default tier found budget left.
LEMMA ResolveDoes ==
  ASSUME Base, NEW r \in Requests, ResolveTarget(r)
  PROVE  /\ Key(r) \in Keys /\ turn[r].pc = "select"
         /\ \E t \in Turns : Becomes(r, t) /\ (Kicks(t) => Kicks(turn[r]))
                             /\ t.in = turn[r].in /\ ~Chooses(t)
         /\ \E up \in BOOLEAN, sent \in BOOLEAN :
              /\ Sets(Key(r), [Counts[Key(r)] EXCEPT
                                 !.escalation = IF up THEN @ + 1 ELSE 0])
              /\ frontier' = [frontier EXCEPT ![Key(r)] =
                                IF ~up THEN 0 ELSE IF sent THEN @ + 1 ELSE @]
              /\ rescued' = [rescued EXCEPT ![Key(r)] = IF ~up THEN 0 ELSE @]
              /\ Economy /\ up /\ sent =>
                   Counts[Key(r)].escalation < MaxEscalationTurns
         /\ dusted' = IF turn[r].winner = 0 \/ r \in carried THEN dusted
              ELSE [dusted EXCEPT ![Key(r)][Dust[turn[r].winner].name] = @ + 1]
         /\ carried' = carried \ {r}
         /\ UNCHANGED <<turns, slapped, owed>>
<1> DEFINE k == Key(r)
<1>1. /\ turn[r] \in Turns /\ Placed(turn[r], DOMAIN sessions) /\ k \in Keys
      /\ turn[r].pc = "select"
  BY InputTyped DEF ResolveTarget, At
<1>2. Known(k)
  BY <1>1 DEF Placed, Known, Key, In
<1>3. PICK routed \in Routed(r) :
        LET target == Override(r, AntiLatch(k, routed))
        IN  /\ IF routed.tier = DefaultTier THEN RecordEscalation(k)
                                          ELSE ResetEscalation(k)
            /\ turn' = [turn EXCEPT
                 ![r].tier = target.tier, ![r].model = target.model,
                 ![r].noKick = @ \/ turn[r].winner # 0,
                 ![r].pc = IF turn[r].forced # None THEN "forced" ELSE "inject"]
            /\ frontier' = [frontier EXCEPT ![k] =
                 IF routed.tier # DefaultTier THEN 0
                 ELSE IF target.tier = DefaultTier THEN @ + 1 ELSE @]
            /\ rescued' = [rescued EXCEPT ![k] =
                 IF routed.tier # DefaultTier THEN 0 ELSE @]
  BY DEF ResolveTarget
<1> DEFINE target == Override(r, AntiLatch(k, routed))
           up == routed.tier = DefaultTier
           sent == target.tier = DefaultTier
           noKick == turn[r].noKick \/ turn[r].winner # 0
           pc == IF turn[r].forced # None THEN "forced" ELSE "inject"
           t == [turn[r] EXCEPT !.tier = target.tier, !.model = target.model,
                                !.noKick = noKick, !.pc = pc]
<1>4. target.tier \in AnyTier /\ target.model \in Models
  <2>1. turn[r].winner # 0 => turn[r].winner \in 1..Len(Dust)
    BY <1>1, PipelineAssumption DEF Turns
  <2>2. turn[r].winner # 0 => Dust[turn[r].winner].model \in Models
    BY <2>1, EntryTyped
  <2>3. QED
    BY <1>1, <2>2, RoutedTyped DEF Override, AnyTier
<1>5. Sets(k, [Counts[k] EXCEPT !.escalation = IF up THEN @ + 1 ELSE 0])
  BY <1>1, <1>2, <1>3, EscalationSets, ResetEscalationSets
     DEF ResolveTarget, Base, Typed
<1>6. Economy /\ up /\ sent => Counts[k].escalation < MaxEscalationTurns
  <2>1. SUFFICES ASSUME Economy, up, sent, BudgetExhausted(k) PROVE FALSE
    <3>1. sessions[k].escalation \in Nat /\ MaxEscalationTurns \in Nat
      BY <1>2, TrackerAssumption DEF Base, Typed, Known, SessionsTyped, SessionState
    <3>2. QED
      BY <1>1, <1>2, <2>1, <3>1 DEF BudgetExhausted, Counts, Tally
  <2>2. AntiLatch(k, routed).tier # DefaultTier
    BY <2>1, EconomicalTier DEF AntiLatch
  <2>3. QED
    BY <2>1, <2>2 DEF Override, Economy
<1>7. turn' = [turn EXCEPT ![r].tier = target.tier, ![r].model = target.model,
                           ![r].noKick = noKick, ![r].pc = pc]
  BY <1>1, <1>3 DEF Base, Typed
<1>8. noKick \in BOOLEAN /\ pc \in {"forced", "inject"}
  OBVIOUS
<1>9. /\ frontier' = [frontier EXCEPT ![k] = IF ~up THEN 0
                                             ELSE IF sent THEN @ + 1 ELSE @]
      /\ rescued' = [rescued EXCEPT ![k] = IF ~up THEN 0 ELSE @]
  BY <1>3
<1>10. up \in BOOLEAN /\ sent \in BOOLEAN
  OBVIOUS
<1> HIDE DEF target, noKick, pc, up, sent
<1>11. turn' = [turn EXCEPT ![r] = t]
  BY <1>1, <1>7 DEF Base, Typed
<1>12. t \in Turns
  BY <1>1, <1>4, <1>8 DEF Turns, PCs
<1>13. /\ t.pc \in {"forced", "inject"} /\ t.in = turn[r].in
       /\ t.kicked = turn[r].kicked /\ t.winner = turn[r].winner
       /\ t.retries = turn[r].retries /\ t.owed = turn[r].owed
  BY <1>1, <1>8 DEF Turns
<1> HIDE DEF t
<1>14. DOMAIN sessions \subseteq DOMAIN sessions'
  BY <1>5 DEF Sets
<1>15. Placed(t, DOMAIN sessions')
  BY <1>1, <1>13, <1>14 DEF Placed
<1>16. (Kicks(t) => Kicks(turn[r])) /\ ~Chooses(t)
  BY <1>1, <1>13 DEF Kicks, Chooses
<1>17. Becomes(r, t)
  BY <1>11, <1>12, <1>15 DEF Becomes
<1>18. /\ dusted' = IF turn[r].winner = 0 \/ r \in carried THEN dusted
            ELSE [dusted EXCEPT ![k][Dust[turn[r].winner].name] = @ + 1]
       /\ carried' = carried \ {r}
       /\ UNCHANGED <<turns, slapped, owed>>
  BY DEF ResolveTarget
<1>19. QED
  BY <1>1, <1>5, <1>6, <1>9, <1>10, <1>12, <1>13, <1>16, <1>17, <1>18

\* The prompts are injected: a read slap is counted when it is sent.
LEMMA InjectDoes ==
  ASSUME Base, NEW r \in Requests, InjectPrompts(r)
  PROVE  /\ Key(r) \in Keys
         /\ \E t \in Turns : Becomes(r, t) /\ ~Kicks(t) /\ ~Chooses(t)
         /\ \/ Stays /\ UNCHANGED slapped
            \/ /\ Kicks(turn[r])
               /\ Sets(Key(r), [Counts[Key(r)] EXCEPT !.fails = @ + 1])
               /\ slapped' = [slapped EXCEPT ![Key(r)] = @ + 1]
         /\ UNCHANGED <<turns, frontier, rescued, owed, dusted, carried>>
<1> DEFINE k == Key(r)
           t == [turn[r] EXCEPT !.pc = "upstream"]
<1>1. /\ turn[r] \in Turns /\ Placed(turn[r], DOMAIN sessions) /\ k \in Keys
      /\ turn[r].pc = "inject"
  BY InputTyped DEF InjectPrompts, At
<1>2. Known(k)
  BY <1>1 DEF Placed, Known, Key, In
<1>3. \/ Stays /\ UNCHANGED slapped
      \/ /\ Kicks(turn[r])
         /\ Sets(k, [Counts[k] EXCEPT !.fails = @ + 1])
         /\ slapped' = [slapped EXCEPT ![k] = @ + 1]
  <2>1. CASE turn[r].kicked /\ ~turn[r].noKick
    <3>1. Sets(k, [Counts[k] EXCEPT !.fails = @ + 1])
      BY <1>1, <1>2, <2>1, FailureSets DEF InjectPrompts, Base, Typed
    <3>2. QED
      BY <1>1, <2>1, <3>1 DEF InjectPrompts, Kicks
  <2>2. CASE ~(turn[r].kicked /\ ~turn[r].noKick)
    BY <2>2, Untouched DEF InjectPrompts, Base, Typed, SessionsTyped
  <2>3. QED
    BY <2>1, <2>2
<1>4. turn' = [turn EXCEPT ![r] = t]
  BY <1>1 DEF InjectPrompts, Goto, Base, Typed
<1>5. t \in Turns
  BY <1>1 DEF Turns, PCs
<1>6. /\ t.pc = "upstream" /\ t.in = turn[r].in /\ t.retries = turn[r].retries
      /\ t.owed = turn[r].owed
  BY <1>1 DEF Turns
<1> HIDE DEF t
<1>7. DOMAIN sessions \subseteq DOMAIN sessions'
  BY <1>3 DEF Stays, Sets
<1>8. Placed(t, DOMAIN sessions')
  BY <1>1, <1>6, <1>7 DEF Placed
<1>9. ~Kicks(t) /\ ~Chooses(t)
  BY <1>6 DEF Kicks, Chooses
<1>10. QED
  BY <1>1, <1>3, <1>4, <1>5, <1>8, <1>9 DEF Becomes, InjectPrompts

\* A stream is killed: the session's floor is raised.
LEMMA KillDoes ==
  ASSUME NeverFull, Base, NEW r \in Requests, CycleKill(r)
  PROVE  /\ Key(r) \in Keys
         /\ \E t \in Turns : Becomes(r, t) /\ ~Kicks(t) /\ ~Chooses(t)
         /\ Sets(Key(r), [Counts[Key(r)] EXCEPT
                            !.floor = IF Floor > @ THEN Floor ELSE @])
         /\ owed' = [owed EXCEPT ![Key(r)] = Floor]
         /\ Rescues /\ UNCHANGED <<turns, slapped, dusted, carried>>
<1>1. Key(r) \in Keys /\ turn[r].pc = "upstream"
  BY InputTyped DEF CycleKill, At
<1>2. Sets(Key(r), [Counts[Key(r)] EXCEPT
                      !.floor = IF Floor > @ THEN Floor ELSE @])
  BY <1>1, CycleKillSets DEF CycleKill, Base, Typed
<1>3. DOMAIN sessions \subseteq DOMAIN sessions'
  BY <1>2 DEF Sets
<1>4. (\E t \in Turns : Becomes(r, t) /\ ~Kicks(t) /\ ~Chooses(t)) /\ Rescues
  BY <1>1, <1>3, EndOrFallBackPlaced DEF CycleKill
<1>5. QED
  BY <1>1, <1>2, <1>4 DEF CycleKill

-----------------------------------------------------------------------------
(* Types and places are kept, and no turn reports less than it owes *)

\* What the floor of a session says of the retries it owes.
FloorKept == \A k \in Keys : owed[k] <= Counts[k].floor

\* A turn that becomes another one keeps the base.
LEMMA BecomesBase ==
  ASSUME Base, NEW r \in Requests, NEW t \in Turns, Becomes(r, t),
         SessionsTyped', DOMAIN sessions \subseteq DOMAIN sessions'
  PROVE  /\ turn' \in [Requests -> Turns]
         /\ \A x \in Requests : Placed(turn'[x], DOMAIN sessions')
<1>1. turn' = [turn EXCEPT ![r] = t]
  BY DEF Becomes
<1>2. turn' \in [Requests -> Turns]
  BY <1>1 DEF Base, Typed
<1>3. turn'[r] = t /\ \A x \in Requests \ {r} : turn'[x] = turn[x]
  BY <1>1 DEF Base, Typed
<1>4. \A x \in Requests \ {r} : Placed(turn'[x], DOMAIN sessions')
  BY <1>3 DEF Base, Placed
<1>5. Placed(turn'[r], DOMAIN sessions')
  BY <1>3 DEF Becomes
<1>6. QED
  BY <1>2, <1>4, <1>5

\* The steps of the pipeline that decide nothing.
QuietStep(r) ==
  \/ Arrive(r) \/ MetaDebounce(r) \/ (MetaExecute(r) /\ In(r).meta # "reset")
  \/ ToggleGuardrail(r) \/ ReadGuardrails(r) \/ ReadCooldowns(r)
  \/ DustGuardrail(r) \/ RecordWrites(r) \/ ForcedProvider(r)
  \/ ThoughtSlap(r) \/ Answered(r)

\* Each of them decides nothing indeed.
LEMMA QuietSteps ==
  ASSUME NeverFull, Base, NEW r \in Requests, QuietStep(r) PROVE Quietly(r)
BY ArriveQuiet, DebounceQuiet, MetaQuiet, ToggleQuiet, GuardrailsQuiet,
   CooldownsQuiet, DustGuardrailQuiet, WritesQuiet, ForcedQuiet,
   ThoughtSlapQuiet, AnsweredQuiet DEF QuietStep

\* What a step may be.
LEMMA StepKinds ==
  ASSUME NEW r \in Requests, Step(r)
  PROVE  \/ QuietStep(r) \/ (MetaExecute(r) /\ In(r).meta = "reset")
         \/ RecordTurn(r) \/ ReadSlap(r) \/ CheckEntry(r)
         \/ ResolveTarget(r) \/ InjectPrompts(r) \/ CycleKill(r)
BY DEF Step, QuietStep

\* The base is kept by a step of a request that changes its turn and the tally
\* of its session, whatever it does to the history.
LEMMA BaseKept ==
  ASSUME Base, NEW r \in Requests, \E t \in Turns : Becomes(r, t),
         Stays \/ \E k \in Keys, t \in Tallies : Sets(k, t),
         turns' \in 0..MaxTurns,
         frontier' \in [Keys -> Nat], rescued' \in [Keys -> Nat],
         slapped' \in [Keys -> Nat],
         owed' \in [Keys -> Nat], dusted' \in [Keys -> [Entries -> Nat]]
  PROVE  Base'
<1>1. SessionsTyped' /\ DOMAIN sessions \subseteq DOMAIN sessions'
  BY DEF Stays, Sets
<1>2. /\ turn' \in [Requests -> Turns]
      /\ \A x \in Requests : Placed(turn'[x], DOMAIN sessions')
  BY <1>1, BecomesBase
<1>3. QED
  BY <1>1, <1>2 DEF Base, Typed

\* A turn that falls back keeps the types of what is counted of it.
LEMMA RescuesTyped ==
  ASSUME frontier \in [Keys -> Nat], rescued \in [Keys -> Nat], Rescues
  PROVE  frontier' \in [Keys -> Nat] /\ rescued' \in [Keys -> Nat]
<1>1. CASE UNCHANGED <<frontier, rescued>>
  BY <1>1
<1>2. CASE \E k \in Keys : /\ frontier' = [frontier EXCEPT ![k] = @ + 1]
                           /\ rescued' = [rescued EXCEPT ![k] = @ + 1]
  BY <1>2
<1>3. QED
  BY <1>1, <1>2 DEF Rescues

\* A tally that is not changed, or changed so, keeps its types.
LEMMA TalliesTyped ==
  ASSUME NEW c \in Tallies
  PROVE  /\ Nil \in Tallies
         /\ [c EXCEPT !.escalation = @ + 1] \in Tallies
         /\ [c EXCEPT !.escalation = 0] \in Tallies
         /\ [c EXCEPT !.fails = 0] \in Tallies
         /\ [c EXCEPT !.fails = @ + 1] \in Tallies
         /\ [c EXCEPT !.floor = IF Floor > @ THEN Floor ELSE @] \in Tallies
         /\ \A e \in Entries : [c EXCEPT !.dust[e] = @ + 1] \in Tallies
<1>1. Nil \in Tallies
  BY DEF Nil, Tallies
<1>2. /\ [c EXCEPT !.escalation = @ + 1] \in Tallies
      /\ [c EXCEPT !.escalation = 0] \in Tallies
  BY DEF Tallies
<1>3. [c EXCEPT !.fails = 0] \in Tallies /\ [c EXCEPT !.fails = @ + 1] \in Tallies
  BY DEF Tallies
<1>4. [c EXCEPT !.floor = IF Floor > @ THEN Floor ELSE @] \in Tallies
  BY PipelineAssumption DEF Tallies
<1>5. \A e \in Entries : [c EXCEPT !.dust[e] = @ + 1] \in Tallies
  BY DEF Tallies
<1>6. QED
  BY <1>1, <1>2, <1>3, <1>4, <1>5

\* The tally of a recorded session.
LEMMA RecordedTyped ==
  ASSUME SessionsTyped, NEW k \in Keys, NEW t
  PROVE  /\ Recorded(k, t) \in Tallies
         /\ Recorded(k, t).escalation \in {0, Counts[k].escalation}
         /\ ~StartsAfresh(k, t) =>
              Recorded(k, t).escalation = Counts[k].escalation
         /\ Recorded(k, t).fails = IF Known(k) /\ ~Expired(k) THEN Counts[k].fails
                                   ELSE 0
         /\ Recorded(k, t).dust = IF Known(k) /\ ~Expired(k) THEN Counts[k].dust
                                  ELSE [e \in Entries |-> 0]
<1>1. Counts[k] \in Tallies
  BY CountsTyped
<1>2. CASE Known(k) /\ ~Expired(k)
  BY <1>1, <1>2 DEF Recorded, Tallies, StartsAfresh
<1>3. CASE ~(Known(k) /\ ~Expired(k))
  BY <1>1, <1>3 DEF Recorded, Tallies, StartsAfresh, Nil
<1>4. QED
  BY <1>2, <1>3

\* Base and floor are inductive.
LEMMA BaseStep ==
  ASSUME NeverFull, Base, FloorKept, NEW r \in Requests, Step(r)
  PROVE  Base' /\ FloorKept'
<1>1. /\ frontier \in [Keys -> Nat] /\ rescued \in [Keys -> Nat]
      /\ slapped \in [Keys -> Nat] /\ owed \in [Keys -> Nat]
      /\ dusted \in [Keys -> [Entries -> Nat]] /\ turns \in 0..MaxTurns
  BY DEF Base, Typed
<1>2. Counts \in [Keys -> Tallies]
  BY CountsTyped DEF Base, Typed
<1>3. CASE QuietStep(r)
  <2>1. Quietly(r)
    BY <1>3, QuietSteps
  <2>2. /\ (\E t \in Turns : Becomes(r, t)) /\ Stays /\ Rescues
        /\ turns' \in 0..MaxTurns
        /\ UNCHANGED <<slapped, owed, dusted, carried>>
    BY <2>1 DEF Quietly
  <2>3. Base'
    BY <1>1, <2>2, RescuesTyped, BaseKept
  <2>4. FloorKept'
    BY <2>2 DEF FloorKept, Stays
  <2>5. QED
    BY <2>3, <2>4
<1>4. CASE MetaExecute(r) /\ In(r).meta = "reset"
  <2> DEFINE k == Key(r)
  <2>1. /\ k \in Keys /\ Becomes(r, Idle) /\ Sets(k, Nil) /\ UNCHANGED turns
        /\ frontier' = [frontier EXCEPT ![k] = 0]
        /\ rescued' = [rescued EXCEPT ![k] = 0]
        /\ slapped' = [slapped EXCEPT ![k] = 0]
        /\ owed' = [owed EXCEPT ![k] = 0]
        /\ dusted' = [dusted EXCEPT ![k] = [e \in Entries |-> 0]]
    BY <1>4, ResetDoes DEF ForgetDust
  <2>2. Nil \in Tallies /\ Nil.floor = 0
    BY DEF Nil, Tallies
  <2>3. Base'
    BY <1>1, <2>1, <2>2, IdleTyped, BaseKept
  <2>4. FloorKept'
    BY <1>1, <1>2, <2>1, <2>2 DEF FloorKept, Sets
  <2>5. QED
    BY <2>3, <2>4
<1>5. CASE RecordTurn(r)
  <2> DEFINE k == Key(r)
             c == Recorded(k, TurnOf(In(r)))
  <2>1. /\ k \in Keys /\ (\E t \in Turns : Becomes(r, t)) /\ Sets(k, c)
        /\ UNCHANGED turns
    BY <1>5, RecordDoes DEF FloorKept
  <2>2. c \in Tallies
    BY <2>1, RecordedTyped DEF Base, Typed
  <2>3. c.floor \in Nat
    BY <2>2 DEF Tallies
  <2> HIDE DEF c
  <2>4. owed' = [owed EXCEPT ![k] = 0]
    BY <1>5 DEF RecordTurn
  <2>5. frontier' \in [Keys -> Nat] /\ rescued' \in [Keys -> Nat]
    <3>1. IF StartsAfresh(k, TurnOf(In(r)))
          THEN /\ frontier' = [frontier EXCEPT ![k] = 0]
               /\ rescued' = [rescued EXCEPT ![k] = 0]
          ELSE UNCHANGED <<frontier, rescued>>
      BY <1>5 DEF RecordTurn
    <3>2. CASE StartsAfresh(k, TurnOf(In(r)))
      <4>1. /\ frontier' = [frontier EXCEPT ![k] = 0]
            /\ rescued' = [rescued EXCEPT ![k] = 0]
        BY <3>1, <3>2
      <4>2. QED
        BY <1>1, <4>1
    <3>3. CASE ~StartsAfresh(k, TurnOf(In(r)))
      <4>1. UNCHANGED <<frontier, rescued>>
        BY <3>1, <3>3
      <4>2. QED
        BY <1>1, <4>1
    <3>4. QED
      BY <3>2, <3>3
  <2>6. slapped' \in [Keys -> Nat] /\ dusted' \in [Keys -> [Entries -> Nat]]
    <3>1. IF Known(k) /\ ~Expired(k) THEN UNCHANGED <<slapped, dusted, carried>>
          ELSE slapped' = [slapped EXCEPT ![k] = 0] /\ ForgetDust(k)
      BY <1>5 DEF RecordTurn
    <3>2. CASE Known(k) /\ ~Expired(k)
      BY <1>1, <3>1, <3>2
    <3>3. CASE ~(Known(k) /\ ~Expired(k))
      <4>1. /\ slapped' = [slapped EXCEPT ![k] = 0]
            /\ dusted' = [dusted EXCEPT ![k] = [e \in Entries |-> 0]]
        BY <3>1, <3>3 DEF ForgetDust
      <4>2. QED
        BY <1>1, <4>1
    <3>4. QED
      BY <3>2, <3>3
  <2>7. Base'
    BY <1>1, <2>1, <2>2, <2>4, <2>5, <2>6, BaseKept
  <2>8. FloorKept'
    BY <1>1, <1>2, <2>1, <2>3, <2>4 DEF FloorKept, Sets
  <2>9. QED
    BY <2>7, <2>8
<1>6. CASE ReadSlap(r)
  <2> DEFINE k == Key(r)
             c == [Counts[k] EXCEPT !.fails =
                     IF KickstartProgress(In(r)) THEN 0 ELSE @]
  <2>1. /\ k \in Keys /\ (\E t \in Turns : Becomes(r, t)) /\ Sets(k, c)
        /\ UNCHANGED turns
    BY <1>6, SlapDoes
  <2>2. c \in Tallies /\ c.floor = Counts[k].floor
    BY <1>2, <2>1 DEF Tallies
  <2> HIDE DEF c
  <2>3. /\ slapped' \in [Keys -> Nat]
        /\ UNCHANGED <<frontier, rescued, owed, dusted>>
    BY <1>1, <1>6 DEF ReadSlap
  <2>4. Base'
    BY <1>1, <2>1, <2>2, <2>3, BaseKept
  <2>5. FloorKept'
    BY <1>2, <2>1, <2>2, <2>3 DEF FloorKept, Sets
  <2>6. QED
    BY <2>4, <2>5
<1>7. CASE CheckEntry(r)
  <2> DEFINE k == Key(r)
             c == [Counts[k] EXCEPT !.dust[Entry(r).name] = @ + 1]
  <2>1. /\ k \in Keys /\ turn[r].entry \in 1..Len(Dust) /\ UNCHANGED turns
        /\ \E t \in Turns : Becomes(r, t)
        /\ Stays \/ Sets(k, c)
    BY <1>7, EntryDoes
  <2>2. Entry(r).name \in Entries
    BY <2>1, EntryTyped DEF Entry
  <2>3. Counts[k] \in Tallies
    BY <1>2, <2>1
  <2>4. c \in Tallies
    BY <2>2, <2>3, TalliesTyped
  <2>5. c.floor = Counts[k].floor
    BY <2>3 DEF Tallies
  <2> HIDE DEF c
  <2>6. UNCHANGED <<frontier, rescued, slapped, owed, dusted>>
    BY <1>7 DEF CheckEntry
  <2>7. Base'
    BY <1>1, <2>1, <2>4, <2>6, BaseKept
  <2>8. FloorKept'
    BY <1>2, <2>1, <2>4, <2>5, <2>6 DEF FloorKept, Sets, Stays
  <2>9. QED
    BY <2>7, <2>8
<1>8. CASE ResolveTarget(r)
  <2> DEFINE k == Key(r)
             c(up) == [Counts[k] EXCEPT !.escalation = IF up THEN @ + 1 ELSE 0]
             e == Dust[turn[r].winner].name
  <2>1. /\ k \in Keys /\ turn[r].pc = "select"
        /\ \E t \in Turns : Becomes(r, t)
        /\ \E up \in BOOLEAN, sent \in BOOLEAN :
             /\ Sets(k, c(up))
             /\ frontier' = [frontier EXCEPT ![k] =
                               IF ~up THEN 0 ELSE IF sent THEN @ + 1 ELSE @]
             /\ rescued' = [rescued EXCEPT ![k] = IF ~up THEN 0 ELSE @]
        /\ dusted' = IF turn[r].winner = 0 \/ r \in carried THEN dusted
                     ELSE [dusted EXCEPT ![k][e] = @ + 1]
        /\ UNCHANGED <<turns, slapped, owed>>
    BY <1>8, ResolveDoes
  <2>2. PICK up \in BOOLEAN, sent \in BOOLEAN :
          /\ Sets(k, c(up))
          /\ frontier' = [frontier EXCEPT ![k] =
                            IF ~up THEN 0 ELSE IF sent THEN @ + 1 ELSE @]
          /\ rescued' = [rescued EXCEPT ![k] = IF ~up THEN 0 ELSE @]
    BY <2>1
  <2>3. c(up) \in Tallies /\ c(up).floor = Counts[k].floor
    BY <1>2, <2>1 DEF Tallies
  <2> HIDE DEF c
  <2>4. frontier' \in [Keys -> Nat] /\ rescued' \in [Keys -> Nat]
    <3>1. \A n \in Nat : (IF ~up THEN 0 ELSE IF sent THEN n + 1 ELSE n) \in Nat
      OBVIOUS
    <3>2. frontier[k] \in Nat /\ rescued[k] \in Nat
      BY <1>1, <2>1
    <3>3. QED
      BY <1>1, <2>2, <3>1, <3>2
  <2>5. dusted' \in [Keys -> [Entries -> Nat]]
    <3>1. CASE turn[r].winner = 0 \/ r \in carried
      BY <1>1, <2>1, <3>1
    <3>2. CASE ~(turn[r].winner = 0 \/ r \in carried)
      <4>1. turn[r].winner \in 1..Len(Dust)
        BY <3>2, PipelineAssumption DEF Base, Typed, Turns
      <4>2. e \in Entries
        BY <4>1, EntryTyped
      <4> HIDE DEF e
      <4>3. dusted' = [dusted EXCEPT ![k][e] = @ + 1]
        BY <2>1, <3>2 DEF e
      <4>4. [dusted[k] EXCEPT ![e] = @ + 1] \in [Entries -> Nat]
        BY <1>1, <2>1, <4>2
      <4>5. QED
        BY <1>1, <2>1, <4>3, <4>4
    <3>3. QED
      BY <3>1, <3>2
  <2>6. Base'
    BY <1>1, <2>1, <2>2, <2>3, <2>4, <2>5, BaseKept
  <2>7. FloorKept'
    BY <1>2, <2>1, <2>2, <2>3 DEF FloorKept, Sets
  <2>8. QED
    BY <2>6, <2>7
<1>9. CASE InjectPrompts(r)
  <2> DEFINE k == Key(r)
             c == [Counts[k] EXCEPT !.fails = @ + 1]
  <2>1. /\ k \in Keys /\ \E t \in Turns : Becomes(r, t)
        /\ (Stays /\ UNCHANGED slapped)
             \/ (Sets(k, c) /\ slapped' = [slapped EXCEPT ![k] = @ + 1])
        /\ UNCHANGED <<turns, frontier, rescued, owed, dusted>>
    BY <1>9, InjectDoes
  <2>2. c \in Tallies /\ c.floor = Counts[k].floor
    BY <1>2, <2>1 DEF Tallies
  <2> HIDE DEF c
  <2>3. slapped' \in [Keys -> Nat]
    BY <1>1, <2>1
  <2>4. Base'
    BY <1>1, <2>1, <2>2, <2>3, BaseKept
  <2>5. FloorKept'
    BY <1>2, <2>1, <2>2 DEF FloorKept, Sets, Stays
  <2>6. QED
    BY <2>4, <2>5
<1>10. CASE CycleKill(r)
  <2> DEFINE k == Key(r)
             c == [Counts[k] EXCEPT !.floor = IF Floor > @ THEN Floor ELSE @]
  <2>1. /\ k \in Keys /\ (\E t \in Turns : Becomes(r, t)) /\ Sets(k, c)
        /\ owed' = [owed EXCEPT ![k] = Floor]
        /\ Rescues /\ UNCHANGED <<turns, slapped, dusted>>
    BY <1>10, KillDoes
  <2>2. c \in Tallies
    BY <1>2, <2>1, TalliesTyped
  <2>3. c.floor >= Floor /\ Floor \in Nat
    BY <1>2, <2>1, PipelineAssumption DEF Tallies
  <2> HIDE DEF c
  <2>4. owed' \in [Keys -> Nat]
    BY <1>1, <2>1, <2>3
  <2>5. Base'
    BY <1>1, <2>1, <2>2, <2>4, RescuesTyped, BaseKept
  <2>6. FloorKept'
    BY <1>1, <1>2, <2>1, <2>3 DEF FloorKept, Sets
  <2>7. QED
    BY <2>5, <2>6
<1>11. QED
  BY <1>3, <1>4, <1>5, <1>6, <1>7, <1>8, <1>9, <1>10, StepKinds

\* A tick of the clock, or a step that changes nothing, leaves the tallies alone.
LEMMA TickQuiet ==
  ASSUME Base, (Tick /\ UNCHANGED <<turn, turns, history>>) \/ UNCHANGED vars
  PROVE  Base' /\ Stays /\ UNCHANGED <<turn, turns, history>>
<1>1. UNCHANGED <<sessions, turn, turns, history>> /\ now' \in Nat
  BY DEF Tick, vars, Base, Typed, SessionsTyped
<1>2. Stays
  BY <1>1, Untouched DEF Base, Typed
<1>3. Base'
  BY <1>1, <1>2 DEF Base, Typed, Placed, Stays, history
<1>4. QED
  BY <1>1, <1>2, <1>3

\* At first nothing is counted.
LEMMA BaseInit ==
  ASSUME Init PROVE Base /\ Counts = [k \in Keys |-> Nil]
<1>1. DOMAIN sessions = {} /\ now = 0
  BY DEF Init
<1>2. SessionsTyped /\ Counts = [k \in Keys |-> Nil]
  BY <1>1 DEF SessionsTyped, Counts, Known
<1>3. turn \in [Requests -> Turns] /\ \A r \in Requests : turn[r] = Idle
  BY IdleTyped DEF Init
<1>4. \A r \in Requests : Placed(turn[r], DOMAIN sessions)
  BY <1>3 DEF Placed, Idle
<1>5. turns \in 0..MaxTurns
  BY PipelineAssumption DEF Init
<1>6. /\ frontier \in [Keys -> Nat] /\ rescued \in [Keys -> Nat]
      /\ slapped \in [Keys -> Nat]
      /\ owed \in [Keys -> Nat] /\ dusted \in [Keys -> [Entries -> Nat]]
  BY DEF Init
<1>7. QED
  BY <1>2, <1>3, <1>4, <1>5, <1>6 DEF Base, Typed

\* Base and floor hold at first, and every step keeps them.
LEMMA BaseInvariant ==
  ASSUME NeverFull
  PROVE  /\ Init => Base /\ FloorKept
         /\ Base /\ FloorKept /\ [Next]_vars => Base' /\ FloorKept'
<1>1. ASSUME Init PROVE Base /\ FloorKept
  <2>1. Base /\ Counts = [k \in Keys |-> Nil]
    BY <1>1, BaseInit
  <2>2. \A k \in Keys : owed[k] = 0 /\ Counts[k].floor = 0
    BY <1>1, <2>1 DEF Init, Nil
  <2>3. QED
    BY <2>1, <2>2 DEF FloorKept
<1>2. ASSUME Base, FloorKept, [Next]_vars PROVE Base' /\ FloorKept'
  <2>1. CASE \E r \in Requests : Step(r)
    BY <1>2, <2>1, BaseStep
  <2>2. CASE (Tick /\ UNCHANGED <<turn, turns, history>>) \/ UNCHANGED vars
    <3>1. Base' /\ Stays /\ UNCHANGED <<turn, turns, history>>
      BY <1>2, <2>2, TickQuiet
    <3>2. FloorKept'
      BY <1>2, <3>1 DEF FloorKept, Stays, history
    <3>3. QED
      BY <3>1, <3>2
  <2>3. QED
    BY <1>2, <2>1, <2>2 DEF Next
<1>3. QED
  BY <1>1, <1>2

\* The turn after a cycle kill reports the retries the kill demands, for any
\* requests and sessions, if no session is evicted.
THEOREM KillEscalates == NeverFull => (Spec => []KilledTurnEscalates)
<1> SUFFICES ASSUME NeverFull PROVE Spec => []KilledTurnEscalates
  OBVIOUS
<1>1. Init => Base /\ FloorKept
  BY BaseInvariant
<1>2. Base /\ FloorKept /\ [Next]_vars => Base' /\ FloorKept'
  BY BaseInvariant
<1>3. Base /\ FloorKept => KilledTurnEscalates
  BY DEF Base, Placed, KilledTurnEscalates
<1>4. QED
  BY <1>1, <1>2, <1>3, PTL DEF Spec

-----------------------------------------------------------------------------
(* The escalation budget *)

\* The tracker has counted every turn that went to the default tier, but for
\* those that fell back to it.
FrontierKept ==
  \A k \in Keys : /\ frontier[k] <= Counts[k].escalation + rescued[k]
                  /\ frontier[k] <= MaxEscalationTurns + rescued[k]

\* A step that counts no escalation leaves that so, even if a turn falls back.
LEMMA FrontierRescues ==
  ASSUME Base, FrontierKept, Rescues,
         \A x \in Keys : Counts'[x].escalation = Counts[x].escalation
  PROVE  FrontierKept'
<1>1. /\ frontier \in [Keys -> Nat] /\ rescued \in [Keys -> Nat]
      /\ Counts \in [Keys -> Tallies] /\ MaxEscalationTurns \in Nat
  BY CountsTyped, TrackerAssumption DEF Base, Typed
<1>2. SUFFICES ASSUME NEW x \in Keys
      PROVE /\ frontier'[x] <= Counts[x].escalation + rescued'[x]
            /\ frontier'[x] <= MaxEscalationTurns + rescued'[x]
  BY DEF FrontierKept
<1>3. /\ frontier[x] \in Nat /\ rescued[x] \in Nat
      /\ Counts[x].escalation \in Nat
  BY <1>1 DEF Tallies
<1>4. \/ frontier'[x] = frontier[x] /\ rescued'[x] = rescued[x]
      \/ frontier'[x] = frontier[x] + 1 /\ rescued'[x] = rescued[x] + 1
  BY <1>1 DEF Rescues
<1>5. QED
  BY <1>1, <1>3, <1>4 DEF FrontierKept

\* A call that leaves the escalation of its session alone keeps it so, and so
\* does one after which the session has sent no turn.
LEMMA FrontierSets ==
  ASSUME Base, FrontierKept, NEW k \in Keys, NEW t \in Tallies, Sets(k, t),
         \/ /\ t.escalation >= Counts[k].escalation
            /\ UNCHANGED <<frontier, rescued>>
         \/ /\ frontier' = [frontier EXCEPT ![k] = 0]
            /\ rescued' = [rescued EXCEPT ![k] = 0]
         \/ /\ t.escalation >= Counts[k].escalation + 1
            /\ Counts[k].escalation < MaxEscalationTurns
            /\ frontier' = [frontier EXCEPT ![k] = @ + 1] /\ UNCHANGED rescued
  PROVE  FrontierKept'
<1>1. /\ Counts \in [Keys -> Tallies] /\ frontier \in [Keys -> Nat]
      /\ rescued \in [Keys -> Nat] /\ MaxEscalationTurns \in Nat
  BY CountsTyped, TrackerAssumption DEF Base, Typed
<1>2. Counts' = [Counts EXCEPT ![k] = t]
  BY DEF Sets
<1>3. \A x \in Keys \ {k} : /\ frontier'[x] = frontier[x]
                            /\ rescued'[x] = rescued[x] /\ Counts'[x] = Counts[x]
  BY <1>1, <1>2
<1>4. Counts'[k] = t /\ Counts[k].escalation \in Nat /\ t.escalation \in Nat
      /\ frontier[k] \in Nat /\ rescued[k] \in Nat
  BY <1>1, <1>2 DEF Tallies
<1>5. /\ frontier'[k] <= t.escalation + rescued'[k]
      /\ frontier'[k] <= MaxEscalationTurns + rescued'[k]
  BY <1>1, <1>4 DEF FrontierKept
<1>6. \A x \in Keys : /\ frontier'[x] <= Counts'[x].escalation + rescued'[x]
                      /\ frontier'[x] <= MaxEscalationTurns + rescued'[x]
  BY <1>3, <1>4, <1>5 DEF FrontierKept
<1>7. QED
  BY <1>6 DEF FrontierKept

\* The budget is kept by every step of a request.
LEMMA FrontierStep ==
  ASSUME NeverFull, Economy, Base, FloorKept, FrontierKept,
         NEW r \in Requests, Step(r)
  PROVE  FrontierKept'
<1>1. /\ Counts \in [Keys -> Tallies]
      /\ frontier \in [Keys -> Nat] /\ rescued \in [Keys -> Nat]
  BY CountsTyped DEF Base, Typed
<1>2. CASE QuietStep(r)
  <2>1. Stays /\ Rescues
    BY <1>2, QuietSteps DEF Quietly
  <2>2. QED
    BY <2>1, FrontierRescues DEF Stays
<1>3. CASE MetaExecute(r) /\ In(r).meta = "reset"
  <2>1. /\ Key(r) \in Keys /\ Sets(Key(r), Nil)
        /\ frontier' = [frontier EXCEPT ![Key(r)] = 0]
        /\ rescued' = [rescued EXCEPT ![Key(r)] = 0]
    BY <1>3, ResetDoes
  <2>2. Nil \in Tallies
    BY DEF Nil, Tallies
  <2>3. QED
    BY <2>1, <2>2, FrontierSets
<1>4. CASE RecordTurn(r)
  <2> DEFINE k == Key(r)
             u == TurnOf(In(r))
             c == Recorded(k, u)
  <2>1. k \in Keys /\ Sets(k, c)
    BY <1>4, RecordDoes DEF FloorKept
  <2>2. /\ c \in Tallies
        /\ ~StartsAfresh(k, u) => c.escalation = Counts[k].escalation
    BY <2>1, RecordedTyped DEF Base, Typed
  <2>3. IF StartsAfresh(k, u)
        THEN /\ frontier' = [frontier EXCEPT ![k] = 0]
             /\ rescued' = [rescued EXCEPT ![k] = 0]
        ELSE UNCHANGED <<frontier, rescued>>
    BY <1>4 DEF RecordTurn
  <2>4. CASE StartsAfresh(k, u)
    BY <2>1, <2>2, <2>3, <2>4, FrontierSets
  <2>5. CASE ~StartsAfresh(k, u)
    <3>1. UNCHANGED <<frontier, rescued>>
      BY <2>3, <2>5
    <3>2. c.escalation >= Counts[k].escalation
      BY <2>2, <2>5 DEF Tallies
    <3>3. QED
      BY <2>1, <2>2, <3>1, <3>2, FrontierSets
  <2>6. QED
    BY <2>4, <2>5
<1>5. CASE ReadSlap(r)
  <2> DEFINE k == Key(r)
             c == [Counts[k] EXCEPT !.fails =
                     IF KickstartProgress(In(r)) THEN 0 ELSE @]
  <2>1. k \in Keys /\ Sets(k, c)
    BY <1>5, SlapDoes
  <2>2. Counts[k] \in Tallies
    BY <1>1, <2>1
  <2>3. c \in Tallies /\ c.escalation >= Counts[k].escalation
    BY <2>2 DEF Tallies
  <2>4. UNCHANGED <<frontier, rescued>>
    BY <1>5 DEF ReadSlap
  <2>5. QED
    BY <2>1, <2>3, <2>4, FrontierSets
<1>6. CASE CheckEntry(r)
  <2> DEFINE k == Key(r)
             c == [Counts[k] EXCEPT !.dust[Entry(r).name] = @ + 1]
  <2>1. /\ k \in Keys /\ turn[r].entry \in 1..Len(Dust)
        /\ Stays \/ Sets(k, c)
    BY <1>6, EntryDoes
  <2>2. Counts[k] \in Tallies
    BY <1>1, <2>1
  <2>3. c \in Tallies
    BY <2>1, <2>2, EntryTyped, TalliesTyped DEF Entry
  <2>4. c.escalation >= Counts[k].escalation
    BY <2>2 DEF Tallies
  <2>5. UNCHANGED <<frontier, rescued>>
    BY <1>6 DEF CheckEntry
  <2> HIDE DEF c
  <2>6. CASE Stays
    BY <2>5, <2>6 DEF FrontierKept, Stays
  <2>7. CASE Sets(k, c)
    BY <2>1, <2>3, <2>4, <2>5, <2>7, FrontierSets
  <2>8. QED
    BY <2>1, <2>6, <2>7
<1>7. CASE ResolveTarget(r)
  <2> DEFINE k == Key(r)
             c(up) == [Counts[k] EXCEPT !.escalation = IF up THEN @ + 1 ELSE 0]
  <2>1. k \in Keys /\ \E up \in BOOLEAN, sent \in BOOLEAN :
          /\ Sets(k, c(up))
          /\ frontier' = [frontier EXCEPT ![k] =
                            IF ~up THEN 0 ELSE IF sent THEN @ + 1 ELSE @]
          /\ rescued' = [rescued EXCEPT ![k] = IF ~up THEN 0 ELSE @]
          /\ Economy /\ up /\ sent => Counts[k].escalation < MaxEscalationTurns
    BY <1>7, ResolveDoes
  <2>2. PICK up \in BOOLEAN, sent \in BOOLEAN :
          /\ Sets(k, c(up))
          /\ frontier' = [frontier EXCEPT ![k] =
                            IF ~up THEN 0 ELSE IF sent THEN @ + 1 ELSE @]
          /\ rescued' = [rescued EXCEPT ![k] = IF ~up THEN 0 ELSE @]
          /\ up /\ sent => Counts[k].escalation < MaxEscalationTurns
    BY <2>1
  <2>3. Counts[k] \in Tallies
    BY <1>1, <2>1
  <2>4. /\ c(up) \in Tallies
        /\ up => c(up).escalation = Counts[k].escalation + 1
    BY <2>3 DEF Tallies
  <2>5. up => /\ c(up).escalation >= Counts[k].escalation + 1
              /\ c(up).escalation >= Counts[k].escalation
    <3>1. Counts[k].escalation \in Nat
      BY <2>3 DEF Tallies
    <3>2. QED
      BY <2>4, <3>1
  <2> HIDE DEF c
  <2>6. CASE ~up
    BY <2>1, <2>2, <2>4, <2>6, FrontierSets
  <2>7. CASE up /\ ~sent
    <3>1. UNCHANGED <<frontier, rescued>>
      BY <1>1, <2>2, <2>7
    <3>2. QED
      BY <2>1, <2>2, <2>4, <2>5, <2>7, <3>1, FrontierSets
  <2>8. CASE up /\ sent
    <3>1. frontier' = [frontier EXCEPT ![k] = @ + 1] /\ rescued' = rescued
      BY <1>1, <2>2, <2>8
    <3>2. QED
      BY <2>1, <2>2, <2>4, <2>5, <2>8, <3>1, FrontierSets
  <2>9. QED
    BY <2>6, <2>7, <2>8
<1>8. CASE InjectPrompts(r)
  <2> DEFINE k == Key(r)
             c == [Counts[k] EXCEPT !.fails = @ + 1]
  <2>1. /\ k \in Keys /\ (Stays \/ Sets(k, c))
        /\ UNCHANGED <<frontier, rescued>>
    BY <1>8, InjectDoes
  <2>2. Counts[k] \in Tallies
    BY <1>1, <2>1
  <2>3. c \in Tallies /\ c.escalation >= Counts[k].escalation
    BY <2>2 DEF Tallies
  <2> HIDE DEF c
  <2>4. CASE Stays
    BY <2>1, <2>4 DEF FrontierKept, Stays
  <2>5. CASE Sets(k, c)
    BY <2>1, <2>3, <2>5, FrontierSets
  <2>6. QED
    BY <2>1, <2>4, <2>5
<1>9. CASE CycleKill(r)
  <2> DEFINE k == Key(r)
             c == [Counts[k] EXCEPT !.floor = IF Floor > @ THEN Floor ELSE @]
  <2>1. k \in Keys /\ Sets(k, c) /\ Rescues
    BY <1>9, KillDoes
  <2>2. Counts[k] \in Tallies
    BY <1>1, <2>1
  <2>3. c \in Tallies
    BY <2>2, TalliesTyped
  <2>4. c.escalation = Counts[k].escalation
    BY <2>2 DEF Tallies
  <2> HIDE DEF c
  <2>5. \A x \in Keys : Counts'[x].escalation = Counts[x].escalation
    BY <1>1, <2>1, <2>4 DEF Sets
  <2>6. QED
    BY <2>1, <2>5, FrontierRescues
<1>10. QED
  BY <1>2, <1>3, <1>4, <1>5, <1>6, <1>7, <1>8, <1>9, StepKinds

\* Of the turns of a session that reach the default tier until its rules choose
\* another one or it starts afresh, at most MaxEscalationTurns did not fall back
\* to it, for any requests, sessions and tiers, if there is a cheaper tier and no
\* session is evicted.
THEOREM BudgetHolds == NeverFull /\ Economy => (Spec => []FrontierCapped)
<1> SUFFICES ASSUME NeverFull, Economy PROVE Spec => []FrontierCapped
  OBVIOUS
<1> DEFINE IInv == Base /\ FloorKept /\ FrontierKept
<1>1. ASSUME Init PROVE IInv
  <2>1. Base /\ FloorKept /\ Counts = [k \in Keys |-> Nil]
    BY <1>1, BaseInit, BaseInvariant
  <2>2. \A k \in Keys : /\ frontier[k] = 0 /\ rescued[k] = 0
                        /\ Counts[k].escalation = 0
    BY <1>1, <2>1 DEF Init, Nil
  <2>3. QED
    BY <2>1, <2>2, TrackerAssumption DEF FrontierKept
<1>2. ASSUME IInv, [Next]_vars PROVE IInv'
  <2>1. Base' /\ FloorKept'
    BY <1>2, BaseInvariant
  <2>2. CASE \E r \in Requests : Step(r)
    BY <1>2, <2>1, <2>2, FrontierStep
  <2>3. CASE (Tick /\ UNCHANGED <<turn, turns, history>>) \/ UNCHANGED vars
    <3>1. Stays /\ Rescues
      BY <1>2, <2>3, TickQuiet DEF Rescues, history
    <3>2. FrontierKept'
      BY <1>2, <3>1, FrontierRescues DEF Stays
    <3>3. QED
      BY <2>1, <3>2
  <2>4. QED
    BY <1>2, <2>2, <2>3 DEF Next
<1>3. IInv => FrontierCapped
  BY DEF FrontierKept, FrontierCapped
<1> HIDE DEF IInv
<1>4. QED
  BY <1>1, <1>2, <1>3, PTL DEF Spec

-----------------------------------------------------------------------------
(* The read slaps *)

\* The turns of each session that will inject a read slap.
Kicking == [k \in Keys |-> {r \in Requests : Kicks(turn[r]) /\ Key(r) = k}]

\* No more failures can be counted than this.
SlapBound == MaxFailures - 1 + Cardinality(Requests)

\* Every read slap sent is counted, and the slaps that have been decided are
\* few enough.
SlapKept ==
  \A k \in Keys : /\ slapped[k] <= Counts[k].fails
                  /\ Counts[k].fails + Cardinality(Kicking[k]) <= SlapBound

\* Some of a finite number of requests.
LEMMA Fewer ==
  ASSUME IsFiniteSet(Requests), NEW S \in SUBSET Requests, NEW T \in SUBSET S
  PROVE  /\ IsFiniteSet(S) /\ Cardinality(S) \in Nat /\ Cardinality(T) \in Nat
         /\ Cardinality(T) <= Cardinality(S)
         /\ Cardinality(Requests) \in Nat
         /\ Cardinality(S) <= Cardinality(Requests)
<1>1. IsFiniteSet(S) /\ Cardinality(S) <= Cardinality(Requests)
  BY FS_Subset
<1>2. IsFiniteSet(T) /\ Cardinality(T) <= Cardinality(S)
  BY <1>1, FS_Subset
<1>3. QED
  BY <1>1, <1>2, FS_CardinalityType

\* A turn that changes brings no other turn to a slap, and itself only to one
\* of its own session.
LEMMA KickingMoves ==
  ASSUME Base, NEW r \in Requests, NEW t \in Turns, Becomes(r, t)
  PROVE  /\ Kicking \in [Keys -> SUBSET Requests]
         /\ Kicking' \in [Keys -> SUBSET Requests]
         /\ \A k \in Keys : (Kicks(t) => t.in.key # k) =>
              Kicking'[k] \subseteq Kicking[k] \ {r}
         /\ (Kicks(t) => Kicks(turn[r]) /\ t.in = turn[r].in) =>
              \A k \in Keys : Kicking'[k] \subseteq Kicking[k]
<1>1. turn'[r] = t /\ \A x \in Requests \ {r} : turn'[x] = turn[x]
  BY DEF Becomes, Base, Typed
<1>2. \A k \in Keys : \A x \in Kicking'[k] : x # r => x \in Kicking[k]
  BY <1>1 DEF Kicking, Key, In, Kicks
<1>3. \A k \in Keys : r \in Kicking'[k] => Kicks(t) /\ t.in.key = k
  BY <1>1 DEF Kicking, Key, In, Kicks
<1>4. \A k \in Keys : Kicks(turn[r]) /\ turn[r].in.key = k => r \in Kicking[k]
  BY DEF Kicking, Key, In
<1>5. /\ Kicking \in [Keys -> SUBSET Requests]
      /\ Kicking' \in [Keys -> SUBSET Requests]
  BY DEF Kicking
<1> HIDE DEF Kicking, Kicks
<1>6. QED
  BY <1>2, <1>3, <1>4, <1>5

\* A call that sets the tally of one session keeps the slaps limited, if it
\* keeps those of that session so and decides none in another one.
LEMMA SlapSets ==
  ASSUME IsFiniteSet(Requests), Base, SlapKept, NEW k \in Keys, NEW t \in Tallies,
         Sets(k, t), Kicking \in [Keys -> SUBSET Requests],
         \A x \in Keys \ {k} : /\ slapped'[x] = slapped[x]
                               /\ Kicking'[x] \subseteq Kicking[x],
         slapped'[k] <= t.fails,
         t.fails + Cardinality(Kicking'[k]) <= SlapBound
  PROVE  SlapKept'
<1>1. Counts \in [Keys -> Tallies]
  BY CountsTyped DEF Base, Typed
<1>2. Counts' = [Counts EXCEPT ![k] = t]
  BY DEF Sets
<1>3. ASSUME NEW x \in Keys \ {k}
      PROVE  /\ slapped'[x] <= Counts'[x].fails
             /\ Counts'[x].fails + Cardinality(Kicking'[x]) <= SlapBound
  <2>1. Counts'[x] = Counts[x] /\ Counts[x].fails \in Nat
    BY <1>1, <1>2 DEF Tallies
  <2>2. /\ Cardinality(Kicking'[x]) \in Nat /\ Cardinality(Kicking[x]) \in Nat
        /\ Cardinality(Kicking'[x]) <= Cardinality(Kicking[x])
        /\ Cardinality(Requests) \in Nat
    BY Fewer
  <2>3. SlapBound \in Int
    BY <2>2, PipelineAssumption DEF SlapBound
  <2>4. QED
    BY <2>1, <2>2, <2>3 DEF SlapKept
<1>4. Counts'[k] = t
  BY <1>1, <1>2
<1>5. \A x \in Keys : /\ slapped'[x] <= Counts'[x].fails
                      /\ Counts'[x].fails + Cardinality(Kicking'[x]) <= SlapBound
  BY <1>3, <1>4
<1>6. SlapBound' = SlapBound
  BY DEF SlapBound
<1>7. QED
  BY <1>5, <1>6 DEF SlapKept

\* ... so it does if it leaves the failures of its session alone, or forgets
\* them, and decides no slap.
LEMMA SlapSame ==
  ASSUME IsFiniteSet(Requests), Base, SlapKept, NEW k \in Keys, NEW t \in Tallies,
         Sets(k, t), Kicking \in [Keys -> SUBSET Requests],
         \A x \in Keys : Kicking'[x] \subseteq Kicking[x],
         \/ t.fails = Counts[k].fails /\ slapped' = slapped
         \/ t.fails = 0 /\ slapped' = [slapped EXCEPT ![k] = 0]
  PROVE  SlapKept'
<1>1. /\ Counts \in [Keys -> Tallies] /\ slapped \in [Keys -> Nat]
      /\ Counts[k].fails \in Nat
  BY CountsTyped DEF Base, Typed, Tallies
<1>2. /\ Cardinality(Kicking'[k]) \in Nat /\ Cardinality(Kicking[k]) \in Nat
      /\ Cardinality(Kicking'[k]) <= Cardinality(Kicking[k])
      /\ Cardinality(Requests) \in Nat
  BY Fewer
<1>3. SlapBound \in Int
  BY <1>2, PipelineAssumption DEF SlapBound
<1>4. slapped'[k] <= t.fails /\ \A x \in Keys \ {k} : slapped'[x] = slapped[x]
  BY <1>1 DEF SlapKept
<1>5. t.fails + Cardinality(Kicking'[k]) <= SlapBound
  BY <1>1, <1>2, <1>3 DEF SlapKept
<1>6. QED
  BY <1>4, <1>5, SlapSets

\* ... and if nothing is counted.
LEMMA SlapStays ==
  ASSUME IsFiniteSet(Requests), Base, SlapKept, Stays, UNCHANGED slapped,
         Kicking \in [Keys -> SUBSET Requests],
         \A x \in Keys : Kicking'[x] \subseteq Kicking[x]
  PROVE  SlapKept'
<1>1. Counts \in [Keys -> Tallies] /\ Counts' = Counts
  BY CountsTyped DEF Base, Typed, Stays
<1>2. SlapBound' = SlapBound
  BY DEF SlapBound
<1>3. ASSUME NEW x \in Keys
      PROVE  /\ slapped'[x] <= Counts'[x].fails
             /\ Counts'[x].fails + Cardinality(Kicking'[x]) <= SlapBound
  <2>1. Counts[x].fails \in Nat
    BY <1>1 DEF Tallies
  <2>2. /\ Cardinality(Kicking'[x]) \in Nat /\ Cardinality(Kicking[x]) \in Nat
        /\ Cardinality(Kicking'[x]) <= Cardinality(Kicking[x])
        /\ Cardinality(Requests) \in Nat
    BY Fewer
  <2>3. SlapBound \in Int
    BY <2>2, PipelineAssumption DEF SlapBound
  <2>4. QED
    BY <1>1, <2>1, <2>2, <2>3 DEF SlapKept
<1>4. QED
  BY <1>2, <1>3 DEF SlapKept

\* The read slaps are limited by every step of a request.
LEMMA SlapStep ==
  ASSUME NeverFull, IsFiniteSet(Requests), Base, FloorKept, SlapKept,
         NEW r \in Requests, Step(r)
  PROVE  SlapKept'
<1>1. /\ Counts \in [Keys -> Tallies] /\ slapped \in [Keys -> Nat]
      /\ Kicking \in [Keys -> SUBSET Requests]
  BY CountsTyped DEF Base, Typed, Kicking
<1>2. CASE QuietStep(r)
  <2>1. Quietly(r)
    BY <1>2, QuietSteps
  <2>2. PICK t \in Turns : /\ Becomes(r, t)
                           /\ Kicks(t) => Kicks(turn[r]) /\ t.in = turn[r].in
    BY <2>1 DEF Quietly
  <2>3. \A x \in Keys : Kicking'[x] \subseteq Kicking[x]
    BY <2>2, KickingMoves
  <2>4. Stays /\ UNCHANGED slapped
    BY <2>1 DEF Quietly, history
  <2>5. QED
    BY <1>1, <2>3, <2>4, SlapStays
<1>3. CASE MetaExecute(r) /\ In(r).meta = "reset"
  <2>1. /\ Key(r) \in Keys /\ Sets(Key(r), Nil) /\ Becomes(r, Idle)
        /\ slapped' = [slapped EXCEPT ![Key(r)] = 0]
    BY <1>3, ResetDoes
  <2>2. Nil \in Tallies /\ Nil.fails = 0
    BY DEF Nil, Tallies
  <2>3. \A x \in Keys : Kicking'[x] \subseteq Kicking[x]
    BY <2>1, IdleTyped, KickingMoves
  <2>4. QED
    BY <1>1, <2>1, <2>2, <2>3, SlapSame
<1>4. CASE RecordTurn(r)
  <2> DEFINE k == Key(r)
             c == Recorded(k, TurnOf(In(r)))
  <2>1. /\ k \in Keys /\ Sets(k, c)
        /\ \E t \in Turns : Becomes(r, t) /\ ~Kicks(t)
    BY <1>4, RecordDoes DEF FloorKept
  <2>2. \A x \in Keys : Kicking'[x] \subseteq Kicking[x]
    BY <2>1, KickingMoves
  <2>3. c \in Tallies
    BY <2>1, RecordedTyped DEF Base, Typed
  <2>4. CASE Known(k) /\ ~Expired(k)
    <3>1. c.fails = Counts[k].fails
      BY <2>1, <2>4, RecordedTyped DEF Base, Typed
    <3>2. slapped' = slapped
      BY <1>4, <2>4 DEF RecordTurn
    <3> HIDE DEF c
    <3>3. QED
      BY <1>1, <2>1, <2>2, <2>3, <3>1, <3>2, SlapSame
  <2>5. CASE ~(Known(k) /\ ~Expired(k))
    <3>1. c.fails = 0
      BY <2>1, <2>5, RecordedTyped DEF Base, Typed
    <3>2. slapped' = [slapped EXCEPT ![k] = 0]
      BY <1>4, <2>5 DEF RecordTurn
    <3> HIDE DEF c
    <3>3. QED
      BY <1>1, <2>1, <2>2, <2>3, <3>1, <3>2, SlapSame
  <2>6. QED
    BY <2>4, <2>5
<1>5. CASE ReadSlap(r)
  <2> DEFINE k == Key(r)
             progress == KickstartProgress(In(r))
             c == [Counts[k] EXCEPT !.fails = IF progress THEN 0 ELSE @]
  <2>1. k \in Keys /\ Sets(k, c) /\ progress \in BOOLEAN
    BY <1>5, SlapDoes
  <2>2. PICK t \in Turns :
          /\ Becomes(r, t)
          /\ Kicks(t) => /\ t.in = turn[r].in
                         /\ ~progress /\ Counts[k].fails < MaxFailures
    BY <1>5, SlapDoes
  <2>3. Counts[k] \in Tallies /\ Counts[k].fails \in Nat
    BY <1>1, <2>1 DEF Tallies
  <2>4. /\ c \in Tallies
        /\ progress => c.fails = 0
        /\ ~progress => c.fails = Counts[k].fails
    BY <2>3 DEF Tallies
  <2>5. slapped' = [slapped EXCEPT ![k] = IF progress THEN 0 ELSE @]
    BY <1>5 DEF ReadSlap
  <2> HIDE DEF c, progress
  <2>6. CASE progress
    <3>1. slapped' = [slapped EXCEPT ![k] = 0]
      BY <2>5, <2>6
    <3>2. \A x \in Keys : Kicking'[x] \subseteq Kicking[x]
      BY <2>2, <2>6, KickingMoves
    <3>3. QED
      BY <1>1, <2>1, <2>4, <2>6, <3>1, <3>2, SlapSame
  <2>7. CASE ~progress
    <3>1. slapped' = slapped
      BY <1>1, <2>5, <2>7
    <3>2. CASE ~Kicks(t)
      <4>1. \A x \in Keys : Kicking'[x] \subseteq Kicking[x]
        BY <2>2, <3>2, KickingMoves
      <4>2. QED
        BY <1>1, <2>1, <2>4, <2>7, <3>1, <4>1, SlapSame
    <3>3. CASE Kicks(t)
      <4>1. \A x \in Keys \ {k} : Kicking'[x] \subseteq Kicking[x]
        BY <2>2, <3>3, KickingMoves DEF Key, In
      <4>2. Kicking'[k] \in SUBSET Requests
        BY <2>1, <2>2, KickingMoves
      <4>3. /\ Cardinality(Kicking'[k]) \in Nat /\ Cardinality(Requests) \in Nat
            /\ Cardinality(Kicking'[k]) <= Cardinality(Requests)
        BY <4>2, Fewer
      <4>4. c.fails + Cardinality(Kicking'[k]) <= SlapBound
        BY <2>2, <2>3, <2>4, <2>7, <3>3, <4>3, PipelineAssumption DEF SlapBound
      <4>5. slapped'[k] <= c.fails
        BY <2>1, <2>4, <2>7, <3>1 DEF SlapKept
      <4>6. QED
        BY <1>1, <2>1, <2>4, <3>1, <4>1, <4>4, <4>5, SlapSets
    <3>4. QED
      BY <3>2, <3>3
  <2>8. QED
    BY <2>1, <2>6, <2>7
<1>6. CASE CheckEntry(r)
  <2> DEFINE k == Key(r)
             c == [Counts[k] EXCEPT !.dust[Entry(r).name] = @ + 1]
  <2>1. /\ k \in Keys /\ turn[r].entry \in 1..Len(Dust)
        /\ Stays \/ Sets(k, c)
        /\ \E t \in Turns : /\ Becomes(r, t) /\ (Kicks(t) => Kicks(turn[r]))
                            /\ t.in = turn[r].in
    BY <1>6, EntryDoes
  <2>2. \A x \in Keys : Kicking'[x] \subseteq Kicking[x]
    BY <2>1, KickingMoves
  <2>3. Counts[k] \in Tallies
    BY <1>1, <2>1
  <2>4. c \in Tallies
    BY <2>1, <2>3, EntryTyped, TalliesTyped DEF Entry
  <2>5. c.fails = Counts[k].fails
    BY <2>3 DEF Tallies
  <2>6. slapped' = slapped
    BY <1>6 DEF CheckEntry
  <2> HIDE DEF c
  <2>7. CASE Stays
    BY <1>1, <2>2, <2>6, <2>7, SlapStays
  <2>8. CASE Sets(k, c)
    BY <1>1, <2>1, <2>2, <2>4, <2>5, <2>6, <2>8, SlapSame
  <2>9. QED
    BY <2>1, <2>7, <2>8
<1>7. CASE ResolveTarget(r)
  <2> DEFINE k == Key(r)
             c(up) == [Counts[k] EXCEPT !.escalation = IF up THEN @ + 1 ELSE 0]
  <2>1. /\ k \in Keys /\ slapped' = slapped
        /\ \E up \in BOOLEAN : Sets(k, c(up))
        /\ \E t \in Turns : /\ Becomes(r, t) /\ (Kicks(t) => Kicks(turn[r]))
                            /\ t.in = turn[r].in
    BY <1>7, ResolveDoes
  <2>2. \A x \in Keys : Kicking'[x] \subseteq Kicking[x]
    BY <2>1, KickingMoves
  <2>3. PICK up \in BOOLEAN : Sets(k, c(up))
    BY <2>1
  <2>4. Counts[k] \in Tallies
    BY <1>1, <2>1
  <2>5. c(up) \in Tallies /\ c(up).fails = Counts[k].fails
    BY <2>4 DEF Tallies
  <2> HIDE DEF c
  <2>6. QED
    BY <1>1, <2>1, <2>2, <2>3, <2>5, SlapSame
<1>8. CASE InjectPrompts(r)
  <2> DEFINE k == Key(r)
             c == [Counts[k] EXCEPT !.fails = @ + 1]
  <2>1. k \in Keys
    BY <1>8, InjectDoes
  <2>2. PICK t \in Turns : Becomes(r, t) /\ ~Kicks(t)
    BY <1>8, InjectDoes
  <2>3. \A x \in Keys : Kicking'[x] \subseteq Kicking[x] \ {r}
    BY <2>2, KickingMoves
  <2>4. CASE Stays /\ UNCHANGED slapped
    BY <1>1, <2>3, <2>4, SlapStays
  <2>5. CASE /\ Kicks(turn[r]) /\ Sets(k, c)
             /\ slapped' = [slapped EXCEPT ![k] = @ + 1]
    <3>1. Counts[k] \in Tallies
      BY <1>1, <2>1
    <3>2. c \in Tallies /\ Counts[k].fails \in Nat /\ c.fails = Counts[k].fails + 1
      BY <3>1 DEF Tallies
    <3> HIDE DEF c
    <3>3. r \in Kicking[k]
      BY <2>1, <2>5 DEF Kicking
    <3>4. IsFiniteSet(Kicking[k]) /\ Cardinality(Kicking[k]) \in Nat
      BY <1>1, <2>1, Fewer
    <3>5. /\ IsFiniteSet(Kicking[k] \ {r})
          /\ Cardinality(Kicking[k] \ {r}) = Cardinality(Kicking[k]) - 1
      BY <3>3, <3>4, FS_RemoveElement
    <3>6. /\ Cardinality(Kicking'[k]) <= Cardinality(Kicking[k] \ {r})
          /\ Cardinality(Kicking'[k]) \in Nat /\ Cardinality(Requests) \in Nat
      <4>1. Kicking[k] \ {r} \in SUBSET Requests
        BY <1>1, <2>1
      <4>2. QED
        BY <2>1, <2>3, <4>1, Fewer
    <3>7. SlapBound \in Int
      BY <3>6, PipelineAssumption DEF SlapBound
    <3>8. c.fails + Cardinality(Kicking'[k]) <= SlapBound
      BY <2>1, <3>2, <3>4, <3>5, <3>6, <3>7 DEF SlapKept
    <3>9. /\ slapped'[k] <= c.fails
          /\ \A x \in Keys \ {k} : slapped'[x] = slapped[x]
      BY <1>1, <2>1, <2>5, <3>2 DEF SlapKept
    <3>10. QED
      BY <1>1, <2>1, <2>3, <2>5, <3>2, <3>8, <3>9, SlapSets
  <2>6. QED
    BY <1>8, <2>4, <2>5, InjectDoes
<1>9. CASE CycleKill(r)
  <2> DEFINE k == Key(r)
             c == [Counts[k] EXCEPT !.floor = IF Floor > @ THEN Floor ELSE @]
  <2>1. /\ k \in Keys /\ Sets(k, c) /\ slapped' = slapped
        /\ \E t \in Turns : Becomes(r, t) /\ ~Kicks(t)
    BY <1>9, KillDoes
  <2>2. \A x \in Keys : Kicking'[x] \subseteq Kicking[x]
    BY <2>1, KickingMoves
  <2>3. Counts[k] \in Tallies
    BY <1>1, <2>1
  <2>4. c \in Tallies
    BY <2>3, TalliesTyped
  <2>5. c.fails = Counts[k].fails
    BY <2>3 DEF Tallies
  <2> HIDE DEF c
  <2>6. QED
    BY <1>1, <2>1, <2>2, <2>4, <2>5, SlapSame
<1>10. QED
  BY <1>2, <1>3, <1>4, <1>5, <1>6, <1>7, <1>8, <1>9, StepKinds

-----------------------------------------------------------------------------
(* The checkpoints *)

\* No two entries have the same name.
EntriesDiffer ==
  \A m, n \in 1..Len(Dust) : Dust[m].name = Dust[n].name => m = n

\* The turns of each session that have chosen a checkpoint of an entry and not
\* sent it yet.
Waiting ==
  [k \in Keys |-> [e \in Entries |->
     {r \in Requests : /\ Chooses(turn[r]) /\ Key(r) = k /\ r \notin carried
                       /\ Dust[turn[r].winner].name = e}]]
WaitingTyped == Waiting \in [Keys -> [Entries -> SUBSET Requests]]

\* Every checkpoint sent or about to be is counted, and the counts are capped.
DustKept ==
  \A k \in Keys :
    /\ \A e \in Entries :
         dusted[k][e] + Cardinality(Waiting[k][e]) <= Counts[k].dust[e]
    /\ \A n \in 1..Len(Dust) : Counts[k].dust[Dust[n].name] <= Dust[n].max

\* A turn that changes lets no other turn choose a checkpoint, and none if it
\* has not chosen one itself.
LEMMA WaitingMoves ==
  ASSUME Base, NEW r \in Requests, NEW t \in Turns, Becomes(r, t),
         carried \subseteq carried' \cup {r}
  PROVE  /\ WaitingTyped /\ WaitingTyped'
         /\ \A k \in Keys, e \in Entries :
              /\ Waiting'[k][e] \subseteq Waiting[k][e] \cup {r}
              /\ (Chooses(t) => t.in.key # k \/ Dust[t.winner].name # e) =>
                    Waiting'[k][e] \subseteq Waiting[k][e] \ {r}
         /\ ((Chooses(t) => /\ Chooses(turn[r]) /\ t.in = turn[r].in
                            /\ t.winner = turn[r].winner)
             /\ carried \subseteq carried') =>
              \A k \in Keys, e \in Entries : Waiting'[k][e] \subseteq Waiting[k][e]
<1>1. turn'[r] = t /\ \A x \in Requests \ {r} : turn'[x] = turn[x]
  BY DEF Becomes, Base, Typed
<1>2. \A k \in Keys, e \in Entries, x \in Requests : x # r =>
        (x \in Waiting'[k][e] => x \in Waiting[k][e])
  BY <1>1 DEF Waiting, Key, In, Chooses
<1>3. \A k \in Keys, e \in Entries : r \in Waiting'[k][e] =>
        /\ Chooses(t) /\ t.in.key = k /\ Dust[t.winner].name = e
        /\ r \notin carried'
  BY <1>1 DEF Waiting, Key, In, Chooses
<1>4. \A k \in Keys, e \in Entries :
        /\ Chooses(turn[r]) /\ turn[r].in.key = k
        /\ Dust[turn[r].winner].name = e /\ r \notin carried
        => r \in Waiting[k][e]
  BY DEF Waiting, Key, In
<1>5. WaitingTyped /\ WaitingTyped'
  BY DEF WaitingTyped, Waiting
<1>6. \A k \in Keys, e \in Entries :
        /\ Waiting[k][e] \subseteq Requests /\ Waiting'[k][e] \subseteq Requests
  BY <1>5 DEF WaitingTyped
<1> HIDE DEF Waiting, Chooses
<1>7. QED
  BY <1>2, <1>3, <1>4, <1>5, <1>6

\* A call that sets the tally of one session keeps its checkpoints limited, if
\* those of that session stay so and none is chosen in another one.
LEMMA DustSetsKept ==
  ASSUME IsFiniteSet(Requests), Base, DustKept, WaitingTyped,
         NEW k \in Keys, NEW t \in Tallies, Sets(k, t),
         \A x \in Keys \ {k} :
           /\ dusted'[x] = dusted[x]
           /\ \A e \in Entries : Waiting'[x][e] \subseteq Waiting[x][e],
         \A e \in Entries :
           dusted'[k][e] + Cardinality(Waiting'[k][e]) <= t.dust[e],
         \A n \in 1..Len(Dust) : t.dust[Dust[n].name] <= Dust[n].max
  PROVE  DustKept'
<1>1. Counts \in [Keys -> Tallies] /\ dusted \in [Keys -> [Entries -> Nat]]
  BY CountsTyped DEF Base, Typed
<1>2. Counts' = [Counts EXCEPT ![k] = t]
  BY DEF Sets
<1>3. ASSUME NEW x \in Keys \ {k}, NEW e \in Entries
      PROVE  dusted'[x][e] + Cardinality(Waiting'[x][e]) <= Counts'[x].dust[e]
  <2>1. /\ Counts'[x] = Counts[x] /\ Counts[x].dust[e] \in Nat
        /\ dusted'[x][e] = dusted[x][e] /\ dusted[x][e] \in Nat
    BY <1>1, <1>2 DEF Tallies
  <2>2. Waiting[x][e] \in SUBSET Requests
    BY DEF WaitingTyped
  <2>3. /\ Cardinality(Waiting'[x][e]) \in Nat /\ Cardinality(Waiting[x][e]) \in Nat
        /\ Cardinality(Waiting'[x][e]) <= Cardinality(Waiting[x][e])
    BY <2>2, Fewer
  <2>4. dusted[x][e] + Cardinality(Waiting[x][e]) <= Counts[x].dust[e]
    BY DEF DustKept
  <2>5. QED
    BY <2>1, <2>3, <2>4
<1>4. Counts'[k] = t /\ \A x \in Keys \ {k} : Counts'[x] = Counts[x]
  BY <1>1, <1>2
<1>5. \A x \in Keys, e \in Entries :
        dusted'[x][e] + Cardinality(Waiting'[x][e]) <= Counts'[x].dust[e]
  BY <1>3, <1>4
<1>6. \A x \in Keys, n \in 1..Len(Dust) :
        Counts'[x].dust[Dust[n].name] <= Dust[n].max
  BY <1>4 DEF DustKept
<1>7. QED
  BY <1>5, <1>6 DEF DustKept

\* ... so it does if it leaves the checkpoints of its session alone and chooses
\* none.
LEMMA DustSame ==
  ASSUME IsFiniteSet(Requests), Base, DustKept, WaitingTyped,
         NEW k \in Keys, NEW t \in Tallies, Sets(k, t), dusted' = dusted,
         t.dust = Counts[k].dust,
         \A x \in Keys, e \in Entries : Waiting'[x][e] \subseteq Waiting[x][e]
  PROVE  DustKept'
<1>1. t.dust \in [Entries -> Nat] /\ dusted \in [Keys -> [Entries -> Nat]]
  BY DEF Tallies, Base, Typed
<1>2. ASSUME NEW e \in Entries
      PROVE  dusted'[k][e] + Cardinality(Waiting'[k][e]) <= t.dust[e]
  <2>1. Waiting[k][e] \in SUBSET Requests
    BY DEF WaitingTyped
  <2>2. /\ Cardinality(Waiting'[k][e]) \in Nat /\ Cardinality(Waiting[k][e]) \in Nat
        /\ Cardinality(Waiting'[k][e]) <= Cardinality(Waiting[k][e])
    BY <2>1, Fewer
  <2>3. dusted[k][e] + Cardinality(Waiting[k][e]) <= t.dust[e]
    BY DEF DustKept
  <2>4. dusted[k][e] \in Nat /\ t.dust[e] \in Nat
    BY <1>1
  <2>5. QED
    BY <2>2, <2>3, <2>4
<1>3. \A n \in 1..Len(Dust) : t.dust[Dust[n].name] <= Dust[n].max
  BY DEF DustKept
<1>4. QED
  BY <1>2, <1>3, DustSetsKept

\* ... if nothing is counted ...
LEMMA DustStays ==
  ASSUME IsFiniteSet(Requests), Base, DustKept, WaitingTyped, Stays,
         UNCHANGED dusted,
         \A x \in Keys, e \in Entries : Waiting'[x][e] \subseteq Waiting[x][e]
  PROVE  DustKept'
<1>1. CASE Keys = {}
  BY <1>1 DEF DustKept
<1>2. ASSUME NEW k \in Keys PROVE DustKept'
  <2>1. Counts[k] \in Tallies
    BY CountsTyped DEF Base, Typed
  <2>2. Sets(k, Counts[k])
    BY StaysSets
  <2>3. QED
    BY <2>1, <2>2, DustSame
<1>3. QED
  BY <1>1, <1>2

\* ... and if its session starts to count anew.
LEMMA DustForgotten ==
  ASSUME IsFiniteSet(Requests), Base, DustKept, WaitingTyped,
         NEW k \in Keys, NEW c \in Tallies, Sets(k, c),
         c.dust = [e \in Entries |-> 0], ForgetDust(k),
         NEW r \in Requests, NEW t \in Turns, Becomes(r, t), ~Chooses(t)
  PROVE  DustKept'
<1>1. carried \subseteq carried' /\ Choosing(k) \subseteq carried'
  BY DEF ForgetDust
<1>2. \A x \in Keys, e \in Entries :
        Waiting'[x][e] \subseteq Waiting[x][e] \ {r}
  BY <1>1, WaitingMoves
<1>3. \A e \in Entries : Waiting[k][e] \subseteq Choosing(k)
  BY DEF Waiting, Choosing, Chooses
<1>4. \A e \in Entries : Waiting'[k][e] \cap carried' = {}
  BY DEF Waiting
<1>5. \A e \in Entries : Waiting'[k][e] = {}
  BY <1>1, <1>2, <1>3, <1>4
<1>6. dusted' = [dusted EXCEPT ![k] = [e \in Entries |-> 0]]
  BY DEF ForgetDust
<1>7. dusted \in [Keys -> [Entries -> Nat]]
  BY DEF Base, Typed
<1>8. /\ \A x \in Keys \ {k} : dusted'[x] = dusted[x]
      /\ \A e \in Entries : dusted'[k][e] = 0
  BY <1>6, <1>7
<1>9. Cardinality({}) = 0
  BY FS_EmptySet
<1>10. \A e \in Entries : dusted'[k][e] + Cardinality(Waiting'[k][e]) <= c.dust[e]
  <2>1. ASSUME NEW e \in Entries
        PROVE  dusted'[k][e] + Cardinality(Waiting'[k][e]) <= c.dust[e]
    <3>1. Waiting'[k][e] = {} /\ dusted'[k][e] = 0 /\ c.dust[e] = 0
      BY <1>5, <1>8
    <3>2. Cardinality(Waiting'[k][e]) = 0
      BY <1>9, <3>1
    <3>3. QED
      BY <3>1, <3>2
  <2>2. QED
    BY <2>1
<1>11. \A n \in 1..Len(Dust) : c.dust[Dust[n].name] <= Dust[n].max
  BY EntryTyped
<1>12. \A x \in Keys \ {k} :
         /\ dusted'[x] = dusted[x]
         /\ \A e \in Entries : Waiting'[x][e] \subseteq Waiting[x][e]
  BY <1>2, <1>8
<1> HIDE DEF Waiting
<1>13. QED
  BY <1>10, <1>11, <1>12, DustSetsKept

\* The checkpoints are limited by every step of a request.
LEMMA DustStep ==
  ASSUME NeverFull, IsFiniteSet(Requests), EntriesDiffer, Base, FloorKept,
         DustKept, NEW r \in Requests, Step(r)
  PROVE  DustKept'
<1>1. /\ Counts \in [Keys -> Tallies] /\ dusted \in [Keys -> [Entries -> Nat]]
      /\ WaitingTyped
  BY CountsTyped DEF Base, Typed, WaitingTyped, Waiting
<1>2. CASE QuietStep(r)
  <2>1. Quietly(r)
    BY <1>2, QuietSteps
  <2>2. PICK t \in Turns : /\ Becomes(r, t)
                           /\ Chooses(t) => /\ Chooses(turn[r])
                                            /\ t.in = turn[r].in
                                            /\ t.winner = turn[r].winner
    BY <2>1 DEF Quietly
  <2>3. Stays /\ UNCHANGED <<dusted, carried>>
    BY <2>1 DEF Quietly, history
  <2>4. \A x \in Keys, e \in Entries : Waiting'[x][e] \subseteq Waiting[x][e]
    BY <2>2, <2>3, WaitingMoves
  <2>5. QED
    BY <1>1, <2>3, <2>4, DustStays
<1>3. CASE MetaExecute(r) /\ In(r).meta = "reset"
  <2>1. /\ Key(r) \in Keys /\ Sets(Key(r), Nil) /\ Becomes(r, Idle)
        /\ ForgetDust(Key(r))
    BY <1>3, ResetDoes
  <2>2. Nil \in Tallies /\ Nil.dust = [e \in Entries |-> 0]
    BY DEF Nil, Tallies
  <2>3. QED
    BY <1>1, <2>1, <2>2, IdleTyped, DustForgotten
<1>4. CASE RecordTurn(r)
  <2> DEFINE k == Key(r)
             c == Recorded(k, TurnOf(In(r)))
  <2>1. k \in Keys /\ Sets(k, c)
    BY <1>4, RecordDoes DEF FloorKept
  <2>2. PICK t \in Turns : Becomes(r, t) /\ ~Chooses(t)
    BY <1>4, RecordDoes DEF FloorKept
  <2>3. c \in Tallies
    BY <2>1, RecordedTyped DEF Base, Typed
  <2>4. CASE Known(k) /\ ~Expired(k)
    <3>1. c.dust = Counts[k].dust
      BY <2>1, <2>4, RecordedTyped DEF Base, Typed
    <3>2. UNCHANGED <<dusted, carried>>
      BY <1>4, <2>4 DEF RecordTurn
    <3>3. \A x \in Keys, e \in Entries : Waiting'[x][e] \subseteq Waiting[x][e]
      BY <2>2, <3>2, WaitingMoves
    <3> HIDE DEF c
    <3>4. QED
      BY <1>1, <2>1, <2>3, <3>1, <3>2, <3>3, DustSame
  <2>5. CASE ~(Known(k) /\ ~Expired(k))
    <3>1. c.dust = [e \in Entries |-> 0]
      BY <2>1, <2>5, RecordedTyped DEF Base, Typed
    <3>2. ForgetDust(k)
      BY <1>4, <2>5 DEF RecordTurn
    <3> HIDE DEF c
    <3>3. QED
      BY <1>1, <2>1, <2>2, <2>3, <3>1, <3>2, DustForgotten
  <2>6. QED
    BY <2>4, <2>5
<1>5. CASE ReadSlap(r)
  <2> DEFINE k == Key(r)
             progress == KickstartProgress(In(r))
             c == [Counts[k] EXCEPT !.fails = IF progress THEN 0 ELSE @]
  <2>1. k \in Keys /\ Sets(k, c) /\ progress \in BOOLEAN
    BY <1>5, SlapDoes
  <2>2. PICK t \in Turns : Becomes(r, t) /\ ~Chooses(t)
    BY <1>5, SlapDoes
  <2>3. Counts[k] \in Tallies
    BY <1>1, <2>1
  <2>4. c \in Tallies /\ c.dust = Counts[k].dust
    BY <2>1, <2>3 DEF Tallies
  <2>5. UNCHANGED <<dusted, carried>>
    BY <1>5 DEF ReadSlap
  <2>6. \A x \in Keys, e \in Entries : Waiting'[x][e] \subseteq Waiting[x][e]
    BY <2>2, <2>5, WaitingMoves
  <2> HIDE DEF c, progress
  <2>7. QED
    BY <1>1, <2>1, <2>4, <2>5, <2>6, DustSame
<1>6. CASE CheckEntry(r)
  <2> DEFINE k == Key(r)
             n == turn[r].entry
             name == Dust[n].name
             c == [Counts[k] EXCEPT !.dust[Entry(r).name] = @ + 1]
  <2>1. /\ k \in Keys /\ n \in 1..Len(Dust) /\ turn[r].pc = "entries"
    BY <1>6, EntryDoes
  <2>2. PICK t \in Turns, wins \in BOOLEAN :
          /\ Becomes(r, t) /\ t.in = turn[r].in
          /\ t.winner = IF wins THEN n ELSE turn[r].winner
          /\ carried' = IF wins THEN carried \ {r} ELSE carried
          /\ \/ ~wins /\ Stays
             \/ /\ Counts[k].dust[Entry(r).name] < Entry(r).max
                /\ Sets(k, c)
    BY <1>6, EntryDoes
  <2>3. UNCHANGED dusted /\ carried \subseteq carried' \cup {r}
    <3>1. UNCHANGED dusted
      BY <1>6 DEF CheckEntry
    <3>2. QED
      BY <2>2, <3>1
  <2>4. Counts[k] \in Tallies /\ name \in Entries
    BY <1>1, <2>1, EntryTyped
  <2>5. CASE ~wins /\ Stays
    <3>1. t.winner = turn[r].winner /\ carried' = carried
      BY <2>2, <2>5
    <3>2. Chooses(t) => Chooses(turn[r])
      BY <2>1, <3>1 DEF Chooses
    <3>3. \A x \in Keys, e \in Entries : Waiting'[x][e] \subseteq Waiting[x][e]
      BY <2>2, <3>1, <3>2, WaitingMoves
    <3>4. QED
      BY <1>1, <2>3, <2>5, <3>3, DustStays
  <2>6. CASE /\ Counts[k].dust[Entry(r).name] < Entry(r).max
             /\ Sets(k, c)
    <3>1. /\ c \in Tallies
          /\ c.dust = [Counts[k].dust EXCEPT ![name] = @ + 1]
      BY <2>4, TalliesTyped DEF Tallies, Entry
    <3>2. Counts[k].dust \in [Entries -> Nat]
      BY <2>4 DEF Tallies
    <3>3. /\ c.dust[name] = Counts[k].dust[name] + 1
          /\ \A e \in Entries \ {name} : c.dust[e] = Counts[k].dust[e]
      BY <2>4, <3>1, <3>2
    <3> HIDE DEF c
    <3>4. /\ Waiting'[k][name] \subseteq Waiting[k][name] \cup {r}
          /\ \A e \in Entries \ {name} : Waiting'[k][e] \subseteq Waiting[k][e]
          /\ \A x \in Keys \ {k} : \A e \in Entries :
               Waiting'[x][e] \subseteq Waiting[x][e]
      <4>1. /\ t.in.key = k
            /\ wins => t.winner = n
            /\ ~wins => /\ t.winner = turn[r].winner /\ carried' = carried
                        /\ Chooses(t) => Chooses(turn[r])
        BY <2>1, <2>2 DEF Key, In, Chooses
      <4>2. CASE wins
        BY <2>1, <2>2, <2>3, <2>4, <4>1, <4>2, WaitingMoves
      <4>3. CASE ~wins
        BY <2>1, <2>2, <2>3, <2>4, <4>1, <4>3, WaitingMoves
      <4>4. QED
        BY <4>2, <4>3
    <3>5. ASSUME NEW e \in Entries
          PROVE  dusted'[k][e] + Cardinality(Waiting'[k][e]) <= c.dust[e]
      <4>1. Waiting[k][e] \in SUBSET Requests /\ Waiting'[k][e] \in SUBSET Requests
        BY <1>1, <2>1, <2>2, <2>3, WaitingMoves DEF WaitingTyped
      <4>2. /\ IsFiniteSet(Waiting[k][e]) /\ Cardinality(Waiting[k][e]) \in Nat
            /\ Cardinality(Waiting'[k][e]) \in Nat
        BY <4>1, Fewer
      <4>3. /\ dusted[k][e] \in Nat /\ Counts[k].dust[e] \in Nat
            /\ dusted'[k][e] = dusted[k][e]
        BY <1>1, <2>1, <2>3, <3>2
      <4>4. dusted[k][e] + Cardinality(Waiting[k][e]) <= Counts[k].dust[e]
        BY <2>1 DEF DustKept
      <4>5. CASE e = name
        <5>1. /\ IsFiniteSet(Waiting[k][e] \cup {r})
              /\ Cardinality(Waiting[k][e] \cup {r}) \in
                   {Cardinality(Waiting[k][e]), Cardinality(Waiting[k][e]) + 1}
          BY <4>2, FS_AddElement
        <5>2. Waiting'[k][e] \subseteq Waiting[k][e] \cup {r}
          BY <3>4, <4>5
        <5>3. Cardinality(Waiting'[k][e]) <= Cardinality(Waiting[k][e] \cup {r})
          BY <5>1, <5>2, FS_Subset
        <5>4. Cardinality(Waiting'[k][e]) <= Cardinality(Waiting[k][e]) + 1
          BY <4>2, <5>1, <5>3
        <5>5. c.dust[e] = Counts[k].dust[e] + 1
          BY <3>3, <4>5
        <5>6. QED
          BY <4>2, <4>3, <4>4, <5>4, <5>5
      <4>6. CASE e # name
        <5>1. Cardinality(Waiting'[k][e]) <= Cardinality(Waiting[k][e])
          BY <3>4, <4>1, <4>6, Fewer
        <5>2. QED
          BY <3>3, <4>2, <4>3, <4>4, <4>6, <5>1
      <4>7. QED
        BY <4>5, <4>6
    <3>6. ASSUME NEW m \in 1..Len(Dust)
          PROVE  c.dust[Dust[m].name] <= Dust[m].max
      <4>1. Dust[m].name \in Entries /\ Dust[m].max \in Nat
        BY EntryTyped
      <4>2. CASE m = n
        BY <2>4, <2>6, <3>2, <3>3, <4>1, <4>2 DEF Entry
      <4>3. CASE m # n
        <5>1. Dust[m].name # name
          BY <2>1, <4>3 DEF EntriesDiffer
        <5>2. QED
          BY <2>1, <3>3, <4>1, <5>1 DEF DustKept
      <4>4. QED
        BY <4>2, <4>3
    <3>7. \A x \in Keys \ {k} : dusted'[x] = dusted[x]
      BY <2>3
    <3>8. QED
      BY <1>1, <2>1, <2>6, <3>1, <3>4, <3>5, <3>6, <3>7, DustSetsKept
  <2>7. QED
    BY <2>2, <2>5, <2>6
<1>7. CASE ResolveTarget(r)
  <2> DEFINE k == Key(r)
             c(up) == [Counts[k] EXCEPT !.escalation = IF up THEN @ + 1 ELSE 0]
             name == Dust[turn[r].winner].name
  <2>1. /\ k \in Keys /\ turn[r].pc = "select" /\ carried' = carried \ {r}
        /\ dusted' = IF turn[r].winner = 0 \/ r \in carried THEN dusted
                     ELSE [dusted EXCEPT ![k][name] = @ + 1]
    BY <1>7, ResolveDoes
  <2>2. PICK t \in Turns : Becomes(r, t) /\ ~Chooses(t)
    BY <1>7, ResolveDoes
  <2>3. PICK up \in BOOLEAN : Sets(k, c(up))
    BY <1>7, ResolveDoes
  <2>4. Counts[k] \in Tallies
    BY <1>1, <2>1
  <2>5. c(up) \in Tallies /\ c(up).dust = Counts[k].dust
    BY <2>4 DEF Tallies
  <2> HIDE DEF c
  <2>6. \A x \in Keys, e \in Entries :
          Waiting'[x][e] \subseteq Waiting[x][e] \ {r}
    BY <2>1, <2>2, WaitingMoves
  <2>7. CASE turn[r].winner = 0 \/ r \in carried
    BY <1>1, <2>1, <2>3, <2>5, <2>6, <2>7, DustSame
  <2>8. CASE ~(turn[r].winner = 0 \/ r \in carried)
    <3>1. turn[r].winner \in 1..Len(Dust)
      BY <2>8, PipelineAssumption DEF Base, Typed, Turns
    <3>2. name \in Entries
      BY <3>1, EntryTyped
    <3>3. r \in Waiting[k][name]
      BY <2>1, <2>8, <3>2 DEF Waiting, Chooses
    <3> HIDE DEF name
    <3>4. dusted' = [dusted EXCEPT ![k][name] = @ + 1]
      BY <2>1, <2>8
    <3>5. /\ dusted'[k][name] = dusted[k][name] + 1
          /\ \A e \in Entries \ {name} : dusted'[k][e] = dusted[k][e]
          /\ \A x \in Keys \ {k} : dusted'[x] = dusted[x]
      BY <1>1, <2>1, <3>2, <3>4
    <3>6. ASSUME NEW e \in Entries
          PROVE  dusted'[k][e] + Cardinality(Waiting'[k][e]) <= c(up).dust[e]
      <4>1. Waiting[k][e] \in SUBSET Requests
        BY <1>1, <2>1 DEF WaitingTyped
      <4>2. /\ IsFiniteSet(Waiting[k][e]) /\ Cardinality(Waiting[k][e]) \in Nat
            /\ Cardinality(Waiting'[k][e]) \in Nat
            /\ Cardinality(Waiting'[k][e]) <= Cardinality(Waiting[k][e])
        BY <2>1, <2>6, <4>1, Fewer
      <4>3. /\ dusted[k][e] \in Nat /\ c(up).dust[e] \in Nat
            /\ dusted[k][e] + Cardinality(Waiting[k][e]) <= c(up).dust[e]
        BY <1>1, <2>1, <2>5 DEF DustKept, Tallies
      <4>4. CASE e = name
        <5>1. /\ IsFiniteSet(Waiting[k][e] \ {r})
              /\ Cardinality(Waiting[k][e] \ {r}) = Cardinality(Waiting[k][e]) - 1
          BY <3>3, <4>2, <4>4, FS_RemoveElement
        <5>2. Cardinality(Waiting'[k][e]) <= Cardinality(Waiting[k][e]) - 1
          BY <2>1, <2>6, <5>1, FS_Subset
        <5>3. QED
          BY <3>5, <4>2, <4>3, <4>4, <5>2
      <4>5. CASE e # name
        BY <3>5, <4>2, <4>3, <4>5
      <4>6. QED
        BY <4>4, <4>5
    <3>7. \A n \in 1..Len(Dust) : c(up).dust[Dust[n].name] <= Dust[n].max
      BY <2>1, <2>5 DEF DustKept
    <3>8. QED
      BY <1>1, <2>1, <2>3, <2>5, <2>6, <3>5, <3>6, <3>7, DustSetsKept
  <2>9. QED
    BY <2>7, <2>8
<1>8. CASE InjectPrompts(r)
  <2> DEFINE k == Key(r)
             c == [Counts[k] EXCEPT !.fails = @ + 1]
  <2>1. /\ k \in Keys /\ (Stays \/ Sets(k, c))
        /\ UNCHANGED <<dusted, carried>>
    BY <1>8, InjectDoes
  <2>2. PICK t \in Turns : Becomes(r, t) /\ ~Chooses(t)
    BY <1>8, InjectDoes
  <2>3. \A x \in Keys, e \in Entries : Waiting'[x][e] \subseteq Waiting[x][e]
    BY <2>1, <2>2, WaitingMoves
  <2>4. Counts[k] \in Tallies
    BY <1>1, <2>1
  <2>5. c \in Tallies /\ c.dust = Counts[k].dust
    BY <2>4 DEF Tallies
  <2> HIDE DEF c
  <2>6. CASE Stays
    BY <1>1, <2>1, <2>3, <2>6, DustStays
  <2>7. CASE Sets(k, c)
    BY <1>1, <2>1, <2>3, <2>5, <2>7, DustSame
  <2>8. QED
    BY <2>1, <2>6, <2>7
<1>9. CASE CycleKill(r)
  <2> DEFINE k == Key(r)
             c == [Counts[k] EXCEPT !.floor = IF Floor > @ THEN Floor ELSE @]
  <2>1. k \in Keys /\ Sets(k, c) /\ UNCHANGED <<dusted, carried>>
    BY <1>9, KillDoes
  <2>2. PICK t \in Turns : Becomes(r, t) /\ ~Chooses(t)
    BY <1>9, KillDoes
  <2>3. \A x \in Keys, e \in Entries : Waiting'[x][e] \subseteq Waiting[x][e]
    BY <2>1, <2>2, WaitingMoves
  <2>4. Counts[k] \in Tallies
    BY <1>1, <2>1
  <2>5. c \in Tallies
    BY <2>4, TalliesTyped
  <2>6. c.dust = Counts[k].dust
    BY <2>4 DEF Tallies
  <2> HIDE DEF c
  <2>7. QED
    BY <1>1, <2>1, <2>3, <2>5, <2>6, DustSame
<1>10. QED
  BY <1>2, <1>3, <1>4, <1>5, <1>6, <1>7, <1>8, <1>9, StepKinds

\* No more read slaps are injected than are allowed to each of the requests but
\* one, and no more checkpoints are sent than an entry allows, for any requests,
\* sessions and entries, if no session is evicted and no entries share a name.
THEOREM PromptsLimited ==
  NeverFull /\ IsFiniteSet(Requests) /\ EntriesDiffer => (Spec => []PromptsCapped)
<1> SUFFICES ASSUME NeverFull, IsFiniteSet(Requests), EntriesDiffer
             PROVE  Spec => []PromptsCapped
  OBVIOUS
<1> DEFINE IInv == Base /\ FloorKept /\ SlapKept /\ DustKept
<1>1. ASSUME Init PROVE IInv
  <2>1. Base /\ FloorKept /\ Counts = [k \in Keys |-> Nil]
    BY <1>1, BaseInit, BaseInvariant
  <2>2. \A r \in Requests : ~Kicks(turn[r]) /\ ~Chooses(turn[r])
    BY <1>1, IdleTyped DEF Init
  <2>3. \A k \in Keys : /\ Kicking[k] = {}
                        /\ \A e \in Entries : Waiting[k][e] = {}
    BY <2>2 DEF Kicking, Waiting
  <2>4. Cardinality({}) = 0 /\ Cardinality(Requests) \in Nat
    BY FS_EmptySet, FS_CardinalityType
  <2>5. \A k \in Keys : /\ slapped[k] = 0 /\ Counts[k].fails = 0
                        /\ \A e \in Entries : /\ dusted[k][e] = 0
                                              /\ Counts[k].dust[e] = 0
    BY <1>1, <2>1 DEF Init, Nil
  <2>6. SlapKept
    <3>1. 0 <= SlapBound
      BY <2>4, PipelineAssumption DEF SlapBound
    <3>2. \A k \in Keys : Cardinality(Kicking[k]) = 0
      BY <2>3, <2>4
    <3>3. QED
      BY <2>5, <3>1, <3>2 DEF SlapKept
  <2>7. DustKept
    <3>1. \A k \in Keys, e \in Entries : Cardinality(Waiting[k][e]) = 0
      BY <2>3, <2>4
    <3>2. \A k \in Keys, n \in 1..Len(Dust) :
            Counts[k].dust[Dust[n].name] <= Dust[n].max
      BY <2>5, EntryTyped
    <3>3. QED
      BY <2>5, <3>1, <3>2 DEF DustKept
  <2>8. QED
    BY <2>1, <2>6, <2>7
<1>2. ASSUME IInv, [Next]_vars PROVE IInv'
  <2>1. Base' /\ FloorKept'
    BY <1>2, BaseInvariant
  <2>2. CASE \E r \in Requests : Step(r)
    BY <1>2, <2>1, <2>2, SlapStep, DustStep
  <2>3. CASE (Tick /\ UNCHANGED <<turn, turns, history>>) \/ UNCHANGED vars
    <3>1. Stays /\ UNCHANGED <<turn, history>>
      BY <1>2, <2>3, TickQuiet
    <3>2. Kicking' = Kicking /\ Waiting' = Waiting /\ SlapBound' = SlapBound
      BY <3>1 DEF Kicking, Waiting, SlapBound, Kicks, Chooses, Key, In, history
    <3>3. SlapKept'
      BY <1>2, <3>1, <3>2 DEF SlapKept, Stays, history
    <3>4. DustKept'
      BY <1>2, <3>1, <3>2 DEF DustKept, Stays, history
    <3>5. QED
      BY <2>1, <3>3, <3>4
  <2>4. QED
    BY <1>2, <2>2, <2>3 DEF Next
<1>3. IInv => PromptsCapped
  <2>1. SUFFICES ASSUME IInv PROVE PromptsCapped
    OBVIOUS
  <2>2. TypeOK
    <3>1. \A r \in Requests : turn[r] \in Turns /\ Placed(turn[r], DOMAIN sessions)
      BY <2>1 DEF Base, Typed
    <3>2. QED
      BY <2>1, <3>1 DEF Base, Typed, Turns, Placed, TypeOK
  <2>3. Counts \in [Keys -> Tallies]
    BY <2>1, CountsTyped DEF Base, Typed
  <2>4. ASSUME NEW k \in Keys
        PROVE  slapped[k] <= MaxFailures + Cardinality(Requests) - 1
    <3>1. slapped[k] \in Nat /\ Counts[k].fails \in Nat
      BY <2>1, <2>3 DEF Base, Typed, Tallies
    <3>2. Cardinality(Kicking[k]) \in Nat /\ Cardinality(Requests) \in Nat
      <4>1. Kicking[k] \in SUBSET Requests
        BY DEF Kicking
      <4>2. QED
        BY <4>1, Fewer
    <3>3. QED
      BY <2>1, <3>1, <3>2, PipelineAssumption DEF SlapKept, SlapBound
  <2>5. ASSUME NEW k \in Keys, NEW n \in 1..Len(Dust)
        PROVE  dusted[k][Dust[n].name] <= Dust[n].max
    <3> DEFINE e == Dust[n].name
    <3>1. e \in Entries /\ Dust[n].max \in Nat
      BY EntryTyped
    <3>2. dusted[k][e] \in Nat /\ Counts[k].dust[e] \in Nat
      BY <2>1, <2>3, <3>1 DEF Base, Typed, Tallies
    <3>3. Cardinality(Waiting[k][e]) \in Nat
      <4>1. Waiting[k][e] \in SUBSET Requests
        BY <3>1 DEF Waiting
      <4>2. QED
        BY <4>1, Fewer
    <3>4. /\ dusted[k][e] + Cardinality(Waiting[k][e]) <= Counts[k].dust[e]
          /\ Counts[k].dust[e] <= Dust[n].max
      BY <2>1, <3>1 DEF DustKept
    <3>5. QED
      BY <3>1, <3>2, <3>3, <3>4
  <2>6. QED
    BY <2>2, <2>4, <2>5 DEF PromptsCapped
<1> HIDE DEF IInv
<1>4. QED
  BY <1>1, <1>2, <1>3, PTL DEF Spec

-----------------------------------------------------------------------------
(* The session table. *)

\* What an eviction leaves is part of the table and has room for one more; a
\* session is dropped from a full table only, and a live one only when nothing
\* that has expired is left and the newcomer fills the table again.
Leaves(kept) ==
  /\ kept \subseteq DOMAIN sessions
  /\ IsFiniteSet(kept)
  /\ Cardinality(kept) \in Nat /\ Cardinality(kept) < MaxSessions
  /\ \A x \in DOMAIN sessions \ kept :
       /\ Cardinality(DOMAIN sessions) = MaxSessions
       /\ \/ Expired(x)
          \/ /\ Cardinality(kept) + 1 = MaxSessions
             /\ \A y \in kept : ~Expired(y)

\* evictExpiredOrOldest leaves room for one session.
LEMMA EvictionLeaves ==
  ASSUME IsFiniteSet(DOMAIN sessions), SessionsBounded,
         NEW kept \in EvictExpiredOrOldest
  PROVE  Leaves(kept)
<1> DEFINE D == DOMAIN sessions
           live == {x \in D : ~Expired(x)}
<1>0. MaxSessions \in Nat
  BY TrackerAssumption
<1>1. Cardinality(D) \in Nat /\ Cardinality(D) <= MaxSessions
  BY FS_CardinalityType DEF SessionsBounded
<1>2. live \subseteq D
  OBVIOUS
<1>3. /\ IsFiniteSet(live) /\ Cardinality(live) \in Nat
      /\ Cardinality(live) <= Cardinality(D)
  BY <1>2, FS_Subset, FS_CardinalityType
<1>4. CASE Cardinality(D) < MaxSessions
  <2>1. kept = D
    BY <1>4 DEF EvictExpiredOrOldest
  <2>2. QED
    BY <1>1, <1>4, <2>1 DEF Leaves
<1>5. CASE ~(Cardinality(D) < MaxSessions) /\ Cardinality(live) < MaxSessions
  <2>1. kept = live
    BY <1>5 DEF EvictExpiredOrOldest
  <2>2. Cardinality(D) = MaxSessions
    BY <1>0, <1>1, <1>5
  <2>3. \A x \in D \ live : Expired(x)
    OBVIOUS
  <2>4. QED
    BY <1>2, <1>3, <1>5, <2>1, <2>2, <2>3 DEF Leaves
<1>6. CASE ~(Cardinality(D) < MaxSessions) /\ ~(Cardinality(live) < MaxSessions)
  <2>1. Cardinality(D) = MaxSessions /\ Cardinality(live) = MaxSessions
    BY <1>0, <1>1, <1>3, <1>6
  <2>2. PICK x \in live : kept = live \ {x}
    BY <1>6 DEF EvictExpiredOrOldest
  <2>3. IsFiniteSet(kept) /\ Cardinality(kept) = Cardinality(live) - 1
    BY <1>3, <2>2, FS_RemoveElement
  <2>4. MaxSessions # 0
    BY TrackerAssumption
  <2>5. /\ Cardinality(kept) \in Nat /\ Cardinality(kept) < MaxSessions
        /\ Cardinality(kept) + 1 = MaxSessions
    BY <1>0, <1>3, <2>1, <2>3, <2>4
  <2>6. kept \subseteq D /\ \A y \in kept : ~Expired(y)
    BY <2>2
  <2>7. QED
    BY <2>1, <2>3, <2>5, <2>6 DEF Leaves
<1>7. QED
  BY <1>4, <1>5, <1>6

-----------------------------------------------------------------------------
(* The inductive invariant. *)

TableInv == IsFiniteSet(DOMAIN sessions) /\ SessionsTyped /\ SessionsBounded

\* What a call on k may do: change the session it finds, put a new one beside
\* what an eviction leaves, drop it, or nothing.
Replaces(k) ==
  /\ k \in DOMAIN sessions
  /\ \E s \in SessionState : sessions' = [sessions EXCEPT ![k] = s]
Adds(k) ==
  /\ k \notin DOMAIN sessions
  /\ \E s \in SessionState : \E kept \in EvictExpiredOrOldest :
       sessions' = [x \in kept \cup {k} |-> IF x = k THEN s ELSE sessions[x]]
Drops(k) == sessions' = [x \in DOMAIN sessions \ {k} |-> sessions[x]]
Touches(k) == Replaces(k) \/ Adds(k) \/ Drops(k) \/ UNCHANGED sessions

\* Whatever a call does, the table keeps its types and its limit.
LEMMA TouchKeeps ==
  ASSUME TableInv, NEW k \in Keys, Touches(k), UNCHANGED now
  PROVE  TableInv' /\ LiveSessionsKept
<1> USE DEF TableInv
<1>1. CASE Replaces(k)
  <2>1. PICK s \in SessionState : sessions' = [sessions EXCEPT ![k] = s]
    BY <1>1 DEF Replaces
  <2>2. DOMAIN sessions' = DOMAIN sessions
    BY <2>1
  <2>3. \A x \in DOMAIN sessions : sessions'[x] \in SessionState
    BY <2>1 DEF SessionsTyped
  <2>4. SessionsTyped' /\ SessionsBounded'
    BY <2>2, <2>3 DEF SessionsTyped, SessionsBounded
  <2>5. LiveSessionsKept
    BY <2>2 DEF LiveSessionsKept
  <2>6. QED
    BY <2>2, <2>4, <2>5
<1>2. CASE Adds(k)
  <2>1. PICK s \in SessionState, kept \in EvictExpiredOrOldest :
          sessions' = [x \in kept \cup {k} |-> IF x = k THEN s ELSE sessions[x]]
    BY <1>2 DEF Adds
  <2>2. Leaves(kept)
    BY EvictionLeaves
  <2>3. k \notin DOMAIN sessions /\ k \notin kept
    BY <1>2, <2>2 DEF Adds, Leaves
  <2>4. DOMAIN sessions' = kept \cup {k}
    BY <2>1
  <2>5. /\ IsFiniteSet(kept \cup {k})
        /\ Cardinality(kept \cup {k}) = Cardinality(kept) + 1
    BY <2>2, <2>3, FS_AddElement DEF Leaves
  <2>6. MaxSessions \in Nat
    BY TrackerAssumption
  <2>7. SessionsBounded'
    BY <2>2, <2>4, <2>5, <2>6 DEF SessionsBounded, Leaves
  <2>8. kept \subseteq DOMAIN sessions
    BY <2>2 DEF Leaves
  <2>9. \A x \in kept \cup {k} : sessions'[x] \in SessionState
    BY <2>1, <2>8 DEF SessionsTyped
  <2>10. SessionsTyped'
    BY <2>4, <2>8, <2>9 DEF SessionsTyped
  <2>11. /\ DOMAIN sessions \ DOMAIN sessions' = DOMAIN sessions \ kept
         /\ DOMAIN sessions \ (DOMAIN sessions \ DOMAIN sessions') = kept
    BY <2>3, <2>4, <2>8
  <2>12. LiveSessionsKept
    BY <2>2, <2>4, <2>5, <2>11 DEF LiveSessionsKept, Leaves
  <2>13. QED
    BY <2>4, <2>5, <2>7, <2>10, <2>12
<1>3. CASE Drops(k)
  <2>1. DOMAIN sessions' = DOMAIN sessions \ {k}
    BY <1>3 DEF Drops
  <2>2. /\ IsFiniteSet(DOMAIN sessions')
        /\ Cardinality(DOMAIN sessions') <= Cardinality(DOMAIN sessions)
    BY <2>1, FS_Subset
  <2>3. /\ Cardinality(DOMAIN sessions) \in Nat
        /\ Cardinality(DOMAIN sessions') \in Nat /\ MaxSessions \in Nat
    BY <2>2, FS_CardinalityType, TrackerAssumption
  <2>4. SessionsBounded'
    BY <2>2, <2>3 DEF SessionsBounded
  <2>5. SessionsTyped'
    BY <1>3, <2>1 DEF Drops, SessionsTyped
  <2>6. LiveSessionsKept
    BY <2>1 DEF LiveSessionsKept
  <2>7. QED
    BY <2>2, <2>4, <2>5, <2>6
<1>4. CASE UNCHANGED sessions
  BY <1>4 DEF SessionsTyped, SessionsBounded, LiveSessionsKept
<1>5. QED
  BY <1>1, <1>2, <1>3, <1>4 DEF Touches

-----------------------------------------------------------------------------
(* Each method touches the table so, with a state of the right types. *)

\* A session begins with a state of the right types.
LEMMA FirstState ==
  ASSUME TableInv PROVE NewState \in SessionState
BY TrackerAssumption DEF TableInv, SessionsTyped, NewState, SessionState

\* Recording a turn keeps the types, for a known session.
LEMMA TurnTyped ==
  ASSUME TableInv, NEW t \in AnyTurn, NEW s \in SessionState
  PROVE  AfterExpiry(s, t) \in SessionState /\ AfterTurn(s, t) \in SessionState
<1>1. t.root \in Nat /\ t.prompt \in Nat /\ t.messages \in Nat
  BY DEF AnyTurn
<1>2. now \in Nat
  BY DEF TableInv, SessionsTyped
<1>3. Cleaned(s) \in [Models -> Nat]
  BY DEF Cleaned, SessionState
<1>4. CountedRetries(s, t) \in Nat
  BY DEF CountedRetries, SessionState
<1>5. (IF s.floor > 0 THEN s.floor - 1 ELSE 0) \in Nat
  BY DEF SessionState
<1>6. AfterExpiry(s, t) \in SessionState
  BY <1>1, <1>2, <1>3 DEF AfterExpiry, SessionState
<1>7. AfterTurn(s, t) \in SessionState
  BY <1>1, <1>2, <1>3, <1>4, <1>5 DEF AfterTurn, SessionState
<1>8. QED
  BY <1>6, <1>7

\* RecordTurnTaskWithHold
LEMMA RecordTurnTouches ==
  ASSUME TableInv, NEW k \in Keys, NEW t \in AnyTurn,
         RecordTurnTaskWithHold(k, t)
  PROVE  Touches(k)
<1>1. CASE Known(k)
  <2>1. sessions[k] \in SessionState
    BY <1>1 DEF Known, TableInv, SessionsTyped
  <2>2. PICK s \in SessionState : sessions' = [sessions EXCEPT ![k] = s]
    BY <1>1, <2>1, TurnTyped DEF RecordTurnTaskWithHold, Update
  <2>3. QED
    BY <1>1, <2>2 DEF Touches, Replaces, Known
<1>2. CASE ~Known(k)
  <2>1. t.root \in Nat /\ t.prompt \in Nat /\ t.messages \in Nat
    BY DEF AnyTurn
  <2>2. [NewState EXCEPT !.root = t.root, !.prompt = t.prompt,
                         !.messages = t.messages] \in SessionState
    BY <2>1, FirstState DEF SessionState
  <2>3. QED
    BY <1>2, <2>2 DEF RecordTurnTaskWithHold, Create, Touches, Adds, Known
<1>3. QED
  BY <1>1, <1>2

\* The methods that change a known session only.
LEMMA KnownTouches ==
  ASSUME TableInv, NEW k \in Keys,
         \/ RecordEscalation(k) \/ ResetEscalation(k)
         \/ \E progress \in BOOLEAN , max \in Nat :
             RecordKickstartState(k, progress, max)
         \/ RecordKickstartFailure(k) \/ RecordThoughtSlap(k)
         \/ \E wrote \in BOOLEAN : RecordWriteProgress(k, wrote)
         \/ \E e \in Entries, frequency \in Nat, max \in Nat :
              CheckFairyDust(k, e, frequency, max)
         \/ ResetSession(k)
  PROVE  Touches(k)
<1>1. CASE ~Known(k)
  <2>1. UNCHANGED sessions
    BY <1>1 DEF RecordEscalation, ResetEscalation, RecordKickstartState,
       RecordKickstartFailure, RecordThoughtSlap, RecordWriteProgress,
       CheckFairyDust, DustDue, ResetSession, IfKnown
  <2>2. QED
    BY <2>1 DEF Touches
<1>2. CASE Known(k)
  <2> DEFINE s == sessions[k]
  <2>1. s \in SessionState
    BY <1>2 DEF Known, TableInv, SessionsTyped
  <2>2. SUFFICES \/ UNCHANGED sessions
                 \/ \E new \in SessionState :
                      sessions' = [sessions EXCEPT ![k] = new]
    BY <1>2 DEF Touches, Replaces, Known
  <2>3. CASE RecordEscalation(k)
    <3>1. [s EXCEPT !.escalation = @ + 1] \in SessionState
      BY <2>1 DEF SessionState
    <3>2. QED
      BY <1>2, <2>3, <3>1 DEF RecordEscalation, IfKnown, Update
  <2>4. CASE ResetEscalation(k)
    <3>1. [s EXCEPT !.escalation = 0] \in SessionState
      BY <2>1 DEF SessionState
    <3>2. QED
      BY <1>2, <2>4, <3>1 DEF ResetEscalation, IfKnown, Update
  <2>5. CASE \E progress \in BOOLEAN , max \in Nat :
             RecordKickstartState(k, progress, max)
    <3>1. [s EXCEPT !.kicks = 0, !.kickFailures = 0] \in SessionState
      BY <2>1 DEF SessionState
    <3>2. [s EXCEPT !.kicks = @ + 1] \in SessionState
      BY <2>1 DEF SessionState
    <3>3. QED
      BY <1>2, <2>1, <2>5, <3>1, <3>2 DEF RecordKickstartState, IfKnown, Update
  <2>6. CASE RecordKickstartFailure(k)
    <3>1. [s EXCEPT !.kickFailures = @ + 1] \in SessionState
      BY <2>1 DEF SessionState
    <3>2. QED
      BY <1>2, <2>6, <3>1 DEF RecordKickstartFailure, IfKnown, Update
  <2>7. CASE RecordThoughtSlap(k)
    <3>1. [s EXCEPT !.thoughtSlaps = @ + 1] \in SessionState
      BY <2>1 DEF SessionState
    <3>2. QED
      BY <1>2, <2>7, <3>1 DEF RecordThoughtSlap, IfKnown, Update
  <2>8. CASE \E wrote \in BOOLEAN : RecordWriteProgress(k, wrote)
    <3>1. [s EXCEPT !.writes = @ + 1] \in SessionState
      BY <2>1 DEF SessionState
    <3>2. QED
      BY <1>2, <2>1, <2>8, <3>1 DEF RecordWriteProgress, IfKnown, Update
  <2>9. CASE \E e \in Entries, frequency \in Nat, max \in Nat :
             CheckFairyDust(k, e, frequency, max)
    <3>1. \A e \in Entries : [s EXCEPT !.dust[e] = @ + 1] \in SessionState
      BY <2>1 DEF SessionState
    <3>2. QED
      BY <2>9, <3>1 DEF CheckFairyDust, Update
  <2>10. CASE ResetSession(k)
    <3>1. [s EXCEPT !.retries = 0, !.escalation = 0, !.kicks = 0,
                    !.kickFailures = 0, !.floor = 0,
                    !.cooling = [m \in Models |-> 0], !.writes = 0,
                    !.dust = [e \in Entries |-> 0], !.guards = {},
                    !.root = 0, !.prompt = 0, !.messages = 0] \in SessionState
      BY <2>1 DEF SessionState
    <3>2. QED
      BY <1>2, <2>10, <3>1 DEF ResetSession, IfKnown, Update
  <2>11. QED
    BY <2>3, <2>4, <2>5, <2>6, <2>7, <2>8, <2>9, <2>10
<1>3. QED
  BY <1>1, <1>2

\* A method that changes the session it finds or makes touches the table so, if
\* both the session found and the new one get a state of the right types.
LEMMA UpsertTouches ==
  ASSUME TableInv, NEW k \in Keys, NEW new \in [SessionState -> SessionState],
         \/ /\ Known(k)
            /\ Update(k, new[sessions[k]])
         \/ /\ ~Known(k)
            /\ Create(k, new[NewState])
  PROVE  Touches(k)
<1>1. CASE Known(k) /\ Update(k, new[sessions[k]])
  <2>1. sessions[k] \in SessionState
    BY <1>1 DEF Known, TableInv, SessionsTyped
  <2>2. new[sessions[k]] \in SessionState
    BY <2>1
  <2>3. QED
    BY <1>1, <2>2 DEF Update, Touches, Replaces, Known
<1>2. CASE ~Known(k) /\ Create(k, new[NewState])
  <2>1. new[NewState] \in SessionState
    BY FirstState
  <2>2. QED
    BY <1>2, <2>1 DEF Create, Touches, Adds, Known
<1>3. QED
  BY <1>1, <1>2

\* RecordCycleKill
LEMMA CycleKillTouches ==
  ASSUME TableInv, NEW k \in Keys, NEW m \in Models,
         NEW floor \in Nat, RecordCycleKill(k, m, floor)
  PROVE  Touches(k)
<1> DEFINE new == [s \in SessionState |->
                     [s EXCEPT !.floor = IF floor > @ THEN floor ELSE @,
                               !.cooling[m] = now + Cooldown]]
<1>1. now + Cooldown \in Nat
  BY TrackerAssumption DEF TableInv, SessionsTyped
<1>2. new \in [SessionState -> SessionState]
  BY <1>1 DEF SessionState
<1>3. NewState \in SessionState
  BY FirstState
<1>4. Known(k) => sessions[k] \in SessionState
  BY DEF Known, TableInv, SessionsTyped
<1>5. \/ Known(k) /\ Update(k, new[sessions[k]])
      \/ ~Known(k) /\ Create(k, new[NewState])
  BY <1>3, <1>4 DEF RecordCycleKill, Upsert
<1> HIDE DEF new
<1>6. QED
  BY <1>2, <1>5, UpsertTouches

\* The guardrail switches.
LEMMA SetGuardTouches ==
  ASSUME TableInv, NEW k \in Keys, NEW g \in Toggles, NEW on \in BOOLEAN,
         SetGuard(k, g, on)
  PROVE  Touches(k)
<1> DEFINE new == [s \in SessionState |->
                     [s EXCEPT !.guards = IF on THEN @ \cup {g} ELSE @ \ {g}]]
<1>1. new \in [SessionState -> SessionState]
  BY DEF SessionState
<1>2. NewState \in SessionState
  BY FirstState
<1>3. Known(k) => sessions[k] \in SessionState
  BY DEF Known, TableInv, SessionsTyped
<1>4. \/ Known(k) /\ Update(k, new[sessions[k]])
      \/ ~Known(k) /\ Create(k, new[NewState])
  BY <1>2, <1>3 DEF SetGuard, Upsert
<1> HIDE DEF new
<1>5. QED
  BY <1>1, <1>4, UpsertTouches

\* ShouldDebounceMeta
LEMMA DebounceTouches ==
  ASSUME TableInv, NEW k \in Keys, NEW d \in Directives, ShouldDebounceMeta(k, d)
  PROVE  Touches(k)
<1> DEFINE new == [s \in SessionState |->
                     IF Debounced(k, d) THEN [s EXCEPT !.last = now]
                     ELSE [s EXCEPT !.last = now, !.meta = d, !.metaAt = now]]
<1>1. now \in Nat
  BY DEF TableInv, SessionsTyped
<1>2. new \in [SessionState -> SessionState]
  BY <1>1 DEF SessionState
<1>3. NewState \in SessionState
  BY FirstState
<1>4. Known(k) => sessions[k] \in SessionState
  BY DEF Known, TableInv, SessionsTyped
<1>5. \/ Known(k) /\ Update(k, new[sessions[k]])
      \/ ~Known(k) /\ Create(k, new[NewState])
  BY <1>3, <1>4 DEF ShouldDebounceMeta, Upsert
<1> HIDE DEF new
<1>6. QED
  BY <1>2, <1>5, UpsertTouches

\* Every call on k touches the table only so.
LEMMA CallTouches ==
  ASSUME TableInv, NEW k \in Keys, TrackerCall(k, AnyTurn, Nat)
  PROVE  Touches(k)
<1>1. CASE \E t \in AnyTurn : RecordTurnTaskWithHold(k, t)
  BY <1>1, RecordTurnTouches
<1>2. CASE \E m \in Models, floor \in Nat : RecordCycleKill(k, m, floor)
  BY <1>2, CycleKillTouches
<1>3. CASE \E g \in Toggles, on \in BOOLEAN : SetGuard(k, g, on)
  BY <1>3, SetGuardTouches
<1>4. CASE \E d \in Directives : ShouldDebounceMeta(k, d)
  BY <1>4, DebounceTouches
<1>5. CASE Reset(k)
  BY <1>5 DEF Reset, Touches, Drops
<1>6. QED
  BY <1>1, <1>2, <1>3, <1>4, <1>5, KnownTouches DEF TrackerCall

-----------------------------------------------------------------------------
\* The table begins empty.
LEMMA InitTable == TrackerInit => TableInv
<1> SUFFICES ASSUME TrackerInit PROVE TableInv
  OBVIOUS
<1>1. DOMAIN sessions = {} /\ now = 0
  BY DEF TrackerInit
<1>2. IsFiniteSet(DOMAIN sessions) /\ Cardinality(DOMAIN sessions) = 0
  BY <1>1, FS_EmptySet
<1>3. QED
  BY <1>1, <1>2, TrackerAssumption DEF TableInv, SessionsTyped, SessionsBounded

\* A step of TrackerNext keeps the invariant and spares live sessions.
LEMMA NextTable ==
  ASSUME TableInv, [TrackerNext]_sessionVars
  PROVE  TableInv' /\ [LiveSessionsKept]_sessionVars
<1>1. CASE Tick
  <2>1. TableInv'
    BY <1>1 DEF Tick, TableInv, SessionsTyped, SessionsBounded
  <2>2. LiveSessionsKept
    BY <1>1 DEF Tick, LiveSessionsKept
  <2>3. QED
    BY <2>1, <2>2
<1>2. CASE UNCHANGED now /\ \E k \in Keys : TrackerCall(k, AnyTurn, Nat)
  BY <1>2, CallTouches, TouchKeeps
<1>3. CASE UNCHANGED sessionVars
  BY <1>3 DEF TableInv, SessionsTyped, SessionsBounded, sessionVars
<1>4. QED
  BY <1>1, <1>2, <1>3 DEF TrackerNext

(* Whatever calls are made, in whatever order and at whatever times, the   *)
(* table holds MaxSessions sessions at most (session.go:263), and a new    *)
(* session costs a live one its state only when the table is full and      *)
(* nothing that has expired is left in it.                                 *)
THEOREM TableMakesRoom == TrackerSpec => RoomIsMade
<1>1. TrackerInit => TableInv
  BY InitTable
<1>2. TableInv /\ [TrackerNext]_sessionVars => TableInv'
  BY NextTable
<1>3. TableInv /\ [TrackerNext]_sessionVars => [LiveSessionsKept]_sessionVars
  BY NextTable
<1>4. TableInv => SessionsTyped /\ SessionsBounded
  BY DEF TableInv
<1>5. QED
  BY <1>1, <1>2, <1>3, <1>4, PTL DEF TrackerSpec, RoomIsMade
=============================================================================
