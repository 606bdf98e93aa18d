--------------------------- MODULE SessionTracker ---------------------------
(***************************************************************************)
(* router.SessionTracker: what the gateway remembers of a client session   *)
(* between turns.  Every method takes the tracker's mutex once, so each is *)
(* one atomic action; a turn makes several of these calls and the lock is  *)
(* free in between (module TurnPipeline).                                  *)
(*                                                                         *)
(* A prompt hash is a number, 0 for an empty prompt; `now' is the coarse   *)
(* clock that TTLs and cooldowns are measured on.  Calls with an empty     *)
(* session key return at once and are left out.                            *)
(***************************************************************************)
EXTENDS Naturals, FiniteSets

CONSTANTS Keys,        \* session keys
          Models,      \* model identifiers
          Entries,     \* names of fairy-dust entries
          Directives,  \* meta directives (@nacho:...) that debounce
          Toggles,     \* guardrails a directive may switch
          MaxSessions, \* maxSessions (10000)
          TTL,         \* ttl (5 min)
          Cooldown,    \* model cooldown (2 min)
          MetaWindow,  \* debounce window (2 s)
          MaxEscalationTurns, \* 3
          Nothing,     \* no meta directive yet
          MaxClock     \* bound: clock

ASSUME TrackerAssumption ==
    /\ MaxSessions \in Nat \ {0}
    /\ TTL \in Nat /\ Cooldown \in Nat \ {0} /\ MetaWindow \in Nat \ {0}
    /\ MaxEscalationTurns \in Nat /\ MaxClock \in Nat
    /\ Toggles \subseteq {"kickstart", "cyclekiller", "shield", "raw", "fairydust"}
    /\ Nothing \notin Directives

VARIABLES sessions, \* st.sessions: from the tracked keys to SessionState
          now       \* the clock

\* &SessionState{LastTurnTime: now}
NewState ==
    [retries |-> 0, escalation |-> 0, kicks |-> 0, kickFailures |-> 0,
     thoughtSlaps |-> 0, floor |-> 0, last |-> now, root |-> 0, prompt |-> 0,
     messages |-> 0, meta |-> Nothing, metaAt |-> 0,
     cooling |-> [m \in Models |-> 0], writes |-> 0,
     dust |-> [e \in Entries |-> 0], guards |-> {}]

\* A turn as the tracker is told of it.
Turn(t) ==
    /\ DOMAIN t = {"root", "prompt", "messages", "client", "progress", "hold"}
    /\ t.root \in Nat /\ t.prompt \in Nat /\ t.messages \in Nat
    /\ t.client \in {"agent", "chat"}        \* hasTools, or not
    /\ t.progress \in BOOLEAN /\ t.hold \in BOOLEAN

Known(k) == k \in DOMAIN sessions

Expired(k) == now - sessions[k].last > TTL

-----------------------------------------------------------------------------
\* Mutant: only expired sessions make room.
EvictExpiredOnly ==
    IF Cardinality(DOMAIN sessions) < MaxSessions
      THEN {DOMAIN sessions}
      ELSE {{k \in DOMAIN sessions : ~Expired(k)}}

\* Mutant: any session makes room, before the expired ones are looked at.
EvictAny ==
    IF Cardinality(DOMAIN sessions) < MaxSessions
      THEN {DOMAIN sessions}
      ELSE {DOMAIN sessions \ {k} : k \in DOMAIN sessions}

\* evictExpiredOrOldest: what may be left.  A full table drops its expired
\* sessions and, if it is still full, whichever one the map yields first.
EvictExpiredOrOldest ==
    LET live == {k \in DOMAIN sessions : ~Expired(k)}
    IN  IF Cardinality(DOMAIN sessions) < MaxSessions THEN {DOMAIN sessions}
        ELSE IF Cardinality(live) < MaxSessions THEN {live}
        ELSE {live \ {k} : k \in live}

Create(k, s) ==
    \E kept \in EvictExpiredOrOldest :
        sessions' = [x \in kept \cup {k} |-> IF x = k THEN s ELSE sessions[x]]

Update(k, s) == sessions' = [sessions EXCEPT ![k] = s]

\* getOrCreateState followed by a change of the state it returns.
Upsert(k, Change(_)) ==
    IF Known(k) THEN Update(k, Change(sessions[k]))
                ELSE Create(k, Change(NewState))

\* A method that does nothing for an unknown session.
IfKnown(k, Change(_)) ==
    IF Known(k) THEN Update(k, Change(sessions[k])) ELSE UNCHANGED sessions

-----------------------------------------------------------------------------
(* RecordTurnTaskWithHold *)

\* "New task" was pressed in the agent, or the root prompt is another one.
NewTask(s, t) ==
    \/ t.root # 0 /\ s.root # 0 /\ s.root # t.root
    \/ 0 < t.messages /\ t.messages < s.messages

SamePrompt(s, t) == t.prompt # 0 /\ s.prompt = t.prompt

\* Whether the turn starts afresh, holds its retries or counts as a retry.
Verdict(s, t) ==
    CASE NewTask(s, t) -> "fresh"
      [] ~NewTask(s, t) /\ t.root # 0 /\ t.client = "agent" ->
            IF t.progress THEN "fresh"
            ELSE IF t.hold /\ s.retries > 0 THEN "held" ELSE "retry"
      [] ~NewTask(s, t) /\ t.root # 0 /\ t.client = "chat" ->
            IF SamePrompt(s, t) THEN "retry" ELSE "fresh"
      [] OTHER ->
            IF SamePrompt(s, t) /\ ~t.progress THEN "retry" ELSE "fresh"

CountedRetries(s, t) ==
    CASE Verdict(s, t) = "fresh" -> 0
      [] Verdict(s, t) = "held"  -> s.retries
      [] OTHER                   -> s.retries + 1

\* Expired cooldowns are deleted lazily.
Cleaned(s) ==
    [m \in Models |-> IF now > s.cooling[m] THEN 0 ELSE s.cooling[m]]

AfterExpiry(s, t) ==
    [s EXCEPT !.retries = 0, !.escalation = 0, !.kicks = 0,
              !.kickFailures = 0, !.floor = 0, !.writes = 0,
              !.dust = [e \in Entries |-> 0], !.cooling = Cleaned(s),
              !.root = t.root, !.prompt = t.prompt,
              !.messages = t.messages, !.last = now]

AfterTurn(s, t) ==
    [s EXCEPT !.retries = CountedRetries(s, t),
              !.escalation = IF Verdict(s, t) = "fresh" THEN 0 ELSE @,
              !.floor = IF @ > 0 THEN @ - 1 ELSE 0,
              !.cooling = Cleaned(s),
              !.root = IF NewTask(s, t) \/ @ = 0 THEN t.root ELSE @,
              !.prompt = t.prompt, !.messages = t.messages, !.last = now]

\* Mutant: a turn that starts afresh returns before the floor is applied.
TurnRetriesEarly(k, t) ==
    IF ~Known(k) \/ Expired(k) \/ Verdict(sessions[k], t) = "fresh" THEN 0
    ELSE LET s == sessions[k]
             counted == CountedRetries(s, t)
         IN  IF counted < s.floor THEN s.floor ELSE counted

\* The retries the call returns: at least the floor of a recent cycle kill.
TurnRetries(k, t) ==
    IF ~Known(k) \/ Expired(k) THEN 0
    ELSE LET s == sessions[k]
             counted == CountedRetries(s, t)
         IN  IF counted < s.floor THEN s.floor ELSE counted

RecordTurnTaskWithHold(k, t) ==
    IF ~Known(k)
      THEN Create(k, [NewState EXCEPT !.root = t.root, !.prompt = t.prompt,
                                      !.messages = t.messages])
      ELSE Update(k, IF Expired(k) THEN AfterExpiry(sessions[k], t)
                                   ELSE AfterTurn(sessions[k], t))

-----------------------------------------------------------------------------
(* The counters of a turn *)

Reset(k) == sessions' = [x \in DOMAIN sessions \ {k} |-> sessions[x]]

RecordEscalation(k) ==
    IfKnown(k, LAMBDA s : [s EXCEPT !.escalation = @ + 1])

\* Mutant: the budget is exhausted one turn too late.
BudgetExhaustedLate(k) ==
    Known(k) /\ sessions[k].escalation > MaxEscalationTurns

\* What RecordEscalation returns.
BudgetExhausted(k) == Known(k) /\ sessions[k].escalation >= MaxEscalationTurns

ResetEscalation(k) ==
    IfKnown(k, LAMBDA s : [s EXCEPT !.escalation = 0])

\* RecordKickstartState: progress resets both counters, and the counter
\* stands still once maxFailures injections in a row have failed.
RecordKickstartState(k, progress, maxFailures) ==
    IfKnown(k, LAMBDA s :
        IF progress THEN [s EXCEPT !.kicks = 0, !.kickFailures = 0]
        ELSE IF s.kickFailures >= maxFailures THEN s
        ELSE [s EXCEPT !.kicks = @ + 1])

\* The count it returns, and whether it reports a stalled session.
KickstartCount(k, progress, maxFailures) ==
    IF ~Known(k) \/ progress THEN 0
    ELSE IF sessions[k].kickFailures >= maxFailures THEN sessions[k].kicks
    ELSE sessions[k].kicks + 1

\* Mutant: failed injections suppress nothing.
KickstartedAgain(k, progress, threshold, maxFailures) ==
    Known(k) /\ ~progress /\ sessions[k].kicks + 1 >= threshold

Kickstarted(k, progress, threshold, maxFailures) ==
    /\ Known(k) /\ ~progress
    /\ sessions[k].kickFailures < maxFailures
    /\ sessions[k].kicks + 1 >= threshold

RecordKickstartFailure(k) ==
    IfKnown(k, LAMBDA s : [s EXCEPT !.kickFailures = @ + 1])

RecordThoughtSlap(k) ==
    IfKnown(k, LAMBDA s : [s EXCEPT !.thoughtSlaps = @ + 1])

\* RecordCycleKill: the model cools down, and the next turns of the session
\* report at least `floor' retries.  LastTurnTime is left alone.
RecordCycleKill(k, m, floor) ==
    Upsert(k, LAMBDA s :
        [s EXCEPT !.floor = IF floor > @ THEN floor ELSE @,
                  !.cooling[m] = now + Cooldown])

\* GetCoolingDownModels
CoolingDownModels(k) ==
    IF Known(k) THEN {m \in Models : now < sessions[k].cooling[m]} ELSE {}

RecordWriteProgress(k, wrote) ==
    IfKnown(k, LAMBDA s : IF wrote THEN [s EXCEPT !.writes = @ + 1] ELSE s)

WriteCount(k, wrote) ==
    CASE ~Known(k) -> 0
      [] Known(k)  -> sessions[k].writes + (IF wrote THEN 1 ELSE 0)

\* Mutant: the cap of an entry is tested one too late.
DustDueLate(k, e, frequency, max) ==
    /\ Known(k)
    /\ sessions[k].writes # 0
    /\ sessions[k].writes % frequency = 0
    /\ sessions[k].dust[e] <= max

\* CheckFairyDust: the entry is due, and then counted.
DustDue(k, e, frequency, max) ==
    /\ Known(k)
    /\ sessions[k].writes # 0
    /\ sessions[k].writes % frequency = 0
    /\ sessions[k].dust[e] < max

CheckFairyDust(k, e, frequency, max) ==
    IF DustDue(k, e, frequency, max)
      THEN Update(k, [sessions[k] EXCEPT !.dust[e] = @ + 1])
      ELSE UNCHANGED sessions

-----------------------------------------------------------------------------
(* Guardrails and meta directives *)

GetGuardrails(k) == IF Known(k) THEN sessions[k].guards ELSE {}

\* SetKickstartDisabled, SetCycleKillerDisabled, SetShieldDisabled,
\* SetRawModeEnabled, SetFairyDustDisabled.
SetGuard(k, g, on) ==
    Upsert(k, LAMBDA s :
        [s EXCEPT !.guards = IF on THEN @ \cup {g} ELSE @ \ {g}])

ResetSession(k) ==
    IfKnown(k, LAMBDA s :
        [s EXCEPT !.retries = 0, !.escalation = 0, !.kicks = 0,
                  !.kickFailures = 0, !.floor = 0,
                  !.cooling = [m \in Models |-> 0], !.writes = 0,
                  !.dust = [e \in Entries |-> 0], !.guards = {},
                  !.root = 0, !.prompt = 0, !.messages = 0])

\* What ShouldDebounceMeta returns.
Debounced(k, d) ==
    /\ Known(k)
    /\ sessions[k].meta = d
    /\ now - sessions[k].metaAt < MetaWindow

ShouldDebounceMeta(k, d) ==
    Upsert(k, LAMBDA s :
        IF Debounced(k, d) THEN [s EXCEPT !.last = now]
        ELSE [s EXCEPT !.last = now, !.meta = d, !.metaAt = now])

Tick ==
    /\ now < MaxClock
    /\ now' = now + 1
    /\ UNCHANGED sessions

-----------------------------------------------------------------------------
SessionState ==
    [retries : Nat, escalation : Nat, kicks : Nat, kickFailures : Nat,
     thoughtSlaps : Nat, floor : Nat, last : Nat, root : Nat, prompt : Nat,
     messages : Nat, meta : Directives \cup {Nothing}, metaAt : Nat,
     cooling : [Models -> Nat], writes : Nat, dust : [Entries -> Nat],
     guards : SUBSET Toggles]

\* Types of the tracker's state.
SessionsTyped ==
    /\ now \in Nat
    /\ DOMAIN sessions \subseteq Keys
    /\ \A k \in DOMAIN sessions : sessions[k] \in SessionState

\* The table stays within its limit, whichever method creates a session.
SessionsBounded == Cardinality(DOMAIN sessions) <= MaxSessions

\* A new session costs a live one its state only if the table was full, is
\* full again, and no expired session is left to be dropped instead.
LiveSessionsKept ==
    LET gone == DOMAIN sessions \ DOMAIN sessions'
        kept == DOMAIN sessions \ gone
    IN  DOMAIN sessions' \ DOMAIN sessions # {} =>
          \A k \in gone :
             /\ Cardinality(DOMAIN sessions) = MaxSessions
             /\ \/ Expired(k)
                \/ /\ Cardinality(DOMAIN sessions') = MaxSessions
                   /\ \A x \in kept : ~Expired(x)

-----------------------------------------------------------------------------
(* The tracker on its own: any goroutine may call any method at any time,    *)
(* with any turns and any floors, frequencies and caps.                      *)
sessionVars == <<sessions, now>>

TrackerInit == sessions = [k \in {} |-> NewState] /\ now = 0

TrackerCall(k, turns, limits) ==
    \/ \E t \in turns : RecordTurnTaskWithHold(k, t)
    \/ RecordEscalation(k)
    \/ ResetEscalation(k)
    \/ \E progress \in BOOLEAN, max \in limits :
          RecordKickstartState(k, progress, max)
    \/ RecordKickstartFailure(k)
    \/ RecordThoughtSlap(k)
    \/ \E m \in Models, floor \in limits : RecordCycleKill(k, m, floor)
    \/ \E wrote \in BOOLEAN : RecordWriteProgress(k, wrote)
    \/ \E e \in Entries, frequency \in limits, max \in limits :
          CheckFairyDust(k, e, frequency, max)
    \/ \E g \in Toggles, on \in BOOLEAN : SetGuard(k, g, on)
    \/ \E d \in Directives : ShouldDebounceMeta(k, d)
    \/ ResetSession(k)
    \/ Reset(k)

AnyTurn == [root : Nat, prompt : Nat, messages : Nat,
            client : {"agent", "chat"}, progress : BOOLEAN, hold : BOOLEAN]

TrackerNext ==
    \/ Tick
    \/ UNCHANGED now /\ \E k \in Keys : TrackerCall(k, AnyTurn, Nat)

TrackerSpec == TrackerInit /\ [][TrackerNext]_sessionVars

\* The tracker never holds more than MaxSessions sessions, whichever method
\* creates one (session.go:263, evictExpiredOrOldest), and what makes the room
\* is an expired session unless none is left.
RoomIsMade ==
    /\ [](SessionsTyped /\ SessionsBounded)
    /\ [][LiveSessionsKept]_sessionVars
=============================================================================
