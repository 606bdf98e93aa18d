---------------------------- MODULE TurnPipeline ----------------------------
(***************************************************************************)
(* Server.handleCompletions from the classified request to the hand-over   *)
(* to dispatchTier, and the calls a dispatched turn makes back into the    *)
(* session tracker.                                                        *)
(*                                                                         *)
(* Requests run concurrently and several may belong to one session: an     *)
(* agent's subtasks carry one session id, and clients that send none share *)
(* their address.  Between two tracker calls of a turn any other turn may  *)
(* make its own, so each call is an action; what a stage computes from     *)
(* reqCtx alone is part of the action it precedes or follows.              *)
(*                                                                         *)
(* What the classifier finds in a request is an input.  The `when'         *)
(* expressions of the tiers are configuration: any tier may match.  One    *)
(* configuration is in force (Dispatch models its replacement).            *)
(***************************************************************************)
EXTENDS SessionTracker, Sequences

CONSTANTS Requests,    \* request goroutines
          Inputs,      \* what the classifier may make of a request
          Tiers,       \* configured tiers, in their order: names
          DefaultTier, \* cfg.DefaultTier.Name
          ModelOf,     \* the model of each tier, DefaultTier included
          SlapEnabled, \* kickstart.read_slap: "on" or "off"
          WriteOnly,   \* its write_only: "on" or "off"
          Threshold,   \* its threshold (5)
          MaxFailures, \* its max_failures (3)
          MaxSlaps,    \* its max_slaps (10)
          Dust,        \* fairy_dust.entries: name, model, frequency, max,
                       \* priority
          Floor,       \* retry floor a cycle kill sets (3)
          MaxTurns,    \* bound: requests that arrive
          MaxThoughtSlaps, \* bound: thought slaps of a session
          None

TierNames == {Tiers[i] : i \in 1..Len(Tiers)} \cup {DefaultTier}

Signals == {"tool", "write", "shell", "testpass", "testfail", "repair",
            "writable"}

\* An input: what the tracker is told of the turn and, from the classifier,
\* the work since the last turn (`saw'; "writable": the client declares a
\* tool that writes), the errors in the history, a forced tier or model, a
\* guardrail to toggle and a meta directive.
Input(i) ==
    /\ DOMAIN i = {"key", "root", "prompt", "messages", "client", "saw",
                   "errors", "forced", "toggle", "meta"}
    /\ i.key \in Keys
    /\ i.root \in Nat /\ i.prompt \in Nat /\ i.messages \in Nat
    /\ i.client \in {"agent", "chat"}
    /\ i.saw \subseteq Signals
    /\ i.errors \in Nat
    /\ i.forced \in TierNames \cup {None, "model"}
    /\ i.toggle \in (Toggles \X BOOLEAN) \cup {None}
    /\ i.meta \in Directives \cup {None}

ASSUME PipelineAssumption ==
    /\ \A i \in Inputs : Input(i)
    /\ Tiers \in Seq(STRING)
    /\ {None, "model"} \cap TierNames = {}
    /\ ModelOf \in [TierNames -> Models]
    /\ Dust \in Seq([name : Entries, model : Models, frequency : Nat \ {0},
                     max : Nat \ {0}, priority : Nat])
    /\ Threshold \in Nat \ {0} /\ MaxFailures \in Nat \ {0}
    /\ MaxSlaps \in Nat \ {0} /\ Floor \in Nat \ {0}
    /\ MaxTurns \in Nat /\ MaxThoughtSlaps \in Nat

VARIABLES turn,     \* turn[r]: the request r is serving
          turns,    \* requests that have arrived
          (* history, of each session, for the properties only *)
          frontier, \* turns that have reached the default tier, as their
                    \* target or by a fallback, since the rules last chose
                    \* another one or the session started afresh
          rescued,  \* those of them that fell back to it
          slapped,  \* read-slap prompts injected since the last progress
          owed,     \* retries the next turn must report after a cycle kill
          dusted,   \* checkpoints chosen and sent, by entry, since the
                    \* session began, expired or was reset
          carried   \* requests that carry a checkpoint from before that

history == <<frontier, rescued, slapped, owed, dusted, carried>>
vars == <<sessions, now, turn, turns, history>>

Idle == [pc |-> "idle", in |-> None, guards |-> {}, retries |-> 0,
         owed |-> 0, cooling |-> {}, kicked |-> FALSE,
         noKick |-> FALSE, forced |-> None, entry |-> 0, winner |-> 0,
         tier |-> None, model |-> None]

Init ==
    /\ sessions = [k \in {} |-> NewState]
    /\ now = 0
    /\ turn = [r \in Requests |-> Idle]
    /\ turns = 0
    /\ frontier = [k \in Keys |-> 0]
    /\ rescued = [k \in Keys |-> 0]
    /\ slapped = [k \in Keys |-> 0]
    /\ owed = [k \in Keys |-> 0]
    /\ dusted = [k \in Keys |-> [e \in Entries |-> 0]]
    /\ carried = {}

In(r) == turn[r].in
Key(r) == In(r).key
At(r, pc) == turn[r].pc = pc
Goto(r, pc) == turn' = [turn EXCEPT ![r].pc = pc]

-----------------------------------------------------------------------------
(* Meta directives and guardrails *)

Arrive(r) ==
    /\ At(r, "idle")
    /\ turns < MaxTurns
    /\ turns' = turns + 1
    /\ \E i \in Inputs :
          turn' = [turn EXCEPT ![r] =
              [Idle EXCEPT !.in = i, !.forced = i.forced,
                           !.pc = IF i.meta # None THEN "meta"
                                  ELSE IF i.toggle # None THEN "toggle"
                                  ELSE "guards"]]
    /\ UNCHANGED <<sessions, now, history>>

\* MetaRegistry.Dispatch: a repeated directive is not executed.
MetaDebounce(r) ==
    /\ At(r, "meta")
    /\ ShouldDebounceMeta(Key(r), In(r).meta)
    /\ turn' = IF Debounced(Key(r), In(r).meta)
                 THEN [turn EXCEPT ![r] = Idle]
                 ELSE [turn EXCEPT ![r].pc = "execute"]
    /\ UNCHANGED <<now, turns, history>>

\* The requests of a session that have chosen a checkpoint and not sent it.
Choosing(k) ==
    {r \in Requests : /\ turn[r].pc \in {"entries", "select"}
                      /\ turn[r].winner # 0 /\ Key(r) = k}

\* A session starts to count its checkpoints anew.
ForgetDust(k) ==
    /\ dusted' = [dusted EXCEPT ![k] = [e \in Entries |-> 0]]
    /\ carried' = carried \cup Choosing(k)

\* ... and then: @nacho:reset, a toggle, or a directive that only shows.
MetaExecute(r) ==
    /\ At(r, "execute")
    /\ CASE In(r).meta = "reset" ->
              /\ ResetSession(Key(r))
              /\ frontier' = [frontier EXCEPT ![Key(r)] = 0]
              /\ rescued' = [rescued EXCEPT ![Key(r)] = 0]
              /\ slapped' = [slapped EXCEPT ![Key(r)] = 0]
              /\ owed' = [owed EXCEPT ![Key(r)] = 0]
              /\ ForgetDust(Key(r))
         [] In(r).meta # "reset" /\ In(r).toggle # None ->
              /\ SetGuard(Key(r), In(r).toggle[1], In(r).toggle[2])
              /\ UNCHANGED history
         [] OTHER -> UNCHANGED <<sessions, history>>
    /\ turn' = [turn EXCEPT ![r] = Idle]
    /\ UNCHANGED <<now, turns>>

\* applySessionGuardrails: a directive in the prompt, then GetGuardrails.
ToggleGuardrail(r) ==
    /\ At(r, "toggle")
    /\ SetGuard(Key(r), In(r).toggle[1], In(r).toggle[2])
    /\ Goto(r, "guards")
    /\ UNCHANGED <<now, turns, history>>

ReadGuardrails(r) ==
    /\ At(r, "guards")
    /\ turn' = [turn EXCEPT ![r].pc = "record",
                            ![r].guards = GetGuardrails(Key(r)),
                            ![r].noKick = "kickstart" \in GetGuardrails(Key(r))]
    /\ UNCHANGED <<sessions, now, turns, history>>

-----------------------------------------------------------------------------
(* evaluateTurnAndReadSlap *)

\* turnProgress: what resets the retries.
TurnProgress(i) ==
    IF WriteOnly = "on"
      THEN \/ "testpass" \in i.saw
           \/ i.saw \cap {"write", "shell"} # {} /\ "testfail" \notin i.saw
           \/ /\ i.client = "agent" /\ "tool" \in i.saw
              /\ i.saw \cap {"writable", "testfail"} = {}
      ELSE "testpass" \in i.saw \/ ("tool" \in i.saw /\ "testfail" \notin i.saw)

\* kickstartProgress: what ends a stall.
KickstartProgress(i) ==
    IF WriteOnly = "on"
      THEN \/ i.saw \cap {"write", "shell", "testpass"} # {}
           \/ i.client = "agent" /\ "writable" \notin i.saw
      ELSE "tool" \in i.saw

TurnOf(i) ==
    [root |-> IF i.root = 0 THEN i.prompt ELSE i.root, prompt |-> i.prompt,
     messages |-> i.messages, client |-> i.client,
     progress |-> TurnProgress(i),
     hold |-> "repair" \in i.saw /\ ~TurnProgress(i)]

Wrote(i) == i.saw \cap {"write", "shell"} # {}

\* The session counts this turn as a new beginning.
StartsAfresh(k, t) ==
    \/ ~Known(k)
    \/ Known(k) /\ (Expired(k) \/ Verdict(sessions[k], t) = "fresh")

SlapActive(r) == SlapEnabled = "on" /\ ~turn[r].noKick

RecordTurn(r) ==
    LET k == Key(r)
        t == TurnOf(In(r))
    IN  /\ At(r, "record")
        /\ RecordTurnTaskWithHold(k, t)
        /\ turn' = [turn EXCEPT ![r].pc = "cooling",
                                ![r].retries = TurnRetries(k, t),
                                ![r].owed = IF Known(k) /\ ~Expired(k)
                                            THEN owed[k] ELSE 0]
        /\ owed' = [owed EXCEPT ![k] = 0]
        /\ IF StartsAfresh(k, t)
             THEN /\ frontier' = [frontier EXCEPT ![k] = 0]
                  /\ rescued' = [rescued EXCEPT ![k] = 0]
             ELSE UNCHANGED <<frontier, rescued>>
        /\ IF Known(k) /\ ~Expired(k)
             THEN UNCHANGED <<slapped, dusted, carried>>
             ELSE slapped' = [slapped EXCEPT ![k] = 0] /\ ForgetDust(k)
        /\ UNCHANGED <<now, turns>>

\* GetCoolingDownModels; errors in the history raise the retries.
ReadCooldowns(r) ==
    /\ At(r, "cooling")
    /\ turn' = [turn EXCEPT ![r].pc = IF SlapActive(r) THEN "slap" ELSE "dust",
                            ![r].cooling = CoolingDownModels(Key(r)),
                            ![r].retries = IF In(r).errors > @ THEN In(r).errors
                                           ELSE @]
    /\ UNCHANGED <<sessions, now, turns, history>>

ReadSlap(r) ==
    LET k == Key(r)
        progress == KickstartProgress(In(r))
        kicked == Kickstarted(k, progress, Threshold, MaxFailures)
    IN  /\ At(r, "slap")
        /\ RecordKickstartState(k, progress, MaxFailures)
        /\ slapped' = [slapped EXCEPT ![k] = IF progress THEN 0 ELSE @]
        /\ turn' = [turn EXCEPT
              ![r].pc = "dust",
              ![r].kicked = kicked,
              ![r].forced =
                 IF /\ kicked /\ @ # "model"
                    /\ KickstartCount(k, progress, MaxFailures) >= MaxSlaps
                   THEN DefaultTier ELSE @]
        /\ UNCHANGED <<now, turns, frontier, rescued, owed, dusted, carried>>

-----------------------------------------------------------------------------
(* evaluateFairyDust *)

\* GetGuardrails is read a second time.
DustGuardrail(r) ==
    /\ At(r, "dust")
    /\ Goto(r, IF Len(Dust) = 0 \/ "fairydust" \in GetGuardrails(Key(r))
                 THEN "select" ELSE "writes")
    /\ UNCHANGED <<sessions, now, turns, history>>

RecordWrites(r) ==
    LET k == Key(r)
        count == WriteCount(k, Wrote(In(r)))
    IN  /\ At(r, "writes")
        /\ RecordWriteProgress(k, Wrote(In(r)))
        /\ turn' = [turn EXCEPT
              ![r].entry = 1,
              ![r].pc = IF "write" \in In(r).saw /\ count > 0 THEN "entries"
                        ELSE "select"]
        /\ UNCHANGED <<now, turns, history>>

\* One round of the loop over the entries: the lock is taken for each.
CheckEntry(r) ==
    LET k == Key(r)
        n == turn[r].entry
        due == DustDue(k, Dust[n].name, Dust[n].frequency, Dust[n].max)
        best == turn[r].winner
        wins == due /\ (best = 0 \/ Dust[n].priority > Dust[best].priority)
    IN  /\ At(r, "entries")
        /\ CheckFairyDust(k, Dust[n].name, Dust[n].frequency, Dust[n].max)
        /\ turn' = [turn EXCEPT
              ![r].winner = IF wins THEN n ELSE @,
              ![r].entry = n + 1,
              ![r].pc = IF n = Len(Dust) THEN "select" ELSE @]
        /\ carried' = IF wins THEN carried \ {r} ELSE carried
        /\ UNCHANGED <<now, turns, frontier, rescued, slapped, owed, dusted>>

-----------------------------------------------------------------------------
(* resolveTargetTier and the hand-over *)

\* SelectTier: the tier of a directive, or one that matches and whose model
\* is not cooling down, or the default.
Routed(r) ==
    CASE turn[r].forced = "model" ->
            {[tier |-> "Forced Model", model |-> m] : m \in Models}
      [] turn[r].forced \in TierNames ->
            {[tier |-> turn[r].forced, model |-> ModelOf[turn[r].forced]]}
      [] OTHER ->
            {[tier |-> t, model |-> ModelOf[t]] :
               t \in {DefaultTier} \cup
                     {Tiers[i] : i \in {j \in 1..Len(Tiers) :
                          ModelOf[Tiers[j]] \notin turn[r].cooling}}}

\* The first tier that is not the default; the default if there is none.
Economical ==
    LET others == {i \in 1..Len(Tiers) : Tiers[i] # DefaultTier}
    IN  IF others = {} THEN DefaultTier
        ELSE Tiers[CHOOSE i \in others : \A j \in others : i <= j]

\* enforceAntiLatchingBreaker
AntiLatch(k, routed) ==
    IF routed.tier = DefaultTier /\ BudgetExhausted(k)
      THEN [tier |-> Economical, model |-> ModelOf[Economical]]
      ELSE routed

\* applyFairyDustTierOverride
Override(r, target) ==
    IF turn[r].winner = 0 THEN target
    ELSE [tier |-> "Fairy Dust", model |-> Dust[turn[r].winner].model]

ResolveTarget(r) ==
    \E routed \in Routed(r) :
       LET k == Key(r)
           target == Override(r, AntiLatch(k, routed))
       IN  /\ At(r, "select")
           /\ IF routed.tier = DefaultTier THEN RecordEscalation(k)
                                          ELSE ResetEscalation(k)
           /\ turn' = [turn EXCEPT
                 ![r].tier = target.tier, ![r].model = target.model,
                 ![r].noKick = @ \/ turn[r].winner # 0,
                 ![r].pc = IF turn[r].forced # None THEN "forced" ELSE "inject"]
           /\ frontier' = [frontier EXCEPT ![k] =
                 IF routed.tier # DefaultTier THEN 0
                 ELSE IF target.tier = DefaultTier THEN @ + 1 ELSE @]
           /\ rescued' = [rescued EXCEPT ![k] =
                 IF routed.tier # DefaultTier THEN 0 ELSE @]
           /\ dusted' = IF turn[r].winner = 0 \/ r \in carried THEN dusted
                ELSE [dusted EXCEPT ![k][Dust[turn[r].winner].name] = @ + 1]
           /\ carried' = carried \ {r}
           /\ UNCHANGED <<now, turns, slapped, owed>>

\* isForcedProviderBlocked: a forced turn whose provider's breaker is open is
\* answered here.
ForcedProvider(r) ==
    /\ At(r, "forced")
    /\ \/ Goto(r, "inject")
       \/ turn' = [turn EXCEPT ![r] = Idle]
    /\ UNCHANGED <<sessions, now, turns, history>>

\* applyPromptInjections
InjectPrompts(r) ==
    /\ At(r, "inject")
    /\ Goto(r, "upstream")
    /\ IF turn[r].kicked /\ ~turn[r].noKick
         THEN /\ RecordKickstartFailure(Key(r))
              /\ slapped' = [slapped EXCEPT ![Key(r)] = @ + 1]
         ELSE UNCHANGED <<sessions, slapped>>
    /\ UNCHANGED <<now, turns, frontier, rescued, owed, dusted, carried>>

-----------------------------------------------------------------------------
(* The dispatched turn (module Dispatch) as the tracker sees it *)

\* A tier that cannot be called, fails or is severed hands over to the default
\* tier, which counts no escalation, or the turn ends.
EndOrFallBack(r) ==
    \/ /\ turn' = [turn EXCEPT ![r] = Idle]
       /\ UNCHANGED <<frontier, rescued>>
    \/ /\ turn[r].tier # DefaultTier
       /\ turn' = [turn EXCEPT ![r].tier = DefaultTier,
                               ![r].model = ModelOf[DefaultTier]]
       /\ frontier' = [frontier EXCEPT ![Key(r)] = @ + 1]
       /\ rescued' = [rescued EXCEPT ![Key(r)] = @ + 1]

CycleKill(r) ==
    LET k == Key(r)
    IN  /\ At(r, "upstream")
        /\ RecordCycleKill(k, turn[r].model, Floor)
        /\ owed' = [owed EXCEPT ![k] = Floor]
        /\ EndOrFallBack(r)
        /\ UNCHANGED <<now, turns, slapped, dusted, carried>>

ThoughtSlap(r) ==
    /\ At(r, "upstream")
    /\ Known(Key(r))
    /\ sessions[Key(r)].thoughtSlaps < MaxThoughtSlaps
    /\ RecordThoughtSlap(Key(r))
    /\ UNCHANGED <<now, turn, turns, history>>

Answered(r) ==
    /\ At(r, "upstream")
    /\ EndOrFallBack(r)
    /\ UNCHANGED <<sessions, now, turns, slapped, owed, dusted, carried>>

Step(r) ==
    \/ Arrive(r) \/ MetaDebounce(r) \/ MetaExecute(r)
    \/ ToggleGuardrail(r) \/ ReadGuardrails(r)
    \/ RecordTurn(r) \/ ReadCooldowns(r) \/ ReadSlap(r)
    \/ DustGuardrail(r) \/ RecordWrites(r) \/ CheckEntry(r)
    \/ ResolveTarget(r) \/ ForcedProvider(r) \/ InjectPrompts(r)
    \/ CycleKill(r) \/ ThoughtSlap(r) \/ Answered(r)

Next ==
    \/ \E r \in Requests : Step(r)
    \/ Tick /\ UNCHANGED <<turn, turns, history>>

Spec == Init /\ [][Next]_vars

-----------------------------------------------------------------------------
PCs == {"idle", "meta", "execute", "toggle", "guards", "record", "cooling",
        "slap", "dust", "writes", "entries", "select", "forced", "inject",
        "upstream"}

\* Types; the loop of evaluateFairyDust stays within its entries.
TypeOK ==
    /\ SessionsTyped
    /\ turns \in 0..MaxTurns
    /\ \A r \in Requests :
          /\ turn[r].pc \in PCs
          /\ turn[r].pc # "idle" => turn[r].in \in Inputs
          /\ turn[r].retries \in Nat
          /\ turn[r].winner \in 0..Len(Dust)
          /\ turn[r].pc = "entries" => turn[r].entry \in 1..Len(Dust)
          /\ turn[r].model \in Models \cup {None}

\* docs/ARCHITECTURE.md: RecordEscalation enforces a hard ceiling of
\* MaxEscalationTurns consecutive frontier turns; after them the session is
\* de-escalated.  However the turns of a session interleave, between two choices
\* of another tier by its rules, or a fresh start, every turn that reaches the
\* default tier beyond the ceiling is one that fell back to it from another: a
\* fallback neither counts nor is refused, whatever the docs say of the ceiling.
FrontierCapped ==
    \A k \in Keys : frontier[k] <= MaxEscalationTurns + rescued[k]

\* Prompts that are put into a session are limited.  session.go: after
\* maxFailures injections the read slap is suppressed; the count is tested when
\* a turn is recorded and raised when its prompt is injected, so each further
\* concurrent turn may add one.  docs/USER_GUIDE.md: "Each entry respects a
\* strict max_count cap per session": no more checkpoints of an entry are chosen
\* and sent, whatever interleaves, until the session expires or is reset.
PromptsCapped ==
    /\ TypeOK
    /\ \A k \in Keys :
         /\ slapped[k] <= MaxFailures + Cardinality(Requests) - 1
         /\ \A n \in 1..Len(Dust) : dusted[k][Dust[n].name] <= Dust[n].max

\* session.go: a cycle kill "sets a retry floor to ensure immediate
\* auto-escalation on the next turn", even one that starts afresh.  A session
\* that has expired by then, unnoticed until its next turn, owes nothing.
KilledTurnEscalates ==
    \A r \in Requests : turn[r].retries >= turn[r].owed

=============================================================================
