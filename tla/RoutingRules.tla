---------------------------- MODULE RoutingRules ----------------------------
(* The `when` rules of routing tiers as the tuner reads and writes them:      *)
(* pkg/tuner/ast_helpers.go extracts the limits the replay works with,        *)
(* pkg/tuner/ast_rewriter.go writes tuned limits back around the clauses it   *)
(* does not manage.  A rule is the sequence of the clauses its text shows     *)
(* between && operators; a clause is a sequence of atoms joined by ||, closed *)
(* when it stands in parentheses.  Tokens count thousands.                    *)
EXTENDS Integers, Sequences, FiniteSets, SequencesExt

CONSTANTS Rules,    \* the rules a configuration may hold
          Asks,     \* the limits a search may ask to be written
          Contexts  \* the requests rules are compared on

VARIABLES rule, ask, written

vars == <<rule, ask, written>>

Counters == {"Tokens", "Retries", "MessageCount"}
Modalities == {"HasImages", "HasTools"}

Always == <<>>
Clause(a) == [atoms |-> <<a>>, closed |-> FALSE]
Never == <<Clause([is |-> "Never", holds |-> TRUE])>>

Compare(op, left, right) ==
    \/ op \in {"<", "<="} /\ left < right
    \/ op \in {">", ">="} /\ left > right
    \/ op \in {"<=", ">=", "=="} /\ left = right

\* The request as the expression engine sees it.
AtomHolds(a, c) ==
    IF a.is \in Counters THEN Compare(a.op, c[a.is], a.n)
    ELSE IF a.is = "Keywords" THEN (a.among \cap c.Keywords # {}) = a.holds
    ELSE (a.is \in c.flags) = a.holds

\* && binds tighter than ||: an open clause ends one alternative of the rule
\* and begins the next.
Alternatives(text) ==
    LET Extend(alts, clause) ==
          IF clause.closed \/ Len(clause.atoms) = 1
          THEN Front(alts) \o <<Append(Last(alts), clause.atoms)>>
          ELSE Front(alts)
                 \o [k \in 1..Len(clause.atoms) |->
                       IF k = 1 THEN Append(Last(alts), <<clause.atoms[1]>>)
                       ELSE <<<<clause.atoms[k]>>>>]
    IN FoldLeft(Extend, << <<>> >>, text)

RuleHolds(text, c) ==
    \E k \in DOMAIN Alternatives(text) :
        \A j \in DOMAIN Alternatives(text)[k] :
            \E i \in DOMAIN Alternatives(text)[k][j] :
                AtomHolds(Alternatives(text)[k][j][i], c)

Conjunctive(text) == \A k \in DOMAIN text : text[k].closed \/ Len(text[k].atoms) = 1

AtomsOf(text) == UNION {ToSet(text[k].atoms) : k \in DOMAIN text}

-----------------------------------------------------------------------------
\* What the search and the replay know of a rule.
NoLimits == [threshold |-> 0, retryBound |-> 0, retryFloor |-> 0, messageMax |-> 0,
             requires |-> {}, prohibits |-> {}, keywords |-> {}]

\* Mutant: a floor is read one too high.
ApplyCounterOffByOne(limits, a) ==
    IF a.is = "Tokens" /\ a.op = "<" /\ a.n > 0 THEN [limits EXCEPT !.threshold = a.n]
    ELSE IF a.is = "Retries" /\ a.op = "<" /\ a.n > 0 THEN [limits EXCEPT !.retryBound = a.n]
    ELSE IF a.is = "Retries" /\ a.op \in {">", ">="} THEN [limits EXCEPT !.retryFloor = a.n + 1]
    ELSE IF a.is = "MessageCount" /\ a.op = "<=" THEN [limits EXCEPT !.messageMax = a.n]
    ELSE IF a.is = "MessageCount" /\ a.op = "<" THEN [limits EXCEPT !.messageMax = a.n - 1]
    ELSE limits

ApplyCounter(limits, a) ==
    IF a.is = "Tokens" /\ a.op = "<" /\ a.n > 0 THEN [limits EXCEPT !.threshold = a.n]
    ELSE IF a.is = "Retries" /\ a.op = "<" /\ a.n > 0 THEN [limits EXCEPT !.retryBound = a.n]
    ELSE IF a.is = "Retries" /\ a.op = ">=" /\ a.n > 0 THEN [limits EXCEPT !.retryFloor = a.n]
    ELSE IF a.is = "Retries" /\ a.op = ">" /\ a.n >= 0 THEN [limits EXCEPT !.retryFloor = a.n + 1]
    ELSE IF a.is = "MessageCount" /\ a.op = "<=" THEN [limits EXCEPT !.messageMax = a.n]
    ELSE IF a.is = "MessageCount" /\ a.op = "<" THEN [limits EXCEPT !.messageMax = a.n - 1]
    ELSE limits

ApplyFlag(limits, a) ==
    IF a.is \in {"SessionKickstarted", "SessionReadSlapped"}
    THEN IF a.holds THEN [limits EXCEPT !.requires = @ \cup {"Kickstart"}] ELSE limits
    ELSE IF a.is \in Modalities \cup {"HasTestFail"}
         THEN IF a.holds THEN [limits EXCEPT !.requires = @ \cup {a.is}]
              ELSE [limits EXCEPT !.prohibits = @ \cup {a.is}]
         ELSE limits

\* Every string of a clause that names Keywords counts as excluded, whether the
\* clause excludes it or asks for it.
ExtractKeywords(limits, atoms) ==
    [limits EXCEPT !.keywords = @ \cup UNION {a.among : a \in {b \in atoms : b.is = "Keywords"}}]

ApplyConjunct(limits, clause) ==
    LET a == clause.atoms[1]
        own == IF Len(clause.atoms) > 1 \/ a.is = "Keywords" THEN limits
               ELSE IF a.is \in Counters THEN ApplyCounter(limits, a) ELSE ApplyFlag(limits, a)
    IN ExtractKeywords(own, ToSet(clause.atoms))

Extract(text) ==
    LET limits == IF Conjunctive(text) THEN FoldLeft(ApplyConjunct, NoLimits, text)
                  ELSE ExtractKeywords(NoLimits, AtomsOf(text))
    IN [limits EXCEPT !.requires = @ \ (Modalities \cap limits.prohibits)]

\* The part of the replay's guard that stands for the rule.
Matches(limits, c) ==
    /\ "Kickstart" \in limits.requires =>
         c.flags \cap {"SessionKickstarted", "SessionReadSlapped"} # {}
    /\ limits.requires \ {"Kickstart"} \subseteq c.flags
    /\ limits.prohibits \cap c.flags = {}
    /\ c.Retries >= limits.retryFloor
    /\ limits.retryBound > 0 => c.Retries < limits.retryBound
    /\ limits.threshold > 0 => c.Tokens < limits.threshold
    /\ limits.messageMax > 0 => c.MessageCount <= limits.messageMax
    /\ limits.keywords \cap c.Keywords = {}

-----------------------------------------------------------------------------
\* The clauses the tuner manages itself and drops before it writes its own.
\* Mutant: every clause on retries is dropped, floors too.
TunableAtomAnyRetries(a, tuningRetries) ==
    \/ a.is \in {"Tokens", "Keywords"}
    \/ tuningRetries /\ a.is \in {"Retries", "IsRetry"}
    \/ a.is \in Modalities /\ ~a.holds

\* Mutant: a token clause is kept beside the one that is written.
TunableAtomButTokens(a, tuningRetries) ==
    \/ tuningRetries /\ a.is = "Retries" /\ (a.op \in {"<", "<="} \/ (a.op = "==" /\ a.n = 0))
    \/ tuningRetries /\ a.is = "IsRetry"
    \/ a.is \in Modalities /\ ~a.holds
    \/ a.is = "Keywords"

TunableAtom(a, tuningRetries) ==
    \/ a.is = "Tokens"
    \/ tuningRetries /\ a.is = "Retries" /\ (a.op \in {"<", "<="} \/ (a.op = "==" /\ a.n = 0))
    \/ tuningRetries /\ a.is = "IsRetry"
    \/ a.is \in Modalities /\ ~a.holds
    \/ a.is = "Keywords"

Tunable(clause, tuningRetries) ==
    Len(clause.atoms) = 1 /\ TunableAtom(clause.atoms[1], tuningRetries)

Preserved(text, tuningRetries) ==
    LET Kept(clause) == ~Tunable(clause, tuningRetries) IN SelectSeq(text, Kept)

\* Mutant: only a clause that is the flag alone counts as asking for it.
PositivePrerequisiteAlone(text, flag) == text = <<Clause([is |-> flag, holds |-> TRUE])>>

PositivePrerequisite(text, flag) ==
    \E a \in AtomsOf(text) : a.is = flag /\ a.holds

\* Mutant: the token bound is written inclusive.
TunedClausesInclusive(limits, preserved) ==
    LET One(wanted, a) == IF wanted THEN <<Clause(a)>> ELSE <<>>
        Gate(flag) == One(flag \in limits.prohibits /\ ~PositivePrerequisite(preserved, flag),
                          [is |-> flag, holds |-> FALSE])
    IN One(limits.threshold > 0, [is |-> "Tokens", op |-> "<=", n |-> limits.threshold])
       \o One(limits.retryBound > 0, [is |-> "Retries", op |-> "<", n |-> limits.retryBound])
       \o Gate("HasImages") \o Gate("HasTools")
       \o One(limits.keywords # {}, [is |-> "Keywords", among |-> limits.keywords,
                                     holds |-> FALSE])

\* The limits as clauses, in the order they are written.
TunedClauses(limits, preserved) ==
    LET One(wanted, a) == IF wanted THEN <<Clause(a)>> ELSE <<>>
        Gate(flag) == One(flag \in limits.prohibits /\ ~PositivePrerequisite(preserved, flag),
                          [is |-> flag, holds |-> FALSE])
    IN One(limits.threshold > 0, [is |-> "Tokens", op |-> "<", n |-> limits.threshold])
       \o One(limits.retryBound > 0, [is |-> "Retries", op |-> "<", n |-> limits.retryBound])
       \o Gate("HasImages") \o Gate("HasTools")
       \o One(limits.keywords # {}, [is |-> "Keywords", among |-> limits.keywords,
                                     holds |-> FALSE])

\* A rule that bounds tokens cannot be written without a bound.
Rewritable(text, limits) ==
    limits.threshold > 0 \/ \A a \in AtomsOf(text) : a.is # "Tokens"

RewriteRule(text, limits) ==
    LET preserved == Preserved(text, limits.retryBound > 0)
        clauses == TunedClauses(limits, preserved) \o preserved
    IN IF clauses = <<>> THEN text ELSE clauses

-----------------------------------------------------------------------------
Init == /\ rule \in Rules /\ ask \in Asks /\ written = Never

\* One rule is rewritten with the limits a search settled on.
RewriteRuleAST ==
    /\ written = Never
    /\ Rewritable(rule, ask)
    /\ written' = RewriteRule(rule, ask)
    /\ UNCHANGED <<rule, ask>>

Next == RewriteRuleAST
Spec == Init /\ [][Next]_vars

-----------------------------------------------------------------------------
Positive(text) == \E a \in AtomsOf(text) : a.is = "Keywords" /\ a.holds
UpperBound(a) == a.is = "Retries" /\ (a.op \in {"<", "<="} \/ (a.op = "==" /\ a.n = 0))
Managed(a) == a.is \in {"Tokens", "IsRetry", "Keywords"} \/ (a.is \in Modalities /\ ~a.holds)
Custom(text) ==
    {k \in DOMAIN text : Len(text[k].atoms) = 1 =>
                            ~UpperBound(text[k].atoms[1]) /\ ~Managed(text[k].atoms[1])}

\* A request the new rule admits satisfies each clause the tuner leaves alone.
GuardrailsKept ==
    \A c \in Contexts : RuleHolds(written, c) =>
        \A k \in Custom(rule) : \E i \in DOMAIN rule[k].atoms : AtomHolds(rule[k].atoms[i], c)

\* The replay never turns away a request the written rule would admit, unless a
\* clause of it asks for keywords.
ReplayAdmits ==
    Conjunctive(written) /\ ~Positive(written) =>
        \A c \in Contexts : RuleHolds(written, c) => Matches(Extract(written), c)

\* What was asked for is what the written rule is read back as, and asking for
\* the same again changes nothing.
RewriteSettles ==
    ~Positive(Preserved(rule, TRUE)) =>
        /\ RewriteRule(written, ask) = written
        /\ Extract(written).threshold = ask.threshold
        /\ ask.retryBound > 0 => Extract(written).retryBound = ask.retryBound
        /\ ask.keywords \subseteq Extract(written).keywords
        /\ \A flag \in ask.prohibits :
             \/ flag \in Extract(written).prohibits
             \/ [is |-> flag, holds |-> TRUE] \in AtomsOf(written)

\* A gate is never written against a modality the rest of the rule demands.
NoContradiction ==
    \A flag \in Modalities :
        ~ (/\ [is |-> flag, holds |-> TRUE] \in AtomsOf(written)
           /\ flag \in Extract(written).prohibits)

\* Writing tuned limits into a rule that is a conjunction keeps the clauses the
\* tuner does not call its own (isAutoTunableClause, ast_rewriter.go:30-49,
\* "preserving existing custom guardrails"), contradicts none of them, and is
\* stable: the replay reads the rule back with the bounds, gates and keywords
\* that were asked for (ast_helpers.go:17-130), and tuning the tuned rule again
\* leaves it as it is.  Floors on tokens and keywords a rule asks for are the
\* tuner's own to the code, whoever wrote them: it drops or inverts them, and
\* nothing here says otherwise.
RuleWritten ==
    /\ written # Never /\ Conjunctive(rule) =>
         GuardrailsKept /\ RewriteSettles /\ NoContradiction
    /\ written # Never => ReplayAdmits
=============================================================================
