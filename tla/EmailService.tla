---------------------------- MODULE EmailService ----------------------------
(***************************************************************************)
(* The service that performs the effect: internal/simulator with its own   *)
(* database.  A request that was accepted lives on after its caller has    *)
(* given up, so it may commit at any later time, or never.                 *)
(*                                                                         *)
(* The k-th effect recorded for an operation has receipt k.  A request is  *)
(* named by its operation and by the grant it is sent under: the version   *)
(* of the row after AuthorizeDispatch.                                     *)
(***************************************************************************)
EXTENDS Naturals, FiniteSets, Capabilities

CONSTANTS
    ServiceProfile,  \* the capability the service really has
    ContentOf,       \* recipient, template and logical_message_key of each effect
    Grants,          \* bound: the grants a request may be sent under
    MaxEffects       \* bound: no effect is recorded beyond this number

ASSUME ServiceAssumption ==
    /\ ServiceProfile \in Profile
    /\ MaxEffects \in Nat

VARIABLES
    effects,  \* email_effects: the number of rows of each operation
    bound,    \* email_keys: the receipt its key is bound to, 0 for no row
    calls     \* requests accepted whose connection is not finished

serviceVars == <<effects, bound, calls>>

\* "working" until the handler has answered: 201 with a receipt, or 503 with 0.
Call == [op : Op, grant : Grants, working : BOOLEAN, receipt : 0..MaxEffects]

ServiceTypeOK ==
    /\ effects \in [Op -> 0..MaxEffects]
    /\ bound \in [Op -> 0..MaxEffects]
    /\ calls \subseteq Call

ServiceInit ==
    /\ effects = [o \in Op |-> 0]
    /\ bound = [o \in Op |-> 0]
    /\ calls = {}

-----------------------------------------------------------------------------
(* The transaction of PostgresEmailStore.Commit *)

\* The handler takes the Idempotency-Key header up only under this profile.
Keyed(o) == o \in Replayable /\ ServiceProfile = "idempotency_only"

\* Mutant: the key is stored but never looked up.
NeverBound(o) == FALSE

AlreadyBound(o) == Keyed(o) /\ bound[o] # 0

ReceiptFor(o) == IF AlreadyBound(o) THEN bound[o] ELSE effects[o] + 1

RecordEffect(o) ==
    \/ /\ AlreadyBound(o)
       /\ UNCHANGED <<effects, bound>>
    \/ /\ ~AlreadyBound(o)
       /\ effects[o] < MaxEffects
       /\ effects' = [effects EXCEPT ![o] = @ + 1]
       /\ bound' = [bound EXCEPT ![o] = IF Keyed(o) THEN effects[o] + 1 ELSE @]

-----------------------------------------------------------------------------
(* The life of a request *)

Accept(o, grant) ==
    /\ ~ \E c \in calls : c.op = o /\ c.grant = grant
    /\ calls' = calls \union {[op |-> o, grant |-> grant, working |-> TRUE, receipt |-> 0]}
    /\ UNCHANGED <<effects, bound>>

Answered(c, receipt) ==
    calls' = (calls \ {c}) \union {[c EXCEPT !.working = FALSE, !.receipt = receipt]}

\* Mutant: the handler answers before the transaction has committed.
AnswerThenRollBack(c) ==
    /\ c.working
    /\ Answered(c, ReceiptFor(c.op))
    /\ UNCHANGED <<effects, bound>>

Commit(c) ==
    /\ c.working
    /\ RecordEffect(c.op)
    /\ Answered(c, ReceiptFor(c.op))

\* The hook after the commit fails, or the service dies before it can answer.
CommitUnanswered(c) ==
    /\ c.working
    /\ RecordEffect(c.op)
    /\ Answered(c, 0)

\* The hook before the commit fails, the transaction rolls back, the handler's
\* 30 seconds are over, or the service dies.
Refuse(c) ==
    /\ c.working
    /\ Answered(c, 0)
    /\ UNCHANGED <<effects, bound>>

\* The caller's HTTP transport sends a request again on its own when it bears an
\* Idempotency-Key and the connection broke; the handler runs once more.
Repeat(c) ==
    /\ c.working
    /\ c.op \in Replayable
    /\ RecordEffect(c.op)
    /\ UNCHANGED calls

\* The connection is closed once it is answered, read or not.
Finish(c) ==
    /\ ~c.working
    /\ calls' = calls \ {c}
    /\ UNCHANGED <<effects, bound>>

ServiceNext ==
    \/ \E o \in Op, g \in Grants : Accept(o, g)
    \/ \E c \in calls : \/ Commit(c)
                        \/ CommitUnanswered(c)
                        \/ Refuse(c)
                        \/ Repeat(c)
                        \/ Finish(c)

ServiceSpec == ServiceInit /\ [][ServiceNext]_serviceVars

-----------------------------------------------------------------------------
(* What the verifier learns from the service (EmailVerifier.Verify) *)

\* Effects found: by operation, or by content when only inspection is offered.
\* Mutant: inspection does not compare the content.
MatchingAny(o) ==
    IF ProfileOf[o] = "indirect_unique"
    THEN {p \in Op : ProfileOf[p] = "indirect_unique"}
    ELSE {o}

Matching(o) ==
    IF ProfileOf[o] = "indirect_unique"
    THEN {p \in Op : ContentOf[p] = ContentOf[o]}
    ELSE {o}

Found(o) == Cardinality(UNION {{p} \X (1..effects[p]) : p \in Matching(o)})

Observed(mechanism, outcome, authoritative) ==
    [mechanism |-> mechanism, outcome |-> outcome, authoritative |-> authoritative]

Lookup(o, mechanism) ==
    IF Found(o) = 0 THEN Observed(mechanism, "unknown", FALSE)
    ELSE IF Found(o) = 1 THEN Observed(mechanism, "completed", TRUE)
    ELSE Observed(mechanism, "contradictory", FALSE)

\* No answer in time, an error status, or an endpoint the service does not have.
Unreachable(o) ==
    Observed(IF o \in Replayable THEN "idempotent_repeat" ELSE "status_lookup",
             "transient_error", FALSE)

Evidence(o) ==
    CASE ProfileOf[o] = "none" -> Observed("none", "unknown", FALSE)
      [] ProfileOf[o] = "idempotency_only" ->
            Observed("idempotent_repeat", "unknown", ServiceProfile = "idempotency_only")
      [] OTHER ->
            IF ServiceProfile # ProfileOf[o] THEN Unreachable(o)
            ELSE Lookup(o, IF ProfileOf[o] = "indirect_unique"
                           THEN "indirect_lookup" ELSE "status_lookup")

-----------------------------------------------------------------------------
(* Properties *)

\* However often and however late requests with the same key are processed,
\* whether or not their callers still wait, one effect comes of them, and every
\* answer that names a receipt names that effect's.
OneEffectPerKey ==
    \A o \in Op : Keyed(o) =>
        /\ effects[o] <= 1
        /\ \A c \in calls : c.op = o => c.receipt \in {0, bound[o]}

\* A receipt answered without a key is of an effect of its own: no two callers
\* are told that the same effect is theirs, and no receipt precedes its effect.
ReceiptsAreDistinct ==
    \A c \in calls : c.receipt # 0 =>
        /\ c.receipt <= effects[c.op]
        /\ \A d \in calls : (d.op = c.op /\ d.receipt = c.receipt /\ ~Keyed(c.op)) => d = c

=============================================================================
