--------------------------- MODULE RequestHandling ---------------------------
(***************************************************************************)
(* The life of a request: pkg/client, the handlers of internal/api, and    *)
(* the PostgreSQL transaction behind them, which OperationStore takes for  *)
(* one step, statement by statement.  Inserts wait for one another at the  *)
(* unique indexes, updates at the row; a commit can fail, or succeed       *)
(* without anybody hearing of it; a caller can hang up at any moment.      *)
(***************************************************************************)
EXTENDS Naturals

CONSTANTS
    Caller,      \* connections; each carries one request at a time
    Op,          \* natural keys: (workflow, logical key)
    WorkflowOf,  \* the workflow of each
    Strategy,    \* strategies a workflow may be of
    Canonical,   \* what CanonicalJSON makes of each spelling of a payload
    AuthToken,   \* the token of the public routes
    AdminToken,  \* the token of the admin routes; by default the same
    Offers,      \* the requests that callers make
    None         \* no row

Spelling == DOMAIN Canonical
Workflow == {WorkflowOf[o] : o \in Op}

Call == {"prepare", "change", "resolve"}

\* "change" is a POST of a worker, "resolve" one of an administrator.
Request ==
    [call : {"prepare"}, token : STRING, body : {"fine", "malformed", "invalid"},
     op : Op, strategy : Strategy, text : Spelling]
    \union
    [call : {"change", "resolve"}, token : STRING,
     body : {"fine", "malformed", "invalid"}, op : Op, expected : Nat \ {0}]

ASSUME RequestAssumption ==
    /\ Offers \subseteq Request
    /\ Offers # {}
    /\ None \notin Strategy \union Spelling

VARIABLES
    \* committed rows
    strategyOf,  \* workflows
    content,     \* operations: the payload the row was made from
    version,     \* operations: version
    \* the server
    request,     \* the request on each connection
    stage,       \* what its handler does next
    draft,       \* what its transaction has inserted or locked
    answer,      \* the status it will be answered with
    \* the callers
    told,        \* what each has learnt of its request
    wrote        \* whether its request has changed anything

rows   == <<strategyOf, content, version>>
server == <<request, stage, draft, answer>>
requestVars == <<rows, server, told, wrote>>

Waiting  == 0
NoAnswer == 1
Created  == 201
Done     == 200
Refusals == {400, 401, 404, 409, 422, 500}
Unavailable == 503

Stage == {"idle", "arrived", "workflow", "operation", "row", "commit", "reply"}

RequestTypeOK ==
    /\ strategyOf \in [Workflow -> Strategy \union {None}]
    /\ content \in [Op -> Spelling \union {None}]
    /\ version \in [Op -> Nat]
    /\ request \in [Caller -> Offers]
    /\ stage \in [Caller -> Stage]
    /\ draft \in [Caller -> SUBSET {"workflow", "operation", "row"}]
    /\ answer \in [Caller -> {Waiting, Created, Done, Unavailable} \union Refusals]
    /\ told \in [Caller -> {Waiting, NoAnswer, Created, Done, Unavailable} \union Refusals]
    /\ wrote \in [Caller -> BOOLEAN]
    /\ \A o \in Op : content[o] = None <=> version[o] = 0

RequestInit ==
    /\ strategyOf = [w \in Workflow |-> None]
    /\ content = [o \in Op |-> None]
    /\ version = [o \in Op |-> 0]
    /\ request = [c \in Caller |-> CHOOSE r \in Offers : TRUE]
    /\ stage = [c \in Caller |-> "idle"]
    /\ draft = [c \in Caller |-> {}]
    /\ answer = [c \in Caller |-> Waiting]
    /\ told = [c \in Caller |-> NoAnswer]
    /\ wrote = [c \in Caller |-> FALSE]

-----------------------------------------------------------------------------
(* Callers *)

\* Nobody quotes a version that the row never had.  What the request will do, it
\* does in a transaction of its own.
Sends(c, r) ==
    /\ stage[c] = "idle"
    /\ r.call # "prepare" /\ version[r.op] # 0 => r.expected <= version[r.op]
    /\ request' = [request EXCEPT ![c] = r]
    /\ stage' = [stage EXCEPT ![c] = "arrived"]
    /\ answer' = [answer EXCEPT ![c] = Waiting]
    /\ told' = [told EXCEPT ![c] = Waiting]
    /\ wrote' = [wrote EXCEPT ![c] = FALSE]
    /\ draft' = [draft EXCEPT ![c] = {}]
    /\ UNCHANGED rows

\* Ten seconds are over, the connection breaks, or the answer cannot be read.
\* The handler goes on; its context is cancelled, so it may now fail.
HangsUp(c) ==
    /\ stage[c] # "idle"
    /\ told[c] = Waiting
    /\ told' = [told EXCEPT ![c] = NoAnswer]
    /\ UNCHANGED <<rows, server, wrote>>

Delivers(c) ==
    /\ stage[c] = "reply"
    /\ stage' = [stage EXCEPT ![c] = "idle"]
    /\ told' = [told EXCEPT ![c] = IF @ = Waiting THEN answer[c] ELSE @]
    /\ UNCHANGED <<rows, request, draft, answer, wrote>>

-----------------------------------------------------------------------------
(* Handlers, up to the transaction *)

\* Mutant: an early return leaves the transaction open.
AnswersWithoutRollback(c, status) ==
    /\ stage' = [stage EXCEPT ![c] = "reply"]
    /\ answer' = [answer EXCEPT ![c] = status]
    /\ UNCHANGED draft

\* Whatever the transaction holds is given up (defer tx.Rollback).
Answers(c, status) ==
    /\ stage' = [stage EXCEPT ![c] = "reply"]
    /\ answer' = [answer EXCEPT ![c] = status]
    /\ draft' = [draft EXCEPT ![c] = {}]

Refuses(c, status) ==
    /\ Answers(c, status)
    /\ UNCHANGED <<rows, request, told, wrote>>

GoesOn(c, next, holding) ==
    /\ stage' = [stage EXCEPT ![c] = next]
    /\ draft' = [draft EXCEPT ![c] = @ \union holding]
    /\ UNCHANGED <<rows, request, answer, told, wrote>>

Authentic(r) == r.token = IF r.call = "resolve" THEN AdminToken ELSE AuthToken

\* Not JSON, too long, a field too many, or more than one value.
Malformed(r) == r.body = "malformed"

\* A field is missing or out of its range, an ID is no UUID, a fingerprint that the
\* caller sent is not that of its payload.
Invalid(r) == r.body = "invalid"

\* The bearer token is looked at first, then the JSON, then the fields.
Arrives(c) ==
    /\ stage[c] = "arrived"
    /\ LET r == request[c]
       IN  \/ ~Authentic(r) /\ Refuses(c, 401)
           \/ Authentic(r) /\ Malformed(r) /\ Refuses(c, 400)
           \/ Authentic(r) /\ Invalid(r) /\ Refuses(c, 422)
           \/ /\ Authentic(r)
              /\ ~Malformed(r)
              /\ ~Invalid(r)
              /\ GoesOn(c, IF r.call = "prepare" THEN "workflow" ELSE "row", {})

-----------------------------------------------------------------------------
(* Prepare *)

\* Mutant: payloads are compared as they were sent.
Verbatim(text) == text

Fingerprint(text) == Canonical[text]

\* Another transaction has inserted or locked the row and is not over.
Contended(c, kind, ops) ==
    \E d \in Caller \ {c} : kind \in draft[d] /\ request[d].op \in ops

\* INSERT INTO workflows ... ON CONFLICT DO NOTHING, and the row is read.
EnsuresWorkflow(c) ==
    LET r == request[c]
        w == WorkflowOf[r.op]
    IN  /\ stage[c] = "workflow"
        /\ ~Contended(c, "workflow", {o \in Op : WorkflowOf[o] = w})
        /\ \/ strategyOf[w] = None /\ GoesOn(c, "operation", {"workflow"})
           \/ strategyOf[w] = r.strategy /\ GoesOn(c, "operation", {})
           \/ strategyOf[w] \notin {None, r.strategy} /\ Refuses(c, 409)

\* Mutant: the row is looked for first, and inserted if it is not there.
LooksAndInserts(c) ==
    LET r == request[c]
    IN  /\ stage[c] = "operation"
        /\ \/ content[r.op] = None /\ GoesOn(c, "commit", {"operation"})
           \/ /\ content[r.op] # None
              /\ \/ /\ Fingerprint(content[r.op]) = Fingerprint(r.text)
                    /\ GoesOn(c, "commit", {})
                 \/ /\ Fingerprint(content[r.op]) # Fingerprint(r.text)
                    /\ Refuses(c, 409)

\* INSERT INTO operations ... ON CONFLICT DO NOTHING; only if that finds a row
\* is the row read and its fingerprint compared.
InsertsOperation(c) ==
    LET r == request[c]
    IN  /\ stage[c] = "operation"
        /\ ~Contended(c, "operation", {r.op})
        /\ \/ content[r.op] = None /\ GoesOn(c, "commit", {"operation"})
           \/ /\ content[r.op] # None
              /\ \/ /\ Fingerprint(content[r.op]) = Fingerprint(r.text)
                    /\ GoesOn(c, "commit", {})
                 \/ /\ Fingerprint(content[r.op]) # Fingerprint(r.text)
                    /\ Refuses(c, 409)

-----------------------------------------------------------------------------
(* The transactions that quote a version *)

\* Mutant: the row is read without FOR UPDATE.
ReadsRow(c) ==
    LET r == request[c]
    IN  /\ stage[c] = "row"
        /\ \/ content[r.op] = None /\ Refuses(c, 404)
           \/ content[r.op] # None /\ Refuses(c, 409)
           \/ version[r.op] = r.expected /\ GoesOn(c, "commit", {"row"})

\* A row that is not committed is not there, and not waited for.  The version may
\* be right and the state, a lease or another receipt in the way; a receipt that is
\* on file already is only compared.
LocksRow(c) ==
    LET r == request[c]
    IN  /\ stage[c] = "row"
        /\ \/ content[r.op] = None /\ Refuses(c, 404)
           \/ /\ content[r.op] # None
              /\ ~Contended(c, "row", {r.op})
              /\ \/ Refuses(c, 409)
                 \/ version[r.op] = r.expected /\ GoesOn(c, "commit", {"row"})
                 \/ r.call = "change" /\ GoesOn(c, "commit", {})

-----------------------------------------------------------------------------
(* The end of a transaction *)

\* What the transaction wrote, all at once; the new version was computed from
\* the one it read.
BecomesVisible(c) ==
    LET r == request[c]
        w == WorkflowOf[r.op]
    IN  /\ strategyOf' = [strategyOf EXCEPT ![w] =
                            IF "workflow" \in draft[c] THEN r.strategy ELSE @]
        /\ content' = [content EXCEPT ![r.op] =
                            IF "operation" \in draft[c] THEN r.text ELSE @]
        /\ version' = [version EXCEPT ![r.op] =
                            IF "operation" \in draft[c] THEN 1
                            ELSE IF "row" \in draft[c] THEN r.expected + 1 ELSE @]
        /\ wrote' = [wrote EXCEPT ![c] = draft[c] # {}]
        /\ UNCHANGED <<request, told>>

Commits(c) ==
    /\ stage[c] = "commit"
    /\ BecomesVisible(c)
    /\ Answers(c, IF "operation" \in draft[c] THEN Created ELSE Done)

\* Mutant: any error of a transaction is reported as internal.
CommitUnheardIsInternal(c) ==
    /\ stage[c] = "commit"
    /\ BecomesVisible(c)
    /\ Answers(c, 500)

\* The connection to the database breaks after the COMMIT was sent.
CommitUnheard(c) ==
    /\ stage[c] = "commit"
    /\ BecomesVisible(c)
    /\ Answers(c, Unavailable)

\* A statement or the commit fails: most errors become a domain error, some of
\* the dispatch transaction and of the id generator do not.
Fails(c) ==
    \/ /\ stage[c] \in {"workflow", "operation", "row", "commit"}
       /\ Refuses(c, Unavailable)
    \/ /\ stage[c] \in {"workflow", "operation", "row"}
       /\ Refuses(c, 500)

-----------------------------------------------------------------------------

ServerStep(c) ==
    \/ Arrives(c)
    \/ EnsuresWorkflow(c)
    \/ InsertsOperation(c)
    \/ LocksRow(c)
    \/ Commits(c)
    \/ Delivers(c)

RequestNext ==
    \E c \in Caller :
        \/ \E r \in Offers : Sends(c, r)
        \/ HangsUp(c)
        \/ ServerStep(c)
        \/ CommitUnheard(c)
        \/ Fails(c)

\* PostgreSQL serves those who wait for a row in turn.
RequestSpec ==
    /\ RequestInit
    /\ [][RequestNext]_requestVars
    /\ \A c \in Caller : SF_requestVars(ServerStep(c))

-----------------------------------------------------------------------------
(* Properties *)

\* Only 503 and silence are ambiguous: a caller that reads any other error knows
\* that its request changed nothing, whatever the others were doing meanwhile.
RefusalsAreFinal ==
    \A c \in Caller : told[c] \in Refusals => ~wrote[c]

\* However many callers prepare the same operation at once, those that succeed
\* agree: the committed row is what each of them asked for, in its spelling or
\* another, its workflow is of the strategy each of them named, and one of them
\* at most is told that it made it.
PreparesAgree ==
    \A c \in Caller : told[c] \in {Created, Done} /\ request[c].call = "prepare" =>
        LET r == request[c]
        IN  /\ content[r.op] # None
            /\ Canonical[content[r.op]] = Canonical[r.text]
            /\ strategyOf[WorkflowOf[r.op]] = r.strategy
            /\ \A d \in Caller \ {c} : told[c] = Created /\ told[d] = Created =>
                    request[d].op # r.op

\* A caller is told that its intent conflicts only if there is an intent with
\* another payload, or a workflow with another strategy: never because of a
\* spelling, and never because of a row that was then rolled back.
ConflictsAreReal ==
    \A c \in Caller : told[c] = 409 /\ request[c].call = "prepare" =>
        LET r == request[c]
        IN  \/ /\ content[r.op] # None
               /\ Canonical[content[r.op]] # Canonical[r.text]
            \/ strategyOf[WorkflowOf[r.op]] \notin {None, r.strategy}

\* Of the callers that quote the same version of an operation, one at most
\* changes it, heard of or not.  The update writes the version it has computed,
\* so without the lock the second would overwrite the first unnoticed.
OneWriterPerVersion ==
    \A c \in Caller : wrote[c] /\ request[c].call # "prepare" =>
        /\ version[request[c].op] > request[c].expected
        /\ \A d \in Caller \ {c} : wrote[d] /\ request[d].call # "prepare" =>
            <<request[d].op, request[d].expected>> # <<request[c].op, request[c].expected>>

\* Every request is answered, however its transaction has to wait: no two wait
\* for each other, and none waits for a row that nobody will give up.
EveryRequestEnds ==
    \A c \in Caller : stage[c] = "arrived" ~> stage[c] = "idle"

Admissible == {r \in Offers : Authentic(r) /\ ~Malformed(r) /\ ~Invalid(r)}

Phase(c) ==
    CASE stage[c] = "idle"  -> "idle"
      [] stage[c] = "reply" -> "answered"
      [] OTHER              -> "called"

Atomic == INSTANCE AtomicRequests WITH phase <- [c \in Caller |-> Phase(c)]

\* Requests are linearizable: with all their statements, waits, rollbacks and lost
\* commits they look to every caller as if each read and changed the rows in one
\* step between call and answer, and the answer is what that step found.
LooksAtomic == Atomic!Spec

=============================================================================
