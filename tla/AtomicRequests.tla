--------------------------- MODULE AtomicRequests ---------------------------
(***************************************************************************)
(* What the API promises of concurrent requests, with no statements, locks *)
(* or drafts: between a call and its answer a request reads the rows and   *)
(* changes them in one step, and its answer is that of this step.  Only an *)
(* answer of 503 leaves open whether there was one.  RequestHandling is    *)
(* shown to implement this specification.                                  *)
(***************************************************************************)
EXTENDS Naturals

CONSTANTS
    Caller, Op, WorkflowOf, Canonical, Offers, None,
    Admissible   \* the offers that are authentic and well formed

VARIABLES
    strategyOf, content, version,   \* the rows
    request,    \* the request of each caller
    phase,      \* "idle", "called" or "answered"
    answer,     \* the status it is answered with
    told        \* what the caller has learnt of it

rows == <<strategyOf, content, version>>
atomicVars == <<rows, request, phase, answer, told>>

Waiting  == 0
NoAnswer == 1
Unavailable == 503

Init ==
    /\ strategyOf = [w \in {WorkflowOf[o] : o \in Op} |-> None]
    /\ content = [o \in Op |-> None]
    /\ version = [o \in Op |-> 0]
    /\ request \in [Caller -> Offers]
    /\ phase = [c \in Caller |-> "idle"]
    /\ answer = [c \in Caller |-> Waiting]
    /\ told = [c \in Caller |-> NoAnswer]

Calls(c, r) ==
    /\ phase[c] = "idle"
    /\ request' = [request EXCEPT ![c] = r]
    /\ phase' = [phase EXCEPT ![c] = "called"]
    /\ answer' = [answer EXCEPT ![c] = Waiting]
    /\ told' = [told EXCEPT ![c] = Waiting]
    /\ UNCHANGED rows

Returns(c) ==
    /\ phase[c] = "answered"
    /\ phase' = [phase EXCEPT ![c] = "idle"]
    /\ told' = [told EXCEPT ![c] = IF @ = Waiting THEN answer[c] ELSE @]
    /\ UNCHANGED <<rows, request, answer>>

HangsUp(c) ==
    /\ phase[c] # "idle"
    /\ told[c] = Waiting
    /\ told' = [told EXCEPT ![c] = NoAnswer]
    /\ UNCHANGED <<rows, request, phase, answer>>

\* An answer that the server may fail to give although the step was taken.
Answers(c, status) ==
    /\ phase[c] = "called"
    /\ phase' = [phase EXCEPT ![c] = "answered"]
    /\ \E s \in {status, Unavailable} : answer' = [answer EXCEPT ![c] = s]
    /\ UNCHANGED <<request, told>>

Makes(c, r) ==
    /\ r.call = "prepare"
    /\ content[r.op] = None
    /\ strategyOf[WorkflowOf[r.op]] \in {None, r.strategy}
    /\ strategyOf' = [strategyOf EXCEPT ![WorkflowOf[r.op]] = r.strategy]
    /\ content' = [content EXCEPT ![r.op] = r.text]
    /\ version' = [version EXCEPT ![r.op] = 1]
    /\ Answers(c, 201)

Finds(c, r) ==
    /\ r.call = "prepare"
    /\ content[r.op] # None
    /\ Canonical[content[r.op]] = Canonical[r.text]
    /\ strategyOf[WorkflowOf[r.op]] = r.strategy
    /\ Answers(c, 200)
    /\ UNCHANGED rows

Conflicts(c, r) ==
    /\ r.call = "prepare" =>
        \/ content[r.op] # None /\ Canonical[content[r.op]] # Canonical[r.text]
        \/ strategyOf[WorkflowOf[r.op]] \notin {None, r.strategy}
    /\ r.call # "prepare" => content[r.op] # None
    /\ Answers(c, 409)
    /\ UNCHANGED rows

Changes(c, r) ==
    /\ r.call # "prepare"
    /\ content[r.op] # None
    /\ version[r.op] = r.expected
    /\ version' = [version EXCEPT ![r.op] = @ + 1]
    /\ Answers(c, 200)
    /\ UNCHANGED <<strategyOf, content>>

\* A receipt that is on file already.
Repeats(c, r) ==
    /\ r.call = "change"
    /\ content[r.op] # None
    /\ Answers(c, 200)
    /\ UNCHANGED rows

Misses(c, r) ==
    /\ r.call # "prepare"
    /\ content[r.op] = None
    /\ Answers(c, 404)
    /\ UNCHANGED rows

\* No step was taken.
Fails(c) == \E s \in {500, Unavailable} : Answers(c, s) /\ UNCHANGED rows

Rejects(c) == \E s \in {400, 401, 422} : Answers(c, s) /\ UNCHANGED rows

Acts(c) ==
    LET r == request[c]
    IN  \/ r \notin Admissible /\ Rejects(c)
        \/ /\ r \in Admissible
           /\ \/ Makes(c, r) \/ Finds(c, r) \/ Conflicts(c, r)
              \/ Changes(c, r) \/ Repeats(c, r) \/ Misses(c, r)
              \/ Fails(c)

Next ==
    \E c \in Caller :
        \/ \E r \in Offers : Calls(c, r)
        \/ HangsUp(c)
        \/ Acts(c)
        \/ Returns(c)

Spec == Init /\ [][Next]_atomicVars

=============================================================================
