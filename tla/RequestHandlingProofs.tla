------------------------ MODULE RequestHandlingProofs ------------------------
(***************************************************************************)
(* Theorems about RequestHandling, for any number of callers, operations,  *)
(* workflows and spellings, and any requests.  They hold without fairness. *)
(***************************************************************************)
EXTENDS RequestHandling, TLAPS

Prepares(c) == request[c].call = "prepare"
Target(c)   == request[c].op
Flow(c)     == WorkflowOf[request[c].op]

\* The committed rows are those a prepare asked for.
WorkflowAgrees(c) == strategyOf[Flow(c)] = request[c].strategy

ContentAgrees(c) ==
    /\ content[Target(c)] # None
    /\ Canonical[content[Target(c)]] = Canonical[request[c].text]

\* The committed rows are not those it asked for.
Opposed(c) ==
    \/ /\ content[Target(c)] # None
       /\ Canonical[content[Target(c)]] # Canonical[request[c].text]
    \/ strategyOf[Flow(c)] \notin {None, request[c].strategy}

\* What a transaction has inserted is not committed by another, and what it has
\* locked is still as it was read.
Drafted(c) ==
    /\ "workflow" \in draft[c] =>
        /\ stage[c] \in {"operation", "commit"}
        /\ Prepares(c)
        /\ strategyOf[Flow(c)] = None
    /\ "operation" \in draft[c] =>
        /\ stage[c] = "commit"
        /\ Prepares(c)
        /\ content[Target(c)] = None
    /\ "row" \in draft[c] =>
        /\ stage[c] = "commit"
        /\ ~Prepares(c)
        /\ version[Target(c)] = request[c].expected

\* What it has not inserted it has found as asked for.
Checked(c) ==
    /\ stage[c] \in {"workflow", "operation"} => Prepares(c)
    /\ stage[c] = "row" => ~Prepares(c)
    /\ Prepares(c) /\ stage[c] \in {"operation", "commit"} /\ "workflow" \notin draft[c] =>
        WorkflowAgrees(c)
    /\ Prepares(c) /\ stage[c] = "commit" /\ "operation" \notin draft[c] => ContentAgrees(c)

\* An answer tells what happened.
Answered(c) ==
    /\ answer[c] # Waiting \/ wrote[c] => stage[c] \in {"reply", "idle"}
    /\ told[c] \in {Waiting, NoAnswer, answer[c]}
    /\ answer[c] \in Refusals => ~wrote[c]
    /\ answer[c] = Created => Prepares(c)
    /\ Prepares(c) /\ answer[c] \in {Created, Done} => WorkflowAgrees(c) /\ ContentAgrees(c)
    /\ Prepares(c) /\ answer[c] = 409 => Opposed(c)
    /\ ~Prepares(c) /\ wrote[c] => version[Target(c)] > request[c].expected

\* No two hold or have made the same.
Apart(c, d) ==
    /\ "workflow" \in draft[c] /\ "workflow" \in draft[d] => Flow(c) # Flow(d)
    /\ "operation" \in draft[c] /\ "operation" \in draft[d] => Target(c) # Target(d)
    /\ "row" \in draft[c] /\ "row" \in draft[d] => Target(c) # Target(d)
    /\ answer[c] = Created /\ answer[d] = Created => Target(c) # Target(d)
    /\ wrote[c] /\ wrote[d] /\ ~Prepares(c) /\ ~Prepares(d) =>
        Target(c) # Target(d) \/ request[c].expected # request[d].expected

Served ==
    /\ RequestTypeOK
    /\ \A c \in Caller : Drafted(c) /\ Checked(c) /\ Answered(c)
    /\ \A c, d \in Caller : c # d => Apart(c, d)

-----------------------------------------------------------------------------

\* The fields of a request.
LEMMA Fields ==
    ASSUME RequestTypeOK, NEW c \in Caller
    PROVE  /\ request[c] \in Offers
           /\ Target(c) \in Op
           /\ Flow(c) \in Workflow
           /\ Prepares(c) => request[c].strategy \in Strategy /\ request[c].text \in Spelling
           /\ ~Prepares(c) => request[c].expected \in Nat \ {0}
<1>1. request[c] \in Request
    BY RequestAssumption DEF RequestTypeOK
<1>2. Target(c) \in Op
    BY <1>1 DEF Request, Target
<1>3. /\ Prepares(c) => request[c].strategy \in Strategy /\ request[c].text \in Spelling
      /\ ~Prepares(c) => request[c].expected \in Nat \ {0}
    BY <1>1 DEF Request, Prepares
<1> QED BY <1>2, <1>3 DEF RequestTypeOK, Workflow, Flow, Target

\* The statuses are different.
LEMMA Statuses ==
    /\ {Waiting, NoAnswer, Created, Done, Unavailable} \cap Refusals = {}
    /\ Waiting # NoAnswer /\ Waiting # Created /\ Waiting # Done /\ Waiting # Unavailable
    /\ NoAnswer # Created /\ NoAnswer # Done /\ NoAnswer # Unavailable
    /\ Created # Done /\ Created # Unavailable /\ Done # Unavailable
    /\ 409 \in Refusals
BY DEF Waiting, NoAnswer, Created, Done, Unavailable, Refusals

\* A request moves on by itself: nothing becomes of the others, or of the rows.
LEMMA AloneStep ==
    ASSUME Served, NEW c \in Caller, RequestTypeOK', UNCHANGED rows,
           \A d \in Caller \ {c} :
              /\ request'[d] = request[d] /\ stage'[d] = stage[d] /\ draft'[d] = draft[d]
              /\ answer'[d] = answer[d] /\ told'[d] = told[d] /\ wrote'[d] = wrote[d],
           Drafted(c)', Checked(c)', Answered(c)',
           \A d \in Caller \ {c} : Apart(c, d)'
    PROVE  Served'
<1>1. \A d \in Caller \ {c} : (Drafted(d) /\ Checked(d) /\ Answered(d))'
  <2> SUFFICES ASSUME NEW d \in Caller \ {c} PROVE (Drafted(d) /\ Checked(d) /\ Answered(d))'
    OBVIOUS
  <2>1. Drafted(d) /\ Checked(d) /\ Answered(d)
    BY DEF Served
  <2> QED BY <2>1
          DEF Drafted, Checked, Answered, Opposed, WorkflowAgrees, ContentAgrees, Prepares, Target,
              Flow, rows
<1>2. \A d, e \in Caller \ {c} : d # e => Apart(d, e)'
    BY DEF Served, Apart, Prepares, Target, Flow
<1>3. \A d \in Caller \ {c} : Apart(d, c)'
    BY DEF Apart
<1> QED BY <1>1, <1>2, <1>3 DEF Served

-----------------------------------------------------------------------------
(* Steps that leave the rows alone                                          *)

LEMMA SendsStep ==
    ASSUME Served, NEW c \in Caller, NEW r \in Offers, Sends(c, r)
    PROVE  Served'
<1>0. RequestTypeOK
    BY DEF Served
<1>1. /\ request' = [request EXCEPT ![c] = r]
      /\ stage' = [stage EXCEPT ![c] = "arrived"]
      /\ answer' = [answer EXCEPT ![c] = Waiting]
      /\ told' = [told EXCEPT ![c] = Waiting]
      /\ wrote' = [wrote EXCEPT ![c] = FALSE]
      /\ draft' = [draft EXCEPT ![c] = {}]
      /\ UNCHANGED rows
    BY DEF Sends
<1>2. RequestTypeOK'
    BY <1>0, <1>1 DEF RequestTypeOK, rows, Stage
<1>3. /\ draft'[c] = {} /\ stage'[c] = "arrived" /\ answer'[c] = Waiting /\ told'[c] = Waiting
      /\ wrote'[c] = FALSE
    BY <1>0, <1>1 DEF RequestTypeOK
<1>4. Drafted(c)' /\ Checked(c)' /\ Answered(c)'
    BY <1>3, Statuses DEF Drafted, Checked, Answered
<1>5. \A d \in Caller \ {c} : Apart(c, d)'
    BY <1>3, Statuses DEF Apart
<1>6. \A d \in Caller \ {c} :
        /\ request'[d] = request[d] /\ stage'[d] = stage[d] /\ draft'[d] = draft[d]
        /\ answer'[d] = answer[d] /\ told'[d] = told[d] /\ wrote'[d] = wrote[d]
    BY <1>0, <1>1 DEF RequestTypeOK
<1> QED BY <1>1, <1>2, <1>4, <1>5, <1>6, AloneStep

LEMMA HangsUpStep ==
    ASSUME Served, NEW c \in Caller, HangsUp(c) \/ Delivers(c)
    PROVE  Served'
<1>0. RequestTypeOK /\ Drafted(c) /\ Checked(c) /\ Answered(c)
      /\ \A d \in Caller \ {c} : Apart(c, d)
    BY DEF Served
<1>1. /\ stage' = stage \/ (stage[c] = "reply" /\ stage' = [stage EXCEPT ![c] = "idle"])
      /\ \E a \in {NoAnswer, answer[c], told[c]} : told' = [told EXCEPT ![c] = a]
      /\ UNCHANGED <<rows, request, draft, answer, wrote>>
    BY <1>0 DEF HangsUp, Delivers, server, RequestTypeOK
<1>2. RequestTypeOK'
    BY <1>0, <1>1 DEF RequestTypeOK, rows, Stage
<1>3. /\ stage'[c] = stage[c] \/ (stage[c] = "reply" /\ stage'[c] = "idle")
      /\ told'[c] \in {NoAnswer, answer[c], told[c]}
    BY <1>0, <1>1 DEF RequestTypeOK
<1>4. Drafted(c)' /\ Checked(c)'
    BY <1>0, <1>1, <1>3
       DEF Drafted, Checked, ContentAgrees, WorkflowAgrees, Prepares, Target, Flow, rows
<1>5. Answered(c)'
    BY <1>0, <1>1, <1>3
       DEF Answered, Opposed, ContentAgrees, WorkflowAgrees, Prepares, Target, Flow, rows
<1>6. \A d \in Caller \ {c} : Apart(c, d)'
    BY <1>0, <1>1 DEF Apart, Prepares, Target, Flow
<1>7. \A d \in Caller \ {c} : stage'[d] = stage[d] /\ told'[d] = told[d]
    BY <1>0, <1>1 DEF RequestTypeOK
<1> QED BY <1>1, <1>2, <1>4, <1>5, <1>6, <1>7, AloneStep

\* A refusal takes back what the transaction had inserted; it need only be true.
LEMMA RefusesStep ==
    ASSUME Served, NEW c \in Caller, NEW status \in Refusals \union {Unavailable},
           Refuses(c, status), stage[c] \notin {"idle", "reply"},
           Prepares(c) /\ status = 409 => Opposed(c)
    PROVE  Served'
<1>0. RequestTypeOK /\ Drafted(c) /\ Checked(c) /\ Answered(c)
      /\ \A d \in Caller \ {c} : Apart(c, d)
    BY DEF Served
<1>1. /\ stage' = [stage EXCEPT ![c] = "reply"]
      /\ answer' = [answer EXCEPT ![c] = status]
      /\ draft' = [draft EXCEPT ![c] = {}]
      /\ UNCHANGED <<rows, request, told, wrote>>
    BY DEF Refuses, Answers
<1>2. RequestTypeOK'
    BY <1>0, <1>1 DEF RequestTypeOK, rows, Stage
<1>3. stage'[c] = "reply" /\ answer'[c] = status /\ draft'[c] = {}
    BY <1>0, <1>1 DEF RequestTypeOK
<1>4. ~wrote[c] /\ answer[c] = Waiting /\ wrote[c] \in BOOLEAN
    BY <1>0 DEF Answered, RequestTypeOK
<1>5. Drafted(c)' /\ Checked(c)'
    BY <1>3 DEF Drafted, Checked
<1>6. Answered(c)'
    BY <1>0, <1>1, <1>3, <1>4, Statuses
       DEF Answered, Opposed, Prepares, Target, Flow, rows
<1>7. \A d \in Caller \ {c} : Apart(c, d)'
    BY <1>1, <1>3, <1>4, Statuses DEF Apart
<1>8. \A d \in Caller \ {c} :
        stage'[d] = stage[d] /\ answer'[d] = answer[d] /\ draft'[d] = draft[d]
    BY <1>0, <1>1 DEF RequestTypeOK
<1> QED BY <1>1, <1>2, <1>5, <1>6, <1>7, <1>8, AloneStep

\* A handler that goes on has found what it needs, and takes what nobody holds.
LEMMA GoesOnStep ==
    ASSUME Served, NEW c \in Caller, NEW next \in {"workflow", "operation", "row", "commit"},
           NEW holding \in SUBSET {"workflow", "operation", "row"},
           GoesOn(c, next, holding), stage[c] \notin {"idle", "reply"},
           Drafted(c)', Checked(c)', \A d \in Caller \ {c} : Apart(c, d)'
    PROVE  Served'
<1>0. RequestTypeOK /\ Drafted(c) /\ Checked(c) /\ Answered(c)
    BY DEF Served
<1>1. /\ stage' = [stage EXCEPT ![c] = next]
      /\ draft' = [draft EXCEPT ![c] = @ \union holding]
      /\ UNCHANGED <<rows, request, answer, told, wrote>>
    BY DEF GoesOn
<1>2. RequestTypeOK'
  <2>1. draft[c] \union holding \in SUBSET {"workflow", "operation", "row"}
    BY <1>0 DEF RequestTypeOK
  <2>2. draft' \in [Caller -> SUBSET {"workflow", "operation", "row"}]
    BY <1>0, <1>1, <2>1 DEF RequestTypeOK
  <2> QED BY <1>0, <1>1, <2>2 DEF RequestTypeOK, rows, Stage
<1>3. ~wrote[c] /\ answer[c] = Waiting
    BY <1>0 DEF Answered, RequestTypeOK
<1>4. Answered(c)'
    BY <1>0, <1>1, <1>3, Statuses DEF Answered
<1>5. \A d \in Caller \ {c} : stage'[d] = stage[d] /\ draft'[d] = draft[d]
    BY <1>0, <1>1 DEF RequestTypeOK
<1> QED BY <1>1, <1>2, <1>4, <1>5, AloneStep

LEMMA ArrivesStep ==
    ASSUME Served, NEW c \in Caller, Arrives(c)
    PROVE  Served'
<1>0. /\ RequestTypeOK /\ Drafted(c) /\ stage[c] = "arrived"
      /\ \A d \in Caller \ {c} : Apart(c, d)
    BY DEF Served, Arrives
<1>1. ASSUME NEW status \in {400, 401, 422}, Refuses(c, status) PROVE Served'
    BY <1>0, <1>1, RefusesStep DEF Refusals
<1>2. ASSUME GoesOn(c, IF request[c].call = "prepare" THEN "workflow" ELSE "row", {})
      PROVE  Served'
  <2> DEFINE next == IF Prepares(c) THEN "workflow" ELSE "row"
  <2>1. GoesOn(c, next, {})
    BY <1>2 DEF Prepares
  <2>2. /\ stage'[c] = next /\ draft'[c] = draft[c] /\ request' = request
        /\ \A d \in Caller : draft'[d] = draft[d]
        /\ UNCHANGED <<answer, wrote>>
    BY <1>0, <2>1 DEF GoesOn, RequestTypeOK
  <2>3. Drafted(c)' /\ Checked(c)'
    BY <1>0, <2>2 DEF Drafted, Checked, Prepares
  <2>4. \A d \in Caller \ {c} : Apart(c, d)'
    BY <1>0, <2>2 DEF Apart, Prepares, Target, Flow
  <2> QED BY <1>0, <2>1, <2>3, <2>4, GoesOnStep
<1> QED BY <1>1, <1>2 DEF Arrives

LEMMA EnsuresWorkflowStep ==
    ASSUME Served, NEW c \in Caller, EnsuresWorkflow(c)
    PROVE  Served'
<1>0. /\ RequestTypeOK /\ Drafted(c) /\ Checked(c) /\ stage[c] = "workflow" /\ Prepares(c)
      /\ \A d \in Caller \ {c} : Apart(c, d) /\ Drafted(d)
    BY DEF Served, EnsuresWorkflow, Checked
<1>1. ASSUME Refuses(c, 409), strategyOf[Flow(c)] \notin {None, request[c].strategy}
      PROVE  Served'
    BY <1>0, <1>1, RefusesStep DEF Opposed, Refusals
<1>2. ASSUME NEW holding \in SUBSET {"workflow"}, GoesOn(c, "operation", holding),
             "workflow" \in holding => strategyOf[Flow(c)] = None,
             "workflow" \notin holding => WorkflowAgrees(c)
      PROVE  Served'
  <2>1. /\ stage'[c] = "operation" /\ draft'[c] = draft[c] \union holding
        /\ \A d \in Caller \ {c} : draft'[d] = draft[d]
        /\ UNCHANGED <<rows, request, answer, wrote>>
    BY <1>0, <1>2 DEF GoesOn, RequestTypeOK
  <2>2. draft[c] \cap {"operation", "row", "workflow"} = {}
    BY <1>0 DEF Drafted
  <2>3. Drafted(c)' /\ Checked(c)'
    BY <1>0, <1>2, <2>1, <2>2 DEF Drafted, Checked, WorkflowAgrees, Prepares, Flow, rows
  <2>4. ~Contended(c, "workflow", {o \in Op : WorkflowOf[o] = Flow(c)})
    BY DEF EnsuresWorkflow, Flow
  <2>5. ASSUME NEW d \in Caller \ {c} PROVE Apart(c, d)'
    <3>1. "workflow" \in draft[d] => Flow(c) # Flow(d)
        BY <1>0, <2>4, Fields DEF Contended, Flow, Target
    <3> QED BY <1>0, <1>2, <2>1, <2>2, <3>1 DEF Apart, Prepares, Target, Flow
  <2> QED BY <1>0, <1>2, <2>3, <2>5, GoesOnStep
<1>3. ASSUME GoesOn(c, "operation", {"workflow"}), strategyOf[Flow(c)] = None PROVE Served'
    BY <1>2, <1>3
<1>4. ASSUME GoesOn(c, "operation", {}), WorkflowAgrees(c) PROVE Served'
    BY <1>2, <1>4
<1> QED BY <1>1, <1>3, <1>4 DEF EnsuresWorkflow, Flow, WorkflowAgrees

LEMMA InsertsOperationStep ==
    ASSUME Served, NEW c \in Caller, InsertsOperation(c)
    PROVE  Served'
<1>0. /\ RequestTypeOK /\ Drafted(c) /\ Checked(c) /\ stage[c] = "operation" /\ Prepares(c)
      /\ \A d \in Caller \ {c} : Apart(c, d) /\ Drafted(d)
    BY DEF Served, InsertsOperation, Checked
<1>1. ASSUME Refuses(c, 409), content[Target(c)] # None,
             Fingerprint(content[Target(c)]) # Fingerprint(request[c].text)
      PROVE  Served'
    BY <1>0, <1>1, RefusesStep DEF Opposed, Refusals, Fingerprint
<1>2. ASSUME NEW holding \in SUBSET {"operation"}, GoesOn(c, "commit", holding),
             "operation" \in holding => content[Target(c)] = None,
             "operation" \notin holding => ContentAgrees(c)
      PROVE  Served'
  <2>1. /\ stage'[c] = "commit" /\ draft'[c] = draft[c] \union holding
        /\ \A d \in Caller \ {c} : draft'[d] = draft[d]
        /\ UNCHANGED <<rows, request, answer, wrote>>
    BY <1>0, <1>2 DEF GoesOn, RequestTypeOK
  <2>2. draft[c] \cap {"operation", "row"} = {}
    BY <1>0 DEF Drafted
  <2>3. Drafted(c)'
    BY <1>0, <1>2, <2>1, <2>2 DEF Drafted, Prepares, Target, Flow, rows
  <2>4. Checked(c)'
    BY <1>0, <1>2, <2>1, <2>2
       DEF Checked, WorkflowAgrees, ContentAgrees, Prepares, Target, Flow, rows
  <2>5. ~Contended(c, "operation", {Target(c)})
    BY DEF InsertsOperation, Target
  <2>6. ASSUME NEW d \in Caller \ {c} PROVE Apart(c, d)'
    <3>1. "operation" \in draft[d] => Target(c) # Target(d)
        BY <2>5 DEF Contended, Target
    <3> QED BY <1>0, <1>2, <2>1, <2>2, <3>1 DEF Apart, Prepares, Target, Flow
  <2> QED BY <1>0, <1>2, <2>3, <2>4, <2>6, GoesOnStep
<1>3. ASSUME GoesOn(c, "commit", {"operation"}), content[Target(c)] = None PROVE Served'
    BY <1>2, <1>3
<1>4. ASSUME GoesOn(c, "commit", {}), content[Target(c)] # None,
             Fingerprint(content[Target(c)]) = Fingerprint(request[c].text)
      PROVE  Served'
    BY <1>2, <1>4 DEF ContentAgrees, Fingerprint
<1> QED BY <1>1, <1>3, <1>4 DEF InsertsOperation, Target

LEMMA LocksRowStep ==
    ASSUME Served, NEW c \in Caller, LocksRow(c)
    PROVE  Served'
<1>0. /\ RequestTypeOK /\ Drafted(c) /\ Checked(c) /\ stage[c] = "row" /\ ~Prepares(c)
      /\ \A d \in Caller \ {c} : Apart(c, d) /\ Drafted(d)
    BY DEF Served, LocksRow, Checked
<1>1. ASSUME NEW status \in {404, 409}, Refuses(c, status) PROVE Served'
    BY <1>0, <1>1, RefusesStep DEF Refusals
<1>2. ASSUME NEW holding \in SUBSET {"row"}, GoesOn(c, "commit", holding),
             "row" \in holding => version[Target(c)] = request[c].expected,
             ~Contended(c, "row", {Target(c)})
      PROVE  Served'
  <2>1. /\ stage'[c] = "commit" /\ draft'[c] = draft[c] \union holding
        /\ \A d \in Caller \ {c} : draft'[d] = draft[d]
        /\ UNCHANGED <<rows, request, answer, wrote>>
    BY <1>0, <1>2 DEF GoesOn, RequestTypeOK
  <2>2. draft[c] \cap {"operation", "row", "workflow"} = {}
    BY <1>0 DEF Drafted
  <2>3. Drafted(c)' /\ Checked(c)'
    BY <1>0, <1>2, <2>1, <2>2 DEF Drafted, Checked, Prepares, Target, rows
  <2>4. ASSUME NEW d \in Caller \ {c} PROVE Apart(c, d)'
    <3>1. "row" \in draft[d] => Target(c) # Target(d)
        BY <1>2 DEF Contended, Target
    <3> QED BY <1>0, <1>2, <2>1, <2>2, <3>1 DEF Apart, Prepares, Target, Flow
  <2> QED BY <1>0, <1>2, <2>3, <2>4, GoesOnStep
<1>3. ASSUME GoesOn(c, "commit", {"row"}), version[Target(c)] = request[c].expected,
             ~Contended(c, "row", {Target(c)})
      PROVE  Served'
    BY <1>2, <1>3
<1>4. ASSUME GoesOn(c, "commit", {}), ~Contended(c, "row", {Target(c)}) PROVE Served'
    BY <1>2, <1>4
<1> QED BY <1>1, <1>3, <1>4 DEF LocksRow, Target

LEMMA FailsStep ==
    ASSUME Served, NEW c \in Caller, Fails(c)
    PROVE  Served'
<1>1. ASSUME stage[c] \in {"workflow", "operation", "row", "commit"},
             Refuses(c, Unavailable)
      PROVE  Served'
    BY <1>1, RefusesStep, Statuses
<1>2. ASSUME stage[c] \in {"workflow", "operation", "row"}, Refuses(c, 500)
      PROVE  Served'
    BY <1>2, RefusesStep DEF Refusals
<1> QED BY <1>1, <1>2 DEF Fails

-----------------------------------------------------------------------------
(* The step that changes the rows                                            *)

\* What a transaction may do to the rows: it fills empty ones, with what its
\* request asked for, and versions only grow.
LEMMA RowsStep ==
    ASSUME Served, NEW c \in Caller, stage[c] = "commit", BecomesVisible(c)
    PROVE  /\ strategyOf' \in [Workflow -> Strategy \union {None}]
           /\ content' \in [Op -> Spelling \union {None}]
           /\ version' \in [Op -> Nat]
           /\ \A w \in Workflow : strategyOf[w] # None => strategyOf'[w] = strategyOf[w]
           /\ \A o \in Op : content[o] # None => content'[o] = content[o]
           /\ \A o \in Op : version'[o] >= version[o]
           /\ \A o \in Op : content'[o] = None <=> version'[o] = 0
           /\ \A w \in Workflow : w # Flow(c) \/ "workflow" \notin draft[c] =>
                strategyOf'[w] = strategyOf[w]
           /\ \A o \in Op : o # Target(c) \/ "operation" \notin draft[c] =>
                content'[o] = content[o]
           /\ \A o \in Op : o # Target(c) \/ draft[c] \cap {"operation", "row"} = {} =>
                version'[o] = version[o]
           /\ Prepares(c) => strategyOf'[Flow(c)] = request[c].strategy
           /\ Prepares(c) => content'[Target(c)] \in Spelling
                             /\ Canonical[content'[Target(c)]] = Canonical[request[c].text]
           /\ "row" \in draft[c] => version'[Target(c)] = request[c].expected + 1
<1>0. /\ RequestTypeOK /\ Drafted(c) /\ Checked(c)
      /\ None \notin Strategy \union Spelling
    BY RequestAssumption DEF Served
<1> DEFINE flow     == IF "workflow" \in draft[c] THEN request[c].strategy
                       ELSE strategyOf[Flow(c)]
           text     == IF "operation" \in draft[c] THEN request[c].text
                       ELSE content[Target(c)]
           revision == IF "operation" \in draft[c] THEN 1
                       ELSE IF "row" \in draft[c] THEN request[c].expected + 1
                       ELSE version[Target(c)]
<1>1. /\ Flow(c) \in Workflow /\ Target(c) \in Op
      /\ Prepares(c) => request[c].strategy \in Strategy /\ request[c].text \in Spelling
      /\ ~Prepares(c) => request[c].expected \in Nat \ {0}
    BY <1>0, Fields
<1>2. /\ strategyOf' = [strategyOf EXCEPT ![Flow(c)] = flow]
      /\ content' = [content EXCEPT ![Target(c)] = text]
      /\ version' = [version EXCEPT ![Target(c)] = revision]
    BY DEF BecomesVisible, Flow, Target
<1>3. /\ strategyOf[Flow(c)] \in Strategy \union {None}
      /\ content[Target(c)] \in Spelling \union {None}
      /\ version[Target(c)] \in Nat
      /\ content[Target(c)] = None <=> version[Target(c)] = 0
    BY <1>0, <1>1 DEF RequestTypeOK
<1>4. /\ "workflow" \in draft[c] => Prepares(c) /\ strategyOf[Flow(c)] = None
      /\ "operation" \in draft[c] => Prepares(c) /\ content[Target(c)] = None
      /\ "row" \in draft[c] => ~Prepares(c) /\ version[Target(c)] = request[c].expected
    BY <1>0 DEF Drafted
<1>5. /\ Prepares(c) /\ "workflow" \notin draft[c] => strategyOf[Flow(c)] = request[c].strategy
      /\ Prepares(c) /\ "operation" \notin draft[c] =>
            /\ content[Target(c)] # None
            /\ Canonical[content[Target(c)]] = Canonical[request[c].text]
    BY <1>0 DEF Checked, WorkflowAgrees, ContentAgrees
<1>6. /\ flow \in Strategy \union {None}
      /\ strategyOf[Flow(c)] # None => flow = strategyOf[Flow(c)]
      /\ "workflow" \notin draft[c] => flow = strategyOf[Flow(c)]
      /\ Prepares(c) => flow = request[c].strategy
    BY <1>0, <1>1, <1>3, <1>4, <1>5
<1>7. /\ text \in Spelling \union {None}
      /\ content[Target(c)] # None => text = content[Target(c)]
      /\ "operation" \notin draft[c] => text = content[Target(c)]
      /\ Prepares(c) => text \in Spelling /\ Canonical[text] = Canonical[request[c].text]
    BY <1>0, <1>1, <1>3, <1>4, <1>5
<1>8. /\ revision \in Nat
      /\ revision >= version[Target(c)]
      /\ text = None <=> revision = 0
      /\ draft[c] \cap {"operation", "row"} = {} => revision = version[Target(c)]
      /\ "row" \in draft[c] => revision = request[c].expected + 1
    BY <1>0, <1>1, <1>3, <1>4
<1> HIDE DEF flow, text, revision
<1>9. /\ strategyOf' \in [Workflow -> Strategy \union {None}]
      /\ \A w \in Workflow : strategyOf'[w] = IF w = Flow(c) THEN flow ELSE strategyOf[w]
    BY <1>0, <1>1, <1>2, <1>6 DEF RequestTypeOK
<1>10. /\ content' \in [Op -> Spelling \union {None}]
       /\ \A o \in Op : content'[o] = IF o = Target(c) THEN text ELSE content[o]
    BY <1>0, <1>1, <1>2, <1>7 DEF RequestTypeOK
<1>11. /\ version' \in [Op -> Nat]
       /\ \A o \in Op : version'[o] = IF o = Target(c) THEN revision ELSE version[o]
    BY <1>0, <1>1, <1>2, <1>8 DEF RequestTypeOK
<1>12. \A o \in Op : version[o] \in Nat /\ (content[o] = None <=> version[o] = 0)
    BY <1>0 DEF RequestTypeOK
<1>13. \A o \in Op : version'[o] >= version[o]
    BY <1>8, <1>11, <1>12
<1>14. \A o \in Op : content'[o] = None <=> version'[o] = 0
    BY <1>8, <1>10, <1>11, <1>12
<1>15. \A w \in Workflow :
        /\ strategyOf[w] # None => strategyOf'[w] = strategyOf[w]
        /\ w # Flow(c) \/ "workflow" \notin draft[c] => strategyOf'[w] = strategyOf[w]
    BY <1>6, <1>9
<1>16. \A o \in Op :
        /\ content[o] # None => content'[o] = content[o]
        /\ o # Target(c) \/ "operation" \notin draft[c] => content'[o] = content[o]
    BY <1>7, <1>10
<1>17. \A o \in Op : o # Target(c) \/ draft[c] \cap {"operation", "row"} = {} =>
                version'[o] = version[o]
    BY <1>8, <1>11
<1>18. /\ Prepares(c) => strategyOf'[Flow(c)] = request[c].strategy
       /\ Prepares(c) => content'[Target(c)] \in Spelling
                         /\ Canonical[content'[Target(c)]] = Canonical[request[c].text]
       /\ "row" \in draft[c] => version'[Target(c)] = request[c].expected + 1
    BY <1>1, <1>6, <1>7, <1>8, <1>9, <1>10, <1>11
<1> QED BY <1>9, <1>10, <1>11, <1>13, <1>14, <1>15, <1>16, <1>17, <1>18

\* A commit, heard of or not: the others still hold what they hold, and what they
\* were told stays true.
LEMMA VisibleStep ==
    ASSUME Served, NEW c \in Caller, stage[c] = "commit", BecomesVisible(c),
           NEW status \in {Created, Done, Unavailable}, Answers(c, status),
           status = Created => "operation" \in draft[c]
    PROVE  Served'
<1>0. /\ RequestTypeOK /\ Drafted(c) /\ Checked(c) /\ Answered(c)
      /\ None \notin Strategy \union Spelling
      /\ \A d \in Caller \ {c} : Drafted(d) /\ Checked(d) /\ Answered(d) /\ Apart(c, d)
      /\ \A d, e \in Caller \ {c} : d # e => Apart(d, e)
    BY RequestAssumption DEF Served
<1>1. /\ stage' = [stage EXCEPT ![c] = "reply"]
      /\ answer' = [answer EXCEPT ![c] = status]
      /\ draft' = [draft EXCEPT ![c] = {}]
      /\ wrote' = [wrote EXCEPT ![c] = draft[c] # {}]
      /\ UNCHANGED <<request, told>>
    BY DEF BecomesVisible, Answers
<1>2. /\ stage'[c] = "reply" /\ answer'[c] = status /\ draft'[c] = {}
      /\ wrote'[c] = (draft[c] # {})
      /\ \A d \in Caller \ {c} : /\ stage'[d] = stage[d] /\ answer'[d] = answer[d]
                                 /\ draft'[d] = draft[d] /\ wrote'[d] = wrote[d]
    BY <1>0, <1>1 DEF RequestTypeOK
<1>3. /\ strategyOf' \in [Workflow -> Strategy \union {None}]
      /\ content' \in [Op -> Spelling \union {None}]
      /\ version' \in [Op -> Nat]
      /\ \A o \in Op : content'[o] = None <=> version'[o] = 0
    BY RowsStep
<1>4. RequestTypeOK'
    BY <1>0, <1>1, <1>3 DEF RequestTypeOK, Stage
<1>5. answer[c] = Waiting /\ ~wrote[c] /\ told[c] \in {Waiting, NoAnswer}
    BY <1>0 DEF Answered
<1>6. Drafted(c)' /\ Checked(c)'
    BY <1>2 DEF Drafted, Checked
<1>7. draft[c] \subseteq {"workflow", "operation", "row"}
    BY <1>0 DEF RequestTypeOK
<1>8. Answered(c)'
  <2>1. Prepares(c) => WorkflowAgrees(c)' /\ ContentAgrees(c)'
    BY <1>0, <1>1, RowsStep DEF WorkflowAgrees, ContentAgrees, Flow, Target
  <2>2. status = Created => Prepares(c)
    BY <1>0 DEF Drafted
  <2>3. ~Prepares(c) /\ draft[c] # {} => "row" \in draft[c]
    BY <1>0, <1>7 DEF Drafted
  <2>4. ~Prepares(c) /\ draft[c] # {} => version'[Target(c)] > request[c].expected
    <3>1. ~Prepares(c) => request[c].expected \in Nat
        BY <1>0, Fields
    <3> QED BY <2>3, <3>1, RowsStep
  <2>5. (answer[c] # Waiting \/ wrote[c] => stage[c] \in {"reply", "idle"})'
    BY <1>2
  <2>6. (told[c] \in {Waiting, NoAnswer, answer[c]})'
    BY <1>1, <1>5
  <2>7. status \notin Refusals /\ status # 409
    BY Statuses
  <2>8. Prepares(c)' <=> Prepares(c)
    BY <1>1 DEF Prepares
  <2>9. Target(c)' = Target(c)
    BY <1>1 DEF Target
  <2>10. (~Prepares(c) /\ wrote[c] => version[Target(c)] > request[c].expected)'
    BY <1>1, <1>2, <2>4, <2>8, <2>9
  <2> QED BY <1>2, <2>1, <2>2, <2>5, <2>6, <2>7, <2>8, <2>10 DEF Answered
<1>9. ASSUME NEW d \in Caller \ {c} PROVE (Drafted(d) /\ Checked(d) /\ Answered(d))'
  <2>1. /\ Target(d) \in Op /\ Flow(d) \in Workflow
        /\ Prepares(d) => request[d].strategy \in Strategy
        /\ ~Prepares(d) => request[d].expected \in Nat \ {0}
    BY <1>0, Fields
  <2>2. /\ Drafted(d) /\ Checked(d) /\ Answered(d) /\ Apart(c, d)
        /\ stage'[d] = stage[d] /\ answer'[d] = answer[d]
        /\ draft'[d] = draft[d] /\ wrote'[d] = wrote[d] /\ told' = told
        /\ request' = request
    BY <1>0, <1>1, <1>2
  <2>3. Drafted(d)'
    <3>1. "workflow" \in draft[d] => strategyOf'[Flow(d)] = None
        BY <2>1, <2>2, RowsStep DEF Drafted, Apart
    <3>2. "operation" \in draft[d] => content'[Target(d)] = None
        BY <2>1, <2>2, RowsStep DEF Drafted, Apart
    <3>3. "row" \in draft[d] => version'[Target(d)] = request[d].expected
        <4> SUFFICES ASSUME "row" \in draft[d] PROVE version'[Target(d)] = request[d].expected
            OBVIOUS
        <4>1. version[Target(d)] = request[d].expected /\ version[Target(d)] # 0
            BY <2>1, <2>2 DEF Drafted
        <4>2. content[Target(d)] # None
            BY <1>0, <2>1, <4>1 DEF RequestTypeOK
        <4>3. "operation" \in draft[c] => Target(c) # Target(d)
            BY <1>0, <4>2 DEF Drafted
        <4>4. "row" \in draft[c] => Target(c) # Target(d)
            BY <2>2 DEF Apart
        <4> QED BY <2>1, <4>1, <4>3, <4>4, RowsStep
    <3> QED BY <2>2, <3>1, <3>2, <3>3 DEF Drafted, Prepares, Target, Flow
  <2>4. /\ Prepares(d) /\ WorkflowAgrees(d) => WorkflowAgrees(d)'
        /\ Prepares(d) /\ ContentAgrees(d) => ContentAgrees(d)'
        /\ Prepares(d) /\ Opposed(d) => Opposed(d)'
    <3>1. strategyOf[Flow(d)] # None => strategyOf'[Flow(d)] = strategyOf[Flow(d)]
        BY <2>1, RowsStep
    <3>2. content[Target(d)] # None => content'[Target(d)] = content[Target(d)]
        BY <2>1, RowsStep
    <3>3. Prepares(d) => request[d].strategy # None
        BY <1>0, <2>1
    <3> QED BY <2>2, <3>1, <3>2, <3>3
            DEF WorkflowAgrees, ContentAgrees, Opposed, Flow, Target
  <2>5. Checked(d)'
    <3>1. Prepares(d)' <=> Prepares(d)
        BY <2>2 DEF Prepares
    <3> QED BY <2>2, <2>4, <3>1 DEF Checked
  <2>6. Answered(d)'
    <3>1. ~Prepares(d) /\ wrote[d] => version'[Target(d)] > request[d].expected
        <4>1. version'[Target(d)] \in Nat /\ version[Target(d)] \in Nat
            BY <1>0, <1>3, <2>1 DEF RequestTypeOK
        <4>2. version'[Target(d)] >= version[Target(d)]
            BY <2>1, RowsStep
        <4> QED BY <2>1, <2>2, <4>1, <4>2 DEF Answered
    <3>2. (Prepares(d)' <=> Prepares(d)) /\ Target(d)' = Target(d)
        BY <2>2 DEF Prepares, Target
    <3> QED BY <2>2, <2>4, <3>1, <3>2 DEF Answered
  <2> QED BY <2>3, <2>5, <2>6
<1>10. ASSUME NEW d \in Caller \ {c} PROVE Apart(c, d)' /\ Apart(d, c)'
  <2>1. /\ Apart(c, d) /\ Answered(d) /\ request' = request
        /\ draft'[c] = {} /\ wrote'[d] = wrote[d] /\ answer'[d] = answer[d]
    BY <1>0, <1>1, <1>2
  <2>2. answer'[c] = Created /\ answer'[d] = Created => Target(c) # Target(d)
    <3> SUFFICES ASSUME status = Created, answer[d] = Created PROVE Target(c) # Target(d)
        BY <1>2, <2>1
    <3>1. content[Target(c)] = None
        BY <1>0 DEF Drafted
    <3>2. content[Target(d)] # None
        BY <2>1 DEF Answered, ContentAgrees
    <3> QED BY <3>1, <3>2
  <2>3. wrote'[c] /\ wrote'[d] /\ ~Prepares(c) /\ ~Prepares(d) =>
            Target(c) # Target(d) \/ request[c].expected # request[d].expected
    <3> SUFFICES ASSUME draft[c] # {}, wrote[d], ~Prepares(c), ~Prepares(d)
                 PROVE  Target(c) # Target(d) \/ request[c].expected # request[d].expected
        BY <1>2, <2>1
    <3>1. version[Target(c)] = request[c].expected
        BY <1>0, <1>7 DEF Drafted
    <3>2. version[Target(d)] > request[d].expected
        BY <2>1 DEF Answered
    <3>3. request[d].expected \in Nat
        BY <1>0, Fields
    <3> QED BY <3>1, <3>2, <3>3
  <2> QED BY <2>1, <2>2, <2>3 DEF Apart, Prepares, Target, Flow
<1>11. ASSUME NEW d \in Caller \ {c}, NEW e \in Caller \ {c}, d # e PROVE Apart(d, e)'
    BY <1>0, <1>1, <1>2, <1>11 DEF Apart, Prepares, Target, Flow
<1> QED BY <1>4, <1>6, <1>8, <1>9, <1>10, <1>11 DEF Served

-----------------------------------------------------------------------------
(* The invariant                                                             *)

LEMMA ServedInit == RequestInit => Served
<1> SUFFICES ASSUME RequestInit PROVE Served
    OBVIOUS
<1>1. (CHOOSE r \in Offers : TRUE) \in Offers
    BY RequestAssumption
<1>2. RequestTypeOK
    BY <1>1, RequestAssumption DEF RequestInit, RequestTypeOK, Stage
<1>3. ASSUME NEW c \in Caller PROVE Drafted(c) /\ Checked(c) /\ Answered(c)
  <2>1. stage[c] = "idle" /\ draft[c] = {} /\ answer[c] = Waiting /\ told[c] = NoAnswer /\ ~wrote[c]
    BY DEF RequestInit
  <2> QED BY <2>1, Statuses DEF Drafted, Checked, Answered
<1>4. \A c, d \in Caller : Apart(c, d)
    BY Statuses DEF RequestInit, Apart
<1> QED BY <1>2, <1>3, <1>4 DEF Served

LEMMA ServedStep == Served /\ [RequestNext]_requestVars => Served'
<1> SUFFICES ASSUME Served, [RequestNext]_requestVars PROVE Served'
    OBVIOUS
<1>1. ASSUME NEW c \in Caller, NEW r \in Offers, Sends(c, r) PROVE Served'
    BY <1>1, SendsStep
<1>2. ASSUME NEW c \in Caller, HangsUp(c) PROVE Served'
    BY <1>2, HangsUpStep
<1>3. ASSUME NEW c \in Caller, ServerStep(c) PROVE Served'
  <2>1. CASE Arrives(c)
    BY <2>1, ArrivesStep
  <2>2. CASE EnsuresWorkflow(c)
    BY <2>2, EnsuresWorkflowStep
  <2>3. CASE InsertsOperation(c)
    BY <2>3, InsertsOperationStep
  <2>4. CASE LocksRow(c)
    BY <2>4, LocksRowStep
  <2>5. CASE Commits(c)
    BY <2>5, VisibleStep, Statuses DEF Commits
  <2>6. CASE Delivers(c)
    BY <2>6, HangsUpStep
  <2> QED BY <1>3, <2>1, <2>2, <2>3, <2>4, <2>5, <2>6 DEF ServerStep
<1>4. ASSUME NEW c \in Caller, CommitUnheard(c) PROVE Served'
    BY <1>4, VisibleStep, Statuses DEF CommitUnheard
<1>5. ASSUME NEW c \in Caller, Fails(c) PROVE Served'
    BY <1>5, FailsStep
<1>6. CASE UNCHANGED requestVars
  <2>1. UNCHANGED <<strategyOf, content, version, request, stage, draft, answer, told, wrote>>
    BY <1>6 DEF requestVars, rows, server
  <2>2. RequestTypeOK'
    BY <2>1 DEF Served, RequestTypeOK
  <2>3. ASSUME NEW c \in Caller PROVE (Drafted(c) /\ Checked(c) /\ Answered(c))'
    BY <2>1 DEF Served, Drafted, Checked, Answered, Opposed, ContentAgrees, WorkflowAgrees,
                Prepares, Target, Flow
  <2>4. ASSUME NEW c \in Caller, NEW d \in Caller, c # d PROVE Apart(c, d)'
    BY <2>1, <2>4 DEF Served, Apart, Prepares, Target, Flow
  <2> QED BY <2>2, <2>3, <2>4 DEF Served
<1> QED BY <1>1, <1>2, <1>3, <1>4, <1>5, <1>6 DEF RequestNext

LEMMA ServedAlways == RequestSpec => []Served
BY ServedInit, ServedStep, PTL DEF RequestSpec

-----------------------------------------------------------------------------
(* Theorems                                                                  *)

\* Requests, rows and answers are what RequestTypeOK says they are: a row that is
\* committed has a version, and one that is not has none.
THEOREM RequestTypesHold == RequestSpec => []RequestTypeOK
<1>1. Served => RequestTypeOK
    BY DEF Served
<1> QED BY <1>1, ServedAlways, PTL

\* An error other than 503 that reaches a caller tells it that nothing happened.
THEOREM RefusedNeverWrote == RequestSpec => []RefusalsAreFinal
<1>1. Served => RefusalsAreFinal
    BY Statuses DEF Served, Answered, RefusalsAreFinal
<1> QED BY <1>1, ServedAlways, PTL

\* Callers that prepared the same operation agree on it, and one made it.
THEOREM PreparersAgree == RequestSpec => []PreparesAgree
<1>1. ASSUME Served, NEW c \in Caller, told[c] \in {Created, Done}, Prepares(c)
      PROVE  /\ WorkflowAgrees(c) /\ ContentAgrees(c)
             /\ \A d \in Caller \ {c} : told[c] = Created /\ told[d] = Created =>
                    Target(d) # Target(c)
  <2>1. \A d \in Caller : Answered(d)
    BY <1>1 DEF Served
  <2>2. \A d \in Caller : told[d] \in {Created, Done} => answer[d] = told[d]
    BY <2>1, Statuses DEF Answered
  <2>3. WorkflowAgrees(c) /\ ContentAgrees(c)
    BY <1>1, <2>1, <2>2 DEF Answered
  <2>4. \A d \in Caller \ {c} : told[c] = Created /\ told[d] = Created => Target(d) # Target(c)
    BY <1>1, <2>2 DEF Served, Apart
  <2> QED BY <2>3, <2>4
<1>2. Served => PreparesAgree
    BY <1>1 DEF PreparesAgree, Prepares, WorkflowAgrees, ContentAgrees, Target, Flow
<1> QED BY <1>2, ServedAlways, PTL

\* A prepare is told of a conflict only where there is one.
THEOREM ConflictsExist == RequestSpec => []ConflictsAreReal
<1>1. ASSUME Served, NEW c \in Caller, told[c] = 409, Prepares(c) PROVE Opposed(c)
  <2>1. Answered(c)
    BY <1>1 DEF Served
  <2>2. answer[c] = 409
    BY <1>1, <2>1, Statuses DEF Answered
  <2> QED BY <1>1, <2>1, <2>2 DEF Answered
<1>2. Served => ConflictsAreReal
    BY <1>1 DEF ConflictsAreReal, Prepares, Opposed, Target, Flow
<1> QED BY <1>2, ServedAlways, PTL

\* Of those who quote one version of an operation one at most changes it.
THEOREM WritersAreSingle == RequestSpec => []OneWriterPerVersion
<1>1. ASSUME Served, NEW c \in Caller, wrote[c], ~Prepares(c)
      PROVE  /\ version[Target(c)] > request[c].expected
             /\ \A d \in Caller \ {c} : wrote[d] /\ ~Prepares(d) =>
                  Target(d) # Target(c) \/ request[d].expected # request[c].expected
    BY <1>1 DEF Served, Answered, Apart
<1>2. Served => OneWriterPerVersion
    BY <1>1 DEF OneWriterPerVersion, Prepares, Target
<1> QED BY <1>2, ServedAlways, PTL

-----------------------------------------------------------------------------
(* Transactions are as if they took one step, which is how OperationStore     *)
(* has them.                                                                  *)

\* A new operation, and with the first one of a workflow the workflow.
PreparedAtOnce(o, strategy, text) ==
    /\ content[o] = None
    /\ strategyOf[WorkflowOf[o]] \in {None, strategy}
    /\ strategyOf' = [strategyOf EXCEPT ![WorkflowOf[o]] = strategy]
    /\ content' = [content EXCEPT ![o] = text]
    /\ version' = [version EXCEPT ![o] = 1]

\* The version that is quoted is that of the row at the moment it is replaced.
ChangedAtOnce(o, expected) ==
    /\ content[o] # None
    /\ version[o] = expected
    /\ version' = [version EXCEPT ![o] = expected + 1]
    /\ UNCHANGED <<strategyOf, content>>

\* A request writes once, and what it writes is all of one of these.
OneTransaction ==
    \E c \in Caller :
        /\ ~wrote[c] /\ wrote'[c]
        /\ LET r == request[c]
           IN  IF r.call = "prepare" THEN PreparedAtOnce(r.op, r.strategy, r.text)
               ELSE ChangedAtOnce(r.op, r.expected)

\* No operation is without its workflow.
Founded == \A o \in Op : content[o] # None => strategyOf[WorkflowOf[o]] # None

LEMMA CommitIsOneStep ==
    ASSUME Served, Founded, NEW c \in Caller, stage[c] = "commit", BecomesVisible(c)
    PROVE  OneTransaction \/ UNCHANGED rows
<1> DEFINE r == request[c]
<1>0. /\ RequestTypeOK /\ Drafted(c) /\ Checked(c) /\ Answered(c)
      /\ Flow(c) \in Workflow /\ Target(c) \in Op
      /\ ~wrote[c]
    BY Fields DEF Served, Answered
<1>1. /\ wrote'[c] = (draft[c] # {})
      /\ draft[c] \subseteq {"workflow", "operation", "row"}
    BY <1>0 DEF BecomesVisible, RequestTypeOK
<1>2. /\ strategyOf' = [strategyOf EXCEPT ![Flow(c)] =
                            IF "workflow" \in draft[c] THEN r.strategy ELSE @]
      /\ content' = [content EXCEPT ![Target(c)] =
                            IF "operation" \in draft[c] THEN r.text ELSE @]
      /\ version' = [version EXCEPT ![Target(c)] =
                            IF "operation" \in draft[c] THEN 1
                            ELSE IF "row" \in draft[c] THEN r.expected + 1 ELSE @]
    BY DEF BecomesVisible, Flow, Target
<1>3. CASE "operation" \in draft[c]
  <2>1. /\ Prepares(c) /\ content[Target(c)] = None
        /\ \/ strategyOf[Flow(c)] = None /\ "workflow" \in draft[c]
           \/ strategyOf[Flow(c)] = r.strategy
    BY <1>0, <1>3 DEF Drafted, Checked, WorkflowAgrees
  <2>2. strategyOf' = [strategyOf EXCEPT ![Flow(c)] = r.strategy]
    BY <1>0, <1>2, <2>1 DEF RequestTypeOK
  <2>3. PreparedAtOnce(Target(c), r.strategy, r.text)
    BY <1>2, <1>3, <2>1, <2>2 DEF PreparedAtOnce, Flow, Target
  <2> QED BY <1>0, <1>1, <1>3, <2>1, <2>3 DEF OneTransaction, Prepares, Target
<1>4. CASE "row" \in draft[c]
  <2>1. ~Prepares(c) /\ version[Target(c)] = r.expected /\ r.expected # 0
    BY <1>0, <1>4, Fields DEF Drafted
  <2>2. "workflow" \notin draft[c] /\ "operation" \notin draft[c]
    BY <1>0, <2>1 DEF Drafted
  <2>3. content[Target(c)] # None
    BY <1>0, <2>1 DEF RequestTypeOK
  <2>4. UNCHANGED <<strategyOf, content>>
    BY <1>0, <1>2, <2>2 DEF RequestTypeOK
  <2>5. ChangedAtOnce(Target(c), r.expected)
    BY <1>2, <1>4, <2>1, <2>2, <2>3, <2>4 DEF ChangedAtOnce
  <2> QED BY <1>0, <1>1, <1>4, <2>1, <2>5 DEF OneTransaction, Prepares, Target
<1>5. CASE "operation" \notin draft[c] /\ "row" \notin draft[c]
  <2>1. "workflow" \notin draft[c]
    <3>1. SUFFICES ASSUME "workflow" \in draft[c] PROVE FALSE
        OBVIOUS
    <3>2. Prepares(c) /\ strategyOf[Flow(c)] = None
        BY <1>0, <3>1 DEF Drafted
    <3>3. content[Target(c)] # None
        BY <1>0, <1>5, <3>2 DEF Checked, ContentAgrees
    <3> QED BY <1>0, <3>2, <3>3 DEF Founded, Flow, Target
  <2> QED BY <1>0, <1>2, <1>5, <2>1 DEF RequestTypeOK, rows
<1> QED BY <1>3, <1>4, <1>5

LEMMA SerialStep ==
    ASSUME Served, Founded, [RequestNext]_requestVars
    PROVE  [OneTransaction]_rows
<1>1. ASSUME NEW c \in Caller, Commits(c) \/ CommitUnheard(c) PROVE [OneTransaction]_rows
    BY <1>1, CommitIsOneStep DEF Commits, CommitUnheard
<1>2. ASSUME NEW c \in Caller,
             \/ \E r \in Offers : Sends(c, r)
             \/ HangsUp(c) \/ Arrives(c) \/ EnsuresWorkflow(c) \/ InsertsOperation(c)
             \/ LocksRow(c) \/ Delivers(c) \/ Fails(c)
      PROVE  UNCHANGED rows
    BY <1>2 DEF Sends, HangsUp, Arrives, EnsuresWorkflow, InsertsOperation, LocksRow, Delivers,
                Fails, Refuses, GoesOn
<1> QED BY <1>1, <1>2 DEF RequestNext, ServerStep, requestVars

LEMMA FoundedStep == Served /\ Founded /\ [RequestNext]_requestVars => Founded'
<1> SUFFICES ASSUME Served, Founded, [RequestNext]_requestVars PROVE Founded'
    OBVIOUS
<1>0. RequestTypeOK /\ None \notin Strategy
    BY RequestAssumption DEF Served
<1>1. CASE UNCHANGED rows
    BY <1>1 DEF rows, Founded
<1>2. ASSUME NEW c \in Caller, request[c].call = "prepare",
             PreparedAtOnce(request[c].op, request[c].strategy, request[c].text)
      PROVE  Founded'
  <2>1. request[c].op \in Op /\ request[c].strategy \in Strategy
    BY <1>0, <1>2, Fields DEF Prepares, Target
  <2> QED BY <1>0, <1>2, <2>1 DEF PreparedAtOnce, Founded, RequestTypeOK, Workflow
<1>3. ASSUME NEW o, NEW v, ChangedAtOnce(o, v) PROVE Founded'
    BY <1>3 DEF ChangedAtOnce, Founded
<1> QED BY <1>1, <1>2, <1>3, SerialStep DEF OneTransaction

\* Whatever the inserts, locks and commits of several connections do in between,
\* the committed rows change by one transaction at a time, each from the row it
\* quoted: no update is lost, none is half done, and none is made twice.
THEOREM TransactionsAreSerial == RequestSpec => [][OneTransaction]_rows
<1>1. RequestInit => Founded
    BY DEF RequestInit, Founded
<1> QED BY <1>1, ServedAlways, FoundedStep, SerialStep, PTL DEF RequestSpec

-----------------------------------------------------------------------------
(* Who waits for whom                                                       *)

\* The next statement of c cannot run before the transaction of d is over.
WaitsFor(c, d) ==
    /\ c # d
    /\ \/ stage[c] = "workflow"  /\ "workflow" \in draft[d]  /\ Flow(c) = Flow(d)
       \/ stage[c] = "operation" /\ "operation" \in draft[d] /\ Target(c) = Target(d)
       \/ stage[c] = "row"       /\ "row" \in draft[d]       /\ Target(c) = Target(d)

\* Of those who wait there is always one who does not wait for another of them.
NobodyWaitsInACircle ==
    \A S \in SUBSET Caller : S # {} => \E c \in S : \A d \in S : ~WaitsFor(c, d)

\* Statements wait in the specification exactly where somebody is waited for.
LEMMA ContendedIsWaiting ==
    ASSUME RequestTypeOK, NEW c \in Caller
    PROVE  /\ stage[c] = "workflow" =>
                (Contended(c, "workflow", {o \in Op : WorkflowOf[o] = Flow(c)})
                    <=> \E d \in Caller : WaitsFor(c, d))
           /\ stage[c] = "operation" =>
                (Contended(c, "operation", {Target(c)}) <=> \E d \in Caller : WaitsFor(c, d))
           /\ stage[c] = "row" =>
                (Contended(c, "row", {Target(c)}) <=> \E d \in Caller : WaitsFor(c, d))
<1>1. \A d \in Caller : Target(d) \in Op
    BY Fields
<1> QED BY <1>1 DEF Contended, WaitsFor, Target, Flow

\* Locks are taken in one order: who is waited for at an operation or a row only
\* has to commit, and who is waited for at a workflow waits for no workflow.
LEMMA WaitsAreShort ==
    ASSUME Served, NEW c \in Caller, NEW d \in Caller, NEW e \in Caller,
           WaitsFor(c, d), WaitsFor(d, e)
    PROVE  stage[c] = "workflow" /\ stage[d] = "operation" /\ stage[e] = "commit"
BY DEF Served, Drafted, WaitsFor

\* No transactions wait for one another in a circle, for any number of connections,
\* workflows and operations: every prepare inserts its workflow before its
\* operation, and the transactions that lock a row lock nothing else.
THEOREM WaitsAreAcyclic == RequestSpec => []NobodyWaitsInACircle
<1>1. ASSUME Served, NEW S \in SUBSET Caller, S # {}, \A c \in S : \E d \in S : WaitsFor(c, d)
      PROVE  FALSE
  <2>1. PICK c \in S : TRUE
    BY <1>1
  <2>2. PICK d \in S : WaitsFor(c, d)
    BY <1>1
  <2>3. PICK e \in S : WaitsFor(d, e)
    BY <1>1
  <2>4. PICK f \in S : WaitsFor(e, f)
    BY <1>1
  <2>5. stage[e] = "commit"
    BY <1>1, <2>2, <2>3, WaitsAreShort
  <2> QED BY <2>4, <2>5 DEF WaitsFor
<1>2. Served => NobodyWaitsInACircle
    BY <1>1 DEF NobodyWaitsInACircle
<1> QED BY <1>2, ServedAlways, PTL

-----------------------------------------------------------------------------
(* Requests look atomic                                                     *)

\* Only a request that is authentic and well formed has a transaction, and one that
\* changes a row without having locked it has a receipt that is on file.
Admitted(c) ==
    stage[c] \in {"workflow", "operation", "row", "commit"} => request[c] \in Admissible

Repeated(c) ==
    stage[c] = "commit" /\ ~Prepares(c) /\ "row" \notin draft[c] =>
        request[c].call = "change" /\ content[Target(c)] # None

Grounded == \A c \in Caller : Admitted(c) /\ Repeated(c)

Phases == [c \in Caller |-> Phase(c)]

AtomicStep == Atomic!Next \/ UNCHANGED Atomic!atomicVars

\* A request is as far as its own stage.
LEMMA Rephased ==
    ASSUME RequestTypeOK, NEW c \in Caller, NEW next \in Stage,
           stage' = [stage EXCEPT ![c] = next]
    PROVE  /\ next = "idle" => Phases' = [Phases EXCEPT ![c] = "idle"]
           /\ next = "reply" => Phases' = [Phases EXCEPT ![c] = "answered"]
           /\ next \notin {"idle", "reply"} => Phases' = [Phases EXCEPT ![c] = "called"]
<1>1. /\ stage'[c] = next
      /\ \A d \in Caller \ {c} : stage'[d] = stage[d]
    BY DEF RequestTypeOK
<1>2. \A d \in Caller \ {c} : Phase(d)' = Phase(d)
    BY <1>1 DEF Phase
<1>3. /\ next = "idle" => Phase(c)' = "idle"
      /\ next = "reply" => Phase(c)' = "answered"
      /\ next \notin {"idle", "reply"} => Phase(c)' = "called"
    BY <1>1 DEF Phase
<1> QED BY <1>2, <1>3 DEF Phases

\* A handler that goes on has not answered yet, so nobody sees it.
LEMMA GoesOnUnseen ==
    ASSUME RequestTypeOK, NEW c \in Caller, NEW next \in {"workflow", "operation", "row", "commit"},
           NEW holding, GoesOn(c, next, holding), stage[c] \notin {"idle", "reply"}
    PROVE  UNCHANGED Atomic!atomicVars
<1>1. stage' = [stage EXCEPT ![c] = next] /\ UNCHANGED <<rows, request, answer, told>>
    BY DEF GoesOn
<1>2. Phases' = [Phases EXCEPT ![c] = "called"]
    BY <1>1, Rephased DEF Stage
<1>3. Phases[c] = "called"
    BY DEF Phases, Phase
<1>4. Phases' = Phases
    BY <1>2, <1>3 DEF Phases
<1> QED BY <1>1, <1>4 DEF Phases, rows, Atomic!atomicVars, Atomic!rows

\* An answer is seen as one, be it the intended one or 503.
LEMMA AnswersSeen ==
    ASSUME RequestTypeOK, NEW c \in Caller, NEW status, NEW s \in {status, Unavailable},
           Answers(c, s), UNCHANGED <<request, told>>, stage[c] \notin {"idle", "reply"}
    PROVE  Atomic!Answers(c, status)
<1>1. stage' = [stage EXCEPT ![c] = "reply"] /\ answer' = [answer EXCEPT ![c] = s]
    BY DEF Answers
<1>2. Phases' = [Phases EXCEPT ![c] = "answered"]
    BY <1>1, Rephased DEF Stage
<1>3. Phases[c] = "called"
    BY DEF Phases, Phase
<1>4. \E t \in {status, Atomic!Unavailable} : answer' = [answer EXCEPT ![c] = t]
  <2>1. s \in {status, Atomic!Unavailable}
    BY DEF Unavailable, Atomic!Unavailable
  <2> QED BY <1>1, <2>1
<1> QED BY <1>2, <1>3, <1>4 DEF Phases, Atomic!Answers

\* A refusal changes no row.
LEMMA RefusesSeen ==
    ASSUME RequestTypeOK, NEW c \in Caller, NEW status, Refuses(c, status),
           stage[c] \notin {"idle", "reply"}
    PROVE  Atomic!Answers(c, status) /\ UNCHANGED Atomic!rows
<1>1. Answers(c, status) /\ UNCHANGED <<rows, request, told>>
    BY DEF Refuses
<1>2. Atomic!Answers(c, status)
    BY <1>1, AnswersSeen
<1> QED BY <1>1, <1>2 DEF rows, Atomic!rows

\* What an admitted request does at once is a step.
LEMMA ActsSeen ==
    ASSUME NEW c \in Caller, request[c] \in Admissible,
           \/ Atomic!Makes(c, request[c]) \/ Atomic!Finds(c, request[c])
           \/ Atomic!Conflicts(c, request[c]) \/ Atomic!Changes(c, request[c])
           \/ Atomic!Repeats(c, request[c]) \/ Atomic!Misses(c, request[c])
           \/ Atomic!Fails(c)
    PROVE  AtomicStep
<1>1. Atomic!Acts(c)
    BY DEF Atomic!Acts
<1> QED BY <1>1 DEF AtomicStep, Atomic!Next

LEMMA CallerSeen ==
    ASSUME RequestTypeOK, NEW c \in Caller,
           (\E r \in Offers : Sends(c, r)) \/ HangsUp(c) \/ Delivers(c)
    PROVE  AtomicStep
<1>1. ASSUME NEW r \in Offers, Sends(c, r) PROVE Atomic!Calls(c, r)
  <2>1. stage' = [stage EXCEPT ![c] = "arrived"] /\ stage[c] = "idle"
    BY <1>1 DEF Sends
  <2>2. Phases' = [Phases EXCEPT ![c] = "called"] /\ Phases[c] = "idle"
    BY <2>1, Rephased DEF Stage, Phases, Phase
  <2> QED BY <1>1, <2>2 DEF Sends, Phases, Atomic!Calls, Waiting, Atomic!Waiting, rows, Atomic!rows
<1>2. ASSUME HangsUp(c) PROVE Atomic!HangsUp(c)
  <2>1. Phases' = Phases /\ Phases[c] # "idle"
    BY <1>2 DEF HangsUp, server, Phases, Phase
  <2> QED BY <1>2, <2>1
          DEF HangsUp, server, Phases, Atomic!HangsUp, Waiting, Atomic!Waiting, NoAnswer,
              Atomic!NoAnswer, rows, Atomic!rows
<1>3. ASSUME Delivers(c) PROVE Atomic!Returns(c)
  <2>1. stage' = [stage EXCEPT ![c] = "idle"] /\ stage[c] = "reply"
    BY <1>3 DEF Delivers
  <2>2. Phases' = [Phases EXCEPT ![c] = "idle"] /\ Phases[c] = "answered"
    BY <2>1, Rephased DEF Stage, Phases, Phase
  <2> QED BY <1>3, <2>2
          DEF Delivers, Phases, Atomic!Returns, Waiting, Atomic!Waiting, rows, Atomic!rows
<1> QED BY <1>1, <1>2, <1>3 DEF AtomicStep, Atomic!Next, Atomic!Acts

LEMMA ArrivesSeen ==
    ASSUME RequestTypeOK, NEW c \in Caller, Arrives(c)
    PROVE  AtomicStep
<1>0. stage[c] = "arrived" /\ request[c] \in Offers
    BY DEF Arrives, RequestTypeOK
<1>1. ASSUME NEW status \in {400, 401, 422}, Refuses(c, status), request[c] \notin Admissible
      PROVE  AtomicStep
  <2>1. Atomic!Answers(c, status) /\ UNCHANGED Atomic!rows
    BY <1>0, <1>1, RefusesSeen
  <2>2. Atomic!Acts(c)
    BY <1>1, <2>1 DEF Atomic!Acts, Atomic!Rejects
  <2> QED BY <2>2 DEF AtomicStep, Atomic!Next
<1>2. ASSUME GoesOn(c, IF request[c].call = "prepare" THEN "workflow" ELSE "row", {})
      PROVE  AtomicStep
    BY <1>0, <1>2, GoesOnUnseen DEF AtomicStep
<1>3. ~Authentic(request[c]) \/ Malformed(request[c]) \/ Invalid(request[c])
        => request[c] \notin Admissible
    BY DEF Admissible
<1> QED BY <1>1, <1>2, <1>3 DEF Arrives

LEMMA PreparesSeen ==
    ASSUME Served, Grounded, NEW c \in Caller, EnsuresWorkflow(c) \/ InsertsOperation(c)
    PROVE  AtomicStep
<1>0. /\ RequestTypeOK /\ Prepares(c) /\ request[c] \in Admissible
      /\ stage[c] \in {"workflow", "operation"}
    BY DEF Served, Checked, Grounded, Admitted, EnsuresWorkflow, InsertsOperation
<1>1. ASSUME NEW next \in {"operation", "commit"}, NEW holding, GoesOn(c, next, holding)
      PROVE  AtomicStep
    BY <1>0, <1>1, GoesOnUnseen DEF AtomicStep
<1>2. ASSUME Refuses(c, 409), Opposed(c) PROVE AtomicStep
  <2>1. Atomic!Answers(c, 409) /\ UNCHANGED Atomic!rows
    BY <1>0, <1>2, RefusesSeen
  <2>2. Atomic!Conflicts(c, request[c])
    BY <1>0, <1>2, <2>1 DEF Atomic!Conflicts, Opposed, Prepares, Target, Flow
  <2> QED BY <1>0, <2>2, ActsSeen
<1>3. CASE EnsuresWorkflow(c)
    BY <1>1, <1>2, <1>3 DEF EnsuresWorkflow, Opposed, Flow
<1>4. CASE InsertsOperation(c)
    BY <1>1, <1>2, <1>4 DEF InsertsOperation, Fingerprint, Opposed, Target
<1> QED BY <1>3, <1>4

LEMMA LocksRowSeen ==
    ASSUME Served, Grounded, NEW c \in Caller, LocksRow(c)
    PROVE  AtomicStep
<1>0. /\ RequestTypeOK /\ ~Prepares(c) /\ request[c] \in Admissible /\ stage[c] = "row"
    BY DEF Served, Checked, Grounded, Admitted, LocksRow
<1>1. ASSUME NEW holding, GoesOn(c, "commit", holding) PROVE AtomicStep
    BY <1>0, <1>1, GoesOnUnseen DEF AtomicStep
<1>2. ASSUME Refuses(c, 404), content[Target(c)] = None PROVE AtomicStep
  <2>1. Atomic!Answers(c, 404) /\ UNCHANGED Atomic!rows
    BY <1>0, <1>2, RefusesSeen
  <2>2. Atomic!Misses(c, request[c])
    BY <1>0, <1>2, <2>1 DEF Atomic!Misses, Prepares, Target
  <2> QED BY <1>0, <2>2, ActsSeen
<1>3. ASSUME Refuses(c, 409), content[Target(c)] # None PROVE AtomicStep
  <2>1. Atomic!Answers(c, 409) /\ UNCHANGED Atomic!rows
    BY <1>0, <1>3, RefusesSeen
  <2>2. Atomic!Conflicts(c, request[c])
    BY <1>0, <1>3, <2>1 DEF Atomic!Conflicts, Prepares, Target
  <2> QED BY <1>0, <2>2, ActsSeen
<1> QED BY <1>1, <1>2, <1>3 DEF LocksRow, Target

LEMMA FailsSeen ==
    ASSUME Served, Grounded, NEW c \in Caller, Fails(c)
    PROVE  AtomicStep
<1>1. PICK status \in {500, Unavailable} :
        Refuses(c, status) /\ stage[c] \in {"workflow", "operation", "row", "commit"}
    BY DEF Fails
<1>2. Atomic!Answers(c, status) /\ UNCHANGED Atomic!rows
    BY <1>1, RefusesSeen DEF Served
<1>3. Atomic!Fails(c)
    BY <1>2 DEF Atomic!Fails, Unavailable, Atomic!Unavailable
<1> QED BY <1>1, <1>3, ActsSeen DEF Grounded, Admitted

\* A commit is where the request took place, whatever is heard of it: it finds the
\* rows as the statements before it left them.
LEMMA CommitSeen ==
    ASSUME Served, Founded, Grounded, NEW c \in Caller, Commits(c) \/ CommitUnheard(c)
    PROVE  AtomicStep
<1> DEFINE r == request[c]
           status == IF "operation" \in draft[c] THEN Created ELSE Done
<1>0. /\ RequestTypeOK /\ Drafted(c) /\ Checked(c)
      /\ Flow(c) \in Workflow /\ Target(c) \in Op
      /\ stage[c] = "commit" /\ BecomesVisible(c) /\ r \in Admissible
    BY Fields DEF Served, Commits, CommitUnheard, Grounded, Admitted
<1>1. Atomic!Answers(c, status)
  <2>1. \E s \in {status, Unavailable} : Answers(c, s)
    BY DEF Commits, CommitUnheard
  <2>2. UNCHANGED <<request, told>>
    BY <1>0 DEF BecomesVisible
  <2> QED BY <1>0, <2>1, <2>2, AnswersSeen
<1>2. /\ strategyOf' = [strategyOf EXCEPT ![Flow(c)] =
                            IF "workflow" \in draft[c] THEN r.strategy ELSE @]
      /\ content' = [content EXCEPT ![Target(c)] =
                            IF "operation" \in draft[c] THEN r.text ELSE @]
      /\ version' = [version EXCEPT ![Target(c)] =
                            IF "operation" \in draft[c] THEN 1
                            ELSE IF "row" \in draft[c] THEN r.expected + 1 ELSE @]
    BY <1>0 DEF BecomesVisible, Flow, Target
<1>3. CASE "operation" \in draft[c]
  <2>1. /\ Prepares(c) /\ content[Target(c)] = None
        /\ \/ strategyOf[Flow(c)] = None /\ "workflow" \in draft[c]
           \/ strategyOf[Flow(c)] = r.strategy
    BY <1>0, <1>3 DEF Drafted, Checked, WorkflowAgrees
  <2>2. strategyOf' = [strategyOf EXCEPT ![Flow(c)] = r.strategy]
    BY <1>0, <1>2, <2>1 DEF RequestTypeOK
  <2>3. Atomic!Answers(c, 201)
    BY <1>1, <1>3 DEF Created
  <2>4. Atomic!Makes(c, r)
    BY <1>2, <1>3, <2>1, <2>2, <2>3 DEF Atomic!Makes, Prepares, Flow, Target
  <2> QED BY <1>0, <2>4, ActsSeen
<1>4. CASE "row" \in draft[c]
  <2>1. ~Prepares(c) /\ version[Target(c)] = r.expected /\ r.expected # 0
    BY <1>0, <1>4, Fields DEF Drafted
  <2>2. "workflow" \notin draft[c] /\ "operation" \notin draft[c]
    BY <1>0, <2>1 DEF Drafted
  <2>3. content[Target(c)] # None
    BY <1>0, <2>1 DEF RequestTypeOK
  <2>4. UNCHANGED <<strategyOf, content>>
    BY <1>0, <1>2, <2>2 DEF RequestTypeOK
  <2>5. version' = [version EXCEPT ![Target(c)] = @ + 1]
    BY <1>2, <1>4, <2>1, <2>2
  <2>6. Atomic!Answers(c, 200)
    BY <1>1, <2>2 DEF Done
  <2>7. Atomic!Changes(c, r)
    BY <2>1, <2>3, <2>4, <2>5, <2>6 DEF Atomic!Changes, Prepares, Target
  <2> QED BY <1>0, <2>7, ActsSeen
<1>5. CASE "operation" \notin draft[c] /\ "row" \notin draft[c]
  <2>1. "workflow" \notin draft[c]
    <3>1. SUFFICES ASSUME "workflow" \in draft[c] PROVE FALSE
        OBVIOUS
    <3>2. Prepares(c) /\ strategyOf[Flow(c)] = None
        BY <1>0, <3>1 DEF Drafted
    <3>3. content[Target(c)] # None
        BY <1>0, <1>5, <3>2 DEF Checked, ContentAgrees
    <3> QED BY <1>0, <3>2, <3>3 DEF Founded, Flow, Target
  <2>2. UNCHANGED Atomic!rows
    BY <1>0, <1>2, <1>5, <2>1 DEF RequestTypeOK, Atomic!rows
  <2>3. Atomic!Answers(c, 200)
    BY <1>1, <1>5 DEF Done
  <2>4. CASE Prepares(c)
    <3>1. WorkflowAgrees(c) /\ ContentAgrees(c)
        BY <1>0, <1>5, <2>1, <2>4 DEF Checked
    <3>2. Atomic!Finds(c, r)
        BY <2>2, <2>3, <2>4, <3>1
           DEF Atomic!Finds, Prepares, WorkflowAgrees, ContentAgrees, Flow, Target
    <3> QED BY <1>0, <3>2, ActsSeen
  <2>5. CASE ~Prepares(c)
    <3>1. r.call = "change" /\ content[Target(c)] # None
        BY <1>0, <1>5, <2>5 DEF Grounded, Repeated
    <3>2. Atomic!Repeats(c, r)
        BY <2>2, <2>3, <3>1 DEF Atomic!Repeats, Target
    <3> QED BY <1>0, <3>2, ActsSeen
  <2> QED BY <2>4, <2>5
<1> QED BY <1>3, <1>4, <1>5

LEMMA RowsStay ==
    ASSUME Served, Founded, [RequestNext]_requestVars, NEW o \in Op, content[o] # None
    PROVE  content'[o] # None
<1>0. content \in [Op -> Spelling \union {None}] /\ None \notin Spelling
    BY RequestAssumption DEF Served, RequestTypeOK
<1>1. CASE UNCHANGED rows
    BY <1>1 DEF rows
<1>2. CASE OneTransaction
  <2>1. PICK c \in Caller :
          IF request[c].call = "prepare"
          THEN PreparedAtOnce(request[c].op, request[c].strategy, request[c].text)
          ELSE ChangedAtOnce(request[c].op, request[c].expected)
    BY <1>2 DEF OneTransaction
  <2> QED BY <1>0, <2>1 DEF PreparedAtOnce, ChangedAtOnce
<1> QED BY <1>1, <1>2, SerialStep

LEMMA GroundedStep ==
    ASSUME Served, Founded, Grounded, [RequestNext]_requestVars
    PROVE  Grounded'
<1>0. RequestTypeOK /\ \A d \in Caller : Target(d) \in Op
    BY Fields DEF Served
<1>1. ASSUME NEW d \in Caller, request'[d] = request[d], stage'[d] = stage[d], draft'[d] = draft[d]
      PROVE  (Admitted(d) /\ Repeated(d))'
  <2>1. Admitted(d)'
    BY <1>1 DEF Grounded, Admitted, Admissible
  <2>2. content[Target(d)] # None => content'[Target(d)] # None
    BY <1>0, RowsStay
  <2> QED BY <1>1, <2>1, <2>2 DEF Grounded, Repeated, Prepares, Target
<1>2. ASSUME NEW c \in Caller, stage'[c] \in {"idle", "arrived", "reply"}
      PROVE  (Admitted(c) /\ Repeated(c))'
    BY <1>2 DEF Admitted, Repeated
<1>3. ASSUME NEW c \in Caller,
             \A d \in Caller \ {c} :
                 request'[d] = request[d] /\ stage'[d] = stage[d] /\ draft'[d] = draft[d],
             (Admitted(c) /\ Repeated(c))'
      PROVE  Grounded'
    BY <1>1, <1>3 DEF Grounded
<1>4. ASSUME NEW c \in Caller, NEW status, Answers(c, status), UNCHANGED request PROVE Grounded'
  <2>1. /\ stage'[c] = "reply"
        /\ \A d \in Caller \ {c} :
             request'[d] = request[d] /\ stage'[d] = stage[d] /\ draft'[d] = draft[d]
    BY <1>0, <1>4 DEF Answers, RequestTypeOK
  <2> QED BY <1>2, <1>3, <2>1
<1>5. ASSUME NEW c \in Caller, NEW next \in {"workflow", "operation", "row", "commit"}, NEW holding,
             GoesOn(c, next, holding), request[c] \in Admissible,
             next = "commit" /\ ~Prepares(c) /\ "row" \notin holding =>
                request[c].call = "change" /\ content[Target(c)] # None
      PROVE  Grounded'
  <2>1. /\ stage'[c] = next /\ draft'[c] = draft[c] \union holding
        /\ UNCHANGED <<rows, request>>
        /\ \A d \in Caller \ {c} :
             request'[d] = request[d] /\ stage'[d] = stage[d] /\ draft'[d] = draft[d]
    BY <1>0, <1>5 DEF GoesOn, RequestTypeOK
  <2>2. Admitted(c)'
    BY <1>5, <2>1 DEF Admitted, Admissible
  <2>3. Repeated(c)'
    BY <1>5, <2>1 DEF Repeated, Prepares, Target, rows
  <2> QED BY <1>3, <2>1, <2>2, <2>3
<1>6. ASSUME NEW c \in Caller, NEW r \in Offers, Sends(c, r) PROVE Grounded'
  <2>1. /\ stage'[c] = "arrived"
        /\ \A d \in Caller \ {c} :
             request'[d] = request[d] /\ stage'[d] = stage[d] /\ draft'[d] = draft[d]
    BY <1>0, <1>6 DEF Sends, RequestTypeOK
  <2> QED BY <1>2, <1>3, <2>1
<1>7. ASSUME NEW c \in Caller, Delivers(c) PROVE Grounded'
  <2>1. /\ stage'[c] = "idle"
        /\ \A d \in Caller \ {c} :
             request'[d] = request[d] /\ stage'[d] = stage[d] /\ draft'[d] = draft[d]
    BY <1>0, <1>7 DEF Delivers, RequestTypeOK
  <2> QED BY <1>2, <1>3, <2>1
<1>8. ASSUME NEW c \in Caller, HangsUp(c) \/ UNCHANGED requestVars PROVE Grounded'
  <2>1. UNCHANGED <<request, stage, draft>>
    BY <1>8 DEF HangsUp, server, requestVars
  <2> QED BY <1>1, <2>1 DEF Grounded
<1>9. ASSUME NEW c \in Caller, Arrives(c) PROVE Grounded'
  <2>1. request[c] \in Offers
    BY <1>0 DEF RequestTypeOK
  <2>2. CASE \E status \in {400, 401, 422} : Refuses(c, status)
    BY <1>4, <2>2 DEF Refuses
  <2>3. ASSUME request[c] \in Admissible,
               GoesOn(c, IF request[c].call = "prepare" THEN "workflow" ELSE "row", {})
        PROVE  Grounded'
    BY <1>5, <2>3
  <2> QED BY <1>9, <2>1, <2>2, <2>3 DEF Arrives, Admissible
<1>10. ASSUME NEW c \in Caller, EnsuresWorkflow(c) \/ InsertsOperation(c) PROVE Grounded'
  <2>1. request[c] \in Admissible /\ Prepares(c)
    BY <1>10 DEF Served, Checked, Grounded, Admitted, EnsuresWorkflow, InsertsOperation
  <2>2. ASSUME Refuses(c, 409) PROVE Grounded'
    BY <1>4, <2>2 DEF Refuses
  <2>3. ASSUME NEW next \in {"operation", "commit"}, NEW holding, GoesOn(c, next, holding)
        PROVE  Grounded'
    BY <1>5, <2>1, <2>3
  <2>4. CASE EnsuresWorkflow(c)
    BY <2>2, <2>3, <2>4 DEF EnsuresWorkflow
  <2>5. CASE InsertsOperation(c)
    BY <2>2, <2>3, <2>5 DEF InsertsOperation
  <2> QED BY <1>10, <2>4, <2>5
<1>11. ASSUME NEW c \in Caller, LocksRow(c) PROVE Grounded'
  <2>1. request[c] \in Admissible
    BY <1>11 DEF Grounded, Admitted, LocksRow
  <2>2. ASSUME NEW status \in {404, 409}, Refuses(c, status) PROVE Grounded'
    BY <1>4, <2>2 DEF Refuses
  <2>3. ASSUME GoesOn(c, "commit", {"row"}) PROVE Grounded'
    BY <1>5, <2>1, <2>3
  <2>4. ASSUME GoesOn(c, "commit", {}), request[c].call = "change", content[Target(c)] # None
        PROVE  Grounded'
    BY <1>5, <2>1, <2>4
  <2> QED BY <1>11, <2>2, <2>3, <2>4 DEF LocksRow, Target
<1>12. ASSUME NEW c \in Caller, Commits(c) \/ CommitUnheard(c) \/ Fails(c) PROVE Grounded'
  <2>1. \E status : Answers(c, status)
    BY <1>12 DEF Commits, CommitUnheard, Fails, Refuses
  <2>2. UNCHANGED request
    BY <1>12 DEF Commits, CommitUnheard, Fails, Refuses, BecomesVisible
  <2> QED BY <1>4, <2>1, <2>2
<1>13. CASE UNCHANGED requestVars
    BY <1>1, <1>13 DEF Grounded, requestVars, server
<1> QED BY <1>6, <1>7, <1>8, <1>9, <1>10, <1>11, <1>12, <1>13 DEF RequestNext, ServerStep

LEMMA StepSeen ==
    ASSUME Served, Founded, Grounded, [RequestNext]_requestVars
    PROVE  AtomicStep
<1>0. RequestTypeOK
    BY DEF Served
<1>1. ASSUME NEW c \in Caller, (\E r \in Offers : Sends(c, r)) \/ HangsUp(c) \/ Delivers(c)
      PROVE  AtomicStep
    BY <1>0, <1>1, CallerSeen
<1>2. ASSUME NEW c \in Caller, Arrives(c) PROVE AtomicStep
    BY <1>0, <1>2, ArrivesSeen
<1>3. ASSUME NEW c \in Caller, EnsuresWorkflow(c) \/ InsertsOperation(c) PROVE AtomicStep
    BY <1>3, PreparesSeen
<1>4. ASSUME NEW c \in Caller, LocksRow(c) PROVE AtomicStep
    BY <1>4, LocksRowSeen
<1>5. ASSUME NEW c \in Caller, Commits(c) \/ CommitUnheard(c) PROVE AtomicStep
    BY <1>5, CommitSeen
<1>6. ASSUME NEW c \in Caller, Fails(c) PROVE AtomicStep
    BY <1>6, FailsSeen
<1>7. CASE UNCHANGED requestVars
    BY <1>7 DEF AtomicStep, requestVars, server, rows, Phase, Atomic!atomicVars, Atomic!rows
<1> QED BY <1>1, <1>2, <1>3, <1>4, <1>5, <1>6, <1>7 DEF RequestNext, ServerStep

\* Requests are linearizable, for any number of connections and any requests: each
\* looks as if it read and changed the rows in one step between call and answer.
THEOREM RequestsLookAtomic == RequestSpec => LooksAtomic
<1>1. RequestInit => Founded /\ Grounded
  <2>1. RequestInit => \A c \in Caller : stage[c] = "idle"
    BY DEF RequestInit
  <2> QED BY <2>1 DEF RequestInit, Founded, Grounded, Admitted, Repeated
<1>2. RequestInit => Atomic!Init
  <2> SUFFICES ASSUME RequestInit PROVE Atomic!Init
    OBVIOUS
  <2>1. [c \in Caller |-> Phase(c)] = [c \in Caller |-> "idle"]
    BY DEF RequestInit, Phase
  <2>2. request \in [Caller -> Offers]
    BY RequestAssumption DEF RequestInit
  <2> QED BY <2>1, <2>2
          DEF RequestInit, Atomic!Init, Workflow, Waiting, Atomic!Waiting, NoAnswer,
              Atomic!NoAnswer
<1>3. Served /\ Founded /\ Grounded /\ [RequestNext]_requestVars => Grounded'
    BY GroundedStep
<1>4. Served /\ Founded /\ Grounded /\ [RequestNext]_requestVars
        => [Atomic!Next]_(Atomic!atomicVars)
    BY StepSeen DEF AtomicStep
<1> QED BY <1>1, <1>2, <1>3, <1>4, ServedAlways, FoundedStep, PTL
        DEF RequestSpec, LooksAtomic, Atomic!Spec

=============================================================================
