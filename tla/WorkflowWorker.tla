--------------------------- MODULE WorkflowWorker ---------------------------
(***************************************************************************)
(* internal/workflow/worker.go: Execute, send and confirm, as processes    *)
(* that call the store through pkg/client and send to the email service.   *)
(* Several workers may run the same operation, after a crash or by chance. *)
(*                                                                         *)
(* A call whose reply does not come back in time leaves its worker with an *)
(* error while the request may still be under way: it goes to "late" and   *)
(* may take effect at once, much later, or never.                          *)
(***************************************************************************)
EXTENDS OperationStore, EmailService

CONSTANTS
    Worker,
    JobOf,        \* the operation each worker executes
    ConfirmTries  \* attempts to persist a receipt (5 in the code)

ASSUME WorkerAssumption ==
    /\ JobOf \in [Worker -> Op]
    /\ ConfirmTries \in Nat \ {0}
    /\ Receipt = 1..MaxEffects
    /\ NoReceipt = 0
    /\ Grants = Nat

VARIABLES
    at,     \* the call each worker is about to make, or how Execute ended
    view,   \* op: the copy of the row it holds, where it may still act on it
    got,    \* receipt it was sent, 0 for none
    tries,  \* confirmations that failed
    late    \* requests their workers have given up

workerVars == <<at, view, got, tries, late>>

-----------------------------------------------------------------------------

Place == {"start", "retry", "grant", "send", "await", "persist", "reread", "compare",
          "poll", "done", "unsure", "stopped"}

Row(o) == [state |-> state[o], version |-> version[o], authorized |-> authorized[o]]

Snapshot == [state : State \union {"absent"}, version : Nat, authorized : BOOLEAN]

Request == [call : {"start", "retry", "grant", "persist"}, op : Op, version : Nat,
            receipt : 0..MaxEffects]

WorkerTypeOK ==
    /\ at \in [Worker -> Place]
    /\ view \in [Worker -> Snapshot]
    /\ got \in [Worker -> 0..MaxEffects]
    /\ tries \in [Worker -> 0..ConfirmTries]
    /\ late \subseteq Request

\* The zero value of client.Operation.
Blank == [state |-> "absent", version |-> 0, authorized |-> FALSE]

WorkerInit ==
    /\ at = [w \in Worker |-> "start"]
    /\ view = [w \in Worker |-> Blank]
    /\ got = [w \in Worker |-> 0]
    /\ tries = [w \in Worker |-> 0]
    /\ late = {}

\* A worker goes on with what it still needs of its copy, receipt and count.
Proceed(w, place, op, r, n) ==
    /\ at' = [at EXCEPT ![w] = place]
    /\ view' = [view EXCEPT ![w] = op]
    /\ got' = [got EXCEPT ![w] = r]
    /\ tries' = [tries EXCEPT ![w] = n]

GoTo(w, place) == Proceed(w, place, Blank, 0, 0)

\* Mutant: Execute waits for a final state.
FollowToTheEnd(w, op) ==
    \/ op.state \in {"confirmed", "reconciled"} /\ GoTo(w, "done")
    \/ op.state = "retryable" /\ Proceed(w, "retry", op, 0, 0)
    \/ op.state = "prepared" /\ ~op.authorized /\ Proceed(w, "grant", op, 0, 0)
    \/ /\ op.state = "uncertain" \/ (op.state = "prepared" /\ op.authorized)
       /\ GoTo(w, "poll")

\* What the switch of Execute does with the operation it read.
Follow(w, op) ==
    \/ op.state \in {"confirmed", "reconciled"} /\ GoTo(w, "done")
    \/ op.state = "uncertain" /\ GoTo(w, "unsure")
    \/ op.state = "retryable" /\ Proceed(w, "retry", op, 0, 0)
    \/ op.state = "prepared" /\ ~op.authorized /\ Proceed(w, "grant", op, 0, 0)
    \/ op.state = "prepared" /\ op.authorized /\ GoTo(w, "poll")

-----------------------------------------------------------------------------
(* Execute *)

\* A replay of the intent is answered with the row as it is.
Start(w) ==
    /\ at[w] = "start"
    /\ \/ Prepare(JobOf[w]) /\ Follow(w, Row(JobOf[w])')
       \/ state[JobOf[w]] # "absent" /\ Follow(w, Row(JobOf[w])) /\ UNCHANGED storeVars
    /\ UNCHANGED <<late, serviceVars>>

\* A rejected retry ends Execute; after a granted one it reads the row again.
StartAttempt(w) ==
    /\ at[w] = "retry"
    /\ \/ /\ BeginRetry(JobOf[w], view[w].version)
          /\ Proceed(w, "poll", Row(JobOf[w])', 0, 0)
       \/ /\ ~MayBeginRetry(JobOf[w], view[w].version)
          /\ GoTo(w, "stopped")
          /\ UNCHANGED storeVars
    /\ UNCHANGED <<late, serviceVars>>

AskToDispatch(w) ==
    /\ at[w] = "grant"
    /\ \/ /\ AuthorizeDispatch(JobOf[w], view[w].version)
          /\ Proceed(w, "send", Row(JobOf[w])', 0, 0)
       \/ /\ ~MayAuthorize(JobOf[w], view[w].version)
          /\ Proceed(w, "poll", view[w], 0, 0)
          /\ UNCHANGED storeVars
    /\ UNCHANGED <<late, serviceVars>>

Poll(w) ==
    /\ at[w] = "poll"
    /\ Follow(w, Row(JobOf[w]))
    /\ UNCHANGED <<late, storeVars, serviceVars>>

-----------------------------------------------------------------------------
(* send *)

Send(w) ==
    /\ at[w] = "send"
    /\ Accept(JobOf[w], view[w].version)
    /\ Proceed(w, "await", view[w], 0, 0)
    /\ UNCHANGED <<late, storeVars>>

IsCallOf(w, c) == c.op = JobOf[w] /\ c.grant = view[w].version

\* 201 yields a receipt to confirm; anything else is ambiguous and only polls.
TakeAnswer(w) ==
    /\ at[w] = "await"
    /\ \E c \in calls :
        /\ IsCallOf(w, c)
        /\ Finish(c)
        /\ \/ c.receipt # 0 /\ Proceed(w, "persist", view[w], c.receipt, 0)
           \/ c.receipt = 0 /\ GoTo(w, "poll")
    /\ UNCHANGED <<late, storeVars>>

-----------------------------------------------------------------------------
(* confirm *)

\* With the same receipt on file the store answers as if it had just stored it.
Persist(w) ==
    /\ at[w] = "persist"
    /\ \/ Confirm(JobOf[w], view[w].version, got[w]) /\ GoTo(w, "done")
       \/ /\ receipt[JobOf[w]] = got[w]
          /\ GoTo(w, "done")
          /\ UNCHANGED storeVars
       \/ /\ ~MayConfirm(JobOf[w], view[w].version)
          /\ receipt[JobOf[w]] # got[w]
          /\ Proceed(w, "reread", Blank, got[w], tries[w] + 1)
          /\ UNCHANGED storeVars
    /\ UNCHANGED <<late, serviceVars>>

\* Mutant: confirmation is tried until it succeeds.
MayPersistForever(w) == state[JobOf[w]] = "prepared"

MayPersist(w) == state[JobOf[w]] = "prepared" /\ tries[w] < ConfirmTries

\* Mutant: the receipt is compared whatever the row says.
RereadUnchecked(w) ==
    /\ at[w] = "reread"
    /\ \/ state[JobOf[w]] = "reconciled" /\ GoTo(w, "done")
       \/ MayPersist(w) /\ Proceed(w, "persist", Row(JobOf[w]), got[w], tries[w])
       \/ /\ state[JobOf[w]] # "reconciled"
          /\ ~MayPersist(w)
          /\ Proceed(w, "compare", Blank, got[w], 0)
    /\ UNCHANGED <<late, storeVars, serviceVars>>

\* GetOperation reads the row and then, in a statement of its own, the receipt;
\* the receipt matters only where the row was found confirmed.  Any other state
\* and the last failure only poll.
Reread(w) ==
    /\ at[w] = "reread"
    /\ \/ state[JobOf[w]] = "reconciled" /\ GoTo(w, "done")
       \/ state[JobOf[w]] = "confirmed" /\ Proceed(w, "compare", Blank, got[w], 0)
       \/ MayPersist(w) /\ Proceed(w, "persist", Row(JobOf[w]), got[w], tries[w])
       \/ /\ state[JobOf[w]] \notin {"confirmed", "reconciled"}
          /\ ~MayPersist(w)
          /\ GoTo(w, "poll")
    /\ UNCHANGED <<late, storeVars, serviceVars>>

\* A conflicting receipt only polls, and ends there.
Compare(w) ==
    /\ at[w] = "compare"
    /\ \/ receipt[JobOf[w]] = got[w] /\ GoTo(w, "done")
       \/ receipt[JobOf[w]] # got[w] /\ GoTo(w, "poll")
    /\ UNCHANGED <<late, storeVars, serviceVars>>

-----------------------------------------------------------------------------
(* Failures *)

\* The client's timeout, or a broken connection; the service works on.
GiveUpWaiting(w) ==
    /\ at[w] = "await"
    /\ GoTo(w, "poll")
    /\ UNCHANGED <<late, storeVars, serviceVars>>

\* No reply: an error to the worker, whatever becomes of its request.
LoseReply(w) ==
    /\ at[w] \in {"start", "retry", "grant", "persist"}
    /\ late' = late \union {[call |-> at[w], op |-> JobOf[w],
                             version |-> view[w].version, receipt |-> got[w]]}
    /\ \/ at[w] \in {"start", "retry"} /\ GoTo(w, "stopped")
       \/ at[w] = "grant" /\ Proceed(w, "poll", view[w], 0, 0)
       \/ at[w] = "persist" /\ Proceed(w, "reread", Blank, got[w], tries[w] + 1)
    /\ UNCHANGED <<storeVars, serviceVars>>

\* GetOperation fails: Execute goes on with its old copy, confirm gives up.
ReadFails(w) ==
    /\ \/ at[w] = "poll" /\ Follow(w, view[w])
       \/ at[w] \in {"reread", "compare"} /\ GoTo(w, "poll")
    /\ UNCHANGED <<late, storeVars, serviceVars>>

\* A request that would be rejected by then simply stays.
DeliverLate(r) ==
    /\ \/ r.call = "start" /\ Prepare(r.op)
       \/ r.call = "retry" /\ BeginRetry(r.op, r.version)
       \/ r.call = "grant" /\ AuthorizeDispatch(r.op, r.version)
       \/ r.call = "persist" /\ Confirm(r.op, r.version, r.receipt)
    /\ late' = late \ {r}
    /\ UNCHANGED <<at, view, got, tries, serviceVars>>

\* The process dies, or its context ends, and with it what it had in memory.
Crash(w) ==
    /\ at[w] \notin {"done", "unsure", "stopped"}
    /\ GoTo(w, "stopped")
    /\ UNCHANGED <<late, storeVars, serviceVars>>

\* The workflow is run again, with the same intent.
Rerun(w) ==
    /\ at[w] \in {"unsure", "stopped"}
    /\ GoTo(w, "start")
    /\ UNCHANGED <<late, storeVars, serviceVars>>

WorkerStep(w) ==
    \/ Start(w)
    \/ StartAttempt(w)
    \/ AskToDispatch(w)
    \/ Poll(w)
    \/ Send(w)
    \/ TakeAnswer(w)
    \/ Persist(w)
    \/ Reread(w)
    \/ Compare(w)

WorkerFault(w) == GiveUpWaiting(w) \/ LoseReply(w) \/ ReadFails(w) \/ Crash(w)

=============================================================================
