------------------------------- MODULE Listing -------------------------------
(***************************************************************************)
(* The two paged reads of the API, ListOperations and ListEvents, against  *)
(* transactions that have begun but not committed.  What a page is sorted  *)
(* by is fixed before its row can be seen: created_at is the time at which *)
(* the transaction of Prepare began, the id of an event the number drawn   *)
(* at its INSERT.  A sweep is what a caller does who follows next_cursor   *)
(* from the first page to the last, unchanged and with the same filter or  *)
(* operation.                                                              *)
(***************************************************************************)
EXTENDS Naturals, FiniteSets

CONSTANTS
    Op,     \* operations; as numbers, ordered like their UUIDs
    Limit,  \* page size, 1 to 200 (parseLimit)
    MaxNow, \* bound: the clock stops there
    MaxId   \* bound: no event id is drawn beyond it

ASSUME ListingAssumption ==
    /\ Op \subseteq Nat \ {0}
    /\ IsFiniteSet(Op)
    /\ Limit \in Nat \ {0}
    /\ MaxNow \in Nat \ {0}
    /\ MaxId \in Nat

VARIABLES
    now,      \* the database clock, in steps of what created_at resolves
    created,  \* created_at of every committed row, 0 while there is none
    fits,     \* the operations whose committed row passes the filter
    txs,      \* transactions that have not ended
    nextId,   \* operation_events_id_seq
    events,   \* the ids of the committed events of each operation
    \* a sweep over the operations
    after,    \* the cursor, <<created_at, id>>
    over,     \* the last page came without a cursor
    listed,   \* how often each operation was listed
    owed,     \* operations that passed the filter ever since the sweep began
    \* a sweep over the events of one operation
    trail,    \* the operation
    past,     \* the cursor, an event id
    shown,    \* the ids read so far
    ended     \* the last page came without a cursor

tables  == <<now, created, fits, txs, nextId, events>>
sweep   == <<after, over, listed, owed>>
reading == <<trail, past, shown, ended>>
listingVars == <<tables, sweep, reading>>

\* A transaction of Prepare, or one on a row that exists; with its start and its
\* event, 0 before the INSERT.
Tx == [op : Op, new : BOOLEAN, began : Nat, id : Nat]

Start == <<0, 0>>

Key(o) == <<created[o], o>>

\* A caller who follows next_cursor holds the key of a committed row, or the id of
\* an event it was shown, and keeps holding one while rows change.  The code itself
\* takes any cursor that is well formed: it carries a key only, no filter and no
\* operation.  Callers who make or mix up cursors are not modelled.
ListingTypeOK ==
    /\ now \in 1..MaxNow
    /\ created \in [Op -> 0..MaxNow]
    /\ fits \subseteq Op
    /\ txs \subseteq Tx
    /\ nextId \in 1..(MaxId + 1)
    /\ events \in [Op -> SUBSET (1..MaxId)]
    /\ after = Start \/ \E o \in Op : created[o] # 0 /\ after = Key(o)
    /\ over \in BOOLEAN
    /\ listed \in [Op -> Nat]
    /\ owed \subseteq Op
    /\ trail \in Op
    /\ past \in {0} \union shown
    /\ shown \subseteq events[trail]
    /\ ended \in BOOLEAN

ListingInit ==
    /\ now = 1
    /\ created = [o \in Op |-> 0]
    /\ fits = {}
    /\ txs = {}
    /\ nextId = 1
    /\ events = [o \in Op |-> {}]
    /\ after = Start
    /\ over = FALSE
    /\ listed = [o \in Op |-> 0]
    /\ owed = {}
    /\ trail \in Op
    /\ past = 0
    /\ shown = {}
    /\ ended = FALSE

-----------------------------------------------------------------------------
(* Transactions *)

Ticks ==
    /\ now < MaxNow
    /\ now' = now + 1
    /\ UNCHANGED <<created, fits, txs, nextId, events, sweep, reading>>

\* Prepare begins.  The row and its created_at are there, for nobody else to see;
\* a second Prepare of the same intent waits for it at the unique index.
Begins(o) ==
    /\ created[o] = 0
    /\ \A t \in txs : t.op # o
    /\ txs' = txs \union {[op |-> o, new |-> TRUE, began |-> now, id |-> 0]}
    /\ UNCHANGED <<now, created, fits, nextId, events, sweep, reading>>

\* Mutant: rows are read without FOR UPDATE.
ReadsRow(o) ==
    /\ created[o] # 0
    /\ Cardinality({t \in txs : t.op = o}) < 2
    /\ txs' = txs \union {[op |-> o, new |-> FALSE, began |-> now, id |-> 0]}
    /\ UNCHANGED <<now, created, fits, nextId, events, sweep, reading>>

\* Any other transaction waits until it has its row for itself.
LocksRow(o) ==
    /\ created[o] # 0
    /\ \A t \in txs : t.op # o
    /\ txs' = txs \union {[op |-> o, new |-> FALSE, began |-> now, id |-> 0]}
    /\ UNCHANGED <<now, created, fits, nextId, events, sweep, reading>>

InsertsEvent(t) ==
    /\ t.id = 0
    /\ nextId <= MaxId
    /\ txs' = (txs \ {t}) \union {[t EXCEPT !.id = nextId]}
    /\ nextId' = nextId + 1
    /\ UNCHANGED <<now, created, fits, events, sweep, reading>>

\* Mutant: pages are ordered by the time of the last change.
CommitsTouching(t) ==
    /\ t.id # 0
    /\ txs' = txs \ {t}
    /\ created' = [created EXCEPT ![t.op] = t.began]
    /\ events' = [events EXCEPT ![t.op] = @ \union {t.id}]
    /\ \/ fits' = fits \union {t.op} /\ owed' = owed
       \/ fits' = fits \ {t.op} /\ owed' = owed \ {t.op}
    /\ UNCHANGED <<now, nextId, after, over, listed, reading>>

\* Whether the row passes the filter on state from now on is up to what the
\* transaction did.
Commits(t) ==
    /\ t.id # 0
    /\ txs' = txs \ {t}
    /\ created' = [created EXCEPT ![t.op] = IF t.new THEN t.began ELSE @]
    /\ events' = [events EXCEPT ![t.op] = @ \union {t.id}]
    /\ \/ fits' = fits \union {t.op} /\ owed' = owed
       \/ fits' = fits \ {t.op} /\ owed' = owed \ {t.op}
    /\ UNCHANGED <<now, nextId, after, over, listed, reading>>

\* A rejected call, a broken connection: the number drawn is lost.
RollsBack(t) ==
    /\ txs' = txs \ {t}
    /\ UNCHANGED <<now, created, fits, nextId, events, sweep, reading>>

-----------------------------------------------------------------------------
(* ListOperations *)

\* (o.created_at,o.id) > ($5,$6)
Precedes(a, b) == a[1] < b[1] \/ (a[1] = b[1] /\ a[2] < b[2])

Rows == {o \in fits : created[o] # 0 /\ Precedes(after, Key(o))}

\* The first Limit rows; the query asks for one more, to see if there is one.
Page == {o \in Rows : Cardinality({p \in Rows : Precedes(Key(p), Key(o))}) < Limit}

LastOf(page) == CHOOSE o \in page : \A p \in page : p = o \/ Precedes(Key(p), Key(o))

\* Mutant: the cursor is taken from the extra row.
CursorOfExtra(page) ==
    LET rest == Rows \ page
    IN  Key(CHOOSE o \in rest : \A p \in rest : p = o \/ Precedes(Key(o), Key(p)))

\* Mutant: the cursor is the id alone.
CursorOfId(page) == <<0, LastOf(page)>>

NextCursor(page) == Key(LastOf(page))

\* A page is one statement and sees what is committed by then.
ListsPage ==
    /\ ~over
    /\ listed' = [o \in Op |-> IF o \in Page THEN listed[o] + 1 ELSE listed[o]]
    /\ \/ Rows # Page /\ after' = NextCursor(Page) /\ UNCHANGED over
       \/ Rows = Page /\ over' = TRUE /\ UNCHANGED after
    /\ UNCHANGED <<tables, owed, reading>>

\* A caller begins again, without a cursor.
SweepsAgain ==
    /\ over
    /\ after' = Start
    /\ over' = FALSE
    /\ listed' = [o \in Op |-> 0]
    /\ owed' = fits
    /\ UNCHANGED <<tables, reading>>

-----------------------------------------------------------------------------
(* ListEvents *)

Unread == {e \in events[trail] : e > past}

EventPage == {e \in Unread : Cardinality({f \in Unread : f < e}) < Limit}

NextEventCursor(page) == CHOOSE e \in page : \A f \in page : f <= e

\* An operation that cannot be found is an error, not an empty page.
ReadsEvents ==
    /\ ~ended
    /\ created[trail] # 0
    /\ shown' = shown \union EventPage
    /\ \/ Unread # EventPage /\ past' = NextEventCursor(EventPage) /\ UNCHANGED ended
       \/ Unread = EventPage /\ ended' = TRUE /\ UNCHANGED past
    /\ UNCHANGED <<tables, sweep, trail>>

\* Another reader, of any operation.
ReadsAgain ==
    /\ ended
    /\ trail' \in Op
    /\ past' = 0
    /\ shown' = {}
    /\ ended' = FALSE
    /\ UNCHANGED <<tables, sweep>>

-----------------------------------------------------------------------------

ListingNext ==
    \/ Ticks
    \/ \E o \in Op : Begins(o) \/ LocksRow(o)
    \/ \E t \in txs : InsertsEvent(t) \/ Commits(t) \/ RollsBack(t)
    \/ ListsPage
    \/ SweepsAgain
    \/ ReadsEvents
    \/ ReadsAgain

ListingSpec == ListingInit /\ [][ListingNext]_listingVars

-----------------------------------------------------------------------------
(* Properties *)

\* Whatever is committed between two pages, before the cursor or behind it, no
\* operation is listed twice in a sweep.
ListedOnce == \A o \in Op : listed[o] <= 1

\* What passed the filter when the sweep began and ever since has been listed
\* when it is over, whatever came between and wherever it was put.
SweepIsComplete == over => \A o \in owed : listed[o] = 1

\* Nothing ever appears behind an event that was read: what a reader has seen of
\* an operation is always a beginning of its history, with nothing missing in
\* between, although numbers are drawn before transactions commit and lost when
\* they roll back.  It takes the lock on the row for this; the operations, whose
\* keys nothing guards, have no such property.
HistoryIsPrefix ==
    \A e \in events[trail], f \in shown : e < f => e \in shown

=============================================================================
