---------------------------- MODULE ListingProofs ----------------------------
(***************************************************************************)
(* Theorems about Listing, for any set of operations, any page size, and   *)
(* any number of transactions, pages and events.                           *)
(***************************************************************************)
EXTENDS Listing, FiniteSetTheorems, WellFoundedInduction, TLAPS

\* A finite set that is not empty has an element that comes after no other, in
\* any order.
LEMMA FirstExists ==
    ASSUME NEW S, IsFiniteSet(S), S # {}, NEW R,
           \A x \in S : <<x, x>> \notin R,
           \A x, y, z \in S : <<x, y>> \in R /\ <<y, z>> \in R => <<x, z>> \in R
    PROVE  \E x \in S : \A y \in S : <<y, x>> \notin R
<1> DEFINE Below(x) == {y \in S : <<y, x>> \in R}
           T == {Below(x) : x \in S}
<1>1. IsWellFoundedOn(StrictSubsetOrdering(S), FiniteSubsetsOf(S))
    BY FS_StrictSubsetOrderingWellFounded
<1>2. \A x \in S : Below(x) \in SUBSET S /\ IsFiniteSet(Below(x))
    BY FS_Subset
<1> HIDE DEF Below
<1>3. T \subseteq FiniteSubsetsOf(S) /\ T # {}
    BY <1>2 DEF FiniteSubsetsOf
<1>4. \E A \in T : \A B \in T : ~(<<B, A>> \in StrictSubsetOrdering(S))
    BY <1>1, <1>3, WFMin
<1>5. PICK x \in S : \A y \in S : ~(<<Below(y), Below(x)>> \in StrictSubsetOrdering(S))
    BY <1>4
<1>6. ASSUME NEW y \in S, <<y, x>> \in R PROVE FALSE
  <2>1. y \in Below(x) /\ y \notin Below(y) /\ Below(y) \subseteq Below(x)
    BY <1>6 DEF Below
  <2>2. <<Below(y), Below(x)>> \in StrictSubsetOrdering(S)
    BY <1>2, <2>1 DEF StrictSubsetOrdering
  <2> QED BY <1>5, <2>2
<1> QED BY <1>6

-----------------------------------------------------------------------------
(* The tables                                                               *)

\* A row has at most one transaction, and a transaction is on a row that exists
\* or makes one; the event it has inserted comes after all that are committed.
Tables ==
    /\ now \in Nat \ {0}
    /\ created \in [Op -> Nat]
    /\ fits \subseteq {o \in Op : created[o] # 0}
    /\ txs \subseteq Tx
    /\ nextId \in Nat \ {0}
    /\ events \in [Op -> SUBSET (Nat \ {0})]
    /\ \A t, u \in txs : t.op = u.op => t = u
    /\ \A t \in txs : /\ t.began # 0
                      /\ t.new <=> created[t.op] = 0
    /\ \A o \in Op : \A e \in events[o] : e < nextId
    /\ \A t \in txs : t.id # 0 => /\ t.id < nextId
                                  /\ \A e \in events[t.op] : e < t.id

LEMMA TablesStep == Tables /\ [ListingNext]_listingVars => Tables'
<1> SUFFICES ASSUME Tables, [ListingNext]_listingVars PROVE Tables'
    OBVIOUS
<1> USE DEF Tables
<1>1. CASE UNCHANGED tables
    BY <1>1 DEF tables
<1>2. CASE Ticks
    BY <1>2 DEF Ticks
<1>3. ASSUME NEW o \in Op, Begins(o) \/ LocksRow(o) PROVE Tables'
  <2>1. PICK new \in BOOLEAN :
            /\ txs' = txs \union {[op |-> o, new |-> new, began |-> now, id |-> 0]}
            /\ new <=> created[o] = 0
            /\ \A t \in txs : t.op # o
            /\ UNCHANGED <<now, created, fits, nextId, events>>
    BY <1>3 DEF Begins, LocksRow
  <2> DEFINE t0 == [op |-> o, new |-> new, began |-> now, id |-> 0]
  <2>2. t0 \in Tx /\ t0.op = o /\ t0.began = now /\ t0.id = 0 /\ t0.new = new
    BY DEF Tx
  <2>3. txs' = txs \union {t0}
    BY <2>1
  <2> HIDE DEF t0
  <2> QED BY <2>1, <2>2, <2>3
<1>4. ASSUME NEW t \in txs, InsertsEvent(t) PROVE Tables'
  <2> DEFINE t0 == [t EXCEPT !.id = nextId]
  <2>1. t0 \in Tx /\ t0.op = t.op /\ t0.began = t.began /\ t0.id = nextId /\ t0.new = t.new
    BY DEF Tx
  <2>2. txs' = (txs \ {t}) \union {t0}
    BY <1>4 DEF InsertsEvent
  <2>3. nextId' = nextId + 1 /\ UNCHANGED <<now, created, fits, events>>
    BY <1>4 DEF InsertsEvent
  <2> HIDE DEF t0
  <2>4. \A u, v \in txs' : u.op = v.op => u = v
    BY <2>1, <2>2
  <2>5. \A u \in txs' : u \in Tx /\ u.began # 0 /\ (u.new <=> created[u.op] = 0)
    BY <2>1, <2>2
  <2>6. t.op \in Op
    BY DEF Tx
  <2>7. \A u \in txs' : u.id # 0 => u.id < nextId' /\ \A e \in events[u.op] : e < u.id
    <3>1. \A u \in txs : u.id \in Nat
        BY DEF Tx
    <3> QED BY <2>1, <2>2, <2>3, <2>6, <3>1
  <2>8. \A p \in Op : \A e \in events[p] : e < nextId'
    BY <2>3
  <2> QED BY <2>3, <2>4, <2>5, <2>7, <2>8
<1>5. ASSUME NEW t \in txs, Commits(t) PROVE Tables'
  <2>1. /\ t.op \in Op /\ t.id \in Nat \ {0} /\ t.began \in Nat \ {0}
        /\ t.id < nextId
    BY <1>5 DEF Commits, Tx
  <2>2. /\ txs' = txs \ {t}
        /\ UNCHANGED <<now, nextId>>
        /\ created' = [created EXCEPT ![t.op] = IF t.new THEN t.began ELSE @]
        /\ events' = [events EXCEPT ![t.op] = @ \union {t.id}]
        /\ fits' \subseteq fits \union {t.op}
    BY <1>5 DEF Commits
  <2>3. \A u \in txs' : u.op # t.op /\ u.op \in Op
    BY <2>2 DEF Tx
  <2>4. created' \in [Op -> Nat] /\ created'[t.op] # 0
    BY <2>1, <2>2
  <2>5. \A p \in Op : p # t.op => created'[p] = created[p] /\ events'[p] = events[p]
    BY <2>2
  <2>6. events' \in [Op -> SUBSET (Nat \ {0})] /\ events'[t.op] = events[t.op] \union {t.id}
    BY <2>1, <2>2
  <2>7. fits' \subseteq {o \in Op : created'[o] # 0}
    BY <2>1, <2>2, <2>4, <2>5
  <2>8. \A p \in Op : \A e \in events'[p] : e < nextId'
    BY <2>1, <2>2, <2>5, <2>6
  <2>9. \A u \in txs' : u.id # 0 => u.id < nextId' /\ \A e \in events'[u.op] : e < u.id
    BY <2>2, <2>3, <2>5
  <2> QED BY <2>2, <2>3, <2>4, <2>5, <2>6, <2>7, <2>8, <2>9
<1>6. ASSUME NEW t \in txs, RollsBack(t) PROVE Tables'
    BY <1>6 DEF RollsBack
<1>7. CASE ListsPage \/ SweepsAgain \/ ReadsEvents \/ ReadsAgain
    BY <1>1, <1>7 DEF ListsPage, SweepsAgain, ReadsEvents, ReadsAgain
<1>8. CASE UNCHANGED listingVars
    BY <1>1, <1>8 DEF listingVars
<1> QED BY <1>2, <1>3, <1>4, <1>5, <1>6, <1>7, <1>8 DEF ListingNext

-----------------------------------------------------------------------------
(* Pages of events                                                          *)

\* A page is a beginning of what is unread, and where something is left it has a
\* last event.
LEMMA EventPages ==
    ASSUME Tables, trail \in Op, past \in Nat
    PROVE  /\ EventPage \subseteq Unread
           /\ \A e \in Unread, f \in EventPage : e < f => e \in EventPage
           /\ Unread # EventPage => NextEventCursor(EventPage) \in EventPage
<1> DEFINE Earlier(e) == {f \in Unread : f < e}
<1>1. Unread \subseteq Nat /\ IsFiniteSet(Unread)
  <2>1. Unread \in SUBSET Nat /\ \A e \in Unread : e <= nextId
    BY DEF Unread, Tables
  <2>2. nextId \in Nat
    BY DEF Tables
  <2> QED BY <2>1, <2>2, FS_BoundedSetOfNaturals
<1>2. EventPage \subseteq Unread
    BY DEF EventPage
<1>3. \A e \in Unread : Earlier(e) \in SUBSET Unread /\ IsFiniteSet(Earlier(e))
    BY <1>1, FS_Subset
<1>4. \A e \in Unread : Cardinality(Earlier(e)) \in Nat
    BY <1>3, FS_CardinalityType
<1>5. EventPage = {e \in Unread : Cardinality(Earlier(e)) < Limit}
    BY DEF EventPage
<1>6. \A e \in Unread, f \in EventPage : e < f => e \in EventPage
  <2> SUFFICES ASSUME NEW e \in Unread, NEW f \in EventPage, e < f PROVE e \in EventPage
    OBVIOUS
  <2>1. Earlier(e) \in SUBSET Earlier(f)
    <3>1. e \in Nat /\ f \in Nat /\ \A g \in Unread : g \in Nat
        BY <1>1, <1>2
    <3>2. \A g \in Unread : g < e => g < f
        BY <3>1
    <3> QED BY <3>2
  <2> HIDE DEF Earlier
  <2>2. Cardinality(Earlier(e)) <= Cardinality(Earlier(f))
    BY <1>2, <1>3, <2>1, FS_Subset
  <2> QED BY <1>2, <1>4, <1>5, <2>2, ListingAssumption
<1>7. ASSUME Unread # EventPage PROVE NextEventCursor(EventPage) \in EventPage
  <2>1. EventPage # {}
    <3> DEFINE R == {q \in Nat \X Nat : q[1] < q[2]}
    <3>1. \A e, f \in Nat : <<f, e>> \in R <=> f < e
        OBVIOUS
    <3> HIDE DEF R
    <3>2. /\ \A e \in Unread : <<e, e>> \notin R
          /\ \A e, f, g \in Unread : <<e, f>> \in R /\ <<f, g>> \in R => <<e, g>> \in R
        BY <1>1, <3>1
    <3>3. \E e \in Unread : \A f \in Unread : <<f, e>> \notin R
        BY <1>1, <1>2, <1>7, <3>2, FirstExists
    <3>4. PICK e \in Unread : Earlier(e) = {}
        BY <1>1, <3>1, <3>3
    <3> QED BY <1>5, <3>4, FS_EmptySet, ListingAssumption
  <2>2. \E e \in EventPage : \A f \in EventPage : f <= e
    <3> DEFINE R == {q \in Nat \X Nat : q[2] < q[1]}
    <3>1. \A e, f \in Nat : <<f, e>> \in R <=> e < f
        OBVIOUS
    <3> HIDE DEF R
    <3>2. IsFiniteSet(EventPage) /\ EventPage \subseteq Nat
        BY <1>1, <1>2, FS_Subset
    <3>3. /\ \A e \in EventPage : <<e, e>> \notin R
          /\ \A e, f, g \in EventPage : <<e, f>> \in R /\ <<f, g>> \in R => <<e, g>> \in R
        BY <3>1, <3>2
    <3>4. PICK e \in EventPage : \A f \in EventPage : <<f, e>> \notin R
        BY <2>1, <3>2, <3>3, FirstExists
    <3>5. \A f \in EventPage : ~(e < f) /\ e \in Nat /\ f \in Nat
        BY <3>1, <3>2, <3>4
    <3>6. \A f \in EventPage : f <= e
        BY <3>5
    <3> QED BY <3>6
  <2> QED BY <2>2 DEF NextEventCursor
<1> QED BY <1>2, <1>6, <1>7

\* What a reader has seen is a beginning of the history, up to the cursor or
\* beyond.
Read ==
    /\ trail \in Op
    /\ shown \subseteq events[trail]
    /\ past \in {0} \union shown
    /\ HistoryIsPrefix

LEMMA ReadStep == Tables /\ Read /\ [ListingNext]_listingVars => Read'
<1> SUFFICES ASSUME Tables, Read, [ListingNext]_listingVars PROVE Read'
    OBVIOUS
<1> USE DEF Read, HistoryIsPrefix
<1>0. /\ past \in Nat
      /\ events[trail] \subseteq Nat \ {0}
    BY DEF Tables
<1>1. CASE UNCHANGED <<events, reading>>
    BY <1>1 DEF reading
<1>2. ASSUME NEW t \in txs, Commits(t) PROVE Read'
  <2>1. /\ t.op \in Op /\ t.id \in Nat
        /\ \A e \in events[t.op] : e < t.id
    BY <1>2 DEF Commits, Tables, Tx
  <2>2. /\ events' = [events EXCEPT ![t.op] = @ \union {t.id}]
        /\ trail' = trail /\ past' = past /\ shown' = shown
    BY <1>2 DEF Commits, reading
  <2>3. CASE t.op # trail
    BY <2>2, <2>3 DEF Tables
  <2>4. CASE t.op = trail
    <3>1. events'[trail] = events[trail] \union {t.id}
        BY <2>2, <2>4 DEF Tables
    <3>2. \A f \in shown : ~(t.id < f)
        BY <1>0, <2>1, <2>4
    <3> QED BY <2>2, <3>1, <3>2
  <2> QED BY <2>3, <2>4
<1>3. CASE ReadsEvents
  <2>1. /\ shown' = shown \union EventPage
        /\ past' = past \/ (Unread # EventPage /\ past' = NextEventCursor(EventPage))
        /\ trail' = trail /\ events' = events
    BY <1>3 DEF ReadsEvents, tables
  <2>2. /\ EventPage \subseteq Unread
        /\ \A e \in Unread, f \in EventPage : e < f => e \in EventPage
        /\ Unread # EventPage => NextEventCursor(EventPage) \in EventPage
    BY <1>0, EventPages
  <2>3. Unread \subseteq events[trail]
    BY DEF Unread
  <2>4. \A e \in events[trail] : e \in Unread \/ e \in shown
    BY <1>0 DEF Unread
  <2>5. \A e \in events'[trail'], f \in shown' : e < f => e \in shown'
    BY <2>1, <2>2, <2>3, <2>4
  <2> QED BY <2>1, <2>2, <2>3, <2>5
<1>4. CASE ReadsAgain
    BY <1>4 DEF ReadsAgain, tables
<1> QED BY <1>1, <1>2, <1>3, <1>4
        DEF ListingNext, listingVars, tables, Ticks, Begins, LocksRow, InsertsEvent, RollsBack,
            ListsPage, SweepsAgain

LEMMA TablesInvariant == ListingSpec => []Tables
<1>1. ListingInit => Tables
    BY DEF ListingInit, Tables
<1> QED BY <1>1, TablesStep, PTL DEF ListingSpec

LEMMA ReadInvariant == ListingSpec => []Read
<1>1. ListingInit => Read
    BY DEF ListingInit, Read, HistoryIsPrefix
<1> QED BY <1>1, TablesInvariant, ReadStep, PTL DEF ListingSpec

\* The reader of a history misses nothing before what it has read, for any page
\* size: the numbers of events follow the order of commits, because a row's lock
\* is held from before the number is drawn.
THEOREM HistoriesArePrefixes == ListingSpec => []HistoryIsPrefix
<1>1. Read => HistoryIsPrefix
    BY DEF Read
<1> QED BY <1>1, ReadInvariant, PTL

-----------------------------------------------------------------------------
(* Pages of operations                                                      *)

\* A page is a beginning of the rows that follow the cursor, and where something
\* is left it has a last row.
LEMMA Pages ==
    ASSUME Tables
    PROVE  /\ Page \subseteq Rows
           /\ Rows \subseteq Op
           /\ \A o \in Rows, p \in Page : Precedes(Key(o), Key(p)) => o \in Page
           /\ Rows # Page => /\ LastOf(Page) \in Page
                             /\ \A p \in Page : p = LastOf(Page)
                                                \/ Precedes(Key(p), Key(LastOf(Page)))
<1> DEFINE Earlier(o) == {p \in Rows : Precedes(Key(p), Key(o))}
           R == {q \in Op \X Op : Precedes(Key(q[1]), Key(q[2]))}
           Q == {q \in Op \X Op : Precedes(Key(q[2]), Key(q[1]))}
<1>1. Rows \subseteq Op /\ IsFiniteSet(Rows)
  <2>1. Rows \in SUBSET Op
    BY DEF Rows, Tables
  <2> QED BY <2>1, ListingAssumption, FS_Subset
<1>2. \A o \in Op : created[o] \in Nat /\ o \in Nat
    BY ListingAssumption DEF Tables
<1>3. Page \subseteq Rows /\ IsFiniteSet(Page)
  <2>1. Page \in SUBSET Rows
    BY DEF Page
  <2> QED BY <1>1, <2>1, FS_Subset
<1>4. \A o \in Rows : Earlier(o) \in SUBSET Rows /\ IsFiniteSet(Earlier(o))
    BY <1>1, FS_Subset
<1>5. \A o \in Rows : Cardinality(Earlier(o)) \in Nat
    BY <1>4, FS_CardinalityType
<1>6. Page = {o \in Rows : Cardinality(Earlier(o)) < Limit}
    BY DEF Page
<1>7. \A o, p, q \in Op : /\ ~Precedes(Key(o), Key(o))
                          /\ Precedes(Key(o), Key(p)) /\ Precedes(Key(p), Key(q))
                                => Precedes(Key(o), Key(q))
                          /\ Precedes(Key(o), Key(p)) \/ Precedes(Key(p), Key(o)) \/ o = p
    BY <1>2 DEF Precedes, Key
<1>8. \A o, p \in Op : /\ <<o, p>> \in R <=> Precedes(Key(o), Key(p))
                       /\ <<o, p>> \in Q <=> Precedes(Key(p), Key(o))
    OBVIOUS
<1> HIDE DEF R, Q
<1>9. \A o \in Rows, p \in Page : Precedes(Key(o), Key(p)) => o \in Page
  <2> SUFFICES ASSUME NEW o \in Rows, NEW p \in Page, Precedes(Key(o), Key(p)) PROVE o \in Page
    OBVIOUS
  <2>1. Earlier(o) \in SUBSET Earlier(p)
    <3>1. \A q \in Rows : Precedes(Key(q), Key(o)) => Precedes(Key(q), Key(p))
        BY <1>1, <1>3, <1>7
    <3> QED BY <3>1
  <2> HIDE DEF Earlier
  <2>2. Cardinality(Earlier(o)) <= Cardinality(Earlier(p))
    BY <1>3, <1>4, <2>1, FS_Subset
  <2> QED BY <1>3, <1>5, <1>6, <2>2, ListingAssumption
<1>10. ASSUME Rows # Page
       PROVE  /\ LastOf(Page) \in Page
              /\ \A p \in Page : p = LastOf(Page) \/ Precedes(Key(p), Key(LastOf(Page)))
  <2>1. Page # {}
    <3>1. \E o \in Rows : \A p \in Rows : <<p, o>> \notin R
      <4>1. /\ \A o \in Rows : <<o, o>> \notin R
            /\ \A o, p, q \in Rows : <<o, p>> \in R /\ <<p, q>> \in R => <<o, q>> \in R
        BY <1>1, <1>7, <1>8
      <4> QED BY <1>1, <1>3, <1>10, <4>1, FirstExists
    <3>2. PICK o \in Rows : Earlier(o) = {}
        BY <1>1, <1>8, <3>1
    <3> QED BY <1>6, <3>2, FS_EmptySet, ListingAssumption
  <2>2. PICK o \in Page : \A p \in Page : <<p, o>> \notin Q
    <3>1. /\ \A p \in Page : <<p, p>> \notin Q
          /\ \A p, q, r \in Page : <<p, q>> \in Q /\ <<q, r>> \in Q => <<p, r>> \in Q
        BY <1>1, <1>3, <1>7, <1>8
    <3> QED BY <1>3, <2>1, <3>1, FirstExists
  <2>3. \A p \in Page : p = o \/ Precedes(Key(p), Key(o))
    BY <1>1, <1>3, <1>7, <1>8, <2>2
  <2> QED BY <2>3 DEF LastOf
<1> QED BY <1>1, <1>3, <1>9, <1>10

\* What was listed is not behind the cursor; what is owed was listed or is.
Swept ==
    /\ after \in Nat \X Nat
    /\ over \in BOOLEAN
    /\ listed \in [Op -> {0, 1}]
    /\ owed \subseteq fits
    /\ \A o \in Op : ~over /\ listed[o] = 1 => created[o] # 0 /\ ~Precedes(after, Key(o))
    /\ \A o \in owed : listed[o] = 1 \/ (~over /\ Precedes(after, Key(o)))

LEMMA SweptStep == Tables /\ Swept /\ [ListingNext]_listingVars => Swept'
<1> SUFFICES ASSUME Tables, Swept, [ListingNext]_listingVars PROVE Swept'
    OBVIOUS
<1>0. /\ created \in [Op -> Nat]
      /\ fits \subseteq {o \in Op : created[o] # 0}
      /\ \A o \in Op : created[o] \in Nat /\ o \in Nat
    BY ListingAssumption DEF Tables
<1>1. CASE UNCHANGED <<created, fits, sweep>>
    BY <1>1 DEF sweep, Swept, Key
<1>2. ASSUME NEW t \in txs, Commits(t) PROVE Swept'
  <2>1. /\ created' = [created EXCEPT ![t.op] = IF t.new THEN t.began ELSE @]
        /\ UNCHANGED <<after, over, listed>>
        /\ t.op \in Op
        /\ t.new <=> created[t.op] = 0
    BY <1>2 DEF Commits, Tables, Tx
  <2>2. /\ owed' \subseteq owed
        /\ owed' \subseteq fits'
    BY <1>2 DEF Commits, Swept
  <2>3. \A o \in Op : created[o] # 0 => Key(o)' = Key(o) /\ created'[o] # 0
    BY <1>0, <2>1 DEF Key
  <2>4. \A o \in owed : o \in Op /\ created[o] # 0
    BY <1>0 DEF Swept
  <2>5. \A o \in Op : ~over' /\ listed'[o] = 1 => created'[o] # 0 /\ ~Precedes(after', Key(o)')
    BY <2>1, <2>3 DEF Swept
  <2>6. \A o \in owed' : listed'[o] = 1 \/ (~over' /\ Precedes(after', Key(o)'))
    BY <2>1, <2>2, <2>3, <2>4 DEF Swept
  <2>7. /\ after' \in Nat \X Nat /\ over' \in BOOLEAN
        /\ listed' \in [Op -> {0, 1}] /\ owed' \subseteq fits'
    BY <2>1, <2>2 DEF Swept
  <2> QED BY <2>5, <2>6, <2>7 DEF Swept, Precedes
<1>3. CASE ListsPage
  <2> DEFINE l == LastOf(Page)
  <2>1. /\ Page \subseteq Rows
        /\ Rows \subseteq Op
        /\ \A o \in Rows, p \in Page : Precedes(Key(o), Key(p)) => o \in Page
        /\ Rows # Page => l \in Page /\ \A p \in Page : p = l \/ Precedes(Key(p), Key(l))
    BY Pages
  <2> HIDE DEF l
  <2>2. /\ listed' = [o \in Op |-> IF o \in Page THEN listed[o] + 1 ELSE listed[o]]
        /\ UNCHANGED <<created, fits, owed>>
        /\ ~over
        /\ \/ Rows # Page /\ after' = Key(l) /\ over' = over
           \/ Rows = Page /\ over' = TRUE /\ after' = after
    BY <1>3 DEF ListsPage, NextCursor, tables, l
  <2>3. \A o \in Rows : created[o] # 0 /\ Precedes(after, Key(o)) /\ listed[o] = 0
    BY <2>1, <2>2 DEF Rows, Swept
  <2>4. listed' \in [Op -> {0, 1}] /\ \A o \in Op : listed'[o] = 1 <=> o \in Page \/ listed[o] = 1
    BY <2>1, <2>2, <2>3 DEF Swept
  <2>5. \A o \in owed : o \in Rows \/ listed[o] = 1
    BY <1>0, <2>2 DEF Swept, Rows
  <2>6. \A o \in Op : Key(o)' = Key(o) /\ Key(o) \in Nat \X Nat
    BY <1>0, <2>2 DEF Key
  <2>7. CASE Rows = Page
    <3>1. \A o \in owed' : listed'[o] = 1
      <4>1. owed \subseteq Op
        BY <1>0 DEF Swept
      <4> QED BY <2>2, <2>4, <2>5, <2>7, <4>1
    <3>2. over' = TRUE /\ after' \in Nat \X Nat /\ owed' \subseteq fits'
        BY <2>2, <2>7 DEF Swept
    <3> QED BY <2>4, <3>1, <3>2 DEF Swept
  <2>8. CASE Rows # Page
    <3>1. l \in Page /\ l \in Op /\ after' = Key(l) /\ over' = over /\ Precedes(after, Key(l))
        BY <2>1, <2>2, <2>3, <2>8
    <3>2. ASSUME NEW o \in Op, listed'[o] = 1 PROVE created[o] # 0 /\ ~Precedes(Key(l), Key(o))
      <4>1. CASE o \in Page
        <5>1. o = l \/ Precedes(Key(o), Key(l))
            BY <2>1, <2>8, <4>1
        <5> QED BY <1>0, <2>1, <2>3, <3>1, <4>1, <5>1 DEF Precedes, Key
      <4>2. CASE listed[o] = 1
        <5>1. created[o] # 0 /\ ~Precedes(after, Key(o))
            BY <2>2, <4>2 DEF Swept
        <5>2. after[1] \in Nat /\ after[2] \in Nat
            BY DEF Swept
        <5> QED BY <1>0, <3>1, <5>1, <5>2 DEF Precedes, Key
      <4> QED BY <2>4, <3>2, <4>1, <4>2
    <3>3. ASSUME NEW o \in owed PROVE listed'[o] = 1 \/ Precedes(Key(l), Key(o))
      <4>1. CASE o \in Rows \ Page
        <5>1. o # l /\ o \in Op /\ ~Precedes(Key(o), Key(l))
            BY <2>1, <3>1, <4>1
        <5> QED BY <1>0, <3>1, <5>1 DEF Precedes, Key
      <4>2. CASE o \notin Rows \ Page
        BY <1>0, <2>4, <2>5, <4>2 DEF Swept
      <4> QED BY <4>1, <4>2
    <3>4. \A o \in Op : ~over' /\ listed'[o] = 1 => created'[o] # 0 /\ ~Precedes(after', Key(o)')
        BY <2>2, <2>6, <3>1, <3>2
    <3>5. \A o \in owed' : listed'[o] = 1 \/ (~over' /\ Precedes(after', Key(o)'))
      <4>1. owed \subseteq Op
        BY <1>0 DEF Swept
      <4> QED BY <2>2, <2>6, <3>1, <3>3, <4>1
    <3>6. /\ after' \in Nat \X Nat /\ over' \in BOOLEAN
          /\ listed' \in [Op -> {0, 1}] /\ owed' \subseteq fits'
        BY <2>2, <2>4, <2>6, <3>1 DEF Swept
    <3> QED BY <3>4, <3>5, <3>6 DEF Swept, Precedes
  <2> QED BY <2>7, <2>8
<1>4. CASE SweepsAgain
  <2>1. /\ after' = Start /\ over' = FALSE /\ owed' = fits /\ fits' = fits /\ created' = created
        /\ listed' = [o \in Op |-> 0]
    BY <1>4 DEF SweepsAgain, tables
  <2>2. \A o \in Op : created[o] # 0 => Precedes(Start, Key(o))
    BY <1>0 DEF Precedes, Start, Key
  <2>3. \A o \in owed' : ~over' /\ Precedes(after', Key(o)')
    BY <1>0, <2>1, <2>2 DEF Key
  <2>4. listed' \in [Op -> {0, 1}] /\ \A o \in Op : listed'[o] # 1
    BY <2>1
  <2>5. after' \in Nat \X Nat /\ over' \in BOOLEAN /\ owed' \subseteq fits'
    BY <2>1 DEF Start
  <2> QED BY <2>3, <2>4, <2>5 DEF Swept, Precedes
<1> QED BY <1>1, <1>2, <1>3, <1>4
        DEF ListingNext, listingVars, tables, Ticks, Begins, LocksRow, InsertsEvent, RollsBack,
            ReadsEvents, ReadsAgain

LEMMA SweptInvariant == ListingSpec => []Swept
<1>1. ListingInit => Swept
  <2> SUFFICES ASSUME ListingInit PROVE Swept
    OBVIOUS
  <2>1. after \in Nat \X Nat /\ over \in BOOLEAN /\ owed = {}
    BY DEF ListingInit, Start
  <2>2. listed \in [Op -> {0, 1}] /\ \A o \in Op : listed[o] # 1
    BY DEF ListingInit
  <2> QED BY <2>1, <2>2 DEF Swept
<1> QED BY <1>1, TablesInvariant, SweptStep, PTL DEF ListingSpec

\* No sweep lists an operation twice, for any page size and whatever is committed
\* between its pages.
THEOREM NothingIsListedTwice == ListingSpec => []ListedOnce
<1>1. Swept => ListedOnce
    BY DEF Swept, ListedOnce
<1> QED BY <1>1, SweptInvariant, PTL

\* And none leaves out what was there to be listed all the while.
THEOREM SweepsAreComplete == ListingSpec => []SweepIsComplete
<1>1. Swept => SweepIsComplete
    BY DEF Swept, SweepIsComplete
<1> QED BY <1>1, SweptInvariant, PTL

-----------------------------------------------------------------------------
(* Types and bounds                                                         *)

\* A cursor is of a row that was served: rows keep their keys, so it stays one
\* while the rows it came from change.
Bounded ==
    /\ now \in 1..MaxNow
    /\ created \in [Op -> 0..MaxNow]
    /\ \A t \in txs : t.began <= MaxNow
    /\ nextId <= MaxId + 1
    /\ after = Start \/ \E o \in Op : created[o] # 0 /\ after = Key(o)
    /\ ended \in BOOLEAN

LEMMA BoundedStep == Tables /\ Bounded /\ [ListingNext]_listingVars => Bounded'
<1> SUFFICES ASSUME Tables, Bounded, [ListingNext]_listingVars PROVE Bounded'
    OBVIOUS
<1>0. /\ MaxNow \in Nat /\ MaxId \in Nat /\ nextId \in Nat
      /\ now \in Nat /\ created \in [Op -> Nat] /\ txs \subseteq Tx
    BY ListingAssumption DEF Tables
<1>1. CASE UNCHANGED <<tables, after, ended>>
    BY <1>1 DEF tables, Bounded, Key
<1>2. CASE Ticks
    BY <1>0, <1>2 DEF Ticks, Bounded, sweep, reading, Key
<1>3. ASSUME NEW o \in Op, Begins(o) \/ LocksRow(o) PROVE Bounded'
  <2>1. PICK new :
            /\ txs' = txs \union {[op |-> o, new |-> new, began |-> now, id |-> 0]}
            /\ UNCHANGED <<now, created, nextId, after, ended>>
    BY <1>3 DEF Begins, LocksRow, sweep, reading
  <2>2. \A t \in txs' : t.began <= MaxNow
    BY <1>0, <2>1 DEF Bounded
  <2> QED BY <2>1, <2>2 DEF Bounded, Key
<1>4. ASSUME NEW t \in txs, InsertsEvent(t) PROVE Bounded'
  <2>1. /\ nextId <= MaxId /\ nextId' = nextId + 1
        /\ txs' = (txs \ {t}) \union {[t EXCEPT !.id = nextId]}
        /\ UNCHANGED <<now, created, after, ended>>
    BY <1>4 DEF InsertsEvent, sweep, reading
  <2>2. [t EXCEPT !.id = nextId].began = t.began
    BY <1>0 DEF Tx
  <2>3. \A u \in txs' : u.began <= MaxNow
    BY <2>1, <2>2 DEF Bounded
  <2> QED BY <1>0, <2>1, <2>3 DEF Bounded, Key
<1>5. ASSUME NEW t \in txs, Commits(t) PROVE Bounded'
  <2>1. /\ txs' \subseteq txs
        /\ UNCHANGED <<now, nextId, after, ended>>
        /\ created' = [created EXCEPT ![t.op] = IF t.new THEN t.began ELSE @]
        /\ t.op \in Op /\ t.began \in 0..MaxNow
        /\ t.new => created[t.op] = 0
    BY <1>0, <1>5 DEF Commits, Tables, Tx, Bounded, reading
  <2>2. created' \in [Op -> 0..MaxNow]
    BY <2>1 DEF Bounded
  <2>3. \A o \in Op : created[o] # 0 => created'[o] = created[o]
    BY <1>0, <2>1
  <2>4. after' = Start \/ \E o \in Op : created'[o] # 0 /\ after' = Key(o)'
    BY <2>1, <2>3 DEF Bounded, Key
  <2> QED BY <2>1, <2>2, <2>4 DEF Bounded
<1>6. ASSUME NEW t \in txs, RollsBack(t) PROVE Bounded'
    BY <1>6 DEF RollsBack, Bounded, sweep, reading, Key
<1>7. CASE ListsPage
  <2>1. UNCHANGED <<tables, ended>> /\ (after' = after \/ (Rows # Page /\ after' = Key(LastOf(Page))))
    BY <1>7 DEF ListsPage, NextCursor, reading
  <2>2. CASE after' = after
    BY <1>1, <2>1, <2>2
  <2>3. CASE Rows # Page /\ after' = Key(LastOf(Page))
    <3>1. LastOf(Page) \in Op /\ LastOf(Page) \in Rows
        BY <2>3, Pages
    <3>2. created[LastOf(Page)] # 0
        BY <3>1 DEF Rows
    <3>3. \E o \in Op : created'[o] # 0 /\ after' = Key(o)'
        BY <2>1, <2>3, <3>1, <3>2 DEF tables, Key
    <3> QED BY <2>1, <3>3 DEF Bounded, tables
  <2> QED BY <2>1, <2>2, <2>3
<1>8. CASE SweepsAgain
    BY <1>8 DEF SweepsAgain, Bounded, tables, reading, Start
<1>9. CASE ReadsEvents \/ ReadsAgain
    BY <1>9 DEF ReadsEvents, ReadsAgain, Bounded, tables, sweep, Key
<1> QED BY <1>1, <1>2, <1>3, <1>4, <1>5, <1>6, <1>7, <1>8, <1>9
        DEF ListingNext, listingVars, sweep, reading

\* Everything keeps its type, and a cursor that a caller was given never stops
\* being the key of a row, or an event that was read.
THEOREM ListingTypesHold == ListingSpec => []ListingTypeOK
<1>1. ListingInit => Bounded
  <2> SUFFICES ASSUME ListingInit PROVE Bounded
    OBVIOUS
  <2>1. now \in 1..MaxNow /\ nextId <= MaxId + 1
    BY ListingAssumption DEF ListingInit
  <2>2. created \in [Op -> 0..MaxNow]
    BY ListingAssumption DEF ListingInit
  <2>3. txs = {} /\ after = Start /\ ended \in BOOLEAN
    BY DEF ListingInit
  <2> QED BY <2>1, <2>2, <2>3 DEF Bounded
<1>2. Tables /\ Bounded /\ Swept /\ Read => ListingTypeOK
  <2> SUFFICES ASSUME Tables, Bounded, Swept, Read PROVE ListingTypeOK
    OBVIOUS
  <2>1. MaxId \in Nat /\ nextId \in 1..(MaxId + 1)
    BY ListingAssumption DEF Tables, Bounded
  <2>2. events \in [Op -> SUBSET (1..MaxId)]
    BY <2>1 DEF Tables
  <2>3. fits \subseteq Op /\ owed \subseteq Op /\ txs \subseteq Tx
    BY DEF Tables, Swept
  <2>4. listed \in [Op -> Nat]
    BY DEF Swept
  <2> QED BY <2>1, <2>2, <2>3, <2>4 DEF ListingTypeOK, Bounded, Swept, Read
<1> QED BY <1>1, <1>2, TablesInvariant, SweptInvariant, ReadInvariant, BoundedStep, PTL
        DEF ListingSpec

=============================================================================
