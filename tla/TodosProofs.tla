---------------------------- MODULE TodosProofs ----------------------------
(***************************************************************************)
(* The shared todos keep their promises for every number of agents, todos, *)
(* and positions, every lease and every size of a page: a lease holds as   *)
(* it was told, work never stalls, and a listing is complete.              *)
(*                                                                         *)
(* The inductive invariant has three parts.  TableOK says that ids are     *)
(* used once and depend on earlier ones only, ClaimsOK that leases are as  *)
(* they were told, and ListingOK that of the todos that stood all along a  *)
(* listing has shown exactly those up to its position.                     *)
(***************************************************************************)
EXTENDS Todos, FiniteSetTheorems, TLAPS

Table == [Id -> Row \cup {Absent}]

TableOK ==
    /\ todos \in Table
    /\ made \in 0..MaxTodos
    /\ deps \in [Id -> SUBSET Id]
    /\ \A i \in Id : /\ todos[i].position <= MaxPosition
                     /\ deps[i] \subseteq 1..(i - 1)
                     /\ i > made => todos[i] = Absent

ClaimsOK == told \in [Agent -> [Id -> Left]] /\ ClaimAsTold

Listings == [phase : {"none", "reading", "read"}, style : {"todos", "entries"}, after : Nat,
             seen : SUBSET Id, again : BOOLEAN, stood : SUBSET Id]

ListingOK ==
    /\ listing \in Listings
    /\ listing.stood \subseteq Stored(todos)
    /\ ~listing.again
    /\ listing.phase = "reading" =>
          \A i \in listing.stood : i \in listing.seen <=> todos[i].position <= listing.after
    /\ listing.phase = "read" => listing.stood \subseteq listing.seen

IInv == TableOK /\ ClaimsOK /\ ListingOK

-----------------------------------------------------------------------------
(* Least and greatest positions. *)

\* Naturals have a least one among them.
LEMMA LeastOf ==
    ASSUME NEW S \in SUBSET Nat, S # {}
    PROVE  \E x \in S : \A y \in S : x <= y
  <1>1. PICK x \in S : \A y \in S : ~ (<<y, x>> \in OpToRel(<, Nat))
    BY Zenon, NatLessThanWellFounded, WFMin
  <1>2. ASSUME NEW y \in S
        PROVE  x <= y
    <2>1. x \in Nat /\ y \in Nat
      OBVIOUS
    <2>2. ~(y < x)
      BY Zenon, <1>1, <2>1 DEF OpToRel
    <2>3. QED
      BY <2>1, <2>2
  <1>3. QED
    BY Zenon, <1>2

\* Max of bounded naturals is the greatest of them.
LEMMA MaxOf ==
    ASSUME NEW S \in SUBSET Nat, S # {}, NEW n \in Nat, \A x \in S : x <= n
    PROVE  Max(S) \in S /\ \A y \in S : y <= Max(S)
  <1> DEFINE T == {n - x : x \in S}
  <1>1. T \in SUBSET Nat /\ T # {}
    OBVIOUS
  <1> HIDE DEF T
  <1>2. PICK t \in T : \A u \in T : t <= u
    BY Zenon, <1>1, LeastOf
  <1>3. PICK x \in S : t = n - x
    BY Zenon, <1>2 DEF T
  <1>4. ASSUME NEW y \in S
        PROVE  x >= y
    <2>1. n - y \in T
      BY Zenon DEF T
    <2>2. t <= n - y
      BY Zenon, <1>2, <2>1
    <2>3. QED
      BY <2>2, <1>3
  <1>5. Max(S) \in S /\ \A y \in S : Max(S) >= y
    BY Zenon, <1>4 DEF Max
  <1>6. QED
    BY <1>5

-----------------------------------------------------------------------------
(* Rows. *)

\* An absent todo is no row.
LEMMA AbsentIsNoRow == Absent \notin Row
  BY DEF Absent, Row, Status

\* The todos stored are the ids that have a row.
LEMMA StoredIsRow ==
    ASSUME NEW table \in Table
    PROVE  /\ Stored(table) \subseteq Id
           /\ \A i \in Id : i \in Stored(table) <=> table[i] \in Row
  BY AbsentIsNoRow DEF Stored, Table

\* The positions in a table are naturals, those of its rows at least one.
LEMMA PositionsOf ==
    ASSUME TableOK, NEW i \in Id
    PROVE  /\ todos[i].position \in 0..MaxPosition
           /\ i \in Stored(todos) => todos[i] \in Row /\ todos[i].position \in 1..MaxPosition
  <1>1. todos[i] \in Row \/ todos[i] = Absent
    BY DEF TableOK, Table
  <1>2. todos[i].position \in Nat
    BY <1>1 DEF Row, Absent
  <1>3. todos[i].position <= MaxPosition /\ MaxPosition \in Nat
    BY TodosAssumption DEF TableOK
  <1>4. i \in Stored(todos) => todos[i] \in Row
    BY <1>1 DEF Stored
  <1>5. i \in Stored(todos) => todos[i].position \in Nat \ {0}
    BY <1>4 DEF Row
  <1>6. QED
    BY <1>2, <1>3, <1>4, <1>5

\* The position of a row written anew is free, if it is within the bound.
LEMMA NextPositionType ==
    ASSUME TableOK
    PROVE  NextPosition(todos) \in Nat \ {0}
  <1> DEFINE S == {0} \cup {todos[i].position : i \in Stored(todos)}
  <1>1. \A i \in Stored(todos) : todos[i].position \in 0..MaxPosition
    BY PositionsOf DEF Stored
  <1>2. S \in SUBSET Nat /\ S # {} /\ \A x \in S : x <= MaxPosition
    BY <1>1, TodosAssumption
  <1> HIDE DEF S
  <1>3. MaxPosition \in Nat
    BY TodosAssumption
  <1>4. Max(S) \in Nat
    BY Zenon, <1>2, <1>3, MaxOf
  <1>5. NextPosition(todos) = 1 + Max(S)
    BY Zenon DEF NextPosition, S
  <1>6. QED
    BY <1>4, <1>5

\* What Claimed, Unclaimed and Changed make of a row.
LEMMA ClaimedRow ==
    ASSUME NEW row \in Row, NEW me \in Agent, NEW lease \in Left
    PROVE  LET r == Claimed(row, me, lease) IN
           /\ r \in Row
           /\ r.status = "in-progress" /\ r.owner = me /\ r.left = lease
           /\ r.position = row.position
  BY Zenon DEF Claimed, Row, Status

\* A row let go of keeps its place and has no owner.
LEMMA UnclaimedRow ==
    ASSUME NEW row \in Row, NEW status \in Status
    PROVE  LET r == Unclaimed(row, status) IN
           /\ r \in Row
           /\ r.status = status /\ r.owner = Nobody /\ r.left = Gone
           /\ r.position = row.position
  <1>1. Gone \in Left
    BY TodosAssumption DEF Gone, Left
  <1>2. QED
    BY Zenon, <1>1 DEF Unclaimed, Row

\* A row that has no position yet, and one without a status.
Draft == [status : Status, owner : Agent \cup {Nobody}, left : Left, position : {0}]
Blank == [status : {"absent"}, owner : {Nobody}, left : Left, position : {0}]

Owned(row) == row.status = "in-progress" <=> row.owner # Nobody

\* A changed row keeps its place, and is owned when it is claimed.
LEMMA ChangedRow ==
    ASSUME NEW row \in Row, Owned(row), NEW me \in Agent, NEW status \in Status \cup {"keep"}
    PROVE  LET r == Changed(row, me, status) IN
           /\ r \in Row
           /\ Owned(r)
           /\ r.position = row.position
  <1> DEFINE to == IF status = "keep" THEN row.status ELSE status
             r == Changed(row, me, status)
  <1>1. to \in Status
    BY DEF Row, Status
  <1>2. LeaseDefault \in Left
    BY TodosAssumption DEF Left
  <1>3. me # Nobody
    BY TodosAssumption
  <1>4. \/ to # "in-progress" /\ r = Unclaimed(row, to)
        \/ r = Claimed(row, me, LeaseDefault)
        \/ r = row
    BY DEF Changed
  <1> HIDE DEF to, r
  <1>5. CASE to # "in-progress" /\ r = Unclaimed(row, to)
    <2>1. r \in Row /\ r.status = to /\ r.owner = Nobody /\ r.position = row.position
      BY <1>1, <1>5, UnclaimedRow
    <2>2. QED
      BY <1>5, <2>1 DEF Owned, r
  <1>6. CASE r = Claimed(row, me, LeaseDefault)
    <2>1. r \in Row /\ r.status = "in-progress" /\ r.owner = me /\ r.position = row.position
      BY <1>2, <1>6, ClaimedRow
    <2>2. QED
      BY <1>3, <2>1 DEF Owned, r
  <1>7. CASE r = row
    BY <1>7 DEF r
  <1>8. QED
    BY <1>4, <1>5, <1>6, <1>7

-----------------------------------------------------------------------------
(* Pages. *)

\* The sets of ids that are counted are finite.
LEMMA IdsAreFinite ==
    ASSUME NEW S \in SUBSET Id
    PROVE  /\ IsFiniteSet(S) /\ Cardinality(S) \in Nat
           /\ \A T \in SUBSET S : Cardinality(T) \in Nat /\ Cardinality(T) <= Cardinality(S)
  <1>1. 1 \in Int /\ MaxTodos \in Int
    BY TodosAssumption
  <1>2. IsFiniteSet(Id)
    BY Zenon, <1>1, FS_Interval DEF Id
  <1>3. IsFiniteSet(S)
    BY Zenon, <1>2, FS_Subset
  <1>4. ASSUME NEW T \in SUBSET S
        PROVE  Cardinality(T) \in Nat /\ Cardinality(T) <= Cardinality(S)
    BY Zenon, <1>3, FS_Subset, FS_CardinalityType
  <1>5. QED
    BY Zenon, <1>3, <1>4, FS_CardinalityType

Behind(S, i) == {j \in S : todos[j].position < todos[i].position}

\* The first n of a set have fewer than n before them.
LEMMA FirstOfBehind ==
    ASSUME NEW S, NEW n
    PROVE  FirstOf(S, n) = {i \in S : Cardinality(Behind(S, i)) < n}
  BY Zenon DEF FirstOf, Behind

\* The first n of a set hold whatever is at or before one of them.
LEMMA FirstOfDown ==
    ASSUME TableOK, NEW S \in SUBSET Id, NEW n \in Nat, NEW i \in S, NEW j \in FirstOf(S, n),
           todos[i].position <= todos[j].position
    PROVE  i \in FirstOf(S, n)
  <1>1. j \in S /\ Cardinality(Behind(S, j)) < n
    BY Zenon, FirstOfBehind
  <1>2. \A k \in Id : todos[k].position \in Int
    BY PositionsOf
  <1>3. Behind(S, i) \subseteq Behind(S, j)
    BY <1>1, <1>2 DEF Behind
  <1>4. Behind(S, j) \in SUBSET Id
    BY DEF Behind
  <1>5. /\ Cardinality(Behind(S, i)) \in Nat /\ Cardinality(Behind(S, j)) \in Nat
        /\ Cardinality(Behind(S, i)) <= Cardinality(Behind(S, j))
    BY Zenon, <1>3, <1>4, IdsAreFinite
  <1>6. Cardinality(Behind(S, i)) < n
    BY <1>1, <1>5
  <1>7. QED
    BY Zenon, <1>6, FirstOfBehind

\* A set that is not empty has a first element by position ...
LEMMA OneIsFirst ==
    ASSUME TableOK, NEW S \in SUBSET Id, S # {}
    PROVE  \E i \in S : \A j \in S : todos[i].position <= todos[j].position
  <1> DEFINE P == {todos[i].position : i \in S}
  <1>1. \A k \in Id : todos[k].position \in Nat
    BY PositionsOf
  <1>2. P \in SUBSET Nat /\ P # {}
    BY Zenon, <1>1
  <1>3. PICK p \in P : \A q \in P : p <= q
    <2> HIDE DEF P
    <2>1. QED
      BY Zenon, <1>2, LeastOf
  <1>4. QED
    BY Zenon, <1>3

\* ... which is among its first n.
LEMMA FirstOfSome ==
    ASSUME TableOK, NEW S \in SUBSET Id, S # {}, NEW n \in Nat \ {0}
    PROVE  FirstOf(S, n) # {}
  <1>1. PICK i \in S : \A j \in S : todos[i].position <= todos[j].position
    BY Zenon, OneIsFirst
  <1>2. \A k \in Id : todos[k].position \in Int
    BY PositionsOf
  <1>3. Behind(S, i) = {}
    BY <1>1, <1>2 DEF Behind
  <1>4. Cardinality(Behind(S, i)) = 0
    BY Zenon, <1>3, FS_EmptySet
  <1>5. Cardinality(Behind(S, i)) < n
    BY <1>4
  <1>6. QED
    BY Zenon, <1>5, FirstOfBehind

\* When one past the limit is read and there are no more than the limit, that
\* was all.
LEMMA WholeIfFew ==
    ASSUME TableOK, NEW S \in SUBSET Id, NEW n \in Nat, NEW R, R = FirstOf(S, n + 1),
           ~(Cardinality(R) > n)
    PROVE  R = S /\ FirstOf(R, n) = S
  <1>1. R \subseteq S /\ R \in SUBSET Id
    BY Zenon, FirstOfBehind
  <1>2. Cardinality(R) \in Nat
    BY Zenon, <1>1, IdsAreFinite
  <1>3. \A k \in Id : todos[k].position \in Int
    BY PositionsOf
  <1>4. S \ R = {}
    <2>1. SUFFICES ASSUME S \ R # {}
                   PROVE  FALSE
      OBVIOUS
    <2>2. S \ R \in SUBSET Id
      OBVIOUS
    <2>3. PICK i \in S \ R : \A j \in S \ R : todos[i].position <= todos[j].position
      BY Zenon, <2>1, <2>2, OneIsFirst
    <2>4. Behind(S, i) \subseteq R
      BY <1>3, <2>3 DEF Behind
    <2>5. Cardinality(Behind(S, i)) \in Nat /\ Cardinality(Behind(S, i)) <= Cardinality(R)
      BY Zenon, <1>1, <2>4, IdsAreFinite
    <2>6. Cardinality(Behind(S, i)) < n + 1
      BY <1>2, <2>5
    <2>7. i \in FirstOf(S, n + 1)
      BY Zenon, <2>6, FirstOfBehind
    <2>8. QED
      BY Zenon, <2>3, <2>7
  <1>5. R = S
    BY Zenon, <1>1, <1>4
  <1>6. ASSUME NEW i \in R
        PROVE  i \in FirstOf(R, n)
    <2>1. IsFiniteSet(R)
      BY Zenon, <1>1, IdsAreFinite
    <2>2. IsFiniteSet(R \ {i}) /\ Cardinality(R \ {i}) = Cardinality(R) - 1
      BY <2>1, FS_RemoveElement
    <2>3. Behind(R, i) \subseteq R \ {i}
      BY <1>1, <1>3 DEF Behind
    <2>4. R \ {i} \in SUBSET Id
      BY Zenon, <1>1
    <2>5. Cardinality(Behind(R, i)) \in Nat /\ Cardinality(Behind(R, i)) <= Cardinality(R \ {i})
      BY Zenon, <2>3, <2>4, IdsAreFinite
    <2>6. Cardinality(Behind(R, i)) < n
      BY <1>2, <2>2, <2>5
    <2>7. QED
      BY Zenon, <2>6, FirstOfBehind
  <1>7. FirstOf(R, n) \subseteq R
    BY Zenon, FirstOfBehind
  <1>8. QED
    BY Zenon, <1>5, <1>6, <1>7

\* Either way of paging gives the first of what follows the cursor, and all of
\* it when nothing more is announced.
LEMMA PageIsFirst ==
    ASSUME TableOK, NEW l \in Listings
    PROVE  LET rest == After(l.after)
               page == PageOf(l)
           IN /\ page.more \in BOOLEAN
              /\ page.entries \subseteq rest
              /\ ~page.more => page.entries = rest
              /\ page.more => page.entries # {}
              /\ \A i \in rest, j \in page.entries :
                    todos[i].position <= todos[j].position => i \in page.entries
  <1> DEFINE rest == After(l.after)
             page == PageOf(l)
             rows == FirstOf(rest, PageSize + 1)
  <1>1. rest \in SUBSET Id
    BY Zenon DEF After, Stored
  <1>2. PageSize \in Nat \ {0} /\ PageSize \in Nat /\ PageSize + 1 \in Nat
    BY TodosAssumption
  <1>3. CASE l.style = "todos"
    <2>1. page.entries = FirstOf(rest, PageSize) /\ page.more = (FirstOf(rest, PageSize) # rest)
      BY <1>3 DEF PageOf, TodoPage
    <2> HIDE DEF rest, page
    <2>2. page.entries \subseteq rest
      BY Zenon, <2>1, FirstOfBehind
    <2>3. page.more => page.entries # {}
      BY Zenon, <1>1, <1>2, <2>1, <2>2, FirstOfSome
    <2>4. ASSUME NEW i \in rest, NEW j \in page.entries, todos[i].position <= todos[j].position
          PROVE  i \in page.entries
      <3>1. j \in FirstOf(rest, PageSize)
        BY Zenon, <2>1
      <3>2. i \in FirstOf(rest, PageSize)
        BY <1>1, <1>2, <2>4, <3>1, FirstOfDown
      <3>3. QED
        BY Zenon, <2>1, <3>2
    <2>5. QED
      BY Zenon, <2>1, <2>2, <2>3, <2>4 DEF rest, page
  <1>4. CASE l.style # "todos"
    <2>1. page.entries = FirstOf(rows, PageSize) /\ page.more = (Cardinality(rows) > PageSize)
      BY <1>4 DEF PageOf, EntryPage
    <2> HIDE DEF rest, page
    <2>2. rows \subseteq rest /\ rows \in SUBSET Id
      BY Zenon, <1>1, FirstOfBehind
    <2>3. page.entries \subseteq rows
      BY Zenon, <2>1, FirstOfBehind
    <2>4. ~page.more => page.entries = rest
      BY Zenon, <1>1, <1>2, <2>1, WholeIfFew
    <2>5. page.more => page.entries # {}
      <3>1. rows = {} => ~(Cardinality(rows) > PageSize)
        BY <1>2, FS_EmptySet
      <3>2. QED
        BY Zenon, <1>2, <2>1, <2>2, <3>1, FirstOfSome
    <2>6. ASSUME NEW i \in rest, NEW j \in page.entries, todos[i].position <= todos[j].position
          PROVE  i \in page.entries
      <3>1. j \in rows /\ j \in FirstOf(rows, PageSize)
        BY Zenon, <2>1, <2>3
      <3>2. i \in rows
        BY <1>1, <1>2, <2>6, <3>1, FirstOfDown
      <3> HIDE DEF rows
      <3>3. i \in FirstOf(rows, PageSize)
        BY <1>2, <2>2, <2>6, <3>1, <3>2, FirstOfDown
      <3>4. QED
        BY Zenon, <2>1, <3>3
    <2>7. page.more \in BOOLEAN
      BY <2>1
    <2>8. QED
      BY Zenon, <2>2, <2>3, <2>4, <2>5, <2>6, <2>7 DEF rest, page
  <1>5. QED
    BY Zenon, <1>3, <1>4

-----------------------------------------------------------------------------
(* The steps. *)

\* The table starts empty.
LEMMA InitOK == Init => IInv
  <1> SUFFICES ASSUME Init
               PROVE  IInv
    OBVIOUS
  <1>1. TableOK
    <2>1. Absent.position = 0 /\ MaxPosition \in Nat /\ MaxTodos \in Nat
      BY TodosAssumption DEF Absent
    <2>2. QED
      BY <2>1 DEF Init, TableOK, Table
  <1>2. ClaimsOK
    <2>1. Gone \in Left /\ ~(Gone >= 0)
      BY TodosAssumption DEF Gone, Left
    <2>2. told \in [Agent -> [Id -> Left]]
      BY <2>1 DEF Init
    <2>3. \A a \in Agent, i \in Id : ~(told[a][i] >= 0)
      BY <2>1 DEF Init
    <2>4. \A i \in Id : todos[i].status = "in-progress" <=> todos[i].owner # Nobody
      BY DEF Init, Absent
    <2>5. QED
      BY <2>2, <2>3, <2>4 DEF ClaimsOK, ClaimAsTold
  <1>3. ListingOK
    BY DEF Init, ListingOK, NoListing, Listings
  <1>4. QED
    BY <1>1, <1>2, <1>3 DEF IInv

\* A step that leaves the listing alone, and the todos in it where they stand.
LEMMA ListingKept ==
    ASSUME ListingOK, listing' = listing,
           \A i \in listing.stood : i \in Stored(todos') /\ todos'[i].position = todos[i].position
    PROVE  ListingOK'
  <1>1. listing' \in Listings /\ ~listing'.again
    BY DEF ListingOK
  <1>2. listing'.stood \subseteq Stored(todos')
    BY Zenon
  <1>3. listing'.phase = "reading" =>
           \A i \in listing'.stood : i \in listing'.seen <=> todos'[i].position <= listing'.after
    BY Zenon DEF ListingOK
  <1>4. listing'.phase = "read" => listing'.stood \subseteq listing'.seen
    BY Zenon DEF ListingOK
  <1>5. QED
    BY Zenon, <1>1, <1>2, <1>3, <1>4 DEF ListingOK, Listings

\* One row written, of an id handed out: what the table and the listing ask of
\* it.
LEMMA RowWritten ==
    ASSUME TableOK, ListingOK, NEW i \in Id, NEW r \in Row, r.position <= MaxPosition,
           todos' = [todos EXCEPT ![i] = r],
           made' \in 0..MaxTodos, made' >= made, i <= made',
           deps' \in [Id -> SUBSET Id], \A j \in Id : deps'[j] \subseteq 1..(j - 1),
           listing' = listing,
           i \in Stored(todos) => r.position = todos[i].position
    PROVE  TableOK' /\ ListingOK'
  <1>1. todos' \in Table
    BY DEF TableOK, Table
  <1>2. todos'[i] = r /\ \A j \in Id : j # i => todos'[j] = todos[j]
    BY DEF TableOK, Table
  <1>3. ASSUME NEW j \in Id
        PROVE  todos'[j].position <= MaxPosition /\ (j > made' => todos'[j] = Absent)
    <2>1. j > made' => j # i /\ j > made
      BY DEF TableOK, Id
    <2>2. QED
      BY Zenon, <1>2, <2>1 DEF TableOK
  <1>4. TableOK'
    BY Zenon, <1>1, <1>3 DEF TableOK, Table
  <1>5. ASSUME NEW j \in listing.stood
        PROVE  j \in Stored(todos') /\ todos'[j].position = todos[j].position
    <2>1. j \in Stored(todos) /\ j \in Id
      BY Zenon DEF ListingOK, Stored
    <2>2. r # Absent
      BY AbsentIsNoRow
    <2>3. QED
      BY Zenon, <1>2, <2>1, <2>2 DEF Stored
  <1>6. ListingOK'
    BY Zenon, <1>1, <1>5, ListingKept
  <1>7. QED
    BY <1>4, <1>6

\* A new todo depends on earlier ones only.
LEMMA AddTodoOK == IInv /\ AddTodo => IInv'
  <1> SUFFICES ASSUME IInv, AddTodo
               PROVE  IInv'
    OBVIOUS
  <1> DEFINE i == made + 1
             r == [status |-> "pending", owner |-> Nobody, left |-> Gone, position |-> NextPosition(todos)]
  <1>1. PICK on \in SUBSET (1..made) : deps' = [deps EXCEPT ![i] = on]
    BY Zenon DEF AddTodo
  <1>2. /\ todos' = [todos EXCEPT ![i] = r] /\ made' = i /\ NextPosition(todos) <= MaxPosition
        /\ made < MaxTodos /\ told' = told /\ listing' = listing
    BY DEF AddTodo
  <1>3. made \in 0..MaxTodos /\ MaxTodos \in Nat
    BY TodosAssumption DEF IInv, TableOK
  <1>4. i \in Id /\ i > made /\ i \in 0..MaxTodos /\ i - 1 = made
    BY <1>2, <1>3 DEF Id
  <1>5. NextPosition(todos) \in Nat \ {0} /\ Gone \in Left
    BY NextPositionType, TodosAssumption DEF IInv, Gone, Left
  <1>6. r \in Row /\ r.position = NextPosition(todos) /\ r.status = "pending" /\ r.owner = Nobody
    BY <1>5 DEF Row, Status
  <1> HIDE DEF r
  <1>7. deps \in [Id -> SUBSET Id] /\ \A j \in Id : deps[j] \subseteq 1..(j - 1)
    BY Zenon DEF IInv, TableOK
  <1>8. on \subseteq 1..(i - 1) /\ on \subseteq Id
    BY <1>2, <1>3 DEF Id
  <1> HIDE DEF i
  <1>9. deps' \in [Id -> SUBSET Id] /\ \A j \in Id : deps'[j] \subseteq 1..(j - 1)
    BY Zenon, <1>1, <1>4, <1>7, <1>8
  <1>10. todos[i] = Absent
    BY <1>4 DEF IInv, TableOK
  <1>11. i >= made /\ i <= i
    BY <1>4
  <1>12. TableOK' /\ ListingOK'
    BY Zenon, <1>2, <1>4, <1>6, <1>9, <1>10, <1>11, RowWritten DEF IInv, Stored
  <1>13. ClaimsOK'
    <2>1. todos'[i] = r /\ \A j \in Id : j # i => todos'[j] = todos[j]
      BY <1>2, <1>4 DEF IInv, TableOK, Table
    <2>2. ASSUME NEW a \in Agent, NEW j \in Id, told'[a][j] >= 0
          PROVE  todos'[j].status = "in-progress" /\ todos'[j].owner = a /\ todos'[j].left = told'[a][j]
      <3>1. todos[j].status = "in-progress" /\ todos[j].owner = a /\ todos[j].left = told[a][j]
        BY <1>2, <2>2 DEF IInv, ClaimsOK, ClaimAsTold
      <3>2. j # i
        BY <3>1, <1>10 DEF Absent
      <3>3. QED
        BY <1>2, <2>1, <3>1, <3>2
    <2>3. ASSUME NEW j \in Id
          PROVE  todos'[j].status = "in-progress" <=> todos'[j].owner # Nobody
      BY <1>6, <2>1 DEF IInv, ClaimsOK, ClaimAsTold
    <2>4. told' \in [Agent -> [Id -> Left]]
      BY <1>2 DEF IInv, ClaimsOK
    <2>5. QED
      BY Zenon, <2>2, <2>3, <2>4 DEF ClaimsOK, ClaimAsTold
  <1>14. QED
    BY <1>12, <1>13 DEF IInv

\* One row changed: what is told of it has to agree with it.
LEMMA ClaimsKept ==
    ASSUME ClaimsOK, told' \in [Agent -> [Id -> Left]], NEW i \in Id,
           \A j \in Id : j # i => todos'[j] = todos[j],
           \A a \in Agent, j \in Id : j # i => told'[a][j] = told[a][j],
           Owned(todos'[i]),
           \A a \in Agent : told'[a][i] >= 0 =>
               todos'[i].status = "in-progress" /\ todos'[i].owner = a /\ todos'[i].left = told'[a][i]
    PROVE  ClaimsOK'
  <1>1. ASSUME NEW a \in Agent, NEW j \in Id, told'[a][j] >= 0
        PROVE  todos'[j].status = "in-progress" /\ todos'[j].owner = a /\ todos'[j].left = told'[a][j]
    <2>1. CASE j = i
      BY Zenon, <1>1, <2>1
    <2>2. CASE j # i
      <3>1. todos'[j] = todos[j] /\ told'[a][j] = told[a][j]
        BY Zenon, <2>2
      <3>2. told[a][j] >= 0
        BY Zenon, <1>1, <3>1
      <3>3. todos[j].status = "in-progress" /\ todos[j].owner = a /\ todos[j].left = told[a][j]
        BY ZenonT(60), <3>2 DEF ClaimsOK, ClaimAsTold
      <3>4. QED
        BY Zenon, <3>1, <3>3
    <2>3. QED
      BY <2>1, <2>2
  <1>2. ASSUME NEW j \in Id
        PROVE  todos'[j].status = "in-progress" <=> todos'[j].owner # Nobody
    BY ZenonT(60) DEF ClaimsOK, ClaimAsTold, Owned
  <1>3. QED
    BY Zenon, <1>1, <1>2 DEF ClaimsOK, ClaimAsTold

\* Rows written over a row of the table, that keep its position.
LEMMA RowChanged ==
    ASSUME IInv, NEW i \in Stored(todos), NEW r \in Row, r.position = todos[i].position, Owned(r),
           todos' = [todos EXCEPT ![i] = r], UNCHANGED <<made, deps, listing>>,
           told' \in [Agent -> [Id -> Left]],
           \A a \in Agent, j \in Id : j # i => told'[a][j] = told[a][j],
           \A a \in Agent : told'[a][i] >= 0 =>
               r.status = "in-progress" /\ r.owner = a /\ r.left = told'[a][i]
    PROVE  IInv'
  <1>1. i \in Id /\ r.position <= MaxPosition
    BY DEF Stored, IInv, TableOK
  <1>2. i <= made /\ made >= made /\ made \in 0..MaxTodos
    BY <1>1 DEF IInv, TableOK, Stored, Id
  <1>3. TableOK' /\ ListingOK'
    BY Zenon, <1>1, <1>2, RowWritten DEF IInv, TableOK
  <1>4. todos'[i] = r /\ \A j \in Id : j # i => todos'[j] = todos[j]
    BY <1>1 DEF IInv, TableOK, Table
  <1>5. ClaimsOK'
    <2>1. Owned(todos'[i])
      BY Zenon, <1>4
    <2>2. \A a \in Agent : told'[a][i] >= 0 =>
             todos'[i].status = "in-progress" /\ todos'[i].owner = a /\ todos'[i].left = told'[a][i]
      BY Zenon, <1>4
    <2>3. ClaimsOK /\ told' \in [Agent -> [Id -> Left]]
      BY DEF IInv
    <2>4. QED
      BY Zenon, <1>1, <1>4, <2>1, <2>2, <2>3, ClaimsKept
  <1>6. QED
    BY <1>3, <1>5 DEF IInv

\* Whoever was told of a lease that runs holds it.
LEMMA ToldHolds ==
    ASSUME IInv, NEW a \in Agent, NEW i \in Id, told[a][i] >= 0
    PROVE  /\ todos[i].status = "in-progress" /\ todos[i].owner = a /\ todos[i].left >= 0
           /\ a # Nobody /\ ClaimState(todos[i]) = "Held"
  <1>1. todos[i].status = "in-progress" /\ todos[i].owner = a /\ todos[i].left = told[a][i]
    BY DEF IInv, ClaimsOK, ClaimAsTold
  <1>2. a # Nobody /\ told[a][i] \in Int
    BY TodosAssumption DEF IInv, ClaimsOK, Left
  <1>3. ClaimState(todos[i]) = "Held"
    BY <1>1, <1>2 DEF ClaimState
  <1>4. QED
    BY <1>1, <1>2, <1>3

\* A claim takes no todo whose lease another agent was told of.
LEMMA ClaimTodoOK == ASSUME NEW me \in Agent PROVE IInv /\ ClaimTodo(me) => IInv'
  <1> SUFFICES ASSUME IInv, ClaimTodo(me)
               PROVE  IInv'
    OBVIOUS
  <1>1. PICK i \in Stored(todos), lease \in 1..LeaseMax :
           /\ MayClaim(me, todos[i])
           /\ todos' = [todos EXCEPT ![i] = Claimed(todos[i], me, lease)]
           /\ told' = [told EXCEPT ![me][i] = lease]
           /\ UNCHANGED <<made, deps, listing>>
    BY Zenon DEF ClaimTodo, Stored, IInv, TableOK, Table
  <1> DEFINE r == Claimed(todos[i], me, lease)
  <1>2. i \in Id /\ todos[i] \in Row
    BY PositionsOf DEF IInv, Stored
  <1>3. lease \in Left /\ me # Nobody
    BY TodosAssumption DEF Left
  <1>4. /\ r \in Row /\ r.position = todos[i].position
        /\ r.status = "in-progress" /\ r.owner = me /\ r.left = lease
    BY <1>2, <1>3, ClaimedRow
  <1>5. todos' = [todos EXCEPT ![i] = r] /\ UNCHANGED <<made, deps, listing>>
    BY <1>1
  <1> HIDE DEF r
  <1>6. Owned(r)
    BY <1>3, <1>4 DEF Owned
  <1>7. told \in [Agent -> [Id -> Left]]
    BY DEF IInv, ClaimsOK
  <1>8. /\ told' \in [Agent -> [Id -> Left]]
        /\ told'[me][i] = lease
        /\ \A a \in Agent, j \in Id : j # i \/ a # me => told'[a][j] = told[a][j]
    BY <1>1, <1>2, <1>3, <1>7
  <1>9. ASSUME NEW a \in Agent, told'[a][i] >= 0
        PROVE  r.status = "in-progress" /\ r.owner = a /\ r.left = told'[a][i]
    <2>1. CASE a = me
      BY <1>4, <1>8, <2>1
    <2>2. CASE a # me
      <3>1. told[a][i] >= 0
        BY <1>2, <1>8, <1>9, <2>2
      <3>2. todos[i].status = "in-progress" /\ todos[i].owner = a /\ todos[i].left >= 0
        BY <1>2, <3>1, ToldHolds
      <3>3. todos[i].left \in Int
        BY <1>2, TodosAssumption DEF Row, Left
      <3>4. ~MayClaim(me, todos[i])
        BY <2>2, <3>2, <3>3 DEF MayClaim, Lapsed
      <3>5. QED
        BY <1>1, <3>4
    <2>3. QED
      BY <2>1, <2>2
  <1>10. \A a \in Agent, j \in Id : j # i => told'[a][j] = told[a][j]
    BY <1>8
  <1>11. QED
    BY Zenon, <1>4, <1>5, <1>6, <1>8, <1>9, <1>10, RowChanged

\* An update ends the lease of another agent only by force.
LEMMA UpdateTodoOK == ASSUME NEW me \in Agent PROVE IInv /\ UpdateTodo(me) => IInv'
  <1> SUFFICES ASSUME IInv, UpdateTodo(me)
               PROVE  IInv'
    OBVIOUS
  <1>1. PICK i \in Stored(todos), status \in Status \cup {"keep"}, force \in BOOLEAN :
           /\ HeldByOther(todos[i], me) => force
           /\ todos' = [todos EXCEPT ![i] = Changed(todos[i], me, status)]
           /\ told' = [a \in Agent |->
                         CASE a = me -> [told[a] EXCEPT ![i] = IF todos'[i].owner = me THEN todos'[i].left ELSE Gone]
                           [] a # me /\ force -> [told[a] EXCEPT ![i] = Gone]
                           [] OTHER -> told[a]]
           /\ UNCHANGED <<made, deps, listing>>
    BY Zenon DEF UpdateTodo, Stored, IInv, TableOK, Table
  <1> DEFINE r == Changed(todos[i], me, status)
  <1>2. i \in Id /\ todos[i] \in Row
    BY PositionsOf DEF IInv, Stored
  <1>3. Owned(todos[i])
    BY <1>2 DEF IInv, ClaimsOK, ClaimAsTold, Owned
  <1>4. r \in Row /\ Owned(r) /\ r.position = todos[i].position
    BY <1>2, <1>3, ChangedRow
  <1>5. todos' = [todos EXCEPT ![i] = r] /\ UNCHANGED <<made, deps, listing>>
    BY <1>1
  <1> HIDE DEF r
  <1>6. todos'[i] = r
    BY <1>2, <1>5 DEF IInv, TableOK, Table
  <1>7. Gone \in Left /\ ~(Gone >= 0) /\ r.left \in Left
    BY <1>4, TodosAssumption DEF Gone, Left, Row
  <1>8. told \in [Agent -> [Id -> Left]]
    BY DEF IInv, ClaimsOK
  <1> DEFINE mine == IF r.owner = me THEN r.left ELSE Gone
  <1>9. mine \in Left
    BY <1>7
  <1>10. \A a \in Agent :
            told'[a] = IF a = me THEN [told[a] EXCEPT ![i] = mine]
                       ELSE IF force THEN [told[a] EXCEPT ![i] = Gone] ELSE told[a]
    BY <1>1, <1>6
  <1> HIDE DEF mine
  <1>11. ASSUME NEW a \in Agent
         PROVE  /\ told'[a] \in [Id -> Left]
                /\ told'[a][i] = IF a = me THEN mine ELSE IF force THEN Gone ELSE told[a][i]
                /\ \A j \in Id : j # i => told'[a][j] = told[a][j]
    <2>1. told[a] \in [Id -> Left]
      BY <1>8
    <2>2. QED
      BY Zenon, <1>2, <1>7, <1>9, <1>10, <2>1
  <1>12. told' \in [Agent -> [Id -> Left]]
    BY Zenon, <1>1, <1>11
  <1>13. ASSUME NEW a \in Agent, told'[a][i] >= 0
         PROVE  r.status = "in-progress" /\ r.owner = a /\ r.left = told'[a][i]
    <2>1. CASE a = me
      <3>1. told'[a][i] = mine
        BY <1>11, <2>1
      <3>2. r.owner = me /\ mine = r.left
        BY <1>7, <1>13, <3>1 DEF mine
      <3>3. me # Nobody
        BY TodosAssumption
      <3>4. QED
        BY <1>4, <2>1, <3>1, <3>2, <3>3 DEF Owned
    <2>2. CASE a # me
      <3>1. ~force /\ told[a][i] >= 0
        BY Zenon, <1>7, <1>11, <1>13, <2>2
      <3>2. todos[i].owner = a /\ ClaimState(todos[i]) = "Held"
        BY Zenon, <1>2, <3>1, ToldHolds
      <3>3. QED
        BY Zenon, <1>1, <2>2, <3>1, <3>2 DEF HeldByOther
    <2>3. QED
      BY <2>1, <2>2
  <1>14. \A a \in Agent, j \in Id : j # i => told'[a][j] = told[a][j]
    BY <1>11
  <1>15. QED
    BY Zenon, <1>4, <1>5, <1>12, <1>13, <1>14, RowChanged

\* A deleted todo is nobody's, and no listing owes it any more.
LEMMA DeleteTodoOK == IInv /\ DeleteTodo => IInv'
  <1> SUFFICES ASSUME IInv, DeleteTodo
               PROVE  IInv'
    OBVIOUS
  <1>1. PICK i \in Stored(todos) :
           /\ todos' = [todos EXCEPT ![i] = Absent]
           /\ told' = [a \in Agent |-> [told[a] EXCEPT ![i] = Gone]]
    BY Zenon DEF DeleteTodo
  <1>2. listing' = Standing(todos') /\ made' = made /\ deps' = deps
    BY DEF DeleteTodo
  <1>3. i \in Id
    BY DEF Stored
  <1>4. todos'[i] = Absent /\ \A j \in Id : j # i => todos'[j] = todos[j]
    BY <1>1, <1>3 DEF IInv, TableOK, Table
  <1>5. Absent.position = 0 /\ 0 <= MaxPosition
    BY TodosAssumption DEF Absent
  <1>6. TableOK'
    <2>1. todos' \in Table
      BY <1>1, <1>3 DEF IInv, TableOK, Table
    <2>2. ASSUME NEW j \in Id
          PROVE  /\ todos'[j].position <= MaxPosition
                 /\ deps'[j] \subseteq 1..(j - 1)
                 /\ j > made' => todos'[j] = Absent
      BY <1>2, <1>4, <1>5 DEF IInv, TableOK
    <2>3. QED
      BY Zenon, <1>2, <2>1, <2>2 DEF IInv, TableOK, Table
  <1>7. ClaimsOK'
    <2>1. Gone \in Left /\ ~(Gone >= 0)
      BY TodosAssumption DEF Gone, Left
    <2>2. told \in [Agent -> [Id -> Left]]
      BY DEF IInv, ClaimsOK
    <2>3. /\ told' \in [Agent -> [Id -> Left]]
          /\ \A a \in Agent : told'[a][i] = Gone
          /\ \A a \in Agent, j \in Id : j # i => told'[a][j] = told[a][j]
      BY <1>1, <1>3, <2>1, <2>2
    <2>4. Owned(todos'[i])
      BY <1>4 DEF Owned, Absent
    <2>5. QED
      BY Zenon, <1>3, <1>4, <2>1, <2>3, <2>4, ClaimsKept DEF IInv
  <1>8. ListingOK'
    <2> DEFINE still == listing.stood \cap Stored(todos')
    <2>1. listing \in Listings
      BY DEF IInv, ListingOK
    <2>2. listing' = [listing EXCEPT !.stood = still]
      BY <1>2 DEF Standing
    <2>3. still \in SUBSET Id
      BY DEF Stored
    <2>4. \A j \in still : j \in listing.stood /\ j \in Stored(todos') /\ todos'[j] = todos[j]
      BY <1>4 DEF Stored
    <2> HIDE DEF still
    <2>5. /\ listing' \in Listings /\ listing'.stood = still
          /\ listing'.phase = listing.phase /\ listing'.again = listing.again
          /\ listing'.seen = listing.seen /\ listing'.after = listing.after
      BY <2>1, <2>2, <2>3 DEF Listings
    <2>6. ~listing'.again /\ listing'.stood \subseteq Stored(todos')
      BY <2>4, <2>5 DEF IInv, ListingOK
    <2>7. listing'.phase = "reading" =>
             \A j \in listing'.stood : j \in listing'.seen <=> todos'[j].position <= listing'.after
      BY Zenon, <2>4, <2>5 DEF IInv, ListingOK
    <2>8. listing'.phase = "read" => listing'.stood \subseteq listing'.seen
      BY Zenon, <2>4, <2>5 DEF IInv, ListingOK
    <2>9. QED
      BY Zenon, <2>5, <2>6, <2>7, <2>8 DEF ListingOK, Listings
  <1>9. QED
    BY <1>6, <1>7, <1>8 DEF IInv

\* An imported todo keeps its place, or gets one behind all others.
LEMMA ImportTodoOK == IInv /\ ImportTodo => IInv'
  <1> SUFFICES ASSUME IInv, ImportTodo
               PROVE  IInv'
    OBVIOUS
  <1>1. PICK i \in 1..made :
          /\ \/ \E status \in {"pending", "done"} : todos' = PutTodo(i, Unclaimed(Absent, status))
             \/ \E owner \in Agent, left \in Left : todos' = PutTodo(i, Claimed(Absent, owner, left))
          /\ told' = [a \in Agent |-> [told[a] EXCEPT ![i] = Gone]]
    BY Zenon DEF ImportTodo
  <1>2. UNCHANGED <<made, deps, listing>> /\ NextPosition(todos) <= MaxPosition
    BY DEF ImportTodo
  <1>3. made \in 0..MaxTodos /\ MaxTodos \in Nat
    BY TodosAssumption DEF IInv, TableOK
  <1>4. i \in Id /\ i <= made /\ made >= made
    BY <1>3 DEF Id
  <1> DEFINE p == IF todos[i] = Absent THEN NextPosition(todos) ELSE todos[i].position
  <1>5. p \in Nat \ {0} /\ p <= MaxPosition
    <2>1. NextPosition(todos) \in Nat \ {0}
      BY NextPositionType DEF IInv
    <2>2. CASE todos[i] = Absent
      BY <1>2, <2>1, <2>2
    <2>3. CASE todos[i] # Absent
      <3>1. todos[i].position \in 1..MaxPosition
        BY <1>4, <2>3, PositionsOf DEF IInv, Stored
      <3>2. QED
        BY <2>3, <3>1, TodosAssumption
    <2>4. QED
      BY <2>2, <2>3
  <1>6. i \in Stored(todos) => p = todos[i].position
    BY DEF Stored
  <1>7. PICK r \in Row : todos' = [todos EXCEPT ![i] = r] /\ r.position = p /\ Owned(r)
    <2> HIDE DEF p
    <2>1. Gone \in Left /\ Absent \in Blank /\ \A a \in Agent : a # Nobody
      BY TodosAssumption DEF Gone, Left, Absent, Blank
    <2>2. ASSUME NEW status \in {"pending", "done"}, todos' = PutTodo(i, Unclaimed(Absent, status))
          PROVE  \E r \in Row : todos' = [todos EXCEPT ![i] = r] /\ r.position = p /\ Owned(r)
      <3> DEFINE u == Unclaimed(Absent, status)
                 r == [u EXCEPT !.position = p]
      <3>1. todos' = [todos EXCEPT ![i] = r]
        BY Zenon, <2>2 DEF PutTodo, p
      <3>2. u \in Draft /\ u.status = status /\ u.owner = Nobody
        BY Zenon, <2>1 DEF Unclaimed, Blank, Draft, Status
      <3> HIDE DEF u
      <3>3. r \in Row /\ r.position = p /\ Owned(r)
        BY <1>5, <3>2 DEF Row, Draft, Status, Owned
      <3>4. QED
        BY Zenon, <3>1, <3>3
    <2>3. ASSUME NEW owner \in Agent, NEW left \in Left, todos' = PutTodo(i, Claimed(Absent, owner, left))
          PROVE  \E r \in Row : todos' = [todos EXCEPT ![i] = r] /\ r.position = p /\ Owned(r)
      <3> DEFINE u == Claimed(Absent, owner, left)
                 r == [u EXCEPT !.position = p]
      <3>1. todos' = [todos EXCEPT ![i] = r]
        BY Zenon, <2>3 DEF PutTodo, p
      <3>2. u \in Draft /\ u.status = "in-progress" /\ u.owner = owner
        BY Zenon, <2>1 DEF Claimed, Blank, Draft, Status
      <3> HIDE DEF u
      <3>3. r \in Row /\ r.position = p /\ Owned(r)
        BY <1>5, <2>1, <3>2 DEF Row, Draft, Status, Owned
      <3>4. QED
        BY Zenon, <3>1, <3>3
    <2>4. QED
      BY Zenon, <1>1, <2>2, <2>3
  <1> HIDE DEF p
  <1>8. TableOK' /\ ListingOK'
    BY Zenon, <1>2, <1>3, <1>4, <1>5, <1>6, <1>7, RowWritten DEF IInv, TableOK
  <1>9. ClaimsOK'
    <2>1. Gone \in Left /\ ~(Gone >= 0)
      BY TodosAssumption DEF Gone, Left
    <2>2. told \in [Agent -> [Id -> Left]]
      BY DEF IInv, ClaimsOK
    <2>3. /\ told' \in [Agent -> [Id -> Left]]
          /\ \A a \in Agent : told'[a][i] = Gone
          /\ \A a \in Agent, j \in Id : j # i => told'[a][j] = told[a][j]
      BY <1>1, <1>4, <2>1, <2>2
    <2>4. todos'[i] = r /\ \A j \in Id : j # i => todos'[j] = todos[j]
      BY <1>4, <1>7 DEF IInv, TableOK, Table
    <2>5. Owned(todos'[i])
      BY Zenon, <1>7, <2>4
    <2>6. QED
      BY Zenon, <1>4, <2>1, <2>3, <2>4, <2>5, ClaimsKept DEF IInv
  <1>10. QED
    BY <1>8, <1>9 DEF IInv

\* A listing starts with nothing shown.
LEMMA BeginListingOK == IInv /\ BeginListing => IInv'
  <1> SUFFICES ASSUME IInv, BeginListing
               PROVE  IInv'
    OBVIOUS
  <1>1. PICK style \in {"todos", "entries"} :
           listing' = [NoListing EXCEPT !.phase = "reading", !.style = style, !.stood = Stored(todos)]
    BY Zenon DEF BeginListing
  <1>2. UNCHANGED <<todos, made, deps, told>>
    BY DEF BeginListing
  <1>3. TableOK' /\ ClaimsOK'
    BY ZenonT(60), <1>2 DEF IInv, TableOK, ClaimsOK, ClaimAsTold, Table
  <1>4. listing' = [phase |-> "reading", style |-> style, after |-> 0, seen |-> {}, again |-> FALSE,
                    stood |-> Stored(todos)]
    BY Zenon, <1>1 DEF NoListing
  <1>5. Stored(todos) \in SUBSET Id
    BY DEF Stored
  <1>6. \A i \in Stored(todos) : ~(todos[i].position <= 0)
    BY <1>5, PositionsOf DEF IInv
  <1>7. ListingOK'
    BY <1>2, <1>4, <1>5, <1>6 DEF ListingOK, Listings
  <1>8. QED
    BY <1>3, <1>7 DEF IInv

\* A page shows the todos that come next and no other.
LEMMA ReadPageOK == IInv /\ ReadPage => IInv'
  <1> SUFFICES ASSUME IInv, ReadPage
               PROVE  IInv'
    OBVIOUS
  <1> DEFINE page == PageOf(listing)
             entries == page.entries
             last == LastPosition(entries)
             again == listing.again \/ entries \cap listing.seen \cap listing.stood # {}
             rest == After(listing.after)
  <1>1. /\ listing.phase = "reading"
        /\ listing' = [listing EXCEPT !.phase = IF page.more THEN "reading" ELSE "read",
                                      !.after = IF page.more THEN last ELSE @,
                                      !.again = again,
                                      !.seen = @ \cup entries]
    BY Zenon DEF ReadPage
  <1>2. UNCHANGED <<todos, made, deps, told>>
    BY DEF ReadPage
  <1>3. TableOK' /\ ClaimsOK'
    BY Zenon, <1>2 DEF IInv, TableOK, ClaimsOK, ClaimAsTold, Table
  <1>4. TableOK /\ listing \in Listings
    BY DEF IInv, ListingOK
  <1>5. /\ page.more \in BOOLEAN
        /\ entries \subseteq rest
        /\ ~page.more => entries = rest
        /\ page.more => entries # {}
        /\ \A i \in rest, j \in entries : todos[i].position <= todos[j].position => i \in entries
    BY Zenon, <1>4, PageIsFirst
  <1>6. rest = {i \in Stored(todos) : todos[i].position > listing.after}
    BY Zenon DEF After
  <1> HIDE DEF rest
  <1>7. \A i \in Id : todos[i].position \in 0..MaxPosition
    BY <1>4, PositionsOf
  <1>8. listing.after \in Nat /\ MaxPosition \in Nat /\ listing.seen \in SUBSET Id
    BY <1>4, TodosAssumption DEF Listings
  <1>9. rest \in SUBSET Id /\ entries \in SUBSET Id
    BY Zenon, <1>5, <1>6 DEF Stored
  <1>10. page.more => last \in Nat /\ (\E j \in entries : todos[j].position = last)
                      /\ \A j \in entries : todos[j].position <= last
    <2> SUFFICES ASSUME page.more
                 PROVE  last \in Nat /\ (\E j \in entries : todos[j].position = last)
                        /\ \A j \in entries : todos[j].position <= last
      OBVIOUS
    <2> DEFINE P == {todos[j].position : j \in entries}
    <2>1. last = Max(P)
      BY Zenon DEF LastPosition
    <2>2. entries # {}
      BY <1>5
    <2> HIDE DEF entries, last
    <2>3. P \in SUBSET Nat /\ P # {} /\ \A x \in P : x <= MaxPosition
      BY <1>7, <1>8, <1>9, <2>2
    <2> HIDE DEF P
    <2>4. last \in P /\ \A y \in P : y <= last
      BY Zenon, <1>8, <2>1, <2>3, MaxOf
    <2>5. QED
      BY Zenon, <2>3, <2>4 DEF P
  <1> HIDE DEF entries, last, page
  <1>11. again = FALSE
    <2>1. ~listing.again
      BY DEF IInv, ListingOK
    <2>2. ASSUME NEW i \in entries, i \in listing.seen, i \in listing.stood
          PROVE  FALSE
      <3>1. todos[i].position <= listing.after
        BY <1>1, <2>2 DEF IInv, ListingOK
      <3>2. todos[i].position > listing.after /\ i \in Id
        BY <1>5, <1>6, <1>9
      <3>3. QED
        BY <1>7, <1>8, <3>1, <3>2
    <2>3. QED
      BY <2>1, <2>2
  <1> HIDE DEF again
  <1>12. /\ listing' \in Listings
         /\ listing'.phase = (IF page.more THEN "reading" ELSE "read")
         /\ listing'.after = (IF page.more THEN last ELSE listing.after)
         /\ listing'.again = FALSE
         /\ listing'.seen = listing.seen \cup entries
         /\ listing'.stood = listing.stood
    BY Zenon, <1>1, <1>4, <1>5, <1>8, <1>9, <1>10, <1>11 DEF Listings
  <1>13. listing.stood \subseteq Stored(todos) /\ listing.stood \subseteq Id
    BY DEF IInv, ListingOK, Stored
  <1>14. ASSUME NEW i \in listing.stood, todos[i].position <= listing.after \/ ~page.more
         PROVE  i \in listing.seen \cup entries
    <2>1. CASE todos[i].position <= listing.after
      BY <1>1, <2>1 DEF IInv, ListingOK
    <2>2. CASE ~(todos[i].position <= listing.after)
      <3>1. todos[i].position > listing.after
        BY <1>7, <1>8, <1>13, <2>2
      <3>2. i \in rest
        BY <1>6, <1>13, <3>1
      <3>3. QED
        BY <1>5, <1>14, <2>2, <3>2
    <2>3. QED
      BY <2>1, <2>2
  <1>15. ASSUME page.more, NEW i \in listing.stood
         PROVE  i \in listing.seen \cup entries <=> todos[i].position <= last
    <2>1. PICK j \in entries : todos[j].position = last
      BY <1>10, <1>15
    <2>2. last > listing.after /\ last \in Nat
      BY Zenon, <1>5, <1>6, <1>10, <1>15, <2>1
    <2>3. i \in listing.seen => todos[i].position <= last
      <3>1. i \in listing.seen => todos[i].position <= listing.after
        BY <1>1 DEF IInv, ListingOK
      <3>2. QED
        BY <1>7, <1>8, <1>13, <2>2, <3>1
    <2>4. i \in entries => todos[i].position <= last
      BY <1>10, <1>15
    <2>5. ASSUME todos[i].position <= last
          PROVE  i \in listing.seen \cup entries
      <3>1. CASE todos[i].position <= listing.after
        BY <1>14, <3>1
      <3>2. CASE ~(todos[i].position <= listing.after)
        <4>1. todos[i].position > listing.after
          BY <1>7, <1>8, <1>13, <3>2
        <4>2. i \in rest
          BY <1>6, <1>13, <4>1
        <4>3. QED
          BY Zenon, <1>5, <2>1, <2>5, <4>2
      <3>3. QED
        BY <3>1, <3>2
    <2>6. QED
      BY Zenon, <2>3, <2>4, <2>5
  <1>16. ListingOK'
    <2>1. listing'.stood \subseteq Stored(todos') /\ ~listing'.again
      BY Zenon, <1>2, <1>12, <1>13
    <2>2. listing'.phase = "reading" =>
             \A i \in listing'.stood : i \in listing'.seen <=> todos'[i].position <= listing'.after
      BY Zenon, <1>2, <1>12, <1>15
    <2>3. listing'.phase = "read" => listing'.stood \subseteq listing'.seen
      BY <1>12, <1>14
    <2>4. QED
      BY Zenon, <1>12, <2>1, <2>2, <2>3 DEF ListingOK, Listings
  <1>17. QED
    BY <1>3, <1>16 DEF IInv

\* A listing that is over promises nothing more.
LEMMA EndListingOK == IInv /\ EndListing => IInv'
  <1> SUFFICES ASSUME IInv, EndListing
               PROVE  IInv'
    OBVIOUS
  <1>1. listing' = NoListing /\ UNCHANGED <<todos, made, deps, told>>
    BY DEF EndListing
  <1>2. TableOK' /\ ClaimsOK'
    BY Zenon, <1>1 DEF IInv, TableOK, ClaimsOK, ClaimAsTold, Table
  <1>3. ListingOK'
    BY <1>1 DEF ListingOK, Listings, NoListing
  <1>4. QED
    BY <1>2, <1>3 DEF IInv

\* A lease and what its owner was told of it run down together.
LEMMA TickOK == IInv /\ Tick => IInv'
  <1> SUFFICES ASSUME IInv, Tick
               PROVE  IInv'
    OBVIOUS
  <1>1. /\ todos' = [i \in Id |-> [todos[i] EXCEPT !.left = Less(@)]]
        /\ told' = [a \in Agent |-> [i \in Id |-> Less(told[a][i])]]
        /\ UNCHANGED <<made, deps, listing>>
    BY DEF Tick
  <1>2. ASSUME NEW t \in Left
        PROVE  Less(t) \in Left /\ (Less(t) >= 0 => t >= 0)
    BY TodosAssumption DEF Less, Left, Gone
  <1>3. ASSUME NEW i \in Id
        PROVE  /\ todos'[i] \in Row \cup {Absent}
               /\ todos'[i].position = todos[i].position
               /\ todos'[i].status = todos[i].status /\ todos'[i].owner = todos[i].owner
               /\ todos'[i].left = Less(todos[i].left)
               /\ todos[i] = Absent <=> todos'[i] = Absent
    <2>1. todos'[i] = [todos[i] EXCEPT !.left = Less(todos[i].left)]
      BY <1>1
    <2>2. CASE todos[i] \in Row
      <3>1. todos[i].left \in Left
        BY <2>2 DEF Row
      <3>2. Less(todos[i].left) \in Left
        BY <1>2, <3>1
      <3>3. todos'[i] \in Row
        BY Zenon, <2>1, <2>2, <3>2 DEF Row
      <3>4. QED
        BY Zenon, <2>1, <2>2, <3>3, AbsentIsNoRow DEF Row
    <2>3. CASE todos[i] = Absent
      <3>1. Less(Gone) = Gone
        BY DEF Less, Gone
      <3>2. todos'[i] = Absent
        BY <2>1, <2>3, <3>1 DEF Absent
      <3>3. QED
        BY <2>3, <3>1, <3>2 DEF Absent
    <2>4. QED
      BY <2>2, <2>3 DEF IInv, TableOK, Table
  <1>4. TableOK'
    <2>1. todos' \in Table
      BY <1>1, <1>3 DEF Table
    <2>2. QED
      BY Zenon, <1>1, <1>3, <2>1 DEF IInv, TableOK, Table
  <1>5. ClaimsOK'
    <2>1. told \in [Agent -> [Id -> Left]]
      BY DEF IInv, ClaimsOK
    <2>2. told' \in [Agent -> [Id -> Left]]
      BY Zenon, <1>1, <1>2, <2>1
    <2>3. ASSUME NEW a \in Agent, NEW i \in Id, told'[a][i] >= 0
          PROVE  todos'[i].status = "in-progress" /\ todos'[i].owner = a /\ todos'[i].left = told'[a][i]
      <3>1. told'[a][i] = Less(told[a][i]) /\ told[a][i] \in Left
        BY <1>1, <2>1
      <3>2. told[a][i] >= 0
        BY Zenon, <1>2, <2>3, <3>1
      <3>3. todos[i].status = "in-progress" /\ todos[i].owner = a /\ todos[i].left = told[a][i]
        BY <3>2 DEF IInv, ClaimsOK, ClaimAsTold
      <3>4. QED
        BY <1>3, <3>1, <3>3
    <2>4. \A i \in Id : todos'[i].status = "in-progress" <=> todos'[i].owner # Nobody
      BY Zenon, <1>3 DEF IInv, ClaimsOK, ClaimAsTold
    <2>5. QED
      BY Zenon, <2>2, <2>3, <2>4 DEF ClaimsOK, ClaimAsTold
  <1>6. ListingOK'
    <2>1. \A i \in listing.stood : i \in Stored(todos') /\ todos'[i].position = todos[i].position
      BY Zenon, <1>3 DEF IInv, ListingOK, Stored
    <2>2. QED
      BY Zenon, <1>1, <2>1, ListingKept DEF IInv
  <1>7. QED
    BY <1>4, <1>5, <1>6 DEF IInv

\* Every step keeps the invariant.
LEMMA NextOK == IInv /\ [Next]_vars => IInv'
  <1> SUFFICES ASSUME IInv, [Next]_vars
               PROVE  IInv'
    OBVIOUS
  <1>1. CASE AddTodo
    BY <1>1, AddTodoOK
  <1>2. ASSUME NEW me \in Agent, ClaimTodo(me) \/ UpdateTodo(me)
        PROVE  IInv'
    BY <1>2, ClaimTodoOK, UpdateTodoOK
  <1>3. CASE DeleteTodo
    BY <1>3, DeleteTodoOK
  <1>4. CASE ImportTodo
    BY <1>4, ImportTodoOK
  <1>5. CASE BeginListing
    BY <1>5, BeginListingOK
  <1>6. CASE ReadPage
    BY <1>6, ReadPageOK
  <1>7. CASE EndListing
    BY <1>7, EndListingOK
  <1>8. CASE Tick
    BY <1>8, TickOK
  <1>9. CASE UNCHANGED vars
    <2>1. UNCHANGED <<todos, made, deps, told, listing>>
      BY Zenon, <1>9 DEF vars
    <2>2. TableOK' /\ ClaimsOK'
      BY Zenon, <2>1 DEF IInv, TableOK, ClaimsOK, ClaimAsTold, Table
    <2>3. ListingOK'
      BY Zenon, <2>1 DEF IInv, ListingOK, Listings
    <2>4. QED
      BY <2>2, <2>3 DEF IInv
  <1>10. QED
    BY Zenon, <1>1, <1>2, <1>3, <1>4, <1>5, <1>6, <1>7, <1>8, <1>9 DEF Next

-----------------------------------------------------------------------------
(* What is promised. *)

\* The invariant holds throughout.
LEMMA Invariance == Spec => []IInv
  <1>1. QED
    BY InitOK, NextOK, PTL DEF Spec

\* An agent told that it holds a todo holds it until the lease it was given
\* runs out, unless another forces, deletes or imports it, and a todo is in
\* progress exactly when it has an owner (claim_by_id, Todo::changed).
THEOREM ClaimsHold == Spec => []ClaimAsTold
  <1>1. IInv => ClaimAsTold
    BY DEF IInv, ClaimsOK
  <1>2. QED
    BY <1>1, Invariance, PTL

\* A listing read to its end showed every todo that stood all along, and none
\* twice, whichever of the two ways its pages are cut (TodoPage, EntryPage).
THEOREM ListingsComplete == Spec => []ListingIsComplete
  <1>1. IInv => ListingIsComplete
    BY DEF IInv, ListingOK, ListingIsComplete
  <1>2. QED
    BY <1>1, Invariance, PTL

\* The store's query and the domain's rule choose from the same todos.
LEMMA ReadyIsClaimable ==
    ASSUME IInv
    PROVE  Claimable = {i \in Stored(todos) :
                           (todos[i].status = "pending" \/ Lapsed(todos[i])) /\ ~Unfinished(i)}
  <1>1. ASSUME NEW i \in Stored(todos)
        PROVE  EffectiveStatus(todos[i]) = "pending" <=> todos[i].status = "pending" \/ Lapsed(todos[i])
    <2>1. i \in Id /\ todos[i] \in Row
      BY PositionsOf DEF IInv, Stored
    <2>2. Owned(todos[i])
      BY <2>1 DEF IInv, ClaimsOK, ClaimAsTold, Owned
    <2>3. todos[i].left \in Int
      BY <2>1, TodosAssumption DEF Row, Left
    <2>4. QED
      BY <2>2, <2>3 DEF EffectiveStatus, ClaimState, Lapsed, Owned
  <1>2. ASSUME NEW i \in Stored(todos)
        PROVE  (\A d \in deps[i] : IsDone(d)) <=> ~Unfinished(i)
    <2>1. deps[i] \subseteq Id
      BY DEF IInv, TableOK, Stored
    <2>2. QED
      BY Zenon, <2>1 DEF IsDone, Unfinished, Stored
  <1>3. QED
    BY Zenon, <1>1, <1>2 DEF Claimable

\* The todo offered next is the first of the claimable ones.
LEMMA NextIsFirstClaimable ==
    ASSUME IInv
    PROVE  /\ NextClaimable = {i \in Claimable : \A j \in Claimable : todos[i].position <= todos[j].position}
           /\ Claimable # {} => NextClaimable # {}
  <1>1. NextClaimable = {i \in Claimable : \A j \in Claimable : todos[i].position <= todos[j].position}
    BY Zenon, ReadyIsClaimable DEF NextClaimable
  <1>2. Claimable \in SUBSET Id
    BY Zenon DEF Claimable, Stored
  <1>3. Claimable # {} => \E i \in Claimable : \A j \in Claimable : todos[i].position <= todos[j].position
    BY Zenon, <1>2, OneIsFirst DEF IInv
  <1>4. QED
    BY Zenon, <1>1, <1>3

\* While a todo waits, an agent is at work on one, or the store's query finds
\* one to take: the oldest that is claimable by the domain's rule
\* (NEXT_CLAIMABLE, Todo::is_claimable).
THEOREM WorkNeverStalls == Spec => []WorkGoesOn
  <1>1. IInv => WorkGoesOn
    <2> SUFFICES ASSUME IInv
                 PROVE  WorkGoesOn
      OBVIOUS
    <2>1. ASSUME NEW w \in Stored(todos), EffectiveStatus(todos[w]) = "pending",
                 ~ \E i \in Id : ClaimState(todos[i]) = "Held"
          PROVE  NextClaimable # {}
      <3> DEFINE W == {i \in Stored(todos) : EffectiveStatus(todos[i]) = "pending"}
      <3>1. W \in SUBSET Id /\ W \in SUBSET Nat /\ W # {}
        BY <2>1 DEF Stored, Id
      <3>2. PICK i \in W : \A j \in W : i <= j
        <4> HIDE DEF W
        <4>1. QED
          BY Zenon, <3>1, LeastOf
      <3>3. i \in Id /\ i \in Stored(todos) /\ EffectiveStatus(todos[i]) = "pending" /\ i \in Nat
        BY <3>1
      <3>4. ASSUME NEW d \in deps[i], todos[d] # Absent
            PROVE  todos[d].status = "done"
        <4>1. d \in 1..(i - 1) /\ d \in Id
          BY <3>3 DEF IInv, TableOK
        <4>2. d \in Stored(todos)
          BY <3>4, <4>1 DEF Stored
        <4>3. ~(i <= d)
          BY <3>3, <4>1
        <4>4. EffectiveStatus(todos[d]) # "pending"
          BY Zenon, <3>2, <4>2, <4>3
        <4>5. todos[d] \in Row /\ Owned(todos[d])
          BY Zenon, <4>1, <4>2, PositionsOf DEF IInv, ClaimsOK, ClaimAsTold, Owned
        <4>6. todos[d].left \in Int /\ todos[d].status \in Status
          BY <4>5, TodosAssumption DEF Row, Left
        <4>7. ClaimState(todos[d]) # "Held"
          BY <2>1, <4>1
        <4>8. ClaimState(todos[d]) = "Unclaimed" /\ todos[d].status # "pending"
          BY <4>4, <4>6, <4>7 DEF EffectiveStatus, ClaimState
        <4>9. todos[d].owner = Nobody
          BY <4>6, <4>8 DEF ClaimState
        <4>10. QED
          BY Zenon, <4>5, <4>6, <4>8, <4>9 DEF Owned, Status
      <3>5. i \in Claimable
        BY <3>3, <3>4 DEF Claimable, IsDone
      <3>6. QED
        BY Zenon, <3>5, NextIsFirstClaimable
    <2>2. NextClaimable \subseteq Claimable /\ (Claimable # {} => NextClaimable # {})
      BY Zenon, NextIsFirstClaimable
    <2>3. \A i \in NextClaimable, j \in Claimable : todos[i].position <= todos[j].position
      BY Zenon, NextIsFirstClaimable
    <2>4. QED
      BY Zenon, <2>1, <2>2, <2>3 DEF WorkGoesOn
  <1>2. QED
    BY <1>1, Invariance, PTL
=============================================================================
