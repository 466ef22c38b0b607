---------------------------- MODULE StacksProofs ----------------------------
(***************************************************************************)
(* For every number of writes, requests, runs, failed reads, crashes and   *)
(* services, and every retention: a request is answered from a stack no    *)
(* older than the one stored when it came, the edits in the log are raised *)
(* and none twice, every record sent is accounted for, and once all are    *)
(* stored the database holds the end the service shows.                    *)
(*                                                                         *)
(* The inductive invariant has a part per question: TypesOK, LoopOK and    *)
(* FreshOK are about the service's place in a handler and what it read     *)
(* there, RecorderOK and EndsOK about the recorder's queue and the ends on *)
(* their way to the store, and IdsOK, MarksOK and EditsOK about the edits  *)
(* and the marks up to which they were raised.  RecorderOK carries the     *)
(* numbers: the record in hand and those of the queue are the last ones    *)
(* sent, in order, so the pending count and the set of the records owed    *)
(* say the same.                                                           *)
(***************************************************************************)
EXTENDS Stacks, FiniteSetTheorems, TLAPS

(* The types of the state. *)

Edit == [id : Nat, reg : Nat, moved : BOOLEAN, fresh : BOOLEAN]

Stack == [reg : Nat, version : Nat, has : BOOLEAN]

Database ==
    [reg : Nat, counter : Nat, rev : Nat, version : Nat, has : BOOLEAN,
     edits : SUBSET Edit, raised : Nat, ended : BOOLEAN]

Loop ==
    [up : BOOLEAN, loaded : BOOLEAN, rev : Int, stack : Stack, mark : Nat,
     unregistered : BOOLEAN, shows : BOOLEAN,
     at : {"idle", "compare", "revision", "stack", "ends", "edits", "mark"},
     task : {"none", "change", "settings", "request"}, got : Int, read : SUBSET Edit]

Ghost ==
    [regs : Nat, ids : Nat, raised : SUBSET Edit, again : SUBSET Edit, unmarked : SUBSET Edit,
     owing : BOOLEAN, asked : Nat, stale : BOOLEAN, same : BOOLEAN, sent : Nat,
     stored : SUBSET Nat, told : SUBSET Nat, counted : SUBSET Nat, lost : SUBSET Nat]

Recorders ==
    [queue : Seq(Record \cup {FlushRecord}), hand : Record \cup {Nothing}, pending : Nat,
     drain : {"none", "set", "passed"}, flush : {"no", "waits", "answered"}]

TypesOK == store \in Database /\ svc \in Loop /\ ghost \in Ghost /\ recorder \in Recorders

\* Where the loop may be in a handler.
LoopOK ==
    /\ ~svc.up => svc = Down
    /\ svc.up => recorder.flush = "no"
    /\ svc.at = "compare" => svc.loaded /\ svc.task = "request"
    /\ svc.at = "ends" => ~svc.loaded
    /\ svc.at = "idle" => svc.task = "none"
    /\ ~svc.loaded => svc.mark = 0 /\ (svc.shows => svc.at \in {"edits", "mark"})

\* The revision and the version of the stack move together.
FreshOK ==
    /\ store.reg # 0 => store.rev = store.counter
    /\ svc.rev <= store.counter /\ svc.got <= store.counter
    /\ svc.loaded /\ svc.rev = StoredRevision /\ store.reg # 0 => svc.stack.version >= store.version
    /\ ~svc.loaded /\ svc.at \in {"ends", "edits", "mark"} /\ svc.got = StoredRevision /\ store.reg # 0 =>
          svc.stack.version >= store.version
    /\ ghost.asked <= store.version
    /\ ghost.asked # 0 => store.reg # 0
    /\ svc.task = "request" /\ svc.at \in {"ends", "edits", "mark"} => ghost.asked <= svc.stack.version
    /\ ~ghost.stale

\* The records settled, in the order they were sent.
Over == ghost.stored \cup ghost.told \cup ghost.counted \cup ghost.lost
Done == ghost.sent - recorder.pending
InHand == IF recorder.hand = Nothing THEN 0 ELSE 1

\* The queue q of n records, a flush behind them when one is awaited; the
\* records are numbered from k on.
Queued(q, n, k, flush) ==
    /\ flush # "waits" => Len(q) = n
    /\ flush = "waits" => Len(q) = n + 1 /\ q[n + 1] = FlushRecord
    /\ \A i \in 1..n : q[i] \in Record /\ q[i].n = k + i

RecorderOK ==
    /\ recorder.pending <= ghost.sent
    /\ Over = 1..Done
    /\ recorder.hand # Nothing => recorder.hand.n = Done + 1
    /\ InHand <= recorder.pending
    /\ Queued(recorder.queue, recorder.pending - InHand, Done + InHand, recorder.flush)
    /\ recorder.flush = "answered" => recorder.pending = 0

Ends == {"ended", "cleared"}

IsEnd(r) == r # Nothing /\ r.kind \in Ends

\* Once the record in hand and those of the queue have landed the store has
\* the end the service shows.
Coming(q, hand, shows, ended) ==
    /\ \A i \in 1..Len(q) :
          IsEnd(q[i]) /\ (\A j \in 1..Len(q) : j > i => ~IsEnd(q[j])) => shows = (q[i].kind = "ended")
    /\ (\A i \in 1..Len(q) : ~IsEnd(q[i])) =>
          shows = (IF IsEnd(hand) THEN hand.kind = "ended" ELSE ended)

\* The service has read the stack it shows.
HasStack == svc.loaded \/ svc.at \in {"ends", "edits", "mark"}

EndsOK ==
    /\ store.ended => store.has
    /\ svc.shows => svc.stack.has
    /\ svc.up /\ ghost.same /\ HasStack /\ svc.stack.has => store.has
    /\ svc.at = "ends" /\ ghost.same => recorder.pending = 0 /\ (store.ended => svc.stack.has)
    /\ svc.up /\ ghost.same /\ HasStack /\ svc.at # "ends" /\ 1..Done \subseteq ghost.stored =>
          Coming(recorder.queue, recorder.hand, svc.shows, store.ended)

IdsOK ==
    /\ store.reg <= ghost.regs /\ (store.has => store.reg # 0)
    /\ store.reg = 0 => store.edits = {}
    /\ \A e \in store.edits : e.reg = store.reg
    /\ \A e \in store.edits \cup svc.read \cup ghost.raised :
          0 < e.id /\ e.id <= ghost.ids /\ 0 < e.reg /\ e.reg <= ghost.regs
    /\ \A e \in svc.read \cup ghost.raised : e.reg = store.reg => e.id <= Newest(store.edits)
    /\ svc.at # "mark" => svc.read = {}

\* A mark m covers no edit that was not raised, unless it has the id of a
\* removed one.
MarkOK(m) ==
    /\ m <= ghost.ids
    /\ \A e \in store.edits \cup svc.read : e.fresh /\ e.id <= m => e \in ghost.raised

\* So do the service's mark, the stored one, and those on their way to the store.
MarksOK ==
    /\ MarkOK(svc.mark) /\ MarkOK(store.raised)
    /\ recorder.hand # Nothing => MarkOK(recorder.hand.through)
    /\ \A i \in 1..(recorder.pending - InHand) : MarkOK(recorder.queue[i].through)

Announced(e) == e.moved /\ e.fresh => e \in ghost.raised

EditsOK ==
    /\ svc.loaded /\ ~ghost.owing /\ svc.rev = StoredRevision /\ svc.at \in {"idle", "compare", "revision", "stack"} =>
          \A e \in store.edits : Announced(e)
    /\ svc.at = "mark" /\ StoredRevision = (IF svc.loaded THEN svc.rev ELSE svc.got) =>
          \A e \in store.edits : e \in svc.read \/ Announced(e)
    /\ svc.at = "mark" =>
          \A e \in store.edits : /\ e.fresh => e \in svc.read \/ \A f \in svc.read : f.id < e.id
                                 /\ e \in ghost.raised => e \in svc.read
    /\ svc.up => \A e \in (ghost.raised \ ghost.unmarked) \cap (store.edits \cup svc.read) :
                    e.id <= (IF svc.mark # 0 THEN svc.mark ELSE store.raised)
    /\ ghost.again \subseteq ghost.unmarked

IInv == TypesOK /\ LoopOK /\ FreshOK /\ RecorderOK /\ EndsOK /\ IdsOK /\ MarksOK /\ EditsOK

-----------------------------------------------------------------------------
(* Numbers. *)

\* Naturals have a least one among them.
LEMMA LeastOf ==
    ASSUME NEW S \in SUBSET Nat, S # {}
    PROVE  \E x \in S : \A y \in S : x <= y
  <1>1. PICK x \in S : \A y \in S : ~ (<<y, x>> \in OpToRel(<, Nat))
    BY Zenon, NatLessThanWellFounded, WFMin
  <1>2. ASSUME NEW y \in S
        PROVE  x <= y
    <2>1. x \in Nat /\ y \in Nat
      OBVIOUS
    <2>2. ~(y < x)
      BY Zenon, <1>1, <2>1 DEF OpToRel
    <2>3. QED
      BY <2>1, <2>2
  <1>3. QED
    BY Zenon, <1>2

\* Max of bounded naturals is the greatest of them.
LEMMA MaxOf ==
    ASSUME NEW S \in SUBSET Nat, S # {}, NEW n \in Nat, \A x \in S : x <= n
    PROVE  Max(S) \in S /\ \A y \in S : y <= Max(S)
  <1> DEFINE T == {n - x : x \in S}
  <1>1. T \in SUBSET Nat /\ T # {}
    OBVIOUS
  <1> HIDE DEF T
  <1>2. PICK t \in T : \A u \in T : t <= u
    BY Zenon, <1>1, LeastOf
  <1>3. PICK x \in S : t = n - x
    BY Zenon, <1>2 DEF T
  <1>4. ASSUME NEW y \in S
        PROVE  x >= y
    <2>1. n - y \in T
      BY Zenon DEF T
    <2>2. t <= n - y
      BY Zenon, <1>2, <2>1
    <2>3. QED
      BY <2>2, <1>3
  <1>5. Max(S) \in S /\ \A y \in S : Max(S) >= y
    BY Zenon, <1>4 DEF Max
  <1>6. QED
    BY <1>5

\* The greater of two.
LEMMA MaxOfTwo ==
    ASSUME NEW a \in Nat, NEW b \in Nat
    PROVE  Max({a, b}) \in {a, b} /\ Max({a, b}) \in Nat /\ a <= Max({a, b}) /\ b <= Max({a, b})
  <1>1. \A x \in {a, b} : x <= a + b
    OBVIOUS
  <1>2. a + b \in Nat /\ {a, b} \in SUBSET Nat /\ {a, b} # {}
    OBVIOUS
  <1>3. QED
    BY Zenon, <1>1, <1>2, MaxOf

\* The newest of edits whose ids are bounded.
LEMMA NewestOf ==
    ASSUME NEW E \in SUBSET Edit, NEW n \in Nat, \A e \in E : e.id <= n
    PROVE  /\ Newest(E) \in Nat /\ Newest(E) <= n
           /\ \A e \in E : e.id <= Newest(E)
           /\ Newest(E) # 0 => \E e \in E : e.id = Newest(E)
  <1> DEFINE S == Ids(E) \cup {0}
  <1>1. S \in SUBSET Nat /\ S # {} /\ \A x \in S : x <= n
    BY DEF Ids, Edit
  <1>2. Max(S) \in S /\ \A y \in S : y <= Max(S)
    BY Zenon, <1>1, MaxOf
  <1>3. Newest(E) = Max(S)
    BY Zenon DEF Newest
  <1>4. Newest(E) \in Nat /\ Newest(E) <= n
    BY Zenon, <1>1, <1>2, <1>3
  <1>5. \A e \in E : e.id \in S
    BY Zenon DEF Ids
  <1>6. \A x \in S : x # 0 => \E e \in E : e.id = x
    BY Zenon DEF Ids
  <1> HIDE DEF S
  <1>7. QED
    BY Zenon, <1>2, <1>3, <1>4, <1>5, <1>6

-----------------------------------------------------------------------------
(* What a writer may commit. *)

Moves(d) == d.counter = store.counter + 1 /\ d.rev = d.counter /\ d.version = store.version + 1

Stays(d) == d.counter = store.counter /\ d.rev = store.rev /\ d.version = store.version

\* The registration a write is of.
Row == IF store.reg = 0 THEN ghost.regs + 1 ELSE store.reg

\* An edit is logged, and older ones may go.
Adds(d, new, moved) ==
    /\ new \in Edit
    /\ new.id = Newest(store.edits) + 1 /\ new.reg = d.reg /\ new.moved = moved
    /\ new.fresh = (new.id > ghost.ids)
    /\ new \in d.edits /\ d.edits \subseteq store.edits \cup {new}

Logs(d, moved) == d.edits = store.edits \/ \E new : Adds(d, new, moved)

Alike(d, r) ==
    /\ r.reg = d.reg /\ r.counter = d.counter /\ r.rev = d.rev /\ r.version = d.version
    /\ r.has = d.has /\ r.raised = d.raised /\ r.ended = d.ended

Committed(d) ==
    /\ d \in Database
    /\ d.has => d.ended = store.ended
    /\ d.ended => d.has
    /\ \/ d.reg = Row /\ d.raised = store.raised /\ Moves(d) /\ Logs(d, TRUE)
       \/ /\ store.reg # 0 /\ d.reg = store.reg /\ d.raised = store.raised /\ d.has = store.has
          /\ Stays(d) /\ Logs(d, FALSE)
       \/ /\ d.reg = 0 /\ d.raised = 0 /\ ~d.has /\ d.edits = {}
          /\ d.counter = store.counter /\ d.version = store.version + 1

\* The newest edit is never among those that go (record_edit).
LEMMA RecordEditOK ==
    ASSUME TypesOK, IdsOK, NEW d \in Database, d.edits = store.edits,
           NEW agent \in BOOLEAN, NEW moved \in BOOLEAN
    PROVE  LET r == RecordEdit(d, agent, moved)
           IN  r \in Database /\ Alike(d, r) /\ Logs(r, moved)
  <1>1. store.edits \in SUBSET Edit /\ ghost.ids \in Nat
    BY DEF TypesOK, Database, Ghost
  <1>2. \A e \in store.edits : e.id <= ghost.ids
    BY Zenon DEF IdsOK
  <1> DEFINE k == Newest(store.edits)
  <1>3. k \in Nat /\ \A e \in store.edits : e.id <= k
    BY Zenon, <1>1, <1>2, NewestOf
  <1> HIDE DEF k
  <1> DEFINE new == [id |-> k + 1, reg |-> d.reg, moved |-> moved, fresh |-> k + 1 > ghost.ids]
             all == store.edits \cup {new}
             kept == {e \in all : Cardinality({f \in all : f.id > e.id}) < Retention}
  <1>4. new \in Edit /\ new.id = k + 1 /\ new.reg = d.reg /\ new.moved = moved
        /\ new.fresh = (new.id > ghost.ids)
    BY <1>3 DEF Edit, Database
  <1> HIDE DEF new
  <1>5. {f \in all : f.id > new.id} = {}
    <2>1. SUFFICES ASSUME NEW f \in store.edits, f.id > k + 1
                   PROVE  FALSE
      BY <1>3, <1>4
    <2>2. f.id <= k /\ f.id \in Nat
      BY <1>1, <1>3 DEF Edit
    <2>3. QED
      BY <1>3, <2>1, <2>2
  <1>6. Cardinality({f \in all : f.id > new.id}) < Retention
    <2>1. Cardinality({}) = 0
      BY FS_EmptySet
    <2>2. 0 < Retention
      BY StacksConstants
    <2>3. QED
      BY Zenon, <1>5, <2>1, <2>2
  <1>7. new \in kept /\ kept \subseteq all /\ kept \in SUBSET Edit
    BY Zenon, <1>1, <1>4, <1>6
  <1>8. RecordEdit(d, agent, moved) = IF ~agent THEN d ELSE [d EXCEPT !.edits = kept]
    BY Zenon DEF RecordEdit, new, k
  <1> HIDE DEF kept
  <1>9. CASE ~agent
    <2>1. RecordEdit(d, agent, moved) = d
      BY Zenon, <1>8, <1>9
    <2>2. QED
      BY Zenon, <2>1 DEF Alike, Logs
  <1>10. CASE agent
    <2> DEFINE r == [d EXCEPT !.edits = kept]
    <2>1. r \in Database /\ r.edits = kept
      BY <1>7 DEF Database
    <2>2. Alike(d, r)
      BY DEF Alike, Database
    <2> HIDE DEF r
    <2>3. Adds(r, new, moved)
      BY Zenon, <1>4, <1>7, <2>1, <2>2 DEF Adds, k, all, Alike
    <2>4. RecordEdit(d, agent, moved) = r
      BY Zenon, <1>8, <1>10 DEF r
    <2>5. QED
      BY Zenon, <2>1, <2>2, <2>3, <2>4 DEF Logs
  <1>11. QED
    BY <1>9, <1>10

\* A bump moves the revision to the counter, and touches nothing else.
LEMMA BumpOK ==
    ASSUME NEW d \in Database
    PROVE  LET b == BumpRevision(d)
           IN  /\ b \in Database
               /\ b.counter = d.counter + 1 /\ b.rev = b.counter /\ b.version = d.version + 1
               /\ b.reg = d.reg /\ b.has = d.has /\ b.edits = d.edits /\ b.raised = d.raised
               /\ b.ended = d.ended
  <1>1. PICK n \in Nat, m \in Nat : n = d.counter + 1 /\ m = d.version + 1
    BY DEF Database
  <1> DEFINE b == [d EXCEPT !.counter = n, !.rev = n, !.version = m]
  <1>2. BumpRevision(d) = b
    BY <1>1 DEF BumpRevision, Database
  <1>3. b \in Database
    BY Zenon DEF Database
  <1>4. /\ b.counter = n /\ b.rev = n /\ b.version = m
        /\ b.reg = d.reg /\ b.has = d.has /\ b.edits = d.edits /\ b.raised = d.raised
        /\ b.ended = d.ended
    BY DEF Database
  <1> HIDE DEF b
  <1>5. QED
    BY Zenon, <1>1, <1>2, <1>3, <1>4

\* A project that is registered keeps all it had.
LEMMA RegisterOK ==
    ASSUME TypesOK
    PROVE  LET y == Register(store)
           IN  /\ y \in Database /\ y.reg = Row /\ y.counter = store.counter
               /\ y.version = store.version /\ y.edits = store.edits /\ y.raised = store.raised
               /\ y.has = store.has /\ y.ended = store.ended
  <1> DEFINE y == [store EXCEPT !.reg = ghost.regs + 1]
  <1>1. store \in Database /\ ghost.regs \in Nat
    BY DEF TypesOK, Ghost
  <1>2. y \in Database
    BY <1>1 DEF Database
  <1>3. /\ y.reg = ghost.regs + 1 /\ y.counter = store.counter /\ y.version = store.version
        /\ y.edits = store.edits /\ y.raised = store.raised /\ y.has = store.has
        /\ y.ended = store.ended
    BY <1>1 DEF Database
  <1>4. Register(store) = IF store.reg # 0 THEN store ELSE y
    BY Zenon DEF Register
  <1> HIDE DEF y
  <1>5. QED
    BY Zenon, <1>1, <1>2, <1>3, <1>4 DEF Row

\* A write that moves the revision, with or without an edit.
LEMMA MovedOK ==
    ASSUME TypesOK, IdsOK, NEW d \in Database, NEW agent \in BOOLEAN,
           d.reg = Row, d.counter = store.counter, d.version = store.version, d.edits = store.edits,
           d.raised = store.raised, d.has => d.ended = store.ended, d.ended => d.has
    PROVE  Committed(RecordEdit(BumpRevision(d), agent, TRUE)) /\ Committed(BumpRevision(d))
  <1> DEFINE b == BumpRevision(d)
             r == RecordEdit(b, agent, TRUE)
  <1>1. /\ b \in Database
        /\ b.counter = d.counter + 1 /\ b.rev = b.counter /\ b.version = d.version + 1
        /\ b.reg = d.reg /\ b.has = d.has /\ b.edits = d.edits /\ b.raised = d.raised
        /\ b.ended = d.ended
    BY Zenon, BumpOK
  <1> HIDE DEF b
  <1>2. r \in Database /\ Alike(b, r) /\ Logs(r, TRUE)
    BY Zenon, <1>1, RecordEditOK
  <1> HIDE DEF r
  <1>3. Moves(b) /\ Logs(b, TRUE)
    BY Zenon, <1>1 DEF Moves, Logs
  <1>4. Committed(b)
    BY Zenon, <1>1, <1>3 DEF Committed
  <1>5. Moves(r)
    BY Zenon, <1>2, <1>3 DEF Alike, Moves
  <1>6. Committed(r)
    BY Zenon, <1>1, <1>2, <1>5 DEF Committed, Alike
  <1>7. QED
    BY Zenon, <1>4, <1>6 DEF b, r

\* Every write of a writer is a commit of that kind.
LEMMA WritesOK ==
    ASSUME TypesOK, IdsOK, EndsOK, NEW d \in Writes
    PROVE  Committed(d)
  <1>1. store \in Database /\ ghost.regs \in Nat
    BY DEF TypesOK, Ghost
  <1>2. (store.ended => store.has) /\ (store.has => store.reg # 0)
    BY Zenon DEF EndsOK, IdsOK
  <1>3. ASSUME NEW has \in BOOLEAN
        PROVE  LET x == [Register(store) EXCEPT !.has = has, !.ended = @ /\ has]
               IN  /\ x \in Database /\ x.reg = Row /\ x.counter = store.counter
                   /\ x.version = store.version /\ x.edits = store.edits /\ x.raised = store.raised
                   /\ (x.has => x.ended = store.ended) /\ (x.ended => x.has)
    <2> DEFINE y == Register(store)
               e == y.ended /\ has
    <2>1. /\ y \in Database /\ y.reg = Row /\ y.counter = store.counter
          /\ y.version = store.version /\ y.edits = store.edits /\ y.raised = store.raised
          /\ y.ended = store.ended
      BY Zenon, RegisterOK
    <2>2. e \in BOOLEAN /\ (has => e = store.ended) /\ (e => has)
      <3>1. store.ended \in BOOLEAN
        BY <1>1 DEF Database
      <3>2. QED
        BY Zenon, <2>1, <3>1
    <2> DEFINE x == [y EXCEPT !.has = has, !.ended = e]
    <2>3. x = [Register(store) EXCEPT !.has = has, !.ended = @ /\ has]
      BY <2>1 DEF Database
    <2> HIDE DEF y, e
    <2>4. /\ x \in Database /\ x.has = has /\ x.ended = e
          /\ x.reg = y.reg /\ x.counter = y.counter /\ x.version = y.version
          /\ x.edits = y.edits /\ x.raised = y.raised
      <3>1. y \in Database /\ has \in BOOLEAN /\ e \in BOOLEAN
        BY Zenon, <2>1, <2>2, <1>3
      <3>2. x \in Database
        BY Zenon, <3>1 DEF Database
      <3>3. /\ x.has = has /\ x.ended = e
            /\ x.reg = y.reg /\ x.counter = y.counter /\ x.version = y.version
            /\ x.edits = y.edits /\ x.raised = y.raised
        BY <3>1 DEF Database
      <3>4. QED
        BY Zenon, <3>2, <3>3
    <2> HIDE DEF x
    <2>5. QED
      BY Zenon, <2>1, <2>2, <2>3, <2>4
  <1>4. ASSUME NEW agent \in BOOLEAN, ~store.has
        PROVE  Committed(AddProcess(store, agent))
    <2> DEFINE x == [Register(store) EXCEPT !.has = TRUE]
               y == Register(store)
    <2>1. /\ x \in Database /\ x.reg = Row /\ x.counter = store.counter
          /\ x.version = store.version /\ x.edits = store.edits /\ x.raised = store.raised
          /\ x.ended = store.ended /\ x.has
      <3>1. /\ y \in Database /\ y.reg = Row /\ y.counter = store.counter
            /\ y.version = store.version /\ y.edits = store.edits /\ y.raised = store.raised
            /\ y.ended = store.ended
        BY Zenon, RegisterOK
      <3>2. x = [y EXCEPT !.has = TRUE]
        OBVIOUS
      <3> HIDE DEF x, y
      <3>3. x \in Database
        BY Zenon, <3>1, <3>2 DEF Database
      <3>4. /\ x.reg = y.reg /\ x.counter = y.counter /\ x.version = y.version
            /\ x.edits = y.edits /\ x.raised = y.raised /\ x.ended = y.ended /\ x.has
        BY <3>1, <3>2 DEF Database
      <3>5. QED
        BY Zenon, <3>1, <3>3, <3>4
    <2> HIDE DEF x
    <2>2. Committed(RecordEdit(BumpRevision(x), agent, TRUE))
      BY Zenon, <2>1, MovedOK
    <2>3. QED
      BY Zenon, <2>2 DEF AddProcess, x
  <1>5. store.reg # 0 => store.reg = Row
    BY Zenon DEF Row
  <1>6. ASSUME NEW agent \in BOOLEAN, store.has
        PROVE  Committed(ChangeProcess(store, agent)) /\ Committed(RemoveProcess(store, agent))
    <2> DEFINE x == [store EXCEPT !.has = FALSE, !.ended = FALSE]
    <2>1. /\ x \in Database /\ x.reg = store.reg /\ x.counter = store.counter
          /\ x.version = store.version /\ x.edits = store.edits /\ x.raised = store.raised
          /\ ~x.ended /\ ~x.has
      BY Zenon, <1>1 DEF Database
    <2> HIDE DEF x
    <2>2. Committed(RecordEdit(BumpRevision(x), agent, TRUE))
      BY Zenon, <1>2, <1>5, <1>6, <2>1, MovedOK
    <2>3. Committed(RecordEdit(BumpRevision(store), agent, TRUE))
      BY Zenon, <1>1, <1>2, <1>5, <1>6, MovedOK
    <2>4. QED
      BY Zenon, <2>2, <2>3 DEF ChangeProcess, RemoveProcess, x
  <1>7. ASSUME NEW has \in BOOLEAN
        PROVE  Committed(Import(store, has))
    BY Zenon, <1>3, MovedOK DEF Import
  <1>8. store.reg # 0 => Committed(SetIdleStop(store))
    BY Zenon, <1>1, <1>2, <1>5, MovedOK DEF SetIdleStop
  <1>9. store.reg # 0 => Committed(SaveSettings(store))
    <2> DEFINE r == RecordEdit(store, TRUE, FALSE)
    <2>1. r \in Database /\ Alike(store, r) /\ Logs(r, FALSE)
      BY Zenon, <1>1, RecordEditOK
    <2> HIDE DEF r
    <2>2. store.reg # 0 => Committed(r)
      BY Zenon, <1>2, <2>1 DEF Committed, Alike, Stays
    <2>3. QED
      BY Zenon, <2>2 DEF SaveSettings, r
  <1>10. Committed(RemoveProject(store))
    <2> DEFINE r == RemoveProject(store)
    <2>1. r \in Database
      <3>1. PICK n \in Nat, m \in Nat : n = store.counter /\ m = store.version + 1
        BY <1>1 DEF Database
      <3>2. r = [EmptyStore EXCEPT !.counter = n, !.version = m]
        BY Zenon, <3>1 DEF RemoveProject
      <3>3. EmptyStore \in Database
        BY DEF EmptyStore, Database
      <3>4. QED
        BY Zenon, <3>2, <3>3 DEF Database
    <2>2. /\ r.reg = 0 /\ r.raised = 0 /\ ~r.has /\ ~r.ended /\ r.edits = {}
          /\ r.counter = store.counter /\ r.version = store.version + 1
      BY <1>1 DEF RemoveProject, EmptyStore, Database
    <2> HIDE DEF r
    <2>3. Committed(r)
      BY Zenon, <2>1, <2>2 DEF Committed
    <2>4. QED
      BY Zenon, <2>3 DEF r
  <1>11. QED
    BY Zenon, <1>4, <1>6, <1>7, <1>8, <1>9, <1>10 DEF Writes

-----------------------------------------------------------------------------
(* What a step leaves alone. *)

\* The books of the recorder are in order while no record moves.
LEMMA RecorderKept ==
    ASSUME RecorderOK, recorder' = recorder, ghost'.sent = ghost.sent, Over' = Over
    PROVE  RecorderOK'
  BY Zenon DEF RecorderOK, Done, InHand

\* A mark stays good as long as edits are only added past all ids, or with one
\* of a removed edit.
LEMMA MarkKept ==
    ASSUME IInv, TypesOK', NEW m \in Nat, MarkOK(m), ghost.ids <= ghost'.ids,
           ghost.raised \subseteq ghost'.raised,
           \A e \in store'.edits \cup svc'.read :
              e \in store.edits \cup svc.read \/ (e.fresh => e.id > ghost.ids)
    PROVE  MarkOK(m)'
  <1>1. ghost.ids \in Nat /\ ghost'.ids \in Nat /\ store'.edits \cup svc'.read \subseteq Edit
    BY DEF IInv, TypesOK, Ghost, Database, Loop
  <1>2. m <= ghost'.ids
    BY <1>1 DEF MarkOK
  <1>3. ASSUME NEW e \in store'.edits \cup svc'.read, e.fresh, e.id <= m
        PROVE  e \in ghost'.raised
    <2>1. e.id \in Nat
      BY <1>1 DEF Edit
    <2>2. ~(e.id > ghost.ids)
      BY <1>1, <1>3, <2>1 DEF MarkOK
    <2>3. e \in store.edits \cup svc.read
      BY Zenon, <1>3, <2>2
    <2>4. QED
      BY Zenon, <1>3, <2>3 DEF MarkOK
  <1>4. QED
    BY Zenon, <1>2, <1>3 DEF MarkOK

\* No mark covers nothing.
LEMMA NoMark == TypesOK /\ IdsOK => MarkOK(0)
  <1> SUFFICES ASSUME TypesOK, IdsOK
               PROVE  MarkOK(0)
    OBVIOUS
  <1>1. 0 <= ghost.ids
    BY DEF TypesOK, Ghost
  <1>2. \A e \in store.edits \cup svc.read : e.id \in Nat /\ 0 < e.id
    BY DEF TypesOK, Database, Loop, Edit, IdsOK
  <1>3. \A x \in Nat : 0 < x => ~(x <= 0)
    OBVIOUS
  <1>4. QED
    BY Zenon, <1>1, <1>2, <1>3 DEF MarkOK

\* The records on their way are of the right type.
LEMMA Queue ==
    ASSUME TypesOK, RecorderOK, NEW i \in 1..(recorder.pending - InHand)
    PROVE  recorder.queue[i] \in Record /\ recorder.queue[i].through \in Nat
  <1>1. recorder.queue[i] \in Record
    BY Zenon DEF RecorderOK, Queued
  <1>2. QED
    BY <1>1 DEF Record

\* The marks stay sound while new edits have new ids.
LEMMA MarksKept ==
    ASSUME IInv, TypesOK', IdsOK', recorder' = recorder, svc'.mark \in {svc.mark, 0},
           store'.raised \in {store.raised, 0}, ghost.ids <= ghost'.ids,
           ghost.raised \subseteq ghost'.raised,
           \A e \in store'.edits \cup svc'.read :
              e \in store.edits \cup svc.read \/ (e.fresh => e.id > ghost.ids)
    PROVE  MarksOK'
  <1>1. svc.mark \in Nat /\ store.raised \in Nat
    BY DEF IInv, TypesOK, Loop, Database
  <1>2. MarkOK(0)'
    BY NoMark, PTL
  <1>3. ASSUME NEW m \in Nat, MarkOK(m)
        PROVE  MarkOK(m)'
    BY Zenon, <1>3, MarkKept
  <1>4. MarkOK(svc.mark)' /\ MarkOK(store.raised)'
    <2>1. PICK m \in Nat : m = svc.mark
      BY Zenon, <1>1
    <2>2. PICK n \in Nat : n = store.raised
      BY Zenon, <1>1
    <2>3. MarkOK(m)' /\ MarkOK(n)'
      BY Zenon, <1>3, <2>1, <2>2 DEF IInv, MarksOK
    <2>4. svc'.mark \in {m, 0} /\ store'.raised \in {n, 0}
      BY Zenon, <2>1, <2>2
    <2>5. QED
      BY Zenon, <1>2, <2>3, <2>4 DEF MarkOK
  <1>5. recorder.hand # Nothing => MarkOK(recorder.hand.through)'
    <2>1. SUFFICES ASSUME recorder.hand # Nothing
                   PROVE  MarkOK(recorder.hand.through)'
      OBVIOUS
    <2>2. recorder.hand.through \in Nat
      BY <2>1 DEF IInv, TypesOK, Recorders, Record
    <2>3. PICK m \in Nat : m = recorder.hand.through
      BY Zenon, <2>2
    <2>4. MarkOK(m)'
      BY Zenon, <1>3, <2>1, <2>3 DEF IInv, MarksOK
    <2>5. QED
      BY Zenon, <2>3, <2>4 DEF MarkOK
  <1>6. ASSUME NEW i \in 1..(recorder.pending - InHand)
        PROVE  MarkOK(recorder.queue[i].through)'
    <2>1. recorder.queue[i].through \in Nat
      BY Zenon, Queue DEF IInv
    <2>2. PICK m \in Nat : m = recorder.queue[i].through
      BY Zenon, <2>1
    <2>3. MarkOK(m)'
      BY Zenon, <1>3, <2>2 DEF IInv, MarksOK
    <2>4. QED
      BY Zenon, <2>2, <2>3 DEF MarkOK
  <1>7. InHand' = InHand
    BY Zenon DEF InHand
  <1>8. QED
    BY Zenon, <1>4, <1>5, <1>6, <1>7 DEF MarksOK

-----------------------------------------------------------------------------
(* A writer commits. *)

\* The edits a commit leaves in the log, and the newest of them.
LEMMA CommittedEdits ==
    ASSUME IInv, NEW d, Committed(d)
    PROVE  /\ Newest(d.edits) \in Nat /\ \A e \in d.edits : e.id <= Newest(d.edits)
           /\ d.reg # 0 => Newest(store.edits) <= Newest(d.edits)
           /\ \A e \in d.edits \ store.edits :
                 /\ e \notin ghost.raised /\ e \notin svc.read
                 /\ e.fresh => e.id > ghost.ids
                 /\ e.moved => Moves(d)
                 /\ e.reg = d.reg /\ d.reg # 0 /\ 0 < e.id
  <1> USE DEF IInv
  <1>1. store.edits \in SUBSET Edit /\ ghost.ids \in Nat /\ d.edits \in SUBSET Edit
        /\ ghost.regs \in Nat /\ store.reg \in Nat
    BY DEF TypesOK, Database, Ghost, Committed
  <1>2. Newest(store.edits) \in Nat /\ \A e \in store.edits : e.id <= Newest(store.edits)
    <2>1. \A e \in store.edits : e.id <= ghost.ids
      BY Zenon DEF IdsOK
    <2>2. QED
      BY Zenon, <1>1, <2>1, NewestOf
  <1>3. CASE d.edits = store.edits
    BY <1>2, <1>3
  <1>4. CASE d.edits = {} /\ d.reg = 0
    <2>1. Newest({}) \in Nat
      BY NewestOf
    <2>2. QED
      BY <1>4, <2>1
  <1>5. ASSUME NEW new, NEW moved \in BOOLEAN, Adds(d, new, moved), moved => Moves(d),
               d.reg = (IF store.reg = 0 THEN ghost.regs + 1 ELSE store.reg)
        PROVE  /\ Newest(d.edits) \in Nat /\ \A e \in d.edits : e.id <= Newest(d.edits)
               /\ d.reg # 0 => Newest(store.edits) <= Newest(d.edits)
               /\ \A e \in d.edits \ store.edits :
                     /\ e \notin ghost.raised /\ e \notin svc.read
                     /\ e.fresh => e.id > ghost.ids
                     /\ e.moved => Moves(d)
                     /\ e.reg = d.reg /\ d.reg # 0 /\ 0 < e.id
    <2>1. /\ new.id = Newest(store.edits) + 1 /\ new.reg = d.reg /\ new.moved = moved
          /\ new.fresh = (new.id > ghost.ids) /\ new \in d.edits /\ d.edits \subseteq store.edits \cup {new}
      BY Zenon, <1>5 DEF Adds
    <2> DEFINE n == Newest(store.edits)
    <2>2. n \in Nat /\ new.id = n + 1 /\ \A e \in store.edits : e.id \in Nat /\ e.id <= n
      BY <1>1, <1>2, <2>1 DEF Edit
    <2> HIDE DEF n
    <2>3. \A e \in d.edits : e.id <= n + 1
      BY <2>1, <2>2
    <2>4. /\ Newest(d.edits) \in Nat /\ \A e \in d.edits : e.id <= Newest(d.edits)
      <3>1. n + 1 \in Nat
        BY <2>2
      <3>2. QED
        BY Zenon, <1>1, <2>3, <3>1, NewestOf
    <2>5. n <= Newest(d.edits)
      <3>1. n + 1 <= Newest(d.edits)
        BY Zenon, <2>1, <2>2, <2>4
      <3>2. QED
        BY <2>2, <2>4, <3>1
    <2>6. d.reg # 0 /\ 0 < new.id
      BY <1>1, <1>5, <2>2
    <2>7. ASSUME new \in ghost.raised \cup svc.read
          PROVE  FALSE
      <3>1. new.reg <= ghost.regs /\ 0 < new.reg /\ (new.reg = store.reg => new.id <= n)
        BY Zenon, <2>7 DEF IdsOK, n
      <3>2. CASE store.reg = 0
        BY <1>1, <1>5, <2>1, <3>1, <3>2
      <3>3. CASE store.reg # 0
        BY <1>5, <2>1, <2>2, <3>1, <3>3
      <3>4. QED
        BY <3>2, <3>3
    <2>8. QED
      BY Zenon, <1>5, <2>1, <2>4, <2>5, <2>6, <2>7 DEF n
  <1>6. QED
    <2>1. CASE \E new : Adds(d, new, TRUE) /\ Moves(d) /\ d.reg = Row
      BY Zenon, <2>1, <1>5 DEF Row
    <2>2. CASE \E new : Adds(d, new, FALSE) /\ store.reg # 0 /\ d.reg = store.reg
      BY Zenon, <2>2, <1>5
    <2>3. QED
      BY Zenon, <1>3, <1>4, <2>1, <2>2 DEF Committed, Logs

\* A writer may commit between any two reads of the service.
LEMMA CommitOK == IInv /\ Commit => IInv'
  <1> SUFFICES ASSUME IInv, Commit
               PROVE  IInv'
    OBVIOUS
  <1>1. PICK d \in Writes :
           /\ store' = d
           /\ ghost' = [ghost EXCEPT !.regs = Max({@, d.reg}),
                                     !.ids = Max({@, Newest(d.edits)}),
                                     !.same = @ /\ d.has,
                                     !.asked = IF d.reg = 0 THEN 0 ELSE @,
                                     !.unmarked = @ \cup IF d.reg = 0 THEN ghost.raised ELSE {}]
    BY Zenon DEF Commit
  <1>2. svc' = svc /\ recorder' = recorder
    BY Zenon DEF Commit
  <1>3. Committed(d)
    BY Zenon, WritesOK DEF IInv
  <1>4. store \in Database /\ svc \in Loop /\ ghost \in Ghost /\ d \in Database
    BY Zenon, <1>3 DEF IInv, TypesOK, Committed
  <1> DEFINE k == Newest(d.edits)
  <1>5. /\ k \in Nat /\ \A e \in d.edits : e.id <= k
        /\ d.reg # 0 => Newest(store.edits) <= k
        /\ \A e \in d.edits \ store.edits :
              /\ e \notin ghost.raised /\ e \notin svc.read
              /\ e.fresh => e.id > ghost.ids
              /\ e.moved => Moves(d)
              /\ e.reg = d.reg /\ d.reg # 0 /\ 0 < e.id
    BY Zenon, <1>3, CommittedEdits
  <1> HIDE DEF k
  <1>6. PICK regs \in Nat, ids \in Nat :
           /\ regs = Max({ghost.regs, d.reg}) /\ ghost.regs <= regs /\ d.reg <= regs
           /\ ids = Max({ghost.ids, k}) /\ ghost.ids <= ids /\ k <= ids
    <2>1. ghost.regs \in Nat /\ d.reg \in Nat /\ ghost.ids \in Nat
      BY <1>4 DEF Ghost, Database
    <2>2. PICK regs \in Nat : regs = Max({ghost.regs, d.reg}) /\ ghost.regs <= regs /\ d.reg <= regs
      BY Zenon, <2>1, MaxOfTwo
    <2>3. PICK ids \in Nat : ids = Max({ghost.ids, k}) /\ ghost.ids <= ids /\ k <= ids
      BY Zenon, <1>5, <2>1, MaxOfTwo
    <2>4. QED
      BY Zenon, <2>2, <2>3
  <1>7. PICK same \in BOOLEAN : same = (ghost.same /\ d.has)
    BY Zenon
  <1>8. PICK asked \in Nat : asked = IF d.reg = 0 THEN 0 ELSE ghost.asked
    BY <1>4 DEF Ghost
  <1>9. PICK unmarked \in SUBSET Edit :
           unmarked = ghost.unmarked \cup IF d.reg = 0 THEN ghost.raised ELSE {}
    BY Zenon, <1>4 DEF Ghost
  <1>10. ghost' = [ghost EXCEPT !.regs = regs, !.ids = ids, !.same = same, !.asked = asked,
                                !.unmarked = unmarked]
    BY Zenon, <1>1, <1>6, <1>7, <1>8, <1>9 DEF k
  <1>11. ghost' \in Ghost
    BY Zenon, <1>4, <1>10 DEF Ghost
  <1>12. /\ ghost'.regs = regs /\ ghost'.ids = ids /\ ghost'.same = same /\ ghost'.asked = asked
         /\ ghost'.unmarked = unmarked /\ ghost'.raised = ghost.raised /\ ghost'.again = ghost.again
         /\ ghost'.owing = ghost.owing /\ ghost'.stale = ghost.stale /\ ghost'.sent = ghost.sent
         /\ ghost'.stored = ghost.stored /\ ghost'.told = ghost.told
         /\ ghost'.counted = ghost.counted /\ ghost'.lost = ghost.lost
    BY <1>4, <1>10 DEF Ghost
  <1>13. TypesOK'
    BY Zenon, <1>1, <1>2, <1>4, <1>11 DEF TypesOK, IInv
  <1>14. LoopOK'
    BY Zenon, <1>2 DEF LoopOK, IInv
  <1>15. RecorderOK'
    BY Zenon, <1>2, <1>12, RecorderKept DEF Over, IInv
  \* The revision of a project that has a row.
  <1>16. /\ d.reg # 0 => d.rev = d.counter
         /\ d.version >= store.version /\ d.counter >= store.counter
         /\ d.reg # 0 => Moves(d) \/ (Stays(d) /\ store.reg = d.reg)
    <2>1. store.counter \in Nat /\ store.version \in Nat
      BY <1>4 DEF Database
    <2>2. CASE Moves(d)
      BY <2>1, <2>2 DEF Moves
    <2>3. CASE Stays(d) /\ store.reg = d.reg
      BY <2>1, <2>3 DEF Stays, IInv, FreshOK
    <2>4. CASE d.reg = 0 /\ d.counter = store.counter /\ d.version = store.version + 1
      BY <2>1, <2>4
    <2>5. QED
      BY Zenon, <1>3, <2>2, <2>3, <2>4 DEF Committed
  <1>17. /\ svc.rev \in Int /\ svc.got \in Int /\ store.counter \in Nat /\ store.version \in Nat
         /\ d.counter \in Nat /\ d.version \in Nat /\ svc.stack.version \in Nat /\ ghost.asked \in Nat
         /\ store.rev \in Nat /\ d.rev \in Nat
    BY <1>4 DEF Loop, Database, Stack, Ghost
  \* A revision the service knows is not the one a commit moved to.
  <1>18. ASSUME NEW r \in Int, r <= store.counter, d.reg # 0,
                r = (IF d.reg = 0 THEN NoRow ELSE d.rev)
         PROVE  Stays(d) /\ store.reg = d.reg /\ r = StoredRevision
    <2>1. r = d.counter
      BY Zenon, <1>16, <1>18
    <2>2. ~Moves(d)
      BY <1>17, <1>18, <2>1 DEF Moves
    <2>3. QED
      BY Zenon, <1>16, <1>18, <2>2 DEF Stays, StoredRevision
  <1>19. StoredRevision' = IF d.reg = 0 THEN NoRow ELSE d.rev
    BY Zenon, <1>1 DEF StoredRevision
  <1>20. FreshOK'
    <2>1. d.reg # 0 => d.rev = d.counter
      BY Zenon, <1>16
    <2>2. svc.rev <= d.counter /\ svc.got <= d.counter
      BY <1>16, <1>17 DEF IInv, FreshOK
    <2>3. svc.loaded /\ svc.rev = StoredRevision' /\ d.reg # 0 => svc.stack.version >= d.version
      <3>1. svc.rev <= store.counter
        BY Zenon DEF IInv, FreshOK
      <3>2. QED
        BY Zenon, <1>17, <1>18, <1>19, <3>1 DEF IInv, FreshOK, Stays
    <2>4. ~svc.loaded /\ svc.at \in {"ends", "edits", "mark"} /\ svc.got = StoredRevision' /\ d.reg # 0 =>
             svc.stack.version >= d.version
      <3>1. svc.got <= store.counter
        BY Zenon DEF IInv, FreshOK
      <3>2. QED
        BY Zenon, <1>17, <1>18, <1>19, <3>1 DEF IInv, FreshOK, Stays
    <2>5. asked <= d.version /\ (asked # 0 => d.reg # 0)
      BY <1>8, <1>16, <1>17 DEF IInv, FreshOK
    <2>6. svc.task = "request" /\ svc.at \in {"ends", "edits", "mark"} => asked <= svc.stack.version
      BY <1>8, <1>17 DEF IInv, FreshOK
    <2>7. QED
      BY ZenonT(60), <1>1, <1>2, <1>12, <2>1, <2>2, <2>3, <2>4, <2>5, <2>6 DEF IInv, FreshOK
  <1>21. EndsOK'
    <2>1. (d.has => d.ended = store.ended) /\ (d.ended => d.has)
      BY Zenon, <1>3 DEF Committed
    <2>2. HasStack' = HasStack /\ Done' = Done
      BY Zenon, <1>2, <1>12 DEF HasStack, Done
    <2>3. (same => ghost.same /\ d.has)
      BY Zenon, <1>7
    <2>4. QED
      BY Zenon, <1>1, <1>2, <1>12, <2>1, <2>2, <2>3 DEF IInv, EndsOK
  <1>22. IdsOK'
    <2>1. d.reg <= regs /\ (d.has => d.reg # 0) /\ (d.reg = 0 => d.edits = {})
      <3>1. d.reg <= regs
        BY Zenon, <1>6
      <3>2. ghost.regs \in Nat /\ store.reg \in Nat /\ d.reg \in Nat
        BY <1>4 DEF Ghost, Database
      <3>3. Row # 0
        BY <3>2 DEF Row
      <3>4. QED
        BY Zenon, <1>3, <3>1, <3>3 DEF Committed
    <2>2. \A e \in d.edits : e.reg = d.reg
      <3>1. store.edits # {} => store.reg # 0
        BY Zenon DEF IInv, IdsOK
      <3>2. store.reg # 0 /\ d.reg # 0 => d.reg = store.reg
        BY Zenon, <1>3 DEF Committed, Row
      <3>3. \A e \in store.edits : e.reg = store.reg
        BY Zenon DEF IInv, IdsOK
      <3>4. QED
        BY Zenon, <1>5, <2>1, <3>1, <3>2, <3>3
    <2>3. ASSUME NEW e \in d.edits \cup svc.read \cup ghost.raised
          PROVE  0 < e.id /\ e.id <= ids /\ 0 < e.reg /\ e.reg <= regs
      <3>1. e \in Edit
        BY <1>4, <2>3 DEF Database, Loop, Ghost
      <3>2. CASE e \in store.edits \cup svc.read \cup ghost.raised
        <4>1. 0 < e.id /\ e.id <= ghost.ids /\ 0 < e.reg /\ e.reg <= ghost.regs
          BY Zenon, <3>2 DEF IInv, IdsOK
        <4>2. ghost.ids \in Nat /\ ghost.regs \in Nat /\ e.id \in Nat /\ e.reg \in Nat
          BY ZenonT(60), <1>4, <3>1 DEF Ghost, Edit
        <4>3. QED
          BY <1>6, <4>1, <4>2
      <3>3. CASE e \in d.edits \ store.edits
        <4>1. e.reg = d.reg /\ d.reg # 0 /\ 0 < e.id /\ e.id <= k
          BY Zenon, <1>5, <3>3
        <4>2. e.id \in Nat /\ d.reg \in Nat
          BY Zenon, <1>4, <3>1 DEF Edit, Database
        <4>3. QED
          BY <1>5, <1>6, <4>1, <4>2
      <3>4. QED
        BY ZenonT(60), <2>3, <3>2, <3>3
    <2>4. ASSUME NEW e \in svc.read \cup ghost.raised, e.reg = d.reg
          PROVE  e.id <= k
      <3>1. 0 < e.reg /\ e.reg <= ghost.regs /\ (e.reg = store.reg => e.id <= Newest(store.edits))
        BY Zenon DEF IInv, IdsOK
      <3>2. ghost.regs \in Nat /\ store.reg \in Nat /\ e.id \in Nat /\ e.reg \in Nat
        BY <1>4 DEF Ghost, Database, Loop, Edit
      <3>3. d.reg # 0 /\ d.reg # ghost.regs + 1
        BY <2>4, <3>1, <3>2
      <3>4. d.reg = store.reg
        BY Zenon, <1>3, <3>3 DEF Committed, Row
      <3>5. Newest(store.edits) \in Nat
        <4>1. \A f \in store.edits : f.id <= ghost.ids
          BY Zenon DEF IInv, IdsOK
        <4>2. store.edits \in SUBSET Edit /\ ghost.ids \in Nat
          BY <1>4 DEF Ghost, Database
        <4>3. QED
          BY ZenonT(60), <4>1, <4>2, NewestOf
      <3>6. e.id <= Newest(store.edits) /\ Newest(store.edits) <= k
        BY Zenon, <1>5, <2>4, <3>1, <3>3, <3>4
      <3>7. QED
        BY <1>5, <3>2, <3>5, <3>6
    <2>5. QED
      BY ZenonT(60), <1>1, <1>2, <1>12, <2>1, <2>2, <2>3, <2>4 DEF IInv, IdsOK, k
  <1>23. MarksOK'
    <2>1. d.raised \in {store.raised, 0}
      BY Zenon, <1>3 DEF Committed
    <2>2. QED
      BY ZenonT(60), <1>1, <1>2, <1>5, <1>6, <1>12, <1>13, <1>22, <2>1, MarksKept
  <1>24. EditsOK'
    <2>1. ASSUME NEW r \in Int, r <= store.counter, r = StoredRevision', NEW e \in d.edits
          PROVE  (e \in store.edits /\ r = StoredRevision) \/ ~e.moved
      <3>1. d.reg # 0
        BY Zenon, <2>1, <1>1, <1>22 DEF IdsOK
      <3>2. Stays(d) /\ r = StoredRevision
        BY Zenon, <1>18, <1>19, <2>1, <3>1
      <3>3. ~Moves(d)
        BY <1>17, <3>2 DEF Moves, Stays
      <3>4. QED
        BY Zenon, <1>5, <3>2, <3>3
    <2>2. svc.rev \in Int /\ svc.rev <= store.counter /\ svc.got \in Int /\ svc.got <= store.counter
      BY Zenon, <1>17 DEF IInv, FreshOK
    <2>3. svc.loaded /\ ~ghost.owing /\ svc.rev = StoredRevision'
          /\ svc.at \in {"idle", "compare", "revision", "stack"} => \A e \in d.edits : Announced(e)
      BY Zenon, <2>1, <2>2 DEF IInv, EditsOK, Announced
    <2>4. svc.at = "mark" /\ StoredRevision' = (IF svc.loaded THEN svc.rev ELSE svc.got) =>
             \A e \in d.edits : e \in svc.read \/ Announced(e)
      <3>1. PICK r \in Int : r = (IF svc.loaded THEN svc.rev ELSE svc.got) /\ r <= store.counter
        BY Zenon, <2>2
      <3>2. QED
        BY Zenon, <2>1, <3>1 DEF IInv, EditsOK, Announced
    <2>5. ASSUME svc.at = "mark", NEW e \in d.edits
          PROVE  /\ e.fresh => e \in svc.read \/ \A f \in svc.read : f.id < e.id
                 /\ e \in ghost.raised => e \in svc.read
      <3>1. CASE e \in store.edits
        BY Zenon, <2>5, <3>1 DEF IInv, EditsOK
      <3>2. CASE e \notin store.edits
        <4>1. e \notin ghost.raised /\ (e.fresh => e.id > ghost.ids)
          BY Zenon, <1>5, <3>2
        <4>2. ASSUME NEW f \in svc.read, e.id > ghost.ids
              PROVE  f.id < e.id
          <5>1. f.id <= ghost.ids
            BY Zenon DEF IInv, IdsOK
          <5>2. f.id \in Nat /\ e.id \in Nat /\ ghost.ids \in Nat
            BY <1>4 DEF Loop, Database, Edit, Ghost
          <5>3. QED
            BY <4>2, <5>1, <5>2
        <4>3. QED
          BY Zenon, <4>1, <4>2
      <3>3. QED
        BY <3>1, <3>2
    <2>6. ASSUME svc.up, NEW e \in (ghost.raised \ unmarked) \cap (d.edits \cup svc.read)
          PROVE  e.id <= (IF svc.mark # 0 THEN svc.mark ELSE d.raised)
      <3>1. d.reg # 0 /\ e \in ghost.raised \ ghost.unmarked
        BY Zenon, <1>9
      <3>2. d.raised = store.raised /\ e \in store.edits \cup svc.read
        BY Zenon, <1>3, <1>5, <3>1 DEF Committed
      <3>3. QED
        BY ZenonT(60), <2>6, <3>1, <3>2 DEF IInv, EditsOK
    <2>7. ghost.again \subseteq unmarked
      BY Zenon, <1>9 DEF IInv, EditsOK
    <2>8. \A e : Announced(e)' <=> Announced(e)
      BY Zenon, <1>12 DEF Announced
    <2>9. QED
      BY ZenonT(60), <1>1, <1>2, <1>12, <2>3, <2>4, <2>5, <2>6, <2>7, <2>8 DEF EditsOK
  <1>25. QED
    BY ZenonT(60), <1>13, <1>14, <1>15, <1>20, <1>21, <1>22, <1>23, <1>24 DEF IInv

-----------------------------------------------------------------------------
(* The service's loop. *)

\* Only a service that is up is in a handler.
LEMMA BusyIsUp == IInv /\ svc.at # "idle" => svc.up
  BY DEF IInv, LoopOK, Down, Unloaded

\* The stored revision is not ahead of the counter.
LEMMA RevisionOK == IInv => StoredRevision \in Int /\ StoredRevision <= store.counter
  BY DEF IInv, TypesOK, Database, FreshOK, StoredRevision, NoRow

\* A step of the loop that only reads the store.
LEMMA LoopStep ==
    ASSUME IInv, TypesOK', store' = store, recorder' = recorder, ghost'.sent = ghost.sent, Over' = Over,
           ghost'.regs = ghost.regs, ghost'.ids = ghost.ids, ghost'.raised = ghost.raised,
           svc'.mark \in {svc.mark, 0}, svc'.read \subseteq store.edits \cup svc.read,
           svc'.at # "mark" => svc'.read = {}
    PROVE  RecorderOK' /\ IdsOK' /\ MarksOK'
  <1>1. RecorderOK'
    BY Zenon, RecorderKept DEF IInv
  <1>2. \A e \in store.edits : e.id <= Newest(store.edits)
    <2>1. \A e \in store.edits : e.id <= ghost.ids
      BY Zenon DEF IInv, IdsOK
    <2>2. store.edits \in SUBSET Edit /\ ghost.ids \in Nat
      BY DEF IInv, TypesOK, Ghost, Database
    <2>3. QED
      BY Zenon, <2>1, <2>2, NewestOf
  <1>3. \A e \in svc'.read \cup ghost.raised : e.reg = store.reg => e.id <= Newest(store.edits)
    BY Zenon, <1>2 DEF IInv, IdsOK
  <1>4. IdsOK'
    BY Zenon, <1>3 DEF IInv, IdsOK
  <1>5. ghost.ids <= ghost'.ids
    BY DEF IInv, TypesOK, Ghost
  <1>6. MarksOK'
    BY Zenon, <1>4, <1>5, MarksKept
  <1>7. QED
    BY <1>1, <1>4, <1>6

\* A handler of a changed stack begins.
LEMMA StackChangedOK == IInv /\ StackChanged => IInv'
  <1> SUFFICES ASSUME IInv, StackChanged
               PROVE  IInv'
    OBVIOUS
  <1>1. svc.up /\ svc.loaded /\ svc.at = "idle" /\ store' = store /\ recorder' = recorder /\ ghost' = ghost
    BY Zenon DEF StackChanged, Resting
  <1>2. svc \in Loop /\ store \in Database
    BY Zenon DEF IInv, TypesOK
  <1>3. svc' \in Loop
    BY Zenon, <1>2 DEF StackChanged, Loop, Database
  <1>4. /\ svc'.up = svc.up /\ svc'.loaded = svc.loaded /\ svc'.rev = svc.rev
        /\ svc'.stack = svc.stack /\ svc'.mark = svc.mark /\ svc'.unregistered = svc.unregistered
        /\ svc'.shows = svc.shows /\ svc'.at = "revision" /\ svc'.task = "change"
        /\ svc'.got = svc.got /\ svc'.read = svc.read
    BY Zenon, <1>2 DEF StackChanged, Loop
  <1>5. TypesOK'
    BY Zenon, <1>1, <1>3 DEF IInv, TypesOK
  <1>6. LoopOK'
    BY Zenon, <1>1, <1>4 DEF IInv, LoopOK
  <1>7. RecorderOK' /\ IdsOK' /\ MarksOK'
    BY Zenon, <1>1, <1>4, <1>5, LoopStep DEF Over, IInv, IdsOK
  <1>8. StoredRevision' = StoredRevision /\ Done' = Done
    BY Zenon, <1>1 DEF StoredRevision, Done
  <1>9. FreshOK'
    BY Zenon, <1>1, <1>4, <1>8 DEF IInv, FreshOK
  <1>10. EndsOK'
    BY Zenon, <1>1, <1>4, <1>8 DEF IInv, EndsOK, HasStack
  <1>11. EditsOK'
    BY ZenonT(60), <1>1, <1>4, <1>8 DEF IInv, EditsOK, Announced, IdsOK
  <1>12. QED
    BY ZenonT(60), <1>5, <1>6, <1>7, <1>9, <1>10, <1>11 DEF IInv

\* A handler of changed settings begins.
LEMMA SettingsChangedOK == IInv /\ SettingsChanged => IInv'
  <1> SUFFICES ASSUME IInv, SettingsChanged
               PROVE  IInv'
    OBVIOUS
  <1>1. svc.up /\ svc.loaded /\ svc.at = "idle" /\ store' = store /\ recorder' = recorder /\ ghost' = ghost
    BY Zenon DEF SettingsChanged, Resting
  <1>2. svc \in Loop /\ store \in Database
    BY Zenon DEF IInv, TypesOK
  <1>3. svc' \in Loop
    BY Zenon, <1>2 DEF SettingsChanged, Loop, Database
  <1>4. /\ svc'.up = svc.up /\ svc'.loaded = svc.loaded /\ svc'.rev = svc.rev
        /\ svc'.stack = svc.stack /\ svc'.mark = svc.mark /\ svc'.unregistered = svc.unregistered
        /\ svc'.shows = svc.shows /\ svc'.at = "edits" /\ svc'.task = "settings"
        /\ svc'.got = svc.got /\ svc'.read = svc.read
    BY Zenon, <1>2 DEF SettingsChanged, Loop
  <1>5. TypesOK'
    BY Zenon, <1>1, <1>3 DEF IInv, TypesOK
  <1>6. LoopOK'
    BY Zenon, <1>1, <1>4 DEF IInv, LoopOK
  <1>7. RecorderOK' /\ IdsOK' /\ MarksOK'
    BY Zenon, <1>1, <1>4, <1>5, LoopStep DEF Over, IInv, IdsOK
  <1>8. StoredRevision' = StoredRevision /\ Done' = Done
    BY Zenon, <1>1 DEF StoredRevision, Done
  <1>9. FreshOK'
    BY Zenon, <1>1, <1>4, <1>8 DEF IInv, FreshOK
  <1>10. EndsOK'
    BY Zenon, <1>1, <1>4, <1>8 DEF IInv, EndsOK, HasStack
  <1>11. EditsOK'
    BY Zenon, <1>1, <1>4, <1>8 DEF IInv, EditsOK, Announced, IdsOK
  <1>12. QED
    BY Zenon, <1>5, <1>6, <1>7, <1>9, <1>10, <1>11 DEF IInv

\* The revision is read before the stack.
LEMMA ReadRevisionOK == IInv /\ ReadRevision => IInv'
  <1> SUFFICES ASSUME IInv, ReadRevision
               PROVE  IInv'
    OBVIOUS
  <1>1. svc.up /\ svc.at = "revision" /\ store' = store /\ recorder' = recorder /\ ghost' = ghost
    BY Zenon, BusyIsUp DEF ReadRevision
  <1>2. svc \in Loop /\ StoredRevision \in Int /\ StoredRevision <= store.counter
    BY Zenon, RevisionOK DEF IInv, TypesOK
  <1>3. svc' \in Loop
    BY Zenon, <1>2 DEF ReadRevision, Loop
  <1>4. /\ svc'.up = svc.up /\ svc'.loaded = svc.loaded /\ svc'.rev = svc.rev
        /\ svc'.stack = svc.stack /\ svc'.mark = svc.mark /\ svc'.unregistered = svc.unregistered
        /\ svc'.shows = svc.shows /\ svc'.at = "stack" /\ svc'.task = svc.task
        /\ svc'.got = StoredRevision /\ svc'.read = svc.read
    BY <1>2 DEF ReadRevision, Loop
  <1>5. TypesOK'
    BY Zenon, <1>1, <1>3 DEF IInv, TypesOK
  <1>6. LoopOK'
    BY Zenon, <1>1, <1>4 DEF IInv, LoopOK
  <1>7. RecorderOK' /\ IdsOK' /\ MarksOK'
    BY Zenon, <1>1, <1>4, <1>5, LoopStep DEF Over, IInv, IdsOK
  <1>8. StoredRevision' = StoredRevision /\ Done' = Done
    BY Zenon, <1>1 DEF StoredRevision, Done
  <1>9. FreshOK'
    BY Zenon, <1>1, <1>2, <1>4, <1>8 DEF IInv, FreshOK
  <1>10. EndsOK'
    BY Zenon, <1>1, <1>4, <1>8 DEF IInv, EndsOK, HasStack
  <1>11. EditsOK'
    BY Zenon, <1>1, <1>4, <1>8 DEF IInv, EditsOK, Announced, IdsOK
  <1>12. QED
    BY Zenon, <1>5, <1>6, <1>7, <1>9, <1>10, <1>11 DEF IInv

\* A load restores the end that is stored.
LEMMA ReadEndsOK == IInv /\ ReadEnds => IInv'
  <1> SUFFICES ASSUME IInv, ReadEnds
               PROVE  IInv'
    OBVIOUS
  <1>1. svc.up /\ svc.at = "ends" /\ store' = store /\ recorder' = recorder /\ ghost' = ghost
    BY Zenon, BusyIsUp DEF ReadEnds
  <1>2. svc \in Loop /\ store \in Database
    BY Zenon DEF IInv, TypesOK
  <1>3. svc' \in Loop
    BY Zenon, <1>2 DEF ReadEnds, Loop, Database, RestoreEnds
  <1>4. /\ svc'.up = svc.up /\ svc'.loaded = svc.loaded /\ svc'.rev = svc.rev
        /\ svc'.stack = svc.stack /\ svc'.mark = svc.mark /\ svc'.unregistered = svc.unregistered
        /\ svc'.shows = (svc.stack.has /\ store.ended) /\ svc'.at = "edits" /\ svc'.task = svc.task
        /\ svc'.got = svc.got /\ svc'.read = svc.read
    BY <1>2 DEF ReadEnds, Loop, RestoreEnds
  <1>5. TypesOK'
    BY Zenon, <1>1, <1>3 DEF IInv, TypesOK
  <1>6. LoopOK'
    BY Zenon, <1>1, <1>4 DEF IInv, LoopOK
  <1>7. RecorderOK' /\ IdsOK' /\ MarksOK'
    BY Zenon, <1>1, <1>4, <1>5, LoopStep DEF Over, IInv, IdsOK
  <1>8. StoredRevision' = StoredRevision /\ Done' = Done
    BY Zenon, <1>1 DEF StoredRevision, Done
  <1>9. FreshOK'
    BY Zenon, <1>1, <1>4, <1>8 DEF IInv, FreshOK
  <1>10. EndsOK'
    <2>1. ASSUME ghost.same
          PROVE  Coming(recorder.queue, recorder.hand, svc'.shows, store.ended)
      <3>1. recorder.pending = 0 /\ (store.ended => svc.stack.has)
        BY Zenon, <1>1, <2>1 DEF IInv, EndsOK
      <3>2. recorder.hand = Nothing
        BY <3>1 DEF IInv, RecorderOK, InHand
      <3>3. InHand = 0 /\ recorder.flush = "no"
        BY Zenon, <1>1, <3>2 DEF InHand, IInv, LoopOK
      <3>4. Queued(recorder.queue, 0 - 0, Done + InHand, "no")
        BY Zenon, <3>1, <3>3 DEF IInv, RecorderOK
      <3>5. Len(recorder.queue) = 0
        BY <3>4 DEF Queued
      <3>6. \A i \in 1..Len(recorder.queue) : FALSE
        BY <3>5
      <3>7. store.ended \in BOOLEAN /\ svc.stack.has \in BOOLEAN
        BY <1>2 DEF Database, Loop, Stack
      <3>8. svc'.shows = store.ended
        BY Zenon, <1>4, <3>1, <3>7
      <3>9. QED
        BY Zenon, <3>2, <3>6, <3>8 DEF Coming, IsEnd
    <2>2. svc'.shows => svc.stack.has
      BY Zenon, <1>4
    <2>3. QED
      BY Zenon, <1>1, <1>4, <1>8, <2>1, <2>2 DEF IInv, EndsOK, HasStack
  <1>11. EditsOK'
    BY ZenonT(60), <1>1, <1>4, <1>8 DEF IInv, EditsOK, Announced, IdsOK
  <1>12. QED
    BY Zenon, <1>5, <1>6, <1>7, <1>9, <1>10, <1>11 DEF IInv

\* The edits are read after the stack.
LEMMA ReadEditsOK == IInv /\ ReadEdits => IInv'
  <1> SUFFICES ASSUME IInv, ReadEdits
               PROVE  IInv'
    OBVIOUS
  <1>1. svc.up /\ svc.at = "edits" /\ store' = store /\ recorder' = recorder /\ ghost' = ghost
    BY Zenon, BusyIsUp DEF ReadEdits
  <1>2. svc \in Loop /\ store \in Database
    BY Zenon DEF IInv, TypesOK
  <1>3. svc' \in Loop
    BY Zenon, <1>2 DEF ReadEdits, Loop, Database
  <1>4. /\ svc'.up = svc.up /\ svc'.loaded = svc.loaded /\ svc'.rev = svc.rev
        /\ svc'.stack = svc.stack /\ svc'.mark = svc.mark /\ svc'.unregistered = svc.unregistered
        /\ svc'.shows = svc.shows /\ svc'.at = "mark" /\ svc'.task = svc.task /\ svc'.got = svc.got
        /\ svc'.read = store.edits
    BY <1>2 DEF ReadEdits, Loop
  <1>5. TypesOK'
    BY Zenon, <1>1, <1>3 DEF IInv, TypesOK
  <1>6. LoopOK'
    BY Zenon, <1>1, <1>4 DEF IInv, LoopOK
  <1>7. RecorderOK' /\ IdsOK' /\ MarksOK'
    BY Zenon, <1>1, <1>4, <1>5, LoopStep DEF Over, IInv, IdsOK
  <1>8. StoredRevision' = StoredRevision /\ Done' = Done
    BY Zenon, <1>1 DEF StoredRevision, Done
  <1>9. FreshOK'
    BY Zenon, <1>1, <1>4, <1>8 DEF IInv, FreshOK
  <1>10. EndsOK'
    BY Zenon, <1>1, <1>4, <1>8 DEF IInv, EndsOK, HasStack
  <1>11. EditsOK'
    BY Zenon, <1>1, <1>4, <1>8 DEF IInv, EditsOK, Announced, IdsOK
  <1>12. QED
    BY Zenon, <1>5, <1>6, <1>7, <1>9, <1>10, <1>11 DEF IInv

\* A finished handler leaves the place, and keeps what it applied.
LEMMA FinishOK ==
    ASSUME NEW v \in Loop
    PROVE  LET f == Finish(v)
           IN  /\ f \in Loop
               /\ f.up = v.up /\ f.loaded = v.loaded /\ f.rev = v.rev /\ f.stack = v.stack /\ f.mark = v.mark
               /\ f.unregistered = v.unregistered /\ f.shows = v.shows /\ f.at = "idle" /\ f.task = "none"
               /\ f.got = NoRow /\ f.read = {}
  <1> DEFINE f == Finish(v)
  <1>1. f \in Loop
    <2>1. PICK n \in Int : n = NoRow
      BY DEF NoRow
    <2>2. f = [v EXCEPT !.at = "idle", !.task = "none", !.got = n, !.read = {}]
      BY Zenon, <2>1 DEF Finish
    <2>3. QED
      BY ZenonT(60), <2>2 DEF Loop
  <1>2. /\ f.up = v.up /\ f.loaded = v.loaded /\ f.rev = v.rev /\ f.stack = v.stack /\ f.mark = v.mark
        /\ f.unregistered = v.unregistered /\ f.shows = v.shows /\ f.at = "idle" /\ f.task = "none"
        /\ f.got = NoRow /\ f.read = {}
    BY DEF Finish, Loop
  <1> HIDE DEF f
  <1>3. QED
    BY Zenon, <1>1, <1>2 DEF f

\* A service that has not loaded the project has nothing of it.
LEMMA UnloadedOK ==
    /\ Unloaded \in Loop /\ Down \in Loop
    /\ Unloaded.up = TRUE /\ Down.up = FALSE
    /\ \A v \in {Unloaded, Down} :
          /\ v.loaded = FALSE /\ v.rev = NoRow /\ v.mark = 0 /\ v.shows = FALSE
          /\ v.at = "idle" /\ v.task = "none" /\ v.got = NoRow /\ v.read = {}
  <1>1. Unloaded \in Loop
    BY DEF Unloaded, Loop, Stack, NoRow
  <1>2. Down \in Loop
    BY ZenonT(60), <1>1 DEF Down, Loop
  <1>3. QED
    BY <1>1, <1>2 DEF Unloaded, Down

\* A request is answered from a stack no older than asked for.
LEMMA AnsweredOK ==
    ASSUME NEW g \in Ghost, NEW v \in Loop, ~g.stale,
           svc.task = "request" => g.asked <= v.stack.version
    PROVE  LET a == Answered(g, v)
           IN  /\ a \in Ghost /\ ~a.stale /\ a.asked = (IF svc.task = "request" THEN 0 ELSE g.asked)
               /\ a.regs = g.regs /\ a.ids = g.ids /\ a.raised = g.raised /\ a.again = g.again
               /\ a.unmarked = g.unmarked /\ a.owing = g.owing /\ a.same = g.same /\ a.sent = g.sent
               /\ a.stored = g.stored /\ a.told = g.told /\ a.counted = g.counted /\ a.lost = g.lost
  <1>1. CASE svc.task # "request"
    <2>1. Answered(g, v) = g
      BY Zenon, <1>1 DEF Answered
    <2>2. QED
      BY Zenon, <1>1, <2>1
  <1>2. CASE svc.task = "request"
    <2>1. ~(v.stack.version < g.asked)
      BY <1>2 DEF Ghost, Loop, Stack
    <2>2. PICK b \in BOOLEAN : b = (g.stale \/ v.stack.version < g.asked) /\ ~b
      BY Zenon, <2>1
    <2> DEFINE a == [g EXCEPT !.asked = 0, !.stale = b]
    <2>3. Answered(g, v) = a
      BY Zenon, <1>2, <2>2 DEF Answered
    <2>4. a \in Ghost
      BY Zenon DEF Ghost
    <2>5. /\ ~a.stale /\ a.asked = 0
          /\ a.regs = g.regs /\ a.ids = g.ids /\ a.raised = g.raised /\ a.again = g.again
          /\ a.unmarked = g.unmarked /\ a.owing = g.owing /\ a.same = g.same /\ a.sent = g.sent
          /\ a.stored = g.stored /\ a.told = g.told /\ a.counted = g.counted /\ a.lost = g.lost
      BY <2>2 DEF Ghost
    <2> HIDE DEF a
    <2>6. QED
      BY Zenon, <1>2, <2>3, <2>4, <2>5
  <1>3. QED
    BY <1>1, <1>2

\* A request begins, and notes the version stored.
LEMMA RequestOK == IInv /\ Request => IInv'
  <1> SUFFICES ASSUME IInv, Request
               PROVE  IInv'
    OBVIOUS
  <1>1. svc.up /\ svc.at = "idle" /\ store' = store /\ recorder' = recorder
    BY Zenon DEF Request, Resting
  <1>2. svc \in Loop /\ store \in Database /\ ghost \in Ghost
    BY Zenon DEF IInv, TypesOK
  <1>3. svc' \in Loop
    BY Zenon, <1>2 DEF Request, Loop
  <1>4. /\ svc'.up = svc.up /\ svc'.loaded = svc.loaded /\ svc'.rev = svc.rev
        /\ svc'.stack = svc.stack /\ svc'.mark = svc.mark /\ svc'.unregistered = svc.unregistered
        /\ svc'.shows = svc.shows /\ svc'.at = (IF svc.loaded THEN "compare" ELSE "revision")
        /\ svc'.task = "request" /\ svc'.got = svc.got /\ svc'.read = svc.read
    BY <1>2 DEF Request, Loop
  <1>5. PICK asked \in Nat : asked = IF store.reg = 0 THEN 0 ELSE store.version
    BY <1>2 DEF Database
  <1>6. ghost' = [ghost EXCEPT !.asked = asked]
    BY Zenon, <1>5 DEF Request
  <1>7. ghost' \in Ghost
    BY <1>2, <1>6 DEF Ghost
  <1>8. /\ ghost'.regs = ghost.regs /\ ghost'.ids = ghost.ids /\ ghost'.raised = ghost.raised
        /\ ghost'.again = ghost.again /\ ghost'.unmarked = ghost.unmarked
        /\ ghost'.owing = ghost.owing /\ ghost'.asked = asked /\ ghost'.stale = ghost.stale
        /\ ghost'.same = ghost.same /\ ghost'.sent = ghost.sent /\ ghost'.stored = ghost.stored
        /\ ghost'.told = ghost.told /\ ghost'.counted = ghost.counted /\ ghost'.lost = ghost.lost
    BY <1>2, <1>6 DEF Ghost
  <1>9. TypesOK'
    BY Zenon, <1>1, <1>3, <1>7 DEF IInv, TypesOK
  <1>10. LoopOK'
    BY Zenon, <1>1, <1>4 DEF IInv, LoopOK
  <1>11. RecorderOK' /\ IdsOK' /\ MarksOK'
    BY ZenonT(60), <1>1, <1>4, <1>8, <1>9, LoopStep DEF Over, IInv, IdsOK
  <1>12. StoredRevision' = StoredRevision /\ Done' = Done
    BY Zenon, <1>1, <1>8 DEF StoredRevision, Done
  <1>13. FreshOK'
    <2>1. asked <= store.version /\ (asked # 0 => store.reg # 0)
      BY <1>2, <1>5 DEF Database
    <2>2. QED
      BY Zenon, <1>1, <1>4, <1>8, <1>12, <2>1 DEF IInv, FreshOK
  <1>14. EndsOK'
    BY Zenon, <1>1, <1>4, <1>8, <1>12 DEF IInv, EndsOK, HasStack
  <1>15. EditsOK'
    BY ZenonT(60), <1>1, <1>4, <1>8, <1>12 DEF IInv, EditsOK, Announced, IdsOK
  <1>16. QED
    BY ZenonT(60), <1>9, <1>10, <1>11, <1>13, <1>14, <1>15 DEF IInv

\* A stack of the stored revision needs no reading.
LEMMA RefreshStackOK == IInv /\ RefreshStack => IInv'
  <1> SUFFICES ASSUME IInv, RefreshStack
               PROVE  IInv'
    OBVIOUS
  <1>1. svc.up /\ svc.loaded /\ svc.at = "compare" /\ svc.task = "request" /\ store' = store /\ recorder' = recorder
    BY Zenon, BusyIsUp DEF RefreshStack, IInv, LoopOK
  <1>2. svc \in Loop /\ store \in Database /\ ghost \in Ghost
    BY Zenon DEF IInv, TypesOK
  <1>3. StoredRevision' = StoredRevision
    BY Zenon, <1>1 DEF StoredRevision
  <1>4. CASE StoredRevision = svc.rev
    <2>1. svc' = Finish(svc) /\ ghost' = Answered(ghost, svc)
      BY Zenon, <1>4 DEF RefreshStack
    <2>2. svc' \in Loop
      BY Zenon, <1>2, <2>1, FinishOK
    <2>3. /\ svc'.up = svc.up /\ svc'.loaded = svc.loaded /\ svc'.rev = svc.rev
          /\ svc'.stack = svc.stack /\ svc'.mark = svc.mark /\ svc'.unregistered = svc.unregistered
          /\ svc'.shows = svc.shows /\ svc'.at = "idle" /\ svc'.task = "none" /\ svc'.got = NoRow
          /\ svc'.read = {}
      BY Zenon, <1>2, <2>1, FinishOK
    <2>4. ~ghost.stale /\ ghost.asked <= svc.stack.version
      <3>1. ghost.asked <= store.version /\ ghost.asked \in Nat /\ store.version \in Nat /\ svc.stack.version \in Nat
        BY <1>2 DEF Ghost, Database, Loop, Stack, IInv, FreshOK
      <3>2. ghost.asked # 0 => svc.stack.version >= store.version
        BY Zenon, <1>1, <1>4 DEF IInv, FreshOK
      <3>3. ghost.asked <= svc.stack.version
        BY <3>1, <3>2
      <3>4. QED
        BY Zenon, <3>3 DEF IInv, FreshOK
    <2>5. /\ ghost' \in Ghost /\ ~ghost'.stale /\ ghost'.asked = 0
          /\ ghost'.regs = ghost.regs /\ ghost'.ids = ghost.ids /\ ghost'.raised = ghost.raised
          /\ ghost'.again = ghost.again /\ ghost'.unmarked = ghost.unmarked
          /\ ghost'.owing = ghost.owing /\ ghost'.same = ghost.same /\ ghost'.sent = ghost.sent
          /\ ghost'.stored = ghost.stored /\ ghost'.told = ghost.told
          /\ ghost'.counted = ghost.counted /\ ghost'.lost = ghost.lost
      BY ZenonT(60), <1>1, <1>2, <2>1, <2>4, AnsweredOK
    <2>6. TypesOK'
      BY Zenon, <1>1, <2>2, <2>5 DEF IInv, TypesOK
    <2>7. LoopOK'
      BY Zenon, <1>1, <2>3 DEF IInv, LoopOK
    <2>8. RecorderOK' /\ IdsOK' /\ MarksOK'
      BY ZenonT(60), <1>1, <2>3, <2>5, <2>6, LoopStep DEF Over
    <2>9. Done' = Done
      BY Zenon, <1>1, <2>5 DEF Done
    <2>10. FreshOK'
      <3>1. NoRow <= store.counter /\ 0 <= store.version
        BY <1>2 DEF Database, NoRow
      <3>2. QED
        BY Zenon, <1>1, <1>3, <2>3, <2>5, <3>1 DEF IInv, FreshOK
    <2>11. EndsOK'
      BY Zenon, <1>1, <2>3, <2>5, <2>9 DEF IInv, EndsOK, HasStack
    <2>12. EditsOK'
      BY ZenonT(60), <1>1, <1>3, <2>3, <2>5 DEF IInv, EditsOK, Announced, IdsOK
    <2>13. QED
      BY Zenon, <2>6, <2>7, <2>8, <2>10, <2>11, <2>12 DEF IInv
  <1>5. CASE StoredRevision # svc.rev
    <2>1. svc' = [svc EXCEPT !.at = "revision"] /\ ghost' = ghost
      BY Zenon, <1>5 DEF RefreshStack
    <2>2. svc' \in Loop
      BY <1>2, <2>1 DEF Loop
    <2>3. /\ svc'.up = svc.up /\ svc'.loaded = svc.loaded /\ svc'.rev = svc.rev
          /\ svc'.stack = svc.stack /\ svc'.mark = svc.mark /\ svc'.unregistered = svc.unregistered
          /\ svc'.shows = svc.shows /\ svc'.at = "revision" /\ svc'.task = svc.task
          /\ svc'.got = svc.got /\ svc'.read = svc.read
      BY <1>2, <2>1 DEF Loop
    <2>4. TypesOK'
      BY Zenon, <1>1, <2>1, <2>2 DEF IInv, TypesOK
    <2>5. LoopOK'
      BY Zenon, <1>1, <2>3 DEF IInv, LoopOK
    <2>6. RecorderOK' /\ IdsOK' /\ MarksOK'
      BY Zenon, <1>1, <2>1, <2>3, <2>4, LoopStep DEF Over, IInv, IdsOK
    <2>7. Done' = Done
      BY Zenon, <1>1, <2>1 DEF Done
    <2>8. FreshOK'
      BY Zenon, <1>1, <1>3, <2>1, <2>3 DEF IInv, FreshOK
    <2>9. EndsOK'
      BY Zenon, <1>1, <2>1, <2>3, <2>7 DEF IInv, EndsOK, HasStack
    <2>10. EditsOK'
      BY ZenonT(60), <1>1, <1>3, <2>1, <2>3 DEF IInv, EditsOK, Announced, IdsOK
    <2>11. QED
      BY Zenon, <2>4, <2>5, <2>6, <2>8, <2>9, <2>10 DEF IInv
  <1>6. QED
    BY <1>4, <1>5

\* The records owed are those sent last.
LEMMA NumbersOwed == TypesOK /\ RecorderOK => Numbers = (Done + 1)..ghost.sent
  <1> SUFFICES ASSUME TypesOK, RecorderOK
               PROVE  Numbers = (Done + 1)..ghost.sent
    OBVIOUS
  <1> DEFINE q == recorder.queue
             n == recorder.pending - InHand
             k == Done + InHand
             owed == {i \in DOMAIN q : q[i].kind # "flush"}
  <1>1. /\ recorder.pending \in Nat /\ ghost.sent \in Nat /\ InHand \in {0, 1} /\ Done \in Int
        /\ q \in Seq(Record \cup {FlushRecord}) /\ recorder.hand \in Record \cup {Nothing}
    BY DEF TypesOK, Recorders, Ghost, InHand, Done
  <1>2. n \in Nat /\ k + n = ghost.sent /\ k \in Int
    BY <1>1 DEF RecorderOK, Done
  <1>3. /\ recorder.flush # "waits" => Len(q) = n
        /\ recorder.flush = "waits" => Len(q) = n + 1 /\ q[n + 1] = FlushRecord
        /\ \A i \in 1..n : q[i] \in Record /\ q[i].n = k + i
    BY Zenon DEF RecorderOK, Queued
  <1> HIDE DEF n, k
  <1>4. owed = 1..n
    <2>1. \A i \in 1..n : q[i].kind # "flush"
      BY Zenon, <1>3 DEF Record
    <2>2. recorder.flush = "waits" => q[n + 1].kind = "flush"
      BY <1>3 DEF FlushRecord
    <2>3. DOMAIN q = 1..Len(q)
      BY <1>1
    <2> HIDE DEF q
    <2>4. CASE recorder.flush # "waits"
      <3>1. DOMAIN q = 1..n
        BY Zenon, <1>3, <2>3, <2>4
      <3>2. QED
        BY Zenon, <2>1, <3>1
    <2>5. CASE recorder.flush = "waits"
      <3>1. DOMAIN q = 1..(n + 1)
        BY Zenon, <1>3, <2>3, <2>5
      <3>2. \A i : i \in 1..(n + 1) <=> i \in 1..n \/ i = n + 1
        BY <1>2
      <3>3. QED
        BY Zenon, <2>1, <2>2, <2>5, <3>1, <3>2
    <2>6. QED
      BY <2>4, <2>5
  <1>5. Numbers = {r.n : r \in (IF recorder.hand = Nothing THEN {} ELSE {recorder.hand}) \cup {q[i] : i \in 1..n}}
    BY Zenon, <1>4 DEF Numbers, Owed
  <1>6. \A x : x \in Numbers <=> (recorder.hand # Nothing /\ x = recorder.hand.n) \/ \E i \in 1..n : x = q[i].n
    BY Zenon, <1>5
  <1>7. \A x : x \in Numbers <=> (recorder.hand # Nothing /\ x = Done + 1) \/ \E i \in 1..n : x = k + i
    <2>1. recorder.hand # Nothing => recorder.hand.n = Done + 1
      BY Zenon DEF RecorderOK
    <2>2. \A i \in 1..n : q[i].n = k + i
      BY Zenon, <1>3
    <2> HIDE DEF q
    <2>3. SUFFICES ASSUME NEW x
                   PROVE  x \in Numbers <=> (recorder.hand # Nothing /\ x = Done + 1) \/ \E i \in 1..n : x = k + i
      OBVIOUS
    <2>4. (\E i \in 1..n : x = q[i].n) <=> (\E i \in 1..n : x = k + i)
      BY Zenon, <2>2
    <2>5. QED
      BY Zenon, <1>6, <2>1, <2>4 DEF q
  <1>8. \A x : (\E i \in 1..n : x = k + i) <=> x \in (k + 1)..(k + n)
    <2>1. ASSUME NEW x \in (k + 1)..(k + n)
          PROVE  \E i \in 1..n : x = k + i
      <3>1. x - k \in 1..n /\ x = k + (x - k)
        BY <1>2
      <3>2. QED
        BY Zenon, <3>1
    <2>2. ASSUME NEW i \in 1..n
          PROVE  k + i \in (k + 1)..(k + n)
      BY <1>2
    <2>3. QED
      BY Zenon, <2>1, <2>2
  <1>9. CASE recorder.hand = Nothing
    <2>1. InHand = 0
      BY Zenon, <1>9 DEF InHand
    <2>2. k + 1 = Done + 1
      BY <1>1, <2>1 DEF k
    <2>3. QED
      BY Zenon, <1>2, <1>7, <1>8, <1>9, <2>2
  <1>10. CASE recorder.hand # Nothing
    <2>1. InHand = 1
      BY Zenon, <1>10 DEF InHand
    <2>2. k = Done + 1 /\ Done + 1 <= ghost.sent
      BY <1>1, <2>1 DEF k, RecorderOK, Done
    <2>3. \A x : x = k \/ x \in (k + 1)..(k + n) <=> x \in k..(k + n)
      BY <1>2
    <2>4. QED
      BY Zenon, <1>2, <1>7, <1>8, <1>10, <2>2, <2>3
  <1>11. QED
    BY <1>9, <1>10

\* When no record is owed none is pending.
LEMMA NoneOwed == TypesOK /\ RecorderOK /\ Numbers = {} => recorder.pending = 0
  <1> SUFFICES ASSUME TypesOK, RecorderOK, recorder.pending # 0
               PROVE  ghost.sent \in Numbers
    BY Zenon
  <1>1. ghost.sent \in (Done + 1)..ghost.sent
    BY DEF TypesOK, Recorders, Ghost, RecorderOK, Done
  <1>2. QED
    BY Zenon, <1>1, NumbersOwed

\* stack_changed applies the stack as it is when it is read.
LEMMA StackAppliedOK ==
    ASSUME IInv, svc.at = "stack", svc.loaded, svc' = ApplyStack(svc, StoredStack),
           store' = store, recorder' = recorder, ghost' = ghost
    PROVE  IInv'
  <1>1. svc.up
    BY Zenon, BusyIsUp
  <1>2. svc \in Loop /\ store \in Database /\ ghost \in Ghost
    BY Zenon DEF IInv, TypesOK
  <1>3. StoredStack \in Stack /\ StoredStack.version = store.version /\ StoredStack.has = store.has
    BY <1>2 DEF StoredStack, Stack, Database
  <1>4. PICK shows \in BOOLEAN : shows = (svc.shows /\ StoredStack.has)
    BY Zenon
  <1>5. PICK none \in BOOLEAN : none = (StoredStack.reg = 0)
    BY Zenon
  <1>6. svc' = [svc EXCEPT !.rev = svc.got, !.stack = StoredStack, !.unregistered = none,
                           !.shows = shows, !.at = "edits"]
    BY Zenon, <1>4, <1>5 DEF ApplyStack
  <1>7. svc' \in Loop
    BY ZenonT(40), <1>2, <1>3, <1>6 DEF Loop
  <1>8. /\ svc'.up = svc.up /\ svc'.loaded = svc.loaded /\ svc'.rev = svc.got
        /\ svc'.stack = StoredStack /\ svc'.mark = svc.mark /\ svc'.unregistered = none
        /\ svc'.shows = shows /\ svc'.at = "edits" /\ svc'.task = svc.task /\ svc'.got = svc.got
        /\ svc'.read = svc.read
    BY ZenonT(60), <1>2, <1>6 DEF Loop
  <1>9. TypesOK'
    BY Zenon, <1>7 DEF IInv, TypesOK
  <1>10. LoopOK'
    BY Zenon, <1>1, <1>8 DEF IInv, LoopOK
  <1>11. RecorderOK' /\ IdsOK' /\ MarksOK'
    BY Zenon, <1>8, <1>9, LoopStep DEF Over, IInv, IdsOK
  <1>12. StoredRevision' = StoredRevision /\ Done' = Done
    BY Zenon DEF StoredRevision, Done
  <1>13. FreshOK'
    <2>1. store.version >= store.version /\ ghost.asked <= store.version
      BY <1>2 DEF Database, IInv, FreshOK
    <2>2. QED
      BY ZenonT(60), <1>3, <1>8, <1>12, <2>1 DEF IInv, FreshOK
  <1>14. EndsOK'
    <2>1. svc.shows \in BOOLEAN
      BY <1>2 DEF Loop
    <2>2. ghost.same => shows = svc.shows
      BY Zenon, <1>1, <1>3, <1>4, <2>1 DEF IInv, EndsOK, HasStack
    <2>3. shows => StoredStack.has
      BY Zenon, <1>4
    <2>4. QED
      BY ZenonT(60), <1>1, <1>3, <1>8, <1>12, <2>2, <2>3 DEF IInv, EndsOK, HasStack
  <1>15. EditsOK'
    BY ZenonT(60), <1>8, <1>12 DEF IInv, EditsOK, Announced, IdsOK
  <1>16. QED
    BY ZenonT(60), <1>9, <1>10, <1>11, <1>13, <1>14, <1>15 DEF IInv

\* load takes the stack as it is when it is read.
LEMMA StackLoadedOK ==
    ASSUME IInv, svc.at = "stack", ~svc.loaded, svc' = LoadStack(svc, StoredStack),
           ghost' = [ghost EXCEPT !.same = (Numbers = {})], store' = store, recorder' = recorder
    PROVE  IInv'
  <1>1. svc.up
    BY Zenon, BusyIsUp
  <1>2. svc \in Loop /\ store \in Database /\ ghost \in Ghost
    BY Zenon DEF IInv, TypesOK
  <1>3. StoredStack \in Stack /\ StoredStack.version = store.version /\ StoredStack.has = store.has
    BY <1>2 DEF StoredStack, Stack, Database
  <1>4. PICK none \in BOOLEAN : none = (StoredStack.reg = 0)
    BY Zenon
  <1>5. PICK same \in BOOLEAN : same = (Numbers = {})
    BY Zenon
  <1>6. /\ svc' = [svc EXCEPT !.stack = StoredStack, !.unregistered = none, !.at = "ends"]
        /\ ghost' = [ghost EXCEPT !.same = same]
    BY Zenon, <1>4, <1>5 DEF LoadStack
  <1>7. svc' \in Loop /\ ghost' \in Ghost
    BY ZenonT(40), <1>2, <1>3, <1>6 DEF Loop, Ghost
  <1>8. /\ svc'.up = svc.up /\ svc'.loaded = svc.loaded /\ svc'.rev = svc.rev
        /\ svc'.stack = StoredStack /\ svc'.mark = svc.mark /\ svc'.unregistered = none
        /\ svc'.shows = svc.shows /\ svc'.at = "ends" /\ svc'.task = svc.task /\ svc'.got = svc.got
        /\ svc'.read = svc.read
    BY <1>2, <1>6 DEF Loop
  <1>9. /\ ghost'.regs = ghost.regs /\ ghost'.ids = ghost.ids /\ ghost'.raised = ghost.raised
        /\ ghost'.again = ghost.again /\ ghost'.unmarked = ghost.unmarked
        /\ ghost'.owing = ghost.owing /\ ghost'.asked = ghost.asked /\ ghost'.stale = ghost.stale
        /\ ghost'.same = same /\ ghost'.sent = ghost.sent /\ ghost'.stored = ghost.stored
        /\ ghost'.told = ghost.told /\ ghost'.counted = ghost.counted /\ ghost'.lost = ghost.lost
    BY <1>2, <1>6 DEF Ghost
  <1>10. TypesOK'
    BY Zenon, <1>7 DEF IInv, TypesOK
  <1>11. LoopOK'
    BY Zenon, <1>1, <1>8 DEF IInv, LoopOK
  <1>12. RecorderOK' /\ IdsOK' /\ MarksOK'
    BY Zenon, <1>8, <1>9, <1>10, LoopStep DEF Over, IInv, IdsOK
  <1>13. StoredRevision' = StoredRevision /\ Done' = Done
    BY Zenon, <1>9 DEF StoredRevision, Done
  <1>14. FreshOK'
    <2>1. store.version >= store.version /\ ghost.asked <= store.version
      BY <1>2 DEF Database, IInv, FreshOK
    <2>2. QED
      BY Zenon, <1>3, <1>8, <1>9, <1>13, <2>1 DEF IInv, FreshOK
  <1>15. EndsOK'
    <2>1. ~svc.shows
      BY Zenon DEF IInv, LoopOK
    <2>2. same => recorder.pending = 0
      BY Zenon, <1>5, NoneOwed DEF IInv
    <2>3. store.ended => store.has
      BY Zenon DEF IInv, EndsOK
    <2>4. QED
      BY ZenonT(60), <1>3, <1>8, <1>9, <2>1, <2>2, <2>3 DEF EndsOK
  <1>16. EditsOK'
    BY ZenonT(60), <1>8, <1>9, <1>13 DEF IInv, EditsOK, Announced, IdsOK
  <1>17. QED
    BY Zenon, <1>10, <1>11, <1>12, <1>14, <1>15, <1>16 DEF IInv

\* The service lets go of the project, or never had it.
LEMMA UnloadOK ==
    ASSUME IInv, svc' = Unloaded, store' = store, recorder' = recorder, ghost' \in Ghost,
           recorder.flush = "no",
           ghost'.regs = ghost.regs, ghost'.ids = ghost.ids, ghost'.raised = ghost.raised,
           ghost'.again = ghost.again, ghost'.sent = ghost.sent,
           ghost'.stored = ghost.stored, ghost'.told = ghost.told,
           ghost'.counted = ghost.counted, ghost'.lost = ghost.lost,
           ghost'.stale = ghost.stale, ghost'.same = ghost.same,
           ghost'.asked \in {ghost.asked, 0}, ghost.unmarked \subseteq ghost'.unmarked,
           \A e \in (ghost.raised \ ghost'.unmarked) \cap store.edits : e.id <= store.raised
    PROVE  IInv'
  <1>1. store \in Database /\ ghost \in Ghost
    BY Zenon DEF IInv, TypesOK
  <1>2. /\ svc' \in Loop
        /\ svc'.up = TRUE /\ svc'.loaded = FALSE /\ svc'.rev = NoRow /\ svc'.mark = 0
        /\ svc'.shows = FALSE /\ svc'.at = "idle" /\ svc'.task = "none" /\ svc'.got = NoRow
        /\ svc'.read = {}
    BY Zenon, UnloadedOK
  <1>3. TypesOK'
    BY Zenon, <1>1, <1>2 DEF IInv, TypesOK
  <1>4. LoopOK'
    BY Zenon, <1>2 DEF LoopOK
  <1>5. RecorderOK' /\ IdsOK' /\ MarksOK'
    BY Zenon, <1>2, <1>3, LoopStep DEF Over
  <1>6. FreshOK'
    <2>1. NoRow <= store.counter /\ 0 <= store.version
      BY <1>1 DEF Database, NoRow
    <2>2. QED
      BY Zenon, <1>2, <2>1 DEF IInv, FreshOK
  <1>7. EndsOK'
    BY Zenon, <1>2 DEF IInv, EndsOK, HasStack
  <1>8. EditsOK'
    BY Zenon, <1>2 DEF IInv, EditsOK
  <1>9. QED
    BY Zenon, <1>3, <1>4, <1>5, <1>6, <1>7, <1>8 DEF IInv

\* The stack read is at least as new as the revision read.
LEMMA ReadStackOK == IInv /\ ReadStack => IInv'
  <1> SUFFICES ASSUME IInv, ReadStack
               PROVE  IInv'
    OBVIOUS
  <1>1. svc.at = "stack" /\ svc.up /\ store' = store /\ recorder' = recorder
    BY Zenon, BusyIsUp DEF ReadStack
  <1>2. CASE svc.loaded /\ svc' = ApplyStack(svc, StoredStack) /\ ghost' = ghost
    BY Zenon, <1>1, <1>2, StackAppliedOK
  <1>3. CASE ~svc.loaded /\ svc' = LoadStack(svc, StoredStack) /\ ghost' = [ghost EXCEPT !.same = (Numbers = {})]
    BY Zenon, <1>1, <1>3, StackLoadedOK
  <1>4. CASE ~svc.loaded /\ store.reg = 0 /\ svc' = Unloaded /\ ghost' = ghost
    <2>1. ghost \in Ghost /\ recorder.flush = "no"
      BY Zenon, <1>1 DEF IInv, TypesOK, LoopOK
    <2>2. \A e \in (ghost.raised \ ghost.unmarked) \cap store.edits : e.id <= store.raised
      BY Zenon, <1>1, <1>4 DEF IInv, EditsOK, LoopOK, IdsOK
    <2>3. QED
      BY ZenonT(60), <1>1, <1>4, <2>1, <2>2, UnloadOK
  <1>5. QED
    BY Zenon, <1>2, <1>3, <1>4 DEF ReadStack

\* A project that is loaded anew starts with nothing of the old load.
LEMMA LetGoOK == IInv /\ (LetGo \/ NextService) => IInv'
  <1> SUFFICES ASSUME IInv, LetGo \/ NextService
               PROVE  IInv'
    OBVIOUS
  <1>1. svc' = Unloaded /\ store' = store /\ recorder' = recorder /\ recorder.flush = "no"
    BY Zenon DEF LetGo, NextService, Resting, IInv, LoopOK
  <1>2. store \in Database /\ ghost \in Ghost
    BY Zenon DEF IInv, TypesOK
  <1>3. PICK unmarked \in SUBSET Edit : unmarked = ghost.unmarked \cup Unsaved
    BY Zenon, <1>2 DEF Ghost, Unsaved
  <1>4. PICK owing \in BOOLEAN : ghost' = [ghost EXCEPT !.owing = owing, !.unmarked = unmarked]
    <2>1. CASE LetGo
      <3>1. ghost' = [ghost EXCEPT !.unmarked = unmarked]
        BY Zenon, <1>3, <2>1 DEF LetGo
      <3>2. ghost.owing \in BOOLEAN
        BY <1>2 DEF Ghost
      <3>3. ghost' = [ghost EXCEPT !.owing = ghost.owing, !.unmarked = unmarked]
        BY Zenon, <1>2, <3>1 DEF Ghost
      <3>4. QED
        BY Zenon, <3>2, <3>3
    <2>2. CASE NextService
      BY Zenon, <1>3, <2>2 DEF NextService
    <2>3. QED
      BY Zenon, <2>1, <2>2
  <1>5. ghost' \in Ghost
    BY Zenon, <1>2, <1>4 DEF Ghost
  <1>6. /\ ghost'.regs = ghost.regs /\ ghost'.ids = ghost.ids /\ ghost'.raised = ghost.raised
        /\ ghost'.again = ghost.again /\ ghost'.unmarked = unmarked /\ ghost'.owing = owing
        /\ ghost'.asked = ghost.asked /\ ghost'.stale = ghost.stale /\ ghost'.same = ghost.same
        /\ ghost'.sent = ghost.sent /\ ghost'.stored = ghost.stored /\ ghost'.told = ghost.told
        /\ ghost'.counted = ghost.counted /\ ghost'.lost = ghost.lost
    BY <1>2, <1>4 DEF Ghost
  <1>7. \A e \in (ghost.raised \ unmarked) \cap store.edits : e.id <= store.raised
    <2>1. \A e \in store.edits : e.id \in Nat /\ store.raised \in Nat
      BY <1>2 DEF Database, Edit
    <2>2. \A e \in ghost.raised \ unmarked : ~(e.id > store.raised)
      BY Zenon, <1>3 DEF Unsaved
    <2>3. \A x \in Nat, y \in Nat : ~(x > y) => x <= y
      OBVIOUS
    <2>4. QED
      BY Zenon, <2>1, <2>2, <2>3
  <1>8. QED
    BY ZenonT(60), <1>1, <1>3, <1>5, <1>6, <1>7, UnloadOK

\* A failed read leaves what was applied, and owes the edits.
LEMMA ReadFailsOK == IInv /\ ReadFails => IInv'
  <1> SUFFICES ASSUME IInv, ReadFails
               PROVE  IInv'
    OBVIOUS
  <1>1. svc.up /\ svc.at # "idle" /\ store' = store /\ recorder' = recorder /\ recorder.flush = "no"
    BY Zenon DEF ReadFails, Resting, IInv, LoopOK
  <1>2. svc \in Loop /\ store \in Database /\ ghost \in Ghost
    BY Zenon DEF IInv, TypesOK
  <1>3. PICK owing \in BOOLEAN :
           owing = (ghost.owing \/ (svc.loaded /\ svc.at \in {"edits", "mark"}))
    BY Zenon
  <1>4. ghost' = [ghost EXCEPT !.asked = 0, !.owing = owing]
    BY Zenon, <1>3 DEF ReadFails
  <1>5. ghost' \in Ghost
    BY Zenon, <1>2, <1>4 DEF Ghost
  <1>6. /\ ghost'.regs = ghost.regs /\ ghost'.ids = ghost.ids /\ ghost'.raised = ghost.raised
        /\ ghost'.again = ghost.again /\ ghost'.unmarked = ghost.unmarked /\ ghost'.owing = owing
        /\ ghost'.asked = 0 /\ ghost'.stale = ghost.stale /\ ghost'.same = ghost.same
        /\ ghost'.sent = ghost.sent /\ ghost'.stored = ghost.stored /\ ghost'.told = ghost.told
        /\ ghost'.counted = ghost.counted /\ ghost'.lost = ghost.lost
    BY <1>2, <1>4 DEF Ghost
  <1>7. CASE ~svc.loaded
    <2>1. svc' = Unloaded
      BY Zenon, <1>7 DEF ReadFails
    <2>2. \A e \in (ghost.raised \ ghost.unmarked) \cap store.edits : e.id <= store.raised
      BY Zenon, <1>1, <1>7 DEF IInv, EditsOK, LoopOK
    <2>3. QED
      BY ZenonT(60), <1>1, <1>5, <1>6, <2>1, <2>2, UnloadOK
  <1>8. CASE svc.loaded
    <2>1. svc' = Finish(svc)
      BY Zenon, <1>8 DEF ReadFails
    <2>2. svc' \in Loop
      BY Zenon, <1>2, <2>1, FinishOK
    <2>3. /\ svc'.up = svc.up /\ svc'.loaded = svc.loaded /\ svc'.rev = svc.rev
          /\ svc'.stack = svc.stack /\ svc'.mark = svc.mark /\ svc'.unregistered = svc.unregistered
          /\ svc'.shows = svc.shows /\ svc'.at = "idle" /\ svc'.task = "none" /\ svc'.got = NoRow
          /\ svc'.read = {}
      BY Zenon, <1>2, <2>1, FinishOK
    <2>4. TypesOK'
      BY Zenon, <1>1, <1>5, <2>2 DEF IInv, TypesOK
    <2>5. LoopOK'
      BY Zenon, <1>1, <1>8, <2>3 DEF IInv, LoopOK
    <2>6. RecorderOK' /\ IdsOK' /\ MarksOK'
      BY ZenonT(60), <1>1, <1>6, <2>3, <2>4, LoopStep DEF Over
    <2>7. StoredRevision' = StoredRevision /\ Done' = Done
      BY Zenon, <1>1, <1>6 DEF StoredRevision, Done
    <2>8. FreshOK'
      <3>1. NoRow <= store.counter /\ 0 <= store.version
        BY <1>2 DEF Database, NoRow
      <3>2. QED
        BY ZenonT(60), <1>1, <1>6, <2>3, <2>7, <3>1 DEF IInv, FreshOK
    <2>9. EndsOK'
      BY ZenonT(60), <1>1, <1>6, <1>8, <2>3, <2>7 DEF IInv, EndsOK, HasStack, LoopOK
    <2>10. EditsOK'
      <3>1. svc.at \in {"idle", "compare", "revision", "stack", "ends", "edits", "mark"}
        BY <1>2 DEF Loop
      <3>2. ~owing => ~ghost.owing /\ svc.at \in {"idle", "compare", "revision", "stack"}
        BY Zenon, <1>3, <1>8, <3>1 DEF IInv, LoopOK
      <3>3. QED
        BY ZenonT(60), <1>1, <1>6, <2>3, <2>7, <3>2 DEF IInv, EditsOK, Announced
    <2>11. QED
      BY ZenonT(60), <2>4, <2>5, <2>6, <2>8, <2>9, <2>10 DEF IInv
  <1>9. QED
    BY <1>7, <1>8

-----------------------------------------------------------------------------
(* Records on their way to the store. *)

\* Records are numbered on.
LEMMA NextNumber == \A k \in Nat : k + 1 \in Nat
  OBVIOUS

\* A queue with one more record is a queue.
LEMMA AppendType ==
    ASSUME NEW S, NEW s \in Seq(S), NEW e \in S
    PROVE  Append(s, e) \in Seq(S)
  OBVIOUS

\* Parts of a recorder that is well formed.
LEMMA RecorderParts ==
    ASSUME TypesOK, RecorderOK
    PROVE  /\ recorder.queue \in Seq(Record \cup {FlushRecord}) /\ recorder.hand \in Record \cup {Nothing}
           /\ recorder.pending \in Nat /\ recorder.drain \in {"none", "set", "passed"}
           /\ recorder.flush \in {"no", "waits", "answered"}
           /\ ghost.sent \in Nat /\ InHand \in {0, 1} /\ Done \in Nat
           /\ recorder.pending - InHand \in Nat
           /\ ghost.sent = Done + InHand + (recorder.pending - InHand)
           /\ recorder.flush # "waits" => Len(recorder.queue) = recorder.pending - InHand
  <1>1. /\ recorder.queue \in Seq(Record \cup {FlushRecord}) /\ recorder.hand \in Record \cup {Nothing}
        /\ recorder.pending \in Nat /\ recorder.drain \in {"none", "set", "passed"}
        /\ recorder.flush \in {"no", "waits", "answered"} /\ ghost.sent \in Nat
    BY DEF TypesOK, Recorders, Ghost
  <1>2. InHand \in {0, 1} /\ InHand <= recorder.pending /\ recorder.pending <= ghost.sent
    BY DEF InHand, RecorderOK
  <1>3. Done \in Nat /\ recorder.pending - InHand \in Nat
        /\ ghost.sent = Done + InHand + (recorder.pending - InHand)
    <2>1. \A a, b \in Nat, h \in {0, 1} :
             h <= b /\ b <= a => a - b \in Nat /\ b - h \in Nat /\ a = (a - b) + h + (b - h)
      OBVIOUS
    <2>2. QED
      BY Zenon, <1>1, <1>2, <2>1 DEF Done
  <1>4. recorder.flush # "waits" => Len(recorder.queue) = recorder.pending - InHand
    BY Zenon DEF RecorderOK, Queued
  <1>5. QED
    BY ZenonT(60), <1>1, <1>2, <1>3, <1>4

\* A record sent is the last of the queue.
LEMMA SendOK ==
    ASSUME TypesOK, RecorderOK, recorder.flush = "no", NEW rec \in Record, rec.n = ghost.sent + 1,
           recorder' = Send(recorder, rec), ghost'.sent = ghost.sent + 1, Over' = Over
    PROVE  /\ recorder' \in Recorders /\ RecorderOK'
           /\ recorder'.queue = Append(recorder.queue, rec) /\ recorder'.hand = recorder.hand
           /\ recorder'.flush = "no" /\ recorder'.pending = recorder.pending + 1
           /\ Done' = Done /\ InHand' = InHand
  <1> DEFINE q == recorder.queue
             p == recorder.pending
             n == p - InHand
  <1>1. /\ q \in Seq(Record \cup {FlushRecord}) /\ recorder.hand \in Record \cup {Nothing} /\ p \in Nat
        /\ ghost.sent \in Nat /\ InHand \in {0, 1} /\ Done \in Nat /\ n \in Nat
        /\ ghost.sent = Done + InHand + n /\ Len(q) = n
    BY Zenon, RecorderParts
  <1>2. recorder \in Recorders
    BY Zenon DEF TypesOK
  <1>3. PICK s \in Seq(Record \cup {FlushRecord}), m \in Nat : s = Append(q, rec) /\ m = p + 1
    <2>1. Append(q, rec) \in Seq(Record \cup {FlushRecord})
      <3>1. rec \in Record \cup {FlushRecord}
        BY Zenon
      <3>2. QED
        BY Zenon, <1>1, <3>1, AppendType
    <2>2. p + 1 \in Nat
      BY Zenon, <1>1, NextNumber
    <2>3. QED
      BY Zenon, <2>1, <2>2
  <1>4. recorder' = [recorder EXCEPT !.queue = s, !.pending = m]
    BY <1>2, <1>3 DEF Send, Recorders
  <1>5. recorder' \in Recorders
    BY Zenon, <1>2, <1>4 DEF Recorders
  <1>6. recorder'.queue = s /\ recorder'.hand = recorder.hand /\ recorder'.flush = "no" /\ recorder'.pending = m
    BY <1>2, <1>4 DEF Recorders
  <1>7. InHand' = InHand
    BY Zenon, <1>6 DEF InHand
  <1>8. Done' = Done
    <2>1. Done' = (ghost.sent + 1) - (p + 1)
      BY Zenon, <1>3, <1>6 DEF Done
    <2>2. \A a \in Nat, b \in Nat : (a + 1) - (b + 1) = a - b
      OBVIOUS
    <2>3. QED
      BY Zenon, <1>1, <2>1, <2>2 DEF Done
  <1>9. Queued(s, m - InHand, Done + InHand, "no")
    <2>1. m - InHand = n + 1
      <3>1. \A a \in Nat, b \in {0, 1} : (a + 1) - b = (a - b) + 1
        OBVIOUS
      <3>2. QED
        BY Zenon, <1>1, <1>3, <3>1
    <2>2. \A i \in 1..n : q[i] \in Record /\ q[i].n = Done + InHand + i
      BY Zenon DEF RecorderOK, Queued
    <2> HIDE DEF n, p
    <2>3. Len(s) = n + 1 /\ s[n + 1] = rec /\ \A i \in 1..n : s[i] = q[i]
      BY <1>1, <1>3
    <2>4. rec.n = Done + InHand + (n + 1)
      BY <1>1
    <2>5. \A i : i \in 1..(n + 1) <=> i \in 1..n \/ i = n + 1
      BY <1>1
    <2> HIDE DEF q
    <2>6. \A i \in 1..(n + 1) : s[i] \in Record /\ s[i].n = Done + InHand + i
      BY ZenonT(60), <2>2, <2>3, <2>4, <2>5
    <2>7. QED
      BY Zenon, <2>1, <2>3, <2>6 DEF Queued
  <1>10. m <= ghost.sent + 1 /\ InHand <= m
    <2>1. p <= ghost.sent /\ InHand <= p
      BY Zenon DEF RecorderOK
    <2> HIDE DEF q, p, n
    <2>2. p + 1 <= ghost.sent + 1
      <3>1. \A a, b \in Nat : b <= a => b + 1 <= a + 1
        OBVIOUS
      <3>2. QED
        BY Zenon, <1>1, <2>1, <3>1
    <2>3. InHand <= p + 1
      <3>1. \A b \in Nat, h \in {0, 1} : h <= b => h <= b + 1
        OBVIOUS
      <3>2. QED
        BY Zenon, <1>1, <2>1, <3>1
    <2>4. QED
      BY Zenon, <1>3, <2>2, <2>3
  <1>11. RecorderOK'
    BY ZenonT(60), <1>6, <1>7, <1>8, <1>9, <1>10 DEF RecorderOK
  <1>12. QED
    BY ZenonT(60), <1>3, <1>5, <1>6, <1>7, <1>8, <1>11

\* A record that is sent is the last to land.
LEMMA ComingSent ==
    ASSUME NEW q \in Seq(Record \cup {FlushRecord}), NEW hand, NEW shows, NEW now, NEW ended, NEW rec \in Record,
           IsEnd(rec) => now = (rec.kind = "ended"),
           ~IsEnd(rec) => now = shows /\ Coming(q, hand, shows, ended)
    PROVE  Coming(Append(q, rec), hand, now, ended)
  <1> DEFINE n == Len(q)
             s == Append(q, rec)
  <1>1. n \in Nat /\ Len(s) = n + 1 /\ s[n + 1] = rec /\ \A i \in 1..n : s[i] = q[i]
    OBVIOUS
  <1>2. /\ \A i : i \in 1..(n + 1) <=> i \in 1..n \/ i = n + 1
        /\ n + 1 \in 1..(n + 1) /\ \A i \in 1..n : n + 1 > i /\ ~(i > n + 1)
    BY <1>1
  <1> HIDE DEF n, s
  <1>3. CASE IsEnd(rec)
    <2>1. ASSUME NEW i \in 1..(n + 1), IsEnd(s[i]), \A j \in 1..(n + 1) : j > i => ~IsEnd(s[j])
          PROVE  now = (s[i].kind = "ended")
      BY Zenon, <1>1, <1>2, <1>3, <2>1
    <2>2. ~(\A i \in 1..(n + 1) : ~IsEnd(s[i]))
      BY Zenon, <1>1, <1>2, <1>3
    <2>3. QED
      BY Zenon, <1>1, <2>1, <2>2 DEF Coming, s
  <1>4. CASE ~IsEnd(rec)
    <2>1. now = shows /\ Coming(q, hand, shows, ended)
      BY Zenon, <1>4
    <2>2. ASSUME NEW i \in 1..(n + 1), IsEnd(s[i]), \A j \in 1..(n + 1) : j > i => ~IsEnd(s[j])
          PROVE  now = (s[i].kind = "ended")
      <3>1. i \in 1..n
        BY ZenonT(60), <1>1, <1>2, <1>4, <2>2
      <3>2. IsEnd(q[i]) /\ \A j \in 1..n : j > i => ~IsEnd(q[j])
        BY Zenon, <1>1, <1>2, <2>2, <3>1
      <3>3. QED
        BY ZenonT(60), <1>1, <2>1, <3>1, <3>2 DEF Coming, n
    <2>3. (\A i \in 1..(n + 1) : ~IsEnd(s[i])) => \A i \in 1..n : ~IsEnd(q[i])
      BY Zenon, <1>1, <1>2
    <2>4. QED
      BY Zenon, <1>1, <2>1, <2>2, <2>3 DEF Coming, n, s
  <1>5. QED
    BY <1>3, <1>4

\* A sound mark may be sent.
LEMMA MarksSent ==
    ASSUME IInv, TypesOK', MarkOK(svc.mark)', MarkOK(store.raised)',
           NEW rec, MarkOK(rec.through)', recorder.flush = "no",
           recorder'.queue = Append(recorder.queue, rec), recorder'.hand = recorder.hand,
           recorder'.pending = recorder.pending + 1, InHand' = InHand,
           ghost.ids <= ghost'.ids, ghost.raised \subseteq ghost'.raised,
           \A e \in store'.edits \cup svc'.read :
              e \in store.edits \cup svc.read \/ (e.fresh => e.id > ghost.ids)
    PROVE  MarksOK'
  <1>1. ASSUME NEW m \in Nat, MarkOK(m)
        PROVE  MarkOK(m)'
    BY Zenon, <1>1, MarkKept
  <1>2. recorder.hand # Nothing => MarkOK(recorder.hand.through)'
    <2>1. SUFFICES ASSUME recorder.hand # Nothing
                   PROVE  MarkOK(recorder.hand.through)'
      OBVIOUS
    <2>2. recorder.hand.through \in Nat
      BY <2>1 DEF IInv, TypesOK, Recorders, Record
    <2>3. PICK m \in Nat : m = recorder.hand.through
      BY Zenon, <2>2
    <2>4. MarkOK(m)'
      BY Zenon, <1>1, <2>1, <2>3 DEF IInv, MarksOK
    <2>5. recorder'.hand.through = m
      BY Zenon, <2>3
    <2>6. QED
      BY Zenon, <2>4, <2>5 DEF MarkOK
  <1>3. PICK n \in Nat : n = recorder.pending - InHand
    BY Zenon, RecorderParts DEF IInv
  <1>4. /\ recorder.queue \in Seq(Record \cup {FlushRecord}) /\ Len(recorder.queue) = n
        /\ recorder.pending \in Nat /\ InHand \in {0, 1}
    BY Zenon, <1>3, RecorderParts DEF IInv
  <1>5. recorder'.pending - InHand' = n + 1
    <2>1. \A a \in Nat, b \in {0, 1} : (a + 1) - b = (a - b) + 1
      OBVIOUS
    <2>2. QED
      BY Zenon, <1>3, <1>4, <2>1
  <1>6. ASSUME NEW i \in 1..n
        PROVE  MarkOK(recorder.queue[i].through)'
    <2>1. i \in 1..(recorder.pending - InHand)
      BY Zenon, <1>3
    <2>2. recorder.queue[i].through \in Nat
      BY Zenon, Queue, <2>1 DEF IInv
    <2>3. PICK m \in Nat : m = recorder.queue[i].through
      BY Zenon, <2>2
    <2>4. MarkOK(m)'
      BY ZenonT(60), <1>1, <2>1, <2>3 DEF IInv, MarksOK
    <2>5. recorder'.queue[i] = recorder.queue[i]
      BY <1>4
    <2>6. QED
      BY Zenon, <2>3, <2>4, <2>5 DEF MarkOK
  <1>7. MarkOK(recorder.queue[n + 1].through)'
    <2>1. recorder'.queue[n + 1] = rec
      BY <1>4
    <2>2. QED
      BY Zenon, <2>1 DEF MarkOK
  <1>8. \A i \in 1..(n + 1) : i \in 1..n \/ i = n + 1
    OBVIOUS
  <1>9. \A i \in 1..(n + 1) : MarkOK(recorder.queue[i].through)'
    BY Zenon, <1>6, <1>7, <1>8
  <1>10. QED
    BY Zenon, <1>2, <1>5, <1>9 DEF MarksOK

\* The end that is shown is sent to the store.
LEMMA StoreEndOK == ASSUME NEW ended \in BOOLEAN PROVE IInv /\ StoreEnd(ended) => IInv'
  <1> SUFFICES ASSUME IInv, StoreEnd(ended)
               PROVE  IInv'
    OBVIOUS
  <1>1. svc.up /\ svc.at = "idle" /\ svc.loaded /\ svc.stack.has /\ store' = store /\ recorder.flush = "no"
    BY Zenon DEF StoreEnd, Resting, IInv, LoopOK
  <1>2. svc \in Loop /\ store \in Database /\ ghost \in Ghost
    BY Zenon DEF IInv, TypesOK
  <1>3. PICK rec : rec = Numbered(IF ended THEN "ended" ELSE "cleared", 0)
    BY Zenon
  <1>4. /\ rec \in Record /\ rec.n = ghost.sent + 1 /\ rec.through = 0 /\ rec.kind \in Ends
        /\ rec.kind = "ended" <=> ended
    BY <1>2, <1>3 DEF Numbered, Record, Ends, Ghost
  <1>5. rec # Nothing /\ recorder' = Send(recorder, rec)
    BY Zenon, <1>4, <1>3, StacksConstants DEF StoreEnd
  <1>6. svc' \in Loop /\ ghost' \in Ghost
    <2>1. svc' \in Loop
      BY <1>2 DEF StoreEnd, Loop
    <2>2. PICK n \in Nat : n = ghost.sent + 1
      BY <1>2 DEF Ghost
    <2>3. ghost' = [ghost EXCEPT !.sent = n]
      BY <1>2, <2>2 DEF StoreEnd, Ghost
    <2>4. ghost' \in Ghost
      BY <1>2, <2>3 DEF Ghost
    <2>5. QED
      BY <2>1, <2>4
  <1>7. /\ svc'.up = svc.up /\ svc'.loaded = svc.loaded /\ svc'.rev = svc.rev
        /\ svc'.stack = svc.stack /\ svc'.mark = svc.mark /\ svc'.unregistered = svc.unregistered
        /\ svc'.shows = ended /\ svc'.at = svc.at /\ svc'.task = svc.task /\ svc'.got = svc.got
        /\ svc'.read = svc.read
    BY Zenon, <1>2 DEF StoreEnd, Loop
  <1>8. /\ ghost'.regs = ghost.regs /\ ghost'.ids = ghost.ids /\ ghost'.raised = ghost.raised
        /\ ghost'.again = ghost.again /\ ghost'.unmarked = ghost.unmarked
        /\ ghost'.owing = ghost.owing /\ ghost'.asked = ghost.asked /\ ghost'.stale = ghost.stale
        /\ ghost'.same = ghost.same /\ ghost'.sent = ghost.sent + 1 /\ ghost'.stored = ghost.stored
        /\ ghost'.told = ghost.told /\ ghost'.counted = ghost.counted /\ ghost'.lost = ghost.lost
    BY <1>2 DEF StoreEnd, Ghost
  <1>9. Over' = Over
    BY Zenon, <1>8 DEF Over
  <1>10. /\ recorder' \in Recorders /\ RecorderOK'
         /\ recorder'.queue = Append(recorder.queue, rec) /\ recorder'.hand = recorder.hand
         /\ recorder'.flush = "no" /\ recorder'.pending = recorder.pending + 1
         /\ Done' = Done /\ InHand' = InHand
    BY ZenonT(60), <1>1, <1>4, <1>5, <1>8, <1>9, SendOK DEF IInv
  <1>11. TypesOK'
    BY Zenon, <1>1, <1>6, <1>10 DEF IInv, TypesOK
  <1>12. LoopOK'
    BY ZenonT(60), <1>1, <1>7, <1>10 DEF IInv, LoopOK
  <1>13. StoredRevision' = StoredRevision
    BY Zenon, <1>1 DEF StoredRevision
  <1>14. FreshOK'
    BY ZenonT(60), <1>1, <1>7, <1>8, <1>13 DEF IInv, FreshOK
  <1>15. EndsOK'
    <2>1. Coming(recorder'.queue, recorder'.hand, ended, store.ended)
      <3>1. recorder.queue \in Seq(Record \cup {FlushRecord})
        BY Zenon, RecorderParts DEF IInv
      <3>2. IsEnd(rec) /\ ended = (rec.kind = "ended")
        BY Zenon, <1>4, <1>5 DEF IsEnd
      <3>3. QED
        BY ZenonT(60), <1>4, <1>10, <3>1, <3>2, ComingSent
    <2>2. QED
      BY ZenonT(60), <1>1, <1>7, <1>8, <1>10, <2>1 DEF IInv, EndsOK, HasStack
  <1>16. IdsOK'
    BY Zenon, <1>1, <1>7, <1>8 DEF IInv, IdsOK
  <1>17. MarksOK'
    <2>1. ghost.ids <= ghost'.ids
      BY <1>2, <1>8 DEF Ghost
    <2>2. ASSUME NEW m \in Nat, MarkOK(m)
          PROVE  MarkOK(m)'
      BY Zenon, <1>1, <1>7, <1>8, <2>2 DEF MarkOK
    <2>3. MarkOK(svc.mark)' /\ MarkOK(store.raised)'
      BY Zenon, <1>1, <1>7, <1>8 DEF MarkOK, IInv, MarksOK
    <2>4. MarkOK(rec.through)'
      <3>1. MarkOK(0)'
        <4>1. (TypesOK /\ IdsOK)' => MarkOK(0)'
          BY NoMark, PTL
        <4>2. QED
          BY Zenon, <1>11, <1>16, <4>1
      <3>2. QED
        BY Zenon, <1>4, <3>1 DEF MarkOK
    <2>5. QED
      BY ZenonT(60), <1>1, <1>7, <1>8, <1>10, <1>11, <2>1, <2>3, <2>4, MarksSent
  <1>18. EditsOK'
    BY Zenon, <1>1, <1>7, <1>8, <1>13 DEF IInv, EditsOK, Announced
  <1>19. QED
    BY ZenonT(60), <1>10, <1>11, <1>12, <1>14, <1>15, <1>16, <1>17, <1>18 DEF IInv

\* raise_edits, the last step of a handler: the edits past the mark are raised
\* and the mark moves to the newest edit read.
LEMMA RaiseEditsOK == IInv /\ RaiseEdits => IInv'
  <1> SUFFICES ASSUME IInv, RaiseEdits
               PROVE  IInv'
    OBVIOUS
  <1>1. svc.at = "mark" /\ store' = store
    BY Zenon DEF RaiseEdits
  <1>2. svc.up /\ recorder.flush = "no"
    BY Zenon, <1>1, BusyIsUp DEF IInv, LoopOK
  <1>3. svc \in Loop /\ store \in Database /\ ghost \in Ghost
    BY Zenon DEF IInv, TypesOK
  <1>4. /\ svc.read \in SUBSET Edit /\ ghost.ids \in Nat /\ ghost.raised \in SUBSET Edit /\ ghost.sent \in Nat
        /\ store.edits \in SUBSET Edit /\ svc.mark \in Nat /\ store.raised \in Nat /\ svc.rev \in Int /\ svc.got \in Int
        /\ ghost.again \in SUBSET Edit /\ svc.loaded \in BOOLEAN
    BY <1>3 DEF Loop, Ghost, Database
  <1>5. PICK new \in Nat : /\ new = Newest(svc.read) /\ new <= ghost.ids /\ \A e \in svc.read : e.id <= new
                           /\ new # 0 => \E e \in svc.read : e.id = new
    <2>1. \A e \in svc.read : e.id <= ghost.ids
      BY Zenon DEF IInv, IdsOK
    <2>2. QED
      BY Zenon, <1>4, <2>1, NewestOf
  <1>6. PICK more \in SUBSET Edit : /\ more = ToRaise(svc) /\ more \subseteq svc.read
                                    /\ \A e \in svc.read : e \in more <=> e.id > Raised(svc)
    <2>1. ToRaise(svc) \in SUBSET Edit /\ ToRaise(svc) \subseteq svc.read
      BY Zenon, <1>4 DEF ToRaise
    <2>2. \A e \in svc.read : e \in ToRaise(svc) <=> e.id > Raised(svc)
      BY Zenon DEF ToRaise
    <2>3. QED
      BY Zenon, <2>1, <2>2
  <1>7. PICK twice \in SUBSET Edit : twice = more \cap ghost.raised
    BY Zenon, <1>4
  <1>8. PICK marks \in BOOLEAN : marks = (svc.read # {} /\ Raised(svc) # new)
    BY Zenon
  <1>9. PICK r \in Int : r = IF svc.loaded THEN svc.rev ELSE svc.got
    BY Zenon, <1>4
  <1>10. PICK sent \in Nat : sent = IF marks THEN ghost.sent + 1 ELSE ghost.sent
    BY <1>4
  <1>11. PICK v \in Loop : /\ v = [svc EXCEPT !.mark = new, !.loaded = TRUE, !.rev = r]
                           /\ v.up = svc.up /\ v.loaded = TRUE /\ v.rev = r /\ v.stack = svc.stack
                           /\ v.mark = new /\ v.unregistered = svc.unregistered
                           /\ v.shows = svc.shows /\ v.at = svc.at /\ v.task = svc.task
                           /\ v.got = svc.got /\ v.read = svc.read
    <2> DEFINE w == [svc EXCEPT !.mark = new, !.loaded = TRUE, !.rev = r]
    <2>1. w \in Loop
      BY Zenon, <1>3 DEF Loop
    <2>2. /\ w.up = svc.up /\ w.loaded = TRUE /\ w.rev = r /\ w.stack = svc.stack /\ w.mark = new
          /\ w.unregistered = svc.unregistered /\ w.shows = svc.shows /\ w.at = svc.at /\ w.task = svc.task
          /\ w.got = svc.got /\ w.read = svc.read
      BY <1>3 DEF Loop
    <2>3. PICK u : u = w
      BY Zenon
    <2>4. QED
      BY Zenon, <2>1, <2>2, <2>3
  <1>12. PICK g : g = [ghost EXCEPT !.again = @ \cup (more \cap ghost.raised), !.raised = @ \cup more,
                                    !.owing = FALSE, !.sent = sent]
    BY Zenon
  <1>13. g \in Ghost
    <2>1. PICK a \in SUBSET Edit, b \in SUBSET Edit :
             a = ghost.again \cup (more \cap ghost.raised) /\ b = ghost.raised \cup more
      BY Zenon, <1>4
    <2>2. g = [ghost EXCEPT !.again = a, !.raised = b, !.owing = FALSE, !.sent = sent]
      BY Zenon, <1>3, <1>12, <2>1 DEF Ghost
    <2>3. QED
      BY Zenon, <1>3, <2>2 DEF Ghost
  <1>14. /\ g.regs = ghost.regs /\ g.ids = ghost.ids /\ g.raised = ghost.raised \cup more
         /\ g.again = ghost.again \cup twice /\ g.unmarked = ghost.unmarked /\ g.owing = FALSE
         /\ g.asked = ghost.asked /\ g.stale = ghost.stale /\ g.same = ghost.same /\ g.sent = sent
         /\ g.stored = ghost.stored /\ g.told = ghost.told /\ g.counted = ghost.counted
         /\ g.lost = ghost.lost
    BY Zenon, <1>3, <1>7, <1>12 DEF Ghost
  <1>15. /\ svc' = Finish(v) /\ ghost' = Answered(g, v)
         /\ recorder' = IF marks THEN Send(recorder, Numbered("raised", new)) ELSE recorder
    BY ZenonT(60), <1>5, <1>6, <1>8, <1>9, <1>10, <1>11, <1>12 DEF RaiseEdits
  <1>16. svc' \in Loop
    BY Zenon, <1>11, <1>15, FinishOK
  <1>17. /\ svc'.up = svc.up /\ svc'.loaded = TRUE /\ svc'.rev = r /\ svc'.stack = svc.stack
         /\ svc'.mark = new /\ svc'.unregistered = svc.unregistered /\ svc'.shows = svc.shows
         /\ svc'.at = "idle" /\ svc'.task = "none" /\ svc'.got = NoRow /\ svc'.read = {}
    BY Zenon, <1>11, <1>15, FinishOK
  <1>18. ~g.stale /\ (svc.task = "request" => g.asked <= v.stack.version)
    BY Zenon, <1>1, <1>11, <1>14 DEF IInv, FreshOK
  <1>19. /\ ghost' \in Ghost /\ ~ghost'.stale /\ ghost'.asked = (IF svc.task = "request" THEN 0 ELSE g.asked)
         /\ ghost'.regs = g.regs /\ ghost'.ids = g.ids /\ ghost'.raised = g.raised
         /\ ghost'.again = g.again /\ ghost'.unmarked = g.unmarked /\ ghost'.owing = g.owing
         /\ ghost'.same = g.same /\ ghost'.sent = g.sent /\ ghost'.stored = g.stored
         /\ ghost'.told = g.told /\ ghost'.counted = g.counted /\ ghost'.lost = g.lost
    <2>1. PICK w \in Loop : w = v
      BY Zenon
    <2>2. ghost' = Answered(g, w) /\ (svc.task = "request" => g.asked <= w.stack.version)
      BY ZenonT(60), <1>15, <1>18, <2>1
    <2>3. ~g.stale
      BY Zenon, <1>18
    <2>4. QED
      BY ZenonT(60), <1>13, <2>2, <2>3, AnsweredOK
  <1>20. /\ ghost'.asked = (IF svc.task = "request" THEN 0 ELSE ghost.asked)
         /\ ~ghost'.stale /\ ghost'.regs = ghost.regs /\ ghost'.ids = ghost.ids
         /\ ghost'.raised = ghost.raised \cup more /\ ghost'.again = ghost.again \cup twice
         /\ ghost'.unmarked = ghost.unmarked /\ ghost'.owing = FALSE /\ ghost'.same = ghost.same
         /\ ghost'.sent = sent /\ ghost'.stored = ghost.stored /\ ghost'.told = ghost.told
         /\ ghost'.counted = ghost.counted /\ ghost'.lost = ghost.lost
    BY Zenon, <1>14, <1>19
  <1>21. Over' = Over /\ StoredRevision' = StoredRevision
    BY Zenon, <1>1, <1>20 DEF Over, StoredRevision
  <1>22. PICK rec \in Record : /\ rec = Numbered("raised", new) /\ rec.n = ghost.sent + 1 /\ rec.through = new
                               /\ ~IsEnd(rec)
    <2>1. Numbered("raised", new) \in Record
      BY <1>4 DEF Numbered, Record
    <2>2. /\ Numbered("raised", new).n = ghost.sent + 1 /\ Numbered("raised", new).through = new
          /\ Numbered("raised", new).kind = "raised"
      BY DEF Numbered
    <2>3. ~IsEnd(Numbered("raised", new))
      BY <2>2 DEF IsEnd, Ends
    <2>4. QED
      BY ZenonT(60), <2>1, <2>2, <2>3
  <1>23. ASSUME marks
         PROVE  /\ recorder' \in Recorders /\ RecorderOK'
                /\ recorder'.queue = Append(recorder.queue, rec) /\ recorder'.hand = recorder.hand
                /\ recorder'.flush = "no" /\ recorder'.pending = recorder.pending + 1
                /\ Done' = Done /\ InHand' = InHand
    <2>1. ghost'.sent = ghost.sent + 1 /\ recorder' = Send(recorder, rec)
      BY ZenonT(60), <1>10, <1>15, <1>20, <1>22, <1>23
    <2>2. QED
      BY ZenonT(60), <1>2, <1>21, <1>22, <2>1, SendOK DEF IInv
  <1>24. ASSUME ~marks
         PROVE  recorder' = recorder /\ RecorderOK' /\ Done' = Done /\ ghost'.sent = ghost.sent
    <2>1. recorder' = recorder /\ ghost'.sent = ghost.sent
      BY ZenonT(60), <1>10, <1>15, <1>20, <1>24
    <2>2. RecorderOK'
      BY ZenonT(60), <1>21, <2>1, RecorderKept DEF IInv
    <2>3. QED
      BY ZenonT(60), <2>1, <2>2 DEF Done
  <1>25. TypesOK'
    BY ZenonT(60), <1>1, <1>16, <1>19, <1>23, <1>24 DEF IInv, TypesOK
  <1>26. LoopOK'
    <2>1. recorder'.flush = "no"
      BY Zenon, <1>2, <1>23, <1>24
    <2>2. QED
      BY Zenon, <1>2, <1>17, <2>1 DEF LoopOK
  <1>27. FreshOK'
    <2>1. r <= store.counter /\ NoRow <= store.counter
      <3>1. r <= store.counter
        BY Zenon, <1>9 DEF IInv, FreshOK
      <3>2. NoRow <= store.counter
        BY <1>3 DEF NoRow, Database
      <3>3. QED
        BY ZenonT(60), <3>1, <3>2
    <2>2. r = StoredRevision /\ store.reg # 0 => svc.stack.version >= store.version
      BY ZenonT(60), <1>1, <1>9 DEF IInv, FreshOK
    <2>3. ghost'.asked <= store.version /\ (ghost'.asked # 0 => store.reg # 0)
      <3>1. 0 <= store.version
        BY <1>3 DEF Database
      <3>2. QED
        BY ZenonT(60), <1>20, <3>1 DEF IInv, FreshOK
    <2>4. QED
      BY ZenonT(60), <1>1, <1>17, <1>20, <1>21, <2>1, <2>2, <2>3 DEF IInv, FreshOK
  <1>28. EndsOK'
    <2>1. ASSUME ghost.same, 1..Done \subseteq ghost.stored
          PROVE  Coming(recorder'.queue, recorder'.hand, svc.shows, store.ended)
      <3>1. Coming(recorder.queue, recorder.hand, svc.shows, store.ended)
        BY ZenonT(60), <1>1, <1>2, <2>1 DEF IInv, EndsOK, HasStack
      <3>2. CASE marks
        <4>1. recorder.queue \in Seq(Record \cup {FlushRecord})
          BY Zenon, RecorderParts DEF IInv
        <4>2. QED
          BY ZenonT(60), <1>22, <1>23, <3>1, <3>2, <4>1, ComingSent
      <3>3. CASE ~marks
        BY ZenonT(60), <1>24, <3>1, <3>3
      <3>4. QED
        BY Zenon, <3>2, <3>3
    <2>2. Done' = Done
      BY Zenon, <1>23, <1>24
    <2>3. QED
      BY ZenonT(60), <1>1, <1>2, <1>17, <1>20, <2>1, <2>2 DEF IInv, EndsOK, HasStack
  <1>29. IdsOK'
    <2>1. \A e \in ghost'.raised : e \in svc.read \cup ghost.raised
      BY Zenon, <1>6, <1>20
    <2>2. QED
      BY ZenonT(60), <1>1, <1>17, <1>20, <2>1 DEF IInv, IdsOK
  <1>30. \A e \in store.edits \cup svc.read : e.id \in Nat /\ 0 < e.id
    <2>1. \A e \in store.edits \cup svc.read : e.id \in Nat
      BY <1>4 DEF Edit
    <2>2. QED
      BY Zenon, <2>1 DEF IInv, IdsOK
  <1>31. ASSUME NEW e \in store.edits \cup svc.read, e.fresh, e.id <= new
         PROVE  e \in ghost'.raised
    <2>1. e \in svc.read
      <3>1. SUFFICES ASSUME e \in store.edits, e \notin svc.read
                     PROVE  FALSE
        BY Zenon
      <3>2. \A f \in svc.read : f.id < e.id
        BY ZenonT(60), <1>1, <1>31, <3>1 DEF IInv, EditsOK
      <3>3. new # 0
        <4>1. \A x \in Nat : 0 < x => ~(x <= 0)
          OBVIOUS
        <4>2. QED
          BY ZenonT(60), <1>30, <1>31, <4>1
      <3>4. new < e.id
        BY ZenonT(60), <1>5, <3>2, <3>3
      <3>5. \A x \in Nat, y \in Nat : x < y => ~(y <= x)
        OBVIOUS
      <3>6. QED
        BY ZenonT(60), <1>30, <1>31, <3>4, <3>5
    <2>2. CASE e \in more
      BY Zenon, <1>20, <2>2
    <2>3. CASE e \notin more
      <3>1. ~(e.id > Raised(svc))
        BY ZenonT(60), <1>6, <2>1, <2>3
      <3>2. Raised(svc) \in Nat /\ MarkOK(Raised(svc))
        BY Zenon, <1>4 DEF Raised, IInv, MarksOK
      <3>3. \A x \in Nat, y \in Nat : ~(x > y) => x <= y
        OBVIOUS
      <3>4. e.id <= Raised(svc)
        BY ZenonT(60), <1>30, <3>1, <3>2, <3>3
      <3>5. QED
        BY ZenonT(60), <1>20, <1>31, <3>2, <3>4 DEF MarkOK
    <2>4. QED
      BY ZenonT(60), <2>2, <2>3
  <1>32. MarksOK'
    <2>1. MarkOK(new)'
      BY ZenonT(60), <1>1, <1>5, <1>17, <1>20, <1>31 DEF MarkOK
    <2>2. /\ ghost.ids <= ghost'.ids /\ ghost.raised \subseteq ghost'.raised
          /\ \A e \in store'.edits \cup svc'.read :
                e \in store.edits \cup svc.read \/ (e.fresh => e.id > ghost.ids)
      <3>1. ghost.ids <= ghost.ids
        BY <1>4
      <3>2. QED
        BY ZenonT(60), <1>1, <1>17, <1>20, <3>1
    <2>3. MarkOK(svc.mark)'
      BY Zenon, <1>17, <2>1 DEF MarkOK
    <2>4. MarkOK(store.raised)'
      <3>1. PICK m \in Nat : m = store.raised
        BY Zenon, <1>4
      <3>2. MarkOK(m)'
        BY ZenonT(60), <1>25, <2>2, <3>1, MarkKept DEF IInv, MarksOK
      <3>3. store'.raised = m
        BY Zenon, <1>1, <3>1
      <3>4. QED
        BY Zenon, <3>2, <3>3 DEF MarkOK
    <2>5. CASE marks
      <3>1. MarkOK(rec.through)'
        BY Zenon, <1>22, <2>1 DEF MarkOK
      <3>2. QED
        BY ZenonT(60), <1>2, <1>23, <1>25, <2>2, <2>3, <2>4, <2>5, <3>1, MarksSent
    <2>6. CASE ~marks
      <3>1. recorder' = recorder
        BY Zenon, <1>24, <2>6
      <3>2. recorder.hand # Nothing => MarkOK(recorder.hand.through)'
        <4>1. SUFFICES ASSUME recorder.hand # Nothing
                       PROVE  MarkOK(recorder.hand.through)'
          OBVIOUS
        <4>2. recorder.hand.through \in Nat
          BY <4>1 DEF IInv, TypesOK, Recorders, Record
        <4>3. PICK m \in Nat : m = recorder.hand.through
          BY Zenon, <4>2
        <4>4. MarkOK(m)'
          BY ZenonT(60), <1>25, <2>2, <4>1, <4>3, MarkKept DEF IInv, MarksOK
        <4>5. recorder'.hand.through = m
          BY ZenonT(60), <3>1, <4>3
        <4>6. QED
          BY Zenon, <4>4, <4>5 DEF MarkOK
      <3>3. ASSUME NEW i \in 1..(recorder.pending - InHand)
            PROVE  MarkOK(recorder.queue[i].through)'
        <4>1. PICK m \in Nat : m = recorder.queue[i].through
          BY Zenon, Queue DEF IInv
        <4>2. MarkOK(m)'
          BY ZenonT(60), <1>25, <2>2, <4>1, MarkKept DEF IInv, MarksOK
        <4>3. recorder'.queue[i].through = m
          BY ZenonT(60), <3>1, <4>1
        <4>4. QED
          BY ZenonT(60), <4>2, <4>3 DEF MarkOK
      <3>4. (recorder.pending - InHand)' = recorder.pending - InHand
        BY Zenon, <3>1 DEF InHand
      <3>5. QED
        BY ZenonT(60), <2>3, <2>4, <3>1, <3>2, <3>3, <3>4 DEF MarksOK
    <2>7. QED
      BY Zenon, <2>5, <2>6
  <1>33. EditsOK'
    <2>1. ASSUME r = StoredRevision, NEW e \in store.edits, e.moved, e.fresh
          PROVE  e \in ghost'.raised
      <3>1. CASE e \in svc.read
        BY ZenonT(60), <1>5, <1>31, <2>1, <3>1
      <3>2. CASE e \notin svc.read
        <4>1. StoredRevision = IF svc.loaded THEN svc.rev ELSE svc.got
          BY Zenon, <1>9, <2>1
        <4>2. Announced(e)
          BY ZenonT(60), <1>1, <2>1, <3>2, <4>1 DEF IInv, EditsOK
        <4>3. QED
          BY ZenonT(60), <1>20, <2>1, <4>2 DEF Announced
      <3>3. QED
        BY Zenon, <3>1, <3>2
    <2>2. ASSUME NEW e \in ghost'.raised \cap store.edits
          PROVE  e.id <= new /\ new # 0
      <3>1. e \in svc.read
        BY ZenonT(60), <1>1, <1>6, <1>20, <2>2 DEF IInv, EditsOK
      <3>2. \A x \in Nat : 0 < x => ~(x <= 0)
        OBVIOUS
      <3>3. QED
        BY ZenonT(60), <1>5, <1>30, <3>1, <3>2
    <2>3. ASSUME NEW e \in ghost'.again
          PROVE  e \in ghost.unmarked
      <3>1. CASE e \in ghost.again
        BY Zenon, <3>1 DEF IInv, EditsOK
      <3>2. CASE e \in more /\ e \in ghost.raised
        <4>1. SUFFICES ASSUME e \notin ghost.unmarked
                       PROVE  FALSE
          OBVIOUS
        <4>2. e \in svc.read /\ e.id > Raised(svc)
          BY ZenonT(60), <1>6, <3>2
        <4>3. e.id <= Raised(svc)
          BY ZenonT(60), <1>2, <3>2, <4>1, <4>2 DEF IInv, EditsOK, Raised
        <4>4. Raised(svc) \in Nat
          BY Zenon, <1>4 DEF Raised
        <4>5. \A x \in Nat, y \in Nat : x > y => ~(x <= y)
          OBVIOUS
        <4>6. QED
          BY ZenonT(60), <1>30, <4>2, <4>3, <4>4, <4>5
      <3>3. QED
        BY ZenonT(60), <1>7, <1>20, <2>3, <3>1, <3>2
    <2>4. \A e \in store'.edits \cup svc'.read : e \in store.edits
      BY ZenonT(60), <1>1, <1>17
    <2>5. ghost'.again \subseteq ghost'.unmarked
      BY ZenonT(60), <1>20, <2>3
    <2>6. \A e \in (ghost'.raised \ ghost'.unmarked) \cap (store'.edits \cup svc'.read) :
             e.id <= (IF svc'.mark # 0 THEN svc'.mark ELSE store'.raised)
      BY ZenonT(60), <1>17, <2>2, <2>4
    <2>7. svc'.rev = StoredRevision' => \A e \in store'.edits : Announced(e)'
      BY ZenonT(60), <1>1, <1>17, <1>21, <2>1 DEF Announced
    <2>8. svc'.at = "idle"
      BY Zenon, <1>17
    <2>9. QED
      BY ZenonT(60), <2>5, <2>6, <2>7, <2>8 DEF EditsOK
  <1>34. RecorderOK'
    BY Zenon, <1>23, <1>24
  <1>35. QED
    BY ZenonT(60), <1>25, <1>26, <1>27, <1>28, <1>29, <1>32, <1>33, <1>34 DEF IInv

-----------------------------------------------------------------------------
(* The recorder's thread. *)

\* A step of the recorder alone.
LEMMA RecorderStep ==
    ASSUME IInv, store' = store, svc' = svc, ghost' = ghost,
           recorder' \in Recorders, RecorderOK', MarksOK', recorder'.pending = recorder.pending,
           svc.up => /\ recorder'.flush = "no"
                     /\ \A shows, ended : Coming(recorder.queue, recorder.hand, shows, ended) =>
                                            Coming(recorder'.queue, recorder'.hand, shows, ended)
    PROVE  IInv'
  <1>1. TypesOK'
    BY Zenon DEF IInv, TypesOK
  <1>2. LoopOK'
    BY Zenon DEF IInv, LoopOK
  <1>3. StoredRevision' = StoredRevision /\ Done' = Done
    BY Zenon DEF StoredRevision, Done
  <1>4. FreshOK'
    BY Zenon, <1>3 DEF IInv, FreshOK
  <1>5. EndsOK'
    BY Zenon, <1>3 DEF IInv, EndsOK, HasStack
  <1>6. IdsOK'
    BY Zenon DEF IInv, IdsOK
  <1>7. EditsOK'
    BY Zenon, <1>3 DEF IInv, EditsOK, Announced
  <1>8. QED
    BY ZenonT(60), <1>1, <1>2, <1>4, <1>5, <1>6, <1>7 DEF IInv

\* That the drain has passed moves no record.
LEMMA DrainPassesOK == IInv /\ DrainPasses => IInv'
  <1> SUFFICES ASSUME IInv, DrainPasses
               PROVE  IInv'
    OBVIOUS
  <1>1. recorder \in Recorders
    BY Zenon DEF IInv, TypesOK
  <1>2. recorder' \in Recorders
    BY <1>1 DEF DrainPasses, Recorders
  <1>3. /\ recorder'.queue = recorder.queue /\ recorder'.hand = recorder.hand
        /\ recorder'.pending = recorder.pending /\ recorder'.flush = recorder.flush
    BY <1>1 DEF DrainPasses, Recorders
  <1>4. store' = store /\ svc' = svc /\ ghost' = ghost
    BY Zenon DEF DrainPasses
  <1>5. Done' = Done /\ InHand' = InHand /\ Over' = Over
    BY Zenon, <1>3, <1>4 DEF Done, InHand, Over
  <1>6. RecorderOK'
    BY Zenon, <1>3, <1>4, <1>5 DEF IInv, RecorderOK
  <1>7. MarksOK'
    BY ZenonT(60), <1>3, <1>4, <1>5 DEF IInv, MarksOK, MarkOK
  <1>8. QED
    BY ZenonT(60), <1>2, <1>3, <1>4, <1>6, <1>7, RecorderStep DEF IInv, LoopOK

\* The thread takes the oldest record of the queue.
LEMMA ComingTaken ==
    ASSUME NEW q \in Seq(Record \cup {FlushRecord}), q # <<>>, NEW shows, NEW ended,
           Coming(q, Nothing, shows, ended)
    PROVE  Coming(Tail(q), Head(q), shows, ended)
  <1>1. /\ Len(Tail(q)) \in Nat /\ Head(q) = q[1] /\ Len(q) = Len(Tail(q)) + 1
        /\ \A i \in 1..Len(Tail(q)) : Tail(q)[i] = q[i + 1]
    OBVIOUS
  <1>2. PICK t : t = Tail(q)
    BY Zenon
  <1>3. PICK n \in Nat : n = Len(t)
    BY Zenon, <1>1, <1>2
  <1>4. PICK h : h = Head(q)
    BY Zenon
  <1>5. h = q[1] /\ Len(q) = n + 1 /\ \A i \in 1..n : t[i] = q[i + 1]
    BY ZenonT(60), <1>1, <1>2, <1>3, <1>4
  <1>6. /\ \A i \in 1..(n + 1) :
             IsEnd(q[i]) /\ (\A j \in 1..(n + 1) : j > i => ~IsEnd(q[j])) => shows = (q[i].kind = "ended")
        /\ (\A i \in 1..(n + 1) : ~IsEnd(q[i])) => shows = ended
    BY Zenon, <1>5 DEF Coming, IsEnd
  <1>7. /\ \A i \in 1..n : i + 1 \in 1..(n + 1)
        /\ 1 \in 1..(n + 1)
        /\ \A j \in 1..(n + 1) : j # 1 => j - 1 \in 1..n /\ (j - 1) + 1 = j /\ j > 1
        /\ \A i \in 1..n, j \in 1..(n + 1) : j > i + 1 => j # 1 /\ j - 1 > i
    OBVIOUS
  <1>8. \A j \in 1..(n + 1) : j # 1 => q[j] = t[j - 1]
    BY Zenon, <1>5, <1>7
  <1>9. ASSUME NEW i \in 1..n, IsEnd(t[i]), \A j \in 1..n : j > i => ~IsEnd(t[j])
        PROVE  shows = (t[i].kind = "ended")
    <2>1. i + 1 \in 1..(n + 1) /\ q[i + 1] = t[i]
      BY Zenon, <1>5, <1>7
    <2>2. \A j \in 1..(n + 1) : j > i + 1 => ~IsEnd(q[j])
      BY Zenon, <1>7, <1>8, <1>9
    <2>3. QED
      BY ZenonT(60), <1>6, <1>9, <2>1, <2>2
  <1>10. ASSUME \A i \in 1..n : ~IsEnd(t[i])
         PROVE  shows = (IF IsEnd(h) THEN h.kind = "ended" ELSE ended)
    <2>1. \A j \in 1..(n + 1) : j # 1 => ~IsEnd(q[j])
      BY Zenon, <1>7, <1>8, <1>10
    <2>2. CASE IsEnd(h)
      <3>1. \A j \in 1..(n + 1) : j > 1 => j # 1
        OBVIOUS
      <3>2. QED
        BY ZenonT(60), <1>5, <1>7, <1>6, <2>1, <2>2, <3>1
    <2>3. CASE ~IsEnd(h)
      <3>1. \A j \in 1..(n + 1) : ~IsEnd(q[j])
        BY Zenon, <1>5, <2>1, <2>3
      <3>2. QED
        BY Zenon, <1>6, <2>3, <3>1
    <2>4. QED
      BY Zenon, <2>2, <2>3
  <1>11. QED
    BY ZenonT(60), <1>9, <1>10, <1>2, <1>3, <1>4 DEF Coming

\* The record taken in hand is the first of the queue.
LEMMA TakeOK == IInv /\ Take => IInv'
  <1> SUFFICES ASSUME IInv, Take
               PROVE  IInv'
    OBVIOUS
  <1>1. /\ store' = store /\ svc' = svc /\ ghost' = ghost
        /\ recorder.hand = Nothing /\ recorder.queue # <<>> /\ recorder' = TakeNext(recorder)
    BY Zenon DEF Take, CanTake
  <1>2. recorder \in Recorders
    BY Zenon DEF IInv, TypesOK
  <1>3. PICK q \in Seq(Record \cup {FlushRecord}) : q = recorder.queue
    BY Zenon, RecorderParts DEF IInv
  <1>4. PICK n \in Nat : n = recorder.pending
    BY Zenon, RecorderParts DEF IInv
  <1>5. InHand = 0 /\ n - 0 = n
    BY <1>1 DEF InHand
  <1>6. Queued(q, n, Done + 0, recorder.flush)
    BY ZenonT(60), <1>3, <1>4, <1>5 DEF IInv, RecorderOK
  <1>7. /\ q # <<>> /\ Head(q) = q[1] /\ Len(q) \in Nat \ {0} /\ Tail(q) \in Seq(Record \cup {FlushRecord})
        /\ Len(Tail(q)) = Len(q) - 1 /\ \A i \in 1..(Len(q) - 1) : Tail(q)[i] = q[i + 1]
    <2>1. q # <<>>
      BY Zenon, <1>1, <1>3
    <2>2. QED
      BY <2>1
  <1>8. Done \in Nat /\ Done + 0 = Done
    <2>1. Done \in Nat
      BY Zenon, RecorderParts DEF IInv
    <2>2. QED
      BY <2>1
  <1>9. CASE q[1].kind = "flush"
    <2>1. recorder' = [recorder EXCEPT !.queue = Tail(q), !.drain = "none", !.flush = "answered"]
      <3>1. Head(recorder.queue).kind = "flush"
        BY Zenon, <1>3, <1>7, <1>9
      <3>2. recorder' = [recorder EXCEPT !.queue = Tail(@), !.drain = "none", !.flush = "answered"]
        BY Zenon, <1>1, <3>1 DEF TakeNext
      <3>3. QED
        BY Zenon, <1>2, <1>3, <3>2 DEF Recorders
    <2>2. n = 0
      <3>1. SUFFICES ASSUME n # 0
                     PROVE  FALSE
        OBVIOUS
      <3>2. 1 \in 1..n
        BY <3>1
      <3>3. q[1] \in Record
        BY Zenon, <1>6, <3>2 DEF Queued
      <3>4. QED
        BY Zenon, <1>9, <3>3 DEF Record
    <2>3. recorder.flush = "waits" /\ Len(q) = 1
      <3>1. recorder.flush = "waits"
        BY Zenon, <1>6, <1>7, <2>2 DEF Queued
      <3>2. Len(q) = n + 1
        BY Zenon, <1>6, <3>1 DEF Queued
      <3>3. QED
        BY <2>2, <3>1, <3>2
    <2>4. recorder' \in Recorders
      BY Zenon, <1>2, <1>7, <2>1 DEF Recorders
    <2>5. /\ recorder'.queue = Tail(q) /\ recorder'.hand = Nothing /\ recorder'.pending = 0
          /\ recorder'.flush = "answered"
      BY ZenonT(60), <1>1, <1>2, <1>4, <2>1, <2>2 DEF Recorders
    <2>6. Done' = Done /\ InHand' = 0 /\ Over' = Over /\ Len(Tail(q)) = 0
      <3>1. Done' = Done /\ InHand' = 0 /\ Over' = Over
        BY ZenonT(60), <1>1, <1>4, <2>2, <2>5 DEF Done, InHand, Over
      <3>2. Len(Tail(q)) = 0
        BY <1>7, <2>3
      <3>3. QED
        BY Zenon, <3>1, <3>2
    <2>7. 0 - 0 = 0 /\ 1..0 = {} /\ 0 <= 0
      OBVIOUS
    <2>8. RecorderOK'
      <3>1. Queued(Tail(q), 0, Done, "answered")
        BY Zenon, <2>6, <2>7 DEF Queued
      <3>2. recorder'.pending - InHand' = 0 /\ Done' + InHand' = Done
        BY ZenonT(60), <1>8, <2>5, <2>6, <2>7
      <3>3. recorder'.pending <= ghost'.sent
        BY ZenonT(60), <1>1, <1>4, <2>2, <2>5 DEF IInv, RecorderOK
      <3>4. Over' = 1..Done'
        BY Zenon, <2>6 DEF IInv, RecorderOK
      <3>5. QED
        BY ZenonT(60), <2>5, <2>6, <2>7, <3>1, <3>2, <3>3, <3>4 DEF RecorderOK
    <2>9. MarksOK'
      <3>1. recorder'.pending - InHand' = 0
        BY Zenon, <2>5, <2>6, <2>7
      <3>2. MarkOK(svc.mark)' /\ MarkOK(store.raised)'
        BY Zenon, <1>1 DEF IInv, MarksOK, MarkOK
      <3>3. \A i \in 1..(recorder'.pending - InHand') : MarkOK(recorder.queue[i].through)'
        BY Zenon, <2>7, <3>1
      <3>4. QED
        BY Zenon, <2>5, <3>2, <3>3 DEF MarksOK
    <2>10. ~svc.up
      BY Zenon, <2>3 DEF IInv, LoopOK
    <2>11. QED
      BY ZenonT(60), <1>1, <1>4, <2>2, <2>4, <2>5, <2>8, <2>9, <2>10, RecorderStep
  <1>10. CASE q[1].kind # "flush"
    <2>1. recorder' = [recorder EXCEPT !.queue = Tail(q), !.hand = q[1]]
      <3>1. Head(recorder.queue).kind # "flush" /\ Head(recorder.queue) = q[1]
        BY Zenon, <1>3, <1>7, <1>10
      <3>2. recorder' = [recorder EXCEPT !.queue = Tail(@), !.hand = q[1]]
        BY Zenon, <1>1, <3>1 DEF TakeNext
      <3>3. QED
        BY Zenon, <1>2, <1>3, <3>2 DEF Recorders
    <2>2. n # 0
      <3>1. SUFFICES ASSUME n = 0
                     PROVE  FALSE
        OBVIOUS
      <3>2. recorder.flush = "waits"
        BY Zenon, <1>6, <1>7, <3>1 DEF Queued
      <3>3. q[n + 1] = FlushRecord /\ n + 1 = 1
        BY <1>6, <3>1, <3>2 DEF Queued
      <3>4. QED
        BY <1>10, <3>3 DEF FlushRecord
    <2>3. 1 \in 1..n
      BY <2>2
    <2>4. q[1] \in Record /\ q[1].n = Done + 1 /\ q[1] # Nothing
      BY Zenon, <1>6, <1>8, <2>3, StacksConstants DEF Queued
    <2>5. recorder' \in Recorders
      BY ZenonT(60), <1>2, <1>7, <2>1, <2>4 DEF Recorders
    <2>6. /\ recorder'.queue = Tail(q) /\ recorder'.hand = q[1] /\ recorder'.pending = n
          /\ recorder'.flush = recorder.flush
      BY Zenon, <1>2, <1>4, <2>1 DEF Recorders
    <2>7. Done' = Done /\ InHand' = 1 /\ Over' = Over
      BY ZenonT(60), <1>1, <1>4, <2>4, <2>6 DEF Done, InHand, Over
    <2>8. PICK k \in Nat : n = k + 1 /\ n - 1 = k /\ 1 <= n
      <3>1. n - 1 \in Nat /\ n = (n - 1) + 1 /\ 1 <= n
        BY <2>2
      <3>2. QED
        BY Zenon, <3>1
    <2>9. ASSUME NEW i \in 1..k
          PROVE  i + 1 \in 1..n /\ Tail(q)[i] = q[i + 1] /\ q[i + 1].n = Done + 1 + i
      <3>1. i + 1 \in 1..n /\ Done + 0 + (i + 1) = Done + 1 + i
        BY <1>8, <2>8
      <3>2. q[i + 1].n = Done + 1 + i
        BY Zenon, <1>6, <3>1 DEF Queued
      <3>3. Len(q) >= n
        BY <1>6 DEF Queued
      <3>4. i \in 1..(Len(q) - 1)
        BY <1>7, <2>8, <3>3
      <3>5. QED
        BY ZenonT(60), <1>7, <3>1, <3>2, <3>4
    <2>10. Queued(Tail(q), k, Done + 1, recorder.flush)
      <3>1. recorder.flush # "waits" => Len(Tail(q)) = k
        BY Zenon, <1>6, <1>7, <2>8 DEF Queued
      <3>2. ASSUME recorder.flush = "waits"
            PROVE  Len(Tail(q)) = k + 1 /\ Tail(q)[k + 1] = FlushRecord
        <4>1. Len(q) = n + 1 /\ q[n + 1] = FlushRecord
          BY Zenon, <1>6, <3>2 DEF Queued
        <4>2. k + 1 \in 1..(Len(q) - 1) /\ Len(q) - 1 = k + 1 /\ (k + 1) + 1 = n + 1
          BY <2>8, <4>1
        <4>3. Tail(q)[k + 1] = q[(k + 1) + 1] /\ Len(Tail(q)) = Len(q) - 1
          BY Zenon, <1>7, <4>2
        <4>4. QED
          BY Zenon, <4>1, <4>2, <4>3
      <3>3. \A i \in 1..k : Tail(q)[i] \in Record /\ Tail(q)[i].n = Done + 1 + i
        BY Zenon, <1>6, <2>9 DEF Queued
      <3>4. QED
        BY Zenon, <3>1, <3>2, <3>3 DEF Queued
    <2>11. RecorderOK'
      <3>1. recorder'.pending - InHand' = k /\ Done' + InHand' = Done + 1 /\ InHand' <= recorder'.pending
        BY Zenon, <2>6, <2>7, <2>8
      <3>2. recorder'.flush = "answered" => recorder'.pending = 0
        BY Zenon, <1>4, <2>6 DEF IInv, RecorderOK
      <3>3. recorder'.pending <= ghost'.sent /\ Over' = 1..Done'
        BY Zenon, <1>1, <1>4, <2>6, <2>7 DEF IInv, RecorderOK
      <3>4. recorder'.hand.n = Done' + 1
        BY Zenon, <2>4, <2>6, <2>7
      <3>5. QED
        BY ZenonT(60), <2>6, <2>10, <3>1, <3>2, <3>3, <3>4 DEF RecorderOK
    <2>12. MarksOK'
      <3>1. recorder'.pending - InHand' = k
        BY Zenon, <2>6, <2>7, <2>8
      <3>2. MarkOK(svc.mark)' /\ MarkOK(store.raised)'
        BY Zenon, <1>1 DEF IInv, MarksOK, MarkOK
      <3>3. ASSUME NEW i \in 1..n
            PROVE  MarkOK(q[i].through)'
        <4>1. MarkOK(q[i].through)
          BY Zenon, <1>3, <1>4, <1>5 DEF IInv, MarksOK
        <4>2. QED
          BY Zenon, <1>1, <4>1 DEF MarkOK
      <3>4. MarkOK(recorder.hand.through)'
        <4>1. MarkOK(q[1].through)'
          BY Zenon, <2>3, <3>3
        <4>2. QED
          BY Zenon, <2>6, <4>1 DEF MarkOK
      <3>5. ASSUME NEW i \in 1..k
            PROVE  MarkOK(recorder.queue[i].through)'
        <4>1. i + 1 \in 1..n /\ recorder'.queue[i] = q[i + 1]
          BY Zenon, <2>6, <2>9
        <4>2. PICK j \in 1..n : recorder'.queue[i] = q[j]
          BY Zenon, <4>1
        <4>3. MarkOK(q[j].through)'
          BY Zenon, <3>3
        <4>4. QED
          BY Zenon, <4>2, <4>3 DEF MarkOK
      <3>6. QED
        BY Zenon, <3>1, <3>2, <3>4, <3>5 DEF MarksOK
    <2>13. ASSUME NEW shows, NEW ended, Coming(recorder.queue, recorder.hand, shows, ended)
           PROVE  Coming(recorder'.queue, recorder'.hand, shows, ended)
      BY ZenonT(60), <1>1, <1>3, <1>7, <2>6, <2>13, ComingTaken
    <2>14. svc.up => recorder'.flush = "no"
      BY Zenon, <2>6 DEF IInv, LoopOK
    <2>15. QED
      BY ZenonT(60), <1>1, <1>4, <2>5, <2>6, <2>11, <2>12, <2>13, <2>14, RecorderStep
  <1>11. QED
    BY Zenon, <1>9, <1>10

\* One write of the recorder's thread.
LEMMA WriteOK ==
    ASSUME NEW d \in Database, NEW rec \in Record, d.ended => d.has
    PROVE  /\ Write(d, rec) \in Database
           /\ Write(d, rec).reg = d.reg /\ Write(d, rec).counter = d.counter /\ Write(d, rec).rev = d.rev
           /\ Write(d, rec).version = d.version /\ Write(d, rec).has = d.has /\ Write(d, rec).edits = d.edits
           /\ Write(d, rec).raised \in {d.raised, rec.through} /\ d.raised <= Write(d, rec).raised
           /\ Write(d, rec).ended => Write(d, rec).has
           /\ Write(d, rec).ended = (IF rec.kind = "ended" THEN d.has
                                     ELSE IF rec.kind = "cleared" THEN FALSE ELSE d.ended)
  <1>1. rec.kind \in {"raised", "ended", "cleared"} /\ rec.through \in Nat
    BY DEF Record
  <1>2. d.raised \in Nat /\ d.has \in BOOLEAN /\ d.raised <= d.raised
    BY DEF Database
  <1>3. CASE rec.kind = "raised"
    <2>1. Write(d, rec) = MarkRaised(d, rec.through)
      BY Zenon, <1>3 DEF Write
    <2>2. CASE d.reg = 0
      <3>1. Write(d, rec) = d
        BY Zenon, <2>1, <2>2 DEF MarkRaised
      <3>2. QED
        BY Zenon, <1>2, <1>3, <3>1
    <2>3. CASE d.reg # 0
      <3>1. PICK m \in Nat : m = Max({d.raised, rec.through}) /\ m \in {d.raised, rec.through} /\ d.raised <= m
        BY Zenon, <1>1, <1>2, MaxOfTwo
      <3>2. Write(d, rec) = [d EXCEPT !.raised = m]
        <4>1. Write(d, rec) = [d EXCEPT !.raised = Max({@, rec.through})]
          BY Zenon, <2>1, <2>3 DEF MarkRaised
        <4>2. QED
          BY Zenon, <3>1, <4>1 DEF Database
      <3>3. Write(d, rec) \in Database
        BY Zenon, <3>2 DEF Database
      <3>4. QED
        BY Zenon, <1>3, <3>1, <3>2, <3>3 DEF Database
    <2>4. QED
      BY Zenon, <2>2, <2>3
  <1>4. CASE rec.kind = "ended"
    <2>1. Write(d, rec) = [d EXCEPT !.ended = d.has]
      BY <1>4 DEF Write, RecordEnd
    <2>2. Write(d, rec) \in Database
      BY <2>1 DEF Database
    <2>3. QED
      BY Zenon, <1>2, <1>4, <2>1, <2>2 DEF Database
  <1>5. CASE rec.kind = "cleared"
    <2>1. Write(d, rec) = [d EXCEPT !.ended = FALSE]
      BY <1>5 DEF Write, ClearEnd
    <2>2. Write(d, rec) \in Database
      BY Zenon, <2>1 DEF Database
    <2>3. QED
      BY Zenon, <1>2, <1>5, <2>1, <2>2 DEF Database
  <1>6. QED
    BY ZenonT(60), <1>1, <1>3, <1>4, <1>5

\* The record in hand is settled: stored, or given up.
LEMMA SettledOK ==
    ASSUME IInv, recorder.hand # Nothing, recorder' = Settled(recorder), ghost'.sent = ghost.sent,
           Over' = Over \cup {recorder.hand.n}
    PROVE  /\ recorder' \in Recorders /\ RecorderOK'
           /\ recorder'.queue = recorder.queue /\ recorder'.hand = Nothing /\ recorder'.flush = recorder.flush
           /\ Done' = Done + 1 /\ recorder'.pending - InHand' = recorder.pending - InHand
           /\ recorder.hand.n = Done + 1 /\ recorder.pending # 0
  <1>1. recorder \in Recorders /\ ghost.sent \in Nat
    BY DEF IInv, TypesOK, Ghost
  <1>2. InHand = 1
    BY Zenon DEF InHand
  <1>3. recorder.pending \in Nat /\ 1 <= recorder.pending /\ recorder.pending <= ghost.sent
    <2>1. recorder.pending \in Nat
      BY Zenon, RecorderParts DEF IInv
    <2>2. QED
      BY Zenon, <1>2, <2>1 DEF IInv, RecorderOK
  <1>4. PICK k \in Nat : k = recorder.pending - 1 /\ recorder.pending = k + 1
    BY <1>3
  <1>5. recorder' = [recorder EXCEPT !.hand = Nothing, !.pending = k]
    BY <1>1, <1>4 DEF Settled, Recorders
  <1>6. recorder' \in Recorders
    BY Zenon, <1>1, <1>5 DEF Recorders
  <1>7. /\ recorder'.queue = recorder.queue /\ recorder'.hand = Nothing /\ recorder'.flush = recorder.flush
        /\ recorder'.pending = k
    BY <1>1, <1>5 DEF Recorders
  <1>8. InHand' = 0
    BY Zenon, <1>7 DEF InHand
  <1>9. PICK d \in Nat : d = Done
    BY Zenon, RecorderParts DEF IInv
  <1>10. Done' = d + 1
    <2>1. \A a \in Nat, b \in Nat : a - b = (a - (b + 1)) + 1
      OBVIOUS
    <2>2. Done = ghost.sent - (k + 1) /\ Done' = ghost.sent - k
      BY Zenon, <1>4, <1>7 DEF Done
    <2>3. QED
      BY ZenonT(60), <1>1, <1>9, <2>1, <2>2
  <1>11. k - 0 = k /\ (d + 1) + 0 = d + 1 /\ 0 <= k /\ 1..(d + 1) = 1..d \cup {d + 1} /\ k <= ghost.sent
    BY <1>1, <1>3, <1>4
  <1>12. recorder.hand.n = d + 1
    BY Zenon, <1>9 DEF IInv, RecorderOK
  <1>13. RecorderOK'
    <2>1. Over' = 1..(d + 1)
      BY Zenon, <1>9, <1>11, <1>12 DEF IInv, RecorderOK
    <2>2. Queued(recorder.queue, k, d + 1, recorder.flush)
      BY Zenon, <1>2, <1>4, <1>9 DEF IInv, RecorderOK
    <2>3. recorder.flush # "answered"
      <3>1. recorder.pending # 0
        BY <1>3
      <3>2. QED
        BY Zenon, <3>1 DEF IInv, RecorderOK
    <2>4. recorder'.pending - InHand' = k /\ Done' + InHand' = d + 1
      BY Zenon, <1>7, <1>8, <1>10, <1>11
    <2>5. QED
      BY ZenonT(60), <1>7, <1>8, <1>10, <1>11, <2>1, <2>2, <2>3, <2>4 DEF RecorderOK
  <1>14. recorder.pending # 0 /\ recorder'.pending - InHand' = recorder.pending - InHand
    <2>1. recorder.pending # 0
      BY <1>3
    <2>2. QED
      BY ZenonT(60), <1>2, <1>4, <1>7, <1>8, <1>11, <2>1
  <1>15. QED
    BY ZenonT(60), <1>6, <1>7, <1>9, <1>10, <1>12, <1>13, <1>14

\* A record in hand lands, or is given up with a notice.
LEMMA LandOK == IInv /\ Land => IInv'
  <1> SUFFICES ASSUME IInv, Land
               PROVE  IInv'
    OBVIOUS
  <1>1. recorder.hand # Nothing /\ svc' = svc
    BY Zenon DEF Land
  <1>2. PICK answer \in {"ok", "busy", "refused"}, overBudget \in BOOLEAN :
           \E round \in Rounds(recorder, answer, overBudget) :
              IF round = "again" THEN UNCHANGED <<store, recorder, ghost>>
              ELSE /\ recorder' = Settled(recorder)
                   /\ store' = IF round = "stored" THEN Write(store, recorder.hand) ELSE store
                   /\ ghost' = [ghost EXCEPT ![round] = @ \cup {recorder.hand.n}]
    BY Zenon DEF Land
  <1>3. PICK round \in Rounds(recorder, answer, overBudget) :
           IF round = "again" THEN UNCHANGED <<store, recorder, ghost>>
           ELSE /\ recorder' = Settled(recorder)
                /\ store' = IF round = "stored" THEN Write(store, recorder.hand) ELSE store
                /\ ghost' = [ghost EXCEPT ![round] = @ \cup {recorder.hand.n}]
    BY Zenon, <1>2
  <1>4. round \in {"again", "told", "stored"}
    BY Zenon, <1>3 DEF Rounds
  <1>5. store \in Database /\ ghost \in Ghost /\ svc \in Loop /\ recorder.hand \in Record
    BY Zenon, <1>1, RecorderParts DEF IInv, TypesOK
  <1>6. PICK number \in Nat : number = recorder.hand.n
    BY Zenon, <1>5 DEF Record
  <1>7. CASE round = "again"
    <2>1. store' = store /\ recorder' = recorder /\ ghost' = ghost
      BY Zenon, <1>3, <1>7
    <2>2. /\ StoredRevision' = StoredRevision /\ Done' = Done /\ InHand' = InHand /\ Over' = Over
      BY Zenon, <2>1 DEF StoredRevision, Done, InHand, Over
    <2>3. TypesOK' /\ LoopOK' /\ FreshOK'
      BY ZenonT(60), <1>1, <2>1, <2>2 DEF IInv, TypesOK, LoopOK, FreshOK
    <2>4. RecorderOK' /\ EndsOK' /\ IdsOK'
      BY ZenonT(60), <1>1, <2>1, <2>2 DEF IInv, RecorderOK, EndsOK, HasStack, IdsOK
    <2>5. MarksOK' /\ EditsOK'
      BY ZenonT(60), <1>1, <2>1, <2>2 DEF IInv, MarksOK, MarkOK, EditsOK, Announced
    <2>6. QED
      BY ZenonT(60), <2>3, <2>4, <2>5 DEF IInv
  <1>8. CASE round # "again"
    <2>1. /\ recorder' = Settled(recorder)
          /\ store' = IF round = "stored" THEN Write(store, recorder.hand) ELSE store
          /\ ghost' = [ghost EXCEPT ![round] = @ \cup {recorder.hand.n}]
      BY Zenon, <1>3, <1>8
    <2>2. /\ ghost' \in Ghost
          /\ ghost'.regs = ghost.regs /\ ghost'.ids = ghost.ids /\ ghost'.raised = ghost.raised
          /\ ghost'.again = ghost.again /\ ghost'.unmarked = ghost.unmarked /\ ghost'.owing = ghost.owing
          /\ ghost'.asked = ghost.asked /\ ghost'.stale = ghost.stale /\ ghost'.same = ghost.same
          /\ ghost'.sent = ghost.sent /\ ghost'.counted = ghost.counted /\ ghost'.lost = ghost.lost
          /\ ghost'.stored = (IF round = "stored" THEN ghost.stored \cup {number} ELSE ghost.stored)
          /\ ghost'.told = (IF round = "stored" THEN ghost.told ELSE ghost.told \cup {number})
      <3>1. CASE round = "stored"
        <4>1. PICK a \in SUBSET Nat : a = ghost.stored \cup {number}
          BY Zenon, <1>5 DEF Ghost
        <4>2. ghost' = [ghost EXCEPT !.stored = a]
          BY ZenonT(60), <1>5, <1>6, <2>1, <3>1, <4>1 DEF Ghost
        <4>3. ghost' \in Ghost
          BY Zenon, <1>5, <4>2 DEF Ghost
        <4>4. QED
          BY ZenonT(60), <1>5, <3>1, <4>1, <4>2, <4>3 DEF Ghost
      <3>2. CASE round # "stored"
        <4>1. round = "told"
          BY Zenon, <1>4, <1>8, <3>2
        <4>2. PICK a \in SUBSET Nat : a = ghost.told \cup {number}
          BY Zenon, <1>5 DEF Ghost
        <4>3. ghost' = [ghost EXCEPT !.told = a]
          BY ZenonT(60), <1>5, <1>6, <2>1, <4>1, <4>2 DEF Ghost
        <4>4. ghost' \in Ghost
          BY Zenon, <1>5, <4>3 DEF Ghost
        <4>5. QED
          BY ZenonT(60), <1>5, <3>2, <4>2, <4>3, <4>4 DEF Ghost
      <3>3. QED
        BY Zenon, <3>1, <3>2
    <2>3. Over' = Over \cup {recorder.hand.n}
      <3>1. CASE round = "stored"
        <4>1. ghost'.stored = ghost.stored \cup {number} /\ ghost'.told = ghost.told
          BY Zenon, <2>2, <3>1
        <4>2. QED
          BY Zenon, <1>6, <2>2, <4>1 DEF Over
      <3>2. CASE round # "stored"
        <4>1. ghost'.stored = ghost.stored /\ ghost'.told = ghost.told \cup {number}
          BY Zenon, <2>2, <3>2
        <4>2. QED
          BY Zenon, <1>6, <2>2, <4>1 DEF Over
      <3>3. QED
        BY Zenon, <3>1, <3>2
    <2>4. /\ recorder' \in Recorders /\ RecorderOK'
          /\ recorder'.queue = recorder.queue /\ recorder'.hand = Nothing /\ recorder'.flush = recorder.flush
          /\ Done' = Done + 1 /\ recorder'.pending - InHand' = recorder.pending - InHand
          /\ number = Done + 1 /\ recorder.pending # 0
      BY ZenonT(60), <1>1, <1>6, <2>1, <2>2, <2>3, SettledOK
    <2>5. /\ store' \in Database
          /\ store'.reg = store.reg /\ store'.counter = store.counter /\ store'.rev = store.rev
          /\ store'.version = store.version /\ store'.has = store.has /\ store'.edits = store.edits
          /\ store'.raised \in {store.raised, recorder.hand.through} /\ store.raised <= store'.raised
          /\ store'.ended => store'.has
      <3>1. store.ended => store.has
        BY Zenon DEF IInv, EndsOK
      <3>2. store.raised <= store.raised
        BY <1>5 DEF Database
      <3>3. CASE round = "stored"
        <4>1. store' = Write(store, recorder.hand)
          BY Zenon, <2>1, <3>3
        <4>2. QED
          BY ZenonT(60), <1>5, <3>1, <4>1, WriteOK
      <3>4. CASE round # "stored"
        <4>1. store' = store
          BY Zenon, <2>1, <3>4
        <4>2. QED
          BY ZenonT(60), <1>5, <3>1, <3>2, <4>1
      <3>5. QED
        BY Zenon, <3>3, <3>4
    <2>6. TypesOK'
      BY ZenonT(60), <1>1, <1>5, <2>2, <2>4, <2>5 DEF TypesOK
    <2>7. LoopOK'
      BY Zenon, <1>1, <2>4 DEF IInv, LoopOK
    <2>8. StoredRevision' = StoredRevision
      BY Zenon, <2>5 DEF StoredRevision
    <2>9. FreshOK'
      BY ZenonT(60), <1>1, <2>2, <2>5, <2>8 DEF IInv, FreshOK
    <2>10. IdsOK'
      BY Zenon, <1>1, <2>2, <2>5 DEF IInv, IdsOK
    <2>11. EndsOK'
      <3>1. ASSUME svc.up, ghost.same, HasStack, svc.at # "ends", 1..Done' \subseteq ghost'.stored
            PROVE  Coming(recorder.queue, Nothing, svc.shows, store'.ended)
        <4>1. PICK d \in Nat : d = Done
          BY Zenon, RecorderParts DEF IInv
        <4>2. d + 1 \in 1..(d + 1) /\ d + 1 \notin 1..d /\ 1..d \subseteq 1..(d + 1)
          OBVIOUS
        <4>3. ghost.stored \subseteq 1..d
          BY Zenon, <4>1 DEF IInv, RecorderOK, Over
        <4>4. 1..(d + 1) \subseteq ghost'.stored
          BY Zenon, <2>4, <3>1, <4>1
        <4>5. round = "stored"
          BY Zenon, <2>2, <4>2, <4>3, <4>4
        <4>6. ghost'.stored = ghost.stored \cup {d + 1}
          BY ZenonT(60), <2>2, <2>4, <4>1, <4>5
        <4>7. 1..d \subseteq ghost.stored
          BY ZenonT(60), <4>2, <4>4, <4>6
        <4>8. Coming(recorder.queue, recorder.hand, svc.shows, store.ended)
          BY ZenonT(60), <3>1, <4>1, <4>7 DEF IInv, EndsOK
        <4>9. store' = Write(store, recorder.hand) /\ (store.ended => store.has)
          BY Zenon, <2>1, <4>5 DEF IInv, EndsOK
        <4>10. store'.ended = (IF recorder.hand.kind = "ended" THEN store.has
                               ELSE IF recorder.hand.kind = "cleared" THEN FALSE ELSE store.ended)
          BY ZenonT(60), <1>5, <4>9, WriteOK
        <4>11. svc.shows => store.has
          BY Zenon, <3>1 DEF IInv, EndsOK
        <4>12. svc.shows \in BOOLEAN /\ store.has \in BOOLEAN /\ recorder.hand.kind \in {"raised", "ended", "cleared"}
          BY <1>5 DEF Loop, Database, Record
        <4>13. svc.shows = (IF IsEnd(recorder.hand) THEN recorder.hand.kind = "ended" ELSE store.ended) =>
                 svc.shows = store'.ended
          <5>1. CASE recorder.hand.kind = "ended"
            <6>1. IsEnd(recorder.hand) /\ store'.ended = store.has
              BY ZenonT(60), <1>1, <4>10, <5>1 DEF IsEnd, Ends
            <6>2. QED
              BY ZenonT(60), <4>11, <4>12, <5>1, <6>1
          <5>2. CASE recorder.hand.kind = "cleared"
            <6>1. IsEnd(recorder.hand) /\ store'.ended = FALSE /\ ~(recorder.hand.kind = "ended")
              BY Zenon, <1>1, <4>10, <5>2 DEF IsEnd, Ends
            <6>2. QED
              BY Zenon, <4>12, <6>1
          <5>3. CASE recorder.hand.kind = "raised"
            <6>1. ~IsEnd(recorder.hand) /\ store'.ended = store.ended
              BY Zenon, <4>10, <5>3 DEF IsEnd, Ends
            <6>2. QED
              BY Zenon, <6>1
          <5>4. QED
            BY ZenonT(60), <4>12, <5>1, <5>2, <5>3
        <4>14. QED
          BY Zenon, <4>8, <4>13 DEF Coming, IsEnd
      <3>2. ~(svc.at = "ends" /\ ghost.same)
        BY Zenon, <2>4 DEF IInv, EndsOK
      <3>3. HasStack' = HasStack
        BY Zenon, <1>1 DEF HasStack
      <3>4. svc'.shows => svc'.stack.has
        BY Zenon, <1>1 DEF IInv, EndsOK
      <3>5. svc'.up /\ ghost'.same /\ HasStack' /\ svc'.stack.has => store'.has
        BY Zenon, <1>1, <2>2, <2>5, <3>3 DEF IInv, EndsOK
      <3>6. QED
        BY ZenonT(60), <1>1, <2>2, <2>4, <2>5, <3>1, <3>2, <3>3, <3>4, <3>5 DEF EndsOK
    <2>12. MarksOK'
      <3>1. ASSUME NEW m \in Nat, MarkOK(m)
            PROVE  MarkOK(m)'
        BY ZenonT(60), <1>1, <2>2, <2>5, <3>1 DEF MarkOK
      <3>2. recorder.hand.through \in Nat /\ store.raised \in Nat
        BY <1>5 DEF Record, Database
      <3>3. MarkOK(svc.mark)'
        BY ZenonT(60), <1>1, <2>2, <2>5 DEF IInv, MarksOK, MarkOK
      <3>4. MarkOK(store.raised)'
        <4>1. PICK m \in Nat : m = store'.raised /\ MarkOK(m)
          BY ZenonT(60), <1>1, <2>5, <3>2 DEF IInv, MarksOK
        <4>2. MarkOK(m)'
          BY Zenon, <3>1, <4>1
        <4>3. QED
          BY Zenon, <4>1, <4>2 DEF MarkOK
      <3>5. ASSUME NEW i \in 1..(recorder.pending - InHand)
            PROVE  MarkOK(recorder.queue[i].through)'
        <4>1. PICK m \in Nat : m = recorder.queue[i].through
          BY Zenon, Queue DEF IInv
        <4>2. MarkOK(m)'
          BY Zenon, <3>1, <4>1 DEF IInv, MarksOK
        <4>3. recorder'.queue[i].through = m
          BY Zenon, <2>4, <4>1
        <4>4. QED
          BY Zenon, <4>2, <4>3 DEF MarkOK
      <3>6. QED
        BY Zenon, <2>4, <3>3, <3>4, <3>5 DEF MarksOK
    <2>13. EditsOK'
      <3>1. ASSUME svc.up, NEW e \in (ghost.raised \ ghost.unmarked) \cap (store.edits \cup svc.read)
            PROVE  e.id <= (IF svc.mark # 0 THEN svc.mark ELSE store'.raised)
        <4>1. e.id <= (IF svc.mark # 0 THEN svc.mark ELSE store.raised)
          BY Zenon, <3>1 DEF IInv, EditsOK
        <4>2. e.id \in Nat /\ store.raised \in Nat /\ store'.raised \in Nat
          BY Zenon, <1>5, <2>5, <3>1 DEF Database, Ghost, Edit
        <4>3. \A a \in Nat, b \in Nat, c \in Nat : a <= b /\ b <= c => a <= c
          OBVIOUS
        <4>4. QED
          BY ZenonT(60), <2>5, <4>1, <4>2, <4>3
      <3>2. \A e \in store.edits : Announced(e)' <=> Announced(e)
        BY Zenon, <2>2 DEF Announced
      <3>3. svc'.up => \A e \in (ghost'.raised \ ghost'.unmarked) \cap (store'.edits \cup svc'.read) :
                         e.id <= (IF svc'.mark # 0 THEN svc'.mark ELSE store'.raised)
        BY Zenon, <1>1, <2>2, <2>5, <3>1
      <3>4. QED
        BY ZenonT(60), <1>1, <2>2, <2>5, <2>8, <3>2, <3>3 DEF IInv, EditsOK
    <2>14. QED
      BY ZenonT(60), <2>4, <2>6, <2>7, <2>9, <2>10, <2>11, <2>12, <2>13 DEF IInv
  <1>9. QED
    BY Zenon, <1>7, <1>8

-----------------------------------------------------------------------------
(* The end of the service. *)

\* What holds once the process is gone, whatever its last write did.
LEMMA GoneOK ==
    ASSUME IInv, svc' = Down, recorder' \in Recorders, store' \in Database, ghost' \in Ghost,
           store'.reg = store.reg, store'.counter = store.counter, store'.rev = store.rev,
           store'.version = store.version, store'.has = store.has, store'.edits = store.edits,
           store'.ended => store'.has,
           ghost'.regs = ghost.regs, ghost'.ids = ghost.ids, ghost'.raised = ghost.raised,
           ghost'.again = ghost.again, ghost'.unmarked = ghost.unmarked, ghost'.stale = ghost.stale,
           ghost'.asked \in {ghost.asked, 0}
    PROVE  /\ TypesOK' /\ LoopOK' /\ FreshOK' /\ EndsOK' /\ IdsOK' /\ EditsOK'
           /\ MarkOK(svc.mark)' /\ \A m \in Nat : MarkOK(m) => MarkOK(m)'
  <1>1. /\ svc' \in Loop
        /\ svc'.up = FALSE /\ svc'.loaded = FALSE /\ svc'.rev = NoRow /\ svc'.mark = 0
        /\ svc'.shows = FALSE /\ svc'.at = "idle" /\ svc'.task = "none" /\ svc'.got = NoRow
        /\ svc'.read = {}
    BY Zenon, UnloadedOK
  <1>2. TypesOK'
    BY Zenon, <1>1 DEF TypesOK
  <1>3. LoopOK'
    BY Zenon, <1>1 DEF LoopOK
  <1>4. FreshOK'
    <2>1. NoRow <= store'.counter /\ 0 <= store'.version
      BY DEF Database, NoRow
    <2>2. QED
      BY Zenon, <1>1, <2>1 DEF IInv, FreshOK
  <1>5. EndsOK'
    BY Zenon, <1>1 DEF EndsOK
  <1>6. IdsOK'
    BY Zenon, <1>1 DEF IInv, IdsOK
  <1>7. EditsOK'
    BY Zenon, <1>1 DEF IInv, EditsOK
  <1>8. MarkOK(svc.mark)'
    <2>1. (TypesOK /\ IdsOK)' => MarkOK(0)'
      BY NoMark, PTL
    <2>2. QED
      BY Zenon, <1>1, <1>2, <1>6, <2>1 DEF MarkOK
  <1>9. \A m \in Nat : MarkOK(m) => MarkOK(m)'
    BY Zenon, <1>1 DEF MarkOK
  <1>10. QED
    BY ZenonT(60), <1>2, <1>3, <1>4, <1>5, <1>6, <1>7, <1>8, <1>9

\* The exit puts a flush behind the records of the queue.
LEMMA ExitOK == IInv /\ Exit => IInv'
  <1> SUFFICES ASSUME IInv, Exit
               PROVE  IInv'
    OBVIOUS
  <1>1. store' = store /\ ghost' = ghost /\ svc' = Down /\ recorder' = BeginFlush(recorder) /\ recorder.flush = "no"
    BY Zenon DEF Exit, Resting, IInv, LoopOK
  <1>2. recorder \in Recorders /\ store \in Database /\ ghost \in Ghost
    BY Zenon DEF IInv, TypesOK
  <1>3. PICK q \in Seq(Record \cup {FlushRecord}) : q = recorder.queue
    BY Zenon, RecorderParts DEF IInv
  <1>4. PICK n \in Nat : n = recorder.pending - InHand
    BY Zenon, RecorderParts DEF IInv
  <1>5. Len(q) = n
    BY ZenonT(60), <1>1, <1>3, <1>4, RecorderParts DEF IInv
  <1>6. /\ Append(q, FlushRecord) \in Seq(Record \cup {FlushRecord}) /\ Len(Append(q, FlushRecord)) = n + 1
        /\ Append(q, FlushRecord)[n + 1] = FlushRecord /\ \A i \in 1..n : Append(q, FlushRecord)[i] = q[i]
    BY <1>5
  <1>7. recorder' = [recorder EXCEPT !.queue = Append(q, FlushRecord), !.drain = "set", !.flush = "waits"]
    BY Zenon, <1>1, <1>2, <1>3 DEF BeginFlush, Recorders
  <1>8. recorder' \in Recorders
    BY Zenon, <1>2, <1>6, <1>7 DEF Recorders
  <1>9. /\ recorder'.queue = Append(q, FlushRecord) /\ recorder'.hand = recorder.hand
        /\ recorder'.pending = recorder.pending /\ recorder'.flush = "waits"
    BY <1>2, <1>7 DEF Recorders
  <1>10. Done' = Done /\ InHand' = InHand /\ Over' = Over
    BY Zenon, <1>1, <1>9 DEF Done, InHand, Over
  <1>11. RecorderOK'
    <2>1. Queued(q, n, Done + InHand, recorder.flush)
      BY Zenon, <1>3, <1>4 DEF IInv, RecorderOK
    <2>2. Queued(Append(q, FlushRecord), n, Done + InHand, "waits")
      BY Zenon, <1>6, <2>1 DEF Queued
    <2>3. QED
      BY Zenon, <1>1, <1>4, <1>9, <1>10, <2>2 DEF IInv, RecorderOK
  <1>12. store.ended => store.has
    BY Zenon DEF IInv, EndsOK
  <1>13. /\ TypesOK' /\ LoopOK' /\ FreshOK' /\ EndsOK' /\ IdsOK' /\ EditsOK'
         /\ MarkOK(svc.mark)' /\ \A m \in Nat : MarkOK(m) => MarkOK(m)'
    BY Zenon, <1>1, <1>2, <1>8, <1>12, GoneOK
  <1>14. MarksOK'
    <2>1. MarkOK(store.raised)'
      <3>1. PICK m \in Nat : m = store.raised
        BY <1>2 DEF Database
      <3>2. MarkOK(m)'
        BY Zenon, <1>13, <3>1 DEF IInv, MarksOK
      <3>3. QED
        BY Zenon, <1>1, <3>1, <3>2 DEF MarkOK
    <2>2. ASSUME recorder.hand # Nothing
          PROVE  MarkOK(recorder.hand.through)'
      <3>1. recorder.hand.through \in Nat
        BY Zenon, <1>2, <2>2 DEF Recorders, Record
      <3>2. PICK m \in Nat : m = recorder.hand.through
        BY Zenon, <3>1
      <3>3. MarkOK(m)'
        BY Zenon, <1>13, <2>2, <3>2 DEF IInv, MarksOK
      <3>4. QED
        BY Zenon, <1>9, <3>2, <3>3 DEF MarkOK
    <2>3. ASSUME NEW i \in 1..n
          PROVE  MarkOK(recorder.queue[i].through)'
      <3>1. i \in 1..(recorder.pending - InHand)
        BY Zenon, <1>4
      <3>2. PICK m \in Nat : m = recorder.queue[i].through
        BY Zenon, <3>1, Queue DEF IInv
      <3>3. MarkOK(m)'
        BY Zenon, <1>13, <3>1, <3>2 DEF IInv, MarksOK
      <3>4. recorder'.queue[i].through = m
        BY ZenonT(60), <1>3, <1>6, <1>9, <3>2
      <3>5. QED
        BY Zenon, <3>3, <3>4 DEF MarkOK
    <2>4. recorder'.pending - InHand' = n
      BY Zenon, <1>4, <1>9, <1>10
    <2>5. QED
      BY Zenon, <1>9, <1>13, <2>1, <2>2, <2>3, <2>4 DEF MarksOK
  <1>15. QED
    BY Zenon, <1>11, <1>13, <1>14 DEF IInv

\* With the process the recorder goes: what it owed is counted in a notice, or
\* lost.
LEMMA NewRecorderOK ==
    ASSUME IInv, recorder' = NewRecorder, ghost'.sent = ghost.sent, Over' = Over \cup Numbers
    PROVE  /\ recorder' \in Recorders /\ RecorderOK'
           /\ (MarkOK(svc.mark)' /\ MarkOK(store.raised)') => MarksOK'
  <1>1. recorder' \in Recorders
    BY DEF NewRecorder, Recorders
  <1>2. /\ recorder'.queue = <<>> /\ recorder'.hand = Nothing /\ recorder'.pending = 0 /\ recorder'.flush = "no"
    BY DEF NewRecorder
  <1>3. PICK s \in Nat : s = ghost.sent
    BY Zenon, RecorderParts DEF IInv
  <1>4. PICK d \in Nat : d = Done
    BY Zenon, RecorderParts DEF IInv
  <1>5. d <= s
    BY <1>3, <1>4 DEF Done, IInv, TypesOK, Recorders
  <1>6. InHand' = 0 /\ Done' = s
    <2>1. InHand' = 0
      BY Zenon, <1>2 DEF InHand
    <2>2. Done' = s - 0
      BY Zenon, <1>2, <1>3 DEF Done
    <2>3. QED
      BY <2>1, <2>2
  <1>7. Over' = 1..s
    <2>1. Over = 1..d /\ Numbers = (d + 1)..s
      BY ZenonT(60), <1>3, <1>4, NumbersOwed DEF IInv, RecorderOK
    <2>2. 1..d \cup (d + 1)..s = 1..s
      BY <1>5
    <2>3. QED
      BY Zenon, <2>1, <2>2
  <1>8. 0 - 0 = 0 /\ 1..0 = {} /\ 0 <= 0 /\ s + 0 = s /\ 0 <= s
    OBVIOUS
  <1>9. Queued(<<>>, 0, s, "no")
    <2>1. Len(<<>>) = 0
      OBVIOUS
    <2>2. QED
      BY Zenon, <1>8, <2>1 DEF Queued
  <1>10. recorder'.pending - InHand' = 0 /\ Done' + InHand' = s
    BY Zenon, <1>2, <1>6, <1>8
  <1>11. RecorderOK'
    BY ZenonT(60), <1>2, <1>3, <1>6, <1>7, <1>8, <1>9, <1>10 DEF RecorderOK
  <1>12. (MarkOK(svc.mark)' /\ MarkOK(store.raised)') => MarksOK'
    BY Zenon, <1>2, <1>8, <1>10 DEF MarksOK
  <1>13. QED
    BY Zenon, <1>1, <1>11, <1>12

\* After the flush no record is left, or those left are counted.
LEMMA ExitFlushedOK == IInv /\ ExitFlushed => IInv'
  <1> SUFFICES ASSUME IInv, ExitFlushed
               PROVE  IInv'
    OBVIOUS
  <1>1. recorder.flush \in {"answered", "waits"} /\ svc' = svc /\ recorder' = NewRecorder
    BY Zenon DEF ExitFlushed
  <1>2. svc' = Down
    BY Zenon, <1>1 DEF IInv, LoopOK
  <1>3. store \in Database /\ ghost \in Ghost /\ (store.ended => store.has)
    BY Zenon DEF IInv, TypesOK, EndsOK
  <1>4. /\ store' \in Database
        /\ store'.reg = store.reg /\ store'.counter = store.counter /\ store'.rev = store.rev
        /\ store'.version = store.version /\ store'.has = store.has /\ store'.edits = store.edits
        /\ store'.ended => store'.has
        /\ \E m \in Nat : m = store'.raised /\ MarkOK(m)
    <2>1. CASE store' = store
      <3>1. store.raised \in Nat
        BY <1>3 DEF Database
      <3>2. QED
        BY Zenon, <1>3, <2>1, <3>1 DEF IInv, MarksOK
    <2>2. CASE recorder.hand # Nothing /\ store' = Write(store, recorder.hand)
      <3>1. recorder.hand \in Record
        BY Zenon, <2>2, RecorderParts DEF IInv
      <3>2. store.raised \in Nat /\ recorder.hand.through \in Nat
        BY Zenon, <1>3, <3>1 DEF Database, Record
      <3>3. MarkOK(store.raised) /\ MarkOK(recorder.hand.through)
        BY Zenon, <2>2 DEF IInv, MarksOK
      <3>4. /\ store' \in Database
            /\ store'.reg = store.reg /\ store'.counter = store.counter /\ store'.rev = store.rev
            /\ store'.version = store.version /\ store'.has = store.has /\ store'.edits = store.edits
            /\ store'.ended => store'.has
            /\ store'.raised \in {store.raised, recorder.hand.through}
        BY Zenon, <1>3, <2>2, <3>1, WriteOK
      <3>5. QED
        BY Zenon, <3>2, <3>3, <3>4
    <2>3. QED
      BY Zenon, <2>1, <2>2 DEF ExitFlushed
  <1>5. /\ ghost' \in Ghost
        /\ ghost'.regs = ghost.regs /\ ghost'.ids = ghost.ids /\ ghost'.raised = ghost.raised
        /\ ghost'.again = ghost.again /\ ghost'.unmarked = ghost.unmarked /\ ghost'.stale = ghost.stale
        /\ ghost'.asked = ghost.asked /\ ghost'.sent = ghost.sent /\ Over' = Over \cup Numbers
    <2>1. PICK s \in Nat : s = ghost.sent
      BY Zenon, RecorderParts DEF IInv
    <2>2. PICK d \in Nat : d = Done
      BY Zenon, RecorderParts DEF IInv
    <2>3. Numbers = (d + 1)..s
      BY Zenon, <2>1, <2>2, NumbersOwed DEF IInv
    <2>4. ASSUME recorder.pending = 0
          PROVE  Numbers = {}
      <3>1. d = s - 0
        BY Zenon, <2>1, <2>2, <2>4 DEF Done
      <3>2. (d + 1)..s = {}
        BY <3>1
      <3>3. QED
        BY Zenon, <2>3, <3>2
    <2>5. CASE recorder.flush = "answered" /\ ghost' = ghost
      <3>1. Numbers = {}
        BY Zenon, <2>4, <2>5 DEF IInv, RecorderOK
      <3>2. QED
        BY Zenon, <1>3, <2>5, <3>1 DEF Over
    <2>6. CASE ghost' = [ghost EXCEPT !.counted = @ \cup IF recorder.pending > 0 THEN Numbers ELSE {}]
      <3>1. (IF recorder.pending > 0 THEN Numbers ELSE {}) = Numbers
        <4>1. recorder.pending \in Nat
          BY Zenon, RecorderParts DEF IInv
        <4>2. recorder.pending > 0 \/ recorder.pending = 0
          BY <4>1
        <4>3. QED
          BY Zenon, <2>4, <4>2
      <3>2. PICK a : a = ghost.counted \cup Numbers
        BY Zenon
      <3>3. a \in SUBSET Nat
        <4>1. (d + 1)..s \subseteq Nat /\ ghost.counted \subseteq Nat
          BY <1>3 DEF Ghost
        <4>2. QED
          BY Zenon, <2>3, <3>2, <4>1
      <3>4. ghost' = [ghost EXCEPT !.counted = a]
        <4>1. ghost' = [ghost EXCEPT !.counted = @ \cup Numbers]
          BY Zenon, <2>6, <3>1
        <4>2. QED
          BY Zenon, <1>3, <3>2, <4>1 DEF Ghost
      <3>5. ghost' \in Ghost
        BY Zenon, <1>3, <3>3, <3>4 DEF Ghost
      <3>6. /\ ghost'.regs = ghost.regs /\ ghost'.ids = ghost.ids /\ ghost'.raised = ghost.raised
            /\ ghost'.again = ghost.again /\ ghost'.unmarked = ghost.unmarked /\ ghost'.stale = ghost.stale
            /\ ghost'.asked = ghost.asked /\ ghost'.sent = ghost.sent
            /\ ghost'.stored = ghost.stored /\ ghost'.told = ghost.told /\ ghost'.counted = a
            /\ ghost'.lost = ghost.lost
        BY Zenon, <1>3, <3>4 DEF Ghost
      <3>7. Over' = Over \cup Numbers
        BY Zenon, <3>2, <3>6 DEF Over
      <3>8. QED
        BY Zenon, <3>5, <3>6, <3>7
    <2>7. QED
      BY Zenon, <2>5, <2>6 DEF ExitFlushed
  <1>6. /\ recorder' \in Recorders /\ RecorderOK'
        /\ (MarkOK(svc.mark)' /\ MarkOK(store.raised)') => MarksOK'
    BY Zenon, <1>1, <1>5, NewRecorderOK
  <1>7. /\ TypesOK' /\ LoopOK' /\ FreshOK' /\ EndsOK' /\ IdsOK' /\ EditsOK'
        /\ MarkOK(svc.mark)' /\ \A m \in Nat : MarkOK(m) => MarkOK(m)'
    BY ZenonT(60), <1>2, <1>4, <1>5, <1>6, GoneOK
  <1>8. MarkOK(store.raised)'
    <2>1. PICK m \in Nat : m = store'.raised /\ MarkOK(m)
      BY Zenon, <1>4
    <2>2. MarkOK(m)'
      BY Zenon, <1>7, <2>1
    <2>3. QED
      BY Zenon, <2>1, <2>2 DEF MarkOK
  <1>9. QED
    BY Zenon, <1>6, <1>7, <1>8 DEF IInv

\* A crash loses the records that are owed.
LEMMA CrashOK == IInv /\ Crash => IInv'
  <1> SUFFICES ASSUME IInv, Crash
               PROVE  IInv'
    OBVIOUS
  <1>1. svc' = Down /\ recorder' = NewRecorder /\ store' = store
    BY Zenon DEF Crash
  <1>2. store \in Database /\ ghost \in Ghost /\ (store.ended => store.has)
    BY Zenon DEF IInv, TypesOK, EndsOK
  <1>3. PICK a : a = ghost.lost \cup Numbers
    BY Zenon
  <1>4. a \in SUBSET Nat
    <2>1. Numbers = (Done + 1)..ghost.sent /\ Done \in Nat
      BY Zenon, NumbersOwed, RecorderParts DEF IInv
    <2>2. Numbers \subseteq Nat
      BY <1>2, <2>1 DEF Ghost
    <2>3. ghost.lost \subseteq Nat
      BY <1>2 DEF Ghost
    <2>4. QED
      BY Zenon, <1>3, <2>2, <2>3
  <1>5. ghost' = [ghost EXCEPT !.lost = a, !.asked = 0]
    <2>1. ghost' = [ghost EXCEPT !.lost = @ \cup Numbers, !.asked = 0]
      BY Zenon DEF Crash
    <2>2. QED
      BY Zenon, <1>2, <1>3, <2>1 DEF Ghost
  <1>6. ghost' \in Ghost
    BY Zenon, <1>2, <1>4, <1>5 DEF Ghost
  <1>7. /\ ghost'.regs = ghost.regs /\ ghost'.ids = ghost.ids /\ ghost'.raised = ghost.raised
        /\ ghost'.again = ghost.again /\ ghost'.unmarked = ghost.unmarked /\ ghost'.stale = ghost.stale
        /\ ghost'.asked = 0 /\ ghost'.sent = ghost.sent
        /\ ghost'.stored = ghost.stored /\ ghost'.told = ghost.told /\ ghost'.counted = ghost.counted
        /\ ghost'.lost = a
    BY <1>2, <1>5 DEF Ghost
  <1>8. Over' = Over \cup Numbers
    BY Zenon, <1>3, <1>7 DEF Over
  <1>9. /\ recorder' \in Recorders /\ RecorderOK'
        /\ (MarkOK(svc.mark)' /\ MarkOK(store.raised)') => MarksOK'
    BY Zenon, <1>1, <1>7, <1>8, NewRecorderOK
  <1>10. /\ TypesOK' /\ LoopOK' /\ FreshOK' /\ EndsOK' /\ IdsOK' /\ EditsOK'
         /\ MarkOK(svc.mark)' /\ \A m \in Nat : MarkOK(m) => MarkOK(m)'
    BY Zenon, <1>1, <1>2, <1>6, <1>7, <1>9, GoneOK
  <1>11. MarkOK(store.raised)'
    <2>1. PICK m \in Nat : m = store.raised
      BY <1>2 DEF Database
    <2>2. MarkOK(m)'
      BY Zenon, <1>10, <2>1 DEF IInv, MarksOK
    <2>3. QED
      BY Zenon, <1>1, <2>1, <2>2 DEF MarkOK
  <1>12. QED
    BY Zenon, <1>9, <1>10, <1>11 DEF IInv

-----------------------------------------------------------------------------
(* The invariant, and what follows from it. *)

\* At first nothing is stored, loaded or sent.
LEMMA InitOK == Init => IInv
  <1> SUFFICES ASSUME Init
               PROVE  IInv
    OBVIOUS
  <1>1. /\ svc \in Loop
        /\ svc.up = TRUE /\ svc.loaded = FALSE /\ svc.rev = NoRow /\ svc.mark = 0
        /\ svc.shows = FALSE /\ svc.at = "idle" /\ svc.task = "none" /\ svc.got = NoRow
        /\ svc.read = {}
    BY Zenon, UnloadedOK DEF Init
  <1>2. /\ store \in Database
        /\ store.reg = 0 /\ store.counter = 0 /\ store.version = 0 /\ store.has = FALSE
        /\ store.edits = {} /\ store.raised = 0 /\ store.ended = FALSE
    <2>1. store = EmptyStore
      BY Zenon DEF Init
    <2>2. store \in Database
      BY Zenon, <2>1 DEF EmptyStore, Database
    <2>3. QED
      BY <2>1, <2>2 DEF EmptyStore
  <1>3. /\ ghost \in Ghost
        /\ ghost.regs = 0 /\ ghost.ids = 0 /\ ghost.raised = {} /\ ghost.again = {} /\ ghost.unmarked = {}
        /\ ghost.asked = 0 /\ ghost.stale = FALSE /\ ghost.same = FALSE /\ ghost.sent = 0
        /\ ghost.stored = {} /\ ghost.told = {} /\ ghost.counted = {} /\ ghost.lost = {}
    <2>1. ghost \in Ghost
      BY DEF Init, Ghost
    <2>2. QED
      BY Zenon, <2>1 DEF Init
  <1>4. recorder \in Recorders /\ recorder.queue = <<>> /\ recorder.hand = Nothing /\ recorder.pending = 0
        /\ recorder.flush = "no"
    <2>1. recorder = NewRecorder
      BY Zenon DEF Init
    <2>2. recorder \in Recorders
      BY <2>1 DEF NewRecorder, Recorders
    <2>3. QED
      BY <2>1, <2>2 DEF NewRecorder
  <1>5. TypesOK
    BY Zenon, <1>1, <1>2, <1>3, <1>4 DEF TypesOK
  <1>6. LoopOK
    BY Zenon, <1>1, <1>4 DEF LoopOK
  <1>7. 0 <= 0 /\ 0 - 0 = 0 /\ 0 + 0 = 0 /\ 1..0 = {} /\ Len(<<>>) = 0 /\ NoRow <= 0
    BY DEF NoRow
  <1>8. FreshOK
    BY ZenonT(60), <1>1, <1>2, <1>3, <1>7 DEF FreshOK
  <1>9. InHand = 0 /\ Done = 0 /\ Over = {}
    BY ZenonT(60), <1>3, <1>4, <1>7 DEF InHand, Done, Over
  <1>10. RecorderOK
    <2>1. Queued(<<>>, 0, 0, "no")
      BY Zenon, <1>7 DEF Queued
    <2>2. QED
      BY ZenonT(60), <1>3, <1>4, <1>7, <1>9, <2>1 DEF RecorderOK
  <1>11. EndsOK
    BY Zenon, <1>1, <1>2, <1>3 DEF EndsOK
  <1>12. IdsOK
    BY ZenonT(60), <1>1, <1>2, <1>3, <1>7 DEF IdsOK
  <1>13. MarksOK
    <2>1. MarkOK(0)
      BY ZenonT(60), <1>5, <1>12, NoMark
    <2>2. QED
      BY ZenonT(60), <1>1, <1>2, <1>4, <1>7, <1>9, <2>1 DEF MarksOK
  <1>14. EditsOK
    BY Zenon, <1>1, <1>2, <1>3 DEF EditsOK
  <1>15. QED
    BY ZenonT(60), <1>5, <1>6, <1>8, <1>10, <1>11, <1>12, <1>13, <1>14 DEF IInv

\* Every step keeps the invariant.
LEMMA NextOK == IInv /\ [Next]_vars => IInv'
  <1> SUFFICES ASSUME IInv, [Next]_vars
               PROVE  IInv'
    OBVIOUS
  <1>1. CASE UNCHANGED vars
    <2>1. store' = store /\ svc' = svc /\ recorder' = recorder /\ ghost' = ghost
      BY Zenon, <1>1 DEF vars
    <2>2. Done' = Done /\ InHand' = InHand /\ Over' = Over
      BY Zenon, <2>1 DEF Done, InHand, Over
    <2>3. MarksOK'
      BY ZenonT(60), <2>1, <2>2 DEF IInv, MarksOK, MarkOK
    <2>4. RecorderOK' /\ recorder' \in Recorders
      BY ZenonT(60), <2>1, <2>2 DEF IInv, RecorderOK, TypesOK
    <2>5. svc.up => recorder'.flush = "no"
      BY Zenon, <2>1 DEF IInv, LoopOK
    <2>6. QED
      BY ZenonT(60), <2>1, <2>3, <2>4, <2>5, RecorderStep
  <1>2. CASE \E ended \in BOOLEAN : StoreEnd(ended)
    BY Zenon, <1>2, StoreEndOK
  <1>3. CASE Commit \/ StackChanged \/ SettingsChanged \/ Request \/ RefreshStack \/ ReadRevision \/ ReadStack
    BY ZenonT(60), <1>3, CommitOK, StackChangedOK, SettingsChangedOK, RequestOK, RefreshStackOK, ReadRevisionOK,
       ReadStackOK
  <1>4. CASE ReadEnds \/ ReadEdits \/ RaiseEdits \/ ReadFails \/ LetGo \/ NextService
    BY ZenonT(60), <1>4, ReadEndsOK, ReadEditsOK, RaiseEditsOK, ReadFailsOK, LetGoOK
  <1>5. CASE Take \/ Land \/ DrainPasses \/ Exit \/ ExitFlushed \/ Crash
    BY ZenonT(60), <1>5, TakeOK, LandOK, DrainPassesOK, ExitOK, ExitFlushedOK, CrashOK
  <1>6. QED
    BY ZenonT(60), <1>1, <1>2, <1>3, <1>4, <1>5 DEF Next

\* The invariant holds throughout.
LEMMA Invariance == Spec => []IInv
  BY InitOK, NextOK, PTL DEF Spec

\* Whatever the writers commit between the reads of a handler, and whatever is
\* lost of the notices sent to the service, a request is answered from a stack
\* at least as new as the one stored when it came: runtime.rs compares the
\* revisions, and stack_changed and load read the revision before the stack.
THEOREM StacksStayFresh == Spec => []ServedIsFresh
  <1>1. IInv => ServedIsFresh
    BY Zenon DEF IInv, FreshOK, ServedIsFresh
  <1>2. QED
    BY <1>1, Invariance, PTL

\* Once the stored revision is applied raise_edits has raised every edit of the
\* log that moved a revision, and none twice unless its mark was forgotten.
THEOREM EditsReachAgents == Spec => []EditsAnnounced
  <1>1. IInv => EditsAnnounced
    BY Zenon DEF IInv, EditsOK, EditsAnnounced, Announced, Resting
  <1>2. QED
    BY <1>1, Invariance, PTL

\* The recorder loses no record and settles them in the order they were sent,
\* however the store answers, the service exits or the process dies; what its
\* count says is owed is owed, and an answered flush leaves nothing owed.
THEOREM RecordsSettle == Spec => []RecordsAccounted
  <1>1. ASSUME IInv
        PROVE  RecordsAccounted
    <2>1. PICK s \in Nat : s = ghost.sent
      BY Zenon, <1>1, RecorderParts DEF IInv
    <2>2. PICK d \in Nat : d = Done
      BY Zenon, <1>1, RecorderParts DEF IInv
    <2>3. PICK p \in Nat : p = recorder.pending
      BY Zenon, <1>1, RecorderParts DEF IInv
    <2>4. d = s - p
      BY ZenonT(60), <2>1, <2>2, <2>3 DEF Done
    <2>5. Over = 1..d /\ Numbers = (d + 1)..s
      BY ZenonT(60), <1>1, <2>1, <2>2, NumbersOwed DEF IInv, RecorderOK
    <2>6. 1..d \cup (d + 1)..s = 1..s /\ \A a \in 1..d, b \in (d + 1)..s : a < b
      BY <2>4
    <2>7. Cardinality((d + 1)..s) = p
      <3>1. d + 1 \in Int /\ s \in Int
        OBVIOUS
      <3>2. Cardinality((d + 1)..s) = IF d + 1 > s THEN 0 ELSE s - (d + 1) + 1
        BY Zenon, <3>1, FS_Interval
      <3>3. (IF d + 1 > s THEN 0 ELSE s - (d + 1) + 1) = p
        BY <2>4
      <3>4. QED
        BY ZenonT(60), <3>2, <3>3
    <2>8. recorder.flush = "answered" => Numbers = {}
      <3>1. p = 0 => (d + 1)..s = {}
        BY <2>4
      <3>2. QED
        BY ZenonT(60), <1>1, <2>3, <2>5, <3>1 DEF IInv, RecorderOK
    <2>9. QED
      BY ZenonT(60), <2>1, <2>3, <2>5, <2>6, <2>7, <2>8 DEF RecordsAccounted, Over
  <1>2. QED
    BY <1>1, Invariance, PTL

\* When every record is stored the database holds the end the service shows, so
\* the next service to load the project shows the same.
THEOREM EndsAreStored == Spec => []EndsAgree
  <1>1. ASSUME IInv
        PROVE  EndsAgree
    <2>1. SUFFICES ASSUME Resting, svc.loaded, ghost.same, ghost.stored = 1..ghost.sent
                   PROVE  store.ended = svc.shows
      BY Zenon DEF EndsAgree
    <2>2. PICK s \in Nat : s = ghost.sent
      BY Zenon, <1>1, RecorderParts DEF IInv
    <2>3. PICK d \in Nat : d = Done
      BY ZenonT(60), <1>1, RecorderParts DEF IInv
    <2>4. PICK p \in Nat : p = recorder.pending
      BY ZenonT(60), <1>1, RecorderParts DEF IInv
    <2>5. d = s - p
      BY ZenonT(60), <2>2, <2>3, <2>4 DEF Done
    <2>6. 1..s \subseteq 1..d
      BY ZenonT(60), <1>1, <2>1, <2>2, <2>3 DEF IInv, RecorderOK, Over
    <2>7. p = 0 /\ d = s
      <3>1. s # 0 => s \in 1..s
        OBVIOUS
      <3>2. s # 0 => s \in 1..d
        BY Zenon, <2>6, <3>1
      <3>3. QED
        BY <2>5, <3>2
    <2>8. svc.up /\ svc.at = "idle" /\ recorder.flush = "no"
      BY ZenonT(60), <1>1, <2>1 DEF Resting, IInv, LoopOK
    <2>9. recorder.hand = Nothing /\ Len(recorder.queue) = 0
      <3>1. InHand \in {0, 1} /\ InHand <= 0
        BY ZenonT(60), <1>1, <2>4, <2>7, RecorderParts DEF IInv, RecorderOK
      <3>2. InHand = 0 /\ 0 - 0 = 0
        BY <3>1
      <3>3. recorder.hand = Nothing
        BY <3>2 DEF InHand
      <3>4. Len(recorder.queue) = recorder.pending - InHand
        BY ZenonT(60), <1>1, <2>8, RecorderParts DEF IInv
      <3>5. QED
        BY ZenonT(60), <2>4, <2>7, <3>2, <3>3, <3>4
    <2>10. Coming(recorder.queue, recorder.hand, svc.shows, store.ended)
      BY ZenonT(60), <1>1, <2>1, <2>2, <2>3, <2>7, <2>8 DEF IInv, EndsOK, HasStack
    <2>11. 1..0 = {}
      OBVIOUS
    <2>12. svc.shows = store.ended
      BY Zenon, <2>9, <2>10, <2>11 DEF Coming, IsEnd
    <2>13. QED
      BY Zenon, <2>12
  <1>2. QED
    BY <1>1, Invariance, PTL

=============================================================================
