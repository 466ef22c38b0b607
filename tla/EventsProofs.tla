---------------------------- MODULE EventsProofs ----------------------------
(***************************************************************************)
(* The event log implements EventFeed: a reader of the ring sees exactly   *)
(* what a reader of the complete feed would be promised, for every size of *)
(* the ring, number of readers, projects, events and services.             *)
(*                                                                         *)
(* The inductive invariant has three parts.  LogOK says how the ring, the  *)
(* counter and the numbers dropped account for every event recorded;       *)
(* CursorsOK that a cursor a client holds was given out by some service    *)
(* and is not ahead of the log it is of; QuietOK that between turns of the *)
(* loop no held read has an event due.                                     *)
(*                                                                         *)
(* Then the alerts the calls of an MCP connection carry: none is passed    *)
(* over, and none is told twice as long as no restart of the service meets *)
(* a call between its steps, for every number of calls too.  The calls     *)
(* share one mark, and each reads it, asks and takes its page in three     *)
(* steps.  AlertsOK adds to the invariant of the log what a call between   *)
(* its steps still knows: its mark is not past the connection's, and its   *)
(* page covers all that lies between its mark and the page's cursor.       *)
(***************************************************************************)
EXTENDS Events, TLAPS

Kinds == {d.kind : d \in Draft}

Item == [epoch : Nat, seq : Nat, project : Scope, kind : Kinds]

(* The events the running service recorded, and how many left the ring. *)
Recorded == history[log.epoch]
Gone == log.recorded - Len(log.ring)

LogType ==
    /\ log \in [epoch : 1 .. MaxEpoch, ring : Seq(Item), recorded : Nat,
                dropped : [Scope -> Nat]]
    /\ history \in [1 .. MaxEpoch -> Seq(Item)]
    /\ spent \in 0 .. MaxEvents
    /\ turn \in BOOLEAN

LogOK ==
    /\ log.recorded = Len(Recorded)
    /\ log.recorded <= spent
    /\ Len(log.ring) <= log.recorded
    /\ \A i \in 1 .. Len(log.ring) : log.ring[i] = Recorded[Gone + i]
    /\ \A i \in 1 .. log.recorded : Recorded[i].seq = i
    /\ \A n \in log.epoch + 1 .. MaxEpoch : history[n] = <<>>
    /\ \A s \in Scope : /\ log.dropped[s] <= Gone
                        /\ log.dropped[s] > 0 =>
                               Recorded[log.dropped[s]].project = s
    /\ \A i \in 1 .. Gone : i <= log.dropped[Recorded[i].project]

(* A cursor a client may hold. *)
Given(c) ==
    /\ c \in Cursor
    /\ c.epoch <= log.epoch
    /\ c.epoch = log.epoch => c.seq <= log.recorded

CursorsOK ==
    /\ seen = NoCursor \/ Given(seen)
    /\ calls = [c \in Call |-> calls[c]]
    /\ \A c \in Call : calls[c].at = "has page" => Given(calls[c].page.cursor)
    /\ \A r \in Reader : answer[r] = NoAnswer \/ Given(answer[r].page.cursor)

WaitersOK ==
    \A w \in waiters :
        /\ w \in [reader : Reader, project : {Home}, kinds : ReadKinds,
                  since : Cursor]
        /\ w.since.epoch = log.epoch
        /\ w.since.seq <= log.recorded

QuietOK == ~turn => \A w \in waiters : PageOf(w).events = {}

IInv == LogType /\ LogOK /\ CursorsOK /\ WaitersOK /\ QuietOK

-----------------------------------------------------------------------------
(* Numbers. *)

(* How numbers of services and of events compare. *)
LEMMA Order ==
    /\ \A a, b \in Nat : a > b <=> ~(a <= b)
    /\ \A a, b \in Nat : a < b => ~(b <= a) /\ a # b
    /\ \A a, b \in Nat : a <= b \/ b < a
    /\ \A a, b, c \in Nat : a <= b /\ b <= c => a <= c
    /\ \A a \in Nat : a <= a /\ ~(a < a) /\ ~(a + 1 <= a) /\ a + 1 \in Nat
    /\ \A a, b \in Nat : b <= a => ~(a + 1 <= b)
  OBVIOUS

(* What is in a range and not in its beginning is in the rest of it. *)
LEMMA Beyond ==
    \A g, n, i \in Nat : i \in 1 .. n /\ i \notin 1 .. g => i \in g + 1 .. n
  OBVIOUS

(* A range one longer has one more number. *)
LEMMA OneMore == \A n \in Nat : \A i \in 1 .. n + 1 : i \in 1 .. n \/ i = n + 1
  OBVIOUS

(* A cursor is two numbers. *)
LEMMA CursorNumbers == \A c \in Cursor : c.epoch \in Nat /\ c.seq \in Nat
  BY EventsConstants DEF Cursor

(* What a log consists of. *)
LEMMA LogParts ==
    ASSUME IInv
    PROVE  /\ log.epoch \in 1 .. MaxEpoch /\ log.recorded \in Nat /\ log.epoch \in Nat
           /\ history \in [1 .. MaxEpoch -> Seq(Item)]
           /\ Len(history[log.epoch]) = log.recorded
           /\ log.dropped \in [Scope -> Nat] /\ MaxEpoch \in Nat
  <1>1. log \in [epoch : 1 .. MaxEpoch, ring : Seq(Item), recorded : Nat, dropped : [Scope -> Nat]]
    BY Zenon DEF IInv, LogType
  <1>2. log.epoch \in 1 .. MaxEpoch /\ log.recorded \in Nat /\ log.dropped \in [Scope -> Nat]
    BY Zenon, <1>1
  <1>3. MaxEpoch \in Nat /\ \A n \in 1 .. MaxEpoch : n \in Nat
    BY EventsConstants
  <1>4. history \in [1 .. MaxEpoch -> Seq(Item)] /\ Len(history[log.epoch]) = log.recorded
    BY Zenon DEF IInv, LogType, LogOK, Recorded
  <1>5. QED
    BY Zenon, <1>2, <1>3, <1>4

-----------------------------------------------------------------------------
(* Pages. *)

(* The events of a log that concern project Home and are of the kinds. *)
Relevant(kinds) == {e \in Held(log) : /\ e.project \in {Home, Whole}
                                      /\ kinds = {} \/ e.kind \in kinds}

(* The ring is the tail of what the service recorded, numbered in order. *)
LEMMA HeldAreRecorded ==
    ASSUME LogType, LogOK
    PROVE  /\ Held(log) = {Recorded[i] : i \in Gone + 1 .. log.recorded}
           /\ Gone \in 0 .. log.recorded
           /\ \A i \in 1 .. log.recorded : Recorded[i] \in Item
           /\ \A e \in Held(log) : e \in Item /\ e.seq <= log.recorded
  <1>1. /\ Len(log.ring) \in Nat /\ log.recorded \in Nat
        /\ log.ring \in Seq(Item) /\ Recorded \in Seq(Item)
    BY DEF LogType, Recorded
  <1>2. Gone \in 0 .. log.recorded
    BY <1>1 DEF LogOK, Gone
  <1>3. \A i \in 1 .. log.recorded : Recorded[i] \in Item
    BY <1>1 DEF LogOK
  <1>4. \A i \in 1 .. Len(log.ring) :
           /\ Gone + i \in Gone + 1 .. log.recorded
           /\ log.ring[i] = Recorded[Gone + i]
    <2>1. \A i \in 1 .. Len(log.ring) : Gone + i \in Gone + 1 .. log.recorded
      BY <1>1 DEF Gone
    <2>2. \A i \in 1 .. Len(log.ring) : log.ring[i] = Recorded[Gone + i]
      BY DEF LogOK
    <2> QED BY <2>1, <2>2
  <1>5. \A j \in Gone + 1 .. log.recorded :
           /\ j - Gone \in 1 .. Len(log.ring)
           /\ log.ring[j - Gone] = Recorded[j]
    <2>1. Len(log.ring) = log.recorded - Gone
      BY <1>1 DEF Gone
    <2>2. TAKE j \in Gone + 1 .. log.recorded
    <2>3. j - Gone \in 1 .. Len(log.ring) /\ Gone + (j - Gone) = j
      BY <1>1, <1>2, <2>1, <2>2
    <2> QED BY <2>3, <1>4
  <1>6. Held(log) = {Recorded[i] : i \in Gone + 1 .. log.recorded}
    <2> DEFINE tail == {Recorded[i] : i \in Gone + 1 .. log.recorded}
    <2>1. Held(log) = {log.ring[i] : i \in 1 .. Len(log.ring)}
      BY DEF Held
    <2>2. ASSUME NEW i \in 1 .. Len(log.ring) PROVE log.ring[i] \in tail
      BY Zenon, <1>4
    <2>3. ASSUME NEW j \in Gone + 1 .. log.recorded PROVE Recorded[j] \in Held(log)
      BY Zenon, <1>5, <2>1
    <2>4. QED
      BY Zenon, <2>1, <2>2, <2>3
  <1>7. \A i \in Gone + 1 .. log.recorded :
           Recorded[i] \in Item /\ Recorded[i].seq <= log.recorded
    BY <1>1, <1>2, <1>3 DEF LogOK
  <1> QED BY <1>2, <1>3, <1>6, <1>7

(* The events due to a query are those of the ring past its start. *)
LEMMA DueAreHeld ==
    ASSUME LogType, LogOK, NEW q, q.project = Home, Feed!Start(q) \in Nat
    PROVE  Feed!Due(q) = {e \in Relevant(q.kinds) : e.seq > Feed!Start(q)}
  <1> DEFINE J == {j \in Gone + 1 .. log.recorded :
                      /\ j > Feed!Start(q)
                      /\ Recorded[j].project \in {Home, Whole}
                      /\ q.kinds = {} \/ Recorded[j].kind \in q.kinds}
  <1>1. Feed!Due(q) = {Recorded[i] : i \in J}
    <2>1. Len(history[log.epoch]) = log.recorded
      BY DEF LogOK, Recorded
    <2> QED BY <2>1 DEF Feed!Due, Feed!Concerns, Gone, Recorded
  <1>2. \A j \in Gone + 1 .. log.recorded :
           Recorded[j] \in Held(log) /\ Recorded[j].seq = j
    <2>1. Gone \in Nat /\ log.recorded \in Nat
      BY HeldAreRecorded DEF LogType
    <2>2. \A j \in Gone + 1 .. log.recorded : j \in 1 .. log.recorded
      BY <2>1
    <2> QED BY <2>2, HeldAreRecorded DEF LogOK
  <1>3. \A e \in Held(log) : \E j \in Gone + 1 .. log.recorded :
           e = Recorded[j]
    BY HeldAreRecorded
  <1>4. \A j \in J : /\ Recorded[j] \in Relevant(q.kinds)
                     /\ Recorded[j].seq > Feed!Start(q)
    BY <1>2 DEF Relevant
  <1>5. \A e \in Relevant(q.kinds) : e.seq > Feed!Start(q) =>
           \E j \in J : e = Recorded[j]
    BY <1>2, <1>3 DEF Relevant
  <1> HIDE DEF J
  <1> QED BY <1>1, <1>4, <1>5

(* A gap is seen exactly when an event that concerns Home left the ring
   unread. *)
LEMMA GapsAgree ==
    ASSUME LogType, LogOK, NEW c \in Cursor
    PROVE  Missed(log, Home, c) <=>
               \E i \in c.seq + 1 .. Gone : Recorded[i].project \in {Home, Whole}
  <1>1. c.seq \in Nat /\ Gone \in Nat /\ Gone <= log.recorded
    BY HeldAreRecorded, EventsConstants DEF Cursor
  <1>2. {Home, Whole} \subseteq Scope
    BY EventsConstants DEF Scope
  <1>3. \A s \in Scope : log.dropped[s] \in Nat
    BY DEF LogType
  <1>4. ASSUME NEW s \in {Home, Whole}, log.dropped[s] > c.seq
        PROVE  \E i \in c.seq + 1 .. Gone : Recorded[i].project \in {Home, Whole}
    <2>1. log.dropped[s] \in c.seq + 1 .. Gone
      BY <1>1, <1>2, <1>3, <1>4 DEF LogOK
    <2>2. Recorded[log.dropped[s]].project = s
      BY <1>1, <1>2, <1>3, <1>4, <2>1 DEF LogOK
    <2> QED BY <2>1, <2>2
  <1>5. ASSUME NEW i \in c.seq + 1 .. Gone, Recorded[i].project \in {Home, Whole}
        PROVE  log.dropped[Recorded[i].project] > c.seq
    <2>1. i \in 1 .. Gone
      BY <1>1
    <2>2. i <= log.dropped[Recorded[i].project]
      BY <2>1 DEF LogOK
    <2>3. log.dropped[Recorded[i].project] \in Nat
      BY <1>2, <1>3, <1>5
    <2> QED BY <1>1, <2>2, <2>3
  <1> QED BY <1>4, <1>5 DEF Missed

(* EventFeed and Events take the newest of a set alike. *)
LEMMA NewestAgree ==
    ASSUME NEW S, NEW n
    PROVE  Feed!Latest(S, n) = NewestOf(S, n)
  BY DEF Feed!Latest, NewestOf, Feed!Cardinality, Cardinality

(* A page of the ring is the page of the feed. *)
LEMMA PagesAgree ==
    ASSUME LogType, LogOK, NEW q, q.project = Home,
           q.since = NoCursor \/ Given(q.since)
    PROVE  /\ PageOf(q) = Feed!Page(q)
           /\ PageOf(q).gap = Feed!Missed(q)
           /\ q.since # NoCursor => PageOf(q).events = Feed!Due(q)
           /\ PageOf(q).cursor = LatestCursor(log)
  <1>1. Len(history[log.epoch]) = log.recorded
    BY DEF LogOK, Recorded
  <1>2. \A e \in Relevant(q.kinds) : e.seq > 0
    <2>1. Gone \in Nat /\ log.recorded \in Nat
      BY HeldAreRecorded DEF LogType
    <2>2. \A j \in Gone + 1 .. log.recorded :
             j \in 1 .. log.recorded /\ j > 0
      BY <2>1
    <2>3. \A e \in Held(log) : \E j \in Gone + 1 .. log.recorded :
             e = Recorded[j]
      BY HeldAreRecorded
    <2> QED BY <2>2, <2>3 DEF Relevant, LogOK
  <1>3. ASSUME Feed!Start(q) = 0
        PROVE  Feed!Due(q) = Relevant(q.kinds)
    <2>1. Feed!Due(q) = {e \in Relevant(q.kinds) : e.seq > 0}
      BY <1>3, DueAreHeld
    <2> QED BY <1>2, <2>1
  <1>4. CASE q.since = NoCursor
    <2>1. Feed!Start(q) = 0 /\ Feed!Missed(q) = FALSE
      BY <1>4 DEF Feed!Start, Feed!Missed
    <2>2. PageOf(q) = [events |-> NewestOf(Relevant(q.kinds), Newest),
                       cursor |-> LatestCursor(log), gap |-> FALSE]
      BY <1>4 DEF PageOf, Page, Relevant
    <2>3. Feed!Page(q) = [events |-> NewestOf(Relevant(q.kinds), Newest),
                          cursor |-> LatestCursor(log), gap |-> FALSE]
      BY Zenon, <1>1, <1>3, <1>4, <2>1, NewestAgree DEF Feed!Page, LatestCursor
    <2>4. PageOf(q) = Feed!Page(q)
      BY <2>2, <2>3
    <2>5. PageOf(q).gap = FALSE /\ PageOf(q).cursor = LatestCursor(log)
      BY <2>2
    <2> QED BY Zenon, <1>4, <2>1, <2>4, <2>5
  <1>5. CASE q.since # NoCursor /\ q.since.epoch # log.epoch
    <2>1. Feed!Start(q) = 0 /\ Feed!Missed(q) = TRUE
      BY <1>5 DEF Feed!Start, Feed!Missed, Feed!Foreign
    <2>2. PageOf(q) = [events |-> Relevant(q.kinds),
                       cursor |-> LatestCursor(log), gap |-> TRUE]
      BY <1>5 DEF PageOf, Page, Relevant
    <2>3. Feed!Page(q) = [events |-> Relevant(q.kinds),
                          cursor |-> LatestCursor(log), gap |-> TRUE]
      BY <1>1, <1>3, <1>5, <2>1 DEF Feed!Page, LatestCursor
    <2> QED BY <1>3, <2>1, <2>2, <2>3
  <1>6. CASE q.since # NoCursor /\ q.since.epoch = log.epoch
    <2>1. /\ q.since \in Cursor /\ q.since.seq \in Nat
          /\ q.since.seq <= log.recorded
      BY <1>6, EventsConstants DEF Given, Cursor
    <2>2. Feed!Start(q) = q.since.seq
      BY <1>6 DEF Feed!Start, Feed!Foreign
    <2>3. Feed!Due(q) = {e \in Relevant(q.kinds) : e.seq > q.since.seq}
      BY <2>1, <2>2, DueAreHeld
    <2>4. Feed!Missed(q) = Missed(log, Home, q.since)
      <3>1. Feed!Missed(q) <=> \E i \in q.since.seq + 1 .. Gone :
                                  Recorded[i].project \in {Home, Whole}
        BY <1>6, <2>2
           DEF Feed!Missed, Feed!Foreign, Feed!Concerns, Gone, Recorded
      <3>2. Feed!Missed(q) \in BOOLEAN /\ Missed(log, Home, q.since) \in BOOLEAN
        BY DEF Feed!Missed, Missed
      <3> QED BY <2>1, <3>1, <3>2, GapsAgree
    <2>5. ~(q.since.epoch # log.epoch \/ q.since.seq > log.recorded)
      BY <1>6, <2>1 DEF LogType
    <2>6. PageOf(q) = [events |-> {e \in Relevant(q.kinds) : e.seq > q.since.seq},
                       cursor |-> LatestCursor(log),
                       gap |-> Missed(log, Home, q.since)]
      BY <1>6, <2>5 DEF PageOf, Page, Relevant
    <2>7. Feed!Page(q) = [events |-> {e \in Relevant(q.kinds) : e.seq > q.since.seq},
                          cursor |-> LatestCursor(log),
                          gap |-> Missed(log, Home, q.since)]
      BY <1>1, <1>6, <2>3, <2>4 DEF Feed!Page, LatestCursor
    <2> QED BY <2>3, <2>4, <2>6, <2>7
  <1> QED BY <1>4, <1>5, <1>6

-----------------------------------------------------------------------------
(* The invariant. *)

(* A service that just started accounts for its empty log. *)
LEMMA InitOK == Init => IInv
  <1> SUFFICES ASSUME Init PROVE IInv
    OBVIOUS
  <1>1. /\ log = [epoch |-> 1, ring |-> <<>>, recorded |-> 0,
                  dropped |-> [s \in Scope |-> 0]]
        /\ history = [n \in 1 .. MaxEpoch |-> <<>>]
        /\ spent = 0 /\ turn = FALSE /\ waiters = {} /\ seen = NoCursor
    BY DEF Init, EmptyLog
  <1>2. 1 \in 1 .. MaxEpoch
    BY EventsConstants
  <1>3. LogType
    <2>1. <<>> \in Seq(Item) /\ [s \in Scope |-> 0] \in [Scope -> Nat]
      OBVIOUS
    <2>2. log \in [epoch : 1 .. MaxEpoch, ring : Seq(Item), recorded : Nat,
                   dropped : [Scope -> Nat]]
      BY <1>1, <1>2, <2>1
    <2>3. history \in [1 .. MaxEpoch -> Seq(Item)]
      BY <1>1, <2>1
    <2>4. spent \in 0 .. MaxEvents
      BY <1>1, EventsConstants
    <2>5. turn \in BOOLEAN
      BY Zenon, <1>1
    <2> QED BY <2>2, <2>3, <2>4, <2>5 DEF LogType
  <1>4. /\ Recorded = <<>> /\ Gone = 0
        /\ \A n \in 2 .. MaxEpoch : history[n] = <<>>
    BY <1>1, <1>2 DEF Recorded, Gone
  <1>5. LogOK
    BY <1>1, <1>4 DEF LogOK
  <1>6. CursorsOK
    <2>1. calls = [c \in Call |-> Idle] /\ answer = [r \in Reader |-> NoAnswer]
      BY DEF Init
    <2>2. Idle.at # "has page"
      BY DEF Idle
    <2> QED BY Zenon, <1>1, <2>1, <2>2 DEF CursorsOK
  <1> QED BY <1>1, <1>3, <1>5, <1>6 DEF IInv, WaitersOK, QuietOK

(* What recording an event does to the log. *)
LEMMA RecordedGrows ==
    ASSUME LogType, LogOK, NEW d \in Draft, Record(d)
    PROVE  /\ LogType' /\ LogOK'
           /\ log'.epoch = log.epoch /\ log'.recorded = log.recorded + 1
           /\ Recorded' = Append(Recorded, Event(log.epoch, log.recorded + 1, d))
           /\ Gone' \in {Gone, Gone + 1}
  <1> DEFINE e == Event(log.epoch, log.recorded + 1, d)
             full == Len(log.ring) = Ring
  <1>1. /\ log.epoch \in 1 .. MaxEpoch /\ log.epoch \in Nat
        /\ log.ring \in Seq(Item) /\ log.recorded \in Nat
        /\ log.dropped \in [Scope -> Nat] /\ Len(log.ring) \in Nat
        /\ history \in [1 .. MaxEpoch -> Seq(Item)]
        /\ Recorded \in Seq(Item)
    BY EventsConstants DEF LogType, Recorded
  <1>2. /\ e \in Item
        /\ e.seq = log.recorded + 1 /\ e.project = d.project
    <2>1. d.project \in Scope /\ d.kind \in Kinds
      BY EventsConstants DEF Scope, Kinds
    <2> QED BY <1>1, <2>1 DEF Event, Item
  <1>3. /\ log' = [epoch |-> log.epoch,
                   ring |-> Append(IF full THEN Tail(log.ring) ELSE log.ring, e),
                   recorded |-> log.recorded + 1,
                   dropped |-> IF full
                               THEN [log.dropped EXCEPT
                                        ![Head(log.ring).project] =
                                            Head(log.ring).seq]
                               ELSE log.dropped]
        /\ history' = [history EXCEPT ![log.epoch] = Append(history[log.epoch], e)]
        /\ spent' = spent + 1 /\ spent < MaxEvents
        /\ turn' = (waiters # {})
    BY Zenon DEF Record, RecordAt, LogType
  <1>4. full => log.ring # <<>> /\ Head(log.ring) \in Item
    BY <1>1, EventsConstants
  <1>5. /\ log'.ring = Append(IF full THEN Tail(log.ring) ELSE log.ring, e)
        /\ log'.ring \in Seq(Item)
        /\ log'.epoch = log.epoch /\ log'.recorded = log.recorded + 1
    BY <1>1, <1>2, <1>3, <1>4
  <1>6. log'.dropped \in [Scope -> Nat]
    BY Zenon, <1>1, <1>3, <1>4 DEF Item
  <1>7. LogType'
    <2>1. history' \in [1 .. MaxEpoch -> Seq(Item)]
      BY <1>1, <1>2, <1>3
    <2>2. spent' \in 0 .. MaxEvents /\ turn' \in BOOLEAN
      BY <1>3, EventsConstants DEF LogType
    <2>3. log' \in [epoch : 1 .. MaxEpoch, ring : Seq(Item), recorded : Nat,
                    dropped : [Scope -> Nat]]
      <3>1. log.recorded + 1 \in Nat
        BY <1>1
      <3> HIDE DEF e, full
      <3> QED BY Zenon, <1>1, <1>3, <1>5, <1>6, <3>1
    <2> QED BY Zenon, <2>1, <2>2, <2>3 DEF LogType
  <1>8. Recorded' = Append(Recorded, e)
    BY <1>1, <1>3, <1>5 DEF Recorded
  <1>9. /\ Len(Recorded') = log.recorded + 1
        /\ \A i \in 1 .. log.recorded : Recorded'[i] = Recorded[i]
        /\ Recorded'[log.recorded + 1] = e
    BY <1>1, <1>2, <1>8 DEF LogOK
  <1>10. Gone \in Nat /\ Gone + Len(log.ring) = log.recorded
    BY <1>1 DEF Gone, LogOK
  <1>11. /\ Gone' = IF full THEN Gone + 1 ELSE Gone
         /\ Len(log'.ring) = IF full THEN Len(log.ring) ELSE Len(log.ring) + 1
    <2>1. CASE full
      <3>1. /\ log.ring # <<>> /\ log'.ring = Append(Tail(log.ring), e)
            /\ log'.recorded = log.recorded + 1
        BY Zenon, <1>4, <1>5, <2>1
      <3>2. Tail(log.ring) \in Seq(Item) /\ Len(Tail(log.ring)) = Len(log.ring) - 1
        BY <1>1, <3>1
      <3> HIDE DEF e, full
      <3>3. Len(Append(Tail(log.ring), e)) = (Len(log.ring) - 1) + 1
        BY <3>2
      <3>4. \A n, m \in Nat : (n - 1) + 1 = n /\ (m + 1) - n = (m - n) + 1
        OBVIOUS
      <3> QED BY ZenonT(60), <1>1, <2>1, <3>1, <3>3, <3>4 DEF Gone
    <2>2. CASE ~full
      <3>1. log'.ring = Append(log.ring, e) /\ log'.recorded = log.recorded + 1
        BY Zenon, <1>5, <2>2
      <3> HIDE DEF e, full
      <3>2. Len(Append(log.ring, e)) = Len(log.ring) + 1
        BY <1>1
      <3>3. \A n, m \in Nat : (m + 1) - (n + 1) = m - n
        OBVIOUS
      <3> QED BY Zenon, <1>1, <2>2, <3>1, <3>2, <3>3 DEF Gone
    <2> HIDE DEF e, full
    <2> QED BY Zenon, <2>1, <2>2
  <1>12. ASSUME NEW i \in 1 .. Len(log'.ring)
         PROVE  log'.ring[i] = Recorded'[Gone' + i]
    <2>1. CASE i = Len(log'.ring)
      <3>1. log'.ring[i] = e
        BY <1>1, <1>2, <1>4, <1>5, <1>11, <2>1
      <3>2. CASE full
        <4>1. Gone' = Gone + 1 /\ i = Len(log.ring)
          BY <1>11, <2>1, <3>2
        <4>2. \A a, b, c \in Nat : a + b = c => (a + 1) + b = c + 1
          OBVIOUS
        <4>3. (Gone + 1) + Len(log.ring) = log.recorded + 1
          BY ZenonT(60), <1>1, <1>10, <4>2
        <4> QED BY <1>9, <3>1, <4>1, <4>3
      <3>3. CASE ~full
        <4>1. Gone' = Gone /\ i = Len(log.ring) + 1
          BY <1>11, <2>1, <3>3
        <4>2. Gone' + i = log.recorded + 1
          BY <1>1, <1>10, <4>1
        <4> QED BY <1>9, <3>1, <4>2
      <3> QED BY <3>2, <3>3
    <2>2. CASE i # Len(log'.ring) /\ full
      <3>1. log'.ring[i] = log.ring[i + 1] /\ i + 1 \in 1 .. Len(log.ring)
        BY SMTT(40), <1>1, <1>2, <1>4, <1>5, <1>11, <1>12, <2>2
      <3>2. log.ring[i + 1] = Recorded[Gone + (i + 1)]
        BY <3>1 DEF LogOK
      <3>3. Gone' + i = Gone + (i + 1) /\ Gone + (i + 1) \in 1 .. log.recorded
        <4>1. Gone' = Gone + 1 /\ i \in Nat
          BY <1>11, <1>12, <2>2
        <4> DEFINE g == Gone
                   n == Len(log.ring)
                   h == Gone'
        <4>2. g \in Nat /\ n \in Nat /\ g + n = log.recorded /\ i + 1 \in 1 .. n /\ h = g + 1
          BY <1>1, <1>10, <3>1, <4>1
        <4> HIDE DEF g, n, h
        <4>3. h + i = g + (i + 1) /\ g + (i + 1) \in 1 .. log.recorded
          BY <4>1, <4>2
        <4> QED BY <4>3 DEF g, h
      <3> QED BY <1>9, <3>1, <3>2, <3>3
    <2>3. CASE i # Len(log'.ring) /\ ~full
      <3>1. log'.ring[i] = log.ring[i] /\ i \in 1 .. Len(log.ring)
        BY <1>1, <1>2, <1>5, <1>11, <1>12, <2>3
      <3>2. log.ring[i] = Recorded[Gone + i]
        BY <3>1 DEF LogOK
      <3>3. Gone' + i = Gone + i /\ Gone + i \in 1 .. log.recorded
        <4>1. Gone' = Gone
          BY Zenon, <1>11, <2>3
        <4>2. \A g, n, m \in Nat : g + n = m => \A j \in 1 .. n : g + j \in 1 .. m
          OBVIOUS
        <4> QED BY Zenon, <1>1, <1>10, <3>1, <4>1, <4>2
      <3> QED BY <1>9, <3>1, <3>2, <3>3
    <2> QED BY <2>1, <2>2, <2>3
  <1>13. \A i \in 1 .. log'.recorded : Recorded'[i].seq = i
    <2> TAKE i \in 1 .. log'.recorded
    <2>1. i \in 1 .. log.recorded \/ i = log.recorded + 1
      BY <1>1, <1>5
    <2> QED BY <1>2, <1>9, <2>1 DEF LogOK
  <1>14. \A n \in log'.epoch + 1 .. MaxEpoch : history'[n] = <<>>
    BY <1>1, <1>3, <1>5, EventsConstants DEF LogOK
  (* The event that leaves the ring is the oldest kept. *)
  <1>15. full => /\ Head(log.ring) = Recorded[Gone + 1]
                 /\ Gone + 1 \in 1 .. log.recorded
                 /\ Head(log.ring).seq = Gone + 1
    <2> SUFFICES ASSUME full PROVE /\ Head(log.ring) = Recorded[Gone + 1]
                                   /\ Gone + 1 \in 1 .. log.recorded
                                   /\ Head(log.ring).seq = Gone + 1
      OBVIOUS
    <2>1. 1 \in 1 .. Len(log.ring) /\ Head(log.ring) = log.ring[1]
      BY <1>1, <1>4, EventsConstants
    <2>2. log.ring[1] = Recorded[Gone + 1]
      BY <2>1 DEF LogOK
    <2>3. Gone + 1 \in 1 .. log.recorded
      BY <1>1, <1>10, <2>1
    <2> QED BY <2>1, <2>2, <2>3 DEF LogOK
  <1>16. ASSUME NEW s \in Scope
         PROVE  /\ log'.dropped[s] <= Gone'
                /\ log'.dropped[s] > 0 => Recorded'[log'.dropped[s]].project = s
    <2>1. /\ log.dropped[s] \in Nat /\ log.dropped[s] <= Gone
          /\ log.dropped[s] > 0 => Recorded[log.dropped[s]].project = s
      BY <1>1 DEF LogOK
    <2>2. log.dropped[s] > 0 => log.dropped[s] \in 1 .. log.recorded
      BY <1>1, <1>10, <2>1
    <2>3. CASE full /\ s = Head(log.ring).project
      <3>1. log'.dropped[s] = Gone + 1
        BY Zenon, <1>1, <1>3, <1>15, <2>3
      <3>2. Recorded'[Gone + 1] = Recorded[Gone + 1]
        BY <1>9, <1>15, <2>3
      <3> QED BY SMTT(40), <1>10, <1>11, <1>15, <2>3, <3>1, <3>2
    <2>4. CASE ~(full /\ s = Head(log.ring).project)
      <3>1. log'.dropped[s] = log.dropped[s]
        BY <1>1, <1>3, <2>4
      <3>2. log.dropped[s] > 0 =>
               Recorded'[log.dropped[s]] = Recorded[log.dropped[s]]
        BY <1>9, <2>2
      <3> QED BY <1>10, <1>11, <2>1, <3>1, <3>2
    <2> QED BY <2>3, <2>4
  <1>17. ASSUME NEW i \in 1 .. Gone'
         PROVE  i <= log'.dropped[Recorded'[i].project]
    <2>1. i \in 1 .. log.recorded /\ Recorded'[i] = Recorded[i]
      <3>1. Gone' \in 0 .. log.recorded
        <4>1. CASE full
          BY <1>1, <1>10, <1>11, <1>15, <4>1
        <4>2. CASE ~full
          BY <1>1, <1>10, <1>11, <4>2
        <4> QED BY <4>1, <4>2
      <3>2. i \in 1 .. log.recorded
        BY <1>1, <1>17, <3>1
      <3> QED BY <1>9, <3>2
    <2>2. Recorded[i].project \in Scope
      BY <2>1, HeldAreRecorded DEF Item
    <2>3. CASE i = Gone + 1 /\ full
      <3>1. log'.dropped[Recorded[i].project] = Gone + 1
        BY Zenon, <1>1, <1>3, <1>15, <2>2, <2>3
      <3> QED BY SMTT(40), <1>10, <2>1, <2>3, <3>1
    <2>4. CASE i \in 1 .. Gone
      <3>1. i <= log.dropped[Recorded[i].project]
        BY <2>4 DEF LogOK
      <3>2. log.dropped[Recorded[i].project] \in Nat
        BY <1>1, <2>2
      <3>3. \/ log'.dropped[Recorded[i].project] = log.dropped[Recorded[i].project]
            \/ full /\ log'.dropped[Recorded[i].project] = Gone + 1
        BY ZenonT(60), <1>1, <1>3, <1>15, <2>2
      <3> QED BY <1>10, <2>1, <2>4, <3>1, <3>2, <3>3
    <2> QED BY <1>10, <1>11, <2>3, <2>4
  <1>18. log'.recorded = Len(Recorded') /\ log'.recorded <= spent'
    BY <1>1, <1>3, <1>5, <1>9 DEF LogOK, LogType
  <1>19. Len(log'.ring) <= log'.recorded
    BY <1>1, <1>5, <1>10, <1>11
  <1>20. LogOK'
    BY <1>12, <1>13, <1>14, <1>16, <1>17, <1>18, <1>19 DEF LogOK
  <1> QED BY <1>5, <1>7, <1>8, <1>10, <1>11, <1>20

(* A step that leaves the log alone leaves what is known of it alone. *)
LEMMA LogSame ==
    ASSUME LogType, LogOK, UNCHANGED <<log, history, spent>>, turn' \in BOOLEAN
    PROVE  /\ LogType' /\ LogOK'
           /\ \A w : PageOf(w)' = PageOf(w)
           /\ \A c : Given(c) => Given(c)'
  <1>1. LogType'
    BY DEF LogType
  <1>2. Recorded' = Recorded /\ Gone' = Gone
    BY DEF Recorded, Gone
  <1>3. LogOK'
    BY <1>2 DEF LogOK
  <1> QED BY <1>1, <1>3 DEF PageOf, Given

(* The cursor of a page may be held. *)
LEMMA LatestIsGiven ==
    ASSUME LogType, LogOK
    PROVE  /\ Given(LatestCursor(log))
           /\ LatestCursor(log).epoch = log.epoch
           /\ LatestCursor(log).seq = log.recorded
           /\ \A project, since, kinds :
                 Page(log, project, since, kinds).cursor = LatestCursor(log)
  <1>1. log.epoch \in 1 .. MaxEpoch /\ log.recorded \in 0 .. MaxEvents
    BY EventsConstants DEF LogType, LogOK
  <1>2. /\ LatestCursor(log) \in Cursor
        /\ LatestCursor(log).epoch = log.epoch
        /\ LatestCursor(log).seq = log.recorded
    BY <1>1 DEF LatestCursor, Cursor
  <1>3. Given(LatestCursor(log))
    BY <1>1, <1>2, EventsConstants DEF Given
  <1>4. \A project, since, kinds :
           Page(log, project, since, kinds).cursor = LatestCursor(log)
    BY DEF Page
  <1> QED BY <1>2, <1>3, <1>4

(* The answers given are those the feed promises, and carry cursors that
   may be held. *)
LEMMA AnswersAgree ==
    ASSUME LogType, LogOK, NEW W,
           \A w \in W : /\ w.project = Home
                        /\ w.since = NoCursor \/ Given(w.since),
           \A r \in Reader : answer[r] = NoAnswer \/ Given(answer[r].page.cursor)
    PROVE  /\ Reply(W) = Feed!Told(W)
           /\ \A r \in Reader : \/ Reply(W)[r] = NoAnswer
                                \/ Given(Reply(W)[r].page.cursor)
  <1>1. \A w \in W : /\ PageOf(w) = Feed!Page(w)
                     /\ Given(PageOf(w).cursor)
    BY PagesAgree, LatestIsGiven
  <1>2. ASSUME NEW r \in Reader
        PROVE  /\ Reply(W)[r] = Feed!Told(W)[r]
               /\ Reply(W)[r] = NoAnswer \/ Given(Reply(W)[r].page.cursor)
    <2>1. CASE \E w \in W : w.reader = r
      <3> DEFINE w == CHOOSE w \in W : w.reader = r
      <3>1. w \in W
        BY <2>1
      <3>2. Reply(W)[r] = [q |-> w, page |-> PageOf(w)]
        BY <2>1 DEF Reply
      <3>3. Feed!Told(W)[r] = [q |-> w, page |-> Feed!Page(w)]
        BY <2>1 DEF Feed!Told
      <3> HIDE DEF w
      <3> QED BY <1>1, <3>1, <3>2, <3>3
    <2>2. CASE ~ \E w \in W : w.reader = r
      <3>1. Reply(W)[r] = answer[r] /\ Feed!Told(W)[r] = answer[r]
        BY ZenonT(60), <2>2 DEF Reply, Feed!Told
      <3> QED BY <3>1
    <2> QED BY ZenonT(60), <2>1, <2>2
  <1>3. Reply(W) = Feed!Told(W)
    BY <1>2 DEF Reply, Feed!Told
  <1> QED BY Zenon, <1>2, <1>3

-----------------------------------------------------------------------------
(* Each action keeps the invariant and is a step of the feed. *)

(* EventLog::record is a step of the feed: one more event, and at most one
   let go. *)
LEMMA RecordServes ==
    ASSUME IInv, NEW d \in Draft, Record(d)
    PROVE  IInv' /\ Feed!Record
  <1> USE DEF IInv
  <1>1. /\ LogType' /\ LogOK'
        /\ log'.epoch = log.epoch /\ log'.recorded = log.recorded + 1
        /\ Recorded' = Append(Recorded, Event(log.epoch, log.recorded + 1, d))
        /\ Gone' \in {Gone, Gone + 1}
    BY RecordedGrows
  <1>2. /\ turn' = (waiters # {}) /\ waiters' = waiters /\ answer' = answer
        /\ seen' = seen /\ calls' = calls
    BY DEF Record, connection
  <1>3. log.recorded \in Nat
    BY DEF LogType
  <1>4. \A c : Given(c) => Given(c)'
    BY <1>1, <1>3, EventsConstants DEF Given, Cursor
  <1>5. CursorsOK'
    BY Zenon, <1>2, <1>4 DEF CursorsOK
  <1>6. WaitersOK'
    <2> SUFFICES ASSUME NEW w \in waiters
                 PROVE  /\ w \in [reader : Reader, project : {Home},
                                  kinds : ReadKinds, since : Cursor]
                        /\ w.since.epoch = log'.epoch
                        /\ w.since.seq <= log'.recorded
      BY <1>2 DEF WaitersOK
    <2>1. /\ w \in [reader : Reader, project : {Home}, kinds : ReadKinds,
                    since : Cursor]
          /\ w.since.epoch = log.epoch /\ w.since.seq <= log.recorded
      BY DEF WaitersOK
    <2>2. w.since.seq \in Nat
      BY <2>1, EventsConstants DEF Cursor
    <2> QED BY <1>1, <1>3, <2>1, <2>2
  <1>7. QuietOK'
    BY Zenon, <1>2 DEF QuietOK
  <1>8. Feed!Record
    <2>1. Recorded \in Seq(Item) /\ Len(Recorded) = log.recorded
      BY DEF LogType, LogOK, Recorded
    <2>2. /\ Len(Recorded') = Len(Recorded) + 1
          /\ SubSeq(Recorded', 1, Len(Recorded)) = Recorded
      BY <1>1, <2>1
    <2>3. Gone' \in Gone .. Len(Recorded')
      BY <1>1, <1>3, <2>1, <2>2, HeldAreRecorded
    <2> QED BY <1>1, <1>2, <2>2, <2>3 DEF Feed!Record, Recorded, Gone
  <1> QED BY <1>1, <1>5, <1>6, <1>7, <1>8

(* The tick answers every held read with an event due, with its page. *)
LEMMA AnswerServes ==
    ASSUME IInv, NEW passed \in SUBSET waiters, AnswerEventWaiters(passed)
    PROVE  IInv' /\ Feed!Answer
  <1> USE DEF IInv
  <1> DEFINE done == {w \in waiters : ~(PageOf(w).events = {} /\ w \notin passed)}
  <1>1. /\ turn' = FALSE /\ waiters' = waiters \ done /\ answer' = Reply(done)
        /\ UNCHANGED <<log, history, spent, seen, calls>>
    BY DEF AnswerEventWaiters, connection
  <1>2. /\ LogType' /\ LogOK'
        /\ \A w : PageOf(w)' = PageOf(w)
        /\ \A c : Given(c) => Given(c)'
    BY Zenon, <1>1, LogSame
  <1>3. \A w \in waiters : /\ w.project = Home /\ Given(w.since)
                           /\ w.since # NoCursor
    BY EventsConstants DEF WaitersOK, Given, Cursor, LogType
  <1>4. /\ Reply(done) = Feed!Told(done)
        /\ \A r \in Reader : \/ Reply(done)[r] = NoAnswer
                             \/ Given(Reply(done)[r].page.cursor)
    <2> HIDE DEF done
    <2>1. done \subseteq waiters
      BY DEF done
    <2> QED BY Zenon, <1>3, <2>1, AnswersAgree DEF CursorsOK
  <1>5. CursorsOK'
    <2> HIDE DEF done
    <2> QED BY Zenon, <1>1, <1>2, <1>4 DEF CursorsOK
  <1>6. WaitersOK' /\ QuietOK'
    BY Zenon, <1>1, <1>2 DEF WaitersOK, QuietOK
  <1>7. Feed!Answer
    <2>1. Feed!Overdue \subseteq done
      BY <1>3, PagesAgree DEF Feed!Overdue
    <2>2. waiters' \in SUBSET (waiters \ Feed!Overdue)
      BY <1>1, <2>1
    <2>3. waiters \ waiters' = done
      BY Zenon, <1>1
    <2> HIDE DEF done
    <2> QED BY Zenon, <1>1, <1>4, <2>2, <2>3 DEF Feed!Answer
  <1> QED BY <1>2, <1>5, <1>6, <1>7

(* events_after answers at once or holds the read, as the feed does. *)
LEMMA AskServes ==
    ASSUME IInv, NEW r \in Reader, NEW kinds \in ReadKinds, NEW wait \in BOOLEAN,
           NEW since \in Since(r), EventsAfter(r, since, kinds, wait)
    PROVE  IInv' /\ \E q \in Feed!Query, w \in BOOLEAN : Feed!Ask(q, w)
  <1> USE DEF IInv
  <1> DEFINE q == [reader |-> r, project |-> Home, kinds |-> kinds,
                   since |-> since]
             from == IF since = NoCursor THEN LatestCursor(log) ELSE since
             now == PageOf(q).events # {} \/ ~wait \/ PageOf(q).gap
             held == [q EXCEPT !.since = from]
  <1>1. /\ ~turn /\ \A w \in waiters : w.reader # r
        /\ UNCHANGED <<log, history, spent, turn, seen, calls>>
        /\ now => answer' = Reply({q}) /\ waiters' = waiters
        /\ ~now => waiters' = waiters \cup {held} /\ answer' = answer
    BY DEF EventsAfter, connection
  <1>2. /\ LogType' /\ LogOK'
        /\ \A w : PageOf(w)' = PageOf(w)
        /\ \A c : Given(c) => Given(c)'
    <2>1. turn' \in BOOLEAN
      BY <1>1 DEF LogType
    <2> QED BY <1>1, <2>1, LogSame
  <1>3. since = NoCursor \/ Given(since)
    BY Zenon DEF Since, CursorsOK
  <1>4. q.project = Home /\ q.since = since /\ q.reader = r /\ q.kinds = kinds
    OBVIOUS
  <1> HIDE DEF q
  <1>5. /\ PageOf(q) = Feed!Page(q)
        /\ PageOf(q).gap = Feed!Missed(q)
        /\ since # NoCursor => PageOf(q).events = Feed!Due(q)
    BY <1>3, <1>4, PagesAgree
  <1>6. q \in Feed!Query
    BY <1>3 DEF q, Feed!Query, Given, Cursor
  <1>7. Feed!Overdue = {}
    <2>1. \A w \in waiters : /\ w.project = Home /\ Given(w.since)
                             /\ w.since # NoCursor
      BY EventsConstants DEF WaitersOK, Given, Cursor, LogType
    <2>2. \A w \in waiters : Feed!Due(w) = {}
      BY <1>1, <2>1, PagesAgree DEF QuietOK
    <2> QED BY Zenon, <2>2 DEF Feed!Overdue
  <1>8. CASE now
    <2>1. /\ Reply({q}) = Feed!Told({q})
          /\ \A s \in Reader : \/ Reply({q})[s] = NoAnswer
                               \/ Given(Reply({q})[s].page.cursor)
      BY Zenon, <1>3, <1>4, AnswersAgree DEF CursorsOK
    <2>2. CursorsOK'
      BY Zenon, <1>1, <1>2, <1>8, <2>1 DEF CursorsOK
    <2>3. WaitersOK' /\ QuietOK'
      BY <1>1, <1>2, <1>8 DEF WaitersOK, QuietOK
    <2>4. Feed!Page(q).events # {} \/ Feed!Missed(q) \/ ~wait
      BY <1>5, <1>8
    <2>5. Feed!Ask(q, wait)
      BY <1>1, <1>4, <1>7, <1>8, <2>1, <2>4 DEF Feed!Ask
    <2> QED BY <1>2, <1>6, <2>2, <2>3, <2>5
  <1>9. CASE ~now
    <2>1. /\ since # NoCursor => /\ since.epoch = log.epoch
                                 /\ since.seq <= log.recorded
      <3> SUFFICES ASSUME since # NoCursor, since.epoch # log.epoch
                   PROVE  FALSE
        BY <1>3 DEF Given
      <3>1. Feed!Missed(q)
        BY ZenonT(60), <1>4 DEF Feed!Missed, Feed!Foreign
      <3> QED BY <1>5, <1>9, <3>1
    <2>2. /\ from \in Cursor /\ from.epoch = log.epoch
          /\ from.seq <= log.recorded
      BY <1>3, <2>1, LatestIsGiven DEF Given
    <2>3. held = [reader |-> r, project |-> Home, kinds |-> kinds, since |-> from]
      BY SMTT(40) DEF q
    <2>4. WaitersOK'
      <3> HIDE DEF from, held
      <3>1. /\ held \in [reader : Reader, project : {Home}, kinds : ReadKinds,
                         since : Cursor]
            /\ held.since.epoch = log.epoch /\ held.since.seq <= log.recorded
        BY Zenon, <2>2, <2>3
      <3> HIDE DEF now
      <3>2. waiters' = waiters \cup {held} /\ log' = log
        BY Zenon, <1>1, <1>9
      <3> QED BY Zenon, <3>1, <3>2 DEF WaitersOK
    <2>5. PageOf(held).events = {}
      <3>1. CASE since # NoCursor
        <4>1. held = q
          BY <2>3, <3>1 DEF q
        <4> QED BY <1>9, <4>1
      <3>2. CASE since = NoCursor
        <4>1. /\ held.project = Home /\ held.since = LatestCursor(log)
              /\ LatestCursor(log) # NoCursor
          BY <2>3, <3>2, LatestIsGiven, EventsConstants DEF Given, Cursor
        <4>2. Feed!Start(held) = log.recorded
          BY <4>1, LatestIsGiven DEF Feed!Start, Feed!Foreign
        <4>3. log.recorded \in Nat
          BY DEF LogType
        <4>4. Feed!Due(held) =
                 {e \in Relevant(held.kinds) : e.seq > log.recorded}
          <5> HIDE DEF held
          <5> QED BY <4>1, <4>2, <4>3, DueAreHeld
        <4>5. \A e \in Relevant(held.kinds) : e.seq \in Nat /\ e.seq <= log.recorded
          BY HeldAreRecorded DEF Relevant, Item
        <4>6. Feed!Due(held) = {}
          BY ZenonT(60), <4>3, <4>4, <4>5, Order
        <4>7. PageOf(held).events = Feed!Due(held)
          <5> HIDE DEF held
          <5> QED BY SMTT(40), <4>1, LatestIsGiven, PagesAgree
        <4> QED BY <4>6, <4>7
      <3> QED BY <3>1, <3>2
    <2>6. QuietOK'
      <3> HIDE DEF held, now
      <3> QED BY Zenon, <1>1, <1>2, <1>9, <2>5 DEF QuietOK
    <2>7. CursorsOK'
      BY Zenon, <1>1, <1>2, <1>9 DEF CursorsOK
    <2>8. ~(Feed!Page(q).events # {} \/ Feed!Missed(q) \/ ~wait)
      BY <1>5, <1>9
    <2>9. held = [q EXCEPT !.since =
                     IF @ = NoCursor
                     THEN [epoch |-> log.epoch, seq |-> Len(history[log.epoch])]
                     ELSE @]
      BY <1>4 DEF LatestCursor, LogOK, Recorded
    <2>10. Feed!Ask(q, wait)
      <3> HIDE DEF held, now
      <3> QED BY <1>1, <1>4, <1>7, <1>9, <2>8, <2>9 DEF Feed!Ask
    <2> QED BY Zenon, <1>2, <1>6, <2>4, <2>6, <2>7, <2>10
  <1> QED BY <1>8, <1>9

(* The calls of a connection only read the log. *)
LEMMA CallsServe ==
    ASSUME IInv, NEW c \in Call,
           AlertsSince(c) \/ AlertsPage(c) \/ AlertsFail(c) \/ AlertsTake(c)
    PROVE  IInv' /\ UNCHANGED Feed!vars
  <1> USE DEF IInv
  <1>1. UNCHANGED <<log, turn, waiters, answer, history, spent>>
    BY Zenon DEF AlertsSince, AlertsPage, AlertsFail, AlertsTake, service
  <1>2. /\ LogType' /\ LogOK'
        /\ \A w : PageOf(w)' = PageOf(w)
        /\ \A k : Given(k) => Given(k)'
    <2>1. turn' \in BOOLEAN
      BY Zenon, <1>1 DEF LogType
    <2> QED BY <1>1, <2>1, LogSame
  <1>3. WaitersOK' /\ QuietOK'
    BY <1>1, <1>2 DEF WaitersOK, QuietOK
  <1>4. seen' = NoCursor \/ Given(seen')
    <2>1. CASE AlertsTake(c)
      <3>1. Given(calls[c].page.cursor)
        BY Zenon, <2>1 DEF AlertsTake, CursorsOK
      <3> QED BY Zenon, <2>1, <3>1 DEF AlertsTake, Mark, CursorsOK
    <2>2. CASE seen' = seen
      BY Zenon, <2>2 DEF CursorsOK
    <2> QED BY Zenon, <2>1, <2>2 DEF AlertsSince, AlertsPage, AlertsFail
  <1>5. /\ calls' = [k \in Call |-> calls'[k]]
        /\ \A k \in Call : calls'[k].at = "has page" => Given(calls'[k].page.cursor)
    <2>1. PICK x : /\ calls' = [calls EXCEPT ![c] = x]
                   /\ x.at = "has page" => Given(x.page.cursor)
      <3>1. CASE AlertsSince(c)
        <4> DEFINE x == [Idle EXCEPT !.at = "asks", !.since = seen]
        <4>1. calls' = [calls EXCEPT ![c] = x]
          BY <3>1 DEF AlertsSince
        <4>2. x.at # "has page"
          BY DEF Idle
        <4> HIDE DEF x
        <4> QED BY Zenon, <4>1, <4>2
      <3>2. CASE AlertsPage(c)
        <4> DEFINE x == [at |-> "has page", since |-> calls[c].since,
                         page |-> Page(log, Home, calls[c].since, AlertKinds)]
        <4>1. calls' = [calls EXCEPT ![c] = x]
          BY ZenonT(60), <3>2 DEF AlertsPage
        <4>2. Given(x.page.cursor)
          BY LatestIsGiven
        <4> HIDE DEF x
        <4> QED BY Zenon, <4>1, <4>2
      <3>3. CASE AlertsFail(c) \/ AlertsTake(c)
        <4>1. calls' = [calls EXCEPT ![c] = Idle]
          BY Zenon, <3>3 DEF AlertsFail, AlertsTake
        <4>2. Idle.at # "has page"
          BY DEF Idle
        <4> QED BY Zenon, <4>1, <4>2
      <3> QED BY Zenon, <3>1, <3>2, <3>3
    <2>2. calls = [k \in Call |-> calls[k]]
      BY Zenon DEF CursorsOK
    <2>3. /\ calls' = [k \in Call |-> IF k = c THEN x ELSE calls[k]]
      BY Zenon, <2>1, <2>2
    <2> QED BY Zenon, <2>1, <2>3 DEF CursorsOK
  <1>6. CursorsOK'
    BY Zenon, <1>1, <1>2, <1>4, <1>5 DEF CursorsOK
  <1>7. UNCHANGED Feed!vars
    BY <1>1 DEF Feed!vars
  <1> QED BY <1>2, <1>3, <1>6, <1>7

(* The next service starts an empty feed, and every cursor a client still
   holds is of an earlier one. *)
LEMMA RestartServes ==
    ASSUME IInv, Restart
    PROVE  IInv' /\ Feed!Restart
  <1> USE DEF IInv
  <1>1. /\ log' = [epoch |-> log.epoch + 1, ring |-> <<>>, recorded |-> 0,
                   dropped |-> [s \in Scope |-> 0]]
        /\ log.epoch < MaxEpoch
        /\ turn' = FALSE /\ waiters' = {}
        /\ UNCHANGED <<answer, history, spent, seen, calls>>
    BY Zenon DEF Restart, EmptyLog
  <1>2. log.epoch \in 1 .. MaxEpoch /\ log.epoch + 1 \in 1 .. MaxEpoch
    BY SMTT(40), <1>1, EventsConstants DEF LogType
  <1>3. LogType'
    <2>1. <<>> \in Seq(Item) /\ [s \in Scope |-> 0] \in [Scope -> Nat]
      OBVIOUS
    <2>2. log' \in [epoch : 1 .. MaxEpoch, ring : Seq(Item), recorded : Nat,
                    dropped : [Scope -> Nat]]
      BY <1>1, <1>2, <2>1
    <2>3. turn' \in BOOLEAN
      BY Zenon, <1>1
    <2> QED BY <1>1, <2>2, <2>3 DEF LogType
  <1>4. Recorded' = <<>> /\ Gone' = 0
    <2>1. history[log.epoch + 1] = <<>>
      <3>1. log.epoch + 1 \in log.epoch + 1 .. MaxEpoch
        BY <1>2, EventsConstants
      <3> QED BY Zenon, <3>1 DEF LogOK
    <2> QED BY SMTT(40), <1>1, <2>1 DEF Recorded, Gone
  <1>5. LogOK'
    <2>1. \A n \in (log.epoch + 1) + 1 .. MaxEpoch : history[n] = <<>>
      BY <1>2, EventsConstants DEF LogOK
    <2>2. 0 <= spent
      BY EventsConstants DEF LogType
    <2>3. /\ log'.recorded = 0 /\ log'.ring = <<>> /\ log'.epoch = log.epoch + 1
          /\ spent' = spent /\ history' = history /\ \A s \in Scope : log'.dropped[s] = 0
      BY Zenon, <1>1
    <2>4. Len(<<>>) = 0 /\ (\A i \in 1 .. 0 : FALSE) /\ ~(0 > 0) /\ 0 <= 0
      OBVIOUS
    <2> QED BY Zenon, <1>4, <2>1, <2>2, <2>3, <2>4 DEF LogOK
  <1>6. \A c : Given(c) => Given(c)'
    <2> SUFFICES ASSUME NEW c, Given(c) PROVE Given(c)'
      OBVIOUS
    <2>1. c \in Cursor /\ c.epoch <= log.epoch /\ c.epoch \in Nat
      BY SMTT(40), EventsConstants DEF Given, Cursor
    <2>2. c.epoch < log.epoch + 1 /\ log'.epoch = log.epoch + 1
      BY <1>1, <1>2, <2>1, EventsConstants
    <2> QED BY <1>2, <2>1, <2>2, EventsConstants DEF Given
  <1>7. CursorsOK'
    BY Zenon, <1>1, <1>6 DEF CursorsOK
  <1>8. WaitersOK' /\ QuietOK'
    BY Zenon, <1>1 DEF WaitersOK, QuietOK
  <1>9. Feed!Restart
    BY Zenon, <1>1, <1>4 DEF Feed!Restart, Recorded, Gone
  <1> QED BY <1>3, <1>5, <1>7, <1>8, <1>9

(* Every step keeps the invariant and is a step of the feed or none. *)
LEMMA StepServes ==
    IInv /\ [Next]_vars => IInv' /\ [Feed!Next]_(Feed!vars)
  <1> SUFFICES ASSUME IInv, [Next]_vars
               PROVE  IInv' /\ (Feed!Next \/ UNCHANGED Feed!vars)
    OBVIOUS
  <1>1. ASSUME NEW d \in Draft, Record(d)
        PROVE  IInv' /\ Feed!Next
    BY <1>1, RecordServes DEF Feed!Next
  <1>2. ASSUME NEW passed \in SUBSET waiters, AnswerEventWaiters(passed)
        PROVE  IInv' /\ Feed!Next
    BY <1>2, AnswerServes DEF Feed!Next
  <1>3. ASSUME NEW r \in Reader, NEW kinds \in ReadKinds, NEW wait \in BOOLEAN,
               NEW since \in Since(r), EventsAfter(r, since, kinds, wait)
        PROVE  IInv' /\ Feed!Next
    BY <1>3, AskServes DEF Feed!Next
  <1>4. ASSUME NEW c \in Call,
               AlertsSince(c) \/ AlertsPage(c) \/ AlertsFail(c) \/ AlertsTake(c)
        PROVE  IInv' /\ UNCHANGED Feed!vars
    BY <1>4, CallsServe
  <1>5. CASE Restart
    BY <1>5, RestartServes DEF Feed!Next
  <1>6. CASE UNCHANGED vars
    <2>1. UNCHANGED <<log, turn, waiters, answer, history, spent, seen, calls>>
      BY <1>6 DEF vars, service, connection
    <2>2. turn' \in BOOLEAN
      BY <2>1 DEF IInv, LogType
    <2>3. /\ LogType' /\ LogOK'
          /\ \A w : PageOf(w)' = PageOf(w)
          /\ \A k : Given(k) => Given(k)'
      BY <2>1, <2>2, LogSame DEF IInv
    <2>4. IInv'
      BY Zenon, <2>1, <2>3 DEF IInv, CursorsOK, WaitersOK, QuietOK
    <2>5. UNCHANGED Feed!vars
      BY <2>1 DEF Feed!vars
    <2> QED BY <2>4, <2>5
  <1> QED BY <1>1, <1>2, <1>3, <1>4, <1>5, <1>6 DEF Next

-----------------------------------------------------------------------------
(***************************************************************************)
(* The event log serves the complete feed, whatever the size of its ring:  *)
(* each page EventLog::page builds, and each held read the loop answers,   *)
(* is the one EventFeed promises.                                          *)
(***************************************************************************)
THEOREM LogServesFeed == Spec => FeedIsServed
  <1>1. Init => Feed!Init
    BY EventsConstants DEF Init, EmptyLog, Feed!Init
  <1> QED BY <1>1, InitOK, StepServes, PTL DEF Spec, FeedIsServed, Feed!Spec

-----------------------------------------------------------------------------
(* The alerts of an MCP connection. *)

(* Whatever was recorded, over all services. *)
Recordings == UNION {{history[n][i] : i \in 1 .. Len(history[n])} : n \in 1 .. MaxEpoch}

(* At or before a cursor; and a cursor that is not past another. *)
Before(e, c) == e.epoch < c.epoch \/ (e.epoch = c.epoch /\ e.seq <= c.seq)

Worth(e) == e.kind \in AlertKinds /\ e.project \in {Home, Whole}

HistoryOK ==
    \A n \in 1 .. MaxEpoch : \A i \in 1 .. Len(history[n]) :
        history[n][i].epoch = n /\ history[n][i].seq = i

AlertsType ==
    /\ \A c \in Call : /\ calls[c].at \in {"idle", "asks", "has page"}
                       /\ calls[c].at = "idle" => calls[c] = Idle
    /\ ghost \in [start : Cursor \cup {NoCursor}, heard : SUBSET Item, again : SUBSET Item,
                  told : SUBSET Item, straddled : BOOLEAN]

(* A call at work read its mark from `seen', which has not gone back since;
   unless a restart came between, `seen' is that mark still or was set by a
   page of this service. *)
AskedOK(c) ==
    LET s == calls[c].since
    IN  calls[c].at # "idle" =>
          /\ s = NoCursor \/ (Given(s) /\ seen # NoCursor /\ Before(s, seen))
          /\ ~ghost.straddled => s = seen \/ (seen # NoCursor /\ seen.epoch = log.epoch)

(* Its page holds events after its mark, and all of them unless it says so. *)
PageOK(c) ==
    LET s == calls[c].since
        page == calls[c].page
    IN  calls[c].at = "has page" =>
          /\ \A e \in page.events : /\ e \in Recordings
                                    /\ e.epoch = page.cursor.epoch /\ e.seq <= page.cursor.seq
          /\ ~ghost.straddled => page.cursor.epoch = log.epoch
          /\ s # NoCursor =>
                /\ Before(s, page.cursor)
                /\ \A e \in page.events : ~Before(e, s)
                /\ ~page.gap => \A e \in Recordings :
                      Worth(e) /\ Before(e, page.cursor) => e \in page.events \/ Before(e, s)

(* What the mark covers was told, and what was told the mark covers. *)
MarkOK ==
    /\ seen # NoCursor =>
          /\ Given(ghost.start)
          /\ \A e \in Recordings : Worth(e) /\ Before(e, seen) =>
                Before(e, ghost.start) \/ e \in ghost.heard \/ e \in ghost.told
    /\ ~ghost.straddled => /\ ghost.again = {}
                           /\ \A e \in ghost.heard : seen # NoCursor /\ Before(e, seen)

AlertsOK == HistoryOK /\ AlertsType /\ (\A c \in Call : AskedOK(c) /\ PageOK(c)) /\ MarkOK

(* Every recording is an event, of some service and with some number. *)
LEMMA RecordingsAre ==
    ASSUME LogType
    PROVE  /\ \A e : e \in Recordings <=>
                 \E n \in 1 .. MaxEpoch : \E i \in 1 .. Len(history[n]) : e = history[n][i]
           /\ Recordings \subseteq Item
  <1>1. \A e : e \in Recordings <=>
           \E n \in 1 .. MaxEpoch : \E i \in 1 .. Len(history[n]) : e = history[n][i]
    BY DEF Recordings
  <1>2. \A n \in 1 .. MaxEpoch : \A i \in 1 .. Len(history[n]) : history[n][i] \in Item
    <2>0. history \in [1 .. MaxEpoch -> Seq(Item)]
      BY Zenon DEF LogType
    <2>1. \A n \in 1 .. MaxEpoch : history[n] \in Seq(Item)
      BY <2>0
    <2> QED BY <2>1
  <1>3. QED
    BY <1>1, <1>2

(* The events up to a cursor are the recordings at or before it. *)
LEMMA UpToIs ==
    ASSUME LogType, HistoryOK, NEW c \in Cursor
    PROVE  \A e : e \in UpTo(c) <=> e \in Recordings /\ Before(e, c)
  <1>1. c.epoch \in 1 .. MaxEpoch /\ c.seq \in Nat /\ c.epoch \in Nat /\ MaxEpoch \in Nat
    BY EventsConstants DEF Cursor
  <1>2. \A e : e \in UpTo(c) <=>
          \E n \in 1 .. c.epoch : \E i \in 1 .. Len(history[n]) :
             (n < c.epoch \/ i <= c.seq) /\ e = history[n][i]
    BY DEF UpTo
  <1>3. ASSUME NEW e, e \in UpTo(c) PROVE e \in Recordings /\ Before(e, c)
    <2>1. PICK n \in 1 .. c.epoch : \E i \in 1 .. Len(history[n]) :
             (n < c.epoch \/ i <= c.seq) /\ e = history[n][i]
      BY Zenon, <1>2, <1>3
    <2>2. PICK i \in 1 .. Len(history[n]) : (n < c.epoch \/ i <= c.seq) /\ e = history[n][i]
      BY <2>1
    <2>3. n \in 1 .. MaxEpoch
      BY <1>1
    <2>4. e.epoch = n /\ e.seq = i
      BY Zenon, <2>2, <2>3 DEF HistoryOK
    <2>5. Before(e, c)
      BY <1>1, <2>2, <2>3, <2>4 DEF Before
    <2>6. QED
      BY Zenon, <2>2, <2>3, <2>5, RecordingsAre
  <1>4. ASSUME NEW e, e \in Recordings, Before(e, c) PROVE e \in UpTo(c)
    <2>1. PICK n \in 1 .. MaxEpoch : \E i \in 1 .. Len(history[n]) : e = history[n][i]
      BY Zenon, <1>4, RecordingsAre
    <2>2. PICK i \in 1 .. Len(history[n]) : e = history[n][i]
      BY <2>1
    <2>3. e.epoch = n /\ e.seq = i
      BY <2>2 DEF HistoryOK
    <2>4. n \in 1 .. c.epoch /\ (n < c.epoch \/ i <= c.seq)
      BY <1>1, <1>4, <2>3 DEF Before
    <2>5. QED
      BY Zenon, <1>2, <2>2, <2>4
  <1>5. QED
    BY <1>3, <1>4

(* What a step of the log, or a restart of the service, leaves of the
   alerts: the marks given out and what they cover stay what they were. *)
LEMMA AlertsStay ==
    ASSUME IInv, AlertsOK, UNCHANGED <<seen, calls>>, HistoryOK',
           \A c : Given(c) => Given(c)',
           \A e \in Recordings : e \in Recordings',
           \A c, e : Given(c) /\ e \in Recordings' /\ Before(e, c) => e \in Recordings,
           NEW b \in BOOLEAN, ghost' = [ghost EXCEPT !.straddled = b],
           ghost.straddled => b,
           log'.epoch = log.epoch \/ b \/ \A c \in Call : calls[c] = Idle
    PROVE  AlertsOK'
  <1>1. /\ ghost' \in [start : Cursor \cup {NoCursor}, heard : SUBSET Item,
                       again : SUBSET Item, told : SUBSET Item, straddled : BOOLEAN]
        /\ ghost'.start = ghost.start /\ ghost'.heard = ghost.heard
        /\ ghost'.again = ghost.again /\ ghost'.told = ghost.told
        /\ ghost'.straddled = b
    BY Zenon DEF AlertsOK, AlertsType
  <1>2. AlertsType'
    BY Zenon, <1>1 DEF AlertsOK, AlertsType
  <1>3. ASSUME NEW c \in Call PROVE AskedOK(c)' /\ PageOK(c)'
    <2>1. CASE calls[c].at = "idle"
      BY <2>1 DEF AskedOK, PageOK
    <2>2. CASE calls[c].at # "idle"
      <3>1. b \/ log'.epoch = log.epoch
        BY <2>2 DEF Idle
      <3>2. AskedOK(c) /\ PageOK(c)
        BY DEF AlertsOK
      <3>3. AskedOK(c)'
        BY <1>1, <2>2, <3>1, <3>2 DEF AskedOK
      <3>4. PageOK(c)'
        <4>1. CASE calls[c].at = "has page"
          <5>1. Given(calls[c].page.cursor)
            BY Zenon, <4>1 DEF IInv, CursorsOK
          <5>2. QED
            BY Zenon, <1>1, <3>1, <3>2, <4>1, <5>1 DEF PageOK
        <4>2. CASE calls[c].at # "has page"
          BY Zenon, <4>2 DEF PageOK
        <4>3. QED
          BY Zenon, <4>1, <4>2
      <3>5. QED
        BY <3>3, <3>4
    <2>3. QED
      BY <2>1, <2>2
  <1>4. MarkOK'
    <2>1. MarkOK
      BY DEF AlertsOK
    <2>2. ASSUME seen # NoCursor
          PROVE  /\ Given(ghost.start)'
                 /\ \A e \in Recordings' : Worth(e) /\ Before(e, seen) =>
                       Before(e, ghost'.start) \/ e \in ghost'.heard \/ e \in ghost'.told
      <3>1. Given(seen)
        BY Zenon, <2>2 DEF IInv, CursorsOK
      <3>2. Given(ghost.start)'
        <4>1. Given(ghost.start)
          BY <2>1, <2>2 DEF MarkOK
        <4>2. QED
          BY <1>1, <4>1 DEF Given
      <3>3. ASSUME NEW e \in Recordings', Worth(e), Before(e, seen)
            PROVE  Before(e, ghost'.start) \/ e \in ghost'.heard \/ e \in ghost'.told
        <4>1. e \in Recordings
          BY <3>1, <3>3
        <4>2. QED
          BY <1>1, <2>1, <2>2, <3>3, <4>1 DEF MarkOK
      <3>4. QED
        BY <3>2, <3>3
    <2>3. QED
      BY <1>1, <2>1, <2>2 DEF MarkOK
  <1>5. QED
    BY <1>2, <1>3, <1>4 DEF AlertsOK

(* Recording an event adds one recording, after every mark given out. *)
LEMMA RecordingsGrow ==
    ASSUME IInv, HistoryOK, NEW d \in Draft, Record(d)
    PROVE  /\ HistoryOK'
           /\ \A e \in Recordings : e \in Recordings'
           /\ \A c, e : Given(c) /\ e \in Recordings' /\ Before(e, c) => e \in Recordings
  <1> DEFINE new == Event(log.epoch, log.recorded + 1, d)
  <1>1. /\ log.epoch \in 1 .. MaxEpoch /\ log.recorded \in Nat /\ log.epoch \in Nat
        /\ history \in [1 .. MaxEpoch -> Seq(Item)]
        /\ Len(history[log.epoch]) = log.recorded
        /\ MaxEpoch \in Nat
    BY ZenonT(60), LogParts
  <1>2. /\ new.epoch = log.epoch /\ new.seq = log.recorded + 1 /\ new \in Item
    <2>1. d.project \in Scope /\ d.kind \in Kinds
      BY EventsConstants DEF Scope, Kinds
    <2> QED BY <1>1, <2>1 DEF Event, Item
  <1>3. history' = [history EXCEPT ![log.epoch] = Append(history[log.epoch], new)]
    BY Zenon DEF Record
  <1> HIDE DEF new
  <1>4. /\ \A n \in 1 .. MaxEpoch : n # log.epoch => history'[n] = history[n]
        /\ history'[log.epoch] = Append(history[log.epoch], new)
    BY Zenon, <1>1, <1>3
  <1>5. /\ Len(history'[log.epoch]) = log.recorded + 1
        /\ \A i \in 1 .. log.recorded : history'[log.epoch][i] = history[log.epoch][i]
        /\ history'[log.epoch][log.recorded + 1] = new
    <2>1. history[log.epoch] \in Seq(Item)
      BY <1>1
    <2> QED BY <1>1, <1>2, <1>4, <2>1
  <1>6. \A i \in 1 .. log.recorded + 1 : i \in 1 .. log.recorded \/ i = log.recorded + 1
    BY Zenon, <1>1, OneMore
  <1>7. HistoryOK'
    <2> SUFFICES ASSUME NEW n \in 1 .. MaxEpoch, NEW i \in 1 .. Len(history'[n])
                 PROVE  history'[n][i].epoch = n /\ history'[n][i].seq = i
      BY DEF HistoryOK
    <2>1. CASE n # log.epoch
      BY <1>4, <2>1 DEF HistoryOK
    <2>2. CASE n = log.epoch
      <3>1. i \in 1 .. log.recorded \/ i = log.recorded + 1
        BY Zenon, <1>5, <1>6, <2>2
      <3>2. CASE i \in 1 .. log.recorded
        <4>1. history'[n][i] = history[n][i] /\ i \in 1 .. Len(history[n])
          BY Zenon, <1>1, <1>5, <2>2, <3>2
        <4> QED BY ZenonT(60), <4>1 DEF HistoryOK
      <3>3. CASE i = log.recorded + 1
        BY <1>2, <1>5, <2>2, <3>3
      <3> QED BY Zenon, <3>1, <3>2, <3>3
    <2> QED BY Zenon, <2>1, <2>2
  <1>8. LogType /\ LogType'
    BY Zenon, RecordServes DEF IInv
  <1>9. /\ \A e : e \in Recordings <=>
              \E n \in 1 .. MaxEpoch : \E i \in 1 .. Len(history[n]) : e = history[n][i]
        /\ \A e : e \in Recordings' <=>
              \E n \in 1 .. MaxEpoch : \E i \in 1 .. Len(history'[n]) : e = history'[n][i]
    BY DEF Recordings
  <1>10. ASSUME NEW e \in Recordings PROVE e \in Recordings'
    <2>0. PICK n \in 1 .. MaxEpoch : \E i \in 1 .. Len(history[n]) : e = history[n][i]
      BY Zenon, <1>9, <1>10
    <2>1. PICK i \in 1 .. Len(history[n]) : e = history[n][i]
      BY Zenon, <2>0
    <2>2. i \in 1 .. Len(history'[n]) /\ history'[n][i] = history[n][i]
      <3>1. CASE n # log.epoch
        BY Zenon, <1>4, <2>1, <3>1
      <3>2. CASE n = log.epoch
        <4>1. i \in 1 .. log.recorded /\ i \in 1 .. log.recorded + 1
          BY <1>1, <2>1, <3>2
        <4> QED BY Zenon, <1>5, <3>2, <4>1
      <3> QED BY Zenon, <3>1, <3>2
    <2> QED BY Zenon, <1>9, <2>1, <2>2
  <1>11. ASSUME NEW e \in Recordings' PROVE e \in Recordings \/ e = new
    <2>0. PICK n \in 1 .. MaxEpoch : \E i \in 1 .. Len(history'[n]) : e = history'[n][i]
      BY ZenonT(60), <1>9, <1>11
    <2>1. PICK i \in 1 .. Len(history'[n]) : e = history'[n][i]
      BY Zenon, <2>0
    <2>2. CASE n # log.epoch
      BY <1>4, <1>9, <2>1, <2>2
    <2>3. CASE n = log.epoch
      <3>1. i \in 1 .. log.recorded \/ i = log.recorded + 1
        BY <1>5, <1>6, <2>1, <2>3
      <3>2. CASE i \in 1 .. log.recorded
        <4>1. i \in 1 .. Len(history[n]) /\ e = history[n][i]
          BY Zenon, <1>1, <1>5, <2>1, <2>3, <3>2
        <4> QED BY Zenon, <1>9, <4>1
      <3>3. CASE i = log.recorded + 1
        BY Zenon, <1>5, <2>1, <2>3, <3>3
      <3> QED BY Zenon, <3>1, <3>2, <3>3
    <2> QED BY Zenon, <2>2, <2>3
  <1>12. ASSUME NEW c, Given(c) PROVE ~Before(new, c)
    <2>1. c.epoch \in Nat /\ c.seq \in Nat
      BY Zenon, <1>12, CursorNumbers DEF Given
    <2>2. c.epoch <= log.epoch /\ (c.epoch = log.epoch => c.seq <= log.recorded)
      BY Zenon, <1>12 DEF Given
    <2>3. \A a, b, m, n \in Nat :
             b <= a /\ (b = a => n <= m) => ~(a < b) /\ ~(a = b /\ m + 1 <= n)
      OBVIOUS
    <2> QED BY ZenonT(60), <1>1, <1>2, <2>1, <2>2, <2>3 DEF Before
  <1> QED BY Zenon, <1>7, <1>10, <1>11, <1>12

(* What the page of a call's read holds: events of the running service past
   the call's mark, and every one worth an alert unless it tells of a gap. *)
LEMMA PageHolds ==
    ASSUME IInv, HistoryOK, NEW s, s = NoCursor \/ Given(s)
    PROVE  LET page == Page(log, Home, s, AlertKinds)
           IN  /\ \A e \in page.events : /\ e \in Recordings
                                         /\ e.epoch = log.epoch /\ e.seq <= log.recorded
               /\ s # NoCursor =>
                    /\ Before(s, LatestCursor(log))
                    /\ \A e \in page.events : ~Before(e, s)
                    /\ ~page.gap => \A e \in Recordings :
                          Worth(e) /\ Before(e, LatestCursor(log)) =>
                              e \in page.events \/ Before(e, s)
  <1> DEFINE page == Page(log, Home, s, AlertKinds)
             relevant == Relevant(AlertKinds)
  <1>1. /\ log.epoch \in 1 .. MaxEpoch /\ log.recorded \in Nat /\ log.epoch \in Nat
        /\ Len(history[log.epoch]) = log.recorded
        /\ log.dropped \in [Scope -> Nat] /\ MaxEpoch \in Nat
    BY Zenon, LogParts
  <1>2. /\ Held(log) = {history[log.epoch][i] : i \in Gone + 1 .. log.recorded}
        /\ Gone \in 0 .. log.recorded
    BY Zenon, HeldAreRecorded DEF IInv, Recorded
  <1>3. /\ \A e : e \in Recordings <=>
              \E n \in 1 .. MaxEpoch : \E i \in 1 .. Len(history[n]) : e = history[n][i]
        /\ Recordings \subseteq Item
    BY ZenonT(60), RecordingsAre DEF IInv
  <1>4. \A i \in 1 .. log.recorded : /\ history[log.epoch][i] \in Recordings
                                     /\ history[log.epoch][i].epoch = log.epoch
                                     /\ history[log.epoch][i].seq = i
    BY <1>1, <1>3 DEF HistoryOK
  <1>5. \A i \in Gone + 1 .. log.recorded : i \in 1 .. log.recorded /\ i <= log.recorded
    BY <1>1, <1>2
  <1>6. \A e \in Held(log) : /\ e \in Recordings
                             /\ e.epoch = log.epoch /\ e.seq <= log.recorded
    BY <1>2, <1>4, <1>5
  <1>7. /\ s = NoCursor => page.events = NewestOf(relevant, Newest)
        /\ s # NoCursor /\ (s.epoch # log.epoch \/ s.seq > log.recorded) =>
              page.events = relevant /\ page.gap = TRUE
        /\ s # NoCursor /\ ~(s.epoch # log.epoch \/ s.seq > log.recorded) =>
              /\ page.events = {e \in relevant : e.seq > s.seq}
              /\ page.gap = Missed(log, Home, s)
    BY Zenon DEF Page, Relevant
  <1>8. relevant \subseteq Held(log)
    BY Zenon DEF Relevant
  <1>9. page.events \subseteq Held(log)
    <2>1. NewestOf(relevant, Newest) \subseteq relevant
      BY DEF NewestOf
    <2>2. {e \in relevant : e.seq > s.seq} \subseteq relevant
      BY Zenon
    <2> HIDE DEF page, relevant
    <2> QED BY Zenon, <1>7, <1>8, <2>1, <2>2
  <1>10. ASSUME s # NoCursor
         PROVE  /\ Before(s, LatestCursor(log))
                /\ \A e \in page.events : ~Before(e, s)
                /\ ~page.gap => \A e \in Recordings :
                      Worth(e) /\ Before(e, LatestCursor(log)) =>
                          e \in page.events \/ Before(e, s)
    <2>1. /\ s.epoch \in Nat /\ s.seq \in Nat /\ s.epoch <= log.epoch
          /\ s.epoch = log.epoch => s.seq <= log.recorded
      BY <1>10, EventsConstants DEF Given, Cursor
    <2>2. LatestCursor(log).epoch = log.epoch /\ LatestCursor(log).seq = log.recorded
      BY Zenon DEF LatestCursor
    <2>3. Before(s, LatestCursor(log))
      BY <1>1, <2>1, <2>2 DEF Before
    <2>4. ASSUME NEW e \in page.events PROVE ~Before(e, s)
      <3>1. e \in Item /\ e.epoch = log.epoch
        BY Zenon, <1>3, <1>6, <1>9, <2>4
      <3>2. e.seq \in Nat
        BY ZenonT(60), <3>1 DEF Item
      <3>3. CASE s.epoch # log.epoch
        BY <1>1, <2>1, <3>1, <3>3 DEF Before
      <3>4. CASE s.epoch = log.epoch
        <4>1. page.events = {x \in relevant : x.seq > s.seq}
          <5>1. ~(s.seq > log.recorded)
            BY Zenon, <1>1, <2>1, <3>4, Order
          <5> QED BY Zenon, <1>7, <1>10, <3>4, <5>1
        <4>2. e.seq > s.seq
          BY Zenon, <2>4, <4>1
        <4> QED BY Zenon, <2>1, <3>1, <3>2, <3>4, <4>2, <1>1, Order DEF Before
      <3> QED BY Zenon, <3>3, <3>4
    <2>5. ASSUME ~page.gap, NEW e \in Recordings, Worth(e), Before(e, LatestCursor(log)),
                 ~Before(e, s)
          PROVE  e \in page.events
      <3>1. s.epoch = log.epoch /\ ~(s.seq > log.recorded)
        BY Zenon, <1>7, <1>10, <2>5
      <3>2. page.events = {x \in relevant : x.seq > s.seq} /\ ~Missed(log, Home, s)
        BY Zenon, <1>7, <1>10, <2>5, <3>1
      <3>3. e \in Item /\ e.epoch \in Nat /\ e.seq \in Nat
        BY Zenon, <1>3, <2>5 DEF Item
      <3>4. e.epoch = log.epoch /\ e.seq > s.seq
        BY Zenon, <1>1, <2>1, <2>2, <2>5, <3>1, <3>3, Order DEF Before
      <3>5. e.seq \in 1 .. log.recorded /\ e = history[log.epoch][e.seq]
        <4>1. PICK n \in 1 .. MaxEpoch : \E i \in 1 .. Len(history[n]) : e = history[n][i]
          BY Zenon, <1>3, <2>5
        <4>2. PICK i \in 1 .. Len(history[n]) : e = history[n][i]
          BY Zenon, <4>1
        <4>3. n = log.epoch /\ e.seq = i
          BY Zenon, <3>4, <4>2 DEF HistoryOK
        <4> QED BY Zenon, <1>1, <4>2, <4>3
      <3>6. e.project \in {Home, Whole} /\ e.kind \in AlertKinds
        BY ZenonT(60), <2>5 DEF Worth
      <3>7. ~(log.dropped[e.project] > s.seq) /\ log.dropped[e.project] \in Nat
        <4>1. e.project \in Scope
          BY Zenon, <3>3 DEF Item
        <4> QED BY <1>1, <3>2, <3>6, <4>1 DEF Missed
      <3>8. e.seq \in Gone + 1 .. log.recorded
        <4>1. e.seq \in 1 .. Gone => e.seq <= log.dropped[e.project]
          BY ZenonT(60), <3>5 DEF IInv, LogOK, Recorded
        <4>2. Gone \in Nat /\ Gone <= log.recorded
          BY <1>1, <1>2
        <4>3. e.seq \notin 1 .. Gone
          <5>1. \A i, t, m \in Nat : i <= m /\ i > t => m > t
            OBVIOUS
          <5> QED BY Zenon, <2>1, <3>3, <3>4, <3>7, <4>1, <5>1
        <4> QED BY Zenon, <1>1, <3>3, <3>5, <4>2, <4>3, Beyond
      <3>9. e \in Held(log)
        BY Zenon, <1>2, <3>5, <3>8
      <3>10. e \in relevant
        BY Zenon, <3>6, <3>9 DEF Relevant
      <3> QED BY Zenon, <3>2, <3>4, <3>10
    <2> HIDE DEF page
    <2> QED BY Zenon, <2>3, <2>4, <2>5
  <1> HIDE DEF page
  <1>11. \A e \in page.events : e \in Recordings /\ e.epoch = log.epoch /\ e.seq <= log.recorded
    BY Zenon, <1>6, <1>9
  <1> QED BY Zenon, <1>10, <1>11 DEF page

(* A call reads the mark, gets its page or fails: nothing is told and the
   mark stays. *)
LEMMA CallAlerts ==
    ASSUME IInv, AlertsOK, NEW c \in Call, AlertsSince(c) \/ AlertsPage(c) \/ AlertsFail(c)
    PROVE  AlertsOK'
  <1>1. UNCHANGED <<log, history, seen, ghost>>
    BY Zenon DEF AlertsSince, AlertsPage, AlertsFail, service
  <1>2. Recordings' = Recordings /\ (\A k : Given(k)' <=> Given(k))
    BY <1>1 DEF Recordings, Given
  <1>3. HistoryOK' /\ MarkOK'
    <2>1. HistoryOK'
      BY Zenon, <1>1 DEF AlertsOK, HistoryOK
    <2>2. MarkOK'
      BY Zenon, <1>1, <1>2 DEF AlertsOK, MarkOK, Given
    <2> QED BY Zenon, <2>1, <2>2
  <1>4. seen = NoCursor \/ Given(seen)
    BY Zenon DEF IInv, CursorsOK
  <1>5. PICK x : /\ calls' = [calls EXCEPT ![c] = x]
                 /\ x.at \in {"idle", "asks", "has page"}
                 /\ x.at = "idle" => x = Idle
                 /\ calls'[c] = x => AskedOK(c)' /\ PageOK(c)'
    <2>1. CASE AlertsSince(c)
      <3> DEFINE x == [Idle EXCEPT !.at = "asks", !.since = seen]
      <3>1. calls' = [calls EXCEPT ![c] = x]
        BY <2>1 DEF AlertsSince
      <3>2. x.at = "asks" /\ x.since = seen
        BY DEF Idle
      <3> HIDE DEF x
      <3>3. ASSUME calls'[c] = x PROVE AskedOK(c)' /\ PageOK(c)'
        <4>1. seen # NoCursor => Before(seen, seen)
          BY Zenon, <1>4, CursorNumbers, Order DEF Given, Before
        <4>2. AskedOK(c)'
          BY Zenon, <1>1, <1>2, <1>4, <3>2, <3>3, <4>1 DEF AskedOK, Given
        <4>3. PageOK(c)'
          BY Zenon, <3>2, <3>3 DEF PageOK
        <4> QED BY Zenon, <4>2, <4>3
      <3> QED BY Zenon, <3>1, <3>2, <3>3
    <2>2. CASE AlertsPage(c)
      <3> DEFINE s == calls[c].since
                 page == Page(log, Home, s, AlertKinds)
                 x == [at |-> "has page", since |-> s, page |-> page]
      <3>1. calls' = [calls EXCEPT ![c] = x] /\ calls[c].at = "asks"
        BY Zenon, <2>2 DEF AlertsPage
      <3>2. x.at = "has page" /\ x.since = s /\ x.page = page
        OBVIOUS
      <3>3. AskedOK(c)
        BY Zenon DEF AlertsOK
      <3>4. s = NoCursor \/ Given(s)
        BY Zenon, <3>1, <3>3 DEF AskedOK
      <3>5. page.cursor = LatestCursor(log)
        BY Zenon DEF Page
      <3>6. LatestCursor(log).epoch = log.epoch /\ LatestCursor(log).seq = log.recorded
        BY Zenon DEF LatestCursor
      <3>7. /\ \A e \in page.events : /\ e \in Recordings
                                      /\ e.epoch = log.epoch /\ e.seq <= log.recorded
            /\ s # NoCursor =>
                 /\ Before(s, LatestCursor(log))
                 /\ \A e \in page.events : ~Before(e, s)
                 /\ ~page.gap => \A e \in Recordings :
                       Worth(e) /\ Before(e, LatestCursor(log)) =>
                           e \in page.events \/ Before(e, s)
        BY Zenon, <3>4, PageHolds DEF AlertsOK
      <3> HIDE DEF x, page
      <3>8. ASSUME calls'[c] = x PROVE AskedOK(c)' /\ PageOK(c)'
        <4>1. AskedOK(c)'
          BY Zenon, <1>1, <1>2, <3>1, <3>2, <3>3, <3>8 DEF AskedOK, Given
        <4>2. PageOK(c)'
          BY Zenon, <1>1, <1>2, <3>2, <3>5, <3>6, <3>7, <3>8 DEF PageOK
        <4> QED BY Zenon, <4>1, <4>2
      <3> QED BY Zenon, <3>1, <3>2, <3>8
    <2>3. CASE AlertsFail(c)
      <3>1. calls' = [calls EXCEPT ![c] = Idle]
        BY Zenon, <2>3 DEF AlertsFail
      <3>2. Idle.at = "idle"
        BY Zenon DEF Idle
      <3>3. ASSUME calls'[c] = Idle PROVE AskedOK(c)' /\ PageOK(c)'
        BY Zenon, <3>2, <3>3 DEF AskedOK, PageOK
      <3> QED BY Zenon, <3>1, <3>2, <3>3
    <2> QED BY Zenon, <2>1, <2>2, <2>3
  <1>6. /\ calls'[c] = x
        /\ \A k \in Call : k # c => calls'[k] = calls[k]
    <2>1. calls = [k \in Call |-> calls[k]]
      BY Zenon DEF IInv, CursorsOK
    <2>2. calls' = [k \in Call |-> IF k = c THEN x ELSE calls[k]]
      BY Zenon, <1>5, <2>1
    <2> QED BY Zenon, <2>2
  <1>7. AlertsType'
    BY Zenon, <1>1, <1>5, <1>6 DEF AlertsOK, AlertsType
  <1>8. ASSUME NEW k \in Call PROVE AskedOK(k)' /\ PageOK(k)'
    <2>1. CASE k = c
      BY Zenon, <1>5, <1>6, <2>1
    <2>2. CASE k # c
      <3>1. calls'[k] = calls[k] /\ AskedOK(k) /\ PageOK(k)
        BY Zenon, <1>6, <2>2 DEF AlertsOK
      <3>2. AskedOK(k)'
        BY Zenon, <1>1, <1>2, <3>1 DEF AskedOK, Given
      <3>3. PageOK(k)'
        BY Zenon, <1>1, <1>2, <3>1 DEF PageOK
      <3> QED BY Zenon, <3>2, <3>3
    <2> QED BY <2>1, <2>2
  <1> QED BY <1>3, <1>7, <1>8 DEF AlertsOK

(* One mark after another. *)
LEMMA BeforeTransitive ==
    ASSUME NEW a, a.epoch \in Nat, a.seq \in Nat, NEW b \in Cursor, NEW c \in Cursor,
           Before(a, b), Before(b, c)
    PROVE  Before(a, c)
  <1>1. b.epoch \in Nat /\ b.seq \in Nat /\ c.epoch \in Nat /\ c.seq \in Nat
    BY EventsConstants DEF Cursor
  <1> QED BY <1>1 DEF Before

(* A call takes its page.  The mark does not go back.  What the new mark
   covers and the old did not is on the page or in its gap; what is told was
   past the mark, unless a restart let the mark be of another service. *)
LEMMA TakeAlerts ==
    ASSUME IInv, AlertsOK, NEW c \in Call, AlertsTake(c)
    PROVE  AlertsOK'
  <1> DEFINE since == calls[c].since
             page == calls[c].page
             worthy == Worthy(since, page)
             alerts == NewestOf(worthy, MaxAlerts)
             missed == IF page.gap THEN Alertable(page.cursor) \ page.events ELSE {}
  <1>1. /\ calls[c].at = "has page"
        /\ seen' = Mark(since, page)
        /\ calls' = [calls EXCEPT ![c] = Idle]
        /\ ghost' = [ghost EXCEPT
                !.start = IF since = NoCursor THEN seen' ELSE @,
                !.heard = @ \cup alerts,
                !.again = @ \cup (alerts \cap ghost.heard),
                !.told = @ \cup missed \cup (worthy \ alerts)]
        /\ UNCHANGED <<log, history>>
    BY Zenon DEF AlertsTake, service
  <1>2. Recordings' = Recordings /\ (\A k : Given(k)' <=> Given(k))
    <2>1. log' = log /\ history' = history
      BY Zenon, <1>1
    <2> HIDE DEF worthy, alerts, missed
    <2> QED BY <2>1 DEF Recordings, Given
  <1>3. /\ Given(page.cursor) /\ (seen = NoCursor \/ Given(seen))
        /\ (seen' = NoCursor \/ Given(seen'))
    <2>1. IInv'
      BY CallsServe
    <2> QED BY Zenon, <1>1, <1>2, <2>1 DEF IInv, CursorsOK, Given
  <1>4. HistoryOK'
    BY Zenon, <1>1 DEF AlertsOK, HistoryOK
  <1>5. AskedOK(c) /\ PageOK(c) /\ MarkOK
    BY DEF AlertsOK
  <1>6. /\ since = NoCursor \/ (Given(since) /\ seen # NoCursor /\ Before(since, seen))
        /\ ~ghost.straddled => since = seen \/ (seen # NoCursor /\ seen.epoch = log.epoch)
    BY Zenon, <1>1, <1>5 DEF AskedOK
  <1>7. /\ \A e \in page.events : /\ e \in Recordings
                                  /\ e.epoch = page.cursor.epoch /\ e.seq <= page.cursor.seq
        /\ ~ghost.straddled => page.cursor.epoch = log.epoch
        /\ since # NoCursor =>
              /\ Before(since, page.cursor)
              /\ \A e \in page.events : ~Before(e, since)
              /\ ~page.gap => \A e \in Recordings :
                    Worth(e) /\ Before(e, page.cursor) => e \in page.events \/ Before(e, since)
    BY Zenon, <1>1, <1>5 DEF PageOK
  <1>8. Recordings \subseteq Item
    BY RecordingsAre DEF IInv
  <1>9. \A e \in Item : e.epoch \in Nat /\ e.seq \in Nat
    BY Zenon DEF Item
  <1>10. \A k : Given(k) => k \in Cursor /\ k.epoch \in Nat /\ k.seq \in Nat
    BY EventsConstants DEF Given, Cursor
  <1>11. \/ seen' = page.cursor /\ seen = since
         \/ seen' = page.cursor /\ seen # NoCursor /\ IsAfter(page.cursor, seen)
         \/ /\ seen' = seen /\ seen # since
            /\ seen = NoCursor \/ ~IsAfter(page.cursor, seen)
    BY Zenon, <1>1 DEF Mark
  <1>12. seen' = page.cursor \/ seen' = seen
    BY ZenonT(60), <1>11
  <1>13. seen # NoCursor => seen' # NoCursor /\ Before(seen, seen')
    <2> SUFFICES ASSUME seen # NoCursor PROVE seen' # NoCursor /\ Before(seen, seen')
      OBVIOUS
    <2>1. seen' # NoCursor
      <3>1. \A k : Given(k) => k # NoCursor
        BY <1>10, EventsConstants DEF Cursor
      <3> QED BY Zenon, <1>3, <1>12, <3>1
    <2>2. Before(seen, seen)
      BY ZenonT(60), <1>3, <1>10, Order DEF Before
    <2>3. CASE seen' = page.cursor /\ seen = since
      <3>1. since # NoCursor
        BY <2>3
      <3> QED BY <1>7, <2>1, <2>3, <3>1
    <2>4. CASE seen' = page.cursor /\ IsAfter(page.cursor, seen)
      <3>1. Before(seen, page.cursor)
        BY <1>3, <1>10, <2>4 DEF IsAfter, Before
      <3> QED BY ZenonT(60), <2>1, <2>4, <3>1
    <2>5. CASE seen' = seen
      BY Zenon, <2>2, <2>5
    <2> QED BY <1>11, <2>1, <2>3, <2>4, <2>5
  <1>14. /\ worthy \subseteq page.events
         /\ alerts \subseteq worthy
         /\ since = NoCursor => worthy = {}
    BY Zenon DEF Worthy, NewestOf
  <1>15. missed \subseteq Recordings
    <2>1. Alertable(page.cursor) \subseteq UpTo(page.cursor)
      BY ZenonT(60) DEF Alertable
    <2>2. UpTo(page.cursor) \subseteq Recordings
      BY <1>3, <1>10, UpToIs DEF IInv, AlertsOK
    <2> QED BY Zenon, <2>1, <2>2
  <1> HIDE DEF worthy, alerts, missed
  <1>16. /\ ghost'.start = IF since = NoCursor THEN seen' ELSE ghost.start
         /\ ghost'.heard = ghost.heard \cup alerts
         /\ ghost'.again = ghost.again \cup (alerts \cap ghost.heard)
         /\ ghost'.told = ghost.told \cup missed \cup (worthy \ alerts)
         /\ ghost'.straddled = ghost.straddled
    BY Zenon, <1>1 DEF AlertsOK, AlertsType
  <1>17. ghost' \in [start : Cursor \cup {NoCursor}, heard : SUBSET Item,
                     again : SUBSET Item, told : SUBSET Item, straddled : BOOLEAN]
    <2>1. seen' \in Cursor \cup {NoCursor}
      BY Zenon, <1>3, <1>10
    <2>2. worthy \subseteq Item /\ missed \subseteq Item
      BY Zenon, <1>7, <1>8, <1>14, <1>15
    <2>3. /\ ghost.heard \cup alerts \in SUBSET Item
          /\ ghost.again \cup (alerts \cap ghost.heard) \in SUBSET Item
          /\ ghost.told \cup missed \cup (worthy \ alerts) \in SUBSET Item
      BY Zenon, <1>14, <2>2 DEF AlertsOK, AlertsType
    <2>4. (IF since = NoCursor THEN seen' ELSE ghost.start) \in Cursor \cup {NoCursor}
      BY Zenon, <2>1 DEF AlertsOK, AlertsType
    <2> HIDE DEF since
    <2> QED BY Zenon, <1>1, <2>3, <2>4 DEF AlertsOK, AlertsType
  <1>18. /\ calls'[c] = Idle /\ Idle.at = "idle"
         /\ \A k \in Call : k # c => calls'[k] = calls[k]
    <2>1. calls = [k \in Call |-> calls[k]]
      BY Zenon DEF IInv, CursorsOK
    <2>2. calls' = [k \in Call |-> IF k = c THEN Idle ELSE calls[k]]
      BY Zenon, <1>1, <2>1
    <2>3. Idle.at = "idle"
      BY Zenon DEF Idle
    <2> QED BY Zenon, <2>2, <2>3
  <1>19. AlertsType'
    BY Zenon, <1>17, <1>18 DEF AlertsOK, AlertsType
  <1>20. ASSUME NEW k \in Call PROVE AskedOK(k)' /\ PageOK(k)'
    <2>1. CASE k = c
      BY Zenon, <1>18, <2>1 DEF AskedOK, PageOK
    <2>2. CASE k # c
      <3> DEFINE s == calls[k].since
      <3>1. calls'[k] = calls[k] /\ AskedOK(k) /\ PageOK(k)
        BY Zenon, <1>18, <2>2 DEF AlertsOK
      <3>2. ASSUME calls[k].at # "idle"
            PROVE  /\ s = NoCursor \/ (Given(s) /\ seen' # NoCursor /\ Before(s, seen'))
                   /\ ~ghost.straddled =>
                         s = seen' \/ (seen' # NoCursor /\ seen'.epoch = log.epoch)
        <4>1. /\ s = NoCursor \/ (Given(s) /\ seen # NoCursor /\ Before(s, seen))
              /\ ~ghost.straddled => s = seen \/ (seen # NoCursor /\ seen.epoch = log.epoch)
          BY Zenon, <3>1, <3>2 DEF AskedOK
        <4>2. ASSUME s # NoCursor PROVE Given(s) /\ seen' # NoCursor /\ Before(s, seen')
          <5>1. Given(s) /\ seen # NoCursor /\ Before(s, seen)
            BY Zenon, <4>1, <4>2
          <5>2. seen' # NoCursor /\ Before(seen, seen') /\ seen \in Cursor /\ seen' \in Cursor
            BY Zenon, <1>3, <1>10, <1>13, <5>1
          <5> QED BY Zenon, <1>10, <5>1, <5>2, BeforeTransitive
        <4>3. ASSUME ~ghost.straddled
              PROVE  s = seen' \/ (seen' # NoCursor /\ seen'.epoch = log.epoch)
          <5>1. CASE seen' = seen
            BY Zenon, <4>1, <4>3, <5>1
          <5>2. CASE seen' = page.cursor
            <6>1. page.cursor # NoCursor
              BY <1>3, <1>10, EventsConstants DEF Cursor
            <6> QED BY Zenon, <1>7, <4>3, <5>2, <6>1
          <5> QED BY Zenon, <1>12, <5>1, <5>2
        <4> QED BY Zenon, <4>2, <4>3
      <3>3. AskedOK(k)'
        BY Zenon, <1>1, <1>2, <1>16, <3>1, <3>2 DEF AskedOK, Given
      <3>4. PageOK(k)'
        BY ZenonT(60), <1>1, <1>2, <1>16, <3>1 DEF PageOK
      <3> QED BY Zenon, <3>3, <3>4
    <2> QED BY Zenon, <2>1, <2>2
  <1>21. ASSUME seen' # NoCursor PROVE Given(ghost'.start)
    <2>1. CASE since = NoCursor
      BY Zenon, <1>3, <1>16, <1>21, <2>1
    <2>2. CASE since # NoCursor
      BY Zenon, <1>5, <1>6, <1>16, <2>2 DEF MarkOK
    <2> QED BY <2>1, <2>2
  <1>22. ASSUME seen' # NoCursor, NEW e \in Recordings, Worth(e), Before(e, seen')
         PROVE  Before(e, ghost'.start) \/ e \in ghost'.heard \/ e \in ghost'.told
    <2>1. CASE since = NoCursor
      BY Zenon, <1>16, <1>22, <2>1
    <2>2. CASE since # NoCursor
      <3>1. seen # NoCursor /\ Given(since) /\ Before(since, seen)
        BY Zenon, <1>6, <2>2
      <3>2. CASE Before(e, seen)
        BY Zenon, <1>5, <1>16, <1>22, <2>2, <3>1, <3>2 DEF MarkOK
      <3>3. CASE ~Before(e, seen)
        <4>1. seen' = page.cursor /\ (seen = since \/ IsAfter(page.cursor, seen))
          BY <1>11, <1>22, <3>3
        <4>2. e.kind \in AlertKinds /\ e.project \in {Home, Whole} /\ e \in Item
          BY Zenon, <1>8, <1>22 DEF Worth
        <4>3. ASSUME e \in page.events PROVE e \in worthy
          <5>1. seen = since \/ IsAfter(At(e), seen)
            <6>1. CASE IsAfter(page.cursor, seen)
              <7>1. e.epoch = seen.epoch
                BY Zenon, <1>7, <4>3, <6>1 DEF IsAfter
              <7>2. e.seq > seen.seq
                BY Zenon, <1>3, <1>9, <1>10, <3>1, <3>3, <4>2, <7>1, Order DEF Before
              <7> QED BY Zenon, <7>1, <7>2 DEF IsAfter, At
            <6> QED BY Zenon, <4>1, <6>1
          <5> QED BY Zenon, <2>2, <4>2, <4>3, <5>1 DEF worthy, Worthy
        <4>4. e \in page.events => e \in ghost'.heard \/ e \in ghost'.told
          BY Zenon, <1>16, <4>3
        <4>5. CASE page.gap
          <5>1. e \in UpTo(page.cursor)
            BY Zenon, <1>3, <1>10, <1>22, <4>1, UpToIs DEF IInv, AlertsOK
          <5>2. e \in Alertable(page.cursor)
            BY Zenon, <4>2, <5>1 DEF Alertable
          <5>3. e \notin page.events => e \in missed
            BY Zenon, <4>5, <5>2 DEF missed
          <5> QED BY Zenon, <1>16, <4>4, <5>3
        <4>6. CASE ~page.gap
          <5>1. e \in page.events \/ Before(e, since)
            BY Zenon, <1>7, <1>22, <2>2, <4>1, <4>6
          <5>2. ~Before(e, since)
            <6>1. e.epoch \in Nat /\ e.seq \in Nat /\ since \in Cursor /\ seen \in Cursor
              BY Zenon, <1>3, <1>9, <1>10, <3>1, <4>2
            <6> QED BY Zenon, <3>1, <3>3, <6>1, BeforeTransitive
          <5> QED BY Zenon, <4>4, <5>1, <5>2
        <4> QED BY ZenonT(60), <4>5, <4>6
      <3> QED BY Zenon, <3>2, <3>3
    <2> QED BY Zenon, <2>1, <2>2
  <1>23. ASSUME ~ghost.straddled, NEW e \in alerts
         PROVE  e \notin ghost.heard /\ seen' # NoCursor /\ Before(e, seen')
    <2>1. e \in worthy /\ e \in page.events /\ since # NoCursor
      BY Zenon, <1>14, <1>23
    <2>2. /\ e.epoch \in Nat /\ e.seq \in Nat
          /\ e.epoch = page.cursor.epoch /\ e.seq <= page.cursor.seq
          /\ ~Before(e, since) /\ page.cursor.epoch = log.epoch
      BY Zenon, <1>7, <1>8, <1>9, <1>23, <2>1
    <2>3. seen # NoCursor /\ Given(seen) /\ seen' # NoCursor
      BY Zenon, <1>3, <1>6, <1>13, <2>1
    <2>4. seen = since \/ seen.epoch = log.epoch
      BY ZenonT(60), <1>6, <1>23
    <2>5. e \notin ghost.heard
      <3> SUFFICES ASSUME e \in ghost.heard PROVE FALSE
        BY Zenon
      <3>1. Before(e, seen)
        BY Zenon, <1>5, <1>23 DEF MarkOK
      <3>2. seen # since /\ seen.epoch = log.epoch
        BY Zenon, <2>2, <2>4, <3>1
      <3>3. e.epoch # seen.epoch \/ IsAfter(At(e), seen)
        BY Zenon, <2>1, <2>3, <3>2 DEF worthy, Worthy
      <3>4. e.seq > seen.seq
        BY Zenon, <2>2, <3>2, <3>3 DEF IsAfter, At
      <3> QED BY <1>10, <2>2, <2>3, <3>1, <3>2, <3>4 DEF Before
    <2>6. Before(e, seen')
      <3>1. CASE seen' = page.cursor
        BY Zenon, <2>2, <3>1 DEF Before
      <3>2. CASE seen' = seen /\ seen # since /\ ~IsAfter(page.cursor, seen)
        <4>1. seen.epoch = page.cursor.epoch /\ ~(page.cursor.seq > seen.seq)
          BY Zenon, <2>2, <2>4, <3>2 DEF IsAfter
        <4>2. e.seq <= seen.seq
          <5>1. seen.seq \in Nat /\ page.cursor.seq \in Nat
            BY Zenon, <1>3, <1>10, <2>3, CursorNumbers DEF Given
          <5>2. \A a, b, m \in Nat : a <= b /\ ~(b > m) => a <= m
            OBVIOUS
          <5> QED BY Zenon, <2>2, <4>1, <5>1, <5>2
        <4> QED BY Zenon, <2>2, <3>2, <4>1, <4>2 DEF Before
      <3> QED BY Zenon, <1>11, <2>3, <3>1, <3>2
    <2> QED BY Zenon, <2>3, <2>5, <2>6
  <1>24. ASSUME ~ghost.straddled, NEW e \in ghost.heard
         PROVE  seen' # NoCursor /\ Before(e, seen')
    <2>1. seen # NoCursor /\ Before(e, seen)
      BY Zenon, <1>5, <1>24 DEF MarkOK
    <2>2. e \in Item
      BY Zenon, <1>24 DEF AlertsOK, AlertsType
    <2>3. /\ e.epoch \in Nat /\ e.seq \in Nat /\ seen \in Cursor /\ seen' \in Cursor
          /\ seen' # NoCursor /\ Before(seen, seen')
      BY ZenonT(60), <1>3, <1>9, <1>10, <1>13, <2>1, <2>2
    <2> QED BY Zenon, <2>1, <2>3, BeforeTransitive
  <1>25. ~ghost.straddled => ghost'.again = {}
    BY <1>5, <1>16, <1>23 DEF MarkOK
  <1>26. Given(ghost'.start) => Given(ghost.start)'
    BY Zenon, <1>1 DEF Given
  <1>27. MarkOK'
    <2>1. ~ghost.straddled => \A e \in ghost'.heard : seen' # NoCursor /\ Before(e, seen')
      BY <1>16, <1>23, <1>24
    <2> HIDE DEF since, page
    <2> QED BY ZenonT(60), <1>2, <1>16, <1>21, <1>22, <1>25, <1>26, <2>1 DEF MarkOK
  <1> QED BY <1>4, <1>19, <1>20, <1>27 DEF AlertsOK

\* No alert is out when the service starts.
LEMMA InitAlerts == Init => AlertsOK
  <1> SUFFICES ASSUME Init PROVE AlertsOK
    BY Zenon
  <1>1. /\ seen = NoCursor /\ calls = [c \in Call |-> Idle]
        /\ history = [n \in 1 .. MaxEpoch |-> <<>>]
        /\ ghost = [start |-> NoCursor, heard |-> {}, again |-> {}, told |-> {},
                    straddled |-> FALSE]
    BY Zenon DEF Init
  <1>2. HistoryOK
    BY <1>1 DEF HistoryOK
  <1>3. Idle.at = "idle"
    BY Zenon DEF Idle
  <1>4. AlertsType
    BY Zenon, <1>1, <1>3 DEF AlertsType
  <1>5. \A c \in Call : AskedOK(c) /\ PageOK(c)
    BY Zenon, <1>1, <1>3 DEF AskedOK, PageOK
  <1>6. MarkOK
    BY Zenon, <1>1 DEF MarkOK
  <1> QED BY <1>2, <1>4, <1>5, <1>6 DEF AlertsOK

(* Every step keeps what is known of the alerts. *)
LEMMA StepAlerts == IInv /\ AlertsOK /\ [Next]_vars => AlertsOK'
  <1> SUFFICES ASSUME IInv, AlertsOK, [Next]_vars PROVE AlertsOK'
    OBVIOUS
  <1>1. /\ HistoryOK /\ ghost.straddled \in BOOLEAN
        /\ ghost = [ghost EXCEPT !.straddled = ghost.straddled]
    BY Zenon DEF AlertsOK, AlertsType
  <1>2. ASSUME UNCHANGED <<log, history, seen, calls, ghost>> PROVE AlertsOK'
    <2>1. HistoryOK' /\ Recordings' = Recordings /\ (\A c : Given(c)' <=> Given(c))
      BY <1>1, <1>2 DEF HistoryOK, Recordings, Given
    <2>2. ghost' = [ghost EXCEPT !.straddled = ghost.straddled]
      BY Zenon, <1>1, <1>2
    <2> QED BY Zenon, <1>1, <1>2, <2>1, <2>2, AlertsStay
  <1>3. ASSUME NEW d \in Draft, Record(d) PROVE AlertsOK'
    <2>1. /\ UNCHANGED <<seen, calls>> /\ ghost' = ghost
      BY <1>3 DEF Record, connection
    <2>2. /\ HistoryOK'
          /\ \A e \in Recordings : e \in Recordings'
          /\ \A c, e : Given(c) /\ e \in Recordings' /\ Before(e, c) => e \in Recordings
      BY Zenon, <1>1, <1>3, RecordingsGrow
    <2>3. log'.epoch = log.epoch /\ log'.recorded = log.recorded + 1
      BY <1>3, RecordedGrows DEF IInv
    <2>4. log.recorded \in Nat
      BY Zenon DEF IInv, LogType
    <2>5. \A c : Given(c) => Given(c)'
      BY <2>3, <2>4, EventsConstants DEF Given, Cursor
    <2>6. ghost' = [ghost EXCEPT !.straddled = ghost.straddled]
      BY Zenon, <1>1, <2>1
    <2> QED BY Zenon, <1>1, <2>1, <2>2, <2>3, <2>5, <2>6, AlertsStay
  <1>4. ASSUME NEW passed \in SUBSET waiters, AnswerEventWaiters(passed) PROVE AlertsOK'
    BY <1>2, <1>4 DEF AnswerEventWaiters, connection
  <1>5. ASSUME NEW r \in Reader, NEW kinds \in ReadKinds, NEW wait \in BOOLEAN,
               NEW since \in Since(r), EventsAfter(r, since, kinds, wait)
        PROVE  AlertsOK'
    BY <1>2, <1>5 DEF EventsAfter, connection
  <1>6. ASSUME NEW c \in Call, AlertsSince(c) \/ AlertsPage(c) \/ AlertsFail(c)
        PROVE  AlertsOK'
    BY <1>6, CallAlerts
  <1>7. ASSUME NEW c \in Call, AlertsTake(c) PROVE AlertsOK'
    BY <1>7, TakeAlerts
  <1>8. CASE Restart
    <2> DEFINE b == ghost.straddled \/ \E c \in Call : calls[c] # Idle
    <2>1. /\ UNCHANGED <<history, seen, calls>>
          /\ ghost' = [ghost EXCEPT !.straddled = b]
          /\ log'.epoch = log.epoch + 1 /\ log'.recorded = 0
      BY <1>8 DEF Restart, EmptyLog
    <2>2. HistoryOK' /\ Recordings' = Recordings
      BY <1>1, <2>1 DEF HistoryOK, Recordings
    <2>3. \A c : Given(c) => Given(c)'
      <3>1. log.epoch \in Nat
        BY EventsConstants DEF IInv, LogType
      <3> QED BY <2>1, <3>1, EventsConstants DEF Given, Cursor
    <2>4. b \in BOOLEAN /\ (ghost.straddled => b) /\ (b \/ \A c \in Call : calls[c] = Idle)
      BY Zenon, <1>1
    <2> HIDE DEF b
    <2> QED BY <2>1, <2>2, <2>3, <2>4, AlertsStay
  <1>9. CASE UNCHANGED vars
    BY <1>2, <1>9 DEF vars, service, connection
  <1> QED BY <1>3, <1>4, <1>5, <1>6, <1>7, <1>8, <1>9 DEF Next

\* The two invariants hold together, for every prefix of every behaviour.
LEMMA AlertsKept == Spec => [](IInv /\ AlertsOK)
  BY InitOK, StepServes, InitAlerts, StepAlerts, PTL DEF Spec

(***************************************************************************)
(* No alert is passed over, whatever the size of the ring, however many    *)
(* calls share the mark of Alerts::take and wherever a restart falls.      *)
(***************************************************************************)
THEOREM AlertsReachAll == Spec => []AlertsMissNothing
  <1>1. IInv /\ AlertsOK => AlertsMissNothing
    <2> SUFFICES ASSUME IInv, AlertsOK, seen # NoCursor, NEW e \in Alertable(seen)
                 PROVE  e \in UpTo(ghost.start) \cup ghost.heard \cup ghost.told
      BY DEF AlertsMissNothing
    <2>1. Given(seen) /\ Given(ghost.start)
      BY Zenon DEF IInv, CursorsOK, AlertsOK, MarkOK
    <2>2. seen \in Cursor /\ ghost.start \in Cursor
      BY <2>1 DEF Given
    <2>3. /\ \A x : x \in UpTo(seen) <=> x \in Recordings /\ Before(x, seen)
          /\ \A x : x \in UpTo(ghost.start) <=> x \in Recordings /\ Before(x, ghost.start)
      BY <2>2, UpToIs DEF IInv, AlertsOK
    <2>4. e \in Recordings /\ Before(e, seen) /\ Worth(e)
      BY ZenonT(60), <2>3 DEF Alertable, Worth
    <2>5. Before(e, ghost.start) \/ e \in ghost.heard \/ e \in ghost.told
      BY <2>4 DEF AlertsOK, MarkOK
    <2> QED BY Zenon, <2>3, <2>4, <2>5
  <1> QED BY <1>1, AlertsKept, PTL

(***************************************************************************)
(* No alert is told twice, however many calls interleave the steps of      *)
(* unheard, as long as no restart meets one between them.                  *)
(***************************************************************************)
THEOREM AlertsComeOnce == Spec => []AlertedOnce
  <1>1. AlertsOK => AlertedOnce
    BY DEF AlertsOK, MarkOK, AlertedOnce
  <1> QED BY <1>1, AlertsKept, PTL

=============================================================================
