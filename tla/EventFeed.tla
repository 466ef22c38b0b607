----------------------------- MODULE EventFeed -----------------------------
(***************************************************************************)
(* What the service promises a reader of its events, without the ring that *)
(* keeps them: one complete feed per service, of which the oldest part may *)
(* have been let go.  A page is read after a cursor.  It holds every event *)
(* still kept that the reader asked for, and says of a gap exactly when an *)
(* event about the reader's project, or about the service as a whole, was  *)
(* let go unread, or the cursor is of another service's feed.  A reader    *)
(* that asked to wait is answered once an event arrives for it, before any *)
(* other read is taken.                                                    *)
(***************************************************************************)
EXTENDS Integers, Sequences, FiniteSets

CONSTANTS
    Reader,     \* the clients reading events
    Readable,   \* the projects read about
    ReadKinds,  \* the sets of kinds a read may ask for, {} for every kind
    Cursor,     \* the cursors a client may hold, of any service's feed
    Whole,      \* stands for the service as a whole, where a project would
    Newest,     \* how many events a read without a cursor returns
    NoCursor,   \* a read without a cursor
    NoAnswer    \* a reader that was not answered yet

VARIABLES
    epoch,      \* the service whose feed this is
    feed,       \* every event it recorded, oldest first
    gone,       \* how many of the oldest are no longer kept
    waiting,    \* the reads held until an event arrives
    answer      \* the last read of each reader, with the page it got

vars == <<epoch, feed, gone, waiting, answer>>

Query == [reader : Reader, project : Readable, kinds : ReadKinds,
          since : Cursor \cup {NoCursor}]

Concerns(e, project) == e.project \in {project, Whole}

Foreign(q) == q.since # NoCursor /\ q.since.epoch # epoch

(* Where query q starts in the feed. *)
Start(q) == IF q.since = NoCursor \/ Foreign(q) THEN 0 ELSE q.since.seq

(* The events query q asks for that are still kept. *)
Due(q) == {feed[i] : i \in {j \in gone + 1 .. Len(feed) :
                               /\ j > Start(q)
                               /\ Concerns(feed[j], q.project)
                               /\ q.kinds = {} \/ feed[j].kind \in q.kinds}}

Latest(S, n) == {e \in S : Cardinality({f \in S : f.seq > e.seq}) < n}

Missed(q) ==
    /\ q.since # NoCursor
    /\ \/ Foreign(q)
       \/ \E i \in Start(q) + 1 .. gone : Concerns(feed[i], q.project)

Page(q) ==
    [events |-> IF q.since = NoCursor THEN Latest(Due(q), Newest) ELSE Due(q),
     cursor |-> [epoch |-> epoch, seq |-> Len(feed)],
     gap |-> Missed(q)]

(* The answers once the queries in Q are answered. *)
Told(Q) ==
    [r \in Reader |-> IF \E q \in Q : q.reader = r
                      THEN LET q == CHOOSE q \in Q : q.reader = r
                           IN  [q |-> q, page |-> Page(q)]
                      ELSE answer[r]]

Overdue == {q \in waiting : Due(q) # {}}

-----------------------------------------------------------------------------

Init ==
    /\ epoch = 1
    /\ feed = <<>>
    /\ gone = 0
    /\ waiting = {}
    /\ answer = [r \in Reader |-> NoAnswer]

(* The service records an event and may let go of old ones. *)
Record ==
    /\ UNCHANGED <<epoch, waiting, answer>>
    /\ Len(feed') = Len(feed) + 1
    /\ SubSeq(feed', 1, Len(feed)) = feed
    /\ gone' \in gone .. Len(feed')

(* The held reads with an event due are answered, and those given up on. *)
Answer ==
    /\ UNCHANGED <<epoch, feed, gone>>
    /\ waiting' \in SUBSET (waiting \ Overdue)
    /\ answer' = Told(waiting \ waiting')

(* A read that finds an event or a gap, or does not wait, is answered at
   once; another is held. *)
Ask(q, wait) ==
    /\ Overdue = {}
    /\ \A w \in waiting : w.reader # q.reader
    /\ UNCHANGED <<epoch, feed, gone>>
    /\ IF Page(q).events # {} \/ Missed(q) \/ ~wait
       THEN /\ UNCHANGED waiting
            /\ answer' = Told({q})
       ELSE /\ UNCHANGED answer
            /\ waiting' = waiting \cup
                   {[q EXCEPT !.since = IF @ = NoCursor
                                        THEN [epoch |-> epoch, seq |-> Len(feed)]
                                        ELSE @]}

(* The next service starts with an empty feed; held reads are dropped. *)
Restart ==
    /\ epoch' = epoch + 1
    /\ feed' = <<>>
    /\ gone' = 0
    /\ waiting' = {}
    /\ UNCHANGED answer

Next ==
    \/ Record
    \/ Answer
    \/ \E q \in Query, wait \in BOOLEAN : Ask(q, wait)
    \/ Restart

Spec == Init /\ [][Next]_vars

=============================================================================
