------------------------------- MODULE Events -------------------------------
(***************************************************************************)
(* The service's event log and the two ways a client reads it:             *)
(* `stack_events', which reads a page after a cursor and may wait for the  *)
(* next event, and the alerts every other call of an MCP connection        *)
(* carries, read with a mark the connection's calls share.                 *)
(*                                                                         *)
(*   event_log.rs          the ring, its counter, what it dropped and page *)
(*   runtime.rs            events_after and answer_event_waiters           *)
(*   muster-mcp alerts.rs  the mark and which events of a page are told    *)
(*   muster-mcp server.rs  unheard: mark, then page, then take             *)
(*                                                                         *)
(* A log is a record [epoch, ring, recorded, dropped].  `dropped' is 0     *)
(* where the code's map has no entry: numbers start at 1.  A turn of the   *)
(* loop records its events and then answers the held reads: `turn' is TRUE  *)
(* in between, when the loop takes nothing else.  With no read held the    *)
(* tick has nothing to do, and the turn is over.                           *)
(* The calls of a connection run on threads of their own, so the three     *)
(* steps of `unheard' interleave with those of other calls, with turns     *)
(* and with a restart of the service, which starts an empty log under a    *)
(* new epoch.  Epochs are random in the code; here each is a new number.   *)
(***************************************************************************)
EXTENDS Integers, Sequences, FiniteSets

CONSTANTS
    Project,      \* the projects
    Home,         \* the project the readers and the connection are about
    Whole,        \* stands for the service as a whole, where a project would
    Draft,        \* the events that may be recorded: [project, kind]
    AlertKinds,   \* ALERT_KINDS
    ReadKinds,    \* the sets of kinds a read may ask for
    Ring,         \* MAX_EVENTS
    Newest,       \* EVENTS_WITHOUT_SINCE
    MaxAlerts,    \* MAX_ALERTS
    Reader,       \* the clients calling stack_events
    Call,         \* the calls of the connection that carry alerts
    ClientSets,   \* the sets of readers and calls that may be at work together
    NoCursor,     \* no cursor, and no mark
    NoAnswer,     \* no page
    MaxEvents,    \* bound: the events recorded, over all services
    MaxEpoch      \* bound: the services

ASSUME EventsConstants ==
    /\ Home \in Project /\ Whole \notin Project
    /\ \A d \in Draft : d.project \in Project \cup {Whole}
    /\ ClientSets \subseteq SUBSET (Reader \cup Call)
    /\ Ring \in Nat \ {0} /\ Newest \in Nat /\ MaxAlerts \in Nat
    /\ MaxEvents \in Nat /\ MaxEpoch \in Nat \ {0}
    /\ NoCursor \notin [epoch : Nat, seq : Nat]

VARIABLES
    log,        \* the EventLog of the running service
    turn,       \* a turn of the loop recorded events, its tick is to come
    waiters,    \* its event_waiters: [reader, project, kinds, since]
    answer,     \* the last read of each reader, with the page it got
    seen,       \* the connection's mark in Home, or NoCursor
    calls,      \* each call of the connection: [at, since, page]
    \* what the properties speak of and no code keeps:
    clients,    \* the readers and calls at work
    spent,      \* how many events were recorded, over all services
    history,    \* every event recorded, by service
    ghost       \* of the alerts: where they started, which events were
                \* heard, heard again or said to be left out, and whether a
                \* restart met a call between its steps

service == <<log, turn, waiters, answer, history, spent, clients>>
connection == <<seen, calls, ghost>>
vars == <<service, connection>>

Scope == Project \cup {Whole}
Cursor == [epoch : 1 .. MaxEpoch, seq : 0 .. MaxEvents]
Idle == [at |-> "idle", since |-> NoCursor, page |-> NoAnswer]

At(e) == [epoch |-> e.epoch, seq |-> e.seq]

IsAfter(c, d) == c.epoch = d.epoch /\ c.seq > d.seq

Held(l) == {l.ring[i] : i \in 1 .. Len(l.ring)}

(* The newest n of the events in set S. *)
NewestOf(S, n) == {e \in S : Cardinality({f \in S : f.seq > e.seq}) < n}

-----------------------------------------------------------------------------
(* The event log. *)

EmptyLog(epoch) ==
    [epoch |-> epoch, ring |-> <<>>, recorded |-> 0,
     dropped |-> [s \in Scope |-> 0]]

Event(epoch, seq, d) ==
    [epoch |-> epoch, seq |-> seq, project |-> d.project, kind |-> d.kind]

RecordAt(l, d) ==
    LET full == Len(l.ring) = Ring
        seq == l.recorded + 1
    IN  [l EXCEPT !.recorded = seq,
                  !.ring = Append(IF full THEN Tail(@) ELSE @,
                                  Event(l.epoch, seq, d)),
                  !.dropped = IF full
                              THEN [@ EXCEPT ![Head(l.ring).project] =
                                                Head(l.ring).seq]
                              ELSE @]

LatestCursor(l) == [epoch |-> l.epoch, seq |-> l.recorded]

(* Mutant: an event about the whole service is dropped unsaid. *)
MissedOfProject(l, project, since) == l.dropped[project] > since.seq

Missed(l, project, since) ==
    \E s \in {project, Whole} : l.dropped[s] > since.seq

Page(l, project, since, kinds) ==
    LET relevant == {e \in Held(l) : /\ e.project \in {project, Whole}
                                     /\ kinds = {} \/ e.kind \in kinds}
        page(events, gap) ==
            [events |-> events, cursor |-> LatestCursor(l), gap |-> gap]
    IN  IF since = NoCursor THEN page(NewestOf(relevant, Newest), FALSE)
        ELSE IF since.epoch # l.epoch \/ since.seq > l.recorded
             THEN page(relevant, TRUE)
        ELSE page({e \in relevant : e.seq > since.seq},
                  Missed(l, project, since))

-----------------------------------------------------------------------------
(* Turns of the loop: events, and reads of them. *)

PageOf(w) == Page(log, w.project, w.since, w.kinds)

(* The answers once the reads in W are answered. *)
Reply(W) ==
    [r \in Reader |-> IF \E w \in W : w.reader = r
                      THEN LET w == CHOOSE w \in W : w.reader = r
                           IN  [q |-> w, page |-> PageOf(w)]
                      ELSE answer[r]]

(* The events at or before cursor c, of its service or an earlier one. *)
UpTo(c) ==
    UNION {{history[n][i] : i \in {j \in 1 .. Len(history[n]) :
                                      n < c.epoch \/ j <= c.seq}} :
           n \in 1 .. c.epoch}

(* A supervisor or the loop records an event: attention.rs record, runtime.rs
   raise and raise_edits. *)
Record(d) ==
    /\ spent < MaxEvents
    /\ spent' = spent + 1
    /\ log' = RecordAt(log, d)
    /\ turn' = (waiters # {})
    /\ history' = [history EXCEPT ![log.epoch] =
                      Append(@, Event(log.epoch, log.recorded + 1, d))]
    /\ UNCHANGED <<waiters, answer, clients, connection>>

(* The tick that ends a turn, when the reads in `passed' waited out. *)
AnswerEventWaiters(passed) ==
    LET keeps(w) == PageOf(w).events = {} /\ w \notin passed
        done == {w \in waiters : ~keeps(w)}
    IN  /\ turn \/ passed # {}
        /\ turn' = FALSE
        /\ waiters' = waiters \ done
        /\ answer' = Reply(done)
        /\ UNCHANGED <<log, history, spent, clients, connection>>

(* Reader r asks for events of Home. *)
EventsAfter(r, since, kinds, wait) ==
    LET q == [reader |-> r, project |-> Home, kinds |-> kinds, since |-> since]
        page == PageOf(q)
        from == IF since = NoCursor THEN LatestCursor(log) ELSE since
    IN  /\ ~turn
        /\ \A w \in waiters : w.reader # r
        /\ IF page.events # {} \/ ~wait \/ page.gap
           THEN /\ answer' = Reply({q})
                /\ UNCHANGED waiters
           ELSE /\ waiters' = waiters \cup {[q EXCEPT !.since = from]}
                /\ UNCHANGED answer
        /\ UNCHANGED <<log, turn, history, spent, clients, connection>>

(* The cursors reader r may ask from: none, its last page's, and the
   events_cursor stack_status answers. *)
Since(r) ==
    {NoCursor, seen} \cup
        (IF answer[r] = NoAnswer THEN {} ELSE {answer[r].page.cursor})

-----------------------------------------------------------------------------
(* The calls of the connection. *)

(* unheard reads the mark. *)
AlertsSince(c) ==
    /\ calls[c].at = "idle"
    /\ calls' = [calls EXCEPT ![c] = [Idle EXCEPT !.at = "asks",
                                                  !.since = seen]]
    /\ UNCHANGED <<service, seen, ghost>>

(* The loop answers its read, which does not wait. *)
AlertsPage(c) ==
    /\ calls[c].at = "asks"
    /\ ~turn
    /\ calls' = [calls EXCEPT ![c] =
                    [at |-> "has page", since |-> @.since,
                     page |-> Page(log, Home, @.since, AlertKinds)]]
    /\ UNCHANGED <<service, seen, ghost>>

(* Its read fails: the connection or the service is gone. *)
AlertsFail(c) ==
    /\ calls[c].at = "asks"
    /\ calls' = [calls EXCEPT ![c] = Idle]
    /\ UNCHANGED <<service, seen, ghost>>

(* Mutant: the mark always follows the page. *)
MarkFollows(since, page) == page.cursor

(* The mark once a page read after `since' is taken. *)
Mark(since, page) ==
    IF seen = since \/ (seen # NoCursor /\ IsAfter(page.cursor, seen))
    THEN page.cursor ELSE seen

(* Mutant: what another call told meanwhile is told again. *)
WorthyOfPage(since, page) ==
    IF since = NoCursor THEN {}
    ELSE {e \in page.events : e.kind \in AlertKinds}

(* The events of a page read after `since' that are worth an alert. *)
Worthy(since, page) ==
    IF since = NoCursor THEN {}
    ELSE {e \in page.events :
             /\ e.kind \in AlertKinds
             /\ \/ seen = since \/ seen = NoCursor
                \/ e.epoch # seen.epoch \/ IsAfter(At(e), seen)}

(* Of those, the ones the connection is to hear of. *)
Alertable(c) == {e \in UpTo(c) : /\ e.kind \in AlertKinds
                                 /\ e.project \in {Home, Whole}}

(* The call takes its page: the mark moves and the alerts are told. *)
AlertsTake(c) ==
    LET since == calls[c].since
        page == calls[c].page
        worthy == Worthy(since, page)
        alerts == NewestOf(worthy, MaxAlerts)
        missed == IF page.gap THEN Alertable(page.cursor) \ page.events
                  ELSE {}
    IN  /\ calls[c].at = "has page"
        /\ seen' = Mark(since, page)
        /\ calls' = [calls EXCEPT ![c] = Idle]
        /\ ghost' = [ghost EXCEPT
                !.start = IF since = NoCursor THEN seen' ELSE @,
                !.heard = @ \cup alerts,
                !.again = @ \cup (alerts \cap ghost.heard),
                !.told = @ \cup missed \cup (worthy \ alerts)]
        /\ UNCHANGED service

-----------------------------------------------------------------------------

(* The service exits or crashes and the next one starts: an empty log under
   an epoch of its own, no held reads. *)
Restart ==
    /\ log.epoch < MaxEpoch
    /\ log' = EmptyLog(log.epoch + 1)
    /\ turn' = FALSE
    /\ waiters' = {}
    /\ ghost' = [ghost EXCEPT !.straddled =
                    @ \/ \E c \in Call : calls[c] # Idle]
    /\ UNCHANGED <<answer, history, spent, clients, seen, calls>>

Init ==
    /\ log = EmptyLog(1)
    /\ turn = FALSE
    /\ clients \in ClientSets
    /\ waiters = {}
    /\ answer = [r \in Reader |-> NoAnswer]
    /\ seen = NoCursor
    /\ calls = [c \in Call |-> Idle]
    /\ spent = 0
    /\ history = [n \in 1 .. MaxEpoch |-> <<>>]
    /\ ghost = [start |-> NoCursor, heard |-> {}, again |-> {}, told |-> {},
                straddled |-> FALSE]

Next ==
    \/ \E d \in Draft : Record(d)
    \/ \E passed \in SUBSET waiters : AnswerEventWaiters(passed)
    \/ \E r \in Reader \cap clients, kinds \in ReadKinds, wait \in BOOLEAN :
          \E since \in Since(r) : EventsAfter(r, since, kinds, wait)
    \/ \E c \in Call \cap clients : AlertsSince(c)
    \/ \E c \in Call : AlertsPage(c)
    \/ \E c \in Call : AlertsFail(c)
    \/ \E c \in Call : AlertsTake(c)
    \/ Restart

Spec == Init /\ [][Next]_vars

-----------------------------------------------------------------------------
(* Properties. *)

(***************************************************************************)
(* Every read is answered from the complete feed: the ring, the number of  *)
(* the newest event it dropped per project and the reads it holds show a   *)
(* reader exactly what EventFeed promises.  In particular a page without a *)
(* gap holds every event after the cursor, and a gap is never claimed for  *)
(* another project's lost events.                                          *)
(***************************************************************************)
Feed == INSTANCE EventFeed WITH
            Readable <- {Home},
            epoch <- log.epoch,
            feed <- history[log.epoch],
            gone <- log.recorded - Len(log.ring),
            waiting <- waiters

FeedIsServed == Feed!Spec

(***************************************************************************)
(* No alert is passed over: an event worth one, recorded after the alerts  *)
(* started and at or before the connection's mark, was told, counted among *)
(* the omitted or covered by a gap (Alerts::take).                         *)
(***************************************************************************)
AlertsMissNothing ==
    seen # NoCursor =>
        Alertable(seen) \subseteq
            UpTo(ghost.start) \cup ghost.heard \cup ghost.told

(***************************************************************************)
(* No alert is told twice, however the calls of a connection interleave,   *)
(* as long as no restart of the service meets a call between its steps.    *)
(***************************************************************************)
AlertedOnce == ghost.straddled \/ ghost.again = {}

=============================================================================
