------------------------------- MODULE Holder -------------------------------
(***************************************************************************)
(* The holder process (muster-holder): one child on a PTY, the clients     *)
(* connected to its socket and the single loop that serves them.           *)
(*                                                                         *)
(* Each source of the loop's events (the PTY reader and waiter, two        *)
(* timers, one reader thread per client) is ordered in itself; the loop    *)
(* takes the next event of any of them, one event per step.  A client's    *)
(* outbox is the ByteQueue its writer thread drains, counted in frames.    *)
(* A client is a connection: its identity is never used twice.             *)
(***************************************************************************)
EXTENDS Naturals, Sequences, FiniteSets, SequencesExt

CONSTANTS
  Client,       \* connections to the holder's socket
  Size,         \* terminal sizes a client may ask for
  FirstSize,    \* the size the child was launched with
  MaxChunks,    \* bound on the chunks of output the child writes
  OutboxCap     \* frames an outbox holds before it refuses more

ASSUME HolderConstants ==
  /\ IsFiniteSet(Client)
  /\ FirstSize \in Size
  /\ MaxChunks \in Nat
  /\ OutboxCap \in Nat \ {0}

VARIABLES
  pty,    \* the child: its shell, its process group, the chunks written, its waiter
  grace,  \* whether the timer of a graceful stop is armed
  phase,  \* "serving", "finished" (flushing) or "closed"
  h,      \* HolderServer: roles, outboxes, sizes, the held exit
  view    \* what each client rebuilt from the frames it took

vars == <<pty, grace, phase, h, view>>

\* ClientRole::Attach { read_only: true } is "Watch".
Role == {"Supervisor", "Attach", "Watch"}

Message ==
  [tag : {"Hello"}, role : Role] \cup [tag : {"Resize"}, size : Size]
    \cup [tag : {"Terminate", "Kill", "CollectExit"}]

Frame ==
  [tag : {"Snapshot"}, n : 0..MaxChunks, log : 0..MaxChunks,
   attached : 0..Cardinality(Client), size : Size]
    \cup [tag : {"Output"}, n : 1..MaxChunks, log : 0..MaxChunks]
    \cup [tag : {"Attached"}, attached : 0..Cardinality(Client)]
    \cup [tag : {"Warning", "Unlogged", "Rejected", "Exited"}]

Holder ==
  [role : [Client -> Role \cup {"none", "silent", "gone"}],
   outbox : [Client -> Seq(Frame)],
   resizes : Seq(Client \X Size), size : Size,
   exit : BOOLEAN, supervised : BOOLEAN,
   reported : 0..Cardinality(Client),
   reset : {"Unneeded", "Pending", "Sent"}, warned : SUBSET Client,
   handled : 0..MaxChunks, log : 0..MaxChunks]

View ==
  [screen : 0..MaxChunks, log : 0..MaxChunks, size : Size,
   attached : 0..Cardinality(Client),
   warned : BOOLEAN, exited : BOOLEAN, gap : BOOLEAN]

NoView ==
  [screen |-> 0, log |-> 0, size |-> FirstSize, attached |-> 0,
   warned |-> FALSE, exited |-> FALSE, gap |-> FALSE]

Init ==
  /\ pty = [shell |-> "running", group |-> TRUE, made |-> 0, reported |-> FALSE]
  /\ grace = FALSE
  /\ phase = "serving"
  /\ h = [role |-> [c \in Client |-> "none"], outbox |-> [c \in Client |-> <<>>],
          resizes |-> <<>>, size |-> FirstSize, exit |-> FALSE, supervised |-> FALSE,
          reported |-> 0, reset |-> "Unneeded", warned |-> {}, handled |-> 0, log |-> 0]
  /\ view = [c \in Client |-> NoView]

-----------------------------------------------------------------------------
(* Frames and outboxes                                                     *)

With(s, role) == {c \in Client : s.role[c] = role}
Greeted(s) == {c \in Client : s.role[c] \in Role}
Attachers(s) == With(s, "Attach") \cup With(s, "Watch")

WritableAttached(s) == Cardinality(With(s, "Attach"))

Tag(t) == [tag |-> t]

Snapshot(s) ==
  [tag |-> "Snapshot", n |-> s.handled, log |-> s.log,
   attached |-> WritableAttached(s), size |-> s.size]

\* Variant: a resync that discards the warnings the client had not taken.
ResyncedBare(s, c) ==
  <<Snapshot(s)>>
    \o (IF c \in With(s, "Supervisor") /\ s.reset = "Pending" THEN <<Tag("Warning")>> ELSE <<>>)
    \o (IF s.exit THEN <<Tag("Exited")>> ELSE <<>>)

\* Variant: a resync that leaves the held exit out.
ResyncedAlive(s, c) ==
  <<Snapshot(s)>>
    \o SelectSeq(s.outbox[c], LAMBDA f : f.tag = "Warning")
    \o (IF c \in With(s, "Supervisor") /\ s.reset = "Pending" THEN <<Tag("Warning")>> ELSE <<>>)

\* What a resync leaves queued for c: the screen, the warnings not yet taken,
\* the screen-reset warning still owed, then the held exit.
Resynced(s, c) ==
  <<Snapshot(s)>>
    \o SelectSeq(s.outbox[c], LAMBDA f : f.tag = "Warning")
    \o (IF c \in With(s, "Supervisor") /\ s.reset = "Pending" THEN <<Tag("Warning")>> ELSE <<>>)
    \o (IF s.exit THEN <<Tag("Exited")>> ELSE <<>>)

\* resync, for each client of C.
Resync(s, C) ==
  LET owed == IF s.reset = "Pending" THEN C \cap With(s, "Supervisor") ELSE {} IN
  [s EXCEPT
     !.outbox = [c \in Client |-> IF c \in C THEN Resynced(s, c) ELSE s.outbox[c]],
     !.reset = IF owed # {} THEN "Sent" ELSE @,
     !.warned = @ \cup owed]

\* ByteQueue::try_push: an empty queue takes any frame.
Fits(box) == box = <<>> \/ Len(box) < OutboxCap

\* Variant: a client that fell behind misses the frame instead of being resynced.
SendOrSkip(s, C, frame) ==
  [s EXCEPT !.outbox = [c \in Client |->
      IF c \in C /\ Fits(s.outbox[c]) THEN Append(s.outbox[c], frame) ELSE s.outbox[c]]]

\* send and broadcast_to greeted clients: each that stalled is resynced.
Send(s, C, frame) ==
  LET stalled == {c \in C : ~Fits(s.outbox[c])}
      pushed == [s EXCEPT !.outbox = [c \in Client |->
                   IF c \in C \ stalled THEN Append(s.outbox[c], frame) ELSE s.outbox[c]]]
  IN  Resync(pushed, stalled)

\* Variant: the count is told whenever it grows only.
ReportGrowth(s) ==
  LET n == WritableAttached(s) IN
  IF n <= s.reported THEN s
  ELSE Send([s EXCEPT !.reported = n], With(s, "Supervisor"),
            [tag |-> "Attached", attached |-> n])

ReportAttached(s) ==
  LET n == WritableAttached(s) IN
  IF n = s.reported THEN s
  ELSE Send([s EXCEPT !.reported = n], With(s, "Supervisor"),
            [tag |-> "Attached", attached |-> n])

-----------------------------------------------------------------------------
(* Clients: sizes, leaving, introducing themselves                         *)

\* The clients laid out for the size the PTY no longer has are resynced.
\* `ok` is whether the PTY takes the resize.
Resized(s, size, ok) ==
  IF size = s.size \/ ~ok THEN s
  ELSE LET sized == [s EXCEPT !.size = size] IN Resync(sized, Attachers(sized))

Forget(s, c) == SelectSeq(s.resizes, LAMBDA r : r[1] # c)

\* Variant: the fallback changes the size without resyncing the attached.
DropQuietly(s, c, ok) ==
  LET left == [s EXCEPT !.role[c] = "gone", !.outbox[c] = <<>>]
      told == ReportAttached(left)
      was_latest == s.resizes # <<>> /\ Last(s.resizes)[1] = c
      rest == [told EXCEPT !.resizes = Forget(told, c)]
  IN  IF was_latest /\ rest.resizes # <<>> /\ ok
      THEN [rest EXCEPT !.size = Last(rest.resizes)[2]] ELSE rest

DropClient(s, c, ok) ==
  LET left == [s EXCEPT !.role[c] = "gone", !.outbox[c] = <<>>]
      told == ReportAttached(left)
      was_latest == s.resizes # <<>> /\ Last(s.resizes)[1] = c
      rest == [told EXCEPT !.resizes = Forget(told, c)]
  IN  IF was_latest /\ rest.resizes # <<>>
      THEN Resized(rest, Last(rest.resizes)[2], ok) ELSE rest

\* A rejection queued for a client that has not introduced itself and takes
\* nothing drops it.
Reject(s, c, ok) ==
  IF s.role[c] = "silent" /\ ~Fits(s.outbox[c]) THEN DropClient(s, c, ok)
  ELSE Send(s, {c}, Tag("Rejected"))

\* Variant: the previous supervisor keeps its role.
HelloBesides(s, c, role, ok) ==
  LET met == [s EXCEPT !.role[c] = role, !.supervised = @ \/ role = "Supervisor"]
      counted == [met EXCEPT !.reported =
                    IF role = "Supervisor" THEN WritableAttached(met) ELSE @]
  IN  ReportAttached(Resync(counted, {c}))

OnHello(s, c, role, ok) ==
  LET evicted == IF role = "Supervisor" THEN With(s, "Supervisor") ELSE {}
      alone == IF evicted = {} THEN s ELSE DropClient(s, CHOOSE e \in evicted : TRUE, ok)
      met == [alone EXCEPT !.role[c] = role, !.supervised = @ \/ role = "Supervisor"]
      counted == [met EXCEPT !.reported =
                    IF role = "Supervisor" THEN WritableAttached(met) ELSE @]
  IN  ReportAttached(Resync(counted, {c}))

\* on_message, for the messages that change only HolderServer's own state.
OnMessage(s, c, m, ok) ==
  LET misplaced == \/ s.role[c] = "silent" \/ m.tag = "Hello"
                   \/ s.role[c] # "Supervisor" /\ m.tag \in {"Terminate", "Kill", "CollectExit"}
                   \/ s.role[c] = "Watch"
      asked == [s EXCEPT !.resizes = Append(Forget(s, c), <<c, m.size>>)]
  IN  IF s.role[c] = "silent" /\ m.tag = "Hello" THEN OnHello(s, c, m.role, ok)
      ELSE IF misplaced \/ m.tag # "Resize" THEN Reject(s, c, ok)
      ELSE IF m.size # s.size /\ ~ok THEN Reject(asked, c, ok) ELSE Resized(asked, m.size, ok)

-----------------------------------------------------------------------------
(* The child, its PTY reader and its waiter                                *)

ChildWrites ==
  /\ pty.group /\ pty.made < MaxChunks
  /\ pty' = [pty EXCEPT !.made = @ + 1]
  /\ UNCHANGED <<grace, phase, h, view>>

\* The shell ends, with or without leaving descendants in its group.
ShellExits ==
  /\ pty.shell = "running"
  /\ \E left \in BOOLEAN : pty' = [pty EXCEPT !.shell = "exited", !.group = left]
  /\ UNCHANGED <<grace, phase, h, view>>

DescendantsEnd ==
  /\ pty.shell = "exited" /\ pty.group
  /\ pty' = [pty EXCEPT !.group = FALSE]
  /\ UNCHANGED <<grace, phase, h, view>>

\* wait_for_drain timed out: the group is killed, which closes the PTY.
DrainElapses ==
  /\ pty.shell = "exited" /\ pty.group /\ ~pty.reported
  /\ pty' = [pty EXCEPT !.group = FALSE]
  /\ UNCHANGED <<grace, phase, h, view>>

\* The waiter publishes the exit once the reader ended and the group is empty.
ReportExit ==
  /\ pty.shell = "exited" /\ ~pty.group /\ ~pty.reported
  /\ pty' = [pty EXCEPT !.reported = TRUE]
  /\ UNCHANGED <<grace, phase, h, view>>

Killed == [pty EXCEPT !.shell = "exited", !.group = FALSE]

-----------------------------------------------------------------------------
(* The loop: one event a step                                              *)

\* The loop goes from h to s; a connection it shuts down shows nothing more.
Serves(s) ==
  /\ phase = "serving" /\ h' = s
  /\ view' = [c \in Client |-> IF s.role[c] = "gone" THEN NoView ELSE view[c]]

\* Output the log keeps, the ScreenGate keeps from it, or it could not hold;
\* the emulator takes it or is reset by it.
OnOutput ==
  /\ h.handled < pty.made
  /\ \E kept \in {"logged", "gated", "unlogged"}, reset \in BOOLEAN :
       LET fed == [h EXCEPT !.handled = @ + 1, !.log = IF kept = "logged" THEN @ + 1 ELSE @,
                            !.reset = IF reset /\ @ = "Unneeded" THEN "Pending" ELSE @]
           output == [tag |-> "Output", n |-> fed.handled, log |-> fed.log]
           shown == Send(fed, Attachers(fed), output)
       IN  Serves(CASE reset -> Resync(fed, Greeted(fed))
                    [] ~reset /\ kept = "logged" -> Send(fed, Greeted(fed), output)
                    [] ~reset /\ kept = "gated" -> shown
                    [] ~reset /\ kept = "unlogged" ->
                         Send(shown, With(shown, "Supervisor"), Tag("Unlogged")))
  /\ UNCHANGED <<pty, grace, phase>>

\* Variant: the supervisor is not sent the final screen.
OnExitBare ==
  /\ pty.reported /\ h.handled = pty.made /\ ~h.exit
  /\ LET ended == [h EXCEPT !.exit = TRUE] IN
     Serves(Send(ended, Greeted(ended), Tag("Exited")))
  /\ UNCHANGED <<pty, grace, phase>>

\* The exit follows every chunk; a supervisor gets the final screen first.
OnExit ==
  /\ pty.reported /\ h.handled = pty.made /\ ~h.exit
  /\ LET ended == [h EXCEPT !.exit = TRUE]
         shown == Send(ended, With(ended, "Supervisor"), Snapshot(ended))
     IN  Serves(Send(shown, Greeted(shown), Tag("Exited")))
  /\ UNCHANGED <<pty, grace, phase>>

\* Variant: the grace runs out without the kill.
GraceIgnored ==
  /\ phase = "serving" /\ grace
  /\ grace' = FALSE
  /\ UNCHANGED <<pty, phase, h, view>>

GraceElapsed ==
  /\ phase = "serving" /\ grace
  /\ grace' = FALSE
  /\ pty' = IF h.exit THEN pty ELSE Killed
  /\ UNCHANGED <<phase, h, view>>

\* The first supervisor's deadline ends a holder none has introduced itself
\* to; once one has, it does nothing.
SupervisorDeadline ==
  /\ phase = "serving" /\ ~h.supervised
  /\ phase' = "finished"
  /\ pty' = IF h.exit THEN pty ELSE Killed
  /\ UNCHANGED <<grace, h, view>>

\* on_connected.
Connected(c) ==
  /\ h.role[c] = "none"
  /\ Serves([h EXCEPT !.role[c] = "silent"])
  /\ UNCHANGED <<pty, grace, phase>>

\* What the service and `muster attach` send: first their role; a supervisor
\* collects only an exit it was told of, a read-only session sends nothing.
Sends(c) ==
  CASE h.role[c] = "silent" -> {"Hello"}
    [] h.role[c] = "Supervisor" ->
         {"Terminate", "Kill"} \cup (IF view[c].exited THEN {"CollectExit"} ELSE {})
    [] h.role[c] = "Attach" -> {"Resize"}
    [] OTHER -> {}

\* The next message c's reader forwards.  Terminate arms the grace timer once
\* the group took the signal; CollectExit finishes a holder that has an exit.  What the reader forwards of
\* a client the loop has dropped changes nothing.
OnClient(c) ==
  /\ h.role[c] \in Role \cup {"silent"}
  /\ \E m \in Message, ok \in BOOLEAN :
       LET controls == h.role[c] = "Supervisor" /\ m.tag \in {"Terminate", "Kill"} /\ pty.group
           collects == h.role[c] = "Supervisor" /\ m.tag = "CollectExit" /\ h.exit
       IN  /\ m.tag \in Sends(c)
           /\ pty' = IF controls /\ m.tag = "Kill" THEN Killed ELSE pty
           /\ grace' = (grace \/ (controls /\ m.tag = "Terminate"))
           /\ phase' = IF collects THEN "finished" ELSE phase
           /\ Serves(IF controls \/ collects THEN h ELSE OnMessage(h, c, m, ok))

\* A client leaves, or its connection breaks; its reader reports it last.
Disconnected(c) ==
  /\ h.role[c] \in Role \cup {"silent"}
  /\ \E ok \in BOOLEAN : Serves(DropClient(h, c, ok))
  /\ UNCHANGED <<pty, grace, phase>>

\* close: what is queued was flushed, or FLUSH_GRACE ran out.
Close ==
  /\ phase = "finished"
  /\ phase' = "closed"
  /\ h' = [h EXCEPT !.role = [c \in Client |-> "gone"], !.outbox = [c \in Client |-> <<>>]]
  /\ view' = [c \in Client |-> NoView]
  /\ UNCHANGED <<pty, grace>>

-----------------------------------------------------------------------------
(* The clients: the service's holder connection and `muster attach`        *)

\* The reader of a client in `role` applies the frame f to what it rebuilt.
\* The supervisor's reads back from the log what a resync dropped.
Saw(v, role, f) ==
  CASE f.tag = "Snapshot" ->
         [v EXCEPT !.screen = f.n, !.size = f.size, !.attached = f.attached,
                   !.log = IF f.log > @ THEN f.log ELSE @]
    [] f.tag = "Output" /\ role = "Supervisor" ->
         [v EXCEPT !.log = f.log, !.gap = @ \/ f.log # v.log + 1]
    [] f.tag = "Output" /\ role # "Supervisor" ->
         [v EXCEPT !.screen = f.n, !.gap = @ \/ f.n # v.screen + 1]
    [] f.tag = "Attached" -> [v EXCEPT !.attached = f.attached]
    [] f.tag = "Warning" -> [v EXCEPT !.warned = TRUE]
    [] f.tag = "Exited" -> [v EXCEPT !.exited = TRUE]
    [] OTHER -> v

\* The writer thread takes a frame and the client reads it; after the exit a
\* client reads nothing more.
Takes(c) ==
  /\ h.outbox[c] # <<>> /\ ~view[c].exited
  /\ view' = [view EXCEPT ![c] = Saw(@, h.role[c], Head(h.outbox[c]))]
  /\ h' = [h EXCEPT !.outbox[c] = Tail(@)]
  /\ UNCHANGED <<pty, grace, phase>>

-----------------------------------------------------------------------------
Next ==
  \/ ChildWrites \/ ShellExits \/ DescendantsEnd \/ DrainElapses \/ ReportExit
  \/ OnOutput \/ OnExit \/ GraceElapsed \/ SupervisorDeadline \/ Close
  \/ \E c \in Client : Connected(c) \/ OnClient(c) \/ Disconnected(c) \/ Takes(c)

\* The loop takes its inbox in order, so no source waits for ever; the timers
\* and the waiter's bound run out by themselves.  Each of these steps happens
\* finitely often before it is no longer due, so that it never stays due says
\* that it is weakly fair.
WaiterDue == pty.shell = "exited" /\ ~pty.reported

InboxDue == phase = "serving" /\ (h.handled < pty.made \/ (pty.reported /\ ~h.exit))

GraceDue == phase = "serving" /\ grace

Fairness ==
  /\ []<>~WaiterDue /\ []<>~InboxDue /\ []<>~GraceDue
  /\ WF_phase(SupervisorDeadline)

Spec == Init /\ [][Next]_vars /\ Fairness

-----------------------------------------------------------------------------
(* Properties                                                              *)

\* Every variable keeps its type.
TypeOK ==
  /\ pty \in [shell : {"running", "exited"}, group : BOOLEAN,
              made : 0..MaxChunks, reported : BOOLEAN]
  /\ grace \in BOOLEAN
  /\ phase \in {"serving", "finished", "closed"}
  /\ h \in Holder
  /\ view \in [Client -> View]

\* What client c will have rebuilt once it takes all that is queued for it.
Drained(c) ==
  LET after[i \in 0..Len(h.outbox[c])] ==
        IF i = 0 THEN view[c] ELSE Saw(after[i - 1], h.role[c], h.outbox[c][i])
  IN  after[Len(h.outbox[c])]

\* However far a client falls behind, what it rebuilds ends where the loop is,
\* with no hole and no repeat: an attached terminal's screen after every chunk,
\* the supervisor's stream after every logged one (server.rs on_stalled,
\* resync; reader.rs catch_up: "so the supervisor sees every byte").  One told
\* of the exit has been shown all the child wrote, its last descendant's output
\* included (runner.rs: "the exit strictly after every chunk sent").
NothingMissed ==
  /\ \A c \in Greeted(h) :
       /\ ~Drained(c).gap
       /\ IF h.role[c] = "Supervisor" THEN Drained(c).log = h.log
          ELSE Drained(c).screen = h.handled
  /\ \A c \in Client : view[c].exited => view[c].screen = pty.made

\* Every introduced client learns of the exit exactly when the loop holds one,
\* whatever resyncs emptied its outbox in between and however late it
\* introduced itself; and a holder some supervisor reached ends only once the
\* supervisor of that moment has it: a collect sent by one since evicted ends
\* nothing (server.rs resync, introduce, on_message).  The screen-reset warning
\* reaches the supervisor it was queued for before the exit, "after which the
\* service reads nothing more".
ExitKept ==
  /\ \A c \in Greeted(h) : Drained(c).exited = h.exit
  /\ phase # "serving" /\ h.supervised => \A c \in With(h, "Supervisor") : view[c].exited
  /\ \A c \in h.warned \cap With(h, "Supervisor") :
       \/ view[c].warned
       \/ /\ ~view[c].exited
          /\ \E i \in DOMAIN h.outbox[c] :
               /\ h.outbox[c][i].tag = "Warning"
               /\ \A j \in 1..(i - 1) : h.outbox[c][j].tag # "Exited"

\* What a client shows of the others is current once it takes what is queued,
\* after any order of attaching, leaving, evicting and resyncing: the
\* supervisor's count of writable attached clients is the real one (server.rs
\* report_attached: "so the service never counts presence itself"), and every
\* attached terminal is laid out for the size the PTY has, also after the
\* client that set it left (drop_client).
ToldIsCurrent ==
  /\ \A c \in With(h, "Supervisor") : Drained(c).attached = WritableAttached(h)
  /\ \A c \in Attachers(h) : Drained(c).size = h.size

\* A graceful stop the group took ends in the exit being held, though the
\* child ignores the signal and the supervisor goes away (server.rs control).
StopCompletes == grace ~> (h.exit \/ phase # "serving")

=============================================================================
