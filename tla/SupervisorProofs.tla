-------------------------- MODULE SupervisorProofs --------------------------
(***************************************************************************)
(* For any number of children, commands, faults, stops and crashes: the    *)
(* types hold, only one thing ever stands behind a pane, a restart timer   *)
(* that can still fire belongs to a pane nothing stands behind, and a stop *)
(* deadline that kills is the newest one armed.                            *)
(*                                                                         *)
(* The inductive invariant is that the pane's books are in order (Good):   *)
(* the pane is a world, only one thing stands behind it, no restart timer  *)
(* of the current generation is in flight beside it, and no stop deadline  *)
(* of the current generation is ahead of its shutdown generation.  The     *)
(* parts need each other: that a timer's launch finds no live process      *)
(* needs the timers to be idle, that they stay idle needs a launch to be of *)
(* the current generation, that a deadline escalates no launch needs both, *)
(* and all need the events' types.  A step also keeps every stop deadline  *)
(* in flight but the one it handles, which is what an older deadline is    *)
(* measured against: the events K of Good(v, K).                           *)
(*                                                                         *)
(* The first lemmas say what changing one field does, the next go through  *)
(* the handlers in the order Pane, Unsupervised, Lifecycle and Adoption    *)
(* define them, and the last are about the supervisor's own steps.  Only   *)
(* the fields Same names bear on the invariant.                            *)
(***************************************************************************)
EXTENDS Supervisor, TLAPS

\* The events that sleep until they are due: restart timers and stop deadlines.
Timed == {"Respawn", "ForceStop"}

TimersOf(v) == {e \in v.events : e.kind \in Timed}

\* Two worlds that agree on everything the invariant reads; the first may have
\* more work in flight.
Same(u, v) ==
    /\ u \in World
    /\ u.gen = v.gen /\ u.handle = v.handle /\ u.unsup = v.unsup /\ u.detaching = v.detaching
    /\ u.has = v.has /\ u.shut = v.shut
    /\ u.launch.purpose = v.launch.purpose /\ u.launch.gen = v.launch.gen
    /\ TimersOf(u) = TimersOf(v) /\ v.events \subseteq u.events

\* Two worlds that agree but for the shutdown generation, which the first may
\* have advanced, and for deadlines of the current generations it armed.
Rearms(u, v) ==
    /\ u \in World
    /\ u.gen = v.gen /\ u.handle = v.handle /\ u.unsup = v.unsup /\ u.detaching = v.detaching
    /\ u.has = v.has /\ v.shut <= u.shut
    /\ u.launch.purpose = v.launch.purpose /\ u.launch.gen = v.launch.gen
    /\ v.events \subseteq u.events
    /\ \A e \in TimersOf(u) :
          e \in TimersOf(v) \/ (e.kind = "ForceStop" /\ e.gen = v.gen /\ e.id <= u.shut)

\* LaunchIsCurrent, of any world; and what stands behind a pane is in its map.
Consistent(v) ==
    /\ IsStarting(v) => ~IsLive(v) /\ (v.launch.gen = v.gen \/ v.detaching)
    /\ IsLive(v) => ~IsUnsupervised(v)
    /\ IsSpawning(v) => ~IsUnsupervised(v)
    /\ IsLive(v) \/ IsUnsupervised(v) => v.has

\* A timer or deadline of the current generation finds no launch in flight.  A
\* restart timer finds no live process (TimerIsIdle); a deadline finds a pane
\* whose shutdown generation is its own or a later one.
Idle(v, e) ==
    /\ ~IsStarting(v)
    /\ e.kind = "Respawn" => ~IsLive(v)
    /\ e.kind = "ForceStop" => v.has /\ e.id <= v.shut

IdleTimers(v) == \A e \in TimersOf(v) : e.gen <= v.gen /\ (e.gen = v.gen => Idle(v, e))

\* The books are in order, and the events K are still in flight.
Good(v, K) == v \in World /\ Consistent(v) /\ IdleTimers(v) /\ K \subseteq v.events

\* No timer or deadline is of the current generation: a process may be installed.
Untimed(v) == \A e \in TimersOf(v) : e.gen < v.gen

-----------------------------------------------------------------------------
(* Changing one field. *)

\* Changing `state` bears on nothing the invariant reads.
LEMMA WithState == \A v \in World, x \in ProcessState \cup {"Absent"} :
                     Same([v EXCEPT !.state = x], v)
  BY DEF World, Same, TimersOf

\* Changing `spec` bears on nothing the invariant reads.
LEMMA WithSpec == \A v \in World, x \in {"stack", "record"} :
                     Same([v EXCEPT !.spec = x], v)
  BY DEF World, Same, TimersOf

\* Changing `problem` bears on nothing the invariant reads.
LEMMA WithProblem == \A v \in World, x \in BOOLEAN :
                     Same([v EXCEPT !.problem = x], v)
  BY DEF World, Same, TimersOf

\* Changing `grace` bears on nothing the invariant reads.
LEMMA WithGrace == \A v \in World, x \in Nat :
                     Same([v EXCEPT !.grace = x], v)
  BY DEF World, Same, TimersOf

\* Changing `kills` bears on nothing the invariant reads.
LEMMA WithKills == \A v \in World, x \in Nat :
                     Same([v EXCEPT !.kills = x], v)
  BY DEF World, Same, TimersOf

\* Changing `intent` bears on nothing the invariant reads.
LEMMA WithIntent == \A v \in World, x \in ExitIntent :
                     Same([v EXCEPT !.intent = x], v)
  BY DEF World, Same, TimersOf

\* Changing `member` bears on nothing the invariant reads.
LEMMA WithMember == \A v \in World, x \in Membership :
                     Same([v EXCEPT !.member = x], v)
  BY DEF World, Same, TimersOf

\* Changing `held` bears on nothing the invariant reads.
LEMMA WithHeld == \A v \in World, x \in ChildOrNone :
                     Same([v EXCEPT !.held = x], v)
  BY DEF World, Same, TimersOf

\* Changing `stoppedAdoption` bears on nothing the invariant reads.
LEMMA WithStoppedAdoption == \A v \in World, x \in Nat :
                     Same([v EXCEPT !.stoppedAdoption = x], v)
  BY DEF World, Same, TimersOf

\* Changing `collectAfter` bears on nothing the invariant reads.
LEMMA WithCollectAfter == \A v \in World, x \in ChildOrNone :
                     Same([v EXCEPT !.collectAfter = x], v)
  BY DEF World, Same, TimersOf

\* Changing `retry` bears on nothing the invariant reads.
LEMMA WithRetry == \A v \in World, x \in Nat :
                     Same([v EXCEPT !.retry = x], v)
  BY DEF World, Same, TimersOf

\* Changing `retries` bears on nothing the invariant reads.
LEMMA WithRetries == \A v \in World, x \in Nat :
                     Same([v EXCEPT !.retries = x], v)
  BY DEF World, Same, TimersOf

\* Changing `proc` bears on nothing the invariant reads.
LEMMA WithProc == \A v \in World, x \in [Child -> {"unborn", "running", "ok", "failed"}] :
                     Same([v EXCEPT !.proc = x], v)
  BY DEF World, Same, TimersOf

\* Changing `holder` bears on nothing the invariant reads.
LEMMA WithHolder == \A v \in World, x \in [Child -> {"none", "fresh", "serving", "gone"}] :
                     Same([v EXCEPT !.holder = x], v)
  BY DEF World, Same, TimersOf

\* Changing `conn` bears on nothing the invariant reads.
LEMMA WithConn == \A v \in World, x \in [Child -> Nat] :
                     Same([v EXCEPT !.conn = x], v)
  BY DEF World, Same, TimersOf

\* Changing `killed` bears on nothing the invariant reads.
LEMMA WithKilled == \A v \in World, x \in SUBSET Child :
                     Same([v EXCEPT !.killed = x], v)
  BY DEF World, Same, TimersOf

\* Changing `collecting` bears on nothing the invariant reads.
LEMMA WithCollecting == \A v \in World, x \in SUBSET Child :
                     Same([v EXCEPT !.collecting = x], v)
  BY DEF World, Same, TimersOf

\* Changing `gen` leaves the other fields the invariant reads alone.
LEMMA WithGen ==
    \A v \in World, x \in Nat :
       LET u == [v EXCEPT !.gen = x]
       IN  /\ u \in World /\ u.gen = x
           /\ u.has = v.has /\ u.handle = v.handle /\ u.unsup = v.unsup /\ u.shut = v.shut
           /\ u.launch = v.launch /\ u.detaching = v.detaching /\ u.events = v.events
  BY DEF World

\* Changing `has` leaves the other fields the invariant reads alone.
LEMMA WithHas ==
    \A v \in World, x \in BOOLEAN :
       LET u == [v EXCEPT !.has = x]
       IN  /\ u \in World /\ u.has = x
           /\ u.gen = v.gen /\ u.handle = v.handle /\ u.unsup = v.unsup /\ u.shut = v.shut
           /\ u.launch = v.launch /\ u.detaching = v.detaching /\ u.events = v.events
  BY DEF World

\* Changing `handle` leaves the other fields the invariant reads alone.
LEMMA WithHandle ==
    \A v \in World, x \in ChildOrNone :
       LET u == [v EXCEPT !.handle = x]
       IN  /\ u \in World /\ u.handle = x
           /\ u.gen = v.gen /\ u.has = v.has /\ u.unsup = v.unsup /\ u.shut = v.shut
           /\ u.launch = v.launch /\ u.detaching = v.detaching /\ u.events = v.events
  BY DEF World

\* Changing `unsup` leaves the other fields the invariant reads alone.
LEMMA WithUnsup ==
    \A v \in World, x \in ChildOrNone :
       LET u == [v EXCEPT !.unsup = x]
       IN  /\ u \in World /\ u.unsup = x
           /\ u.gen = v.gen /\ u.has = v.has /\ u.handle = v.handle /\ u.shut = v.shut
           /\ u.launch = v.launch /\ u.detaching = v.detaching /\ u.events = v.events
  BY DEF World

\* Changing `shut` leaves the other fields the invariant reads alone.
LEMMA WithShut ==
    \A v \in World, x \in Nat :
       LET u == [v EXCEPT !.shut = x]
       IN  /\ u \in World /\ u.shut = x
           /\ u.gen = v.gen /\ u.has = v.has /\ u.handle = v.handle /\ u.unsup = v.unsup
           /\ u.launch = v.launch /\ u.detaching = v.detaching /\ u.events = v.events
  BY DEF World

\* Changing `launch` leaves the other fields the invariant reads alone.
LEMMA WithLaunch ==
    \A v \in World, x \in Launch :
       LET u == [v EXCEPT !.launch = x]
       IN  /\ u \in World /\ u.launch = x
           /\ u.gen = v.gen /\ u.has = v.has /\ u.handle = v.handle /\ u.unsup = v.unsup
           /\ u.shut = v.shut /\ u.detaching = v.detaching /\ u.events = v.events
  BY DEF World

\* Changing `detaching` leaves the other fields the invariant reads alone.
LEMMA WithDetaching ==
    \A v \in World, x \in BOOLEAN :
       LET u == [v EXCEPT !.detaching = x]
       IN  /\ u \in World /\ u.detaching = x
           /\ u.gen = v.gen /\ u.has = v.has /\ u.handle = v.handle /\ u.unsup = v.unsup
           /\ u.shut = v.shut /\ u.launch = v.launch /\ u.events = v.events
  BY DEF World

\* Changing `events` leaves the other fields the invariant reads alone.
LEMMA WithEvents ==
    \A v \in World, x \in SUBSET Event :
       LET u == [v EXCEPT !.events = x]
       IN  /\ u \in World /\ u.events = x
           /\ u.gen = v.gen /\ u.has = v.has /\ u.handle = v.handle /\ u.unsup = v.unsup
           /\ u.shut = v.shut /\ u.launch = v.launch /\ u.detaching = v.detaching
  BY DEF World

-----------------------------------------------------------------------------
(* The steps every handler is made of. *)

\* The values the steps write are of their fields' types.
LEMMA Values ==
    /\ None \in ChildOrNone /\ 0 \in Nat
    /\ \A s \in ProcessState : s \in ProcessState \cup {"Absent"}
    /\ "Absent" \in ProcessState \cup {"Absent"}
    /\ ExitIntent = {"FollowPolicy", "StopRetryable", "StopInFlight",
                     "RestartRetryable", "RestartInFlight"}
    /\ Membership = {"Tracked", "RetireOnExit"}
    /\ \A v \in World : /\ v.gen \in Nat /\ v.shut \in Nat /\ v.kills \in Nat /\ v.retries \in Nat
                        /\ v.gen + 1 \in Nat /\ v.shut + 1 \in Nat /\ v.kills + 1 \in Nat
                        /\ v.retries + 1 \in Nat /\ v.grace \in Nat
                        /\ v.handle \in ChildOrNone /\ v.unsup \in ChildOrNone
                        /\ v.held \in ChildOrNone /\ v.collectAfter \in ChildOrNone
                        /\ v.launch \in Launch /\ v.intent \in ExitIntent
                        /\ v.member \in Membership /\ v.events \in SUBSET Event
                        /\ v.state \in ProcessState \cup {"Absent"}
  BY DEF World, ExitIntent, Membership, ChildOrNone

\* No launch is in flight with a blank entry of the launch book.
LEMMA BlankLaunch == NoLaunch \in Launch /\ NoLaunch.purpose = "none" /\ NoLaunch.gen = 0
  <1>1. NoCarried \in Carried
    BY DEF NoCarried, Carried, ExitIntent, Membership, ProcessState, ChildOrNone
  <1>2. QED
    BY <1>1 DEF NoLaunch, NewLaunch, Launch, ProcessState

\* Agreeing with a good world is enough to be good (the invariant reads no more).
LEMMA SameGood ==
    /\ \A v \in World : Same(v, v)
    /\ \A u, v, x : Same(u, v) /\ Same(v, x) => Same(u, x)
    /\ \A u, v : Same(u, v) => u \in World
    /\ \A u, v, K : Same(u, v) /\ Good(v, K) => Good(u, K)
  <1>1. /\ \A v \in World : Same(v, v)
        /\ \A u, v, x : Same(u, v) /\ Same(v, x) => Same(u, x)
        /\ \A u, v : Same(u, v) => u \in World
    BY DEF Same
  <1>2. ASSUME NEW u, NEW v, NEW K, Same(u, v), Good(v, K) PROVE Good(u, K)
    <2>1. K \subseteq u.events /\ u \in World
      BY <1>2 DEF Same, Good
    <2>2. Consistent(u)
      BY <1>2 DEF Same, Good, Consistent, IsStarting, IsLive, IsUnsupervised, IsSpawning
    <2>3. IdleTimers(u)
      BY <1>2 DEF Same, Good, IdleTimers, Idle, IsStarting, IsLive
    <2>4. QED
      BY <2>1, <2>2, <2>3 DEF Good
  <1>3. QED
    BY <1>1, <1>2

\* What Same keeps, as the handlers ask for it.
LEMMA SameKeeps ==
    \A u, v : Same(u, v) =>
        /\ IsLive(u) = IsLive(v) /\ IsStarting(u) = IsStarting(v)
        /\ IsSpawning(u) = IsSpawning(v) /\ IsUnsupervised(u) = IsUnsupervised(v)
        /\ Untimed(u) = Untimed(v) /\ u.gen = v.gen /\ u.launch.gen = v.launch.gen
        /\ u.has = v.has
  BY DEF Same, Untimed, IsStarting, IsLive, IsUnsupervised, IsSpawning

\* A good world keeps what it promised, and promises as little as is asked.
LEMMA GoodKeeps ==
    \A v, K : Good(v, K) => /\ v \in World /\ K \subseteq v.events
                            /\ \A L : L \subseteq v.events => Good(v, L)
  BY DEF Good

\* The deadlines of a world and their generations are numbers.
LEMMA TimerFields ==
    \A v \in World : /\ v.gen \in Nat /\ v.shut \in Nat
                     /\ \A e \in TimersOf(v) : /\ e.gen \in Nat
                                               /\ e.kind = "ForceStop" => e.id \in Nat
  BY Zenon, Values DEF TimersOf, Event, EventKind

\* Advancing the shutdown generation and arming deadlines compose, and keep the
\* books of a pane with no launch in flight in order.
LEMMA RearmsGood ==
    /\ \A u, v : Same(u, v) /\ v \in World => Rearms(u, v)
    /\ \A u, v, x : x \in World /\ v \in World /\ Rearms(u, v) /\ Rearms(v, x) => Rearms(u, x)
    /\ \A u, v : Rearms(u, v) => u \in World
    /\ \A u, v, K : Rearms(u, v) /\ Good(v, K) /\ v.has /\ ~IsStarting(v) => Good(u, K)
  <1>1. ASSUME NEW u, NEW v, Same(u, v), v \in World PROVE Rearms(u, v)
    BY <1>1, Values DEF Same, Rearms
  <1>2. ASSUME NEW u, NEW v, NEW x, x \in World, v \in World, Rearms(u, v), Rearms(v, x)
        PROVE  Rearms(u, x)
    <2>1. u.shut \in Nat /\ v.shut \in Nat /\ x.shut \in Nat /\ u \in World
      BY <1>2, Values DEF Rearms
    <2>2. \A e \in TimersOf(v) : e.kind = "ForceStop" => e.id \in Nat
      BY <1>2, TimerFields
    <2>3. ASSUME NEW e \in TimersOf(u)
          PROVE  e \in TimersOf(x) \/ (e.kind = "ForceStop" /\ e.gen = x.gen /\ e.id <= u.shut)
      BY <1>2, <2>1, <2>2, <2>3 DEF Rearms
    <2>4. x.shut <= u.shut /\ x.events \subseteq u.events
      BY <1>2, <2>1 DEF Rearms
    <2>5. QED
      BY <1>2, <2>3, <2>4 DEF Rearms
  <1>3. ASSUME NEW u, NEW v, NEW K, Rearms(u, v), Good(v, K), v.has, ~IsStarting(v)
        PROVE  Good(u, K)
    <2>1. K \subseteq u.events /\ u \in World /\ v \in World
      BY <1>3 DEF Rearms, Good
    <2>2. Consistent(u)
      BY <1>3 DEF Rearms, Good, Consistent, IsStarting, IsLive, IsUnsupervised, IsSpawning
    <2>3. ~IsStarting(u) /\ u.has /\ u.gen = v.gen /\ IsLive(u) = IsLive(v)
      BY <1>3 DEF Rearms, IsStarting, IsLive
    <2>4. /\ u.shut \in Nat /\ v.shut \in Nat /\ v.gen \in Nat /\ v.shut <= u.shut
          /\ \A e \in TimersOf(v) : e.kind = "ForceStop" => e.id \in Nat
      BY <1>3, <2>1, TimerFields DEF Rearms
    <2>5. ASSUME NEW e \in TimersOf(u) PROVE e.gen <= u.gen /\ (e.gen = u.gen => Idle(u, e))
      <3>1. CASE e \in TimersOf(v)
        BY <1>3, <2>3, <2>4, <3>1 DEF Good, IdleTimers, Idle
      <3>2. CASE e.kind = "ForceStop" /\ e.gen = v.gen /\ e.id <= u.shut
        BY <2>3, <2>4, <3>2 DEF Idle
      <3>3. QED
        BY <1>3, <3>1, <3>2 DEF Rearms
    <2>6. QED
      BY <2>1, <2>2, <2>5 DEF Good, IdleTimers
  <1>4. QED
    BY <1>1, <1>2, <1>3 DEF Rearms

\* Posting anything but a timer or a deadline leaves the books alone.
LEMMA PostSame ==
    ASSUME NEW v \in World, NEW e \in Event, e.kind \notin Timed
    PROVE  Same(Post(v, e), v)
  <1> DEFINE u == [v EXCEPT !.events = v.events \cup {e}]
  <1>1. v.events \cup {e} \in SUBSET Event
    BY Values
  <1>2. /\ u \in World /\ u.events = v.events \cup {e}
        /\ u.gen = v.gen /\ u.has = v.has /\ u.handle = v.handle /\ u.unsup = v.unsup
        /\ u.shut = v.shut /\ u.launch = v.launch /\ u.detaching = v.detaching
    BY <1>1, WithEvents
  <1>3. Post(v, e) = u
    BY DEF Post
  <1> HIDE DEF u
  <1>4. TimersOf(u) = TimersOf(v)
    BY <1>2 DEF TimersOf
  <1>5. QED
    BY <1>2, <1>3, <1>4 DEF Same

\* Advancing the shutdown generation, and arming a deadline with it, leaves the
\* rest of the books alone.
LEMMA ArmRearms ==
    ASSUME NEW v \in World
    PROVE  /\ Rearms([v EXCEPT !.shut = v.shut + 1], v)
           /\ Rearms(Post(v, Ev("ForceStop", v.gen, v.shut, TRUE)), v)
  <1>1. v.shut \in Nat /\ v.gen \in Nat /\ v.shut + 1 \in Nat /\ v.events \in SUBSET Event
    BY Values
  <1>2. Rearms([v EXCEPT !.shut = v.shut + 1], v)
    <2> DEFINE u == [v EXCEPT !.shut = v.shut + 1]
    <2>1. /\ u \in World /\ u.shut = v.shut + 1 /\ u.events = v.events
          /\ u.gen = v.gen /\ u.has = v.has /\ u.handle = v.handle /\ u.unsup = v.unsup
          /\ u.launch = v.launch /\ u.detaching = v.detaching
      BY <1>1, WithShut
    <2> HIDE DEF u
    <2>2. v.shut <= u.shut
      BY <1>1, <2>1
    <2>3. Rearms(u, v)
      BY <2>1, <2>2 DEF Rearms, TimersOf
    <2>4. QED
      BY <2>3 DEF u
  <1>3. Rearms(Post(v, Ev("ForceStop", v.gen, v.shut, TRUE)), v)
    <2> DEFINE e == Ev("ForceStop", v.gen, v.shut, TRUE)
               u == [v EXCEPT !.events = v.events \cup {e}]
    <2>1. e \in Event /\ e.kind = "ForceStop" /\ e.gen = v.gen /\ e.id = v.shut
      BY <1>1 DEF Ev, Event
    <2> HIDE DEF e
    <2>2. v.events \cup {e} \in SUBSET Event
      BY <1>1, <2>1
    <2>3. /\ u \in World /\ u.shut = v.shut /\ u.events = v.events \cup {e}
          /\ u.gen = v.gen /\ u.has = v.has /\ u.handle = v.handle /\ u.unsup = v.unsup
          /\ u.launch = v.launch /\ u.detaching = v.detaching
      BY <2>2, WithEvents
    <2> HIDE DEF u
    <2>4. \A f \in TimersOf(u) :
             f \in TimersOf(v) \/ (f.kind = "ForceStop" /\ f.gen = v.gen /\ f.id <= u.shut)
      BY <1>1, <2>1, <2>3 DEF TimersOf
    <2>5. Rearms(u, v)
      BY <1>1, <2>3, <2>4 DEF Rearms
    <2>6. QED
      BY <2>5 DEF u, e, Post
  <1>4. QED
    BY Zenon, <1>2, <1>3

\* A dropped handle only ends its reader.
LEMMA DropSame == ASSUME NEW v \in World, NEW c PROVE Same(Drop(v, c), v)
  <1>1. [d \in Child |-> IF d = c THEN 0 ELSE v.conn[d]] \in [Child -> Nat]
    BY DEF World
  <1>2. QED
    BY Zenon, <1>1, WithConn DEF Drop

\* Showing another state leaves the books alone.
LEMMA SetStateSame ==
    \A v \in World, s \in ProcessState : Same(SetState(v, s), v)
  BY Zenon, Values, WithState, SameGood DEF SetState

\* A kill leaves the books alone.
LEMMA SendKillSame == ASSUME NEW v \in World, NEW c PROVE Same(SendKill(v, c), v)
  <1>1. c \in Child => v.killed \cup {c} \in SUBSET Child
    BY DEF World
  <1>2. QED
    BY <1>1, WithKilled, SameGood DEF SendKill

\* Acknowledging an exit leaves the books alone.
LEMMA CollectSame == ASSUME NEW v \in World, NEW c PROVE Same(Collect(v, c), v)
  <1>1. c \in Child => v.collecting \cup {c} \in SUBSET Child
    BY DEF World
  <1>2. QED
    BY <1>1, WithCollecting, SameGood DEF Collect

\* Abandoning a child leaves the books alone.
LEMMA AbandonSame == ASSUME NEW v \in World, NEW c PROVE Same(Abandon(v, c), v)
  BY DropSame, SendKillSame, CollectSame, SameGood DEF Abandon

\* The tick leaves all but the held exit alone (release_settled_exits).
LEMMA ReleaseSame ==
    \A v \in World : Same(ReleaseHeldExit(v), v) /\ Same(ReleaseSettledExits(v), v)
  BY CollectSame, WithHeld, Values, SameGood DEF ReleaseHeldExit, ReleaseSettledExits

-----------------------------------------------------------------------------
(* Generations, handles and launches. *)

\* The books after the generation advances with no launch in flight: every
\* timer and deadline is of an earlier generation.
LEMMA BumpGood ==
    ASSUME NEW v, NEW K, Good(v, K)
    PROVE  LET b == BumpGeneration(v)
           IN  /\ Good(b, K) /\ Untimed(b) /\ ~IsStarting(b) /\ b.gen = v.gen + 1
               /\ b.handle = v.handle /\ b.unsup = v.unsup /\ b.detaching = v.detaching
               /\ b.has = v.has /\ b.launch = NoLaunch /\ b.events = v.events
  <1> DEFINE a == [v EXCEPT !.gen = v.gen + 1]
             b == [a EXCEPT !.launch = NoLaunch]
  <1>0. v \in World /\ v.gen + 1 \in Nat /\ v.gen \in Nat
    BY Values DEF Good
  <1>1. /\ a \in World /\ a.gen = v.gen + 1 /\ a.handle = v.handle /\ a.unsup = v.unsup
        /\ a.detaching = v.detaching /\ a.events = v.events /\ a.has = v.has
    BY <1>0, WithGen
  <1> HIDE DEF a
  <1>2. /\ b \in World /\ b.gen = v.gen + 1 /\ b.handle = v.handle /\ b.unsup = v.unsup
        /\ b.detaching = v.detaching /\ b.events = v.events /\ b.launch = NoLaunch
        /\ b.has = v.has
    BY <1>1, WithLaunch, BlankLaunch
  <1>3. BumpGeneration(v) = b
    BY DEF BumpGeneration, a
  <1> HIDE DEF b
  <1>4. ~IsStarting(b) /\ ~IsSpawning(b)
    BY <1>2, BlankLaunch DEF IsStarting, IsSpawning
  <1>5. Consistent(b)
    BY <1>2, <1>4 DEF Good, Consistent, IsLive, IsUnsupervised
  <1>6. \A e \in TimersOf(v) : e.gen \in Nat /\ e.gen <= v.gen
    BY <1>0, TimerFields DEF Good, IdleTimers
  <1>7. Untimed(b)
    BY <1>0, <1>2, <1>6 DEF Untimed, TimersOf
  <1>8. IdleTimers(b)
    BY <1>0, <1>2, <1>6 DEF IdleTimers, TimersOf
  <1>9. QED
    BY <1>2, <1>3, <1>4, <1>5, <1>7, <1>8 DEF Good

\* A pane that holds no process may give up its handle.
LEMMA DropHandle ==
    ASSUME NEW v, NEW K, Good(v, K)
    PROVE  LET u == [v EXCEPT !.handle = None]
           IN  /\ Good(u, K) /\ ~IsLive(u) /\ u.gen = v.gen /\ u.launch = v.launch
               /\ u.unsup = v.unsup /\ u.detaching = v.detaching /\ u.has = v.has
               /\ u.shut = v.shut /\ u.events = v.events
  <1> DEFINE u == [v EXCEPT !.handle = None]
  <1>1. /\ u \in World /\ u.handle = None /\ u.gen = v.gen /\ u.launch = v.launch
        /\ u.unsup = v.unsup /\ u.detaching = v.detaching /\ u.has = v.has
        /\ u.shut = v.shut /\ u.events = v.events
    BY WithHandle, Values DEF Good
  <1> HIDE DEF u
  <1>2. Consistent(u) /\ ~IsLive(u)
    BY <1>1 DEF Good, Consistent, IsLive, IsStarting, IsUnsupervised, IsSpawning
  <1>3. IdleTimers(u)
    BY <1>1 DEF Good, IdleTimers, Idle, TimersOf, IsLive, IsStarting
  <1>4. QED
    BY <1>1, <1>2, <1>3 DEF Good, u

\* A pane may forget the child left running on it.
LEMMA DropUnsupervised ==
    ASSUME NEW v, NEW K, Good(v, K)
    PROVE  LET u == [v EXCEPT !.unsup = None]
           IN  /\ Good(u, K) /\ ~IsUnsupervised(u) /\ u.gen = v.gen /\ u.launch = v.launch
               /\ u.handle = v.handle /\ u.detaching = v.detaching /\ u.has = v.has
               /\ u.shut = v.shut /\ u.events = v.events
  <1> DEFINE u == [v EXCEPT !.unsup = None]
  <1>1. /\ u \in World /\ u.unsup = None /\ u.gen = v.gen /\ u.launch = v.launch
        /\ u.handle = v.handle /\ u.detaching = v.detaching /\ u.has = v.has
        /\ u.shut = v.shut /\ u.events = v.events
    BY WithUnsup, Values DEF Good
  <1> HIDE DEF u
  <1>2. Consistent(u) /\ ~IsUnsupervised(u)
    BY <1>1 DEF Good, Consistent, IsLive, IsStarting, IsUnsupervised, IsSpawning
  <1>3. IdleTimers(u)
    BY <1>1 DEF Good, IdleTimers, Idle, TimersOf, IsLive, IsStarting
  <1>4. QED
    BY <1>1, <1>2, <1>3 DEF Good, u

\* A pane may forget its launch.
LEMMA DropLaunch ==
    ASSUME NEW v, NEW K, Good(v, K)
    PROVE  LET u == [v EXCEPT !.launch = NoLaunch]
           IN  /\ Good(u, K) /\ ~IsStarting(u) /\ u.gen = v.gen /\ u.unsup = v.unsup
               /\ u.handle = v.handle /\ u.detaching = v.detaching /\ u.has = v.has
               /\ u.shut = v.shut /\ u.events = v.events
  <1> DEFINE u == [v EXCEPT !.launch = NoLaunch]
  <1>1. /\ u \in World /\ u.launch = NoLaunch /\ u.gen = v.gen /\ u.unsup = v.unsup
        /\ u.handle = v.handle /\ u.detaching = v.detaching /\ u.has = v.has
        /\ u.shut = v.shut /\ u.events = v.events
    BY WithLaunch, BlankLaunch DEF Good
  <1> HIDE DEF u
  <1>2. Consistent(u) /\ ~IsStarting(u)
    BY <1>1, BlankLaunch DEF Good, Consistent, IsLive, IsStarting, IsUnsupervised, IsSpawning
  <1>3. IdleTimers(u)
    BY ZenonT(60), <1>1, <1>2 DEF Good, IdleTimers, Idle, TimersOf, IsLive
  <1>4. QED
    BY <1>1, <1>2, <1>3 DEF Good, u

\* Deactivate leaves no live process (Supervisor::deactivate).
LEMMA DeactivateGood ==
    ASSUME NEW v, NEW K, Good(v, K)
    PROVE  LET u == Deactivate(v)
           IN  /\ Good(u, K) /\ ~IsLive(u) /\ u.gen = v.gen /\ IsStarting(u) = IsStarting(v)
               /\ u.unsup = v.unsup /\ IsSpawning(u) = IsSpawning(v) /\ Untimed(u) = Untimed(v)
               /\ u.has = v.has
  <1> DEFINE a == Drop(v, v.handle)
             b == [a EXCEPT !.handle = None]
             d == [b EXCEPT !.intent = "FollowPolicy"]
  <1>1. Good(a, K) /\ Same(a, v)
    BY DropSame, SameGood DEF Good
  <1> HIDE DEF a
  <1>2. Good(b, K) /\ ~IsLive(b) /\ b.gen = a.gen /\ b.launch = a.launch /\ b.unsup = a.unsup
        /\ b.has = a.has /\ TimersOf(b) = TimersOf(a)
    BY <1>1, DropHandle DEF TimersOf
  <1> HIDE DEF b
  <1>3. Same(d, b)
    BY Zenon, <1>2, WithIntent, Values DEF Good
  <1>4. Deactivate(v) = d
    BY DEF Deactivate, a, b
  <1> HIDE DEF d
  <1>5. QED
    BY <1>1, <1>2, <1>3, <1>4, SameGood
       DEF Same, IsLive, IsStarting, IsSpawning, Untimed

\* A process is installed only where no launch is in flight and no timer or
\* deadline of the current generation is (Supervisor::install_terminal); a blank
\* pane where the map has none.
LEMMA InstallGood ==
    ASSUME NEW v, NEW K, Good(v, K), ~IsStarting(v), NEW c \in ChildOrNone,
           Untimed(v) \/ (c = None /\ ~v.has)
    PROVE  LET u == InstallTerminal(v, c)
           IN  /\ Good(u, K) /\ ~IsStarting(u) /\ ~IsUnsupervised(u) /\ u.gen = v.gen
               /\ u.handle = c /\ u.has
  <1> DEFINE a == [v EXCEPT !.has = TRUE]
             b == [a EXCEPT !.handle = c]
             d == [b EXCEPT !.unsup = None]
             f == [d EXCEPT !.shut = 0]
             g == [f EXCEPT !.grace = 0]
             h == [g EXCEPT !.kills = 0]
             i == [h EXCEPT !.intent = "FollowPolicy"]
             j == [i EXCEPT !.member = "Tracked"]
  <1>0. v \in World /\ K \subseteq v.events
    BY DEF Good
  <1>1. /\ a \in World /\ a.has /\ a.gen = v.gen /\ a.launch = v.launch /\ a.events = v.events
    BY Zenon, <1>0, WithHas
  <1> HIDE DEF a
  <1>2. /\ b \in World /\ b.has /\ b.gen = v.gen /\ b.launch = v.launch /\ b.events = v.events
        /\ b.handle = c
    BY <1>1, WithHandle
  <1> HIDE DEF b
  <1>3. /\ d \in World /\ d.has /\ d.gen = v.gen /\ d.launch = v.launch /\ d.events = v.events
        /\ d.handle = c /\ d.unsup = None
    BY <1>2, WithUnsup, Values
  <1> HIDE DEF d
  <1>4. /\ f \in World /\ f.has /\ f.gen = v.gen /\ f.launch = v.launch /\ f.events = v.events
        /\ f.handle = c /\ f.unsup = None
    BY <1>3, WithShut, Values
  <1> HIDE DEF f
  <1>5. ~IsStarting(f) /\ ~IsSpawning(f) /\ ~IsUnsupervised(f) /\ TimersOf(f) = TimersOf(v)
    BY <1>4 DEF IsStarting, IsSpawning, IsUnsupervised, TimersOf
  <1>6. v.gen \in Nat /\ \A e \in TimersOf(v) : e.gen \in Nat
    BY <1>0, TimerFields
  <1>7. IdleTimers(f)
    <2>1. CASE Untimed(v)
      BY <1>4, <1>5, <1>6, <2>1 DEF Untimed, IdleTimers
    <2>2. CASE c = None /\ ~v.has
      <3>1. \A e \in TimersOf(v) : e.gen <= v.gen /\ (e.gen = v.gen => e.kind # "ForceStop")
        BY <2>2 DEF Good, IdleTimers, Idle
      <3>2. ~IsLive(f)
        BY Zenon, <1>4, <2>2 DEF IsLive
      <3>3. QED
        BY <1>4, <1>5, <3>1, <3>2 DEF IdleTimers, Idle
    <2>3. QED
      BY <2>1, <2>2
  <1>8. Good(f, K)
    BY <1>0, <1>4, <1>5, <1>7 DEF Good, Consistent
  <1>9. Same(g, f)
    BY <1>4, WithGrace, Values
  <1> HIDE DEF g
  <1>10. Same(h, g)
    BY <1>9, SameGood, WithKills, Values
  <1> HIDE DEF h
  <1>11. Same(i, h)
    BY Zenon, <1>10, SameGood, WithIntent, Values
  <1> HIDE DEF i
  <1>12. Same(j, i)
    BY Zenon, <1>11, SameGood, WithMember, Values
  <1>13. InstallTerminal(v, c) = j
    BY Zenon DEF InstallTerminal, a, b, d, f, g, h, i
  <1> HIDE DEF j
  <1>14. Same(j, f)
    BY <1>9, <1>10, <1>11, <1>12, SameGood
  <1>15. Good(j, K) /\ ~IsStarting(j) /\ ~IsUnsupervised(j) /\ j.gen = v.gen
    BY <1>4, <1>5, <1>8, <1>14, SameGood, SameKeeps
  <1>16. j.handle = c /\ j.has
    BY <1>4, <1>14 DEF Same
  <1>17. QED
    BY <1>13, <1>15, <1>16

\* A pane that knows its process takes the child and shows it running.
LEMMA InstallPaneGood ==
    ASSUME NEW v, NEW K, Good(v, K), ~IsStarting(v), Untimed(v), NEW c \in ChildOrNone
    PROVE  LET u == InstallPane(v, c)
           IN  Good(u, K) /\ ~IsStarting(u) /\ u.gen = v.gen /\ (Known(u) => u.has)
  <1> DEFINE a == InstallTerminal(v, c)
             b == [a EXCEPT !.state = "Running"]
  <1>1. Good(a, K) /\ ~IsStarting(a) /\ a.gen = v.gen /\ a.has
    BY InstallGood
  <1>2. CASE Known(v)
    <2>1. InstallPane(v, c) = b
      BY SMTT(40), <1>2 DEF InstallPane
    <2> HIDE DEF a
    <2>2. Same(b, a)
      BY Zenon, <1>1, WithState DEF Good, ProcessState
    <2>3. QED
      BY <1>1, <2>1, <2>2, SameGood, SameKeeps
  <1>3. CASE ~Known(v)
    <2>1. InstallPane(v, c) = Drop(v, c) /\ Same(Drop(v, c), v)
      BY <1>3, DropSame DEF Good, InstallPane
    <2>2. ~Known(Drop(v, c))
      BY <1>3 DEF Good, World, Drop, Known
    <2>3. QED
      BY <2>1, <2>2, SameGood, SameKeeps
  <1>4. QED
    BY <1>2, <1>3

\* A retired pane holds nothing, and its generation has moved past every timer
\* and deadline.
LEMMA RetireGood ==
    ASSUME NEW v, NEW K, Good(v, K)
    PROVE  LET u == RetirePane(v)
           IN  Good(u, K) /\ ~IsLive(u) /\ ~IsStarting(u) /\ ~IsUnsupervised(u)
  <1> DEFINE a == BumpGeneration(Drop(v, v.handle))
             c == [a EXCEPT !.handle = None]
             d == [c EXCEPT !.unsup = None]
             b == [d EXCEPT !.has = FALSE]
             i == [b EXCEPT !.shut = 0]
             f == [i EXCEPT !.grace = 0]
             g == [f EXCEPT !.kills = 0]
             h == [g EXCEPT !.intent = "FollowPolicy"]
             j == [h EXCEPT !.member = "Tracked"]
             k == [j EXCEPT !.stoppedAdoption = 0]
             l == [k EXCEPT !.state = "Absent"]
  <1>0. RetirePane(v) = l
    BY Zenon DEF RetirePane
  <1>1. Good(a, K) /\ ~IsStarting(a) /\ Untimed(a)
    <2>1. Good(Drop(v, v.handle), K)
      BY DropSame, SameGood DEF Good
    <2>2. QED
      BY <2>1, BumpGood
  <1> HIDE DEF a
  <1>2. Good(c, K) /\ ~IsLive(c) /\ ~IsStarting(c) /\ Untimed(c)
    BY <1>1, DropHandle DEF IsStarting, Untimed, TimersOf
  <1> HIDE DEF c
  <1>3. Good(d, K) /\ ~IsLive(d) /\ ~IsStarting(d) /\ ~IsUnsupervised(d) /\ Untimed(d)
    BY <1>2, DropUnsupervised DEF IsStarting, IsLive, Untimed, TimersOf
  <1> HIDE DEF d
  <1>4. /\ b \in World /\ b.gen = d.gen /\ b.handle = d.handle /\ b.unsup = d.unsup
        /\ b.launch = d.launch /\ b.events = d.events
    BY Zenon, <1>3, WithHas DEF Good
  <1> HIDE DEF b
  <1>5. /\ i \in World /\ i.gen = d.gen /\ i.handle = d.handle /\ i.unsup = d.unsup
        /\ i.launch = d.launch /\ i.events = d.events
    BY <1>4, WithShut, Values
  <1> HIDE DEF i
  <1>6. ~IsLive(i) /\ ~IsStarting(i) /\ ~IsUnsupervised(i)
    BY <1>3, <1>5 DEF IsLive, IsStarting, IsUnsupervised
  <1>7. d.gen \in Nat /\ \A e \in TimersOf(d) : e.gen \in Nat
    BY <1>3, TimerFields DEF Good
  <1>8. IdleTimers(i) /\ Consistent(i)
    BY <1>3, <1>5, <1>6, <1>7 DEF IdleTimers, Untimed, TimersOf, Consistent, IsStarting, IsSpawning
  <1>9. Good(i, K)
    BY <1>3, <1>5, <1>8 DEF Good
  <1>10. Same(f, i)
    BY <1>5, WithGrace, Values
  <1> HIDE DEF f
  <1>11. Same(g, f)
    BY Zenon, <1>10, SameGood, WithKills, Values
  <1> HIDE DEF g
  <1>12. Same(h, g)
    BY Zenon, <1>11, SameGood, WithIntent, Values
  <1> HIDE DEF h
  <1>13. Same(j, h)
    BY Zenon, <1>12, SameGood, WithMember, Values
  <1> HIDE DEF j
  <1>14. Same(k, j)
    BY <1>13, SameGood, WithStoppedAdoption, Values
  <1> HIDE DEF k
  <1>15. Same(l, k)
    BY <1>14, SameGood, WithState, Values
  <1> HIDE DEF l
  <1>16. Same(l, i)
    BY <1>10, <1>11, <1>12, <1>13, <1>14, <1>15, SameGood
  <1>17. QED
    BY <1>0, <1>6, <1>9, <1>16, SameGood, SameKeeps

\* A launch begins in a generation of its own, where no process is live and, if
\* it is a launch of a new child, none is left running.
LEMMA BeginGood ==
    ASSUME NEW v, NEW K, Good(v, K), ~IsLive(v), Untimed(v),
           NEW launch \in Launch, launch.gen = v.gen,
           launch.purpose = "Spawn" => ~IsUnsupervised(v)
    PROVE  Good([v EXCEPT !.launch = launch], K)
  <1> DEFINE u == [v EXCEPT !.launch = launch]
  <1>1. /\ u \in World /\ u.gen = v.gen /\ u.handle = v.handle /\ u.unsup = v.unsup
        /\ u.launch = launch /\ u.has = v.has /\ u.events = v.events
    BY WithLaunch DEF Good
  <1> HIDE DEF u
  <1>2. v.gen \in Nat /\ \A e \in TimersOf(v) : e.gen \in Nat
    BY TimerFields DEF Good
  <1>3. Consistent(u)
    BY <1>1 DEF Good, Consistent, IsLive, IsStarting, IsUnsupervised, IsSpawning
  <1>4. IdleTimers(u)
    BY <1>1, <1>2 DEF IdleTimers, Untimed, TimersOf
  <1>5. QED
    BY <1>1, <1>3, <1>4 DEF Good, u

\* A worker's launch of either kind is a launch.
LEMMA NewLaunchType ==
    ASSUME NEW p \in {"Spawn", "Adopt"}, NEW g \in Nat, NEW s \in ProcessState,
           NEW c \in Carried
    PROVE  /\ NewLaunch(p, g, s, c) \in Launch
           /\ NewLaunch(p, g, s, c).gen = g /\ NewLaunch(p, g, s, c).purpose = p
  BY DEF NewLaunch, Launch

-----------------------------------------------------------------------------
(* A child left running unsupervised. *)

\* Scheduling the next check arms a deadline of the generation it advances to.
LEMMA CheckRearms == \A v \in World : Rearms(CheckUnsupervisedAfter(v), v)
  <1> TAKE v \in World
  <1> DEFINE a == [v EXCEPT !.shut = v.shut + 1]
             e == Ev("ForceStop", a.gen, a.shut, TRUE)
  <1>0. Rearms(a, v)
    BY Zenon, ArmRearms
  <1>1. Rearms(a, v) /\ a.gen = v.gen /\ a.shut = v.shut + 1
    <2>1. v.shut + 1 \in Nat
      BY Values
    <2>2. QED
      BY <1>0, <2>1, WithShut
  <1>2. CheckUnsupervisedAfter(v) = Post(a, e)
    BY <1>1 DEF CheckUnsupervisedAfter
  <1> HIDE DEF a
  <1>3. Rearms(Post(a, e), a)
    BY Zenon, <1>1, ArmRearms, RearmsGood
  <1> HIDE DEF e
  <1>4. QED
    BY <1>1, <1>2, <1>3, RearmsGood

\* Giving up the stop leaves the books alone.
LEMMA GiveUpSame == \A v \in World : Same(GiveUpUnsupervisedStop(v), v)
  <1> TAKE v \in World
  <1>1. StopRequested(FALSE) \in ExitIntent /\ "Unsupervised" \in ProcessState
    BY DEF StopRequested, ExitIntent, ProcessState
  <1>2. Same([v EXCEPT !.intent = StopRequested(FALSE)], v)
    BY Zenon, <1>1, WithIntent
  <1>3. QED
    BY <1>1, <1>2, SetStateSame, SameGood DEF GiveUpUnsupervisedStop

\* Settling the exit frees the pane of the child, and starts nothing.
LEMMA SettleExitGood ==
    ASSUME NEW v, NEW K, Good(v, K)
    PROVE  LET u == SettleUnsupervisedExit(v)
           IN  /\ Good(u, K) /\ ~IsUnsupervised(u)
               /\ IsLive(u) => IsLive(v)
               /\ IsStarting(u) => IsStarting(v)
  <1> DEFINE a == Collect(v, v.collectAfter)
             b == [a EXCEPT !.collectAfter = None]
             gone == [b EXCEPT !.unsup = None]
  <1>1. Same(a, v)
    BY CollectSame DEF Good
  <1> HIDE DEF a
  <1>2. Same(b, a)
    BY ZenonT(60), <1>1, WithCollectAfter, Values, SameGood
  <1> HIDE DEF b
  <1>3. Good(b, K) /\ b.handle = v.handle /\ b.launch.purpose = v.launch.purpose
    BY <1>1, <1>2, SameGood DEF Same
  <1>4. /\ Good(gone, K) /\ ~IsUnsupervised(gone) /\ IsLive(gone) = IsLive(v)
        /\ IsStarting(gone) = IsStarting(v)
    BY <1>3, DropUnsupervised DEF IsLive, IsStarting
  <1>5. SettleUnsupervisedExit(v) =
           IF ~v.has THEN gone
           ELSE IF v.member = "RetireOnExit" THEN RetirePane(gone)
           ELSE SetState(Deactivate(BumpGeneration(gone)), "Exited")
    BY DEF SettleUnsupervisedExit, a, b
  <1> HIDE DEF gone
  <1>6. LET u == RetirePane(gone)
        IN Good(u, K) /\ ~IsLive(u) /\ ~IsStarting(u) /\ ~IsUnsupervised(u)
    BY ZenonT(60), <1>4, RetireGood
  <1>7. LET u == SetState(Deactivate(BumpGeneration(gone)), "Exited")
        IN Good(u, K) /\ ~IsLive(u) /\ ~IsStarting(u) /\ ~IsUnsupervised(u)
    <2> DEFINE m == BumpGeneration(gone)
               d == Deactivate(m)
    <2>1. Good(m, K) /\ ~IsStarting(m) /\ m.unsup = gone.unsup
      BY <1>4, BumpGood
    <2> HIDE DEF m
    <2>2. Good(d, K) /\ ~IsLive(d) /\ ~IsStarting(d) /\ d.unsup = m.unsup
      BY <2>1, DeactivateGood
    <2> HIDE DEF d
    <2>3. Same(SetState(d, "Exited"), d)
      BY <2>2, SetStateSame DEF Good, ProcessState
    <2>4. ~IsUnsupervised(d)
      BY <1>4, <2>1, <2>2 DEF IsUnsupervised
    <2>5. QED
      BY <2>2, <2>3, <2>4, SameGood, SameKeeps DEF m, d
  <1>8. QED
    BY <1>4, <1>5, <1>6, <1>7

\* Signalling the child keeps the books in order.
LEMMA SignalGood ==
    ASSUME NEW v, NEW K, Good(v, K), ~IsStarting(v), NEW kill, NEW io
    PROVE  Good(SignalUnsupervised(v, kill, io), K)
  <1> DEFINE c == v.unsup
             delivered == io.signal # "failed"
             hit == IF kill /\ delivered THEN [v EXCEPT !.killed = v.killed \cup {c}] ELSE v
             dead == [hit EXCEPT !.proc[c] = "failed"]
             asked == [hit EXCEPT !.intent = StopRequested(TRUE)]
  <1>1. SUFFICES ASSUME RunsChild(v, c) PROVE Good(SignalUnsupervised(v, kill, io), K)
    BY SettleExitGood DEF SignalUnsupervised
  <1>2. v.killed \cup {c} \in SUBSET Child /\ v \in World
    BY <1>1 DEF RunsChild, Good, World
  <1>3. Same(hit, v)
    BY <1>2, WithKilled, SameGood
  <1>4. SignalUnsupervised(v, kill, io) =
          IF io.gone THEN SettleUnsupervisedExit(dead)
          ELSE IF ~delivered THEN GiveUpUnsupervisedStop(v)
          ELSE CheckUnsupervisedAfter(SetState(asked, "Stopping"))
    BY <1>1 DEF SignalUnsupervised
  <1> HIDE DEF hit
  <1>5. hit \in World
    BY <1>3, SameGood
  <1>6. [hit.proc EXCEPT ![c] = "failed"] \in [Child -> {"unborn", "running", "ok", "failed"}]
    BY Zenon, <1>5 DEF World
  <1>7. Same(dead, hit)
    BY Zenon, <1>5, <1>6, WithProc
  <1>8. Good(SettleUnsupervisedExit(dead), K)
    BY <1>3, <1>7, SameGood, SettleExitGood
  <1>9. Good(GiveUpUnsupervisedStop(v), K)
    BY <1>2, GiveUpSame, SameGood
  <1>10. Same(asked, hit)
    BY Zenon, <1>5, WithIntent DEF StopRequested, ExitIntent
  <1> HIDE DEF asked
  <1>11. Same(SetState(asked, "Stopping"), asked)
    BY <1>10, SameGood, SetStateSame DEF ProcessState
  <1> DEFINE shown == SetState(asked, "Stopping")
  <1> HIDE DEF shown
  <1>12. Good(CheckUnsupervisedAfter(shown), K)
    <2>1. Same(shown, v)
      BY <1>3, <1>10, <1>11, SameGood DEF shown
    <2>2. v.has
      BY <1>1 DEF RunsChild, Child, None, Good, Consistent, IsUnsupervised
    <2>3. Good(shown, K) /\ shown.has /\ ~IsStarting(shown)
      BY <2>1, <2>2, SameGood, SameKeeps
    <2>4. QED
      BY <2>3, CheckRearms, RearmsGood DEF Good
  <1>13. QED
    BY <1>4, <1>8, <1>9, <1>12 DEF shown

\* Stopping the child keeps the books in order.
LEMMA StopUnsupervisedGood ==
    ASSUME NEW v, NEW K, Good(v, K), ~IsStarting(v), NEW force, NEW io
    PROVE  Good(StopUnsupervised(v, force, io), K)
  <1> DEFINE g == IF force THEN 0 ELSE GraceChecks
             a == [v EXCEPT !.grace = g]
             b == [a EXCEPT !.kills = 0]
  <1>1. Same(a, v)
    BY WithGrace, PaneAssumption DEF Good
  <1>2. StopUnsupervised(v, force, io) =
          IF ~force /\ ~AcceptsStopRequest(v.intent) THEN v ELSE SignalUnsupervised(b, force, io)
    BY DEF StopUnsupervised
  <1> HIDE DEF a
  <1>3. Same(b, a)
    BY <1>1, WithKills, SameGood, Values
  <1> HIDE DEF b
  <1>4. QED
    BY <1>1, <1>2, <1>3, SignalGood, SameGood, SameKeeps

\* Escalating its stop keeps the books in order.
LEMMA EscalateGood ==
    ASSUME NEW v, NEW K, Good(v, K), ~IsStarting(v), NEW io
    PROVE  Good(EscalateUnsupervised(v, io), K)
  <1> DEFINE a == [v EXCEPT !.grace = 0]
             killing == [a EXCEPT !.kills = a.kills + 1]
             less == [v EXCEPT !.grace = v.grace - 1]
             given == [killing EXCEPT !.kills = 0]
  <1>0. v \in World
    BY DEF Good
  <1>1. Same(a, v)
    BY <1>0, WithGrace, Values
  <1>2. v.grace > 1 => v.grace - 1 \in Nat
    BY <1>0, Values
  <1>3. v.grace > 1 => Same(less, v)
    BY <1>0, <1>2, WithGrace
  <1>4. EscalateUnsupervised(v, io) =
          IF ~IsUnsupervised(v) THEN v
          ELSE IF v.grace > 0 /\ ~RunsUnsupervised(v) THEN SettleUnsupervisedExit(v)
          ELSE IF v.grace > 1 THEN CheckUnsupervisedAfter(less)
          ELSE IF killing.kills > KillLimit /\ RunsUnsupervised(v)
            THEN GiveUpUnsupervisedStop(given)
          ELSE SignalUnsupervised(killing, TRUE, io)
    BY DEF EscalateUnsupervised
  <1> HIDE DEF a, less
  <1>5. Same(killing, a)
    BY <1>1, WithKills, Values, SameGood
  <1> HIDE DEF killing
  <1>6. Same(given, killing)
    BY <1>5, WithKills, Values, SameGood
  <1> HIDE DEF given
  <1>7. v.grace > 1 => Good(less, K) /\ ~IsStarting(less) /\ less.has = v.has
    BY <1>3, SameGood, SameKeeps
  <1>8. Good(killing, K) /\ Good(given, K) /\ ~IsStarting(killing)
    BY <1>1, <1>5, <1>6, SameGood, SameKeeps
  <1>9. Good(SettleUnsupervisedExit(v), K)
    BY ZenonT(60), SettleExitGood
  <1>10. v.grace > 1 /\ IsUnsupervised(v) => Good(CheckUnsupervisedAfter(less), K)
    <2>1. IsUnsupervised(v) => v.has
      BY DEF Good, Consistent
    <2>2. QED
      BY <1>7, <2>1, CheckRearms, RearmsGood DEF Good
  <1>11. Good(GiveUpUnsupervisedStop(given), K) /\ Good(SignalUnsupervised(killing, TRUE, io), K)
    BY Zenon, <1>8, GiveUpSame, SignalGood, SameGood DEF Good
  <1>12. QED
    BY Zenon, <1>4, <1>9, <1>10, <1>11

\* A child is left running on a pane with no launch in flight.
LEMMA LeaveGood ==
    ASSUME NEW v, NEW K, Good(v, K), ~IsStarting(v), NEW c \in ChildOrNone
    PROVE  Good(LeaveUnsupervised(v, c), K) /\ ~IsStarting(LeaveUnsupervised(v, c))
  <1> DEFINE blank == IF v.has THEN v ELSE InstallTerminal(v, None)
             d == Deactivate(blank)
             a == [d EXCEPT !.unsup = c]
             b == [a EXCEPT !.grace = 0]
             f == [b EXCEPT !.kills = 0]
  <1>1. Good(blank, K) /\ ~IsStarting(blank) /\ blank.has
    <2>1. v.has \in BOOLEAN
      BY Zenon DEF Good, World
    <2>2. ~v.has => LET u == InstallTerminal(v, None) IN Good(u, K) /\ ~IsStarting(u) /\ u.has
      BY InstallGood, Values
    <2>3. QED
      BY <2>1, <2>2
  <1>0. LeaveUnsupervised(v, c) = SetState(f, "Unsupervised")
    BY DEF LeaveUnsupervised
  <1> HIDE DEF blank
  <1>2. Good(d, K) /\ ~IsLive(d) /\ ~IsStarting(d) /\ d.has
    BY Zenon, <1>1, DeactivateGood
  <1> HIDE DEF d
  <1>3. Good(a, K) /\ ~IsStarting(a)
    <2>1. /\ a \in World /\ a.gen = d.gen /\ a.handle = d.handle /\ a.launch = d.launch
          /\ a.has = d.has /\ a.shut = d.shut /\ a.events = d.events
      BY ZenonT(60), <1>2, WithUnsup DEF Good
    <2> HIDE DEF a
    <2>2. ~IsStarting(a) /\ ~IsLive(a)
      BY <1>2, <2>1 DEF IsStarting, IsLive
    <2>3. Consistent(a)
      BY <1>2, <2>1, <2>2 DEF Consistent, IsStarting, IsSpawning
    <2>4. IdleTimers(a)
      BY <1>2, <2>1, <2>2 DEF Good, IdleTimers, Idle, TimersOf
    <2>5. QED
      BY <1>2, <2>1, <2>2, <2>3, <2>4 DEF Good
  <1> HIDE DEF a
  <1>4. Same(b, a)
    BY <1>3, WithGrace, Values DEF Good
  <1> HIDE DEF b
  <1>5. Same(f, b)
    BY <1>4, SameGood, WithKills, Values
  <1> HIDE DEF f
  <1>6. Same(SetState(f, "Unsupervised"), f)
    BY <1>5, SameGood, SetStateSame DEF ProcessState
  <1>7. QED
    BY <1>0, <1>3, <1>4, <1>5, <1>6, SameGood, SameKeeps

\* The steps of a try leave the books alone until it begins an adoption.
LEMMA TrySame ==
    ASSUME NEW v \in World
    PROVE  /\ Same(NextTry(v), v) /\ Same(RetryAdoptionNow(v), v)
           /\ Same(ScheduleAdoptionRetry(v), v)
           /\ \A t \in Nat : \A asked \in BOOLEAN : Same(ProbeAdoption(v, t, asked), v)
           /\ \A e \in Event : Same(HandleAdoptionRetryDue(v, e), v)
  <1>1. \A x \in World : Same(NextTry(x), x)
    <2> TAKE x \in World
    <2> DEFINE a == [x EXCEPT !.retries = x.retries + 1]
               b == [a EXCEPT !.retry = x.retries + 1]
    <2>1. Same(a, x)
      BY WithRetries, Values
    <2>2. NextTry(x) = b
      BY DEF NextTry
    <2> HIDE DEF a
    <2>3. Same(b, a)
      BY <2>1, SameGood, WithRetry, Values
    <2>4. QED
      BY <2>1, <2>2, <2>3, SameGood
  <1>2. \A x \in World, t \in Nat, asked \in BOOLEAN : Same(ProbeAdoption(x, t, asked), x)
    <2> TAKE x \in World, t \in Nat, asked \in BOOLEAN
    <2> DEFINE e == Ev("ProbeJob", t, x.unsup, asked)
    <2>1. e \in Event /\ e.kind \notin Timed
      BY Values DEF Ev, Event, EventKind, Timed
    <2>2. ProbeAdoption(x, t, asked) = IF Retryable(x) THEN Post(x, e) ELSE x
      BY DEF ProbeAdoption
    <2> HIDE DEF e
    <2>3. QED
      BY <2>1, <2>2, PostSame, SameGood
  <1>3. NextTry(v) \in World /\ v.retries + 1 \in Nat
    BY <1>1, SameGood, Values
  <1>4. Same(RetryAdoptionNow(v), v)
    <2> DEFINE n == NextTry(v)
               p == ProbeAdoption(n, v.retries + 1, TRUE)
    <2>1. RetryAdoptionNow(v) = IF Retryable(v) THEN p ELSE v
      BY DEF RetryAdoptionNow
    <2>2. n \in World /\ Same(n, v)
      BY <1>1, <1>3
    <2> HIDE DEF n
    <2>3. Same(p, n)
      BY Zenon, <1>2, <1>3, <2>2
    <2> HIDE DEF p
    <2>4. QED
      BY <2>1, <2>2, <2>3, SameGood
  <1>5. Same(ScheduleAdoptionRetry(v), v)
    <2> DEFINE e == Ev("RetryDue", v.retries + 1, None, TRUE)
    <2>1. e \in Event /\ e.kind \notin Timed
      BY Values DEF Ev, Event, EventKind, Timed
    <2>2. ScheduleAdoptionRetry(v) = Post(NextTry(v), e)
      BY DEF ScheduleAdoptionRetry
    <2> HIDE DEF e
    <2>3. QED
      BY <1>1, <1>3, <2>1, <2>2, PostSame, SameGood
  <1>6. ASSUME NEW e \in Event PROVE Same(HandleAdoptionRetryDue(v, e), v)
    <2>1. e.gen \in Nat
      BY DEF Event
    <2>2. QED
      BY Zenon, <1>2, <2>1, SameGood DEF HandleAdoptionRetryDue
  <1>7. QED
    BY <1>1, <1>2, <1>4, <1>5, <1>6

\* A blank carried entry is one.
LEMMA BlankCarried == NoCarried \in Carried
  BY ZenonT(60) DEF NoCarried, Carried, ExitIntent, Membership, ProcessState, ChildOrNone

\* A try begins an adoption only of a child left running, so nothing is live.
LEMMA RetryAdoptionGood ==
    ASSUME NEW v, NEW K, Good(v, K), IsUnsupervised(v), NEW c \in ChildOrNone
    PROVE  Good(BeginRetryAdoption(v, c), K)
  <1> DEFINE b == BumpGeneration(v)
             l == NewLaunch("Adopt", b.gen, "Unsupervised", NoCarried)
             e == Ev("AdoptJob", b.gen, c, TRUE)
             a == [b EXCEPT !.launch = l]
  <1>0. BeginRetryAdoption(v, c) = Post(a, e)
    BY Zenon DEF BeginRetryAdoption
  <1>1. Good(b, K) /\ Untimed(b) /\ ~IsLive(b) /\ b.gen \in Nat
    BY ZenonT(60), BumpGood, Values DEF Good, Consistent, IsLive
  <1> HIDE DEF b
  <1>2. l \in Launch /\ l.gen = b.gen /\ l.purpose = "Adopt"
    BY <1>1, NewLaunchType, BlankCarried DEF ProcessState
  <1>3. e \in Event /\ e.kind \notin Timed
    BY <1>1 DEF Ev, Event, EventKind, Timed
  <1> HIDE DEF l, e
  <1>4. Good(a, K)
    BY <1>1, <1>2, BeginGood
  <1> HIDE DEF a
  <1>5. QED
    BY <1>0, <1>3, <1>4, PostSame, SameGood DEF Good

\* A probe's answer keeps the books in order.
LEMMA ProbedGood ==
    ASSUME NEW v, NEW K, Good(v, K), NEW e \in Event
    PROVE  Good(HandleAdoptionProbed(v, e), K)
  <1>1. Retryable(v) => IsUnsupervised(v) /\ v.unsup \in ChildOrNone
    BY Values DEF Retryable, RunsUnsupervised, Good
  <1>2. Retryable(v) /\ e.id = v.unsup => Good(BeginRetryAdoption(v, e.id), K)
    BY Zenon, <1>1, RetryAdoptionGood
  <1>3. Good(ScheduleAdoptionRetry(v), K)
    BY Zenon, TrySame, SameGood DEF Good
  <1>4. QED
    BY ZenonT(60), <1>2, <1>3 DEF HandleAdoptionProbed

\* A stop takes the launch of a try away (supersede_retry_adoption).
LEMMA SupersedeGood ==
    ASSUME NEW v, NEW K, Good(v, K)
    PROVE  Good(SupersedeRetryAdoption(v), K)
  <1> DEFINE a == [v EXCEPT !.stoppedAdoption = v.launch.gen]
             b == [a EXCEPT !.launch = NoLaunch]
             u == [b EXCEPT !.gen = b.gen + 1]
  <1>0. v.launch.gen \in Nat
    BY Values DEF Good, Launch
  <1>1. Same(a, v)
    BY <1>0, WithStoppedAdoption DEF Good
  <1>2. SupersedeRetryAdoption(v) = IF IsUnsupervised(v) /\ IsStarting(v) THEN u ELSE v
    BY DEF SupersedeRetryAdoption, AdvanceGeneration
  <1> HIDE DEF a
  <1>3. Good(b, K) /\ ~IsStarting(b)
    BY <1>1, DropLaunch, SameGood
  <1> HIDE DEF b
  <1>4. b \in World /\ b.gen \in Nat /\ b.gen + 1 \in Nat
    BY <1>3, Values DEF Good
  <1>5. /\ u \in World /\ u.gen = b.gen + 1 /\ u.handle = b.handle /\ u.unsup = b.unsup
        /\ u.launch = b.launch /\ u.has = b.has /\ u.events = b.events
    BY Zenon, <1>4, WithGen
  <1> HIDE DEF u
  <1>6. \A e \in TimersOf(b) : e.gen \in Nat /\ e.gen <= b.gen
    BY Zenon, <1>3, <1>4, TimerFields DEF Good, IdleTimers
  <1>7. Good(u, K)
    <2>1. Consistent(u)
      BY Zenon, <1>3, <1>5 DEF Good, Consistent, IsLive, IsStarting, IsUnsupervised, IsSpawning
    <2>2. IdleTimers(u)
      BY <1>4, <1>5, <1>6 DEF IdleTimers, TimersOf
    <2>3. QED
      BY Zenon, <1>3, <1>5, <2>1, <2>2 DEF Good
  <1>8. QED
    BY <1>2, <1>7

\* Collecting once the child stopped leaves the books alone.
LEMMA CollectOnceSame ==
    ASSUME NEW v \in World, NEW c
    PROVE  Same(CollectOnceStopped(v, c), v)
  <1>1. v.unsup = c => Same([v EXCEPT !.collectAfter = c], v)
    BY WithCollectAfter, Values
  <1>2. QED
    BY <1>1, CollectSame DEF CollectOnceStopped

-----------------------------------------------------------------------------
(* Launching. *)

\* A process's own state, where the workspace knows it.
LEMMA KnownState == \A v \in World : Known(v) => v.state \in ProcessState
  BY DEF World, Known

\* A launch replaces nothing: it begins where no process is live or left
\* running, in a generation no timer is of (Supervisor::spawn_with).
LEMMA SpawnGood ==
    ASSUME NEW v, NEW K, Good(v, K), ~IsLive(v), NEW io
    PROVE  Good(SpawnWith(v, io), K)
  <1> DEFINE free == IF IsUnsupervised(v) THEN SettleUnsupervisedExit(v) ELSE v
             b == BumpGeneration(free)
             l == NewLaunch("Spawn", b.gen, free.state, NoCarried)
             e == Ev("SpawnJob", b.gen, None, TRUE)
             a == [b EXCEPT !.launch = l]
             s == [a EXCEPT !.state = "Starting"]
  <1>0. SpawnWith(v, io) =
           IF IsStarting(v) THEN v
           ELSE IF RunsUnsupervised(v) THEN RetryAdoptionNow(v)
           ELSE IF ~Known(free) \/ free.problem THEN free
           ELSE IF io.blocked THEN SetState(free, "Blocked")
           ELSE Post(s, e)
    BY DEF SpawnWith
  <1>1. Good(RetryAdoptionNow(v), K)
    BY Zenon, TrySame, SameGood DEF Good
  <1>2. Good(free, K) /\ ~IsLive(free) /\ ~IsUnsupervised(free)
    BY SettleExitGood
  <1> HIDE DEF free
  <1>3. Good(SetState(free, "Blocked"), K)
    BY ZenonT(60), <1>2, SetStateSame, SameGood DEF Good, ProcessState
  <1>4. ASSUME Known(free) PROVE Good(Post(s, e), K)
    <2>1. Good(b, K) /\ Untimed(b) /\ ~IsLive(b) /\ ~IsUnsupervised(b) /\ b.gen \in Nat
      BY ZenonT(60), <1>2, BumpGood, Values DEF Good, IsLive, IsUnsupervised
    <2> HIDE DEF b
    <2>2. l \in Launch /\ l.gen = b.gen /\ l.purpose = "Spawn"
      BY <1>2, <1>4, <2>1, NewLaunchType, BlankCarried, KnownState DEF Good
    <2>3. e \in Event /\ e.kind \notin Timed
      BY <2>1, Values DEF Ev, Event, EventKind, Timed
    <2> HIDE DEF l, e
    <2>4. Good(a, K)
      BY SMTT(40), <2>1, <2>2, BeginGood
    <2> HIDE DEF a
    <2>5. Same(s, a)
      BY Zenon, <2>4, WithState DEF Good, ProcessState
    <2> HIDE DEF s
    <2>6. QED
      BY <2>3, <2>4, <2>5, PostSame, SameGood DEF Good
  <1> HIDE DEF s, e
  <1>5. QED
    BY <1>0, <1>1, <1>2, <1>3, <1>4

\* A restart timer is armed with the generation it advances to, where nothing
\* is live (Supervisor::schedule_restart).
LEMMA ScheduleGood ==
    ASSUME NEW v, NEW K, Good(v, K), ~IsLive(v)
    PROVE  Good(ScheduleRestart(v), K) /\ ~IsLive(ScheduleRestart(v))
  <1> DEFINE b == BumpGeneration(v)
             e == Ev("Respawn", v.gen + 1, None, TRUE)
             u == [b EXCEPT !.events = b.events \cup {e}]
  <1>1. /\ Good(b, K) /\ Untimed(b) /\ ~IsStarting(b) /\ b.gen = v.gen + 1 /\ b.gen \in Nat
        /\ ~IsLive(b)
    BY ZenonT(60), BumpGood, Values DEF Good, IsLive
  <1>2. e \in Event /\ e.gen = b.gen /\ e.kind = "Respawn"
    BY <1>1, Values DEF Ev, Event, EventKind
  <1>3. ScheduleRestart(v) = u
    BY ZenonT(60) DEF ScheduleRestart, Post
  <1> HIDE DEF b, e
  <1>4. b.events \cup {e} \in SUBSET Event
    BY <1>1, <1>2, Values DEF Good
  <1>5. /\ u \in World /\ u.gen = b.gen /\ u.handle = b.handle /\ u.unsup = b.unsup
        /\ u.launch = b.launch /\ u.detaching = b.detaching /\ u.events = b.events \cup {e}
        /\ u.has = b.has
    BY <1>1, <1>4, WithEvents DEF Good
  <1> HIDE DEF u
  <1>6. ~IsLive(u) /\ ~IsStarting(u) /\ Consistent(u)
    BY ZenonT(60), <1>1, <1>5 DEF Good, Consistent, IsLive, IsStarting, IsUnsupervised, IsSpawning
  <1>7. IdleTimers(u)
    <2>1. \A x \in TimersOf(u) : x = e \/ x \in TimersOf(b)
      BY Zenon, <1>5 DEF TimersOf
    <2>2. \A x \in TimersOf(b) : x.gen \in Nat /\ x.gen < b.gen
      BY <1>1, TimerFields DEF Good, Untimed
    <2>3. Idle(u, e) /\ e.gen <= b.gen
      BY <1>1, <1>2, <1>6 DEF Idle
    <2>4. QED
      BY <1>1, <1>5, <2>1, <2>2, <2>3 DEF IdleTimers
  <1>8. QED
    BY Zenon, <1>1, <1>3, <1>5, <1>6, <1>7 DEF Good

\* Asking for a start, an up or a timed restart keeps the books in order.
LEMMA StartGood ==
    ASSUME NEW v, NEW K, Good(v, K), NEW io
    PROVE  Good(StartPane(v, io), K) /\ Good(UpPane(v, io), K)
  BY SpawnGood DEF StartPane, UpPane

-----------------------------------------------------------------------------
(* Stopping, killing, restarting, pausing. *)

\* A stop with nothing to stop leaves nothing live.
LEMMA SettleStoppedGood ==
    ASSUME NEW v, NEW K, Good(v, K)
    PROVE  Good(SettleStopped(v), K)
  <1> DEFINE b == BumpGeneration(v)
             d == Deactivate(b)
  <1>1. Good(b, K)
    BY BumpGood
  <1> HIDE DEF b
  <1>2. Good(d, K)
    BY <1>1, DeactivateGood
  <1> HIDE DEF d
  <1>3. Good(SetState(d, "Exited"), K)
    BY Zenon, <1>2, SetStateSame, SameGood DEF Good, ProcessState
  <1>4. QED
    BY <1>3 DEF SettleStopped, b, d

\* Arming a deadline leaves the rest of the books alone.
LEMMA ScheduleForceStopRearms == \A v \in World : Rearms(ScheduleForceStop(v), v)
  BY Zenon, ArmRearms DEF ScheduleForceStop

\* So do advancing the shutdown generation and noting what an exit means.
LEMMA AskedRearms ==
    ASSUME NEW v \in World, NEW i \in ExitIntent
    PROVE  /\ Rearms([v EXCEPT !.shut = @ + 1], v)
           /\ Rearms([v EXCEPT !.shut = @ + 1, !.intent = i], v)
  <1> DEFINE a == [v EXCEPT !.shut = v.shut + 1]
             b == [a EXCEPT !.intent = i]
  <1>1. Rearms(a, v)
    BY Zenon, ArmRearms
  <1> HIDE DEF a
  <1>2. a \in World /\ Rearms(b, a)
    BY <1>1, WithIntent, RearmsGood
  <1> HIDE DEF b
  <1>3. QED
    BY <1>1, <1>2, RearmsGood DEF a, b

\* What a request makes the next exit mean.
LEMMA Intents ==
    /\ \A d \in BOOLEAN : StopRequested(d) \in ExitIntent /\ RestartRequested(d) \in ExitIntent
    /\ \A i \in ExitIntent : ForceStopDeliveryFailed(i) \in ExitIntent
  BY DEF StopRequested, RestartRequested, ForceStopDeliveryFailed, ExitIntent

\* A graceful stop or restart of the live process leaves the books alone until
\* it exits, but for the deadline it arms.
LEMMA GracefulGood ==
    ASSUME NEW v, NEW K, Good(v, K), IsLive(v), NEW restart, NEW io
    PROVE  Good(RequestGracefulTransition(v, restart, io), K)
  <1> DEFINE delivered == io.signal # "failed"
             i == IF restart THEN RestartRequested(delivered) ELSE StopRequested(delivered)
             asked == [v EXCEPT !.shut = @ + 1, !.intent = i]
             shown == IF delivered THEN SetState(asked, "Stopping") ELSE asked
  <1>0. v \in World /\ v.has /\ ~IsStarting(v)
    BY DEF Good, Consistent
  <1>1. i \in ExitIntent
    BY Zenon, Intents
  <1>2. RequestGracefulTransition(v, restart, io) =
           IF ~Known(v) THEN v
           ELSE IF io.signal = "delivered" THEN ScheduleForceStop(shown)
           ELSE IF delivered THEN SendKill(shown, v.handle)
           ELSE shown
    BY DEF RequestGracefulTransition
  <1> HIDE DEF i
  <1>3. Rearms(asked, v) /\ asked \in World
    BY Zenon, <1>0, <1>1, AskedRearms, RearmsGood
  <1> HIDE DEF asked
  <1>4. Same(shown, asked) /\ shown \in World
    BY Zenon, <1>3, SetStateSame, SameGood DEF ProcessState
  <1> HIDE DEF shown
  <1>5. Good(asked, K) /\ asked.has /\ ~IsStarting(asked)
    BY Zenon, <1>0, <1>3, RearmsGood DEF Rearms, IsStarting
  <1>6. Good(shown, K) /\ shown.has /\ ~IsStarting(shown)
    BY Zenon, <1>4, <1>5, SameGood, SameKeeps
  <1>7. Good(ScheduleForceStop(shown), K)
    BY Zenon, <1>4, <1>6, ScheduleForceStopRearms, RearmsGood
  <1>8. Good(SendKill(shown, v.handle), K)
    BY <1>4, <1>6, SendKillSame, SameGood
  <1>9. QED
    BY Zenon, <1>2, <1>6, <1>7, <1>8

\* What is asked of a launch in flight leaves its purpose and generation alone.
LEMMA LaunchNoteSame ==
    ASSUME NEW v \in World
    PROVE  /\ \A x \in {"none", "Stop", "Kill", "Restart"} :
                 Same([v EXCEPT !.launch.intent = x], v)
           /\ \A x \in {"none", "pause", "resume"} : Same([v EXCEPT !.launch.suspend = x], v)
           /\ \A x \in Membership \cup {"none"} : Same([v EXCEPT !.launch.member = x], v)
           /\ \A x \in {"none", "ExitedOk", "ExitedFailed", "Unreadable"} :
                 Same([v EXCEPT !.launch.early = x], v)
  <1>1. v.launch \in Launch
    BY Values
  <1>2. \A l \in Launch : l.purpose = v.launch.purpose /\ l.gen = v.launch.gen
           => Same([v EXCEPT !.launch = l], v)
    <2> TAKE l \in Launch
    <2> DEFINE u == [v EXCEPT !.launch = l]
    <2>1. /\ u \in World /\ u.launch = l /\ u.gen = v.gen /\ u.handle = v.handle
          /\ u.unsup = v.unsup /\ u.detaching = v.detaching /\ u.has = v.has
          /\ u.shut = v.shut /\ u.events = v.events
      BY WithLaunch
    <2> HIDE DEF u
    <2>2. TimersOf(u) = TimersOf(v)
      BY <2>1 DEF TimersOf
    <2>3. QED
      BY <2>1, <2>2 DEF Same, u
  <1>3. ASSUME NEW x \in {"none", "Stop", "Kill", "Restart"}
        PROVE  Same([v EXCEPT !.launch.intent = x], v)
    <2> DEFINE l == [v.launch EXCEPT !.intent = x]
    <2>1. l \in Launch /\ l.purpose = v.launch.purpose /\ l.gen = v.launch.gen
      BY <1>1 DEF Launch
    <2> HIDE DEF l
    <2>2. Same([v EXCEPT !.launch = l], v)
      BY <1>2, <2>1
    <2>3. QED
      BY <2>2 DEF l
  <1>4. ASSUME NEW x \in {"none", "pause", "resume"}
        PROVE  Same([v EXCEPT !.launch.suspend = x], v)
    <2> DEFINE l == [v.launch EXCEPT !.suspend = x]
    <2>1. l \in Launch /\ l.purpose = v.launch.purpose /\ l.gen = v.launch.gen
      BY <1>1 DEF Launch
    <2> HIDE DEF l
    <2>2. Same([v EXCEPT !.launch = l], v)
      BY <1>2, <2>1
    <2>3. QED
      BY <2>2 DEF l
  <1>5. ASSUME NEW x \in Membership \cup {"none"}
        PROVE  Same([v EXCEPT !.launch.member = x], v)
    <2> DEFINE l == [v.launch EXCEPT !.member = x]
    <2>1. l \in Launch /\ l.purpose = v.launch.purpose /\ l.gen = v.launch.gen
      BY <1>1 DEF Launch
    <2> HIDE DEF l
    <2>2. Same([v EXCEPT !.launch = l], v)
      BY <1>2, <2>1
    <2>3. QED
      BY <2>2 DEF l
  <1>6. ASSUME NEW x \in {"none", "ExitedOk", "ExitedFailed", "Unreadable"}
        PROVE  Same([v EXCEPT !.launch.early = x], v)
    <2> DEFINE l == [v.launch EXCEPT !.early = x]
    <2>1. l \in Launch /\ l.purpose = v.launch.purpose /\ l.gen = v.launch.gen
      BY <1>1 DEF Launch
    <2> HIDE DEF l
    <2>2. Same([v EXCEPT !.launch = l], v)
      BY <1>2, <2>1
    <2>3. QED
      BY <2>2 DEF l
  <1>7. QED
    BY Zenon, <1>3, <1>4, <1>5, <1>6

\* A stop keeps the books in order, whatever it finds (stop_pane, down).
LEMMA StopGood ==
    ASSUME NEW v, NEW K, Good(v, K), NEW io
    PROVE  Good(StopPane(v, io), K) /\ Good(DownPane(v, io), K)
  <1> DEFINE s == SupersedeRetryAdoption(v)
  <1>1. Good(s, K)
    BY SMTT(40), SupersedeGood
  <1> HIDE DEF s
  <1>2. Good([s EXCEPT !.launch.intent = "Stop"], K)
    BY Zenon, <1>1, LaunchNoteSame, SameGood DEF Good
  <1>3. /\ ~IsStarting(s) => Good(StopUnsupervised(s, FALSE, io), K)
        /\ Good(SettleStopped(s), K)
    <2>1. Good(SettleStopped(s), K)
      BY Zenon, <1>1, SettleStoppedGood
    <2>2. ~IsStarting(s) => Good(StopUnsupervised(s, FALSE, io), K)
      BY Zenon, <1>1, StopUnsupervisedGood
    <2>3. QED
      BY Zenon, <2>1, <2>2
  <1>4. IsLive(s) => Good(RequestGracefulTransition(s, FALSE, io), K)
    BY Zenon, <1>1, GracefulGood
  <1>5. Good(StopPane(v, io), K)
    BY Zenon, <1>1, <1>2, <1>3, <1>4 DEF StopPane, s
  <1>6. QED
    BY <1>5 DEF DownPane

\* So does a kill (force_kill_pane).
LEMMA KillGood ==
    ASSUME NEW v, NEW K, Good(v, K), NEW io
    PROVE  Good(ForceKillPane(v, io), K)
  <1> DEFINE s == SupersedeRetryAdoption(v)
             delivered == io.signal # "failed"
             i == StopRequested(delivered)
             asked == [s EXCEPT !.shut = @ + 1, !.intent = i]
  <1>0. ForceKillPane(v, io) =
          IF IsStarting(s) THEN [s EXCEPT !.launch.intent = "Kill"]
          ELSE IF IsUnsupervised(s) THEN StopUnsupervised(s, TRUE, io)
          ELSE IF ~IsLive(s) THEN SettleStopped(s)
          ELSE IF delivered THEN SetState(SendKill(asked, s.handle), "Stopping")
          ELSE asked
    BY DEF ForceKillPane
  <1>1. Good(s, K) /\ i \in ExitIntent
    BY Zenon, SupersedeGood, Intents
  <1> HIDE DEF s, i
  <1>2. Good([s EXCEPT !.launch.intent = "Kill"], K)
    BY Zenon, <1>1, LaunchNoteSame, SameGood DEF Good
  <1>3. /\ ~IsStarting(s) => Good(StopUnsupervised(s, TRUE, io), K)
        /\ Good(SettleStopped(s), K)
    <2>1. Good(SettleStopped(s), K)
      BY Zenon, <1>1, SettleStoppedGood
    <2>2. ~IsStarting(s) => Good(StopUnsupervised(s, TRUE, io), K)
      BY Zenon, <1>1, StopUnsupervisedGood
    <2>3. QED
      BY Zenon, <2>1, <2>2
  <1>4. Rearms(asked, s) /\ asked \in World
    BY Zenon, <1>1, AskedRearms, RearmsGood DEF Good
  <1> HIDE DEF asked
  <1>5. Same(SendKill(asked, s.handle), asked)
    BY Zenon, <1>4, SendKillSame
  <1>6. Same(SetState(SendKill(asked, s.handle), "Stopping"), SendKill(asked, s.handle))
    BY Zenon, <1>5, SetStateSame, SameGood DEF ProcessState
  <1>7. IsLive(s) => /\ Good(asked, K)
                     /\ Good(SetState(SendKill(asked, s.handle), "Stopping"), K)
    <2>1. SUFFICES ASSUME IsLive(s) PROVE Good(asked, K)
      BY Zenon, <1>5, <1>6, SameGood
    <2>2. s.has /\ ~IsStarting(s)
      BY <1>1, <2>1 DEF Good, Consistent
    <2>3. QED
      BY Zenon, <1>1, <1>4, <2>2, RearmsGood
  <1>8. QED
    BY Zenon, <1>0, <1>2, <1>3, <1>7

\* A restart launches only where nothing is live (restart_pane).
LEMMA RestartGood ==
    ASSUME NEW v, NEW K, Good(v, K), NEW io
    PROVE  Good(RestartPane(v, io), K)
  <1>1. Good([v EXCEPT !.launch.intent = "Restart"], K)
    BY Zenon, LaunchNoteSame, SameGood DEF Good
  <1>2. IsLive(v) => Good(RequestGracefulTransition(v, TRUE, io), K)
    BY Zenon, GracefulGood
  <1>3. ~IsLive(v) => Good(SpawnWith(v, io), K)
    BY SpawnGood
  <1>4. QED
    BY Zenon, <1>1, <1>2, <1>3 DEF RestartPane

\* Pausing and resuming leave the books alone.
LEMMA PauseSame ==
    ASSUME NEW v \in World, NEW io
    PROVE  Same(PausePane(v, io), v) /\ Same(ResumePane(v, io), v)
  <1>1. Same(SignalPause(v, "Paused", io), v) /\ Same(SignalPause(v, "Running", io), v)
    BY Zenon, SetStateSame, SameGood DEF SignalPause, ProcessState
  <1>2. /\ Same([v EXCEPT !.launch.suspend = "pause"], v)
        /\ Same([v EXCEPT !.launch.suspend = "resume"], v)
    BY ZenonT(60), LaunchNoteSame
  <1>3. QED
    BY <1>1, <1>2, SameGood DEF PausePane, ResumePane

\* A deadline, which finds no launch in flight in its generation, keeps the books
\* in order (handle_force_stop).
LEMMA ForceStopGood ==
    ASSUME NEW v, NEW K, Good(v, K), NEW e, e.gen = v.gen => ~IsStarting(v), NEW io
    PROVE  Good(HandleForceStop(v, e, io), K)
  <1> DEFINE due == [v EXCEPT !.shut = @ + 1]
             f == [due EXCEPT !.intent = ForceStopDeliveryFailed(due.intent)]
  <1>0. HandleForceStop(v, e, io) =
          IF v.gen # e.gen \/ ~v.has \/ v.shut # e.id \/ ~AwaitsForceStop(v.intent) THEN v
          ELSE IF IsUnsupervised(v) THEN EscalateUnsupervised(due, io)
          ELSE IF ~IsLive(v) THEN due
          ELSE IF io.signal # "failed" THEN SetState(SendKill(due, v.handle), "Stopping")
          ELSE f
    BY SMTT(40) DEF HandleForceStop
  <1>2. Rearms(due, v) /\ due \in World
    BY Zenon, AskedRearms, RearmsGood DEF Good, ExitIntent
  <1> HIDE DEF due, f
  <1>1. SUFFICES ASSUME ~IsStarting(v), v.has PROVE Good(HandleForceStop(v, e, io), K)
    BY Zenon, <1>0
  <1>3. Good(due, K) /\ ~IsStarting(due)
    <2>1. Good(due, K)
      BY Zenon, <1>1, <1>2, RearmsGood
    <2>2. QED
      BY <1>1, <1>2, <2>1 DEF Rearms, IsStarting
  <1>4. Good(f, K)
    <2>1. ForceStopDeliveryFailed(due.intent) \in ExitIntent
      BY <1>2, Intents, Values
    <2>2. Same(f, due)
      BY Zenon, <1>2, <2>1, WithIntent DEF f
    <2>3. QED
      BY ZenonT(60), <1>3, <2>2, SameGood
  <1>5. Same(SendKill(due, v.handle), due)
    BY Zenon, <1>2, SendKillSame
  <1>6. Good(SetState(SendKill(due, v.handle), "Stopping"), K)
    BY <1>3, <1>5, SetStateSame, SameGood DEF ProcessState
  <1>7. Good(EscalateUnsupervised(due, io), K)
    BY <1>3, EscalateGood
  <1>8. QED
    BY <1>0, <1>3, <1>4, <1>6, <1>7

-----------------------------------------------------------------------------
(* Exits and broken streams. *)

\* An exit of a process no longer live keeps the books in order: it retires,
\* settles, relaunches or schedules (apply_exit).
LEMMA ApplyExitGood ==
    ASSUME NEW v, NEW K, Good(v, K), NEW succeeded \in BOOLEAN, NEW io
    PROVE  Good(ApplyExit(v, succeeded, io), K)
  <1> DEFINE decision == AfterExit(v.intent, v.member = "RetireOnExit",
                              Known(v) /\ ShouldRestart(PolicyOf(v), succeeded), succeeded)
             shown == SetState(v, "Restarting")
             restarting == Deactivate(shown)
             quiet == Deactivate(v)
  <1>0. ApplyExit(v, succeeded, io) =
          IF ~v.has THEN v
          ELSE IF decision = "Retire" THEN RetirePane(v)
          ELSE IF decision = "Stop" THEN SetState(quiet, "Exited")
          ELSE IF decision = "RestartNow" THEN SpawnWith(restarting, io)
          ELSE IF decision = "RestartLater" THEN ScheduleRestart(restarting)
          ELSE SetState(quiet, decision)
    BY DEF ApplyExit
  <1>1. decision \in {"Retire", "Stop", "RestartNow", "RestartLater", "Exited", "Crashed"}
    BY DEF AfterExit
  <1> HIDE DEF decision
  <1>2. Good(shown, K)
    BY Zenon, SetStateSame, SameGood DEF Good, ProcessState
  <1> HIDE DEF shown
  <1>3. Good(restarting, K) /\ ~IsLive(restarting) /\ Good(quiet, K)
    BY <1>2, DeactivateGood
  <1> HIDE DEF restarting, quiet
  <1>4. Good(RetirePane(v), K)
    BY RetireGood
  <1>5. Good(SpawnWith(restarting, io), K) /\ Good(ScheduleRestart(restarting), K)
    BY <1>3, SpawnGood, ScheduleGood
  <1>6. \A s \in {"Exited", "Crashed"} : Good(SetState(quiet, s), K)
    BY Zenon, <1>3, SetStateSame, SameGood DEF Good, ProcessState
  <1>7. QED
    BY ZenonT(60), <1>0, <1>1, <1>4, <1>5, <1>6

\* An exit keeps the books in order, held or acknowledged (handle_exit).
LEMMA HandleExitGood ==
    ASSUME NEW v, NEW K, Good(v, K), NEW succeeded \in BOOLEAN, NEW io
    PROVE  Good(HandleExit(v, succeeded, io), K)
  <1> DEFINE a == Drop(v, v.handle)
             b == [a EXCEPT !.handle = None]
             applied == ApplyExit(b, succeeded, io)
             m == Collect(applied, applied.held)
             h == [m EXCEPT !.held = v.handle]
  <1>0. HandleExit(v, succeeded, io) =
          IF ~IsLive(v) THEN applied
          ELSE IF AwaitsRespawn(applied) THEN h
          ELSE Collect(applied, v.handle)
    BY DEF HandleExit
  <1>1. Good(a, K)
    BY DropSame, SameGood DEF Good
  <1> HIDE DEF a
  <1>2. Good(b, K)
    BY <1>1, DropHandle
  <1> HIDE DEF b
  <1>3. Good(applied, K)
    BY Zenon, <1>2, ApplyExitGood
  <1> HIDE DEF applied
  <1>4. Good(Collect(applied, v.handle), K) /\ Good(m, K)
    BY <1>3, CollectSame, SameGood DEF Good
  <1> HIDE DEF m
  <1>5. Good(h, K)
    BY ZenonT(60), <1>4, WithHeld, Values, SameGood DEF Good
  <1>6. QED
    BY <1>0, <1>3, <1>4, <1>5

\* A broken stream gives up the handle before it begins an adoption
\* (reconnect).
LEMMA ReconnectGood ==
    ASSUME NEW v, NEW K, Good(v, K)
    PROVE  Good(Reconnect(v), K)
  <1> DEFINE c == v.handle
             carried == [intent |-> v.intent, member |-> v.member, state |-> v.state,
                         child |-> c]
             a == Drop(v, c)
             h == [a EXCEPT !.handle = None]
             b == BumpGeneration(h)
             l == NewLaunch("Adopt", b.gen, v.state, carried)
             e == Ev("LocateJob", b.gen, c, TRUE)
             f == [b EXCEPT !.launch = l]
             s == [f EXCEPT !.state = "Starting"]
  <1>0. Reconnect(v) = IF ~IsLive(v) \/ ~Known(v) THEN v ELSE Post(s, e)
    BY DEF Reconnect
  <1>1. SUFFICES ASSUME Known(v) PROVE Good(Post(s, e), K)
    BY Zenon, <1>0
  <1>2. v.state \in ProcessState /\ c \in ChildOrNone
    BY Zenon, <1>1, KnownState, Values DEF Good
  <1>3. carried \in Carried
    BY ZenonT(60), <1>2, Values DEF Good, Carried
  <1> HIDE DEF carried
  <1>4. Good(a, K)
    BY DropSame, SameGood DEF Good
  <1> HIDE DEF a
  <1>5. Good(h, K) /\ ~IsLive(h)
    BY <1>4, DropHandle
  <1> HIDE DEF h
  <1>6. Good(b, K) /\ ~IsLive(b) /\ Untimed(b) /\ b.gen \in Nat
    BY Zenon, <1>5, BumpGood, Values DEF Good, IsLive
  <1> HIDE DEF b
  <1>7. l \in Launch /\ l.gen = b.gen /\ l.purpose = "Adopt"
    BY <1>2, <1>3, <1>6, NewLaunchType
  <1>8. e \in Event /\ e.kind \notin Timed
    BY <1>2, <1>6 DEF Ev, Event, EventKind, Timed
  <1> HIDE DEF l, e
  <1>9. Good(f, K)
    BY <1>6, <1>7, BeginGood
  <1> HIDE DEF f
  <1>10. Good(s, K)
    BY Zenon, <1>9, WithState, SameGood DEF Good, ProcessState
  <1> HIDE DEF s
  <1>11. QED
    BY <1>8, <1>10, PostSame, SameGood DEF Good

\* The outputs of a stream that matter to the books.
Outputs == {"none", "ExitedOk", "ExitedFailed", "Unreadable"}

\* Output of any generation keeps the books in order (handle_output).
LEMMA OutputGood ==
    ASSUME NEW v, NEW K, Good(v, K), NEW gen, NEW output \in Outputs, NEW io
    PROVE  Good(HandleOutput(v, gen, output, io), K)
  <1>1. Good([v EXCEPT !.launch.early = output], K)
    BY Zenon, LaunchNoteSame, SameGood DEF Good, Outputs
  <1>2. Good(HandleExit(v, TRUE, io), K) /\ Good(HandleExit(v, FALSE, io), K) /\ Good(Reconnect(v), K)
    BY Zenon, HandleExitGood, ReconnectGood
  <1>3. Good(Applied(v, output, io), K)
    BY Zenon, <1>2 DEF Applied, Outputs
  <1>4. QED
    BY <1>1, <1>3 DEF HandleOutput

-----------------------------------------------------------------------------
(* Settling a launch. *)

\* What was asked while the pane was starting keeps the books in order.
LEMMA PendingGood ==
    ASSUME NEW v, NEW K, Good(v, K), NEW launch \in Launch, NEW live, NEW io
    PROVE  Good(ApplyPending(v, launch, live, io), K)
  <1> DEFINE tracked == IF launch.member # "none" /\ v.has
                        THEN [v EXCEPT !.member = launch.member] ELSE v
             suspended == IF ~live THEN tracked
                          ELSE IF launch.suspend = "pause" THEN PausePane(tracked, io)
                          ELSE IF launch.suspend = "resume" THEN ResumePane(tracked, io)
                          ELSE tracked
  <1>0. ApplyPending(v, launch, live, io) =
          IF launch.member = "RetireOnExit" /\ ~HoldsProcess(tracked) THEN RetirePane(tracked)
          ELSE IF launch.intent = "Stop" THEN StopPane(suspended, io)
          ELSE IF launch.intent = "Kill" THEN ForceKillPane(suspended, io)
          ELSE IF launch.intent = "Restart" THEN RestartPane(suspended, io)
          ELSE suspended
    BY DEF ApplyPending
  <1>1. launch.member # "none" => launch.member \in Membership
    BY DEF Launch
  <1>2. Good(tracked, K)
    BY ZenonT(60), <1>1, WithMember, SameGood DEF Good
  <1> HIDE DEF tracked
  <1>3. Good(PausePane(tracked, io), K) /\ Good(ResumePane(tracked, io), K)
    BY <1>2, PauseSame, SameGood DEF Good
  <1>4. Good(suspended, K)
    BY Zenon, <1>2, <1>3
  <1> HIDE DEF suspended
  <1>5. /\ Good(StopPane(suspended, io), K) /\ Good(ForceKillPane(suspended, io), K)
        /\ Good(RestartPane(suspended, io), K) /\ Good(RetirePane(tracked), K)
    BY ZenonT(60), <1>2, <1>4, StopGood, KillGood, RestartGood, RetireGood
  <1>6. QED
    BY <1>0, <1>4, <1>5

\* A result that takes its launch finds no process live and no timer of its
\* generation; any other result at most forgets a launch.
LEMMA ForgetGood ==
    ASSUME NEW v, NEW K, Good(v, K), NEW gen
    PROVE  LET u == ForgetLaunch(v, gen)
           IN  /\ Good(u, K) /\ u.gen = v.gen /\ IsLive(u) = IsLive(v)
               /\ TakesLaunch(v, gen) => ~IsStarting(u) /\ ~IsLive(u) /\ Untimed(u)
  <1> DEFINE u == [v EXCEPT !.launch = NoLaunch]
  <1>1. /\ Good(u, K) /\ ~IsStarting(u) /\ u.gen = v.gen /\ u.handle = v.handle
        /\ TimersOf(u) = TimersOf(v)
    BY DropLaunch DEF TimersOf
  <1>2. ForgetLaunch(v, gen) = IF v.launch.gen = gen THEN u ELSE v
    BY DEF ForgetLaunch
  <1> HIDE DEF u
  <1>3. v.gen \in Nat /\ \A e \in TimersOf(v) : e.gen \in Nat
    BY ZenonT(60), TimerFields DEF Good
  <1>4. IsStarting(v) => Untimed(v) /\ ~IsLive(v)
    BY <1>3 DEF Good, Consistent, IdleTimers, Idle, Untimed
  <1>5. QED
    BY <1>1, <1>2, <1>4 DEF TakesLaunch, IsLive, Untimed

\* A launch that failed leaves a timer or a crashed row.
LEMMA InstallFailedGood ==
    ASSUME NEW v, NEW K, Good(v, K)
    PROVE  Good(InstallFailed(v), K)
  <1> DEFINE d == Deactivate(v)
             r == SetState(d, "Restarting")
  <1>0. InstallFailed(v) = IF Known(v) /\ ShouldRestart(PolicyOf(v), FALSE)
                           THEN ScheduleRestart(r) ELSE SetState(d, "Crashed")
    BY DEF InstallFailed
  <1>1. Good(d, K) /\ ~IsLive(d)
    BY DeactivateGood
  <1> HIDE DEF d
  <1>2. Same(r, d) /\ Same(SetState(d, "Crashed"), d)
    BY Zenon, <1>1, SetStateSame DEF Good, ProcessState
  <1>3. Good(r, K) /\ ~IsLive(r) /\ Good(SetState(d, "Crashed"), K)
    BY Zenon, <1>1, <1>2, SameGood, SameKeeps
  <1> HIDE DEF r
  <1>4. QED
    BY Zenon, <1>0, <1>3, ScheduleGood

\* The result of a launch is installed where the launch was taken.
LEMMA InstallSpawnedGood ==
    ASSUME NEW v, NEW K, Good(v, K), ~IsStarting(v), Untimed(v), NEW c \in ChildOrNone,
           NEW gen, NEW early \in Outputs, NEW io
    PROVE  Good(InstallSpawned(v, gen, c, early, io), K)
  <1> DEFINE r == ReleaseHeldExit(v)
             p == InstallPane(r, c)
  <1>1. Same(r, v)
    BY ReleaseSame DEF Good
  <1>0. InstallSpawned(v, gen, c, early, io) =
           IF c = None THEN InstallFailed(v) ELSE HandleOutput(p, gen, early, io)
    BY DEF InstallSpawned
  <1> HIDE DEF r
  <1>2. Good(r, K) /\ ~IsStarting(r) /\ Untimed(r)
    BY Zenon, <1>1, SameGood, SameKeeps
  <1>3. Good(p, K)
    BY <1>2, InstallPaneGood
  <1> HIDE DEF p
  <1>4. QED
    BY <1>0, <1>3, OutputGood, InstallFailedGood

\* A launch's result keeps the books in order: installed, let go of or
\* abandoned (settle_spawn).
LEMMA SettleSpawnGood ==
    ASSUME NEW v, NEW K, Good(v, K), NEW e, e.id \in ChildOrNone, NEW io
    PROVE  Good(SettleSpawn(v, e, io), K)
  <1> DEFINE launch == v.launch
             taken == ForgetLaunch(v, e.gen)
             installed == InstallSpawned(taken, e.gen, e.id, launch.early, io)
             live == e.id # None /\ RunsLaunch(installed, e.gen)
             released == ReleaseHeldExit(taken)
  <1>0. SettleSpawn(v, e, io) =
          IF TakesLaunch(v, e.gen)
          THEN IF IsSpawning(v) THEN ApplyPending(installed, launch, live, io)
               ELSE Abandon(taken, e.id)
          ELSE IF Detaches(v, e.gen)
            THEN IF e.id # None THEN Drop(released, e.id) ELSE [taken EXCEPT !.held = None]
          ELSE Abandon(taken, e.id)
    BY DEF SettleSpawn
  <1>1. /\ Good(taken, K)
        /\ TakesLaunch(v, e.gen) => ~IsStarting(taken) /\ Untimed(taken)
    BY Zenon, ForgetGood
  <1> HIDE DEF taken
  <1>2. launch \in Launch /\ launch.early \in Outputs
    BY Values DEF Good, Launch, Outputs
  <1> HIDE DEF launch
  <1>3. TakesLaunch(v, e.gen) => Good(installed, K)
    BY <1>1, <1>2, InstallSpawnedGood
  <1> HIDE DEF installed
  <1>4. TakesLaunch(v, e.gen) => Good(ApplyPending(installed, launch, live, io), K)
    BY <1>2, <1>3, PendingGood
  <1>5. Good(Abandon(taken, e.id), K) /\ Good([taken EXCEPT !.held = None], K)
    BY <1>1, AbandonSame, WithHeld, Values, SameGood DEF Good
  <1>6. Same(released, taken)
    BY Zenon, <1>1, ReleaseSame DEF Good
  <1> HIDE DEF released
  <1>7. Good(Drop(released, e.id), K)
    BY <1>1, <1>6, DropSame, SameGood
  <1>8. QED
    BY <1>0, <1>4, <1>5, <1>7

\* So does a launch found blocked by a taken port (handle_launch_blocked).
LEMMA LaunchBlockedGood ==
    ASSUME NEW v, NEW K, Good(v, K), NEW e, NEW io
    PROVE  Good(HandleLaunchBlocked(v, e, io), K)
  <1> DEFINE taken == ForgetLaunch(v, e.gen)
  <1>1. Good(taken, K)
    BY Zenon, ForgetGood
  <1>2. v.launch \in Launch
    BY Values DEF Good
  <1>3. HandleLaunchBlocked(v, e, io) =
          IF TakesLaunch(v, e.gen)
          THEN ApplyPending(SetState(taken, "Blocked"), v.launch, FALSE, io) ELSE taken
    BY DEF HandleLaunchBlocked
  <1> HIDE DEF taken
  <1>4. Good(SetState(taken, "Blocked"), K)
    BY Zenon, <1>1, SetStateSame, SameGood DEF Good, ProcessState
  <1>5. QED
    BY Zenon, <1>1, <1>2, <1>3, <1>4, PendingGood

-----------------------------------------------------------------------------
(* Adoption. *)

\* A failure nothing waits for leaves the books alone.
LEMMA SupersededSame ==
    ASSUME NEW v \in World, NEW c
    PROVE  Same(ReportSupersededFailure(v, c), v)
  BY CollectSame, SameGood DEF ReportSupersededFailure

\* What the pane carries over keeps its type whatever was asked meanwhile.
LEMMA CarriedType ==
    ASSUME NEW l \in Launch
    PROVE  /\ WithMembership(l.carried, l.member) \in Carried
           /\ l.carried \in Carried /\ l.prior \in ProcessState /\ l.early \in Outputs
  BY DEF Launch, WithMembership, Carried, Outputs

\* A failed reconnect leaves the child running on the pane or applies its exit
\* (reconnect_failed).
LEMMA ReconnectFailedGood ==
    ASSUME NEW v, NEW K, Good(v, K), ~IsStarting(v), NEW carried \in Carried, NEW found, NEW tried, NEW io
    PROVE  Good(ReconnectFailed(v, carried, found, tried, io), K)
  <1> DEFINE c == carried.child
             left == LeaveUnsupervised(v, c)
             kept == IF found /\ tried THEN ScheduleAdoptionRetry(left) ELSE left
             collected == IF found THEN Collect(v, c) ELSE v
             a == [collected EXCEPT !.intent = carried.intent]
             b == [a EXCEPT !.member = carried.member]
             restored == IF v.has THEN b ELSE collected
  <1>0. ReconnectFailed(v, carried, found, tried, io) =
          IF CanLeaveUnsupervised(v, c)
          THEN ContinueStopUnsupervised(kept, carried.intent, io)
          ELSE ApplyExit(restored, FALSE, io)
    BY DEF ReconnectFailed
  <1>1. c \in ChildOrNone /\ carried.intent \in ExitIntent /\ carried.member \in Membership
    BY DEF Carried
  <1>2. Good(left, K) /\ ~IsStarting(left)
    BY <1>1, LeaveGood
  <1> HIDE DEF left, c
  <1>3. Good(ScheduleAdoptionRetry(left), K) /\ ~IsStarting(ScheduleAdoptionRetry(left))
    BY Zenon, <1>2, TrySame, SameGood, SameKeeps DEF Good
  <1>4. Good(kept, K) /\ ~IsStarting(kept)
    BY <1>2, <1>3
  <1> HIDE DEF kept
  <1>5. Good(ContinueStopUnsupervised(kept, carried.intent, io), K)
    BY Zenon, <1>4, StopUnsupervisedGood DEF ContinueStopUnsupervised
  <1>6. Good(collected, K)
    BY CollectSame, SameGood DEF Good
  <1> HIDE DEF collected
  <1>7. Good(a, K)
    BY Zenon, <1>1, <1>6, WithIntent, SameGood DEF Good
  <1> HIDE DEF a
  <1>8. Good(b, K)
    BY <1>1, <1>7, WithMember, SameGood DEF Good
  <1> HIDE DEF b
  <1>9. Good(ApplyExit(restored, FALSE, io), K)
    BY Zenon, <1>6, <1>8, ApplyExitGood
  <1> HIDE DEF restored
  <1>10. QED
    BY Zenon, <1>0, <1>5, <1>9

\* A search nothing waits for leaves a child on the pane only where the pane
\* holds none (settle_superseded_search).
LEMMA SupersededSearchGood ==
    ASSUME NEW v, NEW K, Good(v, K), NEW c \in ChildOrNone
    PROVE  Good(SettleSupersededSearch(v, c), K)
  <1>1. Good(Collect(v, c), K)
    BY CollectSame, SameGood DEF Good
  <1>2. ~HoldsProcess(v) => Good(LeaveUnsupervised(v, c), K)
    BY LeaveGood DEF HoldsProcess
  <1>3. ~HoldsProcess(v) => Good(ScheduleAdoptionRetry(LeaveUnsupervised(v, c)), K)
    BY ZenonT(60), <1>2, TrySame, SameGood DEF Good
  <1>4. QED
    BY ZenonT(60), <1>1, <1>3 DEF SettleSupersededSearch

\* What a search for the holder found keeps the books in order
\* (handle_reconnect_located).
LEMMA LocatedGood ==
    ASSUME NEW v, NEW K, Good(v, K), NEW e, e.id \in ChildOrNone, NEW io
    PROVE  Good(HandleReconnectLocated(v, e, io), K)
  <1> DEFINE launch == v.launch
             taken == ForgetLaunch(v, e.gen)
             prior == SetState(taken, launch.prior)
             carried == WithMembership(launch.carried, launch.member)
             failed == ReconnectFailed(prior, carried, FALSE, FALSE, io)
             job == Ev("AdoptJob", e.gen, e.id, TRUE)
  <1>0. HandleReconnectLocated(v, e, io) =
          IF ~TakesLaunch(v, e.gen) \/ v.detaching
          THEN IF e.id # None /\ ~v.detaching THEN SettleSupersededSearch(taken, e.id) ELSE taken
          ELSE IF launch.purpose # "Adopt" \/ launch.carried.child = None THEN taken
          ELSE IF e.id # None /\ Known(taken) /\ ~HoldsProcess(taken) THEN Post(v, job)
          ELSE ApplyPendingIfKnown(failed, launch, io)
    BY Zenon DEF HandleReconnectLocated
  <1>1. Good(taken, K) /\ (TakesLaunch(v, e.gen) => ~IsStarting(taken))
    BY ForgetGood
  <1>2. Good(SettleSupersededSearch(taken, e.id), K)
    BY ZenonT(60), <1>1, SupersededSearchGood
  <1>3. TakesLaunch(v, e.gen) => Good(Post(v, job), K)
    <2>1. SUFFICES ASSUME TakesLaunch(v, e.gen) PROVE Good(Post(v, job), K)
      BY Zenon
    <2>2. e.gen \in Nat
      BY <2>1, Values DEF Good, TakesLaunch
    <2>3. job \in Event /\ job.kind \notin Timed
      BY Zenon, <2>2 DEF Ev, Event, EventKind, Timed
    <2> HIDE DEF job
    <2>4. QED
      BY <2>3, PostSame, SameGood DEF Good
  <1>4. launch \in Launch
    BY Values DEF Good
  <1> HIDE DEF launch, taken, job
  <1>5. carried \in Carried /\ launch.prior \in ProcessState
    BY Zenon, <1>4, CarriedType
  <1> HIDE DEF carried
  <1>6. Same(prior, taken)
    BY <1>1, <1>5, SetStateSame DEF Good
  <1> HIDE DEF prior
  <1>7. TakesLaunch(v, e.gen) => Good(failed, K)
    BY Zenon, <1>1, <1>5, <1>6, ReconnectFailedGood, SameGood, SameKeeps
  <1> HIDE DEF failed
  <1>8. TakesLaunch(v, e.gen) => Good(ApplyPendingIfKnown(failed, launch, io), K)
    BY Zenon, <1>4, <1>7, PendingGood DEF ApplyPendingIfKnown
  <1>9. QED
    BY Zenon, <1>0, <1>1, <1>2, <1>3, <1>8

\* A failed adoption leaves the child on the pane or settles it
\* (adoption_failed).
LEMMA AdoptionFailedGood ==
    ASSUME NEW v, NEW K, Good(v, K), ~IsStarting(v), NEW launch \in Launch, NEW c \in ChildOrNone, NEW io
    PROVE  Good(AdoptionFailed(v, launch, c, io), K)
  <1> DEFINE prior == SetState(v, launch.prior)
             carried == WithMembership(launch.carried, launch.member)
             left == LeaveUnsupervised(prior, c)
             settled == IF CanLeaveUnsupervised(prior, c) THEN ScheduleAdoptionRetry(left)
                        ELSE Collect(prior, c)
             failed == ReconnectFailed(prior, carried, TRUE, TRUE, io)
  <1>0. AdoptionFailed(v, launch, c, io) =
          IF launch.carried.child # None THEN ApplyPendingIfKnown(failed, launch, io)
          ELSE ApplyPending(settled, launch, FALSE, io)
    BY DEF AdoptionFailed
  <1>1. carried \in Carried /\ launch.prior \in ProcessState
    BY Zenon, CarriedType
  <1> HIDE DEF carried
  <1>2. Good(prior, K) /\ ~IsStarting(prior)
    BY ZenonT(60), <1>1, SetStateSame, SameGood, SameKeeps DEF Good
  <1> HIDE DEF prior
  <1>3. Good(left, K)
    BY <1>2, LeaveGood
  <1> HIDE DEF left
  <1>4. Good(settled, K)
    <2>1. Good(ScheduleAdoptionRetry(left), K)
      <3>1. left \in World
        BY <1>3, GoodKeeps
      <3>2. Same(ScheduleAdoptionRetry(left), left)
        BY ZenonT(60), <3>1, TrySame
      <3>3. QED
        BY Zenon, <1>3, <3>2, SameGood
    <2>2. Good(Collect(prior, c), K)
      BY <1>2, CollectSame, SameGood DEF Good
    <2>3. QED
      BY Zenon, <2>1, <2>2
  <1> HIDE DEF settled
  <1>5. Good(failed, K)
    BY Zenon, <1>1, <1>2, ReconnectFailedGood
  <1> HIDE DEF failed
  <1>6. QED
    BY Zenon, <1>0, <1>4, <1>5, PendingGood DEF ApplyPendingIfKnown

\* What the pane carried over a reconnect leaves the books alone, but for the
\* deadline of a stop carried over.
LEMMA RestoreGood ==
    ASSUME NEW v, NEW K, Good(v, K), ~IsStarting(v), Known(v) => v.has, NEW carried \in Carried
    PROVE  Good(RestoreCarried(v, carried), K)
  <1> DEFINE a == [v EXCEPT !.intent = carried.intent]
             b == [a EXCEPT !.member = carried.member]
             back == [b EXCEPT !.state = carried.state]
             rearmed == [back EXCEPT !.shut = @ + 1]
  <1>0. RestoreCarried(v, carried) =
          IF carried.child = None \/ ~Known(v) THEN v
          ELSE IF AwaitsForceStop(carried.intent) THEN ScheduleForceStop(rearmed) ELSE back
    BY DEF RestoreCarried, RearmForceStop
  <1>1. /\ carried.intent \in ExitIntent /\ carried.member \in Membership
        /\ carried.state \in ProcessState \cup {"Absent"} /\ v \in World
    BY DEF Carried, Good
  <1>2. Same(a, v)
    BY <1>1, WithIntent
  <1> HIDE DEF a
  <1>3. Same(b, a)
    BY <1>1, <1>2, WithMember, SameGood
  <1> HIDE DEF b
  <1>4. Same(back, b)
    BY Zenon, <1>1, <1>3, WithState, SameGood
  <1> HIDE DEF back
  <1>5. Same(back, v)
    BY <1>2, <1>3, <1>4, SameGood
  <1>6. SUFFICES ASSUME v.has PROVE Good(RestoreCarried(v, carried), K)
    BY Zenon, <1>0
  <1>7. Good(back, K) /\ back \in World /\ back.has /\ ~IsStarting(back)
    BY SMTT(40), <1>5, <1>6, SameGood, SameKeeps
  <1>8. Rearms(rearmed, back) /\ rearmed \in World
    BY Zenon, <1>7, AskedRearms, RearmsGood DEF ExitIntent
  <1> HIDE DEF rearmed
  <1>9. Rearms(ScheduleForceStop(rearmed), back)
    BY Zenon, <1>7, <1>8, ScheduleForceStopRearms, RearmsGood
  <1>10. Good(ScheduleForceStop(rearmed), K)
    BY Zenon, <1>7, <1>9, RearmsGood
  <1>11. QED
    BY <1>0, <1>7, <1>10

\* An adopted holder is installed where its launch was taken.
LEMMA InstallAdoptedGood ==
    ASSUME NEW v, NEW K, Good(v, K), ~IsStarting(v), Untimed(v), NEW launch \in Launch,
           NEW c \in ChildOrNone, NEW io
    PROVE  Good(InstallAdopted(v, launch, c, io), K)
  <1> DEFINE carried == WithMembership(launch.carried, launch.member)
             a == [v EXCEPT !.retry = 0]
             installed == InstallPane(a, c)
             restored == RestoreCarried(installed, carried)
             replayed == HandleOutput(restored, launch.gen, launch.early, io)
  <1>0. InstallAdopted(v, launch, c, io) =
          ApplyPending(replayed, launch, RunsLaunch(replayed, launch.gen), io)
    BY DEF InstallAdopted
  <1>1. carried \in Carried /\ launch.early \in Outputs
    BY CarriedType
  <1> HIDE DEF carried
  <1>2. Good(a, K) /\ ~IsStarting(a) /\ Untimed(a)
    BY SMTT(40), WithRetry, Values, SameGood, SameKeeps DEF Good
  <1> HIDE DEF a
  <1>3. Good(installed, K) /\ ~IsStarting(installed) /\ (Known(installed) => installed.has)
    BY <1>2, InstallPaneGood
  <1> HIDE DEF installed
  <1>4. Good(restored, K)
    BY Zenon, <1>1, <1>3, RestoreGood
  <1> HIDE DEF restored
  <1>5. Good(replayed, K)
    BY Zenon, <1>1, <1>4, OutputGood
  <1> HIDE DEF replayed
  <1>6. QED
    BY <1>0, <1>5, PendingGood

\* An adoption's result keeps the books in order (settle_adoption).
LEMMA SettleAdoptionGood ==
    ASSUME NEW v, NEW K, Good(v, K), NEW e, e.id \in ChildOrNone, NEW io
    PROVE  Good(SettleAdoption(v, e, io), K)
  <1> DEFINE taken == ForgetLaunch(v, e.gen)
             stopped == [v EXCEPT !.stoppedAdoption = 0]
             dropped == Drop(stopped, e.id)
  <1>0. SettleAdoption(v, e, io) =
          IF TakesLaunch(v, e.gen)
          THEN IF IsSpawning(v) THEN (IF e.ok THEN Abandon(taken, e.id) ELSE taken)
               ELSE IF e.ok THEN InstallAdopted(taken, v.launch, e.id, io)
               ELSE AdoptionFailed(taken, v.launch, e.id, io)
          ELSE IF v.stoppedAdoption = e.gen
            THEN IF e.ok THEN CollectOnceStopped(dropped, e.id)
                 ELSE ReportSupersededFailure(stopped, e.id)
          ELSE IF ~e.ok THEN ReportSupersededFailure(taken, e.id)
          ELSE IF Detaches(v, e.gen) THEN Drop(taken, e.id)
          ELSE Abandon(taken, e.id)
    BY DEF SettleAdoption
  <1>1. /\ Good(taken, K)
        /\ TakesLaunch(v, e.gen) => ~IsStarting(taken) /\ Untimed(taken)
    BY Zenon, ForgetGood
  <1>2. v.launch \in Launch
    BY Zenon, Values DEF Good
  <1> HIDE DEF taken
  <1>3. TakesLaunch(v, e.gen) => Good(InstallAdopted(taken, v.launch, e.id, io), K)
    BY <1>1, <1>2, InstallAdoptedGood
  <1>4. TakesLaunch(v, e.gen) => Good(AdoptionFailed(taken, v.launch, e.id, io), K)
    BY Zenon, <1>1, <1>2, AdoptionFailedGood
  <1>5. /\ Good(Abandon(taken, e.id), K) /\ Good(Drop(taken, e.id), K)
        /\ Good(ReportSupersededFailure(taken, e.id), K)
    BY Zenon, <1>1, AbandonSame, DropSame, SupersededSame, SameGood DEF Good
  <1>6. Good(stopped, K)
    BY Zenon, WithStoppedAdoption, Values, SameGood DEF Good
  <1> HIDE DEF stopped
  <1>7. Good(dropped, K) /\ Good(ReportSupersededFailure(stopped, e.id), K)
    BY ZenonT(60), <1>6, DropSame, SupersededSame, SameGood DEF Good
  <1> HIDE DEF dropped
  <1>8. Good(CollectOnceStopped(dropped, e.id), K)
    BY <1>7, CollectOnceSame, SameGood DEF Good
  <1>9. QED
    BY Zenon, <1>0, <1>1, <1>3, <1>4, <1>5, <1>7, <1>8

\* A row for a record the stack no longer has is a world's, and known.
LEMMA AdoptableSame ==
    ASSUME NEW v \in World
    PROVE  Same(AdoptablePane(v), v) /\ AdoptablePane(v).state \in ProcessState
  <1> DEFINE a == [v EXCEPT !.state = "Pending"]
             b == [a EXCEPT !.spec = "record"]
  <1>0. AdoptablePane(v) = IF Known(v) THEN v ELSE b
    BY SMTT(40) DEF AdoptablePane
  <1>1. a \in World /\ Same(a, v) /\ a.state = "Pending"
    <2>1. "Pending" \in ProcessState
      BY DEF ProcessState
    <2>2. Same(a, v)
      BY <2>1, WithState
    <2>3. a.state = "Pending"
      BY DEF World
    <2>4. QED
      BY <2>2, <2>3, SameGood
  <1> HIDE DEF a
  <1>2. Same(b, a) /\ b.state = "Pending"
    BY Zenon, <1>1, WithSpec DEF World
  <1>3. QED
    BY <1>0, <1>1, <1>2, SameGood, KnownState DEF ProcessState

\* Advancing the generation leaves the shown state alone.
LEMMA BumpState == \A v \in World : BumpGeneration(v).state = v.state
  BY ZenonT(60) DEF BumpGeneration, World

\* A service adopts a record only into a pane that holds nothing
\* (begin_adoption).
LEMMA BeginAdoptionGood ==
    ASSUME NEW v, NEW K, Good(v, K), NEW c \in ChildOrNone
    PROVE  Good(BeginAdoption(v, c), K)
  <1> DEFINE removed == ~Known(v)
             p == AdoptablePane(v)
             b == BumpGeneration(p)
             n == NewLaunch("Adopt", b.gen, b.state, NoCarried)
             l == [n EXCEPT !.member = IF removed THEN "RetireOnExit" ELSE "none",
                            !.intent = IF removed THEN "Stop" ELSE "none"]
             a == [b EXCEPT !.launch = l]
             s == [a EXCEPT !.state = "Starting"]
             e == Ev("AdoptJob", b.gen, c, TRUE)
  <1>0. BeginAdoption(v, c) = IF HoldsProcess(v) THEN ReportSupersededFailure(v, c)
                              ELSE Post(s, e)
    BY ZenonT(60) DEF BeginAdoption
  <1>1. Good(ReportSupersededFailure(v, c), K)
    BY SupersededSame, SameGood DEF Good
  <1>2. SUFFICES ASSUME ~HoldsProcess(v) PROVE Good(Post(s, e), K)
    BY Zenon, <1>0, <1>1
  <1>3. Good(p, K) /\ ~IsLive(p) /\ p.state \in ProcessState
    BY Zenon, <1>2, AdoptableSame, SameGood, SameKeeps DEF Good, HoldsProcess
  <1> HIDE DEF p
  <1>4. /\ Good(b, K) /\ ~IsLive(b) /\ Untimed(b) /\ b.gen \in Nat
        /\ b.state \in ProcessState
    BY ZenonT(60), <1>3, BumpGood, BumpState, Values DEF Good, IsLive
  <1> HIDE DEF b
  <1>5. n \in Launch /\ n.gen = b.gen /\ n.purpose = "Adopt"
    BY <1>4, NewLaunchType, BlankCarried
  <1> HIDE DEF n
  <1>6. l \in Launch /\ l.gen = b.gen /\ l.purpose = "Adopt"
    BY Zenon, <1>5 DEF Launch, Membership
  <1>7. e \in Event /\ e.kind \notin Timed
    BY Zenon, <1>4 DEF Ev, Event, EventKind, Timed
  <1> HIDE DEF l, e
  <1>8. Good(a, K)
    BY <1>4, <1>6, BeginGood
  <1> HIDE DEF a
  <1>9. Good(s, K)
    BY Zenon, <1>8, WithState, SameGood DEF Good, ProcessState
  <1> HIDE DEF s
  <1>10. QED
    BY <1>7, <1>9, PostSame, SameGood DEF Good

\* Bringing the row in line with the stack keeps the books in order
\* (apply_stack).
LEMMA ApplyStackGood ==
    ASSUME NEW v, NEW K, Good(v, K), NEW present, NEW io
    PROVE  Good(ApplyStack(v, present, io), K)
  <1> DEFINE member == IF present THEN "Tracked" ELSE "RetireOnExit"
             lm == IF IsStarting(v) THEN member ELSE v.launch.member
             a == [v EXCEPT !.launch.member = lm]
             mm == IF v.has THEN member ELSE a.member
             marked == [a EXCEPT !.member = mm]
             m1 == [marked EXCEPT !.spec = "stack"]
             m2 == [m1 EXCEPT !.problem = FALSE]
             n0 == [v EXCEPT !.state = "Pending"]
             n1 == [n0 EXCEPT !.spec = "stack"]
             n2 == [n1 EXCEPT !.problem = FALSE]
  <1>0. ApplyStack(v, present, io) =
          IF present /\ Known(v) THEN m2
          ELSE IF present THEN n2
          ELSE IF ~Known(v) THEN v
          ELSE IF HoldsProcess(v) THEN StopPane(marked, io)
          ELSE RetirePane(v)
    BY ZenonT(60) DEF ApplyStack
  <1>1. lm \in Membership \cup {"none"}
    BY Values DEF Good, Launch
  <1> HIDE DEF lm
  <1>2. Good(a, K)
    BY ZenonT(60), <1>1, LaunchNoteSame, SameGood DEF Good
  <1> HIDE DEF a
  <1>3. mm \in Membership
    BY <1>2, Values DEF Good
  <1> HIDE DEF mm
  <1>4. Good(marked, K)
    BY <1>2, <1>3, WithMember, SameGood DEF Good
  <1> HIDE DEF marked
  <1>5. Good(m1, K)
    BY Zenon, <1>4, WithSpec, SameGood DEF Good
  <1> HIDE DEF m1
  <1>6. Good(m2, K)
    BY Zenon, <1>5, WithProblem, SameGood DEF Good
  <1> HIDE DEF m2
  <1>7. Good(n0, K)
    BY Zenon, WithState, SameGood DEF Good, ProcessState
  <1> HIDE DEF n0
  <1>8. Good(n1, K)
    BY Zenon, <1>7, WithSpec, SameGood DEF Good
  <1> HIDE DEF n1
  <1>9. Good(n2, K)
    BY Zenon, <1>8, WithProblem, SameGood DEF Good
  <1> HIDE DEF n2
  <1>10. Good(StopPane(marked, io), K) /\ Good(RetirePane(v), K)
    BY <1>4, StopGood, RetireGood
  <1>11. QED
    BY <1>0, <1>6, <1>9, <1>10

-----------------------------------------------------------------------------
(* The supervisor: the service around the pane. *)

Budget == {u \in [Resource -> Nat] : Within(u)}

\* The stop deadlines in flight.
Armed == {e \in w.events : e.kind = "ForceStop"}

\* The books are in order, and the rest has its type.
Inv ==
    /\ Good(w, {}) /\ service \in {"serving", "detaching", "down"}
    /\ inStack \in BOOLEAN /\ want \in {"none", "up", "down", "passed", "forgotten"}
    /\ used \in Budget

\* Whatever is armed is in flight.
LEMMA InvGood ==
    Inv <=> /\ Good(w, Armed) /\ service \in {"serving", "detaching", "down"}
            /\ inStack \in BOOLEAN /\ want \in {"none", "up", "down", "passed", "forgotten"}
            /\ used \in Budget
  <1>1. Good(w, {}) <=> Good(w, Armed)
    BY DEF Good, Armed
  <1>2. QED
    BY <1>1 DEF Inv

\* A step keeps the invariant when it keeps the books in order, of a world that
\* still has the events K in flight.
LEMMA InvGoodNext ==
    ASSUME NEW K, Good(w', K), service' \in {"serving", "detaching", "down"},
           inStack' \in BOOLEAN, want' \in {"none", "up", "down", "passed", "forgotten"},
           used' \in Budget
    PROVE  Inv' /\ K \subseteq w'.events
  <1>1. Good(w', {}) /\ K \subseteq w'.events
    <2>1. {} \subseteq w'.events
      BY Zenon
    <2>2. QED
      BY Zenon, <2>1 DEF Good
  <1>2. Good(w, {})'
    BY Zenon, <1>1 DEF Good, Consistent, IdleTimers, Idle, TimersOf, IsStarting, IsLive, IsUnsupervised,
                IsSpawning
  <1>3. QED
    BY Zenon, <1>1, <1>2 DEF Inv, Budget

\* The books of a service just started are in order.
LEMMA FreshGood ==
    ASSUME NEW old, NEW state \in ProcessState \cup {"Absent"}, NEW problem \in BOOLEAN,
           old.proc \in [Child -> {"unborn", "running", "ok", "failed"}],
           old.holder \in [Child -> {"none", "fresh", "serving", "gone"}],
           old.killed \in SUBSET Child, old.collecting \in SUBSET Child
    PROVE  Good(Fresh(old, state, problem), {})
  <1> DEFINE u == Fresh(old, state, problem)
  <1>1. u \in World
    BY ZenonT(60), BlankLaunch, Values DEF Fresh, World
  <1>2. /\ u.launch = NoLaunch /\ u.handle = None /\ u.unsup = None /\ u.events = {}
    BY Zenon DEF Fresh
  <1> HIDE DEF u
  <1>3. Good(u, {})
    BY ZenonT(60), <1>1, <1>2, BlankLaunch DEF Good, Consistent, IdleTimers, TimersOf, IsStarting, IsLive,
                                   IsUnsupervised, IsSpawning
  <1>4. QED
    BY Zenon, <1>3 DEF u

\* The first state.
LEMMA InitInv == Init => Inv
  <1>1. SUFFICES ASSUME Init PROVE Inv
    OBVIOUS
  <1>2. Good(w, {})
    BY Zenon, <1>1, FreshGood DEF Init, Untouched, ProcessState
  <1>3. used \in Budget
    <2>1. PICK b \in Budgets : b \in [Resource -> Nat]
      BY BoundsAssumption
    <2>2. used \in [Resource -> Nat] /\ \A k \in Resource : used[k] <= b[k]
      BY <1>1, <2>1 DEF Init
    <2>3. QED
      BY <2>2 DEF Budget, Within
  <1>4. QED
    BY Zenon, <1>1, <1>2, <1>3 DEF Init, Inv

-----------------------------------------------------------------------------
(* The loop. *)

\* The tick keeps the books in order.
LEMMA TurnGood ==
    ASSUME NEW n, NEW K, Good(n, K), Turn(n)
    PROVE  Good(w', K) /\ w'.killed = n.killed
  <1>1. Good(w', K)
    BY Zenon, ReleaseSame, SameGood DEF Turn, Good
  <1>2. n \in World
    BY DEF Good
  <1>3. ReleaseSettledExits(n).killed = n.killed
    BY Zenon, <1>2 DEF ReleaseSettledExits, ReleaseHeldExit, Collect, World
  <1>4. QED
    BY <1>1, <1>3 DEF Turn

\* Taking an event from the queue keeps the books in order, and every deadline
\* but the one taken in flight.
LEMMA TakenGood ==
    ASSUME Good(w, Armed), NEW e \in w.events
    PROVE  /\ Good(Taken(e), Armed \ {e}) /\ (e.kind # "ForceStop" => Good(Taken(e), Armed))
           /\ Taken(e) \in World /\ e \in Event /\ Taken(e).gen = w.gen
           /\ Taken(e).handle = w.handle /\ Taken(e).launch = w.launch /\ Taken(e).shut = w.shut
           /\ Taken(e).killed = w.killed
  <1> DEFINE t == [w EXCEPT !.events = w.events \ {e}]
  <1>1. w.events \ {e} \in SUBSET Event /\ e \in Event /\ w \in World
    BY Values DEF Good
  <1>2. /\ t \in World /\ t.events = w.events \ {e} /\ t.gen = w.gen /\ t.handle = w.handle
        /\ t.unsup = w.unsup /\ t.launch = w.launch /\ t.detaching = w.detaching
        /\ t.has = w.has /\ t.shut = w.shut
    BY <1>1, WithEvents
  <1>3. t.killed = w.killed
    BY <1>1 DEF World
  <1>4. Taken(e) = t
    BY Zenon DEF Taken
  <1> HIDE DEF t
  <1>5. Consistent(t)
    BY Zenon, <1>2 DEF Good, Consistent, IsStarting, IsLive, IsUnsupervised, IsSpawning
  <1>6. IdleTimers(t)
    BY Zenon, <1>2 DEF Good, IdleTimers, Idle, TimersOf, IsStarting, IsLive
  <1>7. Armed \ {e} \subseteq t.events /\ (e.kind # "ForceStop" => Armed \subseteq t.events)
    BY ZenonT(60), <1>2 DEF Armed
  <1>8. Good(t, Armed \ {e}) /\ (e.kind # "ForceStop" => Good(t, Armed))
    BY <1>2, <1>5, <1>6, <1>7 DEF Good
  <1>9. QED
    BY Zenon, <1>1, <1>2, <1>3, <1>4, <1>8

\* What an event carries.
LEMMA EventFields ==
    \A e \in Event : e.gen \in Nat /\ (e.kind # "ForceStop" => e.id \in ChildOrNone)
  BY DEF Event

-----------------------------------------------------------------------------
(* One lemma per group of actions. *)

\* Spending one of a resource keeps the budget.
LEMMA SpendGood ==
    ASSUME used \in Budget
    PROVE  /\ Spend("ops") \/ Spend("faults") \/ Spend("breaks") => used' \in Budget
           /\ Spend("orphans") \/ Spend("exits") \/ Spend("crashes") => used' \in Budget
  <1>1. ASSUME NEW k \in Resource, Spend(k) PROVE used' \in Budget
    <2>1. used' = [used EXCEPT ![k] = used[k] + 1] /\ used \in [Resource -> Nat]
      BY <1>1 DEF Spend, Budget
    <2>2. used' \in [Resource -> Nat]
      BY <2>1
    <2>3. QED
      BY <1>1, <2>2 DEF Spend, Budget
  <1>2. QED
    BY <1>1 DEF Resource

\* A client's command keeps the invariant.
LEMMA CommandsInv == ASSUME Inv, Commands PROVE Inv' /\ Armed \subseteq w'.events
  <1>0. Good(w, Armed) /\ used \in Budget /\ w \in World
    BY InvGood DEF Good
  <1>1. \A wanted : Command(wanted) => used' \in Budget /\ service' = service /\ want' = wanted
    BY ZenonT(60), <1>0, SpendGood DEF Command
  <1>2. CASE Start
    <2>1. PICK io \in LaunchCalls : Turn(StartPane(w, io))
      BY <1>2 DEF Start
    <2>2. Good(w', Armed)
      BY Zenon, <1>0, <2>1, StartGood, TurnGood
    <2>3. QED
      BY <1>1, <1>2, <2>2, InvGood, InvGoodNext DEF Start, Named
  <1>3. CASE Restart
    <2>1. PICK io \in RestartCalls : Turn(RestartPane(w, io))
      BY <1>3 DEF Restart
    <2>2. Good(w', Armed)
      BY Zenon, <1>0, <2>1, RestartGood, TurnGood
    <2>3. QED
      BY ZenonT(60), <1>1, <1>3, <2>2, InvGood, InvGoodNext DEF Restart, Named
  <1>4. CASE Stop
    <2>1. PICK io \in SignalCalls : Turn(StopPane(w, io))
      BY <1>4 DEF Stop
    <2>2. Good(w', Armed)
      BY Zenon, <1>0, <2>1, StopGood, TurnGood
    <2>3. QED
      BY ZenonT(60), <1>1, <1>4, <2>2, InvGood, InvGoodNext DEF Stop, Named
  <1>5. CASE Kill
    <2>1. PICK io \in SignalCalls : Turn(ForceKillPane(w, io))
      BY <1>5 DEF Kill
    <2>2. Good(w', Armed)
      BY Zenon, <1>0, <2>1, KillGood, TurnGood
    <2>3. QED
      BY Zenon, <1>1, <1>5, <2>2, InvGood, InvGoodNext DEF Kill, Named
  <1>6. CASE Pause
    <2>1. PICK io \in PauseCalls : Turn(PausePane(w, io))
      BY Zenon, <1>6 DEF Pause
    <2>2. Good(PausePane(w, io), Armed)
      BY Zenon, <1>0, PauseSame, SameGood
    <2>3. Good(w', Armed)
      BY Zenon, <2>1, <2>2, TurnGood
    <2>4. QED
      BY Zenon, <1>1, <1>6, <2>3, InvGood, InvGoodNext DEF Pause, Named
  <1>7. CASE Resume
    <2>1. PICK io \in PauseCalls : Turn(ResumePane(w, io))
      BY Zenon, <1>7 DEF Resume
    <2>2. Good(ResumePane(w, io), Armed)
      BY Zenon, <1>0, PauseSame, SameGood
    <2>3. Good(w', Armed)
      BY Zenon, <2>1, <2>2, TurnGood
    <2>4. QED
      BY Zenon, <1>1, <1>7, <2>3, InvGood, InvGoodNext DEF Resume, Named
  <1>8. CASE Up
    <2>1. PICK io \in LaunchCalls : Turn(UpPane(w, io))
      BY <1>8 DEF Up
    <2>2. Good(w', Armed)
      BY Zenon, <1>0, <2>1, StartGood, TurnGood
    <2>3. QED
      BY ZenonT(60), <1>1, <1>8, <2>2, InvGood, InvGoodNext DEF Up, Named
  <1>9. CASE Down
    <2>1. PICK io \in SignalCalls : Turn(DownPane(w, io))
      BY <1>9 DEF Down
    <2>2. Good(w', Armed)
      BY <1>0, <2>1, StopGood, TurnGood
    <2>3. QED
      <3>1. want' \in {"down", "passed"} /\ Command(want') /\ UNCHANGED inStack
        BY Zenon, <1>9 DEF Down, Named, Command
      <3>2. QED
        BY Zenon, <1>1, <2>2, <3>1, InvGood, InvGoodNext
  <1>10. QED
    BY ZenonT(60), <1>2, <1>3, <1>4, <1>5, <1>6, <1>7, <1>8, <1>9 DEF Commands

\* A change of the stack keeps the invariant.
LEMMA StackInv ==
    ASSUME Inv, (\E present \in BOOLEAN : ChangeStack(present)) \/ EditStackOffline
    PROVE  Inv' /\ Armed \subseteq w'.events
  <1>0. Good(w, Armed) /\ used \in Budget /\ w \in World
    BY Zenon, InvGood DEF Good
  <1>1. ASSUME NEW present \in BOOLEAN, ChangeStack(present)
        PROVE  Inv' /\ Armed \subseteq w'.events
    <2>1. PICK io \in SignalCalls : Turn(ApplyStack(w, present, io))
      BY <1>1 DEF ChangeStack
    <2>2. Good(w', Armed)
      BY Zenon, <1>0, <2>1, ApplyStackGood, TurnGood
    <2>3. used' \in Budget
      BY Zenon, <1>0, <1>1, SpendGood DEF ChangeStack, Command
    <2>4. QED
      BY ZenonT(60), <1>1, <2>2, <2>3, InvGood, InvGoodNext DEF ChangeStack, Command
  <1>2. CASE EditStackOffline
    <2>1. used' \in Budget
      BY <1>0, <1>2, SpendGood DEF EditStackOffline
    <2>2. QED
      BY ZenonT(60), <1>0, <1>2, <2>1, InvGood, InvGoodNext DEF EditStackOffline
  <1>3. QED
    BY <1>1, <1>2

\* An event the loop handles keeps the invariant, in a service that serves and
\* in one letting go.
LEMMA EventsInv ==
    ASSUME Inv, Events, ~OnForceStop
    PROVE  Inv' /\ Armed \subseteq w'.events
  <1>0. Good(w, Armed)
    BY Zenon, InvGood
  <1>1. SUFFICES Good(w', Armed)
    BY Zenon, InvGood, InvGoodNext DEF Events, OnSpawned, OnLaunchBlocked, OnReconnectLocated, OnAdopted,
       OnExited, OnUnreadable, OnRespawn, OnRetryDue, OnAdoptionProbed, Settle, Serve
  <1>2. \A e \in w.events : /\ e \in Event
                            /\ e.kind # "ForceStop" => /\ e.id \in ChildOrNone
                                                       /\ Good(Taken(e), Armed)
    BY Zenon, <1>0, TakenGood, EventFields
  <1>3. CASE OnSpawned
    <2>1. PICK e \in w.events, io \in SettleCalls :
             /\ e.kind = "Spawned"
             /\ \/ Turn(SettleSpawn(Taken(e), e, io))
                \/ w' = SettleSpawn(Taken(e), e, io)
      BY Zenon, <1>3 DEF OnSpawned, Settle, Serve, Queued
    <2>2. Good(SettleSpawn(Taken(e), e, io), Armed)
      BY Zenon, <1>2, <2>1, SettleSpawnGood
    <2>3. QED
      BY Zenon, <2>1, <2>2, TurnGood
  <1>4. CASE OnLaunchBlocked
    <2>1. PICK e \in w.events, io \in SettleCalls :
             /\ e.kind = "LaunchBlocked"
             /\ \/ Turn(HandleLaunchBlocked(Taken(e), e, io))
                \/ w' = HandleLaunchBlocked(Taken(e), e, io)
      BY Zenon, <1>4 DEF OnLaunchBlocked, Settle, Serve, Queued
    <2>2. Good(HandleLaunchBlocked(Taken(e), e, io), Armed)
      BY Zenon, <1>2, <2>1, LaunchBlockedGood
    <2>3. QED
      BY Zenon, <2>1, <2>2, TurnGood
  <1>5. CASE OnReconnectLocated
    <2>1. PICK e \in w.events, io \in SettleCalls :
             /\ e.kind = "ReconnectLocated"
             /\ \/ Turn(HandleReconnectLocated(Taken(e), e, io))
                \/ w' = HandleReconnectLocated(Taken(e), e, io)
      BY Zenon, <1>5 DEF OnReconnectLocated, Settle, Serve, Queued
    <2>2. Good(HandleReconnectLocated(Taken(e), e, io), Armed)
      BY Zenon, <1>2, <2>1, LocatedGood
    <2>3. QED
      BY Zenon, <2>1, <2>2, TurnGood
  <1>6. CASE OnAdopted
    <2>1. PICK e \in w.events, io \in SettleCalls :
             /\ e.kind = "Adopted"
             /\ \/ Turn(SettleAdoption(Taken(e), e, io))
                \/ w' = SettleAdoption(Taken(e), e, io)
      BY Zenon, <1>6 DEF OnAdopted, Settle, Serve, Queued
    <2>2. Good(SettleAdoption(Taken(e), e, io), Armed)
      BY Zenon, <1>2, <2>1, SettleAdoptionGood
    <2>3. QED
      BY Zenon, <2>1, <2>2, TurnGood
  <1>7. CASE OnExited
    <2>1. PICK e \in w.events, io \in LaunchCalls :
             e.kind = "Exited" /\ Turn(HandleExited(Taken(e), e, io))
      BY Zenon, <1>7 DEF OnExited, Serve, Queued
    <2>2. Good(HandleExited(Taken(e), e, io), Armed)
      BY Zenon, <1>2, <2>1, OutputGood DEF HandleExited, Outputs
    <2>3. QED
      BY Zenon, <2>1, <2>2, TurnGood
  <1>8. CASE OnUnreadable
    <2>1. PICK e \in w.events, io \in LaunchCalls :
             e.kind = "Unreadable" /\ Turn(HandleUnreadable(Taken(e), e, io))
      BY Zenon, <1>8 DEF OnUnreadable, Serve, Queued
    <2>2. Good(HandleUnreadable(Taken(e), e, io), Armed)
      BY Zenon, <1>2, <2>1, OutputGood DEF HandleUnreadable, Outputs
    <2>3. QED
      BY Zenon, <2>1, <2>2, TurnGood
  <1>9. CASE OnRespawn
    <2>1. PICK e \in w.events, io \in LaunchCalls :
             e.kind = "Respawn" /\ Turn(HandleRespawn(Taken(e), e, io))
      BY Zenon, <1>9 DEF OnRespawn, Serve, Queued
    <2>2. e.gen = w.gen => ~IsLive(w)
      BY Zenon, <1>0, <2>1 DEF Good, IdleTimers, Idle, TimersOf, Timed
    <2>3. e.gen = Taken(e).gen => ~IsLive(Taken(e))
      BY Zenon, <1>0, <2>2, TakenGood DEF IsLive
    <2>4. Good(HandleRespawn(Taken(e), e, io), Armed)
      BY Zenon, <1>2, <2>1, <2>3, SpawnGood DEF HandleRespawn
    <2>5. QED
      BY Zenon, <2>1, <2>4, TurnGood
  <1>10. CASE OnRetryDue
    <2>1. PICK e \in w.events, io \in LaunchCalls :
             e.kind = "RetryDue" /\ Turn(HandleRetryDue(Taken(e), e, io))
      BY <1>10 DEF OnRetryDue, Serve, Queued
    <2>2. Good(HandleRetryDue(Taken(e), e, io), Armed)
      <3>1. Good(Taken(e), Armed) /\ Taken(e) \in World /\ e \in Event
        BY Zenon, <1>2, <2>1, GoodKeeps
      <3>2. Same(HandleRetryDue(Taken(e), e, io), Taken(e))
        BY Zenon, <3>1, TrySame DEF HandleRetryDue
      <3>3. QED
        BY Zenon, <3>1, <3>2, SameGood
    <2>3. QED
      BY ZenonT(60), <2>1, <2>2, TurnGood
  <1>11. CASE OnAdoptionProbed
    <2>1. PICK e \in w.events, io \in LaunchCalls :
             e.kind = "AdoptionProbed" /\ Turn(HandleProbed(Taken(e), e, io))
      BY Zenon, <1>11 DEF OnAdoptionProbed, Serve, Queued
    <2>2. Good(HandleProbed(Taken(e), e, io), Armed)
      BY Zenon, <1>2, <2>1, ProbedGood DEF HandleProbed
    <2>3. QED
      BY Zenon, <2>1, <2>2, TurnGood
  <1>12. QED
    BY ZenonT(60), <1>3, <1>4, <1>5, <1>6, <1>7, <1>8, <1>9, <1>10, <1>11 DEF Events

\* What GraceHonoured says of a step.
GraceKept ==
    \A e \in w.events \ w'.events :
      e.kind = "ForceStop" /\ w'.killed # w.killed
        => \A f \in w.events : f.kind = "ForceStop" /\ f.gen >= e.gen => f.id <= e.id

\* A step that keeps every deadline in flight keeps the grace of each.
LEMMA ArmedKept == Armed \subseteq w'.events => GraceKept
  BY Zenon DEF Armed, GraceKept

\* A deadline that comes due escalates only when it is of the current
\* generations; every other one in flight is then older (handle_force_stop).
LEMMA ForceStopInv == ASSUME Inv, OnForceStop PROVE Inv' /\ GraceKept
  <1>0. Good(w, Armed)
    BY Zenon, InvGood
  <1>1. PICK d \in w.events, io \in EscalateCalls :
          d.kind = "ForceStop" /\ Turn(HandleForceStop(Taken(d), d, io))
    BY Zenon DEF OnForceStop, Serve, Queued
  <1> DEFINE t == Taken(d)
             h == HandleForceStop(t, d, io)
  <1>2. /\ Good(t, Armed \ {d}) /\ t.gen = w.gen /\ t.shut = w.shut /\ t.launch = w.launch
        /\ t.killed = w.killed
    BY Zenon, <1>0, TakenGood
  <1>3. d \in TimersOf(w) /\ w \in World
    BY Zenon, <1>0, <1>1 DEF TimersOf, Timed, Good
  <1>4. d.gen = t.gen => ~IsStarting(t)
    BY Zenon, <1>0, <1>2, <1>3 DEF Good, IdleTimers, Idle, IsStarting
  <1>5. h.killed # t.killed => t.gen = d.gen /\ t.shut = d.id
    BY Zenon DEF HandleForceStop
  <1> HIDE DEF t
  <1>6. Good(h, Armed \ {d})
    BY Zenon, <1>2, <1>4, ForceStopGood
  <1>7. Turn(h)
    BY Zenon, <1>1 DEF t
  <1> HIDE DEF h
  <1>8. Good(w', Armed \ {d}) /\ w'.killed = h.killed
    BY Zenon, <1>6, <1>7, TurnGood
  <1>9. Inv' /\ Armed \ {d} \subseteq w'.events
    <2>1. UNCHANGED <<service, inStack, want, used>>
      BY Zenon DEF OnForceStop, Serve
    <2>2. QED
      BY Zenon, <1>8, <2>1, InvGood, InvGoodNext
  <1>10. ASSUME NEW e \in w.events \ w'.events, e.kind = "ForceStop", w'.killed # w.killed,
                NEW f \in w.events, f.kind = "ForceStop", f.gen >= e.gen
         PROVE  f.id <= e.id
    <2>1. e = d
      BY Zenon, <1>9, <1>10 DEF Armed
    <2>2. w.gen = d.gen /\ w.shut = d.id
      BY Zenon, <1>2, <1>5, <1>8, <1>10
    <2>3. f \in TimersOf(w)
      BY Zenon, <1>10 DEF TimersOf, Timed
    <2>4. f.gen \in Nat /\ w.gen \in Nat /\ f.gen <= w.gen
      BY Zenon, <1>0, <1>3, <2>3, TimerFields DEF Good, IdleTimers
    <2>5. f.gen = w.gen
      <3>1. \A a, b \in Nat : a >= b /\ a <= b => a = b
        OBVIOUS
      <3>2. QED
        BY ZenonT(60), <1>10, <2>1, <2>2, <2>4, <3>1
    <2>6. f.id <= w.shut
      BY ZenonT(60), <1>0, <1>10, <2>3, <2>5 DEF Good, IdleTimers, Idle
    <2>7. QED
      BY Zenon, <2>1, <2>2, <2>6
  <1>11. QED
    BY Zenon, <1>9, <1>10 DEF GraceKept

-----------------------------------------------------------------------------
(* Workers and the machine. *)

\* What a worker posts in place of its job is no timer.
LEMMA PostedGood ==
    ASSUME Good(w, Armed), NEW e \in w.events, e.kind # "ForceStop",
           NEW k \in EventKind \ {"Respawn"},
           NEW id \in ChildOrNone, NEW ok \in BOOLEAN
    PROVE  Good(Post(Taken(e), Ev(k, e.gen, id, ok)), Armed)
  <1> DEFINE r == Ev(k, e.gen, id, ok)
  <1>1. Good(Taken(e), Armed) /\ Taken(e) \in World /\ e.gen \in Nat
    BY ZenonT(60), TakenGood, EventFields
  <1>2. r \in Event /\ r.kind \notin Timed
    BY <1>1 DEF Ev, Event, EventKind, Timed
  <1> HIDE DEF r
  <1>3. QED
    <2>1. Same(Post(Taken(e), r), Taken(e))
      BY Zenon, <1>1, <1>2, PostSame
    <2>2. QED
      BY Zenon, <1>1, <2>1, SameGood DEF r

\* What happens to a child, its holder or its stream leaves the books alone.
LEMMA MachineSame ==
    ASSUME NEW v \in World, NEW c
    PROVE  /\ \A x \in {"unborn", "running", "ok", "failed"} : Same([v EXCEPT !.proc[c] = x], v)
           /\ \A x \in {"none", "fresh", "serving", "gone"} : Same([v EXCEPT !.holder[c] = x], v)
           /\ \A x \in Nat : Same([v EXCEPT !.conn[c] = x], v)
  <1>1. ASSUME NEW x \in {"unborn", "running", "ok", "failed"}
        PROVE  Same([v EXCEPT !.proc[c] = x], v)
    <2>1. [v.proc EXCEPT ![c] = x] \in [Child -> {"unborn", "running", "ok", "failed"}]
      BY Zenon DEF World
    <2>2. QED
      BY Zenon, <2>1, WithProc
  <1>2. ASSUME NEW x \in {"none", "fresh", "serving", "gone"}
        PROVE  Same([v EXCEPT !.holder[c] = x], v)
    <2>1. [v.holder EXCEPT ![c] = x] \in [Child -> {"none", "fresh", "serving", "gone"}]
      BY Zenon DEF World
    <2>2. QED
      BY Zenon, <2>1, WithHolder
  <1>3. ASSUME NEW x \in Nat PROVE Same([v EXCEPT !.conn[c] = x], v)
    <2>1. [v.conn EXCEPT ![c] = x] \in [Child -> Nat]
      BY Zenon DEF World
    <2>2. QED
      BY Zenon, <2>1, WithConn
  <1>4. QED
    BY <1>1, <1>2, <1>3

\* A worker that takes a holder over begins its stream.
LEMMA ServingGood ==
    ASSUME NEW v, NEW K, Good(v, K), NEW c, NEW g \in Nat
    PROVE  Good([v EXCEPT !.holder[c] = "serving", !.conn[c] = g], K)
  <1> DEFINE a == [v EXCEPT !.holder[c] = "serving"]
             b == [a EXCEPT !.conn[c] = g]
  <1>1. Good(a, K)
    BY Zenon, MachineSame, SameGood DEF Good
  <1> HIDE DEF a
  <1>2. Good(b, K)
    BY ZenonT(40), <1>1, MachineSame, SameGood DEF Good
  <1>3. QED
    BY <1>2 DEF a

\* A worker's step keeps the invariant.
LEMMA WorkersInv == ASSUME Inv, Workers PROVE Inv' /\ Armed \subseteq w'.events
  <1>0. Good(w, Armed) /\ used \in Budget /\ None \in ChildOrNone
    BY Zenon, InvGood, Values
  <1>1. SUFFICES Good(w', Armed) /\ used' \in Budget
    BY Zenon, InvGood, InvGoodNext DEF Workers, FindPortTaken, LaunchHolder, GreetHolder, FailLaunch,
       FailGreeting, LocateHolder, AdoptHolder, FailAdoption, ProbeHolder, Elsewhere
  <1>2. used' \in Budget
    BY Zenon, <1>0, SpendGood DEF Workers, FindPortTaken, LaunchHolder, GreetHolder, FailLaunch,
       FailGreeting, LocateHolder, AdoptHolder, FailAdoption, ProbeHolder, Fault
  <1>3. \A e \in w.events : /\ e \in Event /\ e.gen \in Nat
                            /\ e.kind # "ForceStop" => /\ e.id \in ChildOrNone
                                                       /\ Good(Taken(e), Armed)
    BY Zenon, <1>0, TakenGood, EventFields
  <1>4. CASE FindPortTaken
    <2>1. PICK e \in w.events :
             e.kind = "SpawnJob" /\ w' = Post(Taken(e), Ev("LaunchBlocked", e.gen, None, TRUE))
      BY ZenonT(40), <1>4 DEF FindPortTaken, Queued
    <2>2. QED
      BY Zenon, <1>0, <1>2, <2>1, PostedGood DEF EventKind
  <1>5. CASE LaunchHolder
    <2>1. PICK e \in w.events, c \in Child :
             /\ e.kind = "SpawnJob"
             /\ w' = [Post(Taken(e), Ev("GreetJob", e.gen, c, TRUE)) EXCEPT
                         !.proc[c] = "running", !.holder[c] = "fresh"]
      BY Zenon, <1>5 DEF LaunchHolder, Queued
    <2> DEFINE p == Post(Taken(e), Ev("GreetJob", e.gen, c, TRUE))
               a == [p EXCEPT !.proc[c] = "running"]
               b == [a EXCEPT !.holder[c] = "fresh"]
    <2>2. Good(p, Armed)
      BY Zenon, <1>0, <2>1, PostedGood DEF EventKind, ChildOrNone
    <2>3. w' = b
      BY <2>1
    <2> HIDE DEF p
    <2>4. Good(a, Armed)
      BY Zenon, <2>2, MachineSame, SameGood DEF Good
    <2> HIDE DEF a
    <2>5. Good(b, Armed)
      BY ZenonT(40), <2>4, MachineSame, SameGood DEF Good
    <2>6. QED
      BY <1>2, <2>3, <2>5
  <1>6. CASE GreetHolder
    <2>1. PICK e \in w.events :
             /\ e.kind = "GreetJob"
             /\ w' = [Post(Taken(e), Ev("Spawned", e.gen, e.id, TRUE)) EXCEPT
                      !.holder[e.id] = "serving", !.conn[e.id] = e.gen]
      BY Zenon, <1>6 DEF GreetHolder, Queued
    <2>2. Good(Post(Taken(e), Ev("Spawned", e.gen, e.id, TRUE)), Armed)
      BY Zenon, <1>0, <1>3, <2>1, PostedGood DEF EventKind
    <2>3. QED
      BY Zenon, <1>2, <1>3, <2>1, <2>2, ServingGood
  <1>7. CASE FailLaunch
    <2>1. PICK e \in w.events :
             e.kind = "SpawnJob" /\ w' = Post(Taken(e), Ev("Spawned", e.gen, None, FALSE))
      BY Zenon, <1>7 DEF FailLaunch, Queued, LaunchFailed
    <2>2. QED
      BY Zenon, <1>0, <1>2, <2>1, PostedGood DEF EventKind
  <1>8. CASE FailGreeting
    <2>1. PICK e \in w.events :
             /\ e.kind = "GreetJob"
             /\ \/ w' = Post(Abandon(Taken(e), e.id), Ev("Spawned", e.gen, None, FALSE))
                \/ w' = Post(Taken(e), Ev("Spawned", e.gen, None, FALSE))
      BY Zenon, <1>8 DEF FailGreeting, Queued, LaunchFailed
    <2> DEFINE a == Abandon(Taken(e), e.id)
               r == Ev("Spawned", e.gen, None, FALSE)
    <2>2. Good(a, Armed)
      <3>1. Good(Taken(e), Armed) /\ Taken(e) \in World
        BY Zenon, <1>3, <2>1 DEF Good
      <3>2. Same(a, Taken(e))
        BY Zenon, <3>1, AbandonSame
      <3>3. QED
        BY Zenon, <3>1, <3>2, SameGood
    <2>3. r \in Event /\ r.kind \notin Timed
      BY Zenon, <1>0, <1>3 DEF Ev, Event, EventKind, Timed
    <2> HIDE DEF a, r
    <2>4. Good(Post(a, r), Armed)
      BY Zenon, <2>2, <2>3, PostSame, SameGood DEF Good
    <2>5. Good(Post(Taken(e), r), Armed)
      BY Zenon, <1>3, <2>1, <2>3, PostSame, SameGood DEF Good
    <2>6. QED
      BY Zenon, <1>2, <2>1, <2>4, <2>5 DEF a, r
  <1>9. CASE LocateHolder
    <2>1. PICK e \in w.events :
             /\ e.kind = "LocateJob"
             /\ w' = Post(Taken(e), Ev("ReconnectLocated", e.gen,
                         IF Reachable(e.id) \/ RunsChild(w, e.id) THEN e.id ELSE None, TRUE))
      BY ZenonT(40), <1>9 DEF LocateHolder, Queued
    <2>2. (IF Reachable(e.id) \/ RunsChild(w, e.id) THEN e.id ELSE None) \in ChildOrNone
      BY <1>0, <1>3, <2>1
    <2>3. QED
      BY Zenon, <1>0, <1>2, <2>1, <2>2, PostedGood DEF EventKind
  <1>10. CASE AdoptHolder
    <2>1. PICK e \in w.events :
             /\ e.kind = "AdoptJob"
             /\ w' = [Post(Taken(e), Ev("Adopted", e.gen, e.id, TRUE)) EXCEPT
                      !.holder[e.id] = "serving", !.conn[e.id] = e.gen]
      BY Zenon, <1>10 DEF AdoptHolder, Queued
    <2>2. Good(Post(Taken(e), Ev("Adopted", e.gen, e.id, TRUE)), Armed)
      BY Zenon, <1>0, <1>3, <2>1, PostedGood DEF EventKind
    <2>3. QED
      BY ZenonT(40), <1>2, <1>3, <2>1, <2>2, ServingGood
  <1>11. CASE FailAdoption
    <2>1. PICK e \in w.events : /\ e.kind = "AdoptJob"
                                /\ w' = Post(Taken(e), Ev("Adopted", e.gen, e.id, FALSE))
      BY Zenon, <1>11 DEF FailAdoption, Queued
    <2>2. QED
      BY Zenon, <1>0, <1>2, <1>3, <2>1, PostedGood DEF EventKind
  <1>12. CASE ProbeHolder
    <2>1. PICK e \in w.events :
             /\ e.kind = "ProbeJob"
             /\ w' = Post(Taken(e), Ev("AdoptionProbed", e.gen,
                                    IF Reachable(e.id) THEN e.id ELSE None, e.ok))
      BY Zenon, <1>12 DEF ProbeHolder, Queued
    <2>2. (IF Reachable(e.id) THEN e.id ELSE None) \in ChildOrNone /\ e.ok \in BOOLEAN
      BY <1>0, <1>3, <2>1 DEF Event
    <2>3. QED
      BY Zenon, <1>0, <1>2, <2>1, <2>2, PostedGood DEF EventKind
  <1>13. QED
    BY ZenonT(60), <1>4, <1>5, <1>6, <1>7, <1>8, <1>9, <1>10, <1>11, <1>12 DEF Workers

\* The end of a holder leaves the books alone.
LEMMA WithoutHolderGood ==
    ASSUME Good(w, Armed), NEW c \in Child, NEW hungUp
    PROVE  Good(WithoutHolder(c, hungUp), Armed)
  <1> DEFINE a == [w EXCEPT !.holder[c] = "gone"]
             x == IF a.proc[c] = "running" /\ hungUp THEN "failed" ELSE a.proc[c]
             b == [a EXCEPT !.proc[c] = x]
  <1>1. Good(a, Armed)
    BY Zenon, MachineSame, SameGood DEF Good
  <1>2. WithoutHolder(c, hungUp) = b
    BY Zenon DEF WithoutHolder
  <1> HIDE DEF a
  <1>3. x \in {"unborn", "running", "ok", "failed"}
    BY <1>1 DEF Good, World
  <1> HIDE DEF x
  <1>4. Good(b, Armed)
    BY Zenon, <1>1, <1>3, MachineSame, SameGood DEF Good
  <1>5. QED
    BY <1>2, <1>4

\* What a stream's reader posts is no timer either, and ends the stream.
LEMMA ReadGood ==
    ASSUME Good(w, Armed), NEW c \in Child, NEW k \in {"Exited", "Unreadable"}, NEW ok \in BOOLEAN
    PROVE  Good([Post(w, Ev(k, w.conn[c], c, ok)) EXCEPT !.conn[c] = 0], Armed)
  <1> DEFINE r == Ev(k, w.conn[c], c, ok)
             p == Post(w, r)
  <1>1. w.conn[c] \in Nat
    BY Zenon DEF Good, World
  <1>2. r \in Event /\ r.kind \notin Timed
    BY Zenon, <1>1 DEF Ev, Event, EventKind, ChildOrNone, Timed
  <1> HIDE DEF r
  <1>3. Good(p, Armed)
    BY Zenon, <1>2, PostSame, SameGood DEF Good
  <1> HIDE DEF p
  <1>4. Good([p EXCEPT !.conn[c] = 0], Armed)
    BY ZenonT(40), <1>3, MachineSame, Values, SameGood DEF Good
  <1>5. QED
    BY Zenon, <1>4 DEF p, r

\* A step of a child, a holder or a reader keeps the invariant.
LEMMA MachineInv == ASSUME Inv, Machine PROVE Inv' /\ Armed \subseteq w'.events
  <1>0. Good(w, Armed) /\ used \in Budget /\ w \in World
    BY Zenon, InvGood DEF Good
  <1>1. SUFFICES Good(w', Armed) /\ used' \in Budget
    BY Zenon, InvGood, InvGoodNext DEF Machine, ChildExits, KilledChildDies, HolderDies, OrphanChild,
       HolderDeadline, ReadExit, EndStream, BreakStream, CollectExit, LoseCollection, Elsewhere
  <1>2. used' \in Budget
    BY ZenonT(40), <1>0, SpendGood DEF Machine, ChildExits, KilledChildDies, HolderDies, OrphanChild,
       HolderDeadline, ReadExit, EndStream, BreakStream, CollectExit, LoseCollection, Fault, Break
  <1>3. \A c : \A x \in {"ok", "failed"} : Good([w EXCEPT !.proc[c] = x], Armed)
    BY Zenon, <1>0, MachineSame, SameGood
  <1>4. CASE ChildExits \/ KilledChildDies
    <2>1. PICK c \in Child \cup w.killed, x \in {"ok", "failed"} : w' = [w EXCEPT !.proc[c] = x]
      BY <1>4 DEF ChildExits, KilledChildDies
    <2>2. QED
      BY Zenon, <1>2, <1>3, <2>1
  <1>5. CASE HolderDies \/ OrphanChild \/ HolderDeadline
    BY ZenonT(60), <1>0, <1>2, <1>5, WithoutHolderGood DEF HolderDies, OrphanChild, HolderDeadline
  <1>6. CASE ReadExit
    <2>1. PICK c \in Child :
             w' = [Post(w, Ev("Exited", w.conn[c], c, w.proc[c] = "ok")) EXCEPT !.conn[c] = 0]
      BY Zenon, <1>6 DEF ReadExit
    <2>2. (w.proc[c] = "ok") \in BOOLEAN
      OBVIOUS
    <2>3. QED
      BY Zenon, <1>0, <1>2, <2>1, <2>2, ReadGood
  <1>7. CASE EndStream \/ BreakStream
    <2>1. PICK c \in Child : w' = Unreadable(c)
      BY <1>7 DEF EndStream, BreakStream
    <2>2. QED
      BY ZenonT(60), <1>0, <1>2, <2>1, ReadGood DEF Unreadable
  <1>8. \A c : Good([w EXCEPT !.collecting = w.collecting \ {c}], Armed)
    <2> TAKE c
    <2>1. w.collecting \ {c} \in SUBSET Child
      BY <1>0 DEF World
    <2>2. QED
      <3>1. Same([w EXCEPT !.collecting = w.collecting \ {c}], w)
        BY Zenon, <1>0, <2>1, WithCollecting
      <3>2. QED
        BY Zenon, <1>0, <3>1, SameGood
  <1>9. CASE CollectExit
    <2>1. PICK c \in w.collecting :
             w' = [w EXCEPT !.collecting = @ \ {c}, !.holder[c] = "gone"]
      BY Zenon, <1>9 DEF CollectExit
    <2> DEFINE a == [w EXCEPT !.collecting = w.collecting \ {c}]
    <2>2. w' = [a EXCEPT !.holder[c] = "gone"]
      BY <2>1
    <2>3. Good(a, Armed)
      BY <1>8
    <2> HIDE DEF a
    <2>4. QED
      BY Zenon, <1>2, <2>2, <2>3, MachineSame, SameGood DEF Good
  <1>10. CASE LoseCollection
    BY <1>2, <1>8, <1>10 DEF LoseCollection
  <1>11. QED
    BY Zenon, <1>4, <1>5, <1>6, <1>7, <1>9, <1>10 DEF Machine

-----------------------------------------------------------------------------
(* The service. *)

\* A shutdown gives up the handle and advances the generation: the launch in
\* flight is of an earlier one, and of no process that is live.
LEMMA ShutdownInv == ASSUME Inv, Shutdown PROVE Inv' /\ Armed \subseteq w'.events
  <1> DEFINE a == Drop(w, w.handle)
             b == [a EXCEPT !.handle = None]
             c == [b EXCEPT !.detaching = TRUE]
             h == IF IsSpawning(w) THEN c.held ELSE None
             d == [c EXCEPT !.held = h]
             f == [d EXCEPT !.gen = d.gen + 1]
  <1>0. Good(w, Armed) /\ used \in Budget
    BY InvGood
  <1>1. w' = IF w.gen > 0 \/ w.has THEN f ELSE d
    BY DEF Shutdown, AdvanceGeneration
  <1>2. used' \in Budget
    BY ZenonT(60), <1>0, SpendGood DEF Shutdown
  <1>3. Good(a, Armed)
    BY <1>0, DropSame, SameGood DEF Good
  <1> HIDE DEF a
  <1>4. Good(b, Armed) /\ ~IsLive(b)
    BY <1>3, DropHandle
  <1> HIDE DEF b
  <1>5. /\ c \in World /\ c.detaching = TRUE /\ c.gen = b.gen /\ c.handle = b.handle
        /\ c.unsup = b.unsup /\ c.launch = b.launch /\ c.events = b.events
        /\ c.has = b.has /\ c.shut = b.shut
    BY Zenon, <1>4, WithDetaching DEF Good
  <1> HIDE DEF c
  <1>6. Good(c, Armed) /\ ~IsLive(c)
    <2>1. Consistent(c) /\ ~IsLive(c)
      BY ZenonT(60), <1>4, <1>5 DEF Good, Consistent, IsLive, IsStarting, IsUnsupervised, IsSpawning
    <2>2. IdleTimers(c)
      BY Zenon, <1>4, <1>5 DEF Good, IdleTimers, Idle, TimersOf, IsLive, IsStarting
    <2>3. QED
      BY ZenonT(60), <1>4, <1>5, <2>1, <2>2 DEF Good
  <1>7. h \in ChildOrNone
    BY Zenon, <1>6, Values DEF Good
  <1> HIDE DEF h
  <1>8. Same(d, c)
    BY Zenon, <1>6, <1>7, WithHeld DEF Good
  <1> HIDE DEF d
  <1>9. Good(d, Armed) /\ ~IsLive(d) /\ d.detaching
    BY ZenonT(60), <1>5, <1>6, <1>8, SameGood, SameKeeps DEF Same
  <1>10. d \in World /\ d.gen \in Nat /\ d.gen + 1 \in Nat
    BY Zenon, <1>9, Values DEF Good
  <1>11. /\ f \in World /\ f.gen = d.gen + 1 /\ f.handle = d.handle /\ f.unsup = d.unsup
         /\ f.launch = d.launch /\ f.detaching = d.detaching /\ f.events = d.events
         /\ f.has = d.has
    BY Zenon, <1>10, WithGen
  <1> HIDE DEF f
  <1>12. \A e \in TimersOf(d) : e.gen \in Nat
    BY Zenon, <1>10, Values DEF TimersOf, Event
  <1>13. Consistent(f)
    BY ZenonT(60), <1>9, <1>11 DEF Good, Consistent, IsLive, IsStarting, IsUnsupervised, IsSpawning
  <1>14. IdleTimers(f)
    <2>1. TimersOf(f) = TimersOf(d)
      BY Zenon, <1>11 DEF TimersOf
    <2>2. \A m, n \in Nat : m <= n => m <= n + 1 /\ m # n + 1
      OBVIOUS
    <2>3. ASSUME NEW e \in TimersOf(d) PROVE e.gen <= f.gen /\ e.gen # f.gen
      <3>1. e.gen <= d.gen
        BY Zenon, <1>9 DEF Good, IdleTimers
      <3>2. e.gen \in Nat /\ d.gen \in Nat /\ f.gen = d.gen + 1
        BY Zenon, <1>10, <1>11, <1>12
      <3>3. e.gen <= d.gen + 1 /\ e.gen # d.gen + 1
        BY Zenon, <2>2, <3>1, <3>2
      <3>4. QED
        BY Zenon, <3>2, <3>3
    <2>4. QED
      BY Zenon, <2>1, <2>3 DEF IdleTimers
  <1>15. Good(w', Armed)
    BY ZenonT(60), <1>1, <1>9, <1>11, <1>13, <1>14 DEF Good
  <1>16. QED
    BY Zenon, <1>2, <1>15, InvGood, InvGoodNext DEF Shutdown

\* A service that ended keeps nothing but the machine, and killed no child.
LEMMA EndInv == ASSUME Inv, EndService \/ Crash PROVE Inv' /\ w'.killed = w.killed
  <1>0. Good(w, Armed) /\ used \in Budget
    BY Zenon, InvGood
  <1>1. used' \in Budget
    BY <1>0, SpendGood DEF EndService, Crash, Fault
  <1>2. w' = Fresh(w, "Absent", FALSE)
    BY Zenon DEF EndService, Crash, Gone
  <1>3. Good(w', {})
    BY ZenonT(60), <1>0, <1>2, FreshGood DEF Good, World
  <1>4. w'.killed = w.killed
    BY Zenon, <1>2 DEF Fresh
  <1>5. QED
    BY Zenon, <1>1, <1>3, <1>4, InvGood, InvGoodNext DEF EndService, Crash

\* Changing another field leaves the children killed alone.
LEMMA KilledKept ==
    ASSUME NEW v, "killed" \in DOMAIN v, NEW x
    PROVE  /\ "killed" \in DOMAIN [v EXCEPT !.launch = x] /\ [v EXCEPT !.launch = x].killed = v.killed
           /\ "killed" \in DOMAIN [v EXCEPT !.state = x] /\ [v EXCEPT !.state = x].killed = v.killed
           /\ [v EXCEPT !.events = x].killed = v.killed
  BY Zenon

\* An adoption kills no child (begin_adoption).
LEMMA BeginAdoptionSpares ==
    ASSUME NEW v \in World, NEW c PROVE BeginAdoption(v, c).killed = v.killed
  <1> DEFINE p == AdoptablePane(v)
             b == BumpGeneration(p)
             l == [NewLaunch("Adopt", b.gen, b.state, NoCarried) EXCEPT
                      !.member = IF ~Known(v) THEN "RetireOnExit" ELSE "none",
                      !.intent = IF ~Known(v) THEN "Stop" ELSE "none"]
             m == [b EXCEPT !.launch = l]
             n == [m EXCEPT !.state = "Starting"]
             e == Ev("AdoptJob", b.gen, c, TRUE)
             u == [n EXCEPT !.events = n.events \cup {e}]
  <1>0. BeginAdoption(v, c) = IF HoldsProcess(v) THEN ReportSupersededFailure(v, c) ELSE u
    BY DEF BeginAdoption, Post
  <1>1. p \in World /\ p.killed = v.killed
    <2>1. p \in World
      BY Zenon, AdoptableSame DEF Same
    <2>2. QED
      BY ZenonT(60), <2>1 DEF AdoptablePane, World
  <1> HIDE DEF p
  <1>2. b.killed = p.killed /\ "killed" \in DOMAIN b
    BY Zenon, <1>1 DEF BumpGeneration, World
  <1> HIDE DEF b, l, e
  <1>3. m.killed = b.killed /\ "killed" \in DOMAIN m
    BY <1>2, KilledKept
  <1> HIDE DEF m
  <1>4. n.killed = m.killed /\ "killed" \in DOMAIN n
    BY <1>3, KilledKept
  <1> HIDE DEF n
  <1>5. u.killed = n.killed
    BY Zenon, <1>4, KilledKept
  <1> HIDE DEF u
  <1>6. ReportSupersededFailure(v, c).killed = v.killed
    BY DEF ReportSupersededFailure, Collect, World
  <1>7. QED
    BY ZenonT(60), <1>0, <1>1, <1>2, <1>3, <1>4, <1>5, <1>6

\* A new service begins at most one adoption of the pane.
LEMMA BootInv == ASSUME Inv, Boot PROVE Inv' /\ w'.killed = w.killed
  <1>0. Good(w, Armed)
    BY InvGood
  <1>1. PICK state \in {"Pending", "Exited", "Crashed"}, problem \in BOOLEAN :
          LET fresh == Fresh(w, IF inStack THEN state ELSE "Absent", problem)
          IN  IF Records = {} THEN w' = fresh
              ELSE \E first \in Records :
                     LET copies == {c \in Records \ {first} : ~RunsChild(w, c)}
                     IN  w' = [BeginAdoption(fresh, first) EXCEPT !.collecting = @ \cup copies]
    BY DEF Boot
  <1> DEFINE fresh == Fresh(w, IF inStack THEN state ELSE "Absent", problem)
             copies(c) == {d \in Records \ {c} : ~RunsChild(w, d)}
  <1>2. (IF inStack THEN state ELSE "Absent") \in ProcessState \cup {"Absent"}
    BY Zenon DEF ProcessState
  <1>3. Good(fresh, {})
    <2>1. /\ w.proc \in [Child -> {"unborn", "running", "ok", "failed"}]
          /\ w.holder \in [Child -> {"none", "fresh", "serving", "gone"}]
          /\ w.killed \in SUBSET Child /\ w.collecting \in SUBSET Child
      BY ZenonT(60), <1>0 DEF Good, World
    <2>2. QED
      BY ZenonT(60), <1>2, <2>1, FreshGood
  <1>4. \/ w' = fresh
        \/ \E first \in Records :
             w' = [BeginAdoption(fresh, first) EXCEPT !.collecting = @ \cup copies(first)]
    BY <1>1
  <1> HIDE DEF fresh
  <1>5. ASSUME NEW first \in Records
        PROVE  Good([BeginAdoption(fresh, first) EXCEPT !.collecting = @ \cup copies(first)], {})
    <2> DEFINE b == BeginAdoption(fresh, first)
    <2>1. first \in ChildOrNone
      BY DEF Records, ChildOrNone
    <2>2. Good(b, {})
      BY ZenonT(60), <1>3, <2>1, BeginAdoptionGood
    <2> HIDE DEF b
    <2>3. b.collecting \cup copies(first) \in SUBSET Child
      BY Zenon, <2>2 DEF Good, World, Records
    <2> HIDE DEF copies
    <2>4. Good([b EXCEPT !.collecting = b.collecting \cup copies(first)], {})
      <3>1. b \in World
        BY <2>2 DEF Good
      <3>2. Same([b EXCEPT !.collecting = b.collecting \cup copies(first)], b)
        BY Zenon, <2>3, <3>1, WithCollecting
      <3>3. QED
        BY ZenonT(60), <2>2, <3>2, SameGood
    <2>5. QED
      BY Zenon, <2>4 DEF b
  <1>6. Good(w', {})
    BY Zenon, <1>3, <1>4, <1>5
  <1>7. w'.killed = w.killed
    <2>1. fresh.killed = w.killed /\ fresh \in World
      BY Zenon, <1>3 DEF fresh, Fresh, Good
    <2>2. ASSUME NEW first \in Records
          PROVE  [BeginAdoption(fresh, first) EXCEPT !.collecting = @ \cup copies(first)].killed
                   = w.killed
      <3> DEFINE b == BeginAdoption(fresh, first)
      <3>1. b.killed = w.killed
        BY Zenon, <2>1, BeginAdoptionSpares
      <3>2. b \in World
        BY ZenonT(60), <2>2, <1>3, BeginAdoptionGood DEF Good, Records, ChildOrNone
      <3> HIDE DEF b, copies
      <3>3. [b EXCEPT !.collecting = @ \cup copies(first)].killed = b.killed
        BY <3>2 DEF World
      <3>4. QED
        BY Zenon, <3>1, <3>3 DEF b
    <2>3. QED
      BY Zenon, <1>4, <2>1, <2>2
  <1>8. QED
    BY Zenon, <1>6, <1>7, InvGood, InvGoodNext DEF Boot

-----------------------------------------------------------------------------
(* The theorems. *)

\* Every step of the loop, of a worker, of the machine and of the service keeps
\* the invariant, and the grace of every deadline.
LEMMA NextInv == Inv /\ [Next]_vars => Inv' /\ GraceKept
  <1>1. SUFFICES ASSUME Inv, [Next]_vars PROVE Inv' /\ GraceKept
    OBVIOUS
  <1>2. CASE UNCHANGED vars
    <2>1. UNCHANGED <<w, service, inStack, want, used>>
      BY Zenon, <1>2 DEF vars
    <2>2. Good(w', Armed)
      BY Zenon, <1>1, <2>1, InvGood
    <2>3. Inv' /\ Armed \subseteq w'.events
      BY ZenonT(60), <1>1, <2>1, <2>2, InvGood, InvGoodNext
    <2>4. QED
      BY <2>3, ArmedKept
  <1>3. w'.killed = w.killed => GraceKept
    BY DEF GraceKept
  <1>4. CASE Next
    <2>1. CASE Commands \/ (\E present \in BOOLEAN : ChangeStack(present)) \/ EditStackOffline
      BY Zenon, <1>1, <2>1, CommandsInv, StackInv, ArmedKept
    <2>2. CASE Events
      BY Zenon, <1>1, <2>2, EventsInv, ForceStopInv, ArmedKept
    <2>3. CASE Workers \/ Machine \/ Shutdown
      BY Zenon, <1>1, <2>3, WorkersInv, MachineInv, ShutdownInv, ArmedKept
    <2>4. CASE EndService \/ Crash \/ Boot
      BY Zenon, <1>1, <1>3, <2>4, EndInv, BootInv
    <2>5. QED
      BY Zenon, <1>4, <2>1, <2>2, <2>3, <2>4 DEF Next
  <1>5. QED
    BY Zenon, <1>1, <1>2, <1>4

\* The inductive invariant holds throughout.
LEMMA SpecInv == Spec => []Inv
  BY InitInv, NextInv, PTL DEF Spec

\* The books, the events in flight and the machine keep their types, whatever
\* the handlers, workers and crashes do (Supervisor, ServiceEvent).
THEOREM TypesHold == Spec => []TypeOK
  <1>1. Inv => TypeOK
    BY DEF Inv, Good, TypeOK, Budget
  <1>2. QED
    BY <1>1, SpecInv, PTL

\* Only one thing ever stands behind a pane, and a launch in flight is of the
\* current generation unless a shutdown came between (take_launch, spawn_with,
\* install_terminal, leave_unsupervised).
THEOREM OneThingBehindPane == Spec => []LaunchIsCurrent
  <1>1. Inv => LaunchIsCurrent
    BY DEF Inv, Good, Consistent, LaunchIsCurrent
  <1>2. QED
    BY <1>1, SpecInv, PTL

\* A restart timer that can still fire never finds its process live or starting
\* (handle_respawn, bump_generation, schedule_restart).
THEOREM TimersStayIdle == Spec => []TimerIsIdle
  <1>1. Inv => TimerIsIdle
    BY DEF Inv, Good, IdleTimers, Idle, TimersOf, Timed, TimerIsIdle
  <1>2. QED
    BY <1>1, SpecInv, PTL

\* A deadline that kills is the newest armed: a stop asked again, or a new run,
\* is never cut short by an older stop's deadline (handle_force_stop,
\* request_graceful_transition, bump_generation).
THEOREM GraceIsHonoured == Spec => GraceHonoured
  <1>1. Inv /\ [Next]_vars => [GraceKept]_vars
    BY NextInv
  <1>2. Spec => [][GraceKept]_vars
    BY <1>1, SpecInv, PTL DEF Spec
  <1>3. QED
    BY <1>2, PTL DEF GraceHonoured, GraceKept

=============================================================================
