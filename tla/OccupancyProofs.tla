-------------------------- MODULE OccupancyProofs --------------------------
(***************************************************************************)
(* Once its last report is over a shell counts where it is, and a project  *)
(* some shell counts in has no idle stop pending, for every number of      *)
(* shells, prompts and reports under way, and through every exit, crash    *)
(* and start of the service.                                               *)
(*                                                                         *)
(* The heart of the inductive invariant is LatestOK: where the latest      *)
(* report of a shell is, and which of the shell's record and the service's *)
(* table have it by then.  The other parts say that no report, record or   *)
(* entry of the table is newer than that one, or as new and different.     *)
(***************************************************************************)
EXTENDS Occupancy, TLAPS

Rep == [seq : Nat, inside : BOOLEAN]
Stages == {"begin", "ask", "absent", "again", "save"}
AnyHook == [shell : Shell, seq : Nat, inside : BOOLEAN, env : BOOLEAN, stage : Stages]
Service == [up : BOOLEAN, loaded : BOOLEAN, seen : [Shell -> Rep], envs : SUBSET Shell,
            left : Left, recorded : Left, idleStopping : BOOLEAN,
            waiting : Shell \cup {NoShell}, gone : SUBSET Shell]

\* A report is not newer than the shell's latest, and is that one if as new.
Agrees(r, s) ==
    r.seq <= shell[s].seq /\ (r.seq = shell[s].seq => r.inside = shell[s].inside)

ShellsOK ==
    /\ shell \in [Shell -> [alive : BOOLEAN, inside : BOOLEAN, seq : Nat]]
    /\ \A s \in Shell : shell[s].seq = 0 => ~shell[s].inside

HooksOK ==
    /\ hooks \subseteq AnyHook
    /\ \A k \in hooks : Agrees(k, k.shell)
    /\ \A k, l \in hooks : k.shell = l.shell /\ k.seq = l.seq => k = l

StoredOK == stored \in [Shell -> Rep] /\ \A s \in Shell : Agrees(stored[s], s)

ServiceOK ==
    /\ v \in Service
    /\ \A s \in Shell : Agrees(v.seen[s], s)
    /\ \A s \in v.gone : ~shell[s].alive
    /\ v.left # None => Inside(v) = {}

IdleOK == queue \in Seq(Left) /\ idle \in Left

\* How far the latest report k of a shell is.
Reached(k) ==
    \/ k.stage = "begin" /\ stored[k.shell].seq < k.seq
    \/ k.stage \in {"ask", "absent"}
    \/ k.stage = "again" /\ stored[k.shell].seq = k.seq
    \/ k.stage = "save" /\ v.up /\ v.seen[k.shell].seq = k.seq

Settled(s) == stored[s].seq = shell[s].seq /\ (v.up => v.seen[s].seq = shell[s].seq)

UnderWay(s) == \E k \in hooks : k.shell = s /\ k.seq = shell[s].seq /\ Reached(k)

LatestOK ==
    \A s \in Shell : shell[s].alive /\ shell[s].seq > 0 /\ s \notin torn => UnderWay(s) \/ Settled(s)

IInv == ShellsOK /\ HooksOK /\ StoredOK /\ ServiceOK /\ IdleOK /\ LatestOK

-----------------------------------------------------------------------------
(* The service's table, and the rest of a turn. *)

\* The times left, and the shell that is none.
LEMMA Basics ==
    /\ None \in Left /\ Idle \in Left /\ NoShell \notin Shell
    /\ \A t \in Left : t \in Int /\ Later(t) \in Left /\ (Later(t) = None <=> t = None)
  BY OccupancyAssumption DEF Left, None, Later

\* The latest reports of live shells are where they were.
LEMMA LatestSame ==
    ASSUME LatestOK, hooks \subseteq hooks', torn \subseteq torn', v'.up = v.up,
           \A s \in Shell : shell'[s].seq = shell[s].seq /\ (shell'[s].alive => shell[s].alive),
           \A s \in Shell : shell[s].alive =>
               stored'[s].seq = stored[s].seq /\ v'.seen[s].seq = v.seen[s].seq
    PROVE  LatestOK'
  <1>1. SUFFICES ASSUME NEW s \in Shell, shell[s].alive, shell[s].seq > 0, s \notin torn
                 PROVE  UnderWay(s)' \/ Settled(s)'
    BY Zenon DEF LatestOK
  <1>2. /\ shell'[s].seq = shell[s].seq
        /\ stored'[s].seq = stored[s].seq /\ v'.seen[s].seq = v.seen[s].seq
    BY Zenon, <1>1
  <1>3. CASE Settled(s)
    BY Zenon, <1>2, <1>3 DEF Settled
  <1>4. CASE UnderWay(s)
    <2>1. PICK k \in hooks : k.shell = s /\ k.seq = shell[s].seq /\ Reached(k)
      BY Zenon, <1>4 DEF UnderWay
    <2>2. Reached(k)'
      BY Zenon, <1>2, <2>1 DEF Reached
    <2>3. k \in hooks'
      BY Zenon
    <2>4. QED
      BY Zenon, <1>2, <2>1, <2>2, <2>3 DEF UnderWay
  <1>5. QED
    BY Zenon, <1>1, <1>3, <1>4 DEF LatestOK

\* A service that differs from another only in what a turn may change.
Same(x, y) ==
    /\ y \in Service
    /\ y.up = x.up /\ y.seen = x.seen /\ y.gone = x.gone
    /\ y.left \in {x.left, None}

Kept(x, y) == Same(x, y) /\ y.recorded = x.recorded

\* No report yet agrees with any shell.
LEMMA UnknownAgrees ==
    ASSUME ShellsOK
    PROVE  Unknown \in Rep /\ \A s \in Shell : Agrees(Unknown, s)
  <1>1. Unknown \in Rep /\ Unknown.seq = 0 /\ Unknown.inside = FALSE
    BY DEF Unknown, Rep
  <1>2. \A s \in Shell : shell[s].seq \in Nat /\ shell[s].inside \in BOOLEAN
                         /\ (shell[s].seq = 0 => ~shell[s].inside)
    BY DEF ShellsOK
  <1>3. ASSUME NEW s \in Shell
        PROVE  0 <= shell[s].seq /\ (0 = shell[s].seq => FALSE = shell[s].inside)
    BY <1>2
  <1>4. QED
    BY Zenon, <1>1, <1>3 DEF Agrees

\* The two halves of what a handler works on.
LEMMA WorldParts ==
    ASSUME NEW x, NEW p
    PROVE  World(x, p).x = x /\ World(x, p).p = p
  BY DEF World

\* Entering changes no report and none of the shells counted.
LEMMA EnterSame ==
    ASSUME NEW w, w.x \in Service, NEW s \in Shell
    PROVE  Kept(w.x, Enter(w, s).x)
  <1> DEFINE waits == w.x.idleStopping /\ w.p = "stopping"
             x == w.x
             y == [x EXCEPT !.loaded = TRUE, !.idleStopping = waits, !.waiting = IF waits THEN s ELSE @]
  <1>1. Enter(w, s).x = y
    BY WorldParts DEF Enter
  <1>2. waits \in BOOLEAN
    BY DEF Service
  <1> HIDE DEF waits, x
  <1>3. x \in Service
    BY DEF x
  <1>4. /\ y \in Service /\ y.up = x.up /\ y.seen = x.seen /\ y.gone = x.gone /\ y.left = x.left
        /\ y.recorded = x.recorded
    BY Zenon, <1>2, <1>3 DEF Service
  <1>5. QED
    BY Zenon, <1>1, <1>4 DEF Same, Kept, x

\* Nor does entering a project that the idle stop stopped.
LEMMA EnterStoppedSame ==
    ASSUME NEW w, w.x \in Service
    PROVE  Kept(w.x, EnterStopped(w).x)
  <1> DEFINE x == [w.x EXCEPT !.waiting = NoShell]
             z == World(x, w.p)
  <1>1. x \in Service /\ Kept(w.x, x)
    BY DEF Service, Same, Kept
  <1>2. Kept(w.x, w.x)
    BY DEF Same, Kept
  <1>3. z.x = x
    BY Zenon, WorldParts
  <1>4. EnteringShell(w.x) \subseteq Shell
    BY DEF EnteringShell, Inside
  <1>5. ASSUME NEW s \in Shell
        PROVE  Kept(w.x, Enter(z, s).x)
    <2> HIDE DEF x, z
    <2>1. Kept(x, Enter(z, s).x)
      BY <1>1, <1>3, EnterSame
    <2>2. QED
      BY <1>1, <2>1 DEF Same, Kept
  <1>6. EnteringShell(w.x) # {} => (CHOOSE s \in EnteringShell(w.x) : TRUE) \in Shell
    BY Zenon, <1>4
  <1>7. \/ EnterStopped(w) = w
        \/ EnterStopped(w) = z
        \/ EnteringShell(w.x) # {} /\ EnterStopped(w) = Enter(z, CHOOSE s \in EnteringShell(w.x) : TRUE)
    BY Zenon DEF EnterStopped
  <1> HIDE DEF x, z
  <1>8. QED
    BY Zenon, <1>1, <1>2, <1>3, <1>5, <1>6, <1>7

\* Nor does the idle stop itself.
LEMMA StopIdleSame ==
    ASSUME NEW w, w.x \in Service
    PROVE  Kept(w.x, StopIdle(w).x)
  <1> DEFINE x == w.x
             y == [x EXCEPT !.left = None, !.idleStopping = IF w.p = "down" THEN @ ELSE TRUE]
  <1>1. Kept(x, x)
    BY DEF Same, Kept
  <1>2. StopIdle(w).x = x \/ StopIdle(w).x = y
    BY WorldParts DEF StopIdle
  <1>3. Kept(x, y)
    <2> HIDE DEF x
    <2>1. x \in Service
      BY DEF x
    <2>2. QED
      BY Zenon, <2>1, Basics DEF Same, Kept, Service
  <1>4. QED
    BY Zenon, <1>1, <1>2, <1>3

\* What the turn that x is handed to records.
Recorded(x) ==
    /\ v'.recorded = v'.left /\ due' = v'.left
    /\ queue' = IF v'.left = x.recorded THEN queue ELSE Append(queue, v'.left)

\* What follows the handler in a turn leaves the table as it is, and the idle
\* stop, or clears it.
LEMMA RestOfTurn ==
    ASSUME NEW w, w.x \in Service, queue \in Seq(Left),
           RecordIdleStops(StopIdle(EnterStopped(w))), due' = StopIdle(EnterStopped(w)).x.left
    PROVE  Same(w.x, v') /\ queue' \in Seq(Left) /\ Recorded(w.x)
  <1> DEFINE e == EnterStopped(w)
             u == StopIdle(e)
  <1>1. Kept(w.x, e.x)
    BY EnterStoppedSame
  <1> HIDE DEF e
  <1>2. Kept(e.x, u.x)
    BY <1>1, StopIdleSame DEF Same, Kept
  <1>3. RecordIdleStops(u) /\ due' = u.x.left
    BY DEF e
  <1> HIDE DEF u
  <1> DEFINE x == u.x
  <1>4. /\ v' = [x EXCEPT !.recorded = x.left] /\ due' = x.left
        /\ queue' = IF x.left = x.recorded THEN queue ELSE Append(queue, x.left)
    BY Zenon, <1>3 DEF RecordIdleStops
  <1>5. x \in Service
    BY <1>2 DEF Same, Kept
  <1>6. Kept(w.x, x)
    BY <1>1, <1>2 DEF Same, Kept
  <1> HIDE DEF x
  <1>7. /\ v' \in Service /\ v'.up = x.up /\ v'.seen = x.seen /\ v'.gone = x.gone /\ v'.left = x.left
        /\ v'.recorded = x.left
    BY Zenon, <1>4, <1>5 DEF Service
  <1>8. queue' \in Seq(Left)
    <2>1. x.left \in Left
      BY <1>5 DEF Service
    <2>2. QED
      BY <1>4, <2>1
  <1>9. Recorded(w.x)
    BY Zenon, <1>4, <1>6, <1>7 DEF Kept, Recorded
  <1>10. Same(w.x, v')
    BY <1>6, <1>7 DEF Same, Kept
  <1>11. QED
    BY <1>8, <1>9, <1>10

\* A turn of the loop ends by recording the idle stop it leaves pending.
LEMMA TurnSame ==
    ASSUME NEW w, w.x \in Service, queue \in Seq(Left), Turn(w)
    PROVE  Same(w.x, v') /\ queue' \in Seq(Left) /\ Recorded(w.x)
  BY Zenon, RestOfTurn DEF Turn

\* A change of who is inside arms the idle stop or holds it off, so that it is
\* pending only with nobody inside.
LEMMA OccupancyKept ==
    ASSUME NEW x \in Service, NEW y \in Service, y.left = x.left, x.left # None => Inside(x) = {}
    PROVE  LET z == OccupancyChanged(x, y) IN
           /\ z \in Service
           /\ z.up = y.up /\ z.seen = y.seen /\ z.gone = y.gone /\ z.recorded = y.recorded
           /\ z.left # None => Inside(z) = {}
  <1> DEFINE z == OccupancyChanged(x, y)
             emptied == [y EXCEPT !.waiting = NoShell, !.left = IF y.loaded THEN Idle ELSE @]
             filled == [y EXCEPT !.left = None]
  <1>1. \/ Inside(x) # {} /\ Inside(y) = {} /\ z = emptied
        \/ Inside(x) = {} /\ Inside(y) # {} /\ z = filled
        \/ (Inside(x) = {} <=> Inside(y) = {}) /\ z = y
    BY Zenon DEF OccupancyChanged
  <1>2. /\ emptied \in Service
        /\ emptied.up = y.up /\ emptied.seen = y.seen /\ emptied.gone = y.gone /\ emptied.recorded = y.recorded
    BY Zenon, Basics DEF Service
  <1>3. /\ filled \in Service /\ filled.left = None
        /\ filled.up = y.up /\ filled.seen = y.seen /\ filled.gone = y.gone /\ filled.recorded = y.recorded
    BY Basics DEF Service
  <1> HIDE DEF z, emptied, filled
  <1>4. /\ z \in Service /\ z.up = y.up /\ z.seen = y.seen /\ z.gone = y.gone
        /\ z.recorded = y.recorded
    BY Zenon, <1>1, <1>2, <1>3
  <1>5. Inside(z) = Inside(y)
    BY Zenon, <1>4 DEF Inside
  <1>6. z.left # None => Inside(z) = {}
    BY Zenon, <1>1, <1>3, <1>5
  <1>7. QED
    BY Zenon, <1>4, <1>6 DEF z

\* A turn whose handler made w keeps what the table has to satisfy.
LEMMA TableKept ==
    ASSUME NEW x \in Service, Same(x, v'), ShellsOK, shell' = shell,
           \A s \in Shell : Agrees(x.seen[s], s),
           \A s \in x.gone : ~shell[s].alive,
           x.left # None => Inside(x) = {}
    PROVE  ServiceOK'
  <1>1. v' \in Service /\ v'.up = x.up /\ v'.seen = x.seen /\ v'.gone = x.gone
        /\ (v'.left = x.left \/ v'.left = None)
    BY DEF Same
  <1>2. v'.left # None => Inside(v') = {}
    BY Zenon, <1>1 DEF Inside
  <1>3. \A s \in Shell : Agrees(v.seen[s], s)'
    BY Zenon, <1>1 DEF Agrees
  <1>4. \A s \in v'.gone : ~shell'[s].alive
    BY Zenon, <1>1
  <1>5. QED
    BY Zenon, <1>1, <1>2, <1>3, <1>4 DEF ServiceOK, Service, Rep, Inside

-----------------------------------------------------------------------------
(* The steps. *)

\* At first no shell has reported.
LEMMA InitOK == Init => IInv
  <1> SUFFICES ASSUME Init
               PROVE  IInv
    OBVIOUS
  <1>1. ShellsOK /\ HooksOK
    BY DEF Init, ShellsOK, HooksOK
  <1>2. Unknown \in Rep
    BY <1>1, UnknownAgrees
  <1>3. \A s \in Shell : Agrees(Unknown, s)
    BY <1>1, UnknownAgrees
  <1>4. StoredOK
    BY <1>2, <1>3 DEF Init, StoredOK
  <1>5. ServiceOK
    <2>1. v = Off
      BY DEF Init
    <2>2. v \in Service /\ v.seen = [s \in Shell |-> Unknown] /\ v.gone = {} /\ v.left = None
      BY <1>2, <2>1, Basics DEF Off, Service
    <2>3. QED
      BY Zenon, <1>3, <2>2 DEF ServiceOK
  <1>6. IdleOK
    BY Basics DEF Init, IdleOK
  <1>7. LatestOK
    BY DEF Init, LatestOK
  <1>8. QED
    BY <1>1, <1>4, <1>5, <1>6, <1>7 DEF IInv

\* A prompt starts a report newer than the ones before.
LEMMA PromptOK == ASSUME NEW s \in Shell PROVE IInv /\ Prompt(s) => IInv'
  <1> SUFFICES ASSUME IInv, Prompt(s)
               PROVE  IInv'
    OBVIOUS
  <1> DEFINE q == shell[s].seq + 1
  <1>1. PICK here \in BOOLEAN :
          /\ shell' = [shell EXCEPT ![s].inside = here, ![s].seq = @ + 1]
          /\ hooks' = hooks \cup {[shell |-> s, seq |-> q, inside |-> here,
                                   env |-> FALSE, stage |-> "begin"]}
    BY Zenon DEF Prompt
  <1>2. UNCHANGED <<stored, v, queue, idle, torn>>
    BY DEF Prompt
  <1>3. ShellsOK /\ shell[s].seq \in Nat
    BY DEF IInv, ShellsOK
  <1>4. /\ ShellsOK'
        /\ shell'[s].seq = q /\ shell'[s].inside = here
        /\ \A t \in Shell : shell'[t].alive = shell[t].alive
        /\ \A t \in Shell : t # s => shell'[t] = shell[t]
    BY <1>1, <1>3 DEF ShellsOK
  <1>5. q \in Nat /\ q > shell[s].seq
    BY <1>3
  <1>6. PICK k \in AnyHook : /\ k.shell = s /\ k.seq = q /\ k.inside = here /\ k.stage = "begin"
                             /\ hooks' = hooks \cup {k}
    BY Zenon, <1>1, <1>5 DEF AnyHook, Stages
  <1>7. hooks' = hooks \cup {k}
    BY <1>6
  <1> HIDE DEF q
  <1>8. ASSUME NEW r, NEW t \in Shell, r.seq \in Nat, Agrees(r, t)
        PROVE  Agrees(r, t)' /\ (t = s => r.seq < q)
    <2>1. CASE t = s
      <3>1. r.seq <= shell[s].seq
        BY <1>8, <2>1 DEF Agrees
      <3>2. r.seq < q
        BY <1>3, <1>5, <1>8, <3>1
      <3>3. r.seq <= q /\ r.seq # q
        BY <1>5, <1>8, <3>2
      <3>4. QED
        BY <1>4, <2>1, <3>2, <3>3 DEF Agrees
    <2>2. CASE t # s
      BY <1>4, <1>8, <2>2 DEF Agrees
    <2>3. QED
      BY <2>1, <2>2
  <1>9. \A l \in hooks : l \in AnyHook /\ l.shell \in Shell /\ l.seq \in Nat
    BY DEF IInv, HooksOK, AnyHook
  <1>10. \A l \in hooks : l.shell = s => l.seq < q
    BY Zenon, <1>8, <1>9 DEF IInv, HooksOK
  <1>11. HooksOK'
    <2>1. \A l \in hooks' : l \in AnyHook
      BY Zenon, <1>6, <1>7, <1>9
    <2>2. ASSUME NEW l \in hooks'
          PROVE  Agrees(l, l.shell)'
      <3>1. CASE l \in hooks
        <4>1. Agrees(l, l.shell)
          BY <3>1 DEF IInv, HooksOK
        <4>2. l.shell \in Shell /\ l.seq \in Nat
          BY <1>9, <3>1
        <4>3. Agrees(l, l.shell)'
          <5> DEFINE t == l.shell
          <5>1. t \in Shell /\ Agrees(l, t)
            BY <4>1, <4>2
          <5> HIDE DEF t
          <5>2. Agrees(l, t)'
            BY <1>8, <4>2, <5>1
          <5>3. QED
            BY <5>2 DEF t
        <4>4. QED
          BY <4>3
      <3>2. CASE l = k
        BY <1>4, <1>5, <1>6, <3>2 DEF Agrees
      <3>3. QED
        BY <1>7, <3>1, <3>2
    <2>3. ASSUME NEW l \in hooks', NEW m \in hooks', l.shell = m.shell, l.seq = m.seq
          PROVE  l = m
      <3>1. \A n \in hooks : ~(n.shell = k.shell /\ n.seq = k.seq)
        BY <1>5, <1>6, <1>9, <1>10
      <3>2. QED
        BY Zenon, <1>7, <2>3, <3>1 DEF IInv, HooksOK
    <2>4. QED
      BY Zenon, <2>1, <2>2, <2>3 DEF HooksOK, AnyHook, Stages
  <1>12. StoredOK'
    <2>1. \A t \in Shell : stored[t].seq \in Nat /\ Agrees(stored[t], t)
      BY DEF IInv, StoredOK, Rep
    <2>2. \A t \in Shell : Agrees(stored[t], t)'
      BY <1>2, <1>8, <2>1 DEF Agrees
    <2>3. QED
      BY <1>2, <2>2 DEF IInv, StoredOK, Rep
  <1>13. ServiceOK'
    <2>1. \A t \in Shell : v.seen[t].seq \in Nat /\ Agrees(v.seen[t], t)
      BY DEF IInv, ServiceOK, Service, Rep
    <2>2. \A t \in Shell : Agrees(v.seen[t], t)'
      BY <1>2, <1>8, <2>1 DEF Agrees
    <2>3. v.gone \subseteq Shell
      BY DEF IInv, ServiceOK, Service
    <2>4. \A t \in v'.gone : ~shell'[t].alive
      BY <1>2, <1>4, <2>3 DEF IInv, ServiceOK
    <2>5. QED
      BY Zenon, <1>2, <2>2, <2>4 DEF IInv, ServiceOK, Service, Rep, Inside
  <1>14. IdleOK'
    BY <1>2 DEF IInv, IdleOK
  <1>15. LatestOK'
    <2>1. SUFFICES ASSUME NEW t \in Shell, shell'[t].alive, shell'[t].seq > 0, t \notin torn'
                   PROVE  UnderWay(t)' \/ Settled(t)'
      BY DEF LatestOK
    <2>2. CASE t = s
      <3>1. stored[s].seq < q
        <4>1. stored[s].seq \in Nat /\ Agrees(stored[s], s)
          BY DEF IInv, StoredOK, Rep
        <4>2. QED
          BY Zenon, <1>8, <4>1
      <3>2. Reached(k)'
        BY <1>2, <1>6, <3>1 DEF Reached
      <3>3. k \in hooks' /\ k.shell = t /\ k.seq = shell'[t].seq
        BY <1>4, <1>6, <1>7, <2>2
      <3>4. QED
        BY Zenon, <3>2, <3>3 DEF UnderWay
    <2>3. CASE t # s
      <3>1. UnderWay(t) \/ Settled(t)
        BY <1>2, <1>4, <2>1, <2>3 DEF IInv, LatestOK
      <3>2. hooks \subseteq hooks'
        BY <1>7
      <3>3. QED
        BY Zenon, <1>2, <1>4, <2>3, <3>1, <3>2 DEF UnderWay, Settled, Reached
    <2>4. QED
      BY <2>2, <2>3
  <1>16. QED
    BY <1>4, <1>11, <1>12, <1>13, <1>14, <1>15 DEF IInv

\* A shell that ended reports nothing new.
LEMMA ShellEndsOK == ASSUME NEW s \in Shell PROVE IInv /\ ShellEnds(s) => IInv'
  <1> SUFFICES ASSUME IInv, ShellEnds(s)
               PROVE  IInv'
    OBVIOUS
  <1>1. shell' = [shell EXCEPT ![s].alive = FALSE] /\ UNCHANGED <<hooks, stored, v, queue, idle, torn>>
    BY DEF ShellEnds
  <1>2. /\ ShellsOK'
        /\ \A t \in Shell : /\ shell'[t].seq = shell[t].seq /\ shell'[t].inside = shell[t].inside
                            /\ shell'[t].alive => shell[t].alive
    BY Zenon, <1>1 DEF IInv, ShellsOK
  <1>3. \A r : \A t \in Shell : Agrees(r, t) => Agrees(r, t)'
    BY Zenon, <1>2 DEF Agrees
  <1>4. HooksOK'
    <2>1. \A k \in hooks : k.shell \in Shell
      BY DEF IInv, HooksOK, AnyHook
    <2>2. \A k \in hooks : Agrees(k, k.shell)'
      BY Zenon, <1>2, <2>1 DEF IInv, HooksOK, Agrees
    <2>3. QED
      BY Zenon, <1>1, <2>2 DEF IInv, HooksOK, AnyHook, Stages
  <1>5. StoredOK'
    BY Zenon, <1>1, <1>2 DEF IInv, StoredOK, Rep, Agrees
  <1>6. ServiceOK'
    <2>1. v.gone \subseteq Shell
      BY DEF IInv, ServiceOK, Service
    <2>2. QED
      BY ZenonT(60), <1>1, <1>2, <2>1 DEF IInv, ServiceOK, Service, Rep, Inside, Agrees
  <1>7. IdleOK'
    BY <1>1 DEF IInv, IdleOK
  <1>8. LatestOK'
    BY Zenon, <1>1, <1>2, LatestSame DEF IInv
  <1>9. QED
    BY <1>2, <1>4, <1>5, <1>6, <1>7, <1>8 DEF IInv

\* Reports that go on, one of them moved to another stage or over.
LEMMA HooksGoOn ==
    ASSUME IInv, shell' = shell, NEW k \in hooks,
           \/ hooks' \subseteq hooks
           \/ \E l \in AnyHook : /\ l.shell = k.shell /\ l.seq = k.seq /\ l.inside = k.inside
                                 /\ hooks' = (hooks \ {k}) \cup {l}
    PROVE  ShellsOK' /\ HooksOK'
  <1>1. ShellsOK'
    BY DEF IInv, ShellsOK
  <1>2. \A r : \A t : Agrees(r, t)' <=> Agrees(r, t)
    BY Zenon DEF Agrees
  <1>3. CASE hooks' \subseteq hooks
    <2>1. \A m \in hooks' : Agrees(m, m.shell)'
      BY Zenon, <1>3 DEF IInv, HooksOK, Agrees
    <2>2. QED
      BY Zenon, <1>1, <1>3, <2>1 DEF IInv, HooksOK, AnyHook, Stages
  <1>4. CASE \E l \in AnyHook : /\ l.shell = k.shell /\ l.seq = k.seq /\ l.inside = k.inside
                                /\ hooks' = (hooks \ {k}) \cup {l}
    <2>1. PICK l \in AnyHook : /\ l.shell = k.shell /\ l.seq = k.seq /\ l.inside = k.inside
                               /\ hooks' = (hooks \ {k}) \cup {l}
      BY <1>4
    <2>2. hooks' \subseteq AnyHook
      BY Zenon, <2>1 DEF IInv, HooksOK
    <2>3. ASSUME NEW m \in hooks'
          PROVE  Agrees(m, m.shell)'
      BY ZenonT(60), <2>1 DEF IInv, HooksOK, Agrees
    <2>4. ASSUME NEW m \in hooks', NEW n \in hooks', m.shell = n.shell, m.seq = n.seq
          PROVE  m = n
      <3>1. \A h \in hooks \ {k} : ~(h.shell = k.shell /\ h.seq = k.seq)
        BY Zenon DEF IInv, HooksOK
      <3>2. QED
        BY Zenon, <2>1, <2>4, <3>1 DEF IInv, HooksOK
    <2>5. QED
      BY Zenon, <1>1, <2>2, <2>3, <2>4 DEF HooksOK, AnyHook, Stages
  <1>5. QED
    BY <1>3, <1>4

\* A step of one report leaves the latest reports of the other shells where
\* they are, and that of its own shell if it is over, or another one.
LEMMA OthersStay ==
    ASSUME IInv, shell' = shell, torn' = torn, NEW k \in hooks, hooks \ {k} \subseteq hooks',
           NEW s \in Shell, shell[s].alive, shell[s].seq > 0, s \notin torn,
           stored[s].seq = shell[s].seq => stored'[s].seq = shell[s].seq,
           stored[s].seq < shell[s].seq /\ ~(k.shell = s /\ k.seq = shell[s].seq)
               => stored'[s].seq < shell[s].seq,
           v'.up = v.up,
           v.seen[s].seq = shell[s].seq => v'.seen[s].seq = shell[s].seq
    PROVE  UnderWay(s)' \/ Settled(s)' \/ (k.shell = s /\ k.seq = shell[s].seq /\ Reached(k))
  <1>1. UnderWay(s) \/ Settled(s)
    BY DEF IInv, LatestOK
  <1>2. CASE Settled(s)
    BY Zenon, <1>2 DEF Settled
  <1>3. CASE UnderWay(s)
    <2>1. PICK l \in hooks : l.shell = s /\ l.seq = shell[s].seq /\ Reached(l)
      BY <1>3 DEF UnderWay
    <2>2. CASE l = k
      BY <2>1, <2>2
    <2>3. CASE l # k
      <3>1. ~(k.shell = s /\ k.seq = shell[s].seq)
        BY ZenonT(60), <2>1, <2>3 DEF IInv, HooksOK
      <3>2. l \in hooks'
        BY <2>3
      <3>3. Reached(l)'
        BY Zenon, <2>1, <3>1 DEF Reached
      <3>4. QED
        BY Zenon, <2>1, <3>2, <3>3 DEF UnderWay
    <2>4. QED
      BY <2>2, <2>3
  <1>4. QED
    BY <1>1, <1>2, <1>3

\* A report learns whether an older one is on record.
LEMMA HookReadsOK == ASSUME NEW k \in hooks PROVE IInv /\ HookReads(k) => IInv'
  <1> SUFFICES ASSUME IInv, HookReads(k)
               PROVE  IInv'
    OBVIOUS
  <1> DEFINE m == [k EXCEPT !.stage = "ask", !.env = k.inside /\ ~stored[k.shell].inside]
             goes == shell[k.shell].alive /\ k.seq > stored[k.shell].seq
  <1>2. UNCHANGED <<shell, stored, v, queue, idle, torn>>
    BY DEF HookReads
  <1>3. k \in AnyHook /\ stored \in [Shell -> Rep]
    BY DEF IInv, HooksOK, StoredOK
  <1>4. PICK l \in AnyHook : /\ l.shell = k.shell /\ l.seq = k.seq /\ l.inside = k.inside
                             /\ l.stage = "ask" /\ l = m
    <2>1. m \in AnyHook /\ m.shell = k.shell /\ m.seq = k.seq /\ m.inside = k.inside /\ m.stage = "ask"
      BY Zenon, <1>3 DEF AnyHook, Stages, Rep
    <2> HIDE DEF m
    <2>2. QED
      BY Zenon, <2>1
  <1>1. k.stage = "begin" /\ hooks' = (hooks \ {k}) \cup (IF goes THEN {l} ELSE {})
    BY Zenon, <1>4 DEF HookReads
  <1> HIDE DEF m
  <1>5. \/ hooks' \subseteq hooks
        \/ hooks' = (hooks \ {k}) \cup {l}
    BY <1>1
  <1>6. ShellsOK' /\ HooksOK'
    BY Zenon, <1>2, <1>4, <1>5, HooksGoOn
  <1>7. StoredOK' /\ ServiceOK' /\ IdleOK'
    BY Zenon, <1>2 DEF IInv, StoredOK, ServiceOK, IdleOK, Agrees, Inside, Service, Rep
  <1>8. LatestOK'
    <2>1. SUFFICES ASSUME NEW s \in Shell, shell[s].alive, shell[s].seq > 0, s \notin torn
                   PROVE  UnderWay(s)' \/ Settled(s)'
      BY Zenon, <1>2 DEF LatestOK
    <2>2. SUFFICES ASSUME k.shell = s, k.seq = shell[s].seq, Reached(k)
                   PROVE  UnderWay(s)'
      BY Zenon, <1>1, <1>2, <2>1, OthersStay
    <2>3. stored[s].seq < k.seq
      BY <1>1, <2>2 DEF Reached
    <2>4. k.seq > stored[s].seq
      BY <1>3, <2>3 DEF AnyHook, Rep
    <2>5. l \in hooks'
      BY <1>1, <2>1, <2>2, <2>4
    <2>6. Reached(l)'
      BY ZenonT(60), <1>4 DEF Reached
    <2>7. QED
      BY Zenon, <1>2, <1>4, <2>2, <2>5, <2>6 DEF UnderWay
  <1>9. QED
    BY <1>6, <1>7, <1>8 DEF IInv

\* The service took the report.
LEMMA ReportTaken ==
    ASSUME IInv, NEW k \in hooks, NEW p
    PROVE  LET x == ShellReport(World(v, p), k).x IN
           /\ x \in Service /\ x.up = v.up /\ x.gone = v.gone /\ x.recorded = v.recorded
           /\ x.left # None => Inside(x) = {}
           /\ \A s \in Shell : Agrees(x.seen[s], s)
           /\ \A s \in Shell : v.seen[s].seq = shell[s].seq => x.seen[s].seq = shell[s].seq
           /\ shell[k.shell].alive /\ k.seq = shell[k.shell].seq => x.seen[k.shell].seq = k.seq
  <1> DEFINE w == World(v, p)
             c == k.shell
             r == [seq |-> k.seq, inside |-> k.inside]
             fresh == IsNewer(v, c, r)
             y == Put(v, c, r)
             z == OccupancyChanged(v, y)
             put == IF fresh THEN z ELSE v
             known == IF fresh /\ k.env THEN [put EXCEPT !.envs = @ \cup {c}] ELSE put
             x == ShellReport(w, k).x
  <1>1. w.x = v /\ w.p = p
    BY Zenon, WorldParts
  <1>2. k \in AnyHook /\ v \in Service /\ Agrees(k, c)
    BY DEF IInv, HooksOK, ServiceOK
  <1>3. c \in Shell /\ k.seq \in Nat /\ r \in Rep /\ r.seq = k.seq /\ r.inside = k.inside
    BY <1>2 DEF AnyHook, Rep
  <1>4. v.seen \in [Shell -> Rep] /\ ShellsOK
    BY <1>2 DEF Service, IInv
  <1>5. Agrees(r, c)
    BY Zenon, <1>2, <1>3 DEF Agrees
  <1>6. fresh <=> k.seq > v.seen[c].seq
    BY Zenon, <1>3 DEF IsNewer
  <1>7. /\ put \in Service /\ put.up = v.up /\ put.gone = v.gone /\ put.recorded = v.recorded
        /\ put.left # None => Inside(put) = {}
        /\ put.seen = IF fresh THEN [v.seen EXCEPT ![c] = r] ELSE v.seen
    <2> HIDE DEF c, r, fresh
    <2>1. /\ y \in Service /\ y.left = v.left /\ y.up = v.up /\ y.gone = v.gone
          /\ y.recorded = v.recorded
          /\ y.seen = [v.seen EXCEPT ![c] = r]
      BY <1>2, <1>3, <1>4 DEF Put, Service
    <2>2. v.left # None => Inside(v) = {}
      BY DEF IInv, ServiceOK
    <2> HIDE DEF y
    <2>3. /\ z \in Service /\ z.up = y.up /\ z.seen = y.seen /\ z.gone = y.gone /\ z.recorded = y.recorded
          /\ z.left # None => Inside(z) = {}
      BY ZenonT(60), <1>2, <2>1, <2>2, OccupancyKept
    <2> HIDE DEF z
    <2>4. QED
      BY Zenon, <1>2, <2>1, <2>2, <2>3
  <1> HIDE DEF put
  <1>8. /\ known \in Service /\ known.up = put.up /\ known.gone = put.gone /\ known.recorded = put.recorded
        /\ known.left = put.left /\ known.seen = put.seen
    <2> HIDE DEF fresh, c
    <2>1. QED
      BY <1>3, <1>7 DEF Service
  <1>9. Inside(known) = Inside(put)
    BY Zenon, <1>8 DEF Inside
  <1>10. \/ x = v /\ ~shell[c].alive
         \/ Kept(known, x)
    <2>1. \/ ShellReport(w, k) = w /\ ~shell[c].alive
          \/ ShellReport(w, k) = Enter(World(known, p), c)
          \/ ShellReport(w, k) = World(known, p)
      BY Zenon, <1>1 DEF ShellReport, put
    <2> HIDE DEF known, w, c
    <2> DEFINE u == World(known, p)
    <2>2. u.x = known
      BY Zenon, WorldParts
    <2> HIDE DEF u
    <2>3. Kept(known, Enter(u, c).x)
      BY Zenon, <1>3, <1>8, <2>2, EnterSame
    <2>4. Kept(known, known)
      BY <1>8 DEF Same, Kept
    <2>5. QED
      BY Zenon, <1>1, <2>1, <2>2, <2>3, <2>4 DEF u
  <1> HIDE DEF known, x, w
  <1>11. ASSUME NEW s \in Shell
         PROVE  /\ Agrees(put.seen[s], s)
                /\ v.seen[s].seq = shell[s].seq => put.seen[s].seq = shell[s].seq
    <2>1. Agrees(v.seen[s], s)
      BY DEF IInv, ServiceOK
    <2>2. CASE fresh /\ s = c
      <3>1. put.seen[s] = r
        BY <1>3, <1>4, <1>7, <2>2
      <3>2. k.seq <= shell[c].seq /\ k.seq > v.seen[c].seq
        BY <1>2, <1>6, <2>2 DEF Agrees
      <3>3. v.seen[c].seq \in Nat /\ shell[c].seq \in Nat
        BY <1>3, <1>4 DEF ShellsOK, Rep
      <3>4. v.seen[s].seq # shell[s].seq
        BY <1>3, <2>2, <3>2, <3>3
      <3>5. QED
        BY Zenon, <1>5, <2>2, <3>1, <3>4
    <2>3. CASE ~(fresh /\ s = c)
      <3>1. put.seen[s] = v.seen[s]
        BY <1>3, <1>4, <1>7, <2>3
      <3>2. QED
        BY Zenon, <2>1, <3>1
    <2>4. QED
      BY Zenon, <2>2, <2>3
  <1>12. k.seq = shell[c].seq => put.seen[c].seq = k.seq
    <2>1. CASE fresh
      BY <1>3, <1>4, <1>7, <2>1
    <2>2. CASE ~fresh
      <3>1. v.seen[c].seq <= shell[c].seq
        BY <1>3 DEF IInv, ServiceOK, Agrees
      <3>2. v.seen[c].seq \in Nat /\ shell[c].seq \in Nat
        BY <1>3, <1>4 DEF ShellsOK, Rep
      <3>3. QED
        BY <1>3, <1>6, <1>7, <2>2, <3>1, <3>2
    <2>3. QED
      BY Zenon, <2>1, <2>2
  <1>13. CASE x = v /\ ~shell[c].alive
    BY Zenon, <1>13 DEF IInv, ServiceOK, x, w
  <1>14. CASE Kept(known, x)
    <2>1. /\ x \in Service /\ x.up = v.up /\ x.gone = v.gone /\ x.recorded = v.recorded /\ x.seen = put.seen
          /\ x.left = put.left \/ x.left = None
      BY <1>7, <1>8, <1>14 DEF Same, Kept
    <2>2. Inside(x) = Inside(put)
      BY Zenon, <2>1 DEF Inside
    <2>3. x.left # None => Inside(x) = {}
      BY Zenon, <1>7, <2>1, <2>2
    <2>4. QED
      BY Zenon, <1>11, <1>12, <2>1, <2>3 DEF x, w
  <1>15. QED
    BY <1>10, <1>13, <1>14

\* The service takes a report over the one it has, unless that is newer.
LEMMA HookAsksOK == ASSUME NEW k \in hooks PROVE IInv /\ HookAsks(k) => IInv'
  <1> SUFFICES ASSUME IInv, HookAsks(k)
               PROVE  IInv'
    OBVIOUS
  <1> DEFINE l == [k EXCEPT !.stage = "save"]
             w == ShellReport(Now, k)
             x == w.x
  <1>1. v.up /\ hooks' = (hooks \ {k}) \cup {l} /\ Turn(w)
    BY DEF HookAsks, Advance
  <1>2. UNCHANGED <<shell, stored, idle, torn>>
    BY DEF HookAsks
  <1>3. /\ x \in Service /\ x.up = v.up /\ x.gone = v.gone
        /\ x.left # None => Inside(x) = {}
        /\ \A s \in Shell : Agrees(x.seen[s], s)
        /\ \A s \in Shell : v.seen[s].seq = shell[s].seq => x.seen[s].seq = shell[s].seq
        /\ shell[k.shell].alive /\ k.seq = shell[k.shell].seq => x.seen[k.shell].seq = k.seq
    BY ZenonT(60), ReportTaken DEF Now
  <1>4. k \in AnyHook
    BY DEF IInv, HooksOK
  <1>5. l \in AnyHook /\ l.shell = k.shell /\ l.seq = k.seq /\ l.inside = k.inside /\ l.stage = "save"
    BY <1>4 DEF AnyHook, Stages
  <1> HIDE DEF l, w
  <1>6. Same(x, v') /\ queue' \in Seq(Left)
    BY Zenon, <1>1, <1>3, TurnSame DEF IInv, IdleOK
  <1> HIDE DEF x
  <1>7. ShellsOK' /\ HooksOK'
    BY Zenon, <1>1, <1>2, <1>5, HooksGoOn
  <1>8. StoredOK' /\ IdleOK'
    BY Zenon, <1>2, <1>6 DEF IInv, StoredOK, IdleOK, Agrees, Rep, Left
  <1>9. ServiceOK'
    <2>1. \A s \in x.gone : ~shell[s].alive
      BY Zenon, <1>3 DEF IInv, ServiceOK
    <2>2. QED
      BY Zenon, <1>2, <1>3, <1>6, <2>1, TableKept DEF IInv
  <1>10. v'.up = v.up /\ v'.seen = x.seen
    BY <1>3, <1>6 DEF Same
  <1>11. LatestOK'
    <2>1. SUFFICES ASSUME NEW s \in Shell, shell[s].alive, shell[s].seq > 0, s \notin torn
                   PROVE  UnderWay(s)' \/ Settled(s)'
      BY Zenon, <1>2 DEF LatestOK
    <2>2. hooks \ {k} \subseteq hooks' /\ stored' = stored
          /\ (v.seen[s].seq = shell[s].seq => v'.seen[s].seq = shell[s].seq)
      BY Zenon, <1>1, <1>2, <1>3, <1>10
    <2>3. SUFFICES ASSUME k.shell = s, k.seq = shell[s].seq
                   PROVE  UnderWay(s)'
      BY Zenon, <1>2, <1>10, <2>1, <2>2, OthersStay
    <2>4. Reached(l)'
      BY Zenon, <1>1, <1>3, <1>5, <1>10, <2>1, <2>3 DEF Reached
    <2>5. l \in hooks'
      BY <1>1
    <2>6. QED
      BY Zenon, <1>2, <1>5, <2>3, <2>4, <2>5 DEF UnderWay
  <1>12. QED
    BY <1>7, <1>8, <1>9, <1>11 DEF IInv

\* A record is replaced by a newer one only.
LEMMA SavedIfNewer ==
    ASSUME IInv, NEW k \in hooks, SaveIfNewer(k), shell' = shell
    PROVE  /\ StoredOK'
           /\ k.seq = shell[k.shell].seq => stored'[k.shell].seq = k.seq
           /\ \A s \in Shell :
                 /\ stored[s].seq = shell[s].seq => stored'[s].seq = shell[s].seq
                 /\ stored[s].seq < shell[s].seq /\ ~(k.shell = s /\ k.seq = shell[s].seq)
                       => stored'[s].seq < shell[s].seq
  <1> DEFINE c == k.shell
             r == [seq |-> k.seq, inside |-> k.inside]
  <1>1. k \in AnyHook /\ stored \in [Shell -> Rep] /\ Agrees(k, c) /\ ShellsOK
    BY DEF IInv, HooksOK, StoredOK
  <1>2. c \in Shell /\ k.seq \in Nat /\ r \in Rep /\ r.seq = k.seq /\ r.inside = k.inside
    BY <1>1 DEF AnyHook, Rep
  <1>3. stored' = [stored EXCEPT ![c] = IF k.seq > stored[c].seq THEN r ELSE stored[c]]
    BY <1>1, <1>2 DEF SaveIfNewer
  <1>4. Agrees(r, c) /\ Agrees(stored[c], c)
    BY Zenon, <1>1, <1>2 DEF Agrees, IInv, StoredOK
  <1> HIDE DEF r, c
  <1>5. /\ stored' \in [Shell -> Rep]
        /\ \A s \in Shell : s # c => stored'[s] = stored[s]
        /\ stored'[c] = IF k.seq > stored[c].seq THEN r ELSE stored[c]
    BY <1>1, <1>2, <1>3
  <1>6. stored[c].seq \in Nat /\ shell[c].seq \in Nat
    BY <1>1, <1>2 DEF Rep, ShellsOK
  <1>7. k.seq <= shell[c].seq /\ stored[c].seq <= shell[c].seq
    BY Zenon, <1>1, <1>4 DEF Agrees
  <1>8. Agrees(stored'[c], c)
    BY Zenon, <1>4, <1>5
  <1>9. ASSUME NEW s \in Shell
        PROVE  Agrees(stored[s], s)'
    BY Zenon, <1>5, <1>8 DEF IInv, StoredOK, Agrees
  <1>10. StoredOK'
    BY Zenon, <1>5, <1>9 DEF StoredOK, Rep
  <1>11. k.seq = shell[c].seq => stored'[c].seq = k.seq
    BY <1>2, <1>5, <1>6, <1>7
  <1>12. /\ stored[c].seq = shell[c].seq => stored'[c].seq = shell[c].seq
         /\ stored[c].seq < shell[c].seq /\ k.seq # shell[c].seq => stored'[c].seq < shell[c].seq
    BY <1>2, <1>5, <1>6, <1>7
  <1>13. QED
    BY Zenon, <1>5, <1>10, <1>11, <1>12 DEF c

\* The other steps of a report: the service is not changed by them.
LEMMA ReportMoves ==
    ASSUME IInv, NEW k \in hooks, UNCHANGED <<shell, v, queue, idle, torn>>,
           SaveIfNewer(k) \/ stored' = stored,
           \/ hooks' = hooks \ {k}
           \/ \E l \in AnyHook : /\ l.shell = k.shell /\ l.seq = k.seq /\ l.inside = k.inside
                                 /\ hooks' = (hooks \ {k}) \cup {l}
                                 /\ \A s \in Shell : k.shell = s /\ k.seq = shell[s].seq /\ Reached(k) => Reached(l)',
           hooks' = hooks \ {k} =>
              \A s \in Shell : k.shell = s /\ k.seq = shell[s].seq /\ Reached(k) /\ s \notin torn => Settled(s)'
    PROVE  IInv'
  <1>1. ShellsOK' /\ HooksOK'
    BY Zenon, HooksGoOn
  <1>2. /\ StoredOK'
        /\ \A s \in Shell :
              /\ stored[s].seq = shell[s].seq => stored'[s].seq = shell[s].seq
              /\ stored[s].seq < shell[s].seq /\ ~(k.shell = s /\ k.seq = shell[s].seq)
                    => stored'[s].seq < shell[s].seq
    <2>1. CASE SaveIfNewer(k)
      BY Zenon, <2>1, SavedIfNewer
    <2>2. CASE stored' = stored
      BY Zenon, <2>2 DEF IInv, StoredOK, Agrees, Rep
    <2>3. QED
      BY <2>1, <2>2
  <1>3. ServiceOK' /\ IdleOK'
    BY Zenon DEF IInv, ServiceOK, IdleOK, Agrees, Inside, Service, Rep, Left
  <1>4. LatestOK'
    <2>1. SUFFICES ASSUME NEW s \in Shell, shell[s].alive, shell[s].seq > 0, s \notin torn
                   PROVE  UnderWay(s)' \/ Settled(s)'
      BY Zenon DEF LatestOK
    <2>2. hooks \ {k} \subseteq hooks'
      OBVIOUS
    <2>3. SUFFICES ASSUME k.shell = s, k.seq = shell[s].seq, Reached(k)
                   PROVE  UnderWay(s)' \/ Settled(s)'
      BY Zenon, <1>2, <2>1, <2>2, OthersStay
    <2>4. CASE hooks' = hooks \ {k}
      BY Zenon, <2>1, <2>3, <2>4
    <2>5. CASE hooks' # hooks \ {k}
      <3>1. PICK l \in AnyHook : /\ l.shell = k.shell /\ l.seq = k.seq
                                 /\ hooks' = (hooks \ {k}) \cup {l} /\ Reached(l)'
        BY Zenon, <2>1, <2>3, <2>5
      <3>2. l \in hooks'
        BY <3>1
      <3>3. QED
        BY Zenon, <2>3, <3>1, <3>2 DEF UnderWay
    <2>6. QED
      BY <2>4, <2>5
  <1>5. QED
    BY <1>1, <1>2, <1>3, <1>4 DEF IInv

\* Moved to another stage.
LEMMA AtStage ==
    ASSUME IInv, NEW k \in hooks, NEW stage \in Stages
    PROVE  LET l == [k EXCEPT !.stage = stage] IN
           l \in AnyHook /\ l.shell = k.shell /\ l.seq = k.seq /\ l.inside = k.inside /\ l.stage = stage
  <1>1. k \in AnyHook
    BY DEF IInv, HooksOK
  <1>2. QED
    BY <1>1 DEF AnyHook

\* A report of a shell outside that finds no service goes on to the record.
LEMMA HookAbsentOK == ASSUME NEW k \in hooks PROVE IInv /\ HookAbsent(k) => IInv'
  <1> SUFFICES ASSUME IInv, HookAbsent(k)
               PROVE  IInv'
    OBVIOUS
  <1> DEFINE l == [k EXCEPT !.stage = "absent"]
  <1>1. hooks' = (hooks \ {k}) \cup {l} /\ UNCHANGED <<shell, stored, v, queue, idle, torn>>
    BY DEF HookAbsent, Advance
  <1>2. "absent" \in Stages
    BY DEF Stages
  <1>3. l \in AnyHook /\ l.shell = k.shell /\ l.seq = k.seq /\ l.inside = k.inside /\ l.stage = "absent"
    BY <1>2, AtStage
  <1> HIDE DEF l
  <1>4. Reached(l)'
    BY <1>3 DEF Reached
  <1>5. hooks' # hooks \ {k}
    <2>1. k.stage = "ask"
      BY DEF HookAbsent
    <2>2. \A m \in hooks : m.shell = l.shell /\ m.seq = l.seq => m = k
      BY Zenon, <1>3 DEF IInv, HooksOK
    <2>3. l \notin hooks
      BY <1>3, <2>1, <2>2
    <2>4. QED
      BY Zenon, <1>1, <2>3
  <1>6. QED
    BY Zenon, <1>1, <1>3, <1>4, <1>5, ReportMoves

\* The record takes a report over an older one.
LEMMA HookRecordsOK == ASSUME NEW k \in hooks PROVE IInv /\ HookRecords(k) => IInv'
  <1> SUFFICES ASSUME IInv, HookRecords(k)
               PROVE  IInv'
    OBVIOUS
  <1> DEFINE l == [k EXCEPT !.stage = "again"]
  <1>1. hooks' = (hooks \ {k}) \cup {l} /\ SaveIfNewer(k) /\ UNCHANGED <<shell, v, queue, idle, torn>>
    BY DEF HookRecords, Advance
  <1>2. "again" \in Stages
    BY DEF Stages
  <1>3. l \in AnyHook /\ l.shell = k.shell /\ l.seq = k.seq /\ l.inside = k.inside /\ l.stage = "again"
    BY <1>2, AtStage
  <1> HIDE DEF l
  <1>4. k.seq = shell[k.shell].seq => stored'[k.shell].seq = k.seq
    BY Zenon, <1>1, SavedIfNewer
  <1>5. \A s \in Shell : k.shell = s /\ k.seq = shell[s].seq => Reached(l)'
    BY Zenon, <1>3, <1>4 DEF Reached
  <1>6. hooks' # hooks \ {k}
    <2>1. k.stage = "absent"
      BY DEF HookRecords
    <2>2. \A m \in hooks : m.shell = l.shell /\ m.seq = l.seq => m = k
      BY Zenon, <1>3 DEF IInv, HooksOK
    <2>3. l \notin hooks
      BY <1>3, <2>1, <2>2
    <2>4. QED
      BY Zenon, <1>1, <2>3
  <1>7. QED
    BY Zenon, <1>1, <1>3, <1>5, <1>6, ReportMoves

\* A report that was recorded and still finds no service is over.
LEMMA HookStillAbsentOK == ASSUME NEW k \in hooks PROVE IInv /\ HookStillAbsent(k) => IInv'
  <1> SUFFICES ASSUME IInv, HookStillAbsent(k)
               PROVE  IInv'
    OBVIOUS
  <1>1. /\ k.stage = "again" /\ ~v.up /\ hooks' = hooks \ {k}
        /\ UNCHANGED <<shell, stored, v, queue, idle, torn>>
    BY DEF HookStillAbsent
  <1>2. Reached(k) => stored[k.shell].seq = k.seq
    BY <1>1 DEF Reached
  <1>3. \A s \in Shell : k.shell = s /\ k.seq = shell[s].seq /\ Reached(k) => Settled(s)'
    BY Zenon, <1>1, <1>2 DEF Settled
  <1>4. QED
    BY Zenon, <1>1, <1>3, ReportMoves

\* A report the service took is recorded as well.
LEMMA HookSavesOK == ASSUME NEW k \in hooks PROVE IInv /\ HookSaves(k) => IInv'
  <1> SUFFICES ASSUME IInv, HookSaves(k)
               PROVE  IInv'
    OBVIOUS
  <1>1. /\ k.stage = "save" /\ SaveIfNewer(k) /\ hooks' = hooks \ {k}
        /\ UNCHANGED <<shell, v, queue, idle, torn>>
    BY DEF HookSaves
  <1>2. Reached(k) => v.seen[k.shell].seq = k.seq
    BY <1>1 DEF Reached
  <1>3. k.seq = shell[k.shell].seq => stored'[k.shell].seq = k.seq
    BY Zenon, <1>1, SavedIfNewer
  <1>4. \A s \in Shell : k.shell = s /\ k.seq = shell[s].seq /\ Reached(k) => Settled(s)'
    BY Zenon, <1>1, <1>2, <1>3 DEF Settled
  <1>5. QED
    BY Zenon, <1>1, <1>4, ReportMoves

\* A turn of the loop that no report is part of: the table keeps what it has
\* of live shells.
LEMMA LoopTurn ==
    ASSUME IInv, NEW x \in Service, Same(x, v'), queue' \in Seq(Left), UNCHANGED <<shell, hooks, stored, idle, torn>>,
           x.up = v.up,
           \A s \in Shell : Agrees(x.seen[s], s),
           \A s \in Shell : shell[s].alive => x.seen[s] = v.seen[s],
           \A s \in x.gone : ~shell[s].alive,
           x.left # None => Inside(x) = {}
    PROVE  IInv'
  <1>1. ShellsOK' /\ HooksOK' /\ StoredOK' /\ IdleOK'
    BY Zenon DEF IInv, ShellsOK, HooksOK, StoredOK, IdleOK, Agrees, AnyHook, Stages, Rep, Left
  <1>2. ServiceOK'
    BY Zenon, TableKept DEF IInv
  <1>3. v'.up = v.up /\ v'.seen = x.seen
    BY DEF Same
  <1>4. LatestOK'
    <2>1. \A s \in Shell : shell[s].alive => v'.seen[s].seq = v.seen[s].seq
      BY Zenon, <1>3
    <2>2. QED
      BY Zenon, <1>3, <2>1, LatestSame DEF IInv
  <1>5. QED
    BY <1>1, <1>2, <1>4 DEF IInv

\* The sweep forgets only shells that are gone.
LEMMA SweepOK == IInv /\ Sweep => IInv'
  <1> SUFFICES ASSUME IInv, Sweep
               PROVE  IInv'
    OBVIOUS
  <1> DEFINE ended == {s \in Shell : v.seen[s].seq > 0 /\ ~shell[s].alive}
  <1>1. /\ v' = [v EXCEPT !.gone = ended]
        /\ stored' = [s \in Shell |-> IF s \in ended THEN Unknown ELSE stored[s]]
        /\ UNCHANGED <<shell, hooks, queue, idle, torn>>
    BY DEF Sweep
  <1>2. ended \in SUBSET Shell /\ \A s \in ended : ~shell[s].alive
    OBVIOUS
  <1> HIDE DEF ended
  <1>3. v \in Service /\ stored \in [Shell -> Rep] /\ ShellsOK
    BY DEF IInv, ServiceOK, StoredOK
  <1>4. v' \in Service /\ v'.gone = ended /\ v'.up = v.up /\ v'.seen = v.seen /\ v'.left = v.left
    BY <1>1, <1>2, <1>3 DEF Service
  <1>5. ShellsOK' /\ HooksOK' /\ IdleOK'
    BY Zenon, <1>1 DEF IInv, ShellsOK, HooksOK, IdleOK, Agrees, AnyHook, Stages, Left
  <1>6. ServiceOK'
    <2>1. Inside(v') = Inside(v)
      BY Zenon, <1>4 DEF Inside
    <2>2. v'.left # None => Inside(v') = {}
      BY Zenon, <1>4, <2>1 DEF IInv, ServiceOK
    <2>3. QED
      BY Zenon, <1>1, <1>2, <1>4, <2>2 DEF IInv, ServiceOK, Agrees, Service, Rep, Inside
  <1>7. /\ Unknown \in Rep /\ \A s \in Shell : Agrees(Unknown, s)
        /\ \A s \in Shell : shell[s].alive => stored'[s] = stored[s]
    BY <1>1, <1>2, <1>3, UnknownAgrees
  <1>8. StoredOK'
    <2>1. ASSUME NEW s \in Shell
          PROVE  Agrees(stored[s], s)'
      <3>1. CASE s \in ended
        <4>1. stored'[s] = Unknown
          BY <1>1, <3>1
        <4>2. QED
          BY Zenon, <1>1, <1>7, <4>1 DEF Agrees
      <3>2. CASE s \notin ended
        <4>1. stored'[s] = stored[s]
          BY <1>1, <3>2
        <4>2. QED
          BY Zenon, <1>1, <4>1 DEF IInv, StoredOK, Agrees
      <3>3. QED
        BY <3>1, <3>2
    <2>2. stored' \in [Shell -> Rep]
      BY <1>1, <1>3, <1>7
    <2>3. QED
      BY Zenon, <2>1, <2>2 DEF StoredOK, Rep
  <1>9. LatestOK'
    BY Zenon, <1>1, <1>4, <1>7, LatestSame DEF IInv
  <1>10. QED
    BY <1>5, <1>6, <1>8, <1>9 DEF IInv

\* The service forgets the shells that the sweep found gone.
LEMMA ShellsGoneOK == IInv /\ ShellsGone => IInv'
  <1> SUFFICES ASSUME IInv, ShellsGone
               PROVE  IInv'
    OBVIOUS
  <1> DEFINE seen == [s \in Shell |-> IF s \in v.gone THEN Unknown ELSE v.seen[s]]
             y == [v EXCEPT !.seen = seen, !.envs = @ \ v.gone, !.gone = {}]
             x == OccupancyChanged(v, y)
             w == World(x, proc)
  <1>1. Turn(w) /\ UNCHANGED <<shell, hooks, stored, idle, torn>>
    BY Zenon DEF ShellsGone
  <1>2. v \in Service /\ (v.left # None => Inside(v) = {}) /\ \A s \in v.gone : ~shell[s].alive
    BY DEF IInv, ServiceOK
  <1>3. Unknown \in Rep /\ \A s \in Shell : Agrees(Unknown, s)
    BY UnknownAgrees DEF IInv
  <1>4. seen \in [Shell -> Rep]
    BY <1>2, <1>3 DEF Service
  <1>5. ASSUME NEW s \in Shell
        PROVE  /\ shell[s].alive => seen[s] = v.seen[s]
               /\ Agrees(seen[s], s)
    <2>1. Agrees(v.seen[s], s)
      BY DEF IInv, ServiceOK
    <2>2. CASE s \in v.gone
      <3>1. seen[s] = Unknown
        BY <2>2
      <3>2. QED
        BY <1>2, <1>3, <2>2, <3>1
    <2>3. CASE s \notin v.gone
      BY <2>1, <2>3
    <2>4. QED
      BY <2>2, <2>3
  <1> HIDE DEF seen
  <1>6. y \in Service /\ y.seen = seen /\ y.up = v.up /\ y.gone = {} /\ y.left = v.left
    BY Zenon, <1>2, <1>4 DEF Service
  <1> HIDE DEF y
  <1>7. /\ x \in Service /\ x.up = y.up /\ x.seen = y.seen /\ x.gone = y.gone
        /\ x.left # None => Inside(x) = {}
    BY Zenon, <1>2, <1>6, OccupancyKept
  <1>8. w.x = x
    BY Zenon, WorldParts
  <1> HIDE DEF x, w
  <1>9. Same(x, v') /\ queue' \in Seq(Left)
    BY Zenon, <1>1, <1>7, <1>8, TurnSame DEF IInv, IdleOK
  <1>10. QED
    BY ZenonT(60), <1>1, <1>5, <1>6, <1>7, <1>9, LoopTurn

\* A due idle stop touches no report.
LEMMA IdleDueOK == IInv /\ IdleDue => IInv'
  <1> SUFFICES ASSUME IInv, IdleDue
               PROVE  IInv'
    OBVIOUS
  <1>1. Turn(World(v, proc)) /\ UNCHANGED <<shell, hooks, stored, idle, torn>>
    BY DEF IdleDue, Now
  <1>2. v \in Service /\ (v.left # None => Inside(v) = {}) /\ (\A s \in v.gone : ~shell[s].alive)
        /\ \A s \in Shell : Agrees(v.seen[s], s)
    BY DEF IInv, ServiceOK
  <1> DEFINE w == World(v, proc)
  <1>3. Turn(w) /\ w.x = v
    BY Zenon, <1>1, WorldParts
  <1> HIDE DEF w
  <1>4. Same(v, v') /\ queue' \in Seq(Left)
    BY Zenon, <1>2, <1>3, TurnSame DEF IInv, IdleOK
  <1>5. QED
    BY Zenon, <1>1, <1>2, <1>4, LoopTurn

\* The end of a process touches no report.
LEMMA ProcessEndsOK == IInv /\ ProcessEnds => IInv'
  <1> SUFFICES ASSUME IInv, ProcessEnds
               PROVE  IInv'
    OBVIOUS
  <1>1. Turn(World(v, "down")) /\ UNCHANGED <<shell, hooks, stored, idle, torn>>
    BY DEF ProcessEnds
  <1>2. v \in Service /\ (v.left # None => Inside(v) = {}) /\ (\A s \in v.gone : ~shell[s].alive)
        /\ \A s \in Shell : Agrees(v.seen[s], s)
    BY DEF IInv, ServiceOK
  <1> DEFINE w == World(v, "down")
  <1>3. Turn(w) /\ w.x = v
    BY Zenon, <1>1, WorldParts
  <1> HIDE DEF w
  <1>4. Same(v, v') /\ queue' \in Seq(Left)
    BY Zenon, <1>2, <1>3, TurnSame DEF IInv, IdleOK
  <1>5. QED
    BY Zenon, <1>1, <1>2, <1>4, LoopTurn

\* A command that leaves the table as it is, and the idle stop, or holds it off.
LEMMA CommandedOK ==
    ASSUME IInv, NEW x, Same(v, x), NEW p, Commanded(World(x, p))
    PROVE  IInv'
  <1> DEFINE w == World(x, p)
  <1>1. /\ RecordIdleStops(StopIdle(EnterStopped(w))) /\ due' = StopIdle(EnterStopped(w)).x.left
        /\ UNCHANGED <<shell, hooks, stored, idle, torn>>
    BY Zenon DEF Commanded
  <1>2. w.x = x
    BY Zenon, WorldParts
  <1> HIDE DEF w
  <1>3. x \in Service /\ x.up = v.up /\ x.seen = v.seen /\ x.gone = v.gone /\ x.left \in {v.left, None}
    BY Zenon DEF Same
  <1>4. Same(x, v') /\ queue' \in Seq(Left)
    BY Zenon, <1>1, <1>2, <1>3, RestOfTurn DEF IInv, IdleOK
  <1>5. Inside(x) = Inside(v)
    BY Zenon, <1>3 DEF Inside
  <1>6. x.left # None => Inside(x) = {}
    BY <1>3, <1>5 DEF IInv, ServiceOK
  <1>7. (\A s \in x.gone : ~shell[s].alive) /\ \A s \in Shell : Agrees(x.seen[s], s)
    BY Zenon, <1>3 DEF IInv, ServiceOK
  <1>8. QED
    BY Zenon, <1>1, <1>3, <1>4, <1>6, <1>7, LoopTurn

\* Up touches no report.
LEMMA UpOK == IInv /\ Up => IInv'
  <1> SUFFICES ASSUME IInv, Up
               PROVE  IInv'
    OBVIOUS
  <1> DEFINE x == HoldUp(ClientActsOn(v))
  <1>1. v \in Service
    BY DEF IInv, ServiceOK
  <1>2. Same(v, x)
    BY Zenon, <1>1, Basics DEF Same, Service, HoldUp, ClientActsOn
  <1>3. Commanded(World(x, IF proc = "down" THEN "up" ELSE proc))
    BY DEF Up
  <1> HIDE DEF x
  <1>4. QED
    BY <1>2, <1>3, CommandedOK

\* Down touches no report.
LEMMA DownOK == IInv /\ Down => IInv'
  <1> SUFFICES ASSUME IInv, Down
               PROVE  IInv'
    OBVIOUS
  <1> DEFINE x == ClientActsOn(v)
  <1>1. v \in Service
    BY DEF IInv, ServiceOK
  <1>2. Same(v, x)
    BY Zenon, <1>1, Basics DEF Same, Service, ClientActsOn
  <1>3. Commanded(World(x, IF proc = "up" THEN "stopping" ELSE proc))
    BY DEF Down
  <1> HIDE DEF x
  <1>4. QED
    BY <1>2, <1>3, CommandedOK

\* The recorder writes the idle stop and no report.
LEMMA RecorderWritesOK == IInv /\ RecorderWrites => IInv'
  <1> SUFFICES ASSUME IInv, RecorderWrites
               PROVE  IInv'
    OBVIOUS
  <1>1. /\ queue # <<>> /\ idle' = Head(queue) /\ queue' = Tail(queue)
        /\ UNCHANGED <<shell, hooks, stored, v, torn>>
    BY DEF RecorderWrites
  <1>2. IdleOK'
    BY <1>1 DEF IInv, IdleOK
  <1>3. ShellsOK' /\ HooksOK' /\ StoredOK' /\ ServiceOK'
    BY Zenon, <1>1 DEF IInv, ShellsOK, HooksOK, StoredOK, ServiceOK, Agrees, AnyHook, Stages, Rep, Service, Inside
  <1>4. LatestOK'
    BY Zenon, <1>1, LatestSame DEF IInv
  <1>5. QED
    BY <1>2, <1>3, <1>4 DEF IInv

\* Time passes for the stops that are pending.
LEMMA PassTimeOK == IInv /\ PassTime => IInv'
  <1> SUFFICES ASSUME IInv, PassTime
               PROVE  IInv'
    OBVIOUS
  <1>1. /\ v' = [v EXCEPT !.left = Later(@), !.recorded = Later(@)]
        /\ queue' = [i \in DOMAIN queue |-> Later(queue[i])]
        /\ idle' = Later(idle)
        /\ UNCHANGED <<shell, hooks, stored, torn>>
    BY DEF PassTime
  <1>2. IdleOK'
    <2>1. idle' \in Left
      BY <1>1, Basics DEF IInv, IdleOK
    <2>2. queue \in Seq(Left) /\ Len(queue) \in Nat /\ DOMAIN queue = 1..Len(queue)
      BY DEF IInv, IdleOK
    <2>3. \A i \in 1..Len(queue) : Later(queue[i]) \in Left
      BY <2>2, Basics
    <2>4. queue' \in Seq(Left)
      <3> DEFINE n == Len(queue)
      <3>1. n \in Nat /\ queue' = [i \in 1..n |-> Later(queue[i])]
        BY <1>1, <2>2
      <3> HIDE DEF n
      <3>2. queue' \in [1..n -> Left]
        BY <2>3, <3>1 DEF n
      <3>3. QED
        BY <3>1, <3>2
    <2>5. QED
      BY <2>1, <2>4 DEF IdleOK, Left
  <1>3. v \in Service /\ v.left \in Left /\ v.recorded \in Left
    BY DEF IInv, ServiceOK, Service
  <1>4. Later(v.left) \in Left /\ Later(v.recorded) \in Left /\ (Later(v.left) = None <=> v.left = None)
    BY <1>3, Basics
  <1>5. /\ v' \in Service /\ v'.up = v.up /\ v'.seen = v.seen /\ v'.gone = v.gone
        /\ v'.left = Later(v.left)
    BY Zenon, <1>1, <1>3, <1>4 DEF Service
  <1>6. ShellsOK' /\ HooksOK' /\ StoredOK'
    BY Zenon, <1>1 DEF IInv, ShellsOK, HooksOK, StoredOK, Agrees, AnyHook, Stages, Rep
  <1>7. ServiceOK'
    <2>1. Inside(v') = Inside(v)
      BY Zenon, <1>5 DEF Inside
    <2>2. v'.left # None => Inside(v') = {}
      BY Zenon, <1>4, <1>5, <2>1 DEF IInv, ServiceOK
    <2>3. QED
      BY Zenon, <1>1, <1>5, <2>2 DEF IInv, ServiceOK, Agrees, Service, Rep, Inside
  <1>8. LatestOK'
    BY Zenon, <1>1, <1>5, LatestSame DEF IInv
  <1>9. QED
    BY <1>2, <1>6, <1>7, <1>8 DEF IInv

\* The service ended, and with it answers that were not stored yet.
LEMMA ServiceEnds ==
    ASSUME IInv, v' = Off, UNCHANGED <<shell, stored>>, queue' \in Seq(Left), idle' \in Left,
           torn' = torn \cup Unsaved, hooks' \subseteq hooks,
           \A k \in hooks : k.stage # "save" => k \in hooks'
    PROVE  IInv'
  <1>1. ShellsOK' /\ StoredOK' /\ IdleOK'
    BY Zenon DEF IInv, ShellsOK, StoredOK, IdleOK, Agrees, Rep, Left
  <1>2. HooksOK'
    BY Zenon DEF IInv, HooksOK, Agrees, AnyHook, Stages
  <1>3. Unknown \in Rep /\ \A s \in Shell : Agrees(Unknown, s)
    BY ZenonT(60), UnknownAgrees DEF IInv
  <1>4. /\ v' \in Service /\ v'.seen = [s \in Shell |-> Unknown] /\ v'.gone = {} /\ v'.left = None
        /\ v'.up = FALSE
    BY <1>3, Basics DEF Off, Service
  <1>5. ServiceOK'
    <2>1. \A s \in Shell : Agrees(v.seen[s], s)'
      BY Zenon, <1>3, <1>4 DEF Agrees
    <2>2. QED
      BY Zenon, <1>4, <2>1 DEF ServiceOK, Service, Rep
  <1>6. LatestOK'
    <2>1. SUFFICES ASSUME NEW s \in Shell, shell[s].alive, shell[s].seq > 0, s \notin torn, s \notin Unsaved
                   PROVE  UnderWay(s)' \/ Settled(s)'
      BY Zenon DEF LatestOK
    <2>2. \A k \in hooks : k.shell = s => k.stage # "save"
      BY Zenon, <2>1 DEF Unsaved
    <2>3. UnderWay(s) \/ Settled(s)
      BY <2>1 DEF IInv, LatestOK
    <2>4. UnderWay(s) => UnderWay(s)'
      BY Zenon, <2>2 DEF UnderWay, Reached
    <2>5. Settled(s) => Settled(s)'
      BY Zenon, <1>4 DEF Settled
    <2>6. QED
      BY <2>3, <2>4, <2>5
  <1>7. QED
    BY <1>1, <1>2, <1>5, <1>6 DEF IInv

\* An exit leaves the records as they are.
LEMMA ExitOK == IInv /\ Exit => IInv'
  <1> SUFFICES ASSUME IInv, Exit
               PROVE  IInv'
    OBVIOUS
  <1>1. /\ v' = Off /\ idle' = (IF queue = <<>> THEN idle ELSE queue[Len(queue)]) /\ queue' = <<>>
        /\ torn' = torn \cup Unsaved /\ UNCHANGED <<shell, hooks, stored>>
    BY DEF Exit
  <1>2. queue \in Seq(Left) /\ idle \in Left
    BY DEF IInv, IdleOK
  <1>3. queue # <<>> => queue[Len(queue)] \in Left
    BY <1>2
  <1>4. idle' \in Left /\ queue' \in Seq(Left)
    BY <1>1, <1>2, <1>3
  <1>5. QED
    BY Zenon, <1>1, <1>4, ServiceEnds

\* So does a crash, whatever the recorder had not written.
LEMMA CrashOK == IInv /\ Crash => IInv'
  <1> SUFFICES ASSUME IInv, Crash
               PROVE  IInv'
    OBVIOUS
  <1>1. PICK lost \in SUBSET {k \in hooks : k.stage = "save"} : hooks' = hooks \ lost
    BY DEF Crash
  <1>2. v' = Off /\ queue' = <<>> /\ torn' = torn \cup Unsaved /\ UNCHANGED <<shell, stored, idle>>
    BY DEF Crash
  <1>3. idle' \in Left /\ queue' \in Seq(Left)
    BY <1>2 DEF IInv, IdleOK
  <1>4. hooks' \subseteq hooks /\ \A k \in hooks : k.stage # "save" => k \in hooks'
    BY Zenon, <1>1
  <1>5. QED
    BY Zenon, <1>2, <1>3, <1>4, ServiceEnds

\* A service that starts takes its table from the records.
LEMMA StartOK == IInv /\ Start => IInv'
  <1> SUFFICES ASSUME IInv, Start
               PROVE  IInv'
    OBVIOUS
  <1> DEFINE begun(p) == [Off EXCEPT !.up = TRUE, !.loaded = p # "down"]
             back(p) == RestoreShells(begun(p))
             now(p) == RestoreIdleStops(back(p))
  <1>1. PICK p : RecordIdleStops(World(now(p), p))
    BY Zenon DEF Start
  <1>2. /\ ~v.up /\ stored' = [s \in Shell |-> IF shell[s].alive THEN stored[s] ELSE Unknown]
        /\ UNCHANGED <<shell, hooks, idle, torn>>
    BY DEF Start
  <1>3. Unknown \in Rep /\ \A s \in Shell : Agrees(Unknown, s)
    BY UnknownAgrees DEF IInv
  <1>4. stored \in [Shell -> Rep] /\ (\A s \in Shell : Agrees(stored[s], s)) /\ idle \in Left
        /\ queue \in Seq(Left)
    BY DEF IInv, StoredOK, IdleOK
  <1> DEFINE b == begun(p)
             seen == [s \in Shell |-> IF shell[s].alive THEN stored[s] ELSE Unknown]
             live == [b EXCEPT !.seen = seen]
             ended == [b EXCEPT !.seen = stored]
             y == OccupancyChanged(ended, live)
             z == now(p)
  <1>5. b \in Service /\ b.left = None /\ b.gone = {} /\ b.up = TRUE
    BY Zenon, <1>3, Basics DEF Off, Service
  <1>6. seen \in [Shell -> Rep] /\ \A s \in Shell : shell[s].alive => seen[s] = stored[s]
    BY <1>3, <1>4
  <1>7. \A s \in Shell : Agrees(seen[s], s)
    BY <1>3, <1>4
  <1>8. y = back(p)
    BY Zenon DEF RestoreShells
  <1> HIDE DEF b, seen
  <1>9. /\ live \in Service /\ live.left = None /\ live.gone = {} /\ live.up = TRUE /\ live.seen = seen
        /\ ended \in Service /\ ended.left = None
    BY Zenon, <1>4, <1>5, <1>6 DEF Service
  <1> HIDE DEF live, ended
  <1>10. /\ y \in Service /\ y.up = TRUE /\ y.seen = seen /\ y.gone = {}
         /\ y.left # None => Inside(y) = {}
    BY ZenonT(60), <1>9, OccupancyKept
  <1> HIDE DEF y
  <1>11. z = [y EXCEPT !.recorded = idle, !.left = IF idle # None /\ y.loaded /\ Inside(y) = {} THEN idle ELSE @]
    BY Zenon, <1>8 DEF RestoreIdleStops
  <1> HIDE DEF z
  <1>12. /\ z \in Service /\ z.up = TRUE /\ z.seen = seen /\ z.gone = {}
         /\ z.left = y.left \/ Inside(y) = {}
    BY Zenon, <1>4, <1>10, <1>11 DEF Service
  <1>13. z.left # None => Inside(z) = {}
    <2>1. Inside(z) = Inside(y)
      BY Zenon, <1>10, <1>12 DEF Inside
    <2>2. QED
      BY Zenon, <1>10, <1>12, <2>1
  <1>14. /\ v' = [z EXCEPT !.recorded = z.left]
         /\ queue' = (IF z.left = z.recorded THEN queue ELSE Append(queue, z.left))
    <2>1. World(z, p).x = z
      BY Zenon, WorldParts
    <2>2. QED
      BY Zenon, <1>1, <2>1 DEF RecordIdleStops, z
  <1>15. Same(z, v')
    BY <1>12, <1>14 DEF Same, Service
  <1>16. IdleOK'
    <2>1. z.left \in Left
      BY <1>12 DEF Service
    <2>2. queue' \in Seq(Left)
      BY <1>4, <1>14, <2>1
    <2>3. QED
      BY Zenon, <1>2, <1>4, <2>2 DEF IdleOK, Left
  <1>17. ServiceOK'
    <2>1. (\A s \in z.gone : ~shell[s].alive) /\ \A s \in Shell : Agrees(z.seen[s], s)
      BY Zenon, <1>7, <1>12
    <2>2. QED
      BY Zenon, <1>2, <1>12, <1>13, <1>15, <2>1, TableKept DEF IInv
  <1>18. ShellsOK' /\ HooksOK'
    BY Zenon, <1>2 DEF IInv, ShellsOK, HooksOK, Agrees, AnyHook, Stages
  <1>19. stored' = seen
    BY Zenon, <1>2 DEF seen
  <1>20. StoredOK'
    <2>1. \A s \in Shell : Agrees(stored[s], s)'
      BY Zenon, <1>2, <1>7, <1>19 DEF Agrees
    <2>2. QED
      BY Zenon, <1>6, <1>19, <2>1 DEF StoredOK, Rep
  <1>21. LatestOK'
    <2>1. SUFFICES ASSUME NEW s \in Shell, shell[s].alive, shell[s].seq > 0, s \notin torn
                   PROVE  UnderWay(s)' \/ Settled(s)'
      BY Zenon, <1>2 DEF LatestOK
    <2>2. stored'[s] = stored[s] /\ v'.seen[s] = stored[s]
      BY Zenon, <1>6, <1>12, <1>15, <1>19, <2>1 DEF Same
    <2>3. UnderWay(s) \/ Settled(s)
      BY <2>1 DEF IInv, LatestOK
    <2>4. UnderWay(s) => UnderWay(s)'
      BY Zenon, <1>2, <2>2 DEF UnderWay, Reached
    <2>5. Settled(s) => Settled(s)'
      BY Zenon, <1>2, <2>2 DEF Settled
    <2>6. QED
      BY <2>3, <2>4, <2>5
  <1>22. QED
    BY <1>16, <1>17, <1>18, <1>20, <1>21 DEF IInv

\* Every step keeps the invariant.
LEMMA NextOK == IInv /\ [Next]_vars => IInv'
  <1> SUFFICES ASSUME IInv, [Next]_vars
               PROVE  IInv'
    OBVIOUS
  <1>1. ASSUME NEW s \in Shell, Prompt(s) \/ ShellEnds(s)
        PROVE  IInv'
    BY <1>1, PromptOK, ShellEndsOK
  <1>2. ASSUME NEW k \in hooks, HookStep(k)
        PROVE  IInv'
    BY Zenon, <1>2, HookReadsOK, HookAsksOK, HookAbsentOK, HookRecordsOK, HookStillAbsentOK, HookSavesOK
       DEF HookStep
  <1>3. CASE Sweep \/ ShellsGone \/ IdleDue \/ ProcessEnds
    BY Zenon, <1>3, SweepOK, ShellsGoneOK, IdleDueOK, ProcessEndsOK
  <1>4. CASE Up \/ Down \/ RecorderWrites \/ PassTime
    BY Zenon, <1>4, UpOK, DownOK, RecorderWritesOK, PassTimeOK
  <1>5. CASE Exit \/ Crash \/ Start
    BY Zenon, <1>5, ExitOK, CrashOK, StartOK
  <1>6. CASE UNCHANGED vars
    <2>1. UNCHANGED <<shell, hooks, stored, v, queue, idle, torn>>
      BY Zenon, <1>6 DEF vars
    <2>2. ShellsOK' /\ HooksOK' /\ StoredOK' /\ ServiceOK' /\ IdleOK'
      BY Zenon, <2>1 DEF IInv, ShellsOK, HooksOK, StoredOK, ServiceOK, IdleOK, Agrees, AnyHook, Stages,
                         Rep, Service, Inside, Left
    <2>3. LatestOK'
      BY Zenon, <2>1, LatestSame DEF IInv
    <2>4. QED
      BY <2>2, <2>3 DEF IInv
  <1>7. QED
    BY Zenon, <1>1, <1>2, <1>3, <1>4, <1>5, <1>6 DEF Next

-----------------------------------------------------------------------------
\* Once its last report is over, a shell counts where it is, however its
\* reports overtook each other and whether or not a service ran when they were
\* made, unless the service ended between its answer and the record; and a
\* project some shell counts in has no idle stop pending (shell_report,
\* restore_shells, occupancy_changed, restore_idle_stops).
THEOREM CountsHold == Spec => []CountedWhereItIs
  <1>1. IInv => CountedWhereItIs
    <2> SUFFICES ASSUME IInv
                 PROVE  CountedWhereItIs
      OBVIOUS
    <2>1. ASSUME NEW s \in Shell, v.up, shell[s].alive, shell[s].seq > 0, s \notin torn,
                 \A k \in hooks : k.shell # s
          PROVE  v.seen[s].inside = shell[s].inside
      <3>1. UnderWay(s) \/ Settled(s)
        BY <2>1 DEF IInv, LatestOK
      <3>2. v.seen[s].seq = shell[s].seq
        BY Zenon, <2>1, <3>1 DEF UnderWay, Settled
      <3>3. QED
        BY Zenon, <3>2 DEF IInv, ServiceOK, Agrees
    <2>2. v.left # None => Inside(v) = {}
      BY DEF IInv, ServiceOK
    <2>3. QED
      BY Zenon, <2>1, <2>2 DEF CountedWhereItIs
  <1>2. QED
    BY <1>1, InitOK, NextOK, PTL DEF Spec

-----------------------------------------------------------------------------
(* The record of the idle stop. *)

\* What the store has once the recorder wrote all it was handed.
ToBeStored == IF queue = <<>> THEN idle ELSE queue[Len(queue)]

\* The recorder was handed the idle stop that is pending, and a service that
\* does not run has left it in the store, unless it crashed first.
RecordOK ==
    /\ v.up => v.recorded = v.left /\ due = v.left /\ ToBeStored = v.left
    /\ ~v.up => queue = <<>> /\ (due # None => idle = due)

\* After a turn the recorder has been given the stop that is pending.
LEMMA TurnRecords ==
    ASSUME IInv, RecordOK, NEW x \in Service, v.up, x.up = v.up, x.recorded = v.recorded, Recorded(x),
           Same(x, v'), idle' = idle
    PROVE  RecordOK'
  <1>1. v'.up /\ v'.recorded = v'.left /\ due' = v'.left
    BY Zenon DEF Same, Recorded
  <1>2. queue' = IF v'.left = v.recorded THEN queue ELSE Append(queue, v'.left)
    BY Zenon DEF Recorded
  <1>3. v'.left \in Left /\ queue \in Seq(Left)
    BY Zenon DEF Same, Service, IInv, IdleOK
  <1>4. v.recorded = v.left /\ ToBeStored = v.left
    BY DEF RecordOK
  <1>5. ToBeStored' = v'.left
    <2>1. CASE v'.left = v.recorded
      BY Zenon, <1>2, <1>4, <2>1 DEF ToBeStored
    <2>2. CASE v'.left # v.recorded
      <3>1. queue' = Append(queue, v'.left)
        BY Zenon, <1>2, <2>2
      <3>2. queue' # <<>> /\ queue'[Len(queue')] = v'.left
        BY <1>3, <3>1
      <3>3. QED
        BY Zenon, <3>2 DEF ToBeStored
    <2>3. QED
      BY <2>1, <2>2
  <1>6. QED
    BY Zenon, <1>1, <1>5 DEF RecordOK

\* A report the service takes leaves the stop on its way to the record.
LEMMA HookAsksRecords == ASSUME NEW k \in hooks PROVE IInv /\ RecordOK /\ HookAsks(k) => RecordOK'
  <1> SUFFICES ASSUME IInv, RecordOK, HookAsks(k)
               PROVE  RecordOK'
    OBVIOUS
  <1> DEFINE w == ShellReport(Now, k)
  <1>1. v.up /\ Turn(w) /\ idle' = idle
    BY Zenon DEF HookAsks
  <1>2. w.x \in Service /\ w.x.up = v.up /\ w.x.recorded = v.recorded
    BY Zenon, ReportTaken DEF Now
  <1> HIDE DEF w
  <1>3. Same(w.x, v') /\ Recorded(w.x)
    BY Zenon, <1>1, <1>2, TurnSame DEF IInv, IdleOK
  <1>4. QED
    BY Zenon, <1>1, <1>2, <1>3, TurnRecords

\* So do shells that are gone.
LEMMA ShellsGoneRecords == IInv /\ RecordOK /\ ShellsGone => RecordOK'
  <1> SUFFICES ASSUME IInv, RecordOK, ShellsGone
               PROVE  RecordOK'
    OBVIOUS
  <1> DEFINE seen == [s \in Shell |-> IF s \in v.gone THEN Unknown ELSE v.seen[s]]
             y == [v EXCEPT !.seen = seen, !.envs = @ \ v.gone, !.gone = {}]
             x == OccupancyChanged(v, y)
             w == World(x, proc)
  <1>1. v.up /\ Turn(w) /\ idle' = idle
    BY Zenon DEF ShellsGone
  <1>2. v \in Service /\ (v.left # None => Inside(v) = {}) /\ Unknown \in Rep
    BY UnknownAgrees DEF IInv, ServiceOK
  <1>3. seen \in [Shell -> Rep]
    BY <1>2 DEF Service
  <1> HIDE DEF seen
  <1>4. y \in Service /\ y.up = v.up /\ y.left = v.left /\ y.recorded = v.recorded
    BY Zenon, <1>2, <1>3 DEF Service
  <1> HIDE DEF y
  <1>5. x \in Service /\ x.up = y.up /\ x.recorded = y.recorded
    BY Zenon, <1>2, <1>4, OccupancyKept
  <1>6. w.x = x
    BY Zenon, WorldParts
  <1> HIDE DEF x, w
  <1>7. Same(x, v') /\ Recorded(x)
    BY Zenon, <1>1, <1>5, <1>6, TurnSame DEF IInv, IdleOK
  <1>8. QED
    BY Zenon, <1>1, <1>4, <1>5, <1>7, TurnRecords

\* So do a due stop and the end of a process.
LEMMA WaitedRecords == IInv /\ RecordOK /\ (IdleDue \/ ProcessEnds) => RecordOK'
  <1> SUFFICES ASSUME IInv, RecordOK, IdleDue \/ ProcessEnds
               PROVE  RecordOK'
    OBVIOUS
  <1>1. PICK p : Turn(World(v, p)) /\ v.up /\ idle' = idle
    BY Zenon DEF IdleDue, ProcessEnds, Now
  <1>2. v \in Service
    BY DEF IInv, ServiceOK
  <1> DEFINE w == World(v, p)
  <1>3. Turn(w) /\ w.x = v
    BY Zenon, <1>1, WorldParts
  <1> HIDE DEF w
  <1>4. Same(v, v') /\ Recorded(v)
    BY Zenon, <1>2, <1>3, TurnSame DEF IInv, IdleOK
  <1>5. QED
    BY Zenon, <1>1, <1>2, <1>4, TurnRecords

\* So do Up and Down.
LEMMA CommandRecords == IInv /\ RecordOK /\ (Up \/ Down) => RecordOK'
  <1> SUFFICES ASSUME IInv, RecordOK, Up \/ Down
               PROVE  RecordOK'
    OBVIOUS
  <1>1. v \in Service
    BY DEF IInv, ServiceOK
  <1>2. Kept(v, ClientActsOn(v))
    BY Zenon, <1>1, Basics DEF Same, Kept, Service, ClientActsOn
  <1>3. Kept(v, HoldUp(ClientActsOn(v)))
    BY Zenon, <1>1, Basics DEF Same, Kept, Service, ClientActsOn, HoldUp
  <1>4. PICK x : Kept(v, x) /\ \E p : Commanded(World(x, p))
    BY Zenon, <1>2, <1>3 DEF Up, Down
  <1>5. PICK p : Commanded(World(x, p))
    BY <1>4
  <1> DEFINE w == World(x, p)
  <1>6. /\ RecordIdleStops(StopIdle(EnterStopped(w))) /\ due' = StopIdle(EnterStopped(w)).x.left
        /\ v.up /\ idle' = idle
    BY Zenon, <1>5 DEF Commanded
  <1>7. w.x = x /\ x \in Service /\ x.up = v.up /\ x.recorded = v.recorded
    BY Zenon, <1>4, WorldParts DEF Kept, Same
  <1> HIDE DEF w
  <1>8. Same(x, v') /\ Recorded(x)
    BY Zenon, <1>6, <1>7, RestOfTurn DEF IInv, IdleOK
  <1>9. QED
    BY Zenon, <1>6, <1>7, <1>8, TurnRecords

\* A stop that was on its way is recorded, the latest last.
LEMMA RecorderRecords == IInv /\ RecordOK /\ RecorderWrites => RecordOK'
  <1> SUFFICES ASSUME IInv, RecordOK, RecorderWrites
               PROVE  RecordOK'
    OBVIOUS
  <1>1. queue # <<>> /\ idle' = Head(queue) /\ queue' = Tail(queue) /\ UNCHANGED <<v, due>>
    BY DEF RecorderWrites
  <1>2. queue \in Seq(Left)
    BY DEF IInv, IdleOK
  <1>3. ToBeStored' = ToBeStored
    <2>1. Tail(queue) = <<>> => Head(queue) = queue[Len(queue)]
      <3>1. Len(queue) \in Nat /\ Len(queue) # 0 /\ Len(Tail(queue)) = Len(queue) - 1 /\ Head(queue) = queue[1]
        BY <1>1, <1>2
      <3>2. Len(<<>>) = 0
        OBVIOUS
      <3>3. \A n \in Nat : n - 1 = 0 => n = 1
        OBVIOUS
      <3>4. QED
        BY Zenon, <3>1, <3>2, <3>3
    <2>2. Tail(queue) # <<>> => Tail(queue)[Len(Tail(queue))] = queue[Len(queue)]
      BY <1>1, <1>2
    <2>3. QED
      BY Zenon, <1>1, <2>1, <2>2 DEF ToBeStored
  <1>4. QED
    BY Zenon, <1>1, <1>3 DEF RecordOK

\* A recorded stop comes nearer with the pending one.
LEMMA PassTimeRecords == IInv /\ RecordOK /\ PassTime => RecordOK'
  <1> SUFFICES ASSUME IInv, RecordOK, PassTime
               PROVE  RecordOK'
    OBVIOUS
  <1>1. /\ v' = [v EXCEPT !.left = Later(@), !.recorded = Later(@)]
        /\ queue' = [i \in DOMAIN queue |-> Later(queue[i])]
        /\ idle' = Later(idle) /\ due' = Later(due)
    BY DEF PassTime
  <1>2. v \in Service /\ queue \in Seq(Left) /\ idle \in Left
    BY DEF IInv, ServiceOK, IdleOK
  <1>3. v'.up = v.up /\ v'.left = Later(v.left) /\ v'.recorded = Later(v.recorded)
    BY <1>1, <1>2 DEF Service
  <1> DEFINE n == Len(queue)
  <1>4. n \in Nat /\ DOMAIN queue = 1..n /\ (queue = <<>> <=> n = 0)
    BY <1>2
  <1>5. queue' = [i \in 1..n |-> Later(queue[i])]
    BY <1>1, <1>4
  <1> HIDE DEF n
  <1>6. Len(queue') = n /\ (queue' = <<>> <=> n = 0) /\ (n # 0 => queue'[n] = Later(queue[n]))
    BY <1>4, <1>5
  <1>7. ToBeStored' = Later(ToBeStored)
    BY <1>1, <1>4, <1>6 DEF ToBeStored, n
  <1>8. ~v.up /\ due' # None => due # None
    <2>1. None \in Int /\ Later(None) = None
      BY DEF None, Later
    <2>2. QED
      BY Zenon, <1>1, <2>1
  <1>9. QED
    BY Zenon, <1>1, <1>3, <1>4, <1>6, <1>7, <1>8 DEF RecordOK

\* Nothing is on its way when no service runs.
LEMMA EndRecords == IInv /\ RecordOK /\ (Exit \/ Crash) => RecordOK'
  <1> SUFFICES ASSUME IInv, RecordOK, Exit \/ Crash
               PROVE  RecordOK'
    OBVIOUS
  <1>1. v.up /\ v' = Off /\ queue' = <<>>
    BY Zenon DEF Exit, Crash
  <1>2. ~v'.up
    BY <1>1 DEF Off
  <1>3. due = ToBeStored
    BY <1>1 DEF RecordOK
  <1>4. due' # None => idle' = due'
    <2>1. CASE Exit
      BY Zenon, <1>3, <2>1 DEF Exit, ToBeStored
    <2>2. CASE Crash
      BY Zenon, <1>3, <2>2 DEF Crash, ToBeStored
    <2>3. QED
      BY <2>1, <2>2
  <1>5. QED
    BY Zenon, <1>1, <1>2, <1>4 DEF RecordOK

\* A start goes on with the idle stop that is stored, where no shell is inside
\* what runs.
LEMMA StartRestores ==
    ASSUME IInv, RecordOK, Start
    PROVE  RecordOK' /\ (v'.loaded /\ Inside(v') = {} /\ due # None => v'.left = due)
  <1> DEFINE begun(p) == [Off EXCEPT !.up = TRUE, !.loaded = p # "down"]
             back(p) == RestoreShells(begun(p))
             now(p) == RestoreIdleStops(back(p))
  <1>1. PICK p : RecordIdleStops(World(now(p), p)) /\ due' = now(p).left
    BY Zenon DEF Start
  <1>2. ~v.up /\ idle' = idle
    BY DEF Start
  <1>3. queue = <<>> /\ (due # None => idle = due) /\ idle \in Left
    BY <1>2 DEF RecordOK, IInv, IdleOK
  <1>4. Unknown \in Rep /\ stored \in [Shell -> Rep]
    BY UnknownAgrees DEF IInv, StoredOK
  <1> DEFINE b == begun(p)
             seen == [s \in Shell |-> IF shell[s].alive THEN stored[s] ELSE Unknown]
             live == [b EXCEPT !.seen = seen]
             ended == [b EXCEPT !.seen = stored]
             y == OccupancyChanged(ended, live)
             z == now(p)
  <1>5. b \in Service /\ b.left = None /\ b.up = TRUE
    BY Zenon, <1>4, Basics DEF Off, Service
  <1>6. seen \in [Shell -> Rep]
    BY <1>4
  <1>7. y = back(p)
    BY Zenon DEF RestoreShells
  <1> HIDE DEF b, seen
  <1>8. live \in Service /\ live.left = None /\ live.up = TRUE /\ ended \in Service /\ ended.left = None
    BY <1>4, <1>5, <1>6 DEF Service
  <1> HIDE DEF live, ended
  <1>9. y \in Service /\ y.up = TRUE
    BY Zenon, <1>8, OccupancyKept
  <1> HIDE DEF y
  <1>10. z = [y EXCEPT !.recorded = idle, !.left = IF idle # None /\ y.loaded /\ Inside(y) = {} THEN idle ELSE @]
    BY Zenon, <1>7 DEF RestoreIdleStops
  <1> HIDE DEF z
  <1>11. /\ z \in Service /\ z.up = TRUE /\ z.seen = y.seen /\ z.recorded = idle /\ z.loaded = y.loaded
         /\ idle # None /\ y.loaded /\ Inside(y) = {} => z.left = idle
    BY Zenon, <1>3, <1>9, <1>10 DEF Service
  <1>12. /\ v' = [z EXCEPT !.recorded = z.left] /\ due' = z.left
         /\ queue' = (IF z.left = z.recorded THEN queue ELSE Append(queue, z.left))
    <2>1. World(z, p).x = z
      BY Zenon, WorldParts
    <2>2. QED
      BY Zenon, <1>1, <2>1 DEF RecordIdleStops, z
  <1>13. /\ v'.up = TRUE /\ v'.recorded = z.left /\ v'.left = z.left
         /\ v'.seen = y.seen /\ v'.loaded = y.loaded
    BY <1>11, <1>12 DEF Service
  <1>14. ToBeStored' = z.left
    <2>1. CASE z.left = idle
      BY Zenon, <1>2, <1>3, <1>11, <1>12, <2>1 DEF ToBeStored
    <2>2. CASE z.left # idle
      <3>1. queue' = Append(<<>>, z.left)
        BY Zenon, <1>3, <1>11, <1>12, <2>2
      <3>2. queue' # <<>> /\ queue'[Len(queue')] = z.left
        BY <3>1
      <3>3. QED
        BY Zenon, <3>2 DEF ToBeStored
    <2>3. QED
      BY <2>1, <2>2
  <1>15. RecordOK'
    BY Zenon, <1>12, <1>13, <1>14 DEF RecordOK
  <1>16. Inside(v') = Inside(y)
    BY Zenon, <1>13 DEF Inside
  <1>17. QED
    BY Zenon, <1>3, <1>11, <1>13, <1>15, <1>16

\* Everything else leaves the service's idle stop and its record alone.
LEMMA OthersRecord ==
    ASSUME RecordOK, UNCHANGED <<v, queue, idle, due>>
    PROVE  RecordOK'
  BY Zenon DEF RecordOK, ToBeStored

\* Every step keeps what the record says of the stop.
LEMMA NextRecords == IInv /\ RecordOK /\ [Next]_vars => RecordOK'
  <1> SUFFICES ASSUME IInv, RecordOK, [Next]_vars
               PROVE  RecordOK'
    OBVIOUS
  <1>1. ASSUME NEW s \in Shell, Prompt(s) \/ ShellEnds(s)
        PROVE  RecordOK'
    BY Zenon, <1>1, OthersRecord DEF Prompt, ShellEnds
  <1>2. ASSUME NEW k \in hooks, HookStep(k)
        PROVE  RecordOK'
    <2>1. CASE HookAsks(k)
      BY Zenon, <2>1, HookAsksRecords
    <2>2. CASE HookReads(k) \/ HookAbsent(k) \/ HookRecords(k) \/ HookStillAbsent(k) \/ HookSaves(k)
      BY Zenon, <2>2, OthersRecord DEF HookReads, HookAbsent, HookRecords, HookStillAbsent, HookSaves
    <2>3. QED
      BY Zenon, <1>2, <2>1, <2>2 DEF HookStep
  <1>3. CASE Sweep
    <2>1. v \in Service
      BY DEF IInv, ServiceOK
    <2>2. UNCHANGED <<queue, idle, due>> /\ \E g : v' = [v EXCEPT !.gone = g]
      BY Zenon, <1>3 DEF Sweep
    <2>3. v'.up = v.up /\ v'.left = v.left /\ v'.recorded = v.recorded
      BY <2>1, <2>2 DEF Service
    <2>4. QED
      BY Zenon, <2>2, <2>3 DEF RecordOK, ToBeStored
  <1>4. CASE ShellsGone \/ IdleDue \/ ProcessEnds \/ Up \/ Down
    BY Zenon, <1>4, ShellsGoneRecords, WaitedRecords, CommandRecords
  <1>5. CASE RecorderWrites \/ PassTime
    BY Zenon, <1>5, RecorderRecords, PassTimeRecords
  <1>6. CASE Exit \/ Crash \/ Start
    BY Zenon, <1>6, EndRecords, StartRestores
  <1>7. CASE UNCHANGED vars
    BY Zenon, <1>7, OthersRecord DEF vars
  <1>8. QED
    BY Zenon, <1>1, <1>2, <1>3, <1>4, <1>5, <1>6, <1>7 DEF Next

\* Only Start brings a service up.
LEMMA OnlyStartStarts ==
    ASSUME IInv, [Next]_vars, ~v.up, v'.up
    PROVE  Start
  <1>1. ASSUME NEW s \in Shell, Prompt(s) \/ ShellEnds(s)
        PROVE  FALSE
    BY Zenon, <1>1 DEF Prompt, ShellEnds
  <1>2. ASSUME NEW k \in hooks, HookStep(k)
        PROVE  FALSE
    BY Zenon, <1>2 DEF HookStep, HookAsks, HookReads, HookAbsent, HookRecords, HookStillAbsent, HookSaves
  <1>3. CASE Sweep \/ ShellsGone \/ IdleDue \/ ProcessEnds
    BY Zenon, <1>3 DEF Sweep, ShellsGone, IdleDue, ProcessEnds
  <1>4. CASE Up \/ Down \/ Exit \/ Crash
    BY Zenon, <1>4 DEF Up, Down, Commanded, Exit, Crash
  <1>5. CASE RecorderWrites
    BY Zenon, <1>5 DEF RecorderWrites
  <1>6. CASE PassTime
    <2>1. v \in Service /\ v' = [v EXCEPT !.left = Later(@), !.recorded = Later(@)]
      BY <1>6 DEF PassTime, IInv, ServiceOK
    <2>2. QED
      BY <2>1 DEF Service
  <1>7. CASE UNCHANGED vars
    BY Zenon, <1>7 DEF vars
  <1>8. QED
    BY Zenon, <1>1, <1>2, <1>3, <1>4, <1>5, <1>6, <1>7 DEF Next

\* A pending idle stop survives the service: the next one stops the project
\* when the former would have, unless it crashed with the record on its way
\* (record_idle_stops, the flush of an exit, restore_idle_stops).
THEOREM StopsKeepTime == Spec => StopsOnTime
  <1> DEFINE OnTime == ~v.up /\ v'.up /\ v'.loaded /\ Inside(v') = {} /\ due # None => v'.left = due
  <1>1. Init => RecordOK
    BY DEF Init, RecordOK, Off
  <1>2. IInv /\ RecordOK /\ [Next]_vars => OnTime
    BY Zenon, OnlyStartStarts, StartRestores
  <1>3. IInv /\ RecordOK /\ [Next]_vars => [OnTime]_vars
    BY <1>2
  <1>4. Spec => [][OnTime]_vars
    <2> HIDE DEF OnTime
    <2> QED
      BY <1>1, <1>3, InitOK, NextOK, NextRecords, PTL DEF Spec
  <1>5. QED
    BY Zenon, <1>4 DEF StopsOnTime
=============================================================================
