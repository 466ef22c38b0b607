----------------------------- MODULE Occupancy -----------------------------
(***************************************************************************)
(* Shells in a project, and the project that stops once they left it.       *)
(*                                                                         *)
(* At each prompt a shell's hook starts a process that reports where the    *)
(* shell is: it reads the shell's stored record, asks the service and       *)
(* stores the report.  These processes overtake each other.  The service    *)
(* counts the shells inside, brings the project up as the first enters,     *)
(* stops it some time after the last left, and enters it again for a shell  *)
(* that came back while it was being stopped.  A pending stop is recorded   *)
(* by a worker, for the next service.                                       *)
(*                                                                         *)
(* One project with one autostart process: changes of a project are applied *)
(* to it alone.  Times are what is left of them, and count down together.         *)
(***************************************************************************)
EXTENDS Integers, Sequences, FiniteSets

CONSTANTS Shell,
          Idle,          \* how long the project runs with no shell inside
          MaxPrompts,    \* prompts of the shells
          MaxHooks,      \* reports under way at a time
          MaxTurns       \* ends of shells, commands of clients, exits and crashes

None == -1
NoShell == 0

ASSUME OccupancyAssumption ==
    Idle \in Nat \ {0} /\ MaxPrompts \in Nat /\ MaxHooks \in Nat /\ MaxTurns \in Nat
    /\ NoShell \notin Shell

Left == None..Idle

VARIABLES shell,    \* each shell: whether it lives and is inside, and its prompts
          hooks,    \* the report processes under way
          stored,   \* the record file of each shell
          v,        \* the service
          proc,     \* the project's process, as the service shows it
          queue,    \* the idle stops on their way to the store
          idle,     \* the idle stop the store has
          used,     \* how much of each bound was spent
          due,      \* history: the idle stop that is pending, if any
          torn,     \* history: shells a service ended on between answer and record
          last      \* history: whether a client or the idle stop acted last

vars == <<shell, hooks, stored, v, proc, queue, idle, used, due, torn, last>>

Report == [seq : 0..MaxPrompts, inside : BOOLEAN]
Unknown == [seq |-> 0, inside |-> FALSE]
Hook == [shell : Shell, seq : 1..MaxPrompts, inside : BOOLEAN, env : BOOLEAN,
         stage : {"begin", "ask", "absent", "again", "save"}]

TypeOK ==
    /\ shell \in [Shell -> [alive : BOOLEAN, inside : BOOLEAN, seq : 0..MaxPrompts]]
    /\ hooks \subseteq Hook
    /\ stored \in [Shell -> Report]
    /\ v \in [up : BOOLEAN, loaded : BOOLEAN, seen : [Shell -> Report], envs : SUBSET Shell,
              left : Left, recorded : Left, idleStopping : BOOLEAN,
              waiting : Shell \cup {NoShell}, gone : SUBSET Shell]
    /\ proc \in {"down", "up", "stopping"}
    /\ queue \in Seq(Left)
    /\ idle \in Left
    /\ used \in [prompts : 0..MaxPrompts, turns : 0..MaxTurns]
    /\ due \in Left
    /\ torn \subseteq Shell
    /\ last \in {"client", "idle"}

\* A service that does not run.
Off == [up |-> FALSE, loaded |-> FALSE, seen |-> [s \in Shell |-> Unknown], envs |-> {},
        left |-> None, recorded |-> None, idleStopping |-> FALSE, waiting |-> NoShell,
        gone |-> {}]

Init ==
    /\ shell = [s \in Shell |-> [alive |-> TRUE, inside |-> FALSE, seq |-> 0]]
    /\ hooks = {}
    /\ stored = [s \in Shell |-> Unknown]
    /\ v = Off
    /\ proc = "down"
    /\ queue = <<>>
    /\ idle = None
    /\ used = [prompts |-> 0, turns |-> 0]
    /\ due = None
    /\ torn = {}
    /\ last = "client"

-----------------------------------------------------------------------------
(* The table of shells, and what its changes do.  A world is the service x   *)
(* with the process p it shows.                                              *)

Inside(x) == {s \in Shell : x.seen[s].inside}

IsNewer(x, s, r) == r.seq > x.seen[s].seq

Put(x, s, r) == [x EXCEPT !.seen[s] = r]

\* The last shell that left arms the idle stop of a loaded project, and the
\* first that entered holds it off.
OccupancyChanged(x, y) ==
    CASE Inside(x) # {} /\ Inside(y) = {} ->
             [y EXCEPT !.waiting = NoShell, !.left = IF y.loaded THEN Idle ELSE @]
      [] Inside(x) = {} /\ Inside(y) # {} -> [y EXCEPT !.left = None]
      [] OTHER -> y

World(x, p) == [x |-> x, p |-> p]

\* up() starts what is down; what the last idle stop is still stopping is
\* waited for.
Enter(w, s) ==
    LET waits == w.x.idleStopping /\ w.p = "stopping"
    IN  World([w.x EXCEPT !.loaded = TRUE, !.idleStopping = waits,
                          !.waiting = IF waits THEN s ELSE @],
              IF w.p = "down" THEN "up" ELSE w.p)

ShellReport(w, k) ==
    LET r == [seq |-> k.seq, inside |-> k.inside]
        fresh == IsNewer(w.x, k.shell, r)
        put == IF fresh THEN OccupancyChanged(w.x, Put(w.x, k.shell, r)) ELSE w.x
        known == IF fresh /\ k.env THEN [put EXCEPT !.envs = @ \cup {k.shell}] ELSE put
        entered == Inside(w.x) = {} /\ Inside(put) # {}
    IN  IF ~shell[k.shell].alive THEN w
        ELSE IF k.env /\ entered THEN Enter(World(known, w.p), k.shell)
        ELSE World(known, w.p)

\* Variant: only the shell that entered, though another may still be inside.
EnteringItself(x) == Inside(x) \cap {x.waiting}

\* The shell that entered, or another one inside whose environment is known.
EnteringShell(x) == IF x.waiting \in Inside(x) THEN {x.waiting} ELSE Inside(x) \cap x.envs

EnterStopped(w) ==
    LET x == [w.x EXCEPT !.waiting = NoShell]
    IN  IF w.x.waiting = NoShell \/ w.p # "down" THEN w
        ELSE IF EnteringShell(w.x) = {} THEN World(x, w.p)
        ELSE Enter(World(x, w.p), CHOOSE s \in EnteringShell(w.x) : TRUE)

\* A due stop clears whether or not anything runs; down() counts as stopped
\* whatever may be running, what is stopping already included.
StopIdle(w) ==
    IF w.x.left # 0 THEN w
    ELSE World([w.x EXCEPT !.left = None, !.idleStopping = IF w.p = "down" THEN @ ELSE TRUE],
               IF w.p = "down" THEN w.p ELSE "stopping")

\* A world whose idle stop is handed to the recorder when it changed.
RecordIdleStops(w) ==
    /\ v' = [w.x EXCEPT !.recorded = w.x.left]
    /\ proc' = w.p
    /\ queue' = IF w.x.left = w.x.recorded THEN queue ELSE Append(queue, w.x.left)

\* The rest of a turn of the loop, after its handler made w.
Turn(w) ==
    LET entered == EnterStopped(w)
        stopped == StopIdle(entered)
    IN  /\ RecordIdleStops(stopped)
        /\ due' = stopped.x.left
        /\ last' = IF stopped # entered /\ entered.p = "up" THEN "idle" ELSE last

Now == World(v, proc)

-----------------------------------------------------------------------------
(* Shells and their hooks. *)

\* A prompt, inside the project or not.
Prompt(s) ==
    /\ shell[s].alive
    /\ used.prompts < MaxPrompts /\ Cardinality(hooks) < MaxHooks
    /\ used' = [used EXCEPT !.prompts = @ + 1]
    /\ \E inside \in BOOLEAN :
          /\ shell' = [shell EXCEPT ![s].inside = inside, ![s].seq = @ + 1]
          /\ hooks' = hooks \cup {[shell |-> s, seq |-> shell[s].seq + 1, inside |-> inside,
                                   env |-> FALSE, stage |-> "begin"]}
    /\ UNCHANGED <<stored, v, proc, queue, idle, due, torn, last>>

ShellEnds(s) ==
    /\ shell[s].alive
    /\ used.turns < MaxTurns
    /\ shell' = [shell EXCEPT ![s].alive = FALSE]
    /\ used' = [used EXCEPT !.turns = @ + 1]
    /\ UNCHANGED <<hooks, stored, v, proc, queue, idle, due, torn, last>>

Advance(k, stage) == hooks' = (hooks \ {k}) \cup {[k EXCEPT !.stage = stage]}

\* The environment goes along when the last record was not inside.
HookReads(k) ==
    /\ k.stage = "begin"
    /\ hooks' = (hooks \ {k}) \cup
          (IF shell[k.shell].alive /\ k.seq > stored[k.shell].seq
           THEN {[k EXCEPT !.stage = "ask", !.env = k.inside /\ ~stored[k.shell].inside]}
           ELSE {})
    /\ UNCHANGED <<shell, stored, v, proc, queue, idle, used, due, torn, last>>

\* The service takes the report.
HookAsks(k) ==
    /\ k.stage \in {"ask", "again"}
    /\ v.up
    /\ Advance(k, "save")
    /\ Turn(ShellReport(Now, k))
    /\ UNCHANGED <<shell, stored, idle, used, torn>>

SaveIfNewer(k) ==
    stored' = [stored EXCEPT ![k.shell] =
                  IF k.seq > @.seq THEN [seq |-> k.seq, inside |-> k.inside] ELSE @]

\* No service answers a shell that is outside: it is recorded ...
HookAbsent(k) ==
    /\ k.stage = "ask" /\ ~k.inside
    /\ ~v.up
    /\ Advance(k, "absent")
    /\ UNCHANGED <<shell, stored, v, proc, queue, idle, used, due, torn, last>>

\* Variant: a hook that leaves it at that.
HookRecordsOnly(k) ==
    /\ k.stage = "absent"
    /\ SaveIfNewer(k)
    /\ hooks' = hooks \ {k}
    /\ UNCHANGED <<shell, v, proc, queue, idle, used, due, torn, last>>

\* ... and a service that started meanwhile, and may have read the former
\* record, is asked for once more.
HookRecords(k) ==
    /\ k.stage = "absent"
    /\ SaveIfNewer(k)
    /\ Advance(k, "again")
    /\ UNCHANGED <<shell, v, proc, queue, idle, used, due, torn, last>>

HookStillAbsent(k) ==
    /\ k.stage = "again"
    /\ ~v.up
    /\ hooks' = hooks \ {k}
    /\ UNCHANGED <<shell, stored, v, proc, queue, idle, used, due, torn, last>>

HookSaves(k) ==
    /\ k.stage = "save"
    /\ SaveIfNewer(k)
    /\ hooks' = hooks \ {k}
    /\ UNCHANGED <<shell, v, proc, queue, idle, used, due, torn, last>>

-----------------------------------------------------------------------------
(* The service. *)

\* The sweeper forgets the record of each shell that ended ...
Sweep ==
    LET ended == {s \in Shell : v.seen[s].seq > 0 /\ ~shell[s].alive}
    IN  /\ v.up /\ v.gone = {} /\ ended # {}
        /\ v' = [v EXCEPT !.gone = ended]
        /\ stored' = [s \in Shell |-> IF s \in ended THEN Unknown ELSE stored[s]]
        /\ UNCHANGED <<shell, hooks, proc, queue, idle, used, due, torn, last>>

\* ... and the loop takes them off the table.
ShellsGone ==
    LET x == [v EXCEPT !.seen = [s \in Shell |-> IF s \in v.gone THEN Unknown ELSE @[s]],
                       !.envs = @ \ v.gone, !.gone = {}]
    IN  /\ v.up /\ v.gone # {}
        /\ Turn(World(OccupancyChanged(v, x), proc))
        /\ UNCHANGED <<shell, hooks, stored, idle, used, torn>>

\* The idle stop is due.
IdleDue ==
    /\ v.up /\ v.left = 0
    /\ Turn(Now)
    /\ UNCHANGED <<shell, hooks, stored, idle, used, torn>>

ProcessEnds ==
    /\ v.up /\ proc = "stopping"
    /\ Turn(World(v, "down"))
    /\ UNCHANGED <<shell, hooks, stored, idle, used, torn>>

\* A client whose command was accepted owns what runs or stops there.
ClientActsOn(x) == [x EXCEPT !.waiting = NoShell, !.idleStopping = FALSE, !.loaded = TRUE]

HoldUp(x) == [x EXCEPT !.left = None]

Commanded(w) ==
    /\ v.up /\ used.turns < MaxTurns
    /\ used' = [used EXCEPT !.turns = @ + 1]
    /\ LET stopped == StopIdle(EnterStopped(w))
       IN  RecordIdleStops(stopped) /\ due' = stopped.x.left
    /\ last' = "client"
    /\ UNCHANGED <<shell, hooks, stored, idle, torn>>

Up == Commanded(World(HoldUp(ClientActsOn(v)), IF proc = "down" THEN "up" ELSE proc))

Down == Commanded(World(ClientActsOn(v), IF proc = "up" THEN "stopping" ELSE proc))

RecorderWrites ==
    /\ queue # <<>>
    /\ idle' = Head(queue)
    /\ queue' = Tail(queue)
    /\ UNCHANGED <<shell, hooks, stored, v, proc, used, due, torn, last>>

Later(t) == IF t > 0 THEN t - 1 ELSE t

PassTime ==
    /\ v.left > 0 \/ idle > 0 \/ due > 0
    /\ v' = [v EXCEPT !.left = Later(@), !.recorded = Later(@)]
    /\ queue' = [i \in DOMAIN queue |-> Later(queue[i])]
    /\ idle' = Later(idle)
    /\ due' = Later(due)
    /\ UNCHANGED <<shell, hooks, stored, proc, used, torn, last>>

\* The shells whose answered report may not be stored yet.
Unsaved == {k.shell : k \in {h \in hooks : h.stage = "save"}}

\* An exiting service waits for its recorder.
Exit ==
    /\ v.up /\ used.turns < MaxTurns
    /\ used' = [used EXCEPT !.turns = @ + 1]
    /\ v' = Off
    /\ idle' = IF queue = <<>> THEN idle ELSE queue[Len(queue)]
    /\ queue' = <<>>
    /\ torn' = torn \cup Unsaved
    /\ UNCHANGED <<shell, hooks, stored, proc, due, last>>

\* A crash loses what was not written, and answers on their way.
Crash ==
    /\ v.up /\ used.turns < MaxTurns
    /\ used' = [used EXCEPT !.turns = @ + 1]
    /\ v' = Off
    /\ queue' = <<>>
    /\ \E lost \in SUBSET {k \in hooks : k.stage = "save"} : hooks' = hooks \ lost
    /\ torn' = torn \cup Unsaved
    /\ due' = IF queue = <<>> THEN due ELSE None
    /\ UNCHANGED <<shell, stored, proc, idle, last>>

\* Live shells are put back where they were; one that ended leaves.
RestoreShells(x) ==
    LET live == [x EXCEPT !.seen = [s \in Shell |-> IF shell[s].alive THEN stored[s] ELSE Unknown]]
        ended == [x EXCEPT !.seen = stored]
    IN  OccupancyChanged(ended, live)

\* Variant: whoever is inside.
RestoreWhoeverIsInside(x) ==
    [x EXCEPT !.recorded = idle, !.left = IF idle # None /\ x.loaded THEN idle ELSE @]

\* Variant: the time starts again.
RestoreAfresh(x) ==
    [x EXCEPT !.recorded = idle,
              !.left = IF idle # None /\ x.loaded /\ Inside(x) = {} THEN Idle ELSE @]

\* The stored idle stop of a project no shell is in goes on where it was.
RestoreIdleStops(x) ==
    [x EXCEPT !.recorded = idle,
              !.left = IF idle # None /\ x.loaded /\ Inside(x) = {} THEN idle ELSE @]

\* Some command starts the service, which adopts what runs.  A process that
\* was being stopped has ended since, or runs on.
Start ==
    /\ ~v.up
    /\ \E p \in (IF proc = "stopping" THEN {"up", "down"} ELSE {proc}) :
          LET x == RestoreIdleStops(RestoreShells([Off EXCEPT !.up = TRUE, !.loaded = p # "down"]))
          IN  RecordIdleStops(World(x, p)) /\ due' = x.left
    /\ stored' = [s \in Shell |-> IF shell[s].alive THEN stored[s] ELSE Unknown]
    /\ UNCHANGED <<shell, hooks, idle, used, torn, last>>

-----------------------------------------------------------------------------
HookStep(k) ==
    \/ HookReads(k) \/ HookAsks(k) \/ HookAbsent(k) \/ HookRecords(k)
    \/ HookStillAbsent(k) \/ HookSaves(k)

Next ==
    \/ \E s \in Shell : Prompt(s) \/ ShellEnds(s)
    \/ \E k \in hooks : HookStep(k)
    \/ Sweep \/ ShellsGone \/ IdleDue \/ ProcessEnds \/ Up \/ Down
    \/ RecorderWrites \/ PassTime \/ Exit \/ Crash \/ Start

\* A process that is stopped ends, killed if need be.
Spec == Init /\ [][Next]_vars /\ WF_vars(ProcessEnds)

-----------------------------------------------------------------------------
(* Properties. *)

\* A pending idle stop survives the service: the next one stops the project
\* when the former would have (record_idle_stops, the flush of an exit and
\* restore_idle_stops), unless it crashed with the record on its way.
StopsOnTime ==
    [][~v.up /\ v'.up /\ v'.loaded /\ Inside(v') = {} /\ due # None => v'.left = due]_vars

\* Once its last report is over, a shell counts where it is, however its
\* reports overtook each other and whether or not a service ran when they
\* were made (shell_report and restore_shells), unless the service ended
\* between its answer and the record.  And a project some shell counts in has
\* no idle stop pending, through entries, leaves, sweeps and the restart of the
\* service (occupancy_changed and restore_idle_stops).
CountedWhereItIs ==
    /\ \A s \in Shell :
          v.up /\ shell[s].alive /\ shell[s].seq > 0 /\ s \notin torn
          /\ (\A k \in hooks : k.shell # s)
              => v.seen[s].inside = shell[s].inside
    /\ v.left # None => Inside(v) = {}

\* A shell that came back while the project was being stopped finds it up
\* again, entered as another shell if it left itself, unless all left, a
\* client acted or the service ended (enter_stopped).
BackInsideComesUp ==
    v.waiting # NoShell ~>
        proc = "up" \/ ~v.up \/ last = "client" \/ Inside(v) \cap v.envs = {}

\* A shell that comes back waits, to start the process again, only for a stop
\* of the idle stop, never for one a client asked for (idle.rs idle_stopping:
\* "a stop a client asked for is never among them").
ClientStopHolds == v.waiting # NoShell => last = "idle"

=============================================================================
