-------------------------------- MODULE Pane --------------------------------
(***************************************************************************)
(* The world of one pane: the books the supervisor keeps about it, the      *)
(* events its workers, timers and readers have in flight, and the holders   *)
(* and children of its process on the machine; and the steps the            *)
(* supervisor's handlers are made of.  A step is an operator from the world *)
(* before it to the world after it.                                         *)
(*                                                                         *)
(* Every handler of the loop takes one pane and touches only that pane's    *)
(* entries, so the model has one pane; a pane id retired and used again is  *)
(* the same pane.                                                           *)
(***************************************************************************)
EXTENDS Naturals, ProcessLifecycle

CONSTANTS MaxChildren,    \* children launched in all
          Policy,         \* the restart policy the stack gives the process
          KillLimit,      \* kills sent to an unsupervised child before giving up
          GraceChecks     \* checks within the grace of an unsupervised stop

ASSUME PaneAssumption ==
    /\ MaxChildren \in Nat
    /\ Policy \in RestartPolicy
    /\ KillLimit \in Nat
    /\ GraceChecks \in Nat \ {0}

-----------------------------------------------------------------------------
(* The world of one pane. *)

Child == 1..MaxChildren
None == 0
ChildOrNone == Child \cup {None}

Membership == {"Tracked", "RetireOnExit"}

\* What a pane keeps across a reconnect.
Carried == [intent : ExitIntent, member : Membership, state : ProcessState, child : ChildOrNone]

NoCarried == [intent |-> "FollowPolicy", member |-> "Tracked", state |-> "Pending", child |-> None]

\* A launch or adoption handed to a worker, and what was asked meanwhile.
\* `early` is the one output of the new stream that matters here: how the run
\* ended, or that the stream broke, before the result arrived.
Launch == [purpose : {"none", "Spawn", "Adopt"}, gen : Nat, prior : ProcessState,
           carried : Carried, early : {"none", "ExitedOk", "ExitedFailed", "Unreadable"},
           intent : {"none", "Stop", "Kill", "Restart"},
           suspend : {"none", "pause", "resume"},
           member : Membership \cup {"none"}]

NewLaunch(purpose, gen, prior, carried) ==
    [purpose |-> purpose, gen |-> gen, prior |-> prior, carried |-> carried,
     early |-> "none", intent |-> "none", suspend |-> "none", member |-> "none"]

NoLaunch == NewLaunch("none", 0, "Pending", NoCarried)

\* Everything in flight to the loop: work on a worker (the Job kinds), a timer
\* asleep, or an event queued.  `gen` is the spawn generation, or the try of a
\* retry; `id` is a child, and of a ForceStop the shutdown generation.
EventKind == {"SpawnJob", "GreetJob", "Spawned", "LaunchBlocked", "Exited", "Unreadable",
              "Respawn", "LocateJob", "ReconnectLocated", "AdoptJob", "Adopted",
              "RetryDue", "ProbeJob", "AdoptionProbed"}

Event == [kind : EventKind, gen : Nat, id : ChildOrNone, ok : BOOLEAN]
         \cup [kind : {"ForceStop"}, gen : Nat, id : Nat, ok : BOOLEAN]

Ev(kind, gen, id, ok) == [kind |-> kind, gen |-> gen, id |-> id, ok |-> ok]

World ==
    [state : ProcessState \cup {"Absent"},  \* the workspace's process
     spec : {"stack", "record"},            \* its definition: stored, or a holder record's
     problem : BOOLEAN,                     \* the stored definition has a problem
     gen : Nat,                             \* spawn generation
     has : BOOLEAN,                         \* the panes map has the pane
     handle : ChildOrNone,                  \* the live child's handle
     unsup : ChildOrNone,                   \* the child left running unsupervised
     grace : Nat,                           \* checks left before its stop's grace ends
     kills : Nat,                           \* kills sent to it
     intent : ExitIntent,                   \* what the next exit means
     shut : Nat,                            \* shutdown generation
     member : Membership,                   \* config membership
     launch : Launch,                       \* the launch in flight
     held : ChildOrNone,                    \* the exit held for a restart
     detaching : BOOLEAN,                   \* a shutdown lets go of everything
     stoppedAdoption : Nat,                 \* generation of an adoption a stop superseded
     collectAfter : ChildOrNone,            \* its holder, to collect once stopped
     retry : Nat, retries : Nat,            \* current try of adopting, tries made
     events : SUBSET Event,
     proc : [Child -> {"unborn", "running", "ok", "failed"}],
     holder : [Child -> {"none", "fresh", "serving", "gone"}],
     conn : [Child -> Nat],                 \* generation a child's stream posts to
     killed : SUBSET Child,                 \* children sent a kill
     collecting : SUBSET Child]             \* exits being acknowledged or collected

\* How the calls a handler makes turn out: whether a signal is delivered, or
\* only the kill that stands in for it, or nothing; whether a pause lands; a
\* sampled port blocks a launch; a signalled child is gone at once.
Calls == [signal : {"delivered", "fallback", "failed"}, pause : BOOLEAN,
          blocked : BOOLEAN, gone : BOOLEAN]

-----------------------------------------------------------------------------
(* What the books say. *)

Known(v) == v.state # "Absent"

IsLive(v) == v.handle # None

IsStarting(v) == v.launch.purpose # "none"

IsSpawning(v) == v.launch.purpose = "Spawn"

IsUnsupervised(v) == v.unsup # None

HoldsProcess(v) == IsLive(v) \/ IsStarting(v) \/ IsUnsupervised(v)

RunsChild(v, c) == c \in Child /\ v.proc[c] = "running"

RunsUnsupervised(v) == IsUnsupervised(v) /\ RunsChild(v, v.unsup)

AwaitsRespawn(v) == IsSpawning(v) \/ v.state = "Restarting"

PolicyOf(v) == IF v.spec = "stack" THEN Policy ELSE "Never"

RunsLaunch(v, gen) == IsLive(v) /\ v.gen = gen

-----------------------------------------------------------------------------
(* Steps every handler is made of. *)

SetState(v, state) == IF Known(v) THEN [v EXCEPT !.state = state] ELSE v

Post(v, e) == [v EXCEPT !.events = @ \cup {e}]

AdvanceGeneration(v) == [v EXCEPT !.gen = @ + 1]

BumpGeneration(v) == [v EXCEPT !.gen = @ + 1, !.launch = NoLaunch]

\* A dropped handle ends its reader; the holder keeps the child.
Drop(v, c) == [v EXCEPT !.conn = [d \in Child |-> IF d = c THEN 0 ELSE @[d]]]

\* A kill or an acknowledgement reaches a child only through a holder.
SendKill(v, c) ==
    IF c \in Child /\ v.holder[c] \in {"fresh", "serving"}
    THEN [v EXCEPT !.killed = @ \cup {c}] ELSE v

Collect(v, c) == IF c \in Child THEN [v EXCEPT !.collecting = @ \cup {c}] ELSE v

\* Kills the child and collects its exit, off the loop.
Abandon(v, c) == Collect(SendKill(Drop(v, c), c), c)

Deactivate(v) == [Drop(v, v.handle) EXCEPT !.handle = None, !.intent = "FollowPolicy"]

InstallTerminal(v, c) ==
    [v EXCEPT !.has = TRUE, !.handle = c, !.unsup = None, !.grace = 0, !.kills = 0,
              !.intent = "FollowPolicy", !.shut = 0, !.member = "Tracked"]

InstallPane(v, c) ==
    IF Known(v) THEN [InstallTerminal(v, c) EXCEPT !.state = "Running"] ELSE Drop(v, c)

\* The spawn generation survives, so a later use of the pane id never matches
\* a timer still asleep.
RetirePane(v) ==
    [BumpGeneration(Drop(v, v.handle)) EXCEPT
        !.has = FALSE, !.handle = None, !.unsup = None, !.grace = 0, !.kills = 0,
        !.intent = "FollowPolicy", !.shut = 0, !.member = "Tracked",
        !.stoppedAdoption = 0, !.state = "Absent"]

ReleaseHeldExit(v) == [Collect(v, v.held) EXCEPT !.held = None]

\* The tick the host runs after each event.
ReleaseSettledExits(v) == IF AwaitsRespawn(v) THEN v ELSE ReleaseHeldExit(v)

=============================================================================
