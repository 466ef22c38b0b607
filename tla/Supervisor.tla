----------------------------- MODULE Supervisor -----------------------------
(***************************************************************************)
(* One pane under the service: the commands clients send, the events its    *)
(* workers, timers and readers post to the event loop, and the service's    *)
(* own stops, crashes and restarts.  An action of the service is one turn   *)
(* of the loop: a handler, then the tick that releases the exits nothing    *)
(* waits on.  Workers, children, holders and stream readers are the other   *)
(* actors; each of their steps is one action.                               *)
(***************************************************************************)
EXTENDS Adoption

CONSTANTS Budgets,        \* how much may happen in one behaviour, each a bound per resource
          MaxTries        \* tries at adopting an unsupervised child's holder again

\* What is bounded: client commands and stack changes; failed launches and
\* adoptions and lost acknowledgements; broken streams and dead holders;
\* children that survive a holder dead before it was greeted; graceful stops
\* of the service; its crashes.
Resource == {"ops", "faults", "breaks", "orphans", "exits", "crashes"}

ASSUME BoundsAssumption ==
    Budgets \subseteq [Resource -> Nat] /\ Budgets # {} /\ MaxTries \in Nat

VARIABLES w,        \* the pane: the supervisor's books, the events, the machine
          service,  \* the service: serving, letting go of everything, or not running
          inStack,  \* whether the stored stack has the process
          want,     \* the clients' latest word: whether the process is to run
          used      \* how much of each resource was spent

vars == <<w, service, inStack, want, used>>

\* The pane of a service just started, on the machine `old` leaves behind.
Fresh(old, state, problem) ==
    [state |-> state, spec |-> "stack", problem |-> problem, gen |-> 0,
     has |-> FALSE, handle |-> None, unsup |-> None, grace |-> 0, kills |-> 0,
     intent |-> "FollowPolicy", shut |-> 0, member |-> "Tracked",
     launch |-> NoLaunch, held |-> None, detaching |-> FALSE,
     stoppedAdoption |-> 0, collectAfter |-> None, retry |-> 0, retries |-> 0,
     events |-> {}, proc |-> old.proc, holder |-> old.holder,
     conn |-> [c \in Child |-> 0], killed |-> old.killed, collecting |-> old.collecting]

\* A machine no child was launched on yet.
Untouched == [proc |-> [c \in Child |-> "unborn"], holder |-> [c \in Child |-> "none"],
              killed |-> {}, collecting |-> {}]

Init ==
    /\ w = Fresh(Untouched, "Pending", FALSE)
    /\ service = "serving"
    /\ inStack = TRUE
    /\ want = "none"
    /\ used = [k \in Resource |-> 0]

\* Some budget covers what u spends.
Within(u) == \E b \in Budgets : \A k \in Resource : u[k] <= b[k]

TypeOK ==
    /\ w \in World
    /\ service \in {"serving", "detaching", "down"}
    /\ inStack \in BOOLEAN
    /\ want \in {"none", "up", "down", "passed", "forgotten"}
    /\ used \in [Resource -> Nat] /\ Within(used)

Spend(k) ==
    /\ used' = [used EXCEPT ![k] = @ + 1]
    /\ Within(used')

-----------------------------------------------------------------------------
(* Commands of clients, and stack changes. *)

\* The outcomes of the calls a kind of handler makes; it asks of no other.
SignalCalls == [signal : {"delivered", "fallback", "failed"}, pause : {TRUE},
                blocked : {FALSE}, gone : BOOLEAN]

EscalateCalls == [signal : {"delivered", "failed"}, pause : {TRUE},
                  blocked : {FALSE}, gone : BOOLEAN]

LaunchCalls == [signal : {"delivered"}, pause : {TRUE}, blocked : BOOLEAN,
                gone : {FALSE}]

PauseCalls == [signal : {"delivered"}, pause : BOOLEAN, blocked : {FALSE},
               gone : {FALSE}]

RestartCalls == [signal : {"delivered", "fallback", "failed"}, pause : {TRUE},
                 blocked : BOOLEAN, gone : {FALSE}]

SettleCalls == [signal : {"delivered", "fallback", "failed"}, pause : BOOLEAN,
                blocked : BOOLEAN, gone : BOOLEAN]

\* A turn of the loop: the handler's world, then the tick.
Turn(next) == w' = ReleaseSettledExits(next)

Command(wanted) ==
    /\ service = "serving"
    /\ Spend("ops")
    /\ want' = wanted
    /\ UNCHANGED service

\* A command naming one process acts only on a process the workspace has.
Named(wanted) == Command(wanted) /\ Known(w) /\ UNCHANGED inStack

Start == Named("up") /\ \E io \in LaunchCalls : Turn(StartPane(w, io))

Restart == Named("up") /\ \E io \in RestartCalls : Turn(RestartPane(w, io))

Stop == Named("down") /\ \E io \in SignalCalls : Turn(StopPane(w, io))

Kill == Named("down") /\ \E io \in SignalCalls : Turn(ForceKillPane(w, io))

Pause == Named(want) /\ \E io \in PauseCalls : Turn(PausePane(w, io))

Resume == Named(want) /\ \E io \in PauseCalls : Turn(ResumePane(w, io))

Up == Named("up") /\ \E io \in LaunchCalls : Turn(UpPane(w, io))

\* It passes over a process that, as shown, cannot be running.
Down == /\ Named(IF MayBeRunning(w.state) THEN "down" ELSE "passed")
        /\ \E io \in SignalCalls : Turn(DownPane(w, io))

\* An edit of the stack the service hears of while it serves.
ChangeStack(present) ==
    /\ Command(IF present THEN want ELSE "down")
    /\ inStack' = present
    /\ \E io \in SignalCalls : Turn(ApplyStack(w, present, io))

\* An edit made while no service runs.
EditStackOffline ==
    /\ service = "down"
    /\ Spend("ops")
    /\ inStack' = ~inStack
    /\ want' = IF inStack THEN "down" ELSE want
    /\ UNCHANGED <<w, service>>

-----------------------------------------------------------------------------
(* Events the loop handles. *)

Results == {"Spawned", "LaunchBlocked", "ReconnectLocated", "Adopted"}

Queued(kinds) == {e \in w.events : e.kind \in kinds}

Taken(e) == [w EXCEPT !.events = @ \ {e}]

Serve(kind, Handler(_, _, _), calls) ==
    /\ service = "serving"
    /\ \E e \in Queued({kind}), io \in calls : Turn(Handler(Taken(e), e, io))
    /\ UNCHANGED <<service, inStack, want, used>>

\* While the service lets go, only results of launches are handled, without
\* the tick, until none is in flight.
Settle(kind, Handler(_, _, _), calls) ==
    \/ Serve(kind, Handler, calls)
    \/ /\ service = "detaching" /\ IsStarting(w)
       /\ \E e \in Queued({kind}), io \in calls : w' = Handler(Taken(e), e, io)
       /\ UNCHANGED <<service, inStack, want, used>>

OnSpawned == Settle("Spawned", SettleSpawn, SettleCalls)

OnLaunchBlocked == Settle("LaunchBlocked", HandleLaunchBlocked, SettleCalls)

OnReconnectLocated == Settle("ReconnectLocated", HandleReconnectLocated, SettleCalls)

OnAdopted == Settle("Adopted", SettleAdoption, SettleCalls)

HandleExited(v, e, io) ==
    HandleOutput(v, e.gen, IF e.ok THEN "ExitedOk" ELSE "ExitedFailed", io)

HandleUnreadable(v, e, io) == HandleOutput(v, e.gen, "Unreadable", io)

HandleRetryDue(v, e, io) == HandleAdoptionRetryDue(v, e)

HandleProbed(v, e, io) == HandleAdoptionProbed(v, e)

OnExited == Serve("Exited", HandleExited, LaunchCalls)

OnUnreadable == Serve("Unreadable", HandleUnreadable, LaunchCalls)

OnRespawn == Serve("Respawn", HandleRespawn, LaunchCalls)

OnForceStop == Serve("ForceStop", HandleForceStop, EscalateCalls)

\* A timer past the bound on tries stays asleep.
OnRetryDue == w.retries < MaxTries /\ Serve("RetryDue", HandleRetryDue, LaunchCalls)

OnAdoptionProbed == Serve("AdoptionProbed", HandleProbed, LaunchCalls)

-----------------------------------------------------------------------------
(* Workers. *)

Fault == Spend("faults")

Break == Spend("breaks")

Elsewhere == UNCHANGED <<service, inStack, want>>

Reachable(c) == w.holder[c] \in {"fresh", "serving"}

\* A launch worker finds a port it needs taken by a program muster does not run.
FindPortTaken ==
    /\ \E e \in Queued({"SpawnJob"}) :
          /\ w' = Post(Taken(e), Ev("LaunchBlocked", e.gen, None, TRUE))
    /\ Fault /\ Elsewhere

\* It launches a holder, which starts the child, binds its socket and saves
\* its record.
LaunchHolder ==
    /\ \E e \in Queued({"SpawnJob"}), c \in Child :
          /\ w.proc[c] = "unborn" /\ \A d \in 1..(c - 1) : w.proc[d] # "unborn"
          /\ w' = [Post(Taken(e), Ev("GreetJob", e.gen, c, TRUE)) EXCEPT
                      !.proc[c] = "running", !.holder[c] = "fresh"]
    /\ UNCHANGED used /\ Elsewhere

\* It becomes the holder's supervisor, and its reader starts.
GreetHolder ==
    /\ \E e \in Queued({"GreetJob"}) :
          /\ w.holder[e.id] = "fresh"
          /\ w' = [Post(Taken(e), Ev("Spawned", e.gen, e.id, TRUE)) EXCEPT
                      !.holder[e.id] = "serving", !.conn[e.id] = e.gen]
    /\ UNCHANGED used /\ Elsewhere

LaunchFailed(v, e) == Post(v, Ev("Spawned", e.gen, None, FALSE))

\* Nothing could be launched.
FailLaunch ==
    /\ \E e \in Queued({"SpawnJob"}) : w' = LaunchFailed(Taken(e), e)
    /\ Fault /\ Elsewhere

\* The holder launched cannot be greeted and is abandoned; one that cannot be
\* reached for that either is left to its own deadline.
FailGreeting ==
    /\ \E e \in Queued({"GreetJob"}) :
          /\ IF w.holder[e.id] = "gone" THEN UNCHANGED used ELSE Fault
          /\ \/ w' = LaunchFailed(Abandon(Taken(e), e.id), e)
             \/ w' = LaunchFailed(Taken(e), e)
    /\ Elsewhere

\* A record is found while its holder runs or the child outlived it.
LocateHolder ==
    /\ \E e \in Queued({"LocateJob"}) :
          /\ w' = Post(Taken(e), Ev("ReconnectLocated", e.gen,
                         IF Reachable(e.id) \/ RunsChild(w, e.id) THEN e.id ELSE None, TRUE))
    /\ UNCHANGED used /\ Elsewhere

\* A new supervisor takes the holder from any other.
AdoptHolder ==
    /\ \E e \in Queued({"AdoptJob"}) :
          /\ Reachable(e.id)
          /\ w' = [Post(Taken(e), Ev("Adopted", e.gen, e.id, TRUE)) EXCEPT
                      !.holder[e.id] = "serving", !.conn[e.id] = e.gen]
    /\ UNCHANGED used /\ Elsewhere

FailAdoption ==
    /\ \E e \in Queued({"AdoptJob"}) :
          /\ IF Reachable(e.id) THEN Fault ELSE UNCHANGED used
          /\ w' = Post(Taken(e), Ev("Adopted", e.gen, e.id, FALSE))
    /\ Elsewhere

\* Only a holder that serves now is worth adopting again.
ProbeHolder ==
    /\ \E e \in Queued({"ProbeJob"}) :
          /\ w' = Post(Taken(e), Ev("AdoptionProbed", e.gen,
                                    IF Reachable(e.id) THEN e.id ELSE None, e.ok))
    /\ UNCHANGED used /\ Elsewhere

-----------------------------------------------------------------------------
(* Children, holders and the readers of their streams. *)

\* A child exits as it likes, on a stop signal or on its own.
ChildExits ==
    /\ \E c \in Child \ w.killed, outcome \in {"ok", "failed"} :
          w.proc[c] = "running" /\ w' = [w EXCEPT !.proc[c] = outcome]
    /\ UNCHANGED used /\ Elsewhere

KilledChildDies ==
    /\ \E c \in w.killed : w.proc[c] = "running" /\ w' = [w EXCEPT !.proc[c] = "failed"]
    /\ UNCHANGED used /\ Elsewhere

\* The world once the holder of child c ended; `hungUp` says whether its child
\* ended with it, as one that does not ignore the hangup does.
WithoutHolder(c, hungUp) ==
    [w EXCEPT !.holder[c] = "gone",
              !.proc[c] = IF @ = "running" /\ hungUp THEN "failed" ELSE @]

HolderDies ==
    /\ \E c \in Child, hungUp \in BOOLEAN :
          /\ Reachable(c)
          /\ w.holder[c] = "fresh" => hungUp
          /\ w' = WithoutHolder(c, hungUp)
    /\ Break /\ Elsewhere

\* A holder dies before its launcher greeted it, and its child runs on.
OrphanChild ==
    /\ \E c \in Child : w.holder[c] = "fresh" /\ w' = WithoutHolder(c, FALSE)
    /\ Spend("orphans")
    /\ Elsewhere

AwaitsGreeting(c) == \E e \in Queued({"GreetJob"}) : e.id = c

\* A holder nobody ever supervised gives up past the time its launcher waits.
HolderDeadline ==
    /\ \E c \in Child :
          /\ w.holder[c] = "fresh"
          /\ ~AwaitsGreeting(c)
          /\ w' = WithoutHolder(c, TRUE)
    /\ UNCHANGED used /\ Elsewhere

\* The holder keeps the exit for its supervisor to collect.
ReadExit ==
    /\ \E c \in Child :
          /\ w.conn[c] # 0 /\ w.holder[c] = "serving" /\ w.proc[c] \in {"ok", "failed"}
          /\ w' = [Post(w, Ev("Exited", w.conn[c], c, w.proc[c] = "ok")) EXCEPT !.conn[c] = 0]
    /\ UNCHANGED used /\ Elsewhere

\* A stream ends without an exit because its holder died.
Unreadable(c) == [Post(w, Ev("Unreadable", w.conn[c], c, TRUE)) EXCEPT !.conn[c] = 0]

EndStream ==
    /\ \E c \in Child : w.conn[c] # 0 /\ w.holder[c] = "gone" /\ w' = Unreadable(c)
    /\ UNCHANGED used /\ Elsewhere

\* A stream breaks although its holder serves, for what it carried.
BreakStream ==
    /\ \E c \in Child : w.conn[c] # 0 /\ w.holder[c] = "serving" /\ w' = Unreadable(c)
    /\ Break /\ Elsewhere

\* An exit collected ends its holder.
CollectExit ==
    /\ \E c \in w.collecting :
          /\ w.proc[c] # "running"
          /\ w' = [w EXCEPT !.collecting = @ \ {c}, !.holder[c] = "gone"]
    /\ UNCHANGED used /\ Elsewhere

\* A collection that cannot be delivered leaves the exit with its holder.
LoseCollection ==
    /\ \E c \in w.collecting : w' = [w EXCEPT !.collecting = @ \ {c}]
    /\ Fault /\ Elsewhere

-----------------------------------------------------------------------------
(* The service itself. *)

\* Mutant: the exit held for a restart is acknowledged on the way out.
ShutdownAcknowledging ==
    /\ service = "serving" /\ Spend("exits")
    /\ service' = "detaching"
    /\ w' = AdvanceGeneration([ReleaseHeldExit(Drop(w, w.handle)) EXCEPT !.handle = None,
                                                                       !.detaching = TRUE])
    /\ UNCHANGED <<inStack, want>>

\* A stop of the service lets go of every process and stops none.  An exit
\* held for a respawn in flight waits for its result; any other is left for
\* the next service.
Shutdown ==
    /\ service = "serving" /\ Spend("exits")
    /\ service' = "detaching"
    /\ LET detached == [Drop(w, w.handle) EXCEPT !.handle = None, !.detaching = TRUE,
                                                 !.held = IF IsSpawning(w) THEN @ ELSE None]
       IN  w' = IF w.gen > 0 \/ w.has THEN AdvanceGeneration(detached) ELSE detached
    /\ UNCHANGED <<inStack, want>>

Gone(next) == Fresh(next, "Absent", FALSE)

\* The process ends once no launch is in flight, or past the time it waits.
EndService ==
    /\ service = "detaching"
    /\ IF IsStarting(w) THEN Fault ELSE UNCHANGED used
    /\ service' = "down"
    /\ w' = Gone(w)
    /\ UNCHANGED <<inStack, want>>

\* A crash takes the loop, its timers and its workers along.
Crash ==
    /\ service # "down" /\ Spend("crashes")
    /\ service' = "down"
    /\ w' = Gone(w)
    /\ UNCHANGED <<inStack, want>>

\* The holder records worth adopting.
Records == {c \in Child : Reachable(c) \/ RunsChild(w, c)}

\* A new service adopts every record it finds, in any order; the first takes
\* the pane and the others are second copies.  A pane no record names shows
\* how its last run ended.  A stop the service before was asked for is nowhere
\* recorded.
Boot ==
    /\ service = "down"
    /\ service' = "serving"
    /\ \E state \in {"Pending", "Exited", "Crashed"}, problem \in BOOLEAN :
          LET fresh == Fresh(w, IF inStack THEN state ELSE "Absent", problem)
          IN  IF Records = {} THEN w' = fresh
              ELSE \E first \in Records :
                     LET copies == {c \in Records \ {first} : ~RunsChild(w, c)}
                     IN  w' = [BeginAdoption(fresh, first) EXCEPT !.collecting = @ \cup copies]
    /\ want' = IF want = "down" THEN "forgotten" ELSE want
    /\ UNCHANGED <<inStack, used>>

-----------------------------------------------------------------------------
Commands == Start \/ Restart \/ Stop \/ Kill \/ Pause \/ Resume \/ Up \/ Down

Events == OnSpawned \/ OnLaunchBlocked \/ OnReconnectLocated \/ OnAdopted \/ OnExited
          \/ OnUnreadable \/ OnRespawn \/ OnForceStop \/ OnRetryDue \/ OnAdoptionProbed

Workers == FindPortTaken \/ LaunchHolder \/ GreetHolder \/ FailLaunch \/ FailGreeting
           \/ LocateHolder
           \/ AdoptHolder \/ FailAdoption \/ ProbeHolder

Machine == ChildExits \/ KilledChildDies \/ HolderDies \/ OrphanChild \/ HolderDeadline
           \/ ReadExit \/ EndStream \/ BreakStream \/ CollectExit \/ LoseCollection

Next ==
    \/ Commands
    \/ \E present \in BOOLEAN : ChangeStack(present)
    \/ EditStackOffline
    \/ Events
    \/ Workers
    \/ Machine
    \/ Shutdown \/ EndService \/ Crash \/ Boot

Spec == Init /\ [][Next]_vars

\* What goes on by itself: the loop takes its events and timers fire, workers
\* finish, readers read, a killed child dies, a holder's deadline passes, and a
\* service that ended is started again.  Clients, faults and children that
\* were not killed owe nothing.
LoopKinds == {"Spawned", "LaunchBlocked", "ReconnectLocated", "Adopted", "Exited",
              "Unreadable", "Respawn", "ForceStop", "AdoptionProbed"}

Due ==
    \/ service = "serving" /\ Queued(LoopKinds) # {}
    \/ service = "serving" /\ Queued({"RetryDue"}) # {} /\ w.retries < MaxTries
    \/ service = "detaching" /\ (IsStarting(w) => Queued(Results) # {})
    \/ service = "down"
    \/ Queued({"SpawnJob"}) # {} /\ \E c \in Child : w.proc[c] = "unborn"
    \/ Queued({"GreetJob", "LocateJob", "AdoptJob", "ProbeJob"}) # {}
    \/ \E c \in Child : w.holder[c] = "fresh" /\ ~AwaitsGreeting(c)
    \/ \E c \in Child : w.conn[c] # 0 /\ (w.holder[c] = "gone" \/ w.proc[c] # "running")
    \/ \E c \in w.killed : w.proc[c] = "running"
    \/ \E c \in w.collecting : w.proc[c] # "running"

\* The bounds make every behaviour finite, so weak fairness of these steps says
\* that none of them stays due for ever.
FairSpec == Spec /\ []<>~Due

-----------------------------------------------------------------------------
(* Properties. *)

\* The children that are to go on running: not killed, and not of a holder
\* nobody will supervise, which ends them at its deadline.
Copies ==
    {c \in Child : /\ w.proc[c] = "running" /\ c \notin w.killed
                   /\ w.holder[c] = "fresh" => AwaitsGreeting(c)}

NewLaunches == {e \in w'.events \ w.events : e.kind = "SpawnJob"}

\* Only one thing stands behind a pane: a live handle, a new process being
\* launched, or a child left unsupervised; and the launch in flight is the
\* one of the current generation, so its result is installed rather than
\* stopped, unless a shutdown came between (take_launch, stale_release).
LaunchIsCurrent ==
    /\ IsStarting(w) => ~IsLive(w) /\ (w.launch.gen = w.gen \/ w.detaching)
    /\ IsLive(w) => ~IsUnsupervised(w)
    /\ IsSpawning(w) => ~IsUnsupervised(w)

\* A restart timer that can still fire belongs to a pane nothing stands behind
\* yet: whatever brings the process up supersedes the timer, so no respawn
\* lands on a live or starting process (handle_respawn, bump_generation).
TimerIsIdle ==
    \A e \in w.events : e.kind = "Respawn" =>
        e.gen <= w.gen /\ (e.gen = w.gen => ~IsLive(w) /\ ~IsStarting(w))

\* The service never keeps two copies of a process running, whatever streams
\* break and holders die; only a child whose holder or service died, or whose
\* greeting failed under a service that then stopped, before the holder was
\* greeted is known to nobody (refuse_unsupervised_launch, spawn_with,
\* settle_spawn).
OneCopy ==
    used["orphans"] + used["crashes"] = 0 /\ (used["faults"] = 0 \/ used["exits"] = 0)
        => \A c, d \in Copies : c = d

\* What the service has still to do is under way.  A stop whose signal was
\* delivered has its escalation ahead: the deadline of its own generations is in
\* flight, the child was killed, or the stream's end is still to be read
\* (request_graceful_transition, rearm_force_stop).
\* In a first service, which meets no stored problem and no exit collected for
\* an earlier one, a process shown as restarting has its timer ahead
\* (schedule_restart), and, while no stream broke, the row of a process the
\* stack no longer has has an exit to retire with (apply_stack, apply_pending).
StillToCome ==
    service = "serving" =>
        /\ AwaitsForceStop(w.intent) /\ IsLive(w) =>
              \/ Ev("ForceStop", w.gen, w.shut, TRUE) \in w.events
              \/ IsStarting(w)
              \/ w.handle \in w.killed \/ w.holder[w.handle] = "gone"
        /\ used["exits"] + used["crashes"] = 0 =>
              /\ w.state = "Restarting" => Ev("Respawn", w.gen, None, TRUE) \in w.events
              /\ ~inStack /\ Known(w) /\ used["breaks"] = 0 => HoldsProcess(w)

\* No process is launched to stay against the last word on it.  After a client
\* stopped it no timer, late result or exit brings it back: a restart in flight
\* whose reconnect fails launches once more, with the stop asked meanwhile
\* already on that launch, and only the next service does not know of the stop
\* (stop, handle_respawn, after_exit, apply_pending).  And, as long as no stream
\* breaks, a process the stack no longer has is never launched (apply_stack).
LaunchesAreWanted ==
    [][NewLaunches # {} =>
         /\ want' \in {"up", "passed", "forgotten"} \/ w'.launch.intent \in {"Stop", "Kill"}
         /\ inStack' \/ used'["breaks"] > 0]_vars

\* Bringing the project down cancels every pending restart (down).
DownCancelsRestarts == [][NewLaunches # {} => want' # "passed"]_vars

\* A service letting go kills nothing it supervised (shutdown, stale_release).
ShutdownSpares ==
    [][service = "detaching" \/ service' = "detaching"
         => \A c \in w'.killed \ w.killed : w.holder[c] = "fresh"]_vars

\* A deadline that kills is the newest armed: a stop asked again, or a new
\* run, is never cut short by an older stop's deadline (handle_force_stop).
GraceHonoured ==
    [][\A e \in w.events \ w'.events :
         e.kind = "ForceStop" /\ w'.killed # w.killed
           => \A f \in w.events : f.kind = "ForceStop" /\ f.gen >= e.gen => f.id <= e.id]_vars

\* A stop asked of a first service ends every run of the process, by its signal
\* or by the kill after its grace, unless it was told that a signal cannot be
\* delivered, was overtaken by a start, or the service ended or a holder died
\* before it was greeted (stop_pane, handle_force_stop, escalate_unsupervised).
StopEnds ==
    want = "down" ~> \/ \A c \in Child : w.proc[c] # "running"
                     \/ want # "down"
                     \/ w.intent = "StopRetryable"
                     \/ used["orphans"] + used["exits"] + used["crashes"] > 0

\* A restart pending after an exit is carried out, by this service or, when
\* that is stopped, by the next one, which reads the exit its holder kept
\* again; unless its launch is refused, a client says otherwise, a collection
\* sent earlier takes that exit, a service crashed, or something failed for the
\* next one (schedule_restart, handle_exit, shutdown, settle_spawn).
PendingRestartSurvives ==
    (/\ Ev("Respawn", w.gen, None, TRUE) \in w.events /\ want = "up" /\ inStack
     /\ w.collecting = {} /\ w.held # None /\ w.holder[w.held] = "serving")
      ~> \/ IsSpawning(w) \/ w.state = "Blocked" \/ w.problem
         \/ want # "up" \/ ~inStack \/ used["crashes"] > 0
         \/ used["faults"] > 0 /\ used["exits"] > 0

=============================================================================
