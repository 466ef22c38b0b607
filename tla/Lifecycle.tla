----------------------------- MODULE Lifecycle ------------------------------
(***************************************************************************)
(* The supervisor's lifecycle handlers: launching the process, stopping,    *)
(* killing, pausing and restarting it, settling its launch, and applying    *)
(* its exit.  `io` says how the calls a handler makes turn out.             *)
(***************************************************************************)
EXTENDS Unsupervised

-----------------------------------------------------------------------------
(* Launching. *)

\* Mutant: the launch takes the generation of the timer it replaces.
SpawnInGeneration(v, io) ==
    IF IsStarting(v) \/ IsUnsupervised(v) \/ ~Known(v) \/ v.problem THEN v
    ELSE Post([v EXCEPT !.launch = NewLaunch("Spawn", v.gen, v.state, NoCarried),
                        !.state = "Starting"],
              Ev("SpawnJob", v.gen, None, TRUE))

\* A child found gone is settled first and no longer refuses the launch,
\* unless settling it retired the row.
SpawnWith(v, io) ==
    LET free == IF IsUnsupervised(v) THEN SettleUnsupervisedExit(v) ELSE v
        bumped == BumpGeneration(free)
        launch == NewLaunch("Spawn", bumped.gen, free.state, NoCarried)
    IN  IF IsStarting(v) THEN v
        ELSE IF RunsUnsupervised(v) THEN RetryAdoptionNow(v)
        ELSE IF ~Known(free) \/ free.problem THEN free
        ELSE IF io.blocked THEN SetState(free, "Blocked")
        ELSE Post([bumped EXCEPT !.launch = launch, !.state = "Starting"],
                  Ev("SpawnJob", bumped.gen, None, TRUE))

\* Mutant: a live process does not refuse the launch.
StartOverLive(v, io) == IF IsStarting(v) THEN v ELSE SpawnWith(v, io)

StartPane(v, io) == IF IsLive(v) \/ IsStarting(v) THEN v ELSE SpawnWith(v, io)

UpPane(v, io) ==
    IF v.spec = "stack" /\ ~IsLive(v) /\ ~IsStarting(v) /\ ~RunsUnsupervised(v)
    THEN SpawnWith(v, io) ELSE v

\* Mutant: a timer of an earlier generation launches too.
RespawnWhenever(v, e, io) == IF v.state # "Running" THEN SpawnWith(v, io) ELSE v

HandleRespawn(v, e, io) == IF v.gen = e.gen THEN SpawnWith(v, io) ELSE v

\* Mutant: the timer is armed with the generation before.
ScheduleStaleRestart(v) == Post(BumpGeneration(v), Ev("Respawn", v.gen, None, TRUE))

ScheduleRestart(v) ==
    Post(BumpGeneration(v), Ev("Respawn", v.gen + 1, None, TRUE))

-----------------------------------------------------------------------------
(* Stopping, killing, restarting, pausing. *)

SettleStopped(v) == SetState(Deactivate(BumpGeneration(v)), "Exited")

ScheduleForceStop(v) == Post(v, Ev("ForceStop", v.gen, v.shut, TRUE))

\* Mutant: the deadline is armed before the shutdown generation advances.
ArmThenAdvance(v, restart, io) ==
    IF ~Known(v) THEN v
    ELSE [SetState(ScheduleForceStop(v), "Stopping") EXCEPT
             !.shut = @ + 1,
             !.intent = IF restart THEN RestartRequested(TRUE) ELSE StopRequested(TRUE)]

\* The policy's signal and one matching deadline; a signal that cannot be
\* delivered falls back to a kill.
RequestGracefulTransition(v, restart, io) ==
    LET delivered == io.signal # "failed"
        asked == [v EXCEPT !.shut = @ + 1,
                           !.intent = IF restart THEN RestartRequested(delivered)
                                      ELSE StopRequested(delivered)]
        shown == IF delivered THEN SetState(asked, "Stopping") ELSE asked
    IN  IF ~Known(v) THEN v
        ELSE IF io.signal = "delivered" THEN ScheduleForceStop(shown)
        ELSE IF delivered THEN SendKill(shown, v.handle)
        ELSE shown

StopPane(v, io) ==
    LET s == SupersedeRetryAdoption(v)
    IN  IF IsStarting(s) THEN [s EXCEPT !.launch.intent = "Stop"]
        ELSE IF IsUnsupervised(s) THEN StopUnsupervised(s, FALSE, io)
        ELSE IF IsLive(s) /\ ~AcceptsStopRequest(s.intent) THEN s
        ELSE IF IsLive(s) THEN RequestGracefulTransition(s, FALSE, io)
        ELSE SettleStopped(s)

DownPane(v, io) == IF MayBeRunning(v.state) THEN StopPane(v, io) ELSE v

ForceKillPane(v, io) ==
    LET s == SupersedeRetryAdoption(v)
        delivered == io.signal # "failed"
        asked == [s EXCEPT !.shut = @ + 1, !.intent = StopRequested(delivered)]
    IN  IF IsStarting(s) THEN [s EXCEPT !.launch.intent = "Kill"]
        ELSE IF IsUnsupervised(s) THEN StopUnsupervised(s, TRUE, io)
        ELSE IF ~IsLive(s) THEN SettleStopped(s)
        ELSE IF delivered THEN SetState(SendKill(asked, s.handle), "Stopping")
        ELSE asked

RestartPane(v, io) ==
    IF IsStarting(v) THEN [v EXCEPT !.launch.intent = "Restart"]
    ELSE IF IsLive(v) /\ ~AcceptsRestartRequest(v.intent) THEN v
    ELSE IF IsLive(v) THEN RequestGracefulTransition(v, TRUE, io)
    ELSE SpawnWith(v, io)

SignalPause(v, state, io) ==
    IF IsLive(v) /\ v.intent = "FollowPolicy" /\ io.pause THEN SetState(v, state) ELSE v

PausePane(v, io) ==
    IF IsStarting(v) THEN [v EXCEPT !.launch.suspend = "pause"]
    ELSE IF v.state # "Paused" THEN SignalPause(v, "Paused", io) ELSE v

ResumePane(v, io) ==
    IF IsStarting(v) THEN [v EXCEPT !.launch.suspend = "resume"]
    ELSE IF v.state = "Paused" THEN SignalPause(v, "Running", io) ELSE v

\* Mutant: a deadline of an earlier stop escalates the one in flight.
EscalateAnyStop(v, e, io) ==
    IF v.gen # e.gen \/ ~AwaitsForceStop(v.intent) \/ ~IsLive(v) THEN v
    ELSE SetState(SendKill([v EXCEPT !.shut = @ + 1], v.handle), "Stopping")

\* A deadline escalates only the stop that armed it.
HandleForceStop(v, e, io) ==
    LET due == [v EXCEPT !.shut = @ + 1]
    IN  IF v.gen # e.gen \/ ~v.has \/ v.shut # e.id \/ ~AwaitsForceStop(v.intent) THEN v
        ELSE IF IsUnsupervised(v) THEN EscalateUnsupervised(due, io)
        ELSE IF ~IsLive(v) THEN due
        ELSE IF io.signal # "failed" THEN SetState(SendKill(due, v.handle), "Stopping")
        ELSE [due EXCEPT !.intent = ForceStopDeliveryFailed(@)]

-----------------------------------------------------------------------------
(* Exits and broken streams. *)

ApplyExit(v, succeeded, io) ==
    LET decision == AfterExit(v.intent, v.member = "RetireOnExit",
                              Known(v) /\ ShouldRestart(PolicyOf(v), succeeded), succeeded)
        restarting == Deactivate(SetState(v, "Restarting"))
    IN  IF ~v.has THEN v
        ELSE IF decision = "Retire" THEN RetirePane(v)
        ELSE IF decision = "Stop" THEN SetState(Deactivate(v), "Exited")
        ELSE IF decision = "RestartNow" THEN SpawnWith(restarting, io)
        ELSE IF decision = "RestartLater" THEN ScheduleRestart(restarting)
        ELSE SetState(Deactivate(v), decision)

\* The exit is acknowledged once it was applied, or held while its restart is
\* pending; a newer held exit lets the older one go.
HandleExit(v, succeeded, io) ==
    LET applied == ApplyExit([Drop(v, v.handle) EXCEPT !.handle = None], succeeded, io)
    IN  IF ~IsLive(v) THEN applied
        ELSE IF AwaitsRespawn(applied)
          THEN [Collect(applied, applied.held) EXCEPT !.held = v.handle]
        ELSE Collect(applied, v.handle)

\* Mutant: a stream that breaks is taken for the end of the process.
ReconnectAsExit(v) == IF IsLive(v) THEN ScheduleRestart(SetState(Deactivate(v), "Restarting")) ELSE v

\* The pane is Starting while a worker looks for the holder.
Reconnect(v) ==
    LET c == v.handle
        carried == [intent |-> v.intent, member |-> v.member, state |-> v.state, child |-> c]
        b == BumpGeneration([Drop(v, c) EXCEPT !.handle = None])
    IN  IF ~IsLive(v) \/ ~Known(v) THEN v
        ELSE Post([b EXCEPT !.launch = NewLaunch("Adopt", b.gen, v.state, carried),
                            !.state = "Starting"],
                  Ev("LocateJob", b.gen, c, TRUE))

Applied(v, output, io) ==
    CASE output = "ExitedOk" -> HandleExit(v, TRUE, io)
      [] output = "ExitedFailed" -> HandleExit(v, FALSE, io)
      [] output = "Unreadable" -> Reconnect(v)
      [] output = "none" -> v

\* Output of a launch whose result has not arrived is kept for it.
HandleOutput(v, gen, output, io) ==
    IF v.gen # gen THEN v
    ELSE IF IsStarting(v) /\ v.launch.gen = gen THEN [v EXCEPT !.launch.early = output]
    ELSE Applied(v, output, io)

-----------------------------------------------------------------------------
(* Settling a launch. *)

TakesLaunch(v, gen) == IsStarting(v) /\ v.gen = gen /\ v.launch.gen = gen

\* Whether a result nothing waits for is let go of rather than stopped.
Detaches(v, gen) == IsStarting(v) /\ v.launch.gen = gen /\ v.detaching

ForgetLaunch(v, gen) == IF v.launch.gen = gen THEN [v EXCEPT !.launch = NoLaunch] ELSE v

\* Mutant: the membership asked meanwhile is kept, and a row nothing holds stays.
PendingWithoutRetire(v, launch, live, io) ==
    IF launch.intent = "Stop" THEN StopPane(v, io)
    ELSE IF launch.intent = "Kill" THEN ForceKillPane(v, io)
    ELSE IF launch.intent = "Restart" THEN RestartPane(v, io)
    ELSE v

\* What was asked while the pane was starting; `live` says whether the launch
\* installed a process that still runs.
ApplyPending(v, launch, live, io) ==
    LET tracked == IF launch.member # "none" /\ v.has
                   THEN [v EXCEPT !.member = launch.member] ELSE v
        suspended == IF ~live THEN tracked
                     ELSE IF launch.suspend = "pause" THEN PausePane(tracked, io)
                     ELSE IF launch.suspend = "resume" THEN ResumePane(tracked, io)
                     ELSE tracked
    IN  IF launch.member = "RetireOnExit" /\ ~HoldsProcess(tracked) THEN RetirePane(tracked)
        ELSE IF launch.intent = "Stop" THEN StopPane(suspended, io)
        ELSE IF launch.intent = "Kill" THEN ForceKillPane(suspended, io)
        ELSE IF launch.intent = "Restart" THEN RestartPane(suspended, io)
        ELSE suspended

InstallFailed(v) ==
    IF Known(v) /\ ShouldRestart(PolicyOf(v), FALSE)
    THEN ScheduleRestart(SetState(Deactivate(v), "Restarting"))
    ELSE SetState(Deactivate(v), "Crashed")

InstallSpawned(v, gen, c, early, io) ==
    IF c = None THEN InstallFailed(v)
    ELSE HandleOutput(InstallPane(ReleaseHeldExit(v), c), gen, early, io)

\* Mutant: a result a shutdown superseded is stopped like any other.
SettleWithoutDetach(v, e, io) ==
    LET taken == ForgetLaunch(v, e.gen)
    IN  IF TakesLaunch(v, e.gen)
        THEN ApplyPending(InstallSpawned(taken, e.gen, e.id, v.launch.early, io), v.launch,
                          e.id # None, io)
        ELSE Abandon(taken, e.id)

\* e.id is the child launched, or None when the launch failed.
SettleSpawn(v, e, io) ==
    LET launch == v.launch
        taken == ForgetLaunch(v, e.gen)
        installed == InstallSpawned(taken, e.gen, e.id, launch.early, io)
    IN  IF TakesLaunch(v, e.gen)
        THEN IF IsSpawning(v)
             THEN ApplyPending(installed, launch, e.id # None /\ RunsLaunch(installed, e.gen), io)
             ELSE Abandon(taken, e.id)
        ELSE IF Detaches(v, e.gen)
          THEN IF e.id # None THEN Drop(ReleaseHeldExit(taken), e.id)
               ELSE [taken EXCEPT !.held = None]
        ELSE Abandon(taken, e.id)

HandleLaunchBlocked(v, e, io) ==
    LET taken == ForgetLaunch(v, e.gen)
    IN  IF TakesLaunch(v, e.gen)
        THEN ApplyPending(SetState(taken, "Blocked"), v.launch, FALSE, io)
        ELSE taken

=============================================================================
