------------------------------ MODULE Adoption ------------------------------
(***************************************************************************)
(* Taking over a holder: at service start, after a broken stream, and by a  *)
(* retry for a child left unsupervised.                                     *)
(***************************************************************************)
EXTENDS Lifecycle

\* A child that still runs is said so; a gone one has its exit collected.
ReportSupersededFailure(v, c) == IF RunsChild(v, c) THEN v ELSE Collect(v, c)

\* The stop policy's signal again, for a stop carried over the broken stream.
ContinueStopUnsupervised(v, intent, io) ==
    IF IsStop(intent) THEN StopUnsupervised(v, FALSE, io) ELSE v

\* `found` says whether a holder record was found, and `tried` whether
\* adopting it was tried and failed.
ReconnectFailed(v, carried, found, tried, io) ==
    LET c == carried.child
        left == LeaveUnsupervised(v, c)
        collected == IF found THEN Collect(v, c) ELSE v
        restored == IF v.has
                    THEN [collected EXCEPT !.intent = carried.intent, !.member = carried.member]
                    ELSE collected
    IN  IF CanLeaveUnsupervised(v, c)
        THEN ContinueStopUnsupervised(
                IF found /\ tried THEN ScheduleAdoptionRetry(left) ELSE left,
                carried.intent, io)
        ELSE ApplyExit(restored, FALSE, io)

WithMembership(carried, member) ==
    IF member = "none" THEN carried ELSE [carried EXCEPT !.member = member]

ApplyPendingIfKnown(v, launch, io) ==
    IF Known(v) THEN ApplyPending(v, launch, FALSE, io) ELSE v

SettleSupersededSearch(v, c) ==
    IF ~RunsChild(v, c) THEN Collect(v, c)
    ELSE IF Known(v) /\ ~HoldsProcess(v)
      THEN ScheduleAdoptionRetry(LeaveUnsupervised(v, c))
    ELSE v

\* e.id is the child whose holder record was found, or None.
HandleReconnectLocated(v, e, io) ==
    LET launch == v.launch
        taken == ForgetLaunch(v, e.gen)
        failed == ReconnectFailed(SetState(taken, launch.prior),
                                  WithMembership(launch.carried, launch.member),
                                  FALSE, FALSE, io)
    IN  IF ~TakesLaunch(v, e.gen) \/ v.detaching
        THEN IF e.id # None /\ ~v.detaching THEN SettleSupersededSearch(taken, e.id) ELSE taken
        ELSE IF launch.purpose # "Adopt" \/ launch.carried.child = None THEN taken
        ELSE IF e.id # None /\ Known(taken) /\ ~HoldsProcess(taken)
          THEN Post(v, Ev("AdoptJob", e.gen, e.id, TRUE))
        ELSE ApplyPendingIfKnown(failed, launch, io)

AdoptionFailed(v, launch, c, io) ==
    LET prior == SetState(v, launch.prior)
        settled == IF CanLeaveUnsupervised(prior, c)
                   THEN ScheduleAdoptionRetry(LeaveUnsupervised(prior, c))
                   ELSE Collect(prior, c)
        failed == ReconnectFailed(prior, WithMembership(launch.carried, launch.member),
                                  TRUE, TRUE, io)
    IN  IF launch.carried.child # None THEN ApplyPendingIfKnown(failed, launch, io)
        ELSE ApplyPending(settled, launch, FALSE, io)

\* A stop carried over the reconnect gets a fresh deadline.
RearmForceStop(v) == ScheduleForceStop([v EXCEPT !.shut = @ + 1])

\* Mutant: a stop carried over the reconnect gets no new deadline.
RestoreUnarmed(v, carried) ==
    IF carried.child = None \/ ~Known(v) THEN v
    ELSE [v EXCEPT !.intent = carried.intent, !.member = carried.member,
                   !.state = carried.state]

\* Mutant: the exit intent is not carried over the reconnect.
RestoreWithoutIntent(v, carried) ==
    IF carried.child = None \/ ~Known(v) THEN v
    ELSE [v EXCEPT !.member = carried.member, !.state = carried.state]

RestoreCarried(v, carried) ==
    LET back == [v EXCEPT !.intent = carried.intent, !.member = carried.member,
                          !.state = carried.state]
    IN  IF carried.child = None \/ ~Known(v) THEN v
        ELSE IF AwaitsForceStop(carried.intent) THEN RearmForceStop(back)
        ELSE back

InstallAdopted(v, launch, c, io) ==
    LET carried == WithMembership(launch.carried, launch.member)
        installed == InstallPane([v EXCEPT !.retry = 0], c)
        replayed == HandleOutput(RestoreCarried(installed, carried), launch.gen,
                                 launch.early, io)
    IN  ApplyPending(replayed, launch, RunsLaunch(replayed, launch.gen), io)

\* e.id is the child of the holder, e.ok whether it was adopted.
SettleAdoption(v, e, io) ==
    LET taken == ForgetLaunch(v, e.gen)
        stopped == [v EXCEPT !.stoppedAdoption = 0]
    IN  IF TakesLaunch(v, e.gen)
        THEN IF IsSpawning(v) THEN (IF e.ok THEN Abandon(taken, e.id) ELSE taken)
             ELSE IF e.ok THEN InstallAdopted(taken, v.launch, e.id, io)
             ELSE AdoptionFailed(taken, v.launch, e.id, io)
        ELSE IF v.stoppedAdoption = e.gen
          THEN IF e.ok THEN CollectOnceStopped(Drop(stopped, e.id), e.id)
               ELSE ReportSupersededFailure(stopped, e.id)
        ELSE IF ~e.ok THEN ReportSupersededFailure(taken, e.id)
        ELSE IF Detaches(v, e.gen) THEN Drop(taken, e.id)
        ELSE Abandon(taken, e.id)

-----------------------------------------------------------------------------
(* At service start. *)

\* A process the stack no longer has gets a row of its own, to be stopped from.
AdoptablePane(v) ==
    IF Known(v) THEN v ELSE [v EXCEPT !.state = "Pending", !.spec = "record"]

\* A second copy of a supervised process is left running.
BeginAdoption(v, c) ==
    LET removed == ~Known(v)
        b == BumpGeneration(AdoptablePane(v))
        launch == [NewLaunch("Adopt", b.gen, b.state, NoCarried) EXCEPT
                      !.member = IF removed THEN "RetireOnExit" ELSE "none",
                      !.intent = IF removed THEN "Stop" ELSE "none"]
    IN  IF HoldsProcess(v) THEN ReportSupersededFailure(v, c)
        ELSE Post([b EXCEPT !.launch = launch, !.state = "Starting"],
                  Ev("AdoptJob", b.gen, c, TRUE))

\* Brings the row in line with the stack: `present` says whether it has the
\* process.  A kept row takes the new definition, a new one waits in Pending,
\* a removed one is stopped and retires once it exits, or at once.
ApplyStack(v, present, io) ==
    LET member == IF present THEN "Tracked" ELSE "RetireOnExit"
        marked == [v EXCEPT !.launch.member = IF IsStarting(v) THEN member ELSE @,
                            !.member = IF v.has THEN member ELSE @]
    IN  IF present /\ Known(v) THEN [marked EXCEPT !.spec = "stack", !.problem = FALSE]
        ELSE IF present THEN [v EXCEPT !.state = "Pending", !.spec = "stack", !.problem = FALSE]
        ELSE IF ~Known(v) THEN v
        ELSE IF HoldsProcess(v) THEN StopPane(marked, io)
        ELSE RetirePane(v)

=============================================================================
