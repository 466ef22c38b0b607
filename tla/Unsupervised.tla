---------------------------- MODULE Unsupervised ----------------------------
(***************************************************************************)
(* A child left running under a holder the service cannot reach: it is      *)
(* signalled directly, refuses a second copy beside it, and is adopted      *)
(* again by timed or asked-for tries.                                       *)
(***************************************************************************)
EXTENDS Pane

\* The next check of an unsupervised stop supersedes any already scheduled.
CheckUnsupervisedAfter(v) ==
    Post([v EXCEPT !.shut = @ + 1], Ev("ForceStop", v.gen, v.shut + 1, TRUE))

GiveUpUnsupervisedStop(v) ==
    SetState([v EXCEPT !.intent = StopRequested(FALSE)], "Unsupervised")

SettleUnsupervisedExit(v) ==
    LET gone == [Collect(v, v.collectAfter) EXCEPT !.collectAfter = None, !.unsup = None]
    IN  IF ~v.has THEN gone
        ELSE IF v.member = "RetireOnExit" THEN RetirePane(gone)
        ELSE SetState(Deactivate(BumpGeneration(gone)), "Exited")

\* Mutant: nothing looks again at a child that was signalled.
SignalUnwatched(v, kill, io) ==
    LET c == v.unsup
        hit == IF kill THEN [v EXCEPT !.killed = @ \cup {c}] ELSE v
    IN  IF ~RunsChild(v, c) THEN SettleUnsupervisedExit(v)
        ELSE SetState([hit EXCEPT !.intent = StopRequested(TRUE)], "Stopping")

\* `kill` says whether the signal is a kill.  A child found gone is settled,
\* never signalled; io.gone is one that dies between the signal and the check.
SignalUnsupervised(v, kill, io) ==
    LET c == v.unsup
        delivered == io.signal # "failed"
        hit == IF kill /\ delivered THEN [v EXCEPT !.killed = @ \cup {c}] ELSE v
    IN  IF ~RunsChild(v, c) THEN SettleUnsupervisedExit(v)
        ELSE IF io.gone
          THEN SettleUnsupervisedExit([hit EXCEPT !.proc[c] = "failed"])
        ELSE IF ~delivered THEN GiveUpUnsupervisedStop(v)
        ELSE CheckUnsupervisedAfter(
                SetState([hit EXCEPT !.intent = StopRequested(TRUE)], "Stopping"))

StopUnsupervised(v, force, io) ==
    IF ~force /\ ~AcceptsStopRequest(v.intent) THEN v
    ELSE SignalUnsupervised([v EXCEPT !.grace = IF force THEN 0 ELSE GraceChecks, !.kills = 0],
                            force, io)

\* Mutant: a forced stop, whose grace is over, is counted down as well.
EscalatePastGrace(v, io) ==
    IF ~IsUnsupervised(v) THEN v
    ELSE IF v.grace # 1 THEN CheckUnsupervisedAfter([v EXCEPT !.grace = @ - 1])
    ELSE SignalUnsupervised([v EXCEPT !.grace = 0], TRUE, io)

EscalateUnsupervised(v, io) ==
    LET killing == [v EXCEPT !.grace = 0, !.kills = @ + 1]
    IN  IF ~IsUnsupervised(v) THEN v
        ELSE IF v.grace > 0 /\ ~RunsUnsupervised(v) THEN SettleUnsupervisedExit(v)
        ELSE IF v.grace > 1 THEN CheckUnsupervisedAfter([v EXCEPT !.grace = @ - 1])
        ELSE IF killing.kills > KillLimit /\ RunsUnsupervised(v)
          THEN GiveUpUnsupervisedStop([killing EXCEPT !.kills = 0])
        ELSE SignalUnsupervised(killing, TRUE, io)

\* Whether a child can be recorded as left running on the pane.
CanLeaveUnsupervised(v, c) == RunsChild(v, c) /\ (v.has \/ Known(v))

LeaveUnsupervised(v, c) ==
    LET blank == IF v.has THEN v ELSE InstallTerminal(v, None)
    IN  SetState([Deactivate(blank) EXCEPT !.unsup = c, !.grace = 0, !.kills = 0],
                 "Unsupervised")

-----------------------------------------------------------------------------
(* Tries at adopting its holder again. *)

\* The child runs and is left alone: not stopped, being stopped or adopted.
Retryable(v) == ~IsStarting(v) /\ v.state = "Unsupervised" /\ RunsUnsupervised(v)

NextTry(v) == [v EXCEPT !.retries = @ + 1, !.retry = v.retries + 1]

ProbeAdoption(v, try, asked) ==
    IF Retryable(v) THEN Post(v, Ev("ProbeJob", try, v.unsup, asked)) ELSE v

RetryAdoptionNow(v) ==
    IF Retryable(v) THEN ProbeAdoption(NextTry(v), v.retries + 1, TRUE) ELSE v

ScheduleAdoptionRetry(v) == Post(NextTry(v), Ev("RetryDue", v.retries + 1, None, TRUE))

HandleAdoptionRetryDue(v, e) ==
    IF v.retry = e.gen THEN ProbeAdoption(v, e.gen, FALSE) ELSE v

BeginRetryAdoption(v, c) ==
    LET b == BumpGeneration(v)
    IN  Post([b EXCEPT !.launch = NewLaunch("Adopt", b.gen, "Unsupervised", NoCarried)],
             Ev("AdoptJob", b.gen, c, TRUE))

HandleAdoptionProbed(v, e) ==
    IF v.retry # e.gen \/ ~Retryable(v) THEN v
    ELSE IF e.id = v.unsup THEN BeginRetryAdoption(v, e.id)
    ELSE ScheduleAdoptionRetry(v)

\* A stop or kill of the child reaches it directly, whatever the try brings.
SupersedeRetryAdoption(v) ==
    IF IsUnsupervised(v) /\ IsStarting(v)
    THEN AdvanceGeneration([v EXCEPT !.stoppedAdoption = v.launch.gen, !.launch = NoLaunch])
    ELSE v

CollectOnceStopped(v, c) ==
    IF v.unsup = c /\ RunsUnsupervised(v) THEN [v EXCEPT !.collectAfter = c] ELSE Collect(v, c)

=============================================================================
