-------------------------- MODULE ProcessLifecycle --------------------------
(***************************************************************************)
(* The pure policy of one process's life: what its next exit means          *)
(* (ExitIntent), when its restart policy brings it back (RestartPolicy),    *)
(* which shown states may have a process behind them (ProcessState), and    *)
(* what an exit leads to (ProcessLifecycle::after_exit).                    *)
(***************************************************************************)

\* The states `muster ps` shows.  "Absent" stands for a pane the workspace
\* holds no process for.
ProcessState == {"Pending", "Starting", "Running", "Paused", "Stopping",
                 "Exited", "Crashed", "Restarting", "Unsupervised", "Blocked"}

IsActive(state) == state \in {"Starting", "Running", "Paused", "Stopping", "Restarting"}

MayBeRunning(state) == IsActive(state) \/ state = "Unsupervised"

RestartPolicy == {"Never", "OnFailure", "Always"}

\* An exit outcome is TRUE for Succeeded and FALSE for Failed.
ShouldRestart(policy, succeeded) ==
    \/ policy = "Always"
    \/ policy = "OnFailure" /\ ~succeeded

ExitIntent == {"FollowPolicy", "StopRetryable", "StopInFlight",
               "RestartRetryable", "RestartInFlight"}

IsStop(intent) == intent \in {"StopRetryable", "StopInFlight"}

IsRestart(intent) == intent \in {"RestartRetryable", "RestartInFlight"}

\* The intent once a stop was requested and its signal was delivered or not.
StopRequested(delivered) == IF delivered THEN "StopInFlight" ELSE "StopRetryable"

\* The intent once a restart was requested and its signal was delivered or not.
RestartRequested(delivered) == IF delivered THEN "RestartInFlight" ELSE "RestartRetryable"

AcceptsStopRequest(intent) == intent # "StopInFlight"

AcceptsRestartRequest(intent) == intent # "RestartInFlight"

AwaitsForceStop(intent) == intent \in {"StopInFlight", "RestartInFlight"}

ForceStopDeliveryFailed(intent) ==
    IF intent = "StopInFlight" THEN "StopRetryable"
    ELSE IF intent = "RestartInFlight" THEN "RestartRetryable"
    ELSE intent

ExitDecision == {"Retire", "Stop", "RestartNow", "RestartLater", "Exited", "Crashed"}

\* "Exited" and "Crashed" are the two outcomes of Settle.
AfterExit(intent, retired, restart, succeeded) ==
    IF retired THEN "Retire"
    ELSE IF IsStop(intent) THEN "Stop"
    ELSE IF IsRestart(intent) THEN "RestartNow"
    ELSE IF restart THEN "RestartLater"
    ELSE IF succeeded THEN "Exited" ELSE "Crashed"

=============================================================================
