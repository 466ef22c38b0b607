---------------------------- MODULE MCSupervisor ----------------------------
(* Budgets to model-check Supervisor with. *)
EXTENDS Supervisor

Of(ops, faults, breaks, orphans, exits, crashes) ==
    [k \in Resource |-> CASE k = "ops" -> ops [] k = "faults" -> faults
                         [] k = "breaks" -> breaks [] k = "orphans" -> orphans
                         [] k = "exits" -> exits [] k = "crashes" -> crashes]

\* Three commands with a failure; two with a failure and an orphan, with a
\* break, or with a stop of the service; one with a stop and a crash of the
\* service, or with a failure and a stop of the service, which may then end with
\* a launch in flight.
MCBudgets ==
    {Of(3, 1, 0, 0, 0, 0), Of(2, 1, 0, 1, 0, 0), Of(2, 0, 1, 0, 0, 0),
     Of(2, 0, 0, 0, 1, 0), Of(1, 0, 0, 0, 1, 1), Of(1, 1, 0, 0, 1, 0)}

MCCommands == {Of(3, 0, 0, 0, 0, 0)}

=============================================================================
