------------------------------ MODULE MCStacks ------------------------------
(* An instance of Stacks small enough for TLC. *)
EXTENDS Stacks

Budget(writes, requests, runs, faults, services) ==
    [writes |-> writes, requests |-> requests, runs |-> runs,
     faults |-> faults, services |-> services]

(* The stack rewritten while it is read, over a restart or by writers alone;
   failed writes and a crash with the process ending and starting; both. *)
MCBudgets ==
    {Budget(3, 2, 0, 1, 1), Budget(4, 2, 0, 0, 0), Budget(1, 2, 2, 2, 1),
     Budget(2, 2, 1, 1, 1)}
=============================================================================
