----------------------------- MODULE MCLogFiles -----------------------------
(* LogFiles with four inodes and output of one or two bytes at a time.        *)
EXTENDS LogFiles, TLC

Symmetry == Permutations(Inode)

MCChunk == {<<"text">>, <<"feed">>, <<"feed", "text">>}

Of(faults, records, kills, reads, follows) ==
    [k \in Resource |-> CASE k = "faults" -> faults [] k = "records" -> records
                          [] k = "kills" -> kills [] k = "reads" -> reads
                          [] OTHER -> follows]

\* A reader, or a follower, beside a holder that is killed or fails.
MCBudgets == {Of(1, 0, 1, 0, 0), Of(1, 0, 0, 1, 0), Of(0, 0, 1, 1, 0), Of(0, 0, 0, 2, 0),
              Of(0, 1, 0, 1, 0), Of(1, 0, 0, 0, 1), Of(0, 0, 1, 0, 1)}
=============================================================================
