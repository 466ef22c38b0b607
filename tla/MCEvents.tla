------------------------------ MODULE MCEvents ------------------------------
(* Events on small sets: one reader and one connection about project p1, a *)
(* second project whose events fill the same ring, and events about the    *)
(* service as a whole.                                                     *)
EXTENDS Events, TLC

MCDraft == {[project |-> "p1", kind |-> "crashed"],
            [project |-> "p2", kind |-> "crashed"],
            [project |-> Whole, kind |-> "notice"]}

MCSymmetry == Permutations(Call)

MCReadKinds == {{}, {"crashed"}}

=============================================================================
