------------------------------- MODULE MCWaits -------------------------------
(* Instances of Waits. *)
EXTENDS Waits

\* Waits for a line of two runs, over two lines, or of one run, over a line that
\* may rotate away; for a readiness read from the output; and for a port or a
\* state, with no check.
MCSetups ==
    {[check |-> "none", until |-> {"a"}, lines |-> 2, kept |-> 0, gens |-> 2],
     [check |-> "none", until |-> {"a"}, lines |-> 1, kept |-> 1, gens |-> 1],
     [check |-> "a", until |-> {"ready"}, lines |-> 1, kept |-> 0, gens |-> 3],
     [check |-> "none", until |-> {"port", "running", "stopped"}, lines |-> 0, kept |-> 0,
      gens |-> 2]}

=============================================================================
