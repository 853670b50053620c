----------------------------- MODULE MCMandates -----------------------------
(* Small instances of MandateCommands. *)
EXTENDS MandateCommands, TLC

CONSTANTS m1, q1, q2

MCOne == {m1}
MCReqs == {q1, q2}
MCKeys == {"a", "b"}
\* A request opens no requirement or one; it has a trigger and a schedule.
MCBodies == {[count |-> n, watch |-> TRUE, timed |-> TRUE] : n \in 0 .. 1}
MCReqSymmetry == Permutations(MCReqs)
=============================================================================
