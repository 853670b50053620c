---------------------------- MODULE MCScheduleScan ----------------------------
(* Small instances of ScheduleScan. *)
EXTENDS ScheduleScan

CONSTANTS t1, t2

MCThreads == {t1, t2}
MCSparse == {1, 2, 4}       \* a rule that skips an instant and ends
=============================================================================
