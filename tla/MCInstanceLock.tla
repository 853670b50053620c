---------------------------- MODULE MCInstanceLock ----------------------------
(* Small instances of InstanceLock. *)
EXTENDS InstanceLock

CONSTANTS p1, p2, p3

MCPids == {p1, p2, p3}
=============================================================================
