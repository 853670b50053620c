--------------------------- MODULE MCBackendLeases ----------------------------
(* A small instance of BackendLeases. *)
EXTENDS BackendLeases
=============================================================================
