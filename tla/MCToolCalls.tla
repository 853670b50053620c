----------------------------- MODULE MCToolCalls ------------------------------
(* A small instance of ToolCalls. *)
EXTENDS ToolCalls
=============================================================================
