------------------------ MODULE MCTransferTransaction ------------------------
(* Small instances of TransferTransaction. *)
EXTENDS TransferTransaction

CONSTANTS core, watch

MCOrder == <<core, watch>>
MCAudited == {core}
MCOne == {1}
MCBoth == {{core, watch}}
=============================================================================
