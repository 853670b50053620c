--------------------------- MODULE MCEventPipeline ---------------------------
(* Small instances of EventPipeline. *)
EXTENDS EventPipeline, TLC

CONSTANTS m1, q1, x1, w1, w2

MCOneMandate == {m1}
MCReq == {q1}
MCNoReq == {}
MCOneOutside == {x1}
MCNoOutside == {}
MCThreads == {w1, w2}
MCOneThread == {w1}
MCSymmetry == Permutations(MCThreads)
=============================================================================
