--------------------------- MODULE MCResearchJobs ---------------------------
(* Two jobs of two mandates; both jobs may be claimed, expire and be         *)
(* reclaimed together, or one be cancelled while the other runs.            *)
EXTENDS ResearchJobs, TLC
CONSTANTS j1, j2, m1, m2, w1, w2
MCJobs == {j1, j2}
MCMandates == {m1, m2}
MCMandateOf == j1 :> m1 @@ j2 :> m2
MCThreads == {w1, w2}
=============================================================================
