---------------------------- MODULE JobContract ----------------------------
(***************************************************************************)
(* What the research-job queue promises the rest of research_partner,      *)
(* without leases, clocks, threads or attempts: a job is opened once,      *)
(* settles at most once, at most one result of it is ever archived, a      *)
(* result arrives no later than with the settling of the job unless the    *)
(* job was cancelled, and a contact decision follows its result.           *)
(***************************************************************************)
CONSTANT Jobs

VARIABLES phase,     \* "absent", "open", "completed", "failed", "cancelled"
          archived,  \* jobs whose one result is stored
          decided    \* jobs on whose result a contact decision was taken

contractVars == <<phase, archived, decided>>

Init == /\ phase = [j \in Jobs |-> "absent"]
        /\ archived = {}
        /\ decided = {}

OpenJob(j) == /\ phase[j] = "absent"
              /\ phase' = [phase EXCEPT ![j] = "open"]
              /\ UNCHANGED <<archived, decided>>

\* A pause or an end cancels any number of open jobs together.
CancelSome(S) == /\ \A j \in S : phase[j] = "open"
                 /\ phase' = [j \in Jobs |-> IF j \in S THEN "cancelled" ELSE phase[j]]
                 /\ UNCHANGED <<archived, decided>>

\* Exhausted budgets, found one at a time or together by recovery.
FailSome(S) == /\ \A j \in S : phase[j] = "open"
               /\ phase' = [j \in Jobs |-> IF j \in S THEN "failed" ELSE phase[j]]
               /\ UNCHANGED <<archived, decided>>

Complete(j) == /\ phase[j] = "open"
               /\ phase' = [phase EXCEPT ![j] = "completed"]
               /\ archived' = archived \cup {j}
               /\ UNCHANGED decided

\* The one late result of a run that was cancelled under way.
ArchiveLate(j) == /\ phase[j] = "cancelled" /\ j \notin archived
                  /\ archived' = archived \cup {j}
                  /\ UNCHANGED <<phase, decided>>

Decide(j) == /\ j \in archived \ decided
             /\ decided' = decided \cup {j}
             /\ UNCHANGED <<phase, archived>>

Next == \/ \E j \in Jobs : OpenJob(j) \/ Complete(j) \/ ArchiveLate(j) \/ Decide(j)
        \/ \E S \in SUBSET Jobs : CancelSome(S) \/ FailSome(S)

Spec == Init /\ [][Next]_contractVars
=============================================================================
