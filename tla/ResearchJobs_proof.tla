-------------------------- MODULE ResearchJobs_proof --------------------------
(***************************************************************************)
(* Proofs about ResearchJobs, for any number of jobs, threads and attempts *)
(* and any lease.                                                          *)
(*                                                                         *)
(* OneResultFromLatestClaim is not inductive: that a stored result belongs *)
(* to the latest claim rests on tokens (a token in a row is that of the    *)
(* latest claim, and goes when the row settles), and that two threads      *)
(* never hold the same claim rests on claims being new.  JobInv, HeldInv   *)
(* and EvalInv say this; IInv is their conjunction with TypeOK.            *)
(***************************************************************************)
EXTENDS ResearchJobs, TLAPS

\* One row: what its status says about its lease and its results.
JobInv(j) ==
    /\ token[j] # NoToken => /\ status[j] \in {"running", "cancelled"}
                             /\ token[j] = attempts[j]
                             /\ results[j] = {}
    /\ status[j] = "running" => token[j] # NoToken
    /\ status[j] \in {"absent", "pending"} => attempts[j] < MaxAttempts
    /\ status[j] \in {"absent", "pending", "failed"} => results[j] = {}
    /\ status[j] = "completed" => results[j] = {attempts[j]}
    /\ results[j] \subseteq {attempts[j]}

\* The claims threads hold were handed out, each to one thread.
HeldInv == /\ \A w \in Threads : \A c \in held[w] : c[2] <= attempts[c[1]]
           /\ \A v, w \in Threads : \A c \in held[v] : c \in held[w] => v = w

\* What is evaluated or decided has a stored result.
EvalInv == /\ \A w \in Threads : \A j \in eval[w] : results[j] # {}
           /\ \A j \in decided : results[j] # {}

IInv == /\ TypeOK
        /\ \A j \in Jobs : JobInv(j)
        /\ HeldInv
        /\ EvalInv

-----------------------------------------------------------------------------
LEMMA InitIInv == Init => IInv
  BY JobsAssumption DEF Init, IInv, TypeOK, JobInv, HeldInv, EvalInv, NoToken,
                        Statuses, Claims

\* Storing a result for the claim that holds the row's lease keeps the rows in
\* order; both complete_job's caller and submit_result's rely on it.
LEMMA ArchiveKeepsRows ==
    ASSUME IInv, NEW j \in Jobs, NEW t \in 1 .. MaxAttempts,
           HoldsLease(j, t), Archive(j, t)
    PROVE  /\ status' \in [Jobs -> Statuses]
           /\ token' \in [Jobs -> 0 .. MaxAttempts]
           /\ lease' \in [Jobs -> -1 .. LeaseUnits]
           /\ attempts' = attempts /\ due' = due
           /\ results' \in [Jobs -> SUBSET (1 .. MaxAttempts)]
           /\ \A i \in Jobs : JobInv(i)'
           /\ results'[j] # {}
           /\ \A i \in Jobs : results[i] # {} => results'[i] # {}
<1> USE JobsAssumption
<1>1. /\ status' = [status EXCEPT ![j] = IF status[j] = "running" THEN "completed"
                                         ELSE "cancelled"]
      /\ token' = [token EXCEPT ![j] = NoToken]
      /\ lease' = [lease EXCEPT ![j] = 0]
      /\ results' = [results EXCEPT ![j] = @ \cup {t}]
      /\ attempts' = attempts /\ due' = due
  BY DEF Archive, Release
<1>2. t = attempts[j] /\ results[j] = {} /\ t # NoToken
  BY DEF IInv, JobInv, HoldsLease, NoToken
<1>3. \A i \in Jobs : JobInv(i)'
  BY <1>1, <1>2 DEF IInv, JobInv, TypeOK, NoToken, Statuses
<1> QED BY <1>1, <1>2, <1>3 DEF IInv, TypeOK, Statuses, NoToken

LEMMA NextIInv == IInv /\ [Next]_vars => IInv'
<1> SUFFICES ASSUME IInv, [Next]_vars PROVE IInv'
  OBVIOUS
<1> USE JobsAssumption
<1>1. ASSUME NEW j \in Jobs, NEW delay \in {0, RetryUnits}, CreateJob(j, delay)
      PROVE  IInv'
  BY <1>1 DEF IInv, TypeOK, JobInv, HeldInv, EvalInv, CreateJob, Statuses,
              threadVars, NoToken
<1>2. ASSUME NEW m \in Mandates, CancelJobs(m) PROVE IInv'
  BY <1>2 DEF IInv, TypeOK, JobInv, HeldInv, EvalInv, CancelJobs, Open, Statuses,
              threadVars, NoToken
<1>3. CASE Tick
  BY <1>3 DEF IInv, TypeOK, JobInv, HeldInv, EvalInv, Tick, CountDown, Statuses,
              threadVars, NoToken
<1>4. ASSUME NEW w \in Threads, ClaimJobs(w) PROVE IInv'
  <2>1. PICK batch \in SUBSET DueJobs :
           /\ status' = [j \in Jobs |-> IF j \in batch THEN "running" ELSE status[j]]
           /\ attempts' = [j \in Jobs |-> IF j \in batch THEN attempts[j] + 1
                                                         ELSE attempts[j]]
           /\ token' = [j \in Jobs |-> IF j \in batch THEN attempts[j] + 1 ELSE token[j]]
           /\ lease' = [j \in Jobs |-> IF j \in batch THEN LeaseUnits ELSE lease[j]]
           /\ held' = [held EXCEPT ![w] = {<<j, attempts[j] + 1>> : j \in batch}]
    BY <1>4 DEF ClaimJobs
  <2>2. UNCHANGED <<due, results, decided, eval>>
    BY <1>4 DEF ClaimJobs
  <2>3. \A j \in batch : j \in Jobs /\ status[j] = "pending" /\ attempts[j] < MaxAttempts
    BY DEF DueJobs, IInv, JobInv
  <2>4. TypeOK'
    <3>1. {<<j, attempts[j] + 1>> : j \in batch} \subseteq Claims
      BY <2>3 DEF Claims, IInv, TypeOK
    <3> QED BY <2>1, <2>2, <2>3, <3>1 DEF IInv, TypeOK, Statuses
  <2>5. \A j \in Jobs : JobInv(j)'
    BY <2>1, <2>2, <2>3 DEF IInv, TypeOK, JobInv, NoToken
  <2>6. HeldInv'
    <3>1. \A v \in Threads : \A c \in held[v] : c[1] \in Jobs /\ c[2] <= attempts[c[1]]
      BY DEF IInv, HeldInv, TypeOK, Claims
    <3>2. \A c \in held'[w] : /\ c[1] \in batch
                              /\ c[2] = attempts[c[1]] + 1
      BY <2>1 DEF IInv, TypeOK
    <3>3. \A v \in Threads : v # w => held'[v] = held[v]
      BY <2>1 DEF IInv, TypeOK
    <3>4. \A v \in Threads : \A c \in held'[v] : c[2] <= attempts'[c[1]]
      BY <2>1, <2>3, <3>1, <3>2, <3>3 DEF IInv, TypeOK, Claims
    <3>5. \A u, v \in Threads : \A c \in held'[u] : c \in held'[v] => u = v
      BY <2>3, <3>1, <3>2, <3>3 DEF IInv, TypeOK, HeldInv
    <3> QED BY <3>4, <3>5 DEF HeldInv
  <2>7. EvalInv'
    BY <2>2 DEF IInv, EvalInv
  <2> QED BY <2>4, <2>5, <2>6, <2>7 DEF IInv
<1>5. ASSUME NEW w \in Threads, NEW c \in held[w], CompleteJob(w, c[1], c[2])
      PROVE  IInv'
  <2>1. c[1] \in Jobs /\ c[2] \in 1 .. MaxAttempts /\ c = <<c[1], c[2]>>
    BY DEF IInv, TypeOK, Claims
  <2>2. held' = [held EXCEPT ![w] = @ \ {c}] /\ decided' = decided
    BY <1>5, <2>1 DEF CompleteJob
  <2>3. CASE HoldsLease(c[1], c[2]) /\ Archive(c[1], c[2])
             /\ eval' = [eval EXCEPT ![w] = {c[1]}]
    <3>1. TypeOK' /\ \A j \in Jobs : JobInv(j)'
      BY <2>1, <2>2, <2>3, ArchiveKeepsRows DEF IInv, TypeOK
    <3>2. HeldInv'
      BY <2>1, <2>2, <2>3, ArchiveKeepsRows DEF IInv, TypeOK, HeldInv
    <3>3. EvalInv'
      BY <2>1, <2>2, <2>3, ArchiveKeepsRows DEF IInv, TypeOK, EvalInv
    <3> QED BY <3>1, <3>2, <3>3 DEF IInv
  <2>4. CASE UNCHANGED <<jobVars, eval>>
    BY <2>2, <2>4 DEF IInv, TypeOK, JobInv, HeldInv, EvalInv, jobVars
  <2> QED BY <1>5, <2>3, <2>4 DEF CompleteJob
<1>6. ASSUME NEW w \in Threads, NEW c \in held[w], FailJob(w, c[1], c[2])
      PROVE  IInv'
  <2>1. c[1] \in Jobs /\ c[2] \in 1 .. MaxAttempts /\ c = <<c[1], c[2]>>
    BY DEF IInv, TypeOK, Claims
  <2>2. PICK to \in {"cancelled", "pending", "failed"} :
           /\ Release(c[1], to)
           /\ to = "pending" => MayRetry(c[1])
           /\ status[c[1]] = "cancelled" <=> to = "cancelled"
    BY <1>6, <2>1 DEF FailJob, HoldsLease
  <2>3. due' \in [Jobs -> 0 .. RetryUnits]
    <3>1. RetryDelay(c[1]) \in 0 .. RetryUnits
      BY <2>1 DEF RetryDelay, ClaimInstant, IInv, TypeOK
    <3> QED BY <1>6, <2>1, <3>1 DEF FailJob, IInv, TypeOK
  <2>4. /\ held' = [held EXCEPT ![w] = @ \ {c}]
        /\ UNCHANGED <<attempts, results, decided, eval>>
    BY <1>6, <2>1 DEF FailJob
  <2>5. results[c[1]] = {}
    BY <1>6, <2>1 DEF FailJob, HoldsLease, IInv, JobInv, NoToken
  <2>6. \A j \in Jobs : JobInv(j)'
    BY <2>1, <2>2, <2>4, <2>5 DEF Release, MayRetry, IInv, TypeOK, JobInv, NoToken
  <2>7. TypeOK'
    <3>1. /\ status' \in [Jobs -> Statuses]
          /\ token' \in [Jobs -> 0 .. MaxAttempts]
          /\ lease' \in [Jobs -> -1 .. LeaseUnits]
      BY <2>1, <2>2 DEF Release, IInv, TypeOK, Statuses, NoToken
    <3>2. held' \in [Threads -> SUBSET Claims]
      BY <2>4 DEF IInv, TypeOK
    <3> QED BY <2>3, <2>4, <3>1, <3>2 DEF IInv, TypeOK
  <2>8. HeldInv'
    <3>1. \A v \in Threads : held'[v] \subseteq held[v]
      BY <2>4 DEF IInv, TypeOK
    <3>2. HeldInv
      BY DEF IInv
    <3>3. \A v \in Threads : \A b \in held'[v] : b[2] <= attempts'[b[1]]
      BY <2>4, <3>1, <3>2 DEF HeldInv
    <3>4. \A u, v \in Threads : \A b \in held'[u] : b \in held'[v] => u = v
      BY <3>1, <3>2 DEF HeldInv
    <3> QED BY <3>3, <3>4 DEF HeldInv
  <2>9. EvalInv'
    BY <2>4 DEF IInv, EvalInv
  <2> QED BY <2>6, <2>7, <2>8, <2>9 DEF IInv
<1>7. ASSUME NEW w \in Threads, NEW c \in held[w], FailJobLeaseLost(w, c[1], c[2])
      PROVE  IInv'
  BY <1>7 DEF IInv, TypeOK, JobInv, HeldInv, EvalInv, FailJobLeaseLost, jobVars
<1>8. ASSUME NEW w \in Threads, NEW j \in Jobs, Evaluate(w, j) PROVE IInv'
  BY <1>8 DEF IInv, TypeOK, JobInv, HeldInv, EvalInv, Evaluate, jobVars
<1>9. ASSUME NEW w \in Threads, Abort(w) PROVE IInv'
  BY <1>9 DEF IInv, TypeOK, JobInv, HeldInv, EvalInv, Abort, jobVars
<1>10. ASSUME NEW w \in Threads, NEW c \in Claims, SubmitResult(w, c[1], c[2])
       PROVE  IInv'
  <2>1. c[1] \in Jobs /\ c[2] \in 1 .. MaxAttempts
    BY DEF Claims
  <2>2. /\ HoldsLease(c[1], c[2]) /\ Archive(c[1], c[2])
        /\ eval' = [eval EXCEPT ![w] = {c[1]}]
        /\ UNCHANGED <<decided, held>>
    BY <1>10 DEF SubmitResult
  <2> QED BY <2>1, <2>2, ArchiveKeepsRows DEF IInv, TypeOK, HeldInv, EvalInv
<1>11. CASE Reclaim
  BY <1>11 DEF IInv, TypeOK, JobInv, HeldInv, EvalInv, Reclaim, Expired, MayRetry,
               Statuses, threadVars, NoToken
<1>12. CASE UNCHANGED vars
  BY <1>12 DEF IInv, TypeOK, JobInv, HeldInv, EvalInv, vars
<1> QED
  BY <1>1, <1>2, <1>3, <1>4, <1>5, <1>6, <1>7, <1>8, <1>9, <1>10, <1>11, <1>12
     DEF Next, Work

\* The strengthened invariant holds throughout.
THEOREM InductiveInvariant == Spec => []IInv
  BY InitIInv, NextIInv, PTL DEF Spec

-----------------------------------------------------------------------------
\* Type correctness: in particular no job is ever claimed more often than its
\* attempt budget allows, whoever requeues it.
THEOREM TypeCorrect == Spec => []TypeOK
<1>1. IInv => TypeOK BY DEF IInv
<1> QED BY InductiveInvariant, <1>1, PTL

\* At most one result per job, from its latest claim (sqlite_store.complete_job).
THEOREM OneResult == Spec => []OneResultFromLatestClaim
<1>1. IInv => OneResultFromLatestClaim
  BY DEF IInv, JobInv, OneResultFromLatestClaim
<1> QED BY InductiveInvariant, <1>1, PTL

\* A job with a stored result has settled and is not leased.
THEOREM ResultEndsJob == Spec => []NoRunAfterResult
<1>1. IInv => NoRunAfterResult
  BY DEF IInv, TypeOK, JobInv, NoRunAfterResult, Statuses
<1> QED BY InductiveInvariant, <1>1, PTL

\* Of all threads working on a job, one claim at most can still change it.
THEOREM ExclusiveHolder == Spec => []OneEffectiveHolder
<1>1. IInv => OneEffectiveHolder
  BY DEF IInv, HeldInv, HoldsLease, OneEffectiveHolder
<1> QED BY InductiveInvariant, <1>1, PTL

\* Contact decisions rest on stored results.
THEOREM DecisionsHaveResults == Spec => []DecisionsRestOnResults
<1>1. IInv => DecisionsRestOnResults
  BY DEF IInv, EvalInv, DecisionsRestOnResults
<1> QED BY InductiveInvariant, <1>1, PTL

-----------------------------------------------------------------------------
\* Pausing, ending, completing and giving up are final.
THEOREM SettledIsFinal == Spec => SettledStaysSettled
<1>1. ASSUME IInv, [Next]_vars
      PROVE  \A j \in Jobs : status[j] \in Terminal => status'[j] = status[j]
  <2> SUFFICES ASSUME NEW j \in Jobs, status[j] \in Terminal
               PROVE  status'[j] = status[j]
    OBVIOUS
  <2> USE DEF Terminal
  <2>1. TypeOK /\ JobInv(j)
    BY <1>1 DEF IInv
  <2>2. ASSUME NEW i \in Jobs, NEW delay \in {0, RetryUnits}, CreateJob(i, delay)
        PROVE  status'[j] = status[j]
    BY <2>1, <2>2 DEF CreateJob, TypeOK
  <2>3. ASSUME NEW m \in Mandates, CancelJobs(m) PROVE status'[j] = status[j]
    BY <2>1, <2>3 DEF CancelJobs, Open, TypeOK
  <2>4. ASSUME NEW w \in Threads, ClaimJobs(w) PROVE status'[j] = status[j]
    BY <2>1, <2>4 DEF ClaimJobs, DueJobs, TypeOK
  <2>5. ASSUME NEW i \in Jobs, NEW t, Archive(i, t), HoldsLease(i, t)
        PROVE  status'[j] = status[j]
    BY <2>1, <2>5 DEF Archive, Release, HoldsLease, TypeOK
  <2>6. ASSUME NEW w \in Threads, NEW c \in held[w], CompleteJob(w, c[1], c[2])
        PROVE  status'[j] = status[j]
    <3>1. c[1] \in Jobs
      BY <2>1 DEF TypeOK, Claims
    <3> QED BY <2>5, <2>6, <3>1 DEF CompleteJob, jobVars
  <2>7. ASSUME NEW w \in Threads, NEW c \in held[w], FailJob(w, c[1], c[2])
        PROVE  status'[j] = status[j]
    <3>1. c[1] \in Jobs
      BY <2>1 DEF TypeOK, Claims
    <3>2. PICK to \in {"cancelled", "pending", "failed"} :
             /\ status' = [status EXCEPT ![c[1]] = to]
             /\ status[c[1]] = "cancelled" => to = "cancelled"
             /\ status[c[1]] \in {"running", "cancelled"}
      BY <2>7, <3>1 DEF FailJob, HoldsLease, Release
    <3> QED BY <2>1, <3>1, <3>2 DEF TypeOK
  <2>8. ASSUME NEW w \in Threads, NEW c \in Claims, SubmitResult(w, c[1], c[2])
        PROVE  status'[j] = status[j]
    BY <2>5, <2>8 DEF SubmitResult, Claims
  <2>9. CASE Reclaim
    BY <2>1, <2>9 DEF Reclaim, Expired, TypeOK
  <2>10. CASE UNCHANGED status
    BY <2>10
  <2> QED
    BY <1>1, <2>2, <2>3, <2>4, <2>6, <2>7, <2>8, <2>9, <2>10
       DEF Next, Work, Tick, FailJobLeaseLost, Evaluate, Abort, jobVars, vars
<1> QED BY InductiveInvariant, <1>1, PTL DEF Spec, SettledStaysSettled

-----------------------------------------------------------------------------
(* The queue implements JobContract: each step, seen through phase and      *)
(* archived, is a step of the contract or changes nothing it mentions.      *)

PhaseOf(s) == IF s \in {"pending", "running"} THEN "open" ELSE s
Phase == [j \in Jobs |-> PhaseOf(status[j])]
Archived == {j \in Jobs : results[j] # {}}
ContractStep == Contract!Next \/ UNCHANGED <<Phase, Archived, decided>>

\* Storing a result completes an open job, or archives the one late result of
\* a cancelled one.
LEMMA ArchiveImplements ==
    ASSUME IInv, NEW j \in Jobs, NEW t \in 1 .. MaxAttempts,
           HoldsLease(j, t), Archive(j, t), decided' = decided
    PROVE  Contract!Next
<1>1. /\ status \in [Jobs -> Statuses] /\ results[j] = {}
      /\ results \in [Jobs -> SUBSET (1 .. MaxAttempts)]
  BY JobsAssumption DEF IInv, TypeOK, JobInv, HoldsLease, NoToken
<1>2. /\ status' = [status EXCEPT ![j] = IF status[j] = "running" THEN "completed"
                                         ELSE "cancelled"]
      /\ results' = [results EXCEPT ![j] = @ \cup {t}]
  BY DEF Archive, Release
<1>3. Archived' = Archived \cup {j} /\ j \notin Archived
  BY <1>1, <1>2 DEF Archived
<1>4. CASE status[j] = "running"
  <2>1. /\ Phase[j] = "open"
        /\ Phase' = [Phase EXCEPT ![j] = "completed"]
    BY <1>1, <1>2, <1>4 DEF Phase, PhaseOf
  <2>2. Contract!Complete(j)
    BY <1>3, <2>1 DEF Contract!Complete, Phase, PhaseOf, Archived
  <2> QED BY <2>2 DEF Contract!Next
<1>5. CASE status[j] = "cancelled"
  <2>1. Phase[j] = "cancelled" /\ Phase' = Phase
    BY <1>1, <1>2, <1>5 DEF Phase, PhaseOf
  <2>2. Contract!ArchiveLate(j)
    BY <1>3, <2>1 DEF Contract!ArchiveLate, Phase, PhaseOf, Archived
  <2> QED BY <2>2 DEF Contract!Next
<1> QED BY <1>4, <1>5 DEF HoldsLease

LEMMA NextImplements == IInv /\ [Next]_vars => ContractStep
<1> SUFFICES ASSUME IInv, [Next]_vars PROVE ContractStep
  OBVIOUS
<1>0. TypeOK /\ EvalInv
  BY DEF IInv
<1>1. ASSUME NEW j \in Jobs, NEW delay \in {0, RetryUnits}, CreateJob(j, delay)
      PROVE  ContractStep
  <2>1. Phase' = [Phase EXCEPT ![j] = "open"] /\ Phase[j] = "absent"
    BY <1>0, <1>1 DEF CreateJob, TypeOK, Phase, PhaseOf
  <2>2. Archived' = Archived /\ decided' = decided
    BY <1>1 DEF CreateJob, Archived
  <2>3. Contract!OpenJob(j)
    BY <2>1, <2>2 DEF Contract!OpenJob, Phase, PhaseOf, Archived
  <2> QED BY <2>3 DEF ContractStep, Contract!Next
<1>2. ASSUME NEW m \in Mandates, CancelJobs(m) PROVE ContractStep
  <2> PICK S \in SUBSET Jobs : S = {j \in Jobs : MandateOf[j] = m /\ Open(j)}
    OBVIOUS
  <2>1. \A j \in S : Phase[j] = "open"
    BY DEF Open, Phase, PhaseOf
  <2>2. Phase' = [j \in Jobs |-> IF j \in S THEN "cancelled" ELSE Phase[j]]
    BY <1>0, <1>2 DEF CancelJobs, Open, TypeOK, Phase, PhaseOf
  <2>3. Archived' = Archived /\ decided' = decided
    BY <1>2 DEF CancelJobs, Archived
  <2>4. Contract!CancelSome(S)
    BY <2>1, <2>2, <2>3 DEF Contract!CancelSome, Phase, PhaseOf, Archived
  <2> QED BY <2>4 DEF ContractStep, Contract!Next
<1>3. ASSUME UNCHANGED <<status, results, decided>> PROVE ContractStep
  BY <1>3 DEF ContractStep, Phase, PhaseOf, Archived
<1>4. ASSUME NEW w \in Threads, ClaimJobs(w) PROVE ContractStep
  <2>1. Phase' = Phase
    BY <1>0, <1>4 DEF ClaimJobs, DueJobs, TypeOK, Phase, PhaseOf
  <2> QED BY <1>4, <2>1 DEF ClaimJobs, ContractStep, Archived
<1>5. ASSUME NEW w \in Threads, NEW c \in held[w], CompleteJob(w, c[1], c[2])
      PROVE  ContractStep
  <2>1. c[1] \in Jobs /\ c[2] \in 1 .. MaxAttempts
    BY <1>0 DEF TypeOK, Claims
  <2> QED BY <1>3, <1>5, <2>1, ArchiveImplements DEF CompleteJob, jobVars, ContractStep
<1>6. ASSUME NEW w \in Threads, NEW c \in held[w], FailJob(w, c[1], c[2])
      PROVE  ContractStep
  <2>1. c[1] \in Jobs
    BY <1>0 DEF TypeOK, Claims
  <2>2. PICK to \in {"cancelled", "pending", "failed"} :
           /\ status' = [status EXCEPT ![c[1]] = to]
           /\ status[c[1]] \in {"running", "cancelled"}
           /\ status[c[1]] = "cancelled" <=> to = "cancelled"
    BY <1>6, <2>1 DEF FailJob, HoldsLease, Release
  <2>3. Archived' = Archived /\ decided' = decided
    BY <1>6 DEF FailJob, Archived
  <2>4. CASE to = "failed"
    <3>1. /\ Phase[c[1]] = "open"
          /\ Phase' = [j \in Jobs |-> IF j \in {c[1]} THEN "failed" ELSE Phase[j]]
      BY <1>0, <2>1, <2>2, <2>4 DEF TypeOK, Phase, PhaseOf
    <3>2. Contract!FailSome({c[1]})
      BY <2>1, <2>3, <3>1 DEF Contract!FailSome, Phase, PhaseOf, Archived
    <3> QED BY <2>1, <3>2 DEF ContractStep, Contract!Next
  <2>5. CASE to # "failed"
    <3>1. Phase' = Phase
      BY <1>0, <2>1, <2>2, <2>5 DEF TypeOK, Phase, PhaseOf
    <3> QED BY <2>3, <3>1 DEF ContractStep
  <2> QED BY <2>4, <2>5
<1>7. ASSUME NEW w \in Threads, NEW j \in Jobs, Evaluate(w, j) PROVE ContractStep
  <2>1. j \in Archived /\ Phase' = Phase /\ Archived' = Archived
    BY <1>0, <1>7 DEF Evaluate, EvalInv, jobVars, Phase, PhaseOf, Archived
  <2>2. CASE j \in decided
    BY <1>7, <2>1, <2>2 DEF Evaluate, ContractStep
  <2>3. CASE j \notin decided
    <3>1. Contract!Decide(j)
      BY <1>7, <2>1, <2>3 DEF Evaluate, Contract!Decide, Phase, PhaseOf, Archived
    <3> QED BY <3>1 DEF ContractStep, Contract!Next
  <2> QED BY <2>2, <2>3
<1>8. ASSUME NEW w \in Threads, NEW c \in Claims, SubmitResult(w, c[1], c[2])
      PROVE  ContractStep
  BY <1>8, ArchiveImplements DEF SubmitResult, Claims, ContractStep
<1>9. CASE Reclaim
  <2> PICK S \in SUBSET Jobs : S = {j \in Jobs : Expired(j) /\ ~MayRetry(j)}
    OBVIOUS
  <2>1. \A j \in S : Phase[j] = "open"
    BY DEF Expired, Phase, PhaseOf
  <2>2. Phase' = [j \in Jobs |-> IF j \in S THEN "failed" ELSE Phase[j]]
    BY <1>0, <1>9 DEF Reclaim, Expired, TypeOK, Phase, PhaseOf
  <2>3. Archived' = Archived /\ decided' = decided
    BY <1>9 DEF Reclaim, Archived
  <2>4. Contract!FailSome(S)
    BY <2>1, <2>2, <2>3 DEF Contract!FailSome, Phase, PhaseOf, Archived
  <2> QED BY <2>4 DEF ContractStep, Contract!Next
<1> QED
  BY <1>1, <1>2, <1>3, <1>4, <1>5, <1>6, <1>7, <1>8, <1>9
     DEF Next, Work, Tick, FailJobLeaseLost, Abort, jobVars, vars

\* The detailed queue implements the contract the other components rely on.
THEOREM QueueImplementsContract == Spec => ImplementsContract
<1>1. Init => Contract!Init
  BY DEF Init, Contract!Init
<1>2. ContractStep <=> [Contract!Next]_(Contract!contractVars)
  BY DEF ContractStep, Contract!contractVars, Phase, PhaseOf, Archived
<1>3. IInv /\ [Next]_vars => [Contract!Next]_(Contract!contractVars)
  BY <1>2, NextImplements
<1> QED BY InductiveInvariant, <1>1, <1>3, PTL DEF Spec, ImplementsContract, Contract!Spec
=============================================================================
