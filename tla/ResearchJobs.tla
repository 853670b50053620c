---------------------------- MODULE ResearchJobs ----------------------------
(***************************************************************************)
(* The durable research-job queue of research_partner: rows of             *)
(* research_jobs and research_job_results, the lease protocol of           *)
(* SqliteBusinessStore (claim, complete, fail, reclaim), and the threads   *)
(* that use it (ResearchJobWorker.run_once, worker.submit_result,          *)
(* RecoveryService.recover), interleaved at the store's transactions.      *)
(*                                                                         *)
(* Every store method is one BEGIN IMMEDIATE transaction, hence one        *)
(* action.  run_once is NOT one: claiming, each job's completion and each  *)
(* contact evaluation are transactions of their own, and other request     *)
(* threads run in between.                                                 *)
(*                                                                         *)
(* Time is relative: due[j] and lease[j] count down to next_run_at and     *)
(* lease_expires_at.  A unit is 30 seconds.                                *)
(***************************************************************************)
EXTENDS Integers, FiniteSets

CONSTANTS Jobs,          \* rows research_jobs may come to hold
          Mandates,      \* mandates the jobs belong to
          MandateOf,     \* [Jobs -> Mandates]
          Threads,       \* request threads running tick() or submit_result()
          MaxAttempts,   \* budget["max_attempts"], 3 in the router
          LeaseUnits,    \* lease_seconds of run_once, 60 s
          RetryUnits,    \* retry delay of fail_job and of reclaim, 30 s
          ClaimLimit     \* limit of run_once, 5

ASSUME JobsAssumption ==
    /\ MandateOf \in [Jobs -> Mandates]
    /\ MaxAttempts \in Nat \ {0}
    /\ LeaseUnits \in Nat \ {0}
    /\ RetryUnits \in 0 .. LeaseUnits + 1
    /\ ClaimLimit \in Nat \ {0}

VARIABLES status,    \* research_jobs.status ("absent": no row yet)
          token,     \* research_jobs.lease_token
          lease,     \* lease_expires_at - now, -1 once strictly past
          attempts,  \* research_jobs.attempt_count
          due,       \* next_run_at - now, 0 once reached
          results,   \* research_job_results: the claims whose result was stored
          decided,   \* jobs with a row in contact_decisions (dedupe job:<id>)
          held,      \* claims <<job, token>> a thread still has to work off
          eval       \* jobs whose stored result a thread is about to evaluate

vars == <<status, token, lease, attempts, due, results, decided, held, eval>>
jobVars == <<status, token, lease, attempts, due, results>>
threadVars == <<held, eval>>

-----------------------------------------------------------------------------
Statuses == {"absent", "pending", "running", "completed", "failed", "cancelled"}
Terminal == {"completed", "failed", "cancelled"}

(* A lease token is secrets.token_hex(16), new at every claim.  The claim's *)
(* ordinal stands for it: attempt_count grows with each claim and is never  *)
(* reset, so ordinals of one job never repeat either.                       *)
NoToken == 0
Claims == Jobs \X (1 .. MaxAttempts)

Init == /\ status = [j \in Jobs |-> "absent"]
        /\ token = [j \in Jobs |-> NoToken]
        /\ lease = [j \in Jobs |-> 0]
        /\ attempts = [j \in Jobs |-> 0]
        /\ due = [j \in Jobs |-> 0]
        /\ results = [j \in Jobs |-> {}]
        /\ decided = {}
        /\ held = [w \in Threads |-> {}]
        /\ eval = [w \in Threads |-> {}]

-----------------------------------------------------------------------------
(* Environment of the queue *)

\* EventRouter._create_job and ContactDecisionService._schedule_retry: a new
\* row is pending, due at once or after a delay.
CreateJob(j, delay) ==
    /\ status[j] = "absent"
    /\ status' = [status EXCEPT ![j] = "pending"]
    /\ due' = [due EXCEPT ![j] = delay]
    /\ UNCHANGED <<token, lease, attempts, results, decided>>
    /\ UNCHANGED threadVars

\* set_status(paused | ended): every open job of the mandate is cancelled, and
\* a running one keeps its lease so that a late result can be archived.
Open(j) == status[j] \in {"pending", "running"}

CancelJobs(m) ==
    /\ \E j \in Jobs : MandateOf[j] = m /\ Open(j)
    /\ status' = [j \in Jobs |-> IF MandateOf[j] = m /\ Open(j)
                                 THEN "cancelled" ELSE status[j]]
    /\ UNCHANGED <<token, lease, attempts, due, results, decided>>
    /\ UNCHANGED threadVars

\* One unit of time passes.
CountDown(f, floor) == [j \in Jobs |-> IF f[j] > floor THEN f[j] - 1 ELSE f[j]]

Tick ==
    /\ lease' = [j \in Jobs |-> IF token[j] # NoToken /\ lease[j] > -1
                                THEN lease[j] - 1 ELSE lease[j]]
    /\ due' = CountDown(due, 0)
    /\ UNCHANGED <<status, token, attempts, results, decided>>
    /\ UNCHANGED threadVars

-----------------------------------------------------------------------------
(* ResearchJobWorker.run_once *)

Idle(w) == held[w] = {} /\ eval[w] = {}

DueJobs == {j \in Jobs : status[j] = "pending" /\ due[j] = 0}

\* claim_jobs: at most ClaimLimit due rows.  Which rows are due longest is not
\* tracked, so any choice stands for ORDER BY next_run_at.
ClaimJobs(w) ==
    /\ Idle(w)
    /\ \E batch \in SUBSET DueJobs :
         /\ batch # {}
         /\ Cardinality(batch) <= ClaimLimit
         /\ batch = DueJobs \/ Cardinality(batch) = ClaimLimit
         /\ status' = [j \in Jobs |-> IF j \in batch THEN "running" ELSE status[j]]
         /\ attempts' = [j \in Jobs |-> IF j \in batch THEN attempts[j] + 1
                                                       ELSE attempts[j]]
         /\ token' = [j \in Jobs |-> IF j \in batch THEN attempts[j] + 1 ELSE token[j]]
         /\ lease' = [j \in Jobs |-> IF j \in batch THEN LeaseUnits ELSE lease[j]]
         /\ held' = [held EXCEPT ![w] = {<<j, attempts[j] + 1>> : j \in batch}]
    /\ UNCHANGED <<due, results, decided, eval>>

\* Mutant: any running or cancelled job accepts any token.
HoldsLease_AnyToken(j, t) == status[j] \in {"running", "cancelled"}

\* The check complete_job and fail_job share: the caller's token is the row's.
HoldsLease(j, t) == status[j] \in {"running", "cancelled"} /\ token[j] = t

\* complete_job(now = at) refuses a running job whose lease was past at `at`.
LeaseValidAt(j, at) == status[j] = "running" => lease[j] >= at

\* The two clock readings a caller passes, relative to now.  run_once reads its
\* clock once, before claiming, and passes that instant (lease_expires_at less
\* the lease) for every job of the batch; submit_result reads it afresh.
ClaimInstant(j) == lease[j] - LeaseUnits
JustNow == 0

\* Every accepted completion or failure gives the lease up.
Release(j, to) ==
    /\ status' = [status EXCEPT ![j] = to]
    /\ token' = [token EXCEPT ![j] = NoToken]
    /\ lease' = [lease EXCEPT ![j] = 0]

\* The body of an accepted complete_job: the result row, and the job completed
\* unless it was cancelled meanwhile.
Archive(j, t) ==
    /\ Release(j, IF status[j] = "running" THEN "completed" ELSE "cancelled")
    /\ results' = [results EXCEPT ![j] = @ \cup {t}]
    /\ UNCHANGED <<attempts, due>>

\* The runner returned a result: complete_job accepts it, or raises
\* LeaseExpired and run_once goes on with the next job of its batch.
CompleteJob(w, j, t) ==
    /\ <<j, t>> \in held[w] /\ eval[w] = {}
    /\ held' = [held EXCEPT ![w] = @ \ {<<j, t>>}]
    /\ \/ /\ HoldsLease(j, t) /\ LeaseValidAt(j, ClaimInstant(j))
          /\ Archive(j, t)
          /\ eval' = [eval EXCEPT ![w] = {j}]
       \/ /\ ~(HoldsLease(j, t) /\ LeaseValidAt(j, ClaimInstant(j)))
          /\ UNCHANGED <<jobVars, eval>>
    /\ UNCHANGED decided

\* The attempt budget of fail_job and of reclaim_expired_leases.
MayRetry(j) == attempts[j] < MaxAttempts

\* retry_at = at + 30 s, as seen from now.
RetryDelay(j) == IF ClaimInstant(j) + RetryUnits > 0 THEN ClaimInstant(j) + RetryUnits
                                                     ELSE 0

\* The runner raised and fail_job stands: the job is queued again while its
\* budget lasts; a cancelled job only gives its lease up.
FailJob(w, j, t) ==
    /\ <<j, t>> \in held[w] /\ eval[w] = {}
    /\ HoldsLease(j, t)
    /\ LET retry == status[j] = "running" /\ MayRetry(j)
       IN  /\ Release(j, CASE status[j] = "cancelled" -> "cancelled"
                           [] retry -> "pending"
                           [] OTHER -> "failed")
           /\ due' = IF retry THEN [due EXCEPT ![j] = RetryDelay(j)] ELSE due
    /\ held' = [held EXCEPT ![w] = @ \ {<<j, t>>}]
    /\ UNCHANGED <<attempts, results, decided, eval>>

\* fail_job raises LeaseExpired, which run_once does not catch: the rest of
\* the batch is dropped, its jobs left running.
FailJobLeaseLost(w, j, t) ==
    /\ <<j, t>> \in held[w] /\ eval[w] = {}
    /\ ~HoldsLease(j, t)
    /\ held' = [held EXCEPT ![w] = {}]
    /\ UNCHANGED <<jobVars, decided, eval>>

\* ContactDecisionService.evaluate: save_contact_decision is INSERT OR IGNORE.
Evaluate(w, j) ==
    /\ j \in eval[w]
    /\ decided' = decided \cup {j}
    /\ eval' = [eval EXCEPT ![w] = {}]
    /\ UNCHANGED <<jobVars, held>>

\* The process ends, or an exception run_once does not catch
\* (StorageUnavailable from any transaction) unwinds the thread.
Abort(w) ==
    /\ ~Idle(w)
    /\ held' = [held EXCEPT ![w] = {}]
    /\ eval' = [eval EXCEPT ![w] = {}]
    /\ UNCHANGED <<jobVars, decided>>

-----------------------------------------------------------------------------
(* worker.submit_result and RecoveryService.recover *)

\* submit_result by whoever was ever handed claim t of job j (also late, also
\* twice), with a clock read just now; a refusal raises and changes nothing.
SubmitResult(w, j, t) ==
    /\ Idle(w)
    /\ t <= attempts[j]
    /\ HoldsLease(j, t) /\ LeaseValidAt(j, JustNow)
    /\ Archive(j, t)
    /\ eval' = [eval EXCEPT ![w] = {j}]
    /\ UNCHANGED <<decided, held>>

\* Mutants: cancelled runs are reclaimed too; a lease over budget is left alone.
Expired_EvenCancelled(j) == token[j] # NoToken /\ lease[j] <= 0
Expired_WithinBudget(j) == status[j] = "running" /\ lease[j] <= 0 /\ MayRetry(j)

Expired(j) == status[j] = "running" /\ lease[j] <= 0

\* reclaim_expired_leases: all expired leases at once (its limit, 50, is not
\* reached here).
Reclaim ==
    /\ \E j \in Jobs : Expired(j)
    /\ status' = [j \in Jobs |->
                    IF ~Expired(j) THEN status[j]
                    ELSE IF MayRetry(j) THEN "pending" ELSE "failed"]
    /\ token' = [j \in Jobs |-> IF Expired(j) THEN NoToken ELSE token[j]]
    /\ lease' = [j \in Jobs |-> IF Expired(j) THEN 0 ELSE lease[j]]
    /\ due' = [j \in Jobs |-> IF Expired(j) /\ MayRetry(j) THEN RetryUnits ELSE due[j]]
    /\ UNCHANGED <<attempts, results, decided>>
    /\ UNCHANGED threadVars

-----------------------------------------------------------------------------
Work(w) ==
    \/ ClaimJobs(w)
    \/ \E c \in held[w] : \/ CompleteJob(w, c[1], c[2])
                          \/ FailJob(w, c[1], c[2])
                          \/ FailJobLeaseLost(w, c[1], c[2])
    \/ \E j \in Jobs : Evaluate(w, j)

Next ==
    \/ \E j \in Jobs, delay \in {0, RetryUnits} : CreateJob(j, delay)
    \/ \E m \in Mandates : CancelJobs(m)
    \/ Tick
    \/ \E w \in Threads : Work(w) \/ Abort(w)
    \/ \E w \in Threads, c \in Claims : SubmitResult(w, c[1], c[2])
    \/ Reclaim

Spec == Init /\ [][Next]_vars

(* The clock advances; tick() and recover() are called periodically by the  *)
(* service's caller (api.py: a separate worker calls tick on a timer;       *)
(* recovery.py: on start, after sleep and as a periodic patrol), and a      *)
(* thread inside run_once takes its next step unless it is aborted.         *)
Fairness == /\ WF_vars(Tick)
            /\ WF_vars(Reclaim)
            /\ \A w \in Threads : WF_vars(Work(w))

FairSpec == Spec /\ Fairness

-----------------------------------------------------------------------------
(* Properties *)

TypeOK == /\ status \in [Jobs -> Statuses]
          /\ token \in [Jobs -> 0 .. MaxAttempts]
          /\ lease \in [Jobs -> -1 .. LeaseUnits]
          /\ attempts \in [Jobs -> 0 .. MaxAttempts]
          /\ due \in [Jobs -> 0 .. RetryUnits]
          /\ results \in [Jobs -> SUBSET (1 .. MaxAttempts)]
          /\ decided \in SUBSET Jobs
          /\ held \in [Threads -> SUBSET Claims]
          /\ eval \in [Threads -> SUBSET Jobs]

\* However claims, reclaims, late and repeated submissions interleave, a job
\* stores at most one result, it comes from the job's latest claim, and a
\* completed job has exactly that result.
OneResultFromLatestClaim ==
    \A j \in Jobs : /\ results[j] \subseteq {attempts[j]}
                    /\ status[j] = "completed" => results[j] = {attempts[j]}

\* A job whose result is stored never runs again: no claim after the result,
\* even when the worker that produced it died before reporting anything.
NoRunAfterResult ==
    \A j \in Jobs : results[j] # {} => /\ status[j] \in {"completed", "cancelled"}
                                       /\ token[j] = NoToken

\* Two threads may work on one job at once (a reclaimed lease), but only one
\* of their claims can still change the job.
OneEffectiveHolder ==
    \A v, w \in Threads : \A j \in Jobs : \A s, t \in 1 .. MaxAttempts :
        (/\ <<j, s>> \in held[v] /\ <<j, t>> \in held[w]
         /\ HoldsLease(j, s) /\ HoldsLease(j, t)) => v = w /\ s = t

\* A contact decision is only taken on a stored result.
DecisionsRestOnResults == \A j \in decided : results[j] # {}

\* Pausing, ending, completing and giving up are final: neither a retry nor
\* recovery nor a late worker brings a settled job back.
SettledStaysSettled ==
    [][\A j \in Jobs : status[j] \in Terminal => status'[j] = status[j]]_vars

\* A job is reclaimed or requeued only while its budget lasts, so every job
\* settles: it completes, fails or is cancelled, whatever dies on the way.
EveryJobSettles ==
    \A j \in Jobs : status[j] # "absent" ~> status[j] \in Terminal

\* The queue implements its contract: forget leases, attempts, clocks and threads.
Contract == INSTANCE JobContract WITH
    phase <- [j \in Jobs |-> IF status[j] \in {"pending", "running"} THEN "open"
                             ELSE status[j]],
    archived <- {j \in Jobs : results[j] # {}}
ImplementsContract == Contract!Spec
=============================================================================
