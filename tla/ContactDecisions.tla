--------------------------- MODULE ContactDecisions ---------------------------
(***************************************************************************)
(* ContactDecisionService.evaluate: whether a research result reaches the  *)
(* user of one mandate.  evaluate is not a transaction.  It reads the      *)
(* mandate, reads and writes the condition state, reads snoozes and recent *)
(* decisions, stores its decision, and schedules a retry or dispatches, and *)
(* between any two of these other threads evaluate other results, the user *)
(* pauses, revises or snoozes, and time passes.                            *)
(*                                                                         *)
(* One condition key stands for the mandate; a policy is the parsed        *)
(* contact_policy of a revision.  How a verdict comes about (conditions.py) *)
(* and what a message says are left out.                                   *)
(***************************************************************************)
EXTENDS Integers, Sequences, FiniteSets

CONSTANTS Policies,    \* contact policies a revision may carry
          Verdicts,    \* what results say of the condition; "failed": no result
          QuietTimes,  \* instants inside the user's quiet hours
          Threads,     \* request threads that evaluate results
          MaxJobs,     \* bound: research jobs, retries included
          MaxTime,     \* bound: the clock
          MaxCommands  \* bound: revisions, pauses and snoozes together

Modes == {"condition", "periodic_check", "scheduled_delivery", "due_reminder"}
PolicyType == [mode : Modes, notifyOn : {"level", "first_entry", "transition", "reentry"},
               sustain : Nat, reentry : Nat, cooldown : Nat, merge : Nat,
               unknownRetry : Nat, maxRetries : Nat]

ASSUME ContactAssumption ==
    /\ Policies \subseteq PolicyType
    /\ QuietTimes \subseteq Nat /\ IsFiniteSet(QuietTimes)
    /\ Verdicts \subseteq {"met", "unmet", "unknown", "error", "failed"}
    /\ MaxJobs \in Nat /\ MaxTime \in Nat /\ MaxCommands \in Nat

VARIABLES now,        \* the clock
          tracking,   \* mandates.status = 'tracking' (else paused)
          policy,     \* contact policy of each revision; the last is current
          jobs,       \* research jobs, with the revision they were made for
          cond,       \* the row of condition_states
          snoozed,    \* latest notification_snoozes.until
          decisions,  \* contact_decisions by job
          records,    \* contact_records by job
          task,       \* evaluations under way
          log,        \* history: verdicts written to the condition state
          pauses      \* pauses and snoozes so far

mandateVars == <<tracking, policy, snoozed, pauses>>
vars == <<now, mandateVars, jobs, cond, decisions, records, task, log>>

-----------------------------------------------------------------------------
JobIds == 1 .. MaxJobs

NoDecision == [kind |-> "none"]
NoCond == [state |-> "none", since |-> 0, episodes |-> 0, lastMet |-> -1]
Idle == [step |-> "idle"]

\* An outcome: the decision, its reason, and the instant it is eligible at.
Outcome(kind, reason, at) == [kind |-> kind, reason |-> reason, eligible |-> at]

Init == /\ now = 0
        /\ tracking = TRUE
        /\ \E p \in Policies : policy = <<p>>
        /\ jobs = <<>>
        /\ cond = NoCond
        /\ snoozed = 0
        /\ decisions = [j \in JobIds |-> NoDecision]
        /\ records = [j \in JobIds |-> "none"]
        /\ task = [w \in Threads |-> Idle]
        /\ log = <<>>
        /\ pauses = 0

Revision == Len(policy)
MayCommand == pauses + Revision - 1 < MaxCommands
NewJob(r, retry, due) == [revision |-> r, retry |-> retry, due |-> due, state |-> "open"]

-----------------------------------------------------------------------------
(* The clock, the user and the job queue *)

Tick == /\ now < MaxTime /\ now' = now + 1
        /\ UNCHANGED <<mandateVars, jobs, cond, decisions, records, task, log>>

\* Pausing cancels open jobs; results of those that were running come in stale.
Pause ==
    /\ tracking /\ MayCommand /\ pauses' = pauses + 1
    /\ tracking' = FALSE
    /\ \E running \in SUBSET {j \in DOMAIN jobs : jobs[j].due <= now} :
         jobs' = [j \in DOMAIN jobs |->
                    IF jobs[j].state # "open" THEN jobs[j]
                    ELSE [jobs[j] EXCEPT !.state = IF j \in running THEN "stale" ELSE "done"]]
    /\ UNCHANGED <<now, policy, snoozed, cond, decisions, records, task, log>>

Resume == /\ ~tracking /\ tracking' = TRUE
          /\ UNCHANGED <<now, policy, snoozed, pauses, jobs, cond, decisions, records, task, log>>

Revise == /\ MayCommand
          /\ \E p \in Policies : policy' = Append(policy, p)
          /\ UNCHANGED <<now, tracking, snoozed, pauses, jobs, cond, decisions, records, task, log>>

\* The user defers this kind of contact until some instant to come.
Snooze(until) ==
    /\ until > now /\ until > snoozed /\ MayCommand /\ pauses' = pauses + 1
    /\ snoozed' = until
    /\ UNCHANGED <<now, tracking, policy, jobs, cond, decisions, records, task, log>>

\* The router creates a job for the current revision of a tracking mandate, due
\* from the start (0): the instant it came in is never compared again.
CreateJob == /\ tracking /\ Len(jobs) < MaxJobs
             /\ jobs' = Append(jobs, NewJob(Revision, 0, 0))
             /\ UNCHANGED <<now, mandateVars, cond, decisions, records, task, log>>

-----------------------------------------------------------------------------
(* ContactDecisionService._decide *)

Gated(p) == p.mode \in {"condition", "periodic_check"}

\* What _decide looks at before the condition: the mandate tracks, the result
\* belongs to its current revision, is not late and is a result.
Eligible(j, verdict) ==
    /\ tracking
    /\ jobs[j].revision = Revision
    /\ jobs[j].state # "stale"
    /\ verdict # "failed"

\* _evaluate_by_mode
ByMode(p, verdict, at) ==
    IF ~Gated(p) \/ verdict = "met" THEN Outcome("candidate", verdict, at)
    ELSE IF verdict = "unknown" /\ p.unknownRetry > 0
         THEN Outcome("defer", "condition_unknown", at + p.unknownRetry)
         ELSE Outcome("suppress", verdict, at)

\* Where the evaluation goes from an outcome.
After(o) == IF o.kind = "candidate" THEN "snooze" ELSE "store"

\* The result of job j is in: the mandate and its revision are read.
Begin(w, j, verdict) ==
    /\ task[w] = Idle /\ jobs[j].state \in {"open", "stale"} /\ jobs[j].due <= now
    /\ LET p == policy[Revision]
           o == IF Eligible(j, verdict) THEN ByMode(p, verdict, now)
                ELSE Outcome("suppress", "not_eligible", now)
           gated == Eligible(j, verdict) /\ Gated(p) /\ verdict \in {"met", "unmet"}
       IN  task' = [task EXCEPT ![w] =
                      [step |-> IF gated THEN "read" ELSE After(o),
                       job |-> j, at |-> now, verdict |-> verdict, policy |-> p,
                       outcome |-> o, prior |-> NoCond, seen |-> 0]]
    /\ jobs' = [jobs EXCEPT ![j].state = "done"]
    /\ UNCHANGED <<now, mandateVars, cond, decisions, records, log>>

-----------------------------------------------------------------------------
(* _apply_state_gate *)

ReadState(w) ==
    /\ task[w].step = "read"
    /\ task' = [task EXCEPT ![w].prior = cond, ![w].step = "gate"]
    /\ UNCHANGED <<now, mandateVars, jobs, cond, decisions, records, log>>

Entering(prior, verdict) == verdict = "met" /\ prior.state # "met"

\* Mutant: leaving the condition does not restart its clock.
NextCond_KeepsSince(prior, verdict, at) ==
    [state |-> verdict,
     since |-> IF prior.state = "none" THEN at ELSE prior.since,
     episodes |-> prior.episodes + (IF Entering(prior, verdict) THEN 1 ELSE 0),
     lastMet |-> IF verdict = "met" THEN at ELSE prior.lastMet]

\* The new row, from the one that was read.
NextCond(prior, verdict, at) ==
    [state |-> verdict,
     since |-> IF verdict = prior.state THEN prior.since ELSE at,
     episodes |-> prior.episodes + (IF Entering(prior, verdict) THEN 1 ELSE 0),
     lastMet |-> IF verdict = "met" THEN at ELSE prior.lastMet]

\* What notify_on holds back, once the sustain time is over.
HeldBack(p, prior, next, at) ==
    CASE p.notifyOn = "level"       -> FALSE
      [] p.notifyOn = "first_entry" -> next.episodes > 1
      [] p.notifyOn = "transition"  -> ~Entering(prior, "met")
      [] p.notifyOn = "reentry"     -> \/ ~(prior.state = "unmet" /\ prior.episodes >= 1)
                                       \/ p.reentry > 0 /\ at < prior.lastMet + p.reentry

Gate(p, prior, next, at) ==
    IF p.sustain > 0 /\ at < next.since + p.sustain
    THEN Outcome("defer", "sustain_pending", next.since + p.sustain)
    ELSE IF HeldBack(p, prior, next, at) THEN Outcome("suppress", "held_back", at)
    ELSE Outcome("candidate", "met", at)

\* ... writes the state computed from what it read, whatever is there by now.
SaveState(w) ==
    /\ task[w].step = "gate"
    /\ LET t == task[w]
           next == NextCond(t.prior, t.verdict, t.at)
           o == IF t.verdict = "met" THEN Gate(t.policy, t.prior, next, t.at)
                ELSE t.outcome
       IN  /\ cond' = next
           /\ log' = Append(log, [verdict |-> t.verdict, at |-> t.at])
           /\ task' = [task EXCEPT ![w].outcome = o, ![w].step = After(o),
                                   ![w].seen = Len(log) + 1]
    /\ UNCHANGED <<now, mandateVars, jobs, decisions, records>>

-----------------------------------------------------------------------------
(* _suppress_or_send *)

\* list_active_snoozes
CheckSnooze(w) ==
    /\ task[w].step = "snooze"
    /\ task' = [task EXCEPT
                  ![w] = IF snoozed > @.at
                         THEN [@ EXCEPT !.outcome = Outcome("suppress", "snoozed", snoozed),
                                        !.step = "store"]
                         ELSE [@ EXCEPT !.step = "recent"]]
    /\ UNCHANGED <<now, mandateVars, jobs, cond, decisions, records, log>>

\* Mutant: the window is open at its far end.
Recent_Open(since) ==
    \E j \in JobIds : decisions[j].kind \in {"send", "aggregate"} /\ decisions[j].at > since

\* find_recent_contact_decision
Recent(since) ==
    \E j \in JobIds : decisions[j].kind \in {"send", "aggregate"} /\ decisions[j].at >= since

QuietUntil(at) == CHOOSE t \in at + 1 .. at + Cardinality(QuietTimes) :
                      t \notin QuietTimes /\ at .. t - 1 \subseteq QuietTimes

\* Cooldown, merge window, quiet hours.
SendOrNot(p, at) ==
    IF Gated(p) /\ p.cooldown > 0 /\ Recent(at - p.cooldown)
    THEN Outcome("suppress", "cooldown_active", at)
    ELSE IF p.merge > 0 /\ Recent(at - p.merge)
    THEN Outcome("aggregate", "merged_with_recent", at)
    ELSE IF at \in QuietTimes
    THEN Outcome("defer", "quiet_hours", QuietUntil(at))
    ELSE Outcome("send", "met", at)

CheckRecent(w) ==
    /\ task[w].step = "recent"
    /\ task' = [task EXCEPT ![w].outcome = SendOrNot(task[w].policy, task[w].at),
                            ![w].step = "store"]
    /\ UNCHANGED <<now, mandateVars, jobs, cond, decisions, records, log>>

-----------------------------------------------------------------------------
(* evaluate, after _decide *)

\* What follows a stored decision.
Follow(o) == IF o.kind = "send" THEN "dispatch"
             ELSE IF o.reason = "condition_unknown" THEN "retry" ELSE "idle"

\* save_contact_decision: one row per job.
Store(w) ==
    /\ task[w].step = "store"
    /\ LET t == task[w]
       IN  /\ decisions' = [decisions EXCEPT ![t.job] =
                              [kind |-> t.outcome.kind, reason |-> t.outcome.reason,
                               eligible |-> t.outcome.eligible, at |-> t.at,
                               policy |-> t.policy, seen |-> t.seen]]
           /\ task' = [task EXCEPT ![w] = IF Follow(t.outcome) = "idle" THEN Idle
                                          ELSE [t EXCEPT !.step = Follow(t.outcome)]]
    /\ UNCHANGED <<now, mandateVars, jobs, cond, records, log>>

\* _schedule_retry, up to max_retries in a row.
ScheduleRetry(w) ==
    /\ task[w].step = "retry"
    /\ LET t == task[w]
           index == jobs[t.job].retry + 1
       IN  IF index > t.policy.maxRetries THEN UNCHANGED jobs
           ELSE /\ Len(jobs) < MaxJobs
                /\ jobs' = Append(jobs, NewJob(jobs[t.job].revision, index,
                                               t.outcome.eligible))
    /\ task' = [task EXCEPT ![w] = Idle]
    /\ UNCHANGED <<now, mandateVars, cond, decisions, records, log>>

\* _dispatch: the notification centre took the message, or it raised.
Dispatch(w) ==
    /\ task[w].step = "dispatch"
    /\ \E r \in {"sent", "failed"} : records' = [records EXCEPT ![task[w].job] = r]
    /\ task' = [task EXCEPT ![w] = Idle]
    /\ UNCHANGED <<now, mandateVars, jobs, cond, decisions, log>>

\* The process ends, or StorageUnavailable unwinds the thread.
Abort(w) ==
    /\ task[w] # Idle
    /\ task' = [task EXCEPT ![w] = Idle]
    /\ UNCHANGED <<now, mandateVars, jobs, cond, decisions, records, log>>

Evaluate(w) ==
    \/ \E j \in DOMAIN jobs, verdict \in Verdicts : Begin(w, j, verdict)
    \/ ReadState(w) \/ SaveState(w) \/ CheckSnooze(w) \/ CheckRecent(w)
    \/ Store(w) \/ ScheduleRetry(w) \/ Dispatch(w)

Next == \/ Tick \/ Pause \/ Resume \/ Revise \/ CreateJob
        \/ \E until \in 1 .. MaxTime : Snooze(until)
        \/ \E w \in Threads : Evaluate(w) \/ Abort(w)

Spec == Init /\ [][Next]_vars

-----------------------------------------------------------------------------
(* Properties *)

\* Type invariant; only sends are dispatched.
ContactTypeOK ==
    /\ now \in 0 .. MaxTime /\ snoozed \in 0 .. MaxTime
    /\ Len(jobs) <= MaxJobs
    /\ \A j \in DOMAIN jobs : /\ jobs[j].state \in {"open", "stale", "done"}
                              /\ jobs[j].revision \in DOMAIN policy
    /\ cond.episodes \in 0 .. Len(log) /\ cond.lastMet \in -1 .. now
    /\ \A j \in JobIds : records[j] # "none" => decisions[j].kind = "send"

\* What notify_on and sustain promise, told from the whole history h of
\* verdicts up to the i-th: the reference the one-row condition state stands for.
MetFrom(h, k, i) == \A x \in k .. i : h[x].verdict = "met"
Sustained(h, p, i) == \E k \in 1 .. i : MetFrom(h, k, i) /\ h[k].at + p.sustain <= h[i].at
LeftBefore(h, i) == i > 1 /\ h[i - 1].verdict = "unmet"
LastMetBefore(h, i) == {k \in 1 .. i - 1 : /\ h[k].verdict = "met"
                                           /\ \A x \in k + 1 .. i - 1 : h[x].verdict = "unmet"}
Due(h, p, i) ==
    /\ h[i].verdict = "met" /\ Sustained(h, p, i)
    /\ CASE p.notifyOn = "level" -> TRUE
         [] p.notifyOn = "transition" -> i = 1 \/ LeftBefore(h, i)
         [] p.notifyOn = "first_entry" ->
              ~\E k \in 1 .. i - 1 : h[k].verdict = "met" /\ ~MetFrom(h, k, i)
         [] p.notifyOn = "reentry" ->
              LeftBefore(h, i) /\ \E k \in LastMetBefore(h, i) : h[i].at >= h[k].at + p.reentry

\* The condition state decides as the full history would: a result passes the
\* gate exactly when its policy says so of all verdicts before it, across
\* revisions, pauses, unknown verdicts and aborted evaluations.
GateAgreesWithHistory ==
    \A j \in JobIds : LET d == decisions[j]
                      IN  d.kind # "none" /\ d.seen > 0
                            => (d.reason \notin {"sustain_pending", "held_back", "unmet"}
                                  <=> Due(log, d.policy, d.seen))

\* "The same mandate and condition is not sent again within the cooldown",
\* whatever revision changed the policy in between; and the types.
CoolsDown(p) == Gated(p) /\ p.cooldown > 0
CooldownKept ==
    /\ ContactTypeOK
    /\ \A i, j \in JobIds :
          /\ i # j /\ decisions[i].kind = "send" /\ decisions[j].kind = "send"
          /\ CoolsDown(decisions[j].policy)
          /\ \/ decisions[i].at < decisions[j].at
             \/ decisions[i].at = decisions[j].at /\ CoolsDown(decisions[i].policy)
          => decisions[i].at + decisions[j].policy.cooldown < decisions[j].at

=============================================================================
