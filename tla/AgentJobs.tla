------------------------------- MODULE AgentJobs ------------------------------
(***************************************************************************)
(* jobs-local/index.ts and tool-jobs/index.ts on top of AgentDriver: the   *)
(* background jobs of one agent, started, awaited, read and killed by the  *)
(* tools of its steps, ended by their producers at any time, announced to  *)
(* the agent as messages that may wake it, and torn down with it.          *)
(***************************************************************************)
EXTENDS AgentDriver

CONSTANTS Job,         \* jobs; the notice of job j is the message j
          MaxActive,   \* maxConcurrentJobsPerOwner
          MaxWakes     \* maxConsecutiveWakes

ASSUME JobsAssumption ==
    Msg = UserMsg \cup Job /\ UserMsg \cap Job = {} /\ {MaxActive, MaxWakes} \subseteq Nat

VARIABLES status,    \* job -> status; done is any terminal one, removed: dropped
          alive,     \* jobs whose producer has yet to settle
          reported,  \* jobs whose end needs no notice
          wait,      \* job -> the job_output call that waits for it
          spent,     \* spentWakes
          orphans,   \* jobs whose cancel threw in teardown
          life,      \* of the agent: live, cancelled, unwinding, teardown, gone
          known      \* history: jobs whose end a tool's answer has told,
                     \*   or that were stopped by job_kill or by teardown

jobVars == <<status, alive, reported, wait, spent, orphans, life, known>>
vars == <<agentVars, jobVars>>

Init ==
    /\ AgentInit
    /\ status = [j \in Job |-> "none"] /\ alive = {} /\ reported = {} /\ orphans = {}
    /\ wait = [j \in Job |-> "none"] /\ spent = 0 /\ life = "live" /\ known = {}

Active == {j \in Job : status[j] \in {"running", "stopping"}}

\* agent/inbox/claimed: a person's words restore the budget.
Budget(left) == spent' = IF Range(batch') \cap UserMsg \subseteq Range(batch) THEN left ELSE 0

-----------------------------------------------------------------------------
(* The driver's steps with the tools of its steps *)

\* A step ends once every tool has answered.
DriverStep == /\ Drive /\ (pc = "step" => \A j \in Job : wait[j] = "none")
              /\ Budget(spent) /\ UNCHANGED <<status, alive, reported, wait, orphans, life, known>>

\* What people do with the agent.
Person == /\ life = "live" /\ (Speak \/ EditQueue \/ BeginMaintenance)
          /\ Budget(spent) /\ UNCHANGED <<status, alive, reported, wait, orphans, life, known>>

\* The abort of a step reaches the calls that wait in it synchronously.
AbortWaits == wait' = [j \in Job |-> IF wait[j] = "waiting" THEN "rejected" ELSE wait[j]]

PersonCancels == /\ life = "live" /\ UserCancel /\ AbortWaits
                 /\ UNCHANGED <<status, alive, reported, spent, orphans, life, known>>

\* start, under a new id: ensureOwnerCleanup refuses an agent whose cleanup
\* has begun.
Unstarted == {j \in Job : status[j] = "none"}
StartJob(j) ==
    /\ pc = "step" /\ life \in {"live", "cancelled", "unwinding"}
    /\ j \in Unstarted /\ j = (CHOOSE k \in Unstarted : TRUE)
    /\ Cardinality(Active) < MaxActive
    /\ status' = [status EXCEPT ![j] = "running"] /\ alive' = alive \cup {j}
    /\ UNCHANGED <<agentVars, reported, wait, spent, orphans, life, known>>

\* kill: the producer's cancel comes first, and may throw.
Kill(j) ==
    /\ pc = "step" /\ j \in Active
    /\ \E threw \in BOOLEAN :
         IF threw THEN UNCHANGED <<status, reported, known>>
         ELSE /\ status' = [status EXCEPT ![j] = "stopping"]
              /\ reported' = reported \cup {j} /\ known' = known \cup {j}
    /\ UNCHANGED <<agentVars, alive, wait, spent, orphans, life>>

\* read, and kill of a job that has ended.
Read(j) ==
    /\ pc = "step" /\ status[j] = "done"
    /\ reported' = reported \cup {j} /\ known' = known \cup {j}
    /\ UNCHANGED <<agentVars, status, alive, wait, spent, orphans, life>>

Wait(j) ==
    /\ pc = "step" /\ abort = "none" /\ j \in Active /\ wait[j] = "none"
    /\ wait' = [wait EXCEPT ![j] = "waiting"]
    /\ UNCHANGED <<agentVars, status, alive, reported, spent, orphans, life, known>>

Expire(j) ==
    /\ wait[j] = "waiting" /\ wait' = [wait EXCEPT ![j] = "resolved"]
    /\ UNCHANGED <<agentVars, status, alive, reported, spent, orphans, life, known>>

\* The awaiting call goes on: wait returns, and read follows it at once.
Return(j) ==
    /\ wait[j] \in {"resolved", "rejected"} /\ wait' = [wait EXCEPT ![j] = "none"]
    /\ IF wait[j] = "resolved" /\ status[j] = "done"
       THEN reported' = reported \cup {j} /\ known' = known \cup {j}
       ELSE UNCHANGED <<reported, known>>
    /\ UNCHANGED <<agentVars, status, alive, spent, orphans, life>>

-----------------------------------------------------------------------------
(* The end of a job *)

Counted_UntilReturn == {"waiting", "resolved", "rejected"}

\* A waiter counts until it is uncounted: by its abort, or when it returns.
Counted == {"waiting", "resolved"}

\* tool-jobs' listener: an idle owner with budget is woken, another injected.
Announce(j) ==
    IF Status = "idle" /\ spent < MaxWakes
    THEN Followup(j) /\ Budget(spent + 1)
    ELSE Inject(j) /\ Budget(spent)

\* settle, of one job: the first outcome wins; waiters take the report, and
\* the listener is told last.
Settle(j) ==
    LET quietly == j \in reported \/ wait[j] \in Counted
    IN /\ status' = [status EXCEPT ![j] = "done"]
       /\ reported' = IF quietly THEN reported \cup {j} ELSE reported
       /\ wait' = [wait EXCEPT ![j] = IF @ = "waiting" THEN "resolved" ELSE @]
       /\ IF quietly THEN UNCHANGED <<agentVars, spent>> ELSE Announce(j)

\* The producer's promise settles.
Produce(j) ==
    /\ j \in alive /\ alive' = alive \ {j}
    /\ IF j \in Active THEN Settle(j)
       ELSE UNCHANGED <<agentVars, status, reported, wait, spent>>
    /\ UNCHANGED <<orphans, life, known>>

-----------------------------------------------------------------------------
(* The end of the agent *)

Dispose == /\ life = "live" /\ life' = "cancelled" /\ Cancel("disposed", FALSE) /\ AbortWaits
           /\ UNCHANGED <<events, status, alive, reported, spent, orphans, known>>

\* whenIdle has resolved; the scope unwinds.
Quiesce == /\ life = "cancelled" /\ phase = "idle" /\ life' = "unwinding"
           /\ UNCHANGED <<agentVars, status, alive, reported, wait, spent, orphans, known>>

ForceFail_Contained(throwing, claimed) ==
    /\ status' = [j \in Job |-> IF j \in Active \ throwing THEN "stopping" ELSE status[j]]
    /\ reported' = claimed /\ UNCHANGED <<agentVars, wait, spent>>

ForceFail_CancelFirst(throwing, claimed) ==
    /\ status' = [j \in Job |-> IF j \notin Active THEN status[j]
                                ELSE IF j \in throwing THEN "done" ELSE "stopping"]
    /\ reported' = claimed \ throwing
    /\ wait' = [j \in Job |-> IF j \in throwing /\ wait[j] = "waiting" THEN "resolved" ELSE wait[j]]
    /\ IF throwing = {} THEN UNCHANGED <<agentVars, spent>>
       ELSE \E j \in throwing : Announce(j)

\* cancelForTeardown: every live job is claimed, then cancelled; one whose
\* cancel throws is settled as failed there and then.
ForceFail(throwing, claimed) ==
    /\ status' = [j \in Job |-> IF j \notin Active THEN status[j]
                                ELSE IF j \in throwing THEN "done" ELSE "stopping"]
    /\ reported' = claimed
    /\ wait' = [j \in Job |-> IF j \in throwing /\ wait[j] = "waiting" THEN "resolved" ELSE wait[j]]
    /\ UNCHANGED <<agentVars, spent>>

Teardown == /\ life = "unwinding" /\ life' = "teardown"
            /\ \E throwing \in SUBSET Active : /\ ForceFail(throwing, reported \cup Active)
                                              /\ orphans' = throwing
            /\ known' = known \cup Active /\ UNCHANGED alive

\* disposeOwned goes on when every record is terminal.
DropJobs == /\ life = "teardown" /\ Active = {} /\ life' = "gone"
            /\ status' = [j \in Job |-> IF status[j] = "done" THEN "removed" ELSE status[j]]
            /\ UNCHANGED <<agentVars, alive, reported, wait, spent, orphans, known>>

-----------------------------------------------------------------------------
Tools == \E j \in Job : StartJob(j) \/ Kill(j) \/ Read(j) \/ Wait(j)
Answers == \E j \in Job : Expire(j) \/ Return(j)
Ends == \E j \in Job : Produce(j)
Disposal == Quiesce \/ Teardown \/ DropJobs

Next == DriverStep \/ Person \/ PersonCancels \/ Tools \/ Answers \/ Ends \/ Dispose \/ Disposal

Spec == Init /\ [][Next]_vars

\* Timers fire, promises are resumed, models and tools answer, and a producer
\* settles in the end, unless its cancel threw: that work may be orphaned.
FairSpec == /\ Spec
            /\ WF_vars(DriverStep) /\ WF_vars(Answers) /\ WF_vars(Disposal)
            /\ \A j \in Job : WF_vars(j \notin orphans /\ Produce(j))

-----------------------------------------------------------------------------
(* Properties *)

\* Type invariant of the jobs; that of the driver is in EachMessageOnce.
TypeOK ==
    /\ status \in [Job -> {"none", "running", "stopping", "done", "removed"}]
    /\ wait \in [Job -> {"none", "waiting", "resolved", "rejected"}]
    /\ UNION {alive, reported, orphans, known} \subseteq Job /\ Active \subseteq alive
    /\ spent \in 0..MaxWakes /\ life \in {"live", "cancelled", "unwinding", "teardown", "gone"}

\* While a record is kept, the end of the job is announced, or the answer of
\* a tool tells it: the report is not left to a waiter that was aborted, nor
\* to a killer whose cancel failed.
EndIsTold ==
    \A j \in Job : status[j] = "done" => j \in sent \cup known \/ wait[j] = "resolved"

\* A notice is for what nobody knows: a job's end that a call is waiting for,
\* or that was asked for, is not announced.
NoNoticeForTheKnown ==
    \A j \in Job : j \in sent' \ sent => j \notin known /\ wait[j] \notin {"waiting", "resolved"}

\* The end of every job is told, by a notice or by a tool's answer, and not
\* by both.
ToldOnce == [](TypeOK /\ EndIsTold) /\ [][NoNoticeForTheKnown]_vars

\* Teardown is silent: it opens no turn and leaves no notice on the agent.
TeardownIsSilent ==
    [][life' \in {"teardown", "gone"} => sent' = sent /\ (pc = "off" => pc' = "off")]_vars

\* Disposal comes to its end: no job, wait or turn holds it for ever.
DisposalEnds == (life = "cancelled") ~> (life = "gone")
=============================================================================
