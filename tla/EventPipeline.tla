---------------------------- MODULE EventPipeline ----------------------------
(***************************************************************************)
(* From a mandate's outbox to research jobs: OutboxPublisher.publish moves *)
(* event_outbox rows into the inbox, ingest_event puts outside events      *)
(* there, EventRouter.route turns inbox rows into research_jobs rows, and  *)
(* RecoveryService.recover puts back what was left behind.  Any number of  *)
(* request threads do this at once (POST /partners/tick), while commands   *)
(* change the mandates.                                                    *)
(*                                                                         *)
(* Each store call is a transaction and an action; what a thread read in   *)
(* one is what it acts on in the next.                                     *)
(***************************************************************************)
EXTENDS Mandates

CONSTANTS Outside,    \* events that producers like market-watch ingest
          Threads,    \* request threads inside publish() or route()
          Limit,      \* rows claimed at once: outbox_limit 50, inbox_limit 100
          MaxTries,   \* retry_failed_outbox gives up at this many attempts, 5
          MaxFaults   \* bound: exceptions and crashes

\* Outside events have ids of their own.
ASSUME PipelineAssumption == /\ Outside \cap (1 .. MaxEvents) = {}
                             /\ Limit \in Nat \ {0}
                             /\ MaxTries \in Nat \ {0}
                             /\ MaxFaults \in Nat

VARIABLES row,     \* delivery state of each event_outbox row
          inbox,   \* event_inbox.status of each event ("none": never recorded)
          task,    \* what each thread is doing
          owed,    \* history: mandates that watch ever since an event came in
          faults   \* faults so far

pipeVars == <<row, inbox, task, owed, faults>>
vars == <<mandateVars, pipeVars>>

-----------------------------------------------------------------------------
(* The id of a mandate event is its place in the outbox. *)
Rows == 1 .. MaxEvents
EventIds == Rows \cup Outside
InboxStatuses == {"none", "pending", "processing", "processed", "failed"}

NoRow == [st |-> "none", tries |-> 0]
NewRow == [st |-> "pending", tries |-> 0]

Idle == [kind |-> "idle"]
Publishing(todo) == [kind |-> "publish", todo |-> todo, recorded |-> {}]
Routing(todo) == [kind |-> "route", todo |-> todo]
Looking(todo, e, plan) == [kind |-> "look", todo |-> todo, event |-> e, plan |-> plan]
Opening(todo, e, plan) == [kind |-> "open", todo |-> todo, event |-> e, plan |-> plan]

PInit == /\ Init
         /\ row = [i \in Rows |-> NoRow]
         /\ inbox = [e \in EventIds |-> "none"]
         /\ task = [w \in Threads |-> Idle]
         /\ owed = [e \in Outside |-> {}]
         /\ faults = 0

Pending == {e \in EventIds : inbox[e] = "pending"}
Watches(m) == status[m] = "tracking" /\ deps[m] # {}

-----------------------------------------------------------------------------
(* Commands: a mandate action, the rows it adds to the outbox, and who still *)
(* watches afterwards.                                                       *)
Command(m) ==
    \/ \E needs \in SUBSET Fresh, watch \in BOOLEAN :
          \/ Create(m, needs, watch, FALSE)
          \/ Revise(m, revision[m], needs, watch, FALSE)
    \/ \E target \in {"tracking", "paused", "ended"} :
          ApplyStatus(m, revision[m], target)
    \/ \E q \in Requirements : ResolveRequirement(m, q)

CommandStep(m) ==
    /\ Command(m)
    /\ row' = [i \in Rows |-> IF i \in Len(outbox) + 1 .. Len(outbox')
                              THEN NewRow ELSE row[i]]
    /\ owed' = [e \in Outside |-> IF Watches(m)' THEN owed[e] ELSE owed[e] \ {m}]
    /\ UNCHANGED <<inbox, task, faults>>

\* A job ends, as JobContract allows; its row stays.
SettleJob(j) ==
    /\ j.state = "open"
    /\ jobs' = (jobs \ {j}) \cup {[j EXCEPT !.state = "settled"]}
    /\ UNCHANGED <<status, revision, reqs, deps, scheds, outbox, pipeVars>>

\* ingest_event: record_event of an event nobody recorded yet.
Ingest(e) ==
    /\ inbox[e] = "none"
    /\ inbox' = [inbox EXCEPT ![e] = "pending"]
    /\ owed' = [owed EXCEPT ![e] = {m \in MandateIds : Watches(m)}]
    /\ UNCHANGED <<mandateVars, row, task, faults>>

-----------------------------------------------------------------------------
(* OutboxPublisher.publish *)

InState(st) == {i \in Rows : row[i].st = st}

\* claim_outbox: Limit of the pending rows and of those rows being sent whose
\* 60 s are up; attempts are only ever compared with MaxTries.
ClaimOutbox(w, batch) ==
    /\ task[w] = Idle
    /\ batch # {} /\ batch \subseteq InState("pending") \cup InState("sending")
    /\ Cardinality(batch) <= Limit
    /\ InState("pending") \subseteq batch \/ Cardinality(batch) = Limit
    /\ row' = [i \in Rows |->
                 IF i \in batch
                 THEN [st |-> "sending",
                       tries |-> IF row[i].tries < MaxTries THEN row[i].tries + 1
                                                            ELSE MaxTries]
                 ELSE row[i]]
    /\ task' = [task EXCEPT ![w] = Publishing(batch)]
    /\ UNCHANGED <<mandateVars, inbox, owed, faults>>

\* record_event: a known event id changes nothing.
Recorded(i) == [inbox EXCEPT ![i] = IF @ = "none" THEN "pending" ELSE @]

\* One message at a time: record_event ...
RecordMessage(w, i) ==
    /\ task[w].kind = "publish" /\ task[w].recorded = {} /\ i \in task[w].todo
    /\ inbox' = Recorded(i)
    /\ task' = [task EXCEPT ![w].recorded = {i}]
    /\ UNCHANGED <<mandateVars, row, owed, faults>>

\* Mutant: a message is marked before it is recorded.
MayPublish_First(w, i) == TRUE

\* Recording is done before the row is marked.
MayPublish(w, i) == i \in task[w].recorded

\* ... then mark_outbox, whatever the row says by now: published, or failed
\* when recording raised.
MarkOutbox(w, i) ==
    /\ task[w].kind = "publish" /\ i \in task[w].todo
    /\ \/ /\ MayPublish(w, i)
          /\ row' = [row EXCEPT ![i].st = "published"]
          /\ UNCHANGED faults
       \/ /\ task[w].recorded = {}
          /\ faults < MaxFaults /\ faults' = faults + 1
          /\ row' = [row EXCEPT ![i].st = "failed"]
    /\ task' = [task EXCEPT ![w] = IF task[w].todo = {i} THEN Idle
                                   ELSE Publishing(task[w].todo \ {i})]
    /\ UNCHANGED <<mandateVars, inbox, owed>>

-----------------------------------------------------------------------------
(* EventRouter.route *)

\* claim_inbox; which events wait longest is not tracked.
ClaimInbox(w, batch) ==
    /\ task[w] = Idle
    /\ batch # {} /\ batch \subseteq Pending
    /\ batch = Pending \/ Cardinality(batch) = Limit
    /\ Cardinality(batch) <= Limit
    /\ inbox' = [e \in EventIds |-> IF e \in batch THEN "processing" ELSE inbox[e]]
    /\ task' = [task EXCEPT ![w] = Routing(batch)]
    /\ UNCHANGED <<mandateVars, row, owed, faults>>

\* Mutant: the deduplication key of a job forgets the event.
JobKey_NoEvent(kind, e, m, r) == <<kind, m, r>>

\* Deduplication keys: baseline:<mandate>:<revision>, job:<event>:<mandate>:<revision>.
JobKey(kind, e, m, r) == IF kind = "baseline" THEN <<kind, m, r>> ELSE <<kind, e, m, r>>

BaselineHooks == {"mandate.created", "mandate.requirements_completed"}

\* What _create_baseline_job finds to do for event e: the mandate is tracking
\* now, the revision is the event's.
BaselinePlan(e) ==
    IF e \in Rows /\ outbox[e].hook \in BaselineHooks /\ status[outbox[e].mandate] = "tracking"
    THEN {[kind |-> "baseline", mandate |-> outbox[e].mandate,
           revision |-> outbox[e].revision]}
    ELSE {}

\* find_active_dependencies: active rows of tracking mandates.
ReviewPlan(e) ==
    {[kind |-> "job", mandate |-> p[1], revision |-> p[2]] :
        p \in {p \in MandateIds \X Revisions :
                 e \in Outside /\ status[p[1]] = "tracking" /\ p[2] \in deps[p[1]]}}

\* _route_one reads the mandate of a baseline event ...
LookAtEvent(w, e) ==
    /\ task[w].kind = "route" /\ e \in task[w].todo
    /\ task' = [task EXCEPT ![w] = Looking(task[w].todo, e, BaselinePlan(e))]
    /\ UNCHANGED <<mandateVars, row, inbox, owed, faults>>

\* ... after the baseline job is created it looks for dependencies ...
MatchEvent(w) ==
    /\ task[w].kind = "look" /\ task[w].plan = {}
    /\ LET e == task[w].event
       IN  task' = [task EXCEPT ![w] = Opening(task[w].todo, e, ReviewPlan(e))]
    /\ UNCHANGED <<mandateVars, row, inbox, owed, faults>>

\* Mutant: INSERT OR REPLACE.
Insert_Replace(key, p) ==
    {j \in jobs : j.key # key}
      \cup {[key |-> key, mandate |-> p.mandate, revision |-> p.revision, state |-> "open"]}

\* create_job: the UNIQUE deduplication key makes a second insert a Conflict,
\* which the router ignores.
Insert(key, p) ==
    IF \E j \in jobs : j.key = key THEN jobs
    ELSE jobs \cup {[key |-> key, mandate |-> p.mandate, revision |-> p.revision,
                     state |-> "open"]}

CreateJob(w, p) ==
    /\ task[w].kind \in {"look", "open"} /\ p \in task[w].plan
    /\ jobs' = Insert(JobKey(p.kind, task[w].event, p.mandate, p.revision), p)
    /\ task' = [task EXCEPT ![w].plan = @ \ {p}]
    /\ UNCHANGED <<status, revision, reqs, deps, scheds, outbox>>
    /\ UNCHANGED <<row, inbox, owed, faults>>

\* ... and marks the event, whatever its row says by now: processed, or failed
\* when anything raised.
MarkInbox(w) ==
    /\ task[w].kind \in {"look", "open"}
    /\ \/ /\ task[w].kind = "open" /\ task[w].plan = {}
          /\ inbox' = [inbox EXCEPT ![task[w].event] = "processed"]
          /\ UNCHANGED faults
       \/ /\ faults < MaxFaults /\ faults' = faults + 1
          /\ inbox' = [inbox EXCEPT ![task[w].event] = "failed"]
    /\ task' = [task EXCEPT ![w] = IF task[w].todo = {task[w].event} THEN Idle
                                   ELSE Routing(task[w].todo \ {task[w].event})]
    /\ UNCHANGED <<mandateVars, row, owed>>

\* The process ends, or a claim or a mark raises: the thread is gone and what
\* it claimed stays sending or processing.
Crash(w) ==
    /\ task[w] # Idle
    /\ faults < MaxFaults /\ faults' = faults + 1
    /\ task' = [task EXCEPT ![w] = Idle]
    /\ UNCHANGED <<mandateVars, row, inbox, owed>>

-----------------------------------------------------------------------------
(* RecoveryService.recover *)

\* requeue_abandoned_inbox: rows in processing whose event was received 300 s
\* ago or earlier.  Receipt, not the claim, dates them, so that any of them may
\* be old enough at any time.
Requeue(batch) ==
    /\ batch # {} /\ \A e \in batch : inbox[e] = "processing"
    /\ inbox' = [e \in EventIds |-> IF e \in batch THEN "pending" ELSE inbox[e]]
    /\ UNCHANGED <<mandateVars, row, task, owed, faults>>

\* Mutant: a row is given up one attempt too early.
Retriable_OffByOne(i) == row[i].st = "failed" /\ row[i].tries + 1 < MaxTries

\* retry_failed_outbox
Retriable(i) == row[i].st = "failed" /\ row[i].tries < MaxTries

RetryOutbox ==
    /\ \E i \in Rows : Retriable(i)
    /\ row' = [i \in Rows |-> IF Retriable(i)
                              THEN [row[i] EXCEPT !.st = "pending"]
                              ELSE row[i]]
    /\ UNCHANGED <<mandateVars, inbox, task, owed, faults>>

-----------------------------------------------------------------------------
Publish(w) == \/ \E batch \in SUBSET (InState("pending") \cup InState("sending")) : ClaimOutbox(w, batch)
              \/ \E i \in Rows : RecordMessage(w, i) \/ MarkOutbox(w, i)

Route(w) == \/ \E batch \in SUBSET Pending : ClaimInbox(w, batch)
            \/ \E e \in EventIds : LookAtEvent(w, e)
            \/ MatchEvent(w) \/ MarkInbox(w)
            \/ task[w].kind \in {"look", "open"} /\ \E p \in task[w].plan : CreateJob(w, p)

Next == \/ \E m \in MandateIds : CommandStep(m)
        \/ \E j \in jobs : SettleJob(j)
        \/ \E e \in Outside : Ingest(e)
        \/ \E w \in Threads : Publish(w) \/ Route(w) \/ Crash(w)
        \/ \E batch \in SUBSET EventIds : Requeue(batch)
        \/ RetryOutbox

Spec == PInit /\ [][Next]_vars

(* recover() patrols and time passes, so that what stays behind is put back *)
(* some day; tick() is called again and again, and a thread in it proceeds  *)
(* unless it crashes.                                                       *)
FairSpec ==
    /\ Spec
    /\ WF_vars(RetryOutbox)
    /\ \A e \in EventIds : SF_vars(\E batch \in SUBSET EventIds : e \in batch /\ Requeue(batch))
    /\ \A i \in Rows, w \in Threads :
          SF_vars(\E batch \in SUBSET Rows : i \in batch /\ ClaimOutbox(w, batch))
    /\ \A e \in EventIds, w \in Threads :
          SF_vars(\E batch \in SUBSET Pending : e \in batch /\ ClaimInbox(w, batch))
    /\ \A w \in Threads : SF_vars(Publish(w)) /\ SF_vars(Route(w))

-----------------------------------------------------------------------------
(* Properties *)

\* Type invariant; a published row has its event in the inbox, whichever of
\* several publishers marked it and whatever crashed between recording and
\* marking.
PipelineTypeOK ==
    /\ TypeOK
    /\ row \in [Rows -> [st : {"none", "pending", "sending", "published", "failed"},
                         tries : 0 .. MaxTries]]
    /\ inbox \in [EventIds -> InboxStatuses]
    /\ owed \in [Outside -> SUBSET MandateIds]
    /\ faults \in 0 .. MaxFaults
    /\ \A i \in Rows : row[i].st = "published" => inbox[i] # "none"

\* Routing an event again, by a second thread or after a crash, adds no job,
\* one row per deduplication key, and revives none: a job that was cancelled
\* or settled stays so.
EachJobOnce ==
    /\ [](\A j, k \in jobs : j.key = k.key => j = k)
    /\ [][\A j \in jobs : j.state # "open" => j \in jobs']_vars

\* No event is lost between revisions: a mandate that watched from the receipt
\* of an event until it was processed, through revisions and all, has a job
\* for it.
WatchersAreServed ==
    \A e \in Outside : inbox[e] = "processed" =>
        \A m \in owed[e] : \E j \in jobs : j.key[1] = "job" /\ j.key[2] = e /\ j.mandate = m

\* Every mandate event gets out and is dealt with: processed, or failed where
\* an operator can see it.
EveryEventSettles ==
    \A i \in Rows : row[i].st # "none" ~>
        inbox[i] \in {"processed", "failed"} \/ (row[i].st = "failed" /\ row[i].tries = MaxTries)
=============================================================================
