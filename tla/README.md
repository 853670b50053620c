# The research platform in TLA+

TLA+ modules, TLC models and TLAPS proofs for the parts of this repository that
keep state across failures, threads, promises or processes:

- the mandate core `src/backend/dsh-trading-core/research_partner` (Python): the
  user's research mandates, the events and dates that become research jobs, and
  the decision to contact the user;
- backup, import and reset over several backends
  (`src/frontend/packages/investment-research/python-runtime/src/backup-service.ts`
  with the `data_transfer.py` of each backend), and the leases on the backend
  processes (`runtime.ts` of the same package);
- the agent harness's core (`src/frontend/packages/core/agent-loop`,
  `core/agent`, `jobs/jobs-local`, `jobs/tool-jobs`): the tool calls of a step,
  the agent's driver and inbox, and its background jobs.

The rest is listed in `PROJECT.json` with the reason why it is left for later or
left out; `PROJECT.json` also maps every definition to the lines it models.

## 1. Inventory

**The mandate core** is a FastAPI process over one SQLite file. Every store
method of `adapters/sqlite_store.py` is one `BEGIN IMMEDIATE` transaction;
everything above the store is Python code between transactions. Nothing runs on
its own: `POST /partners/tick` runs `pipeline.tick` in a request thread (schedules,
publish, route, worker; a separate worker calls it on a timer) and
`POST /runtime/recovered` runs the recovery, so that any number of ticks,
recoveries, commands and result submissions overlap. A thread acts in one
transaction on what it read in an earlier one, and the process may end between
any two.

**Backup, import and reset.** The user's data live in several backend
processes, each with its own files. The host drives a transaction over them:
a coordinator file, prepare and commit at each backend, the decision, finalize,
or rollback. Each backend keeps a journal and a reservation and replaces one
file at a time. Host and backends die between any two replacements; each start
of a backend, and each later call of the host, recovers what it finds.

**The backend manager and the harness** are TypeScript on one event loop: between
two awaits nothing interleaves, at an await everything may. Cancellations,
process exits, registrations, messages and failures come in there.

| component | state | operations | hard because |
|---|---|---|---|
| mandates (`service.py`, `commands.py`) | `mandates`, `mandate_requirements`, `tracking_dependencies`, `mandate_schedules`, `event_outbox`, `command_idempotency` | create, revise, pause, resume, end, resolve requirement | three places derive the status from requirements of several revisions; clients repeat commands |
| event pipeline (`publisher.py`, `router.py`, `recovery.py`, `pipeline.py`, `dependencies.py`) | `event_outbox`, `event_inbox`, jobs inserted | claim, record, mark; ingest; claim, match, create jobs, mark; requeue, retry | overlapping publishers and routers, at-least-once steps, mandates that change meanwhile |
| research jobs (`worker.py`, `recovery.py`, store) | `research_jobs`, `research_job_results` | create, claim, complete, fail, archive late, cancel, reclaim | leases, tokens, late and repeated submissions, exhausted budgets |
| contact decisions (`contact.py`, `contact_policy.py`, `dispatcher.py`) | `condition_states`, `contact_decisions`, `contact_records`, `notification_snoozes` | evaluate (a chain of transactions), retry, snooze | the one-row condition state stands for the whole history; steps interleave with the user |
| schedules (`schedules.py`, `calendar.py`) | `mandate_schedules`, `schedule.due` events | list due rows, emit or skip instances, advance; replace by a revision | scans lag, overlap and stop halfway; backlog longer than one scan |
| single-instance lock (`runtime.py` of the service) | one lock file | acquire, take over, release | file operations of several processes; stale and half-written files; reused pids |
| import and reset (`backup-service.ts`, `index.ts`, both `data_transfer.py`) | coordinator files; journals, reservations and documents of each backend | preview, prepare, commit, finalize, rollback, recovery of host and backend | every file replacement can be the last; answers get lost; data change after the preview |
| backend leases (`runtime.ts`) | active entry, reference count, startup flight, health flight, stop | acquire, release, cancel, probe, start, stop, dispose | callers share flights; everything may have changed after each await |
| tool calls (`tool-calls.ts`) | group, pool, slots, commits, session events | classify, start, race, commit in order, abort, drain | bodies end in any order; tools change their mode; failures mid-group |
| agent driver (`agent.ts`, `inbox.ts`) | phase, abort signal, latch, two queues | send, cancel, edit the queue, turns, steps, claims, maintenance | a message may arrive between an abort and the end of a turn, or after the last look at the inbox |
| background jobs (`jobs-local`, `tool-jobs`) | records, waiters, reports, wake budget | start, read, kill, wait, settle, announce, tear down | settling races waits, aborts and disposal; each end must be told once |

How they interact. Commands write the outbox; the publisher moves outbox rows
into the inbox, where `schedule.due` and outside events (market-watch) arrive
too; the router turns inbox rows into jobs, using the dependencies the commands
keep; the worker runs jobs and hands each stored result to contact evaluation,
which may create a retry job or a contact record. Pausing and ending a mandate
cancel its open jobs in the transaction of the command. The host takes a lease
on a backend for each request of an import. A step of an agent runs its tool
calls; some start jobs, wait for them, read and kill them; the end of a job
becomes a message in the agent's inbox and may wake its driver.

What makes each of them correct:

- *mandates*: a waiting mandate waits for something; consumers of the outbox
  can rebuild the status; a revision has one author; only the current revision
  is in force; an ended mandate stays ended; a repeated command acts once;
- *pipeline*: nothing is published unrecorded, routed twice into two jobs or
  lost; every event is dealt with or visibly failed;
- *jobs*: at most one result, from the latest claim; a settled job stays
  settled; every job settles; every completed job is evaluated;
- *contact*: the gate decides as the full history would; contacts keep the
  cooldown; a contact that was deferred is made;
- *schedules*: no instance is lost or passes uncounted; a backlog is worked
  off; old schedules are off;
- *lock*: one holder; what a crash left is taken over;
- *import and reset*: applied at all backends or at none, on the data the user
  was shown, and the answer agrees; no write is lost; no store stays reserved;
- *leases*: one process; the count is right; nobody holds what is being
  stopped; nothing runs on for nobody; every acquire and every dispose ends;
- *tool calls*: only parallel calls overlap; the session gets calls and results
  in the model's order, each call is answered once; a step ends;
- *agent and jobs*: a message is heard once or accounted for; an idle agent owes
  nobody a turn; the end of a job is told once; disposal ends, silently.

## 2. Modules

| module | models | composed with |
|---|---|---|
| `JobContract` | abstract specification: what the job queue promises | |
| `ResearchJobs` | the job queue, worker threads, submitters, recovery | implements `JobContract` |
| `Mandates` | the mandate aggregate; its commands as actions | |
| `MandateCommands` | the commands with idempotency keys and repeating clients | extends `Mandates` |
| `EventPipeline` | outbox, inbox, router, recovery, with mandates changing | extends `Mandates` |
| `ContactDecisions` | evaluate, step by step | |
| `ScheduleScan` | scan threads over the schedule rows | |
| `InstanceLock` | the lock file | |
| `AtomicTransfer` | abstract specification: an import that applies at once | |
| `TransferTransaction` | host, backends, files, crashes and recovery of imports and resets | implements `AtomicTransfer` |
| `BackendLeases` | one backend's process and its callers | |
| `ToolCalls` | the scheduler of one step's tool calls | |
| `AgentDriver` | inbox and driver of an agent | |
| `AgentJobs` | background jobs, notices, disposal | extends `AgentDriver` |
| `ResearchJobs_proof`, `ScheduleScan_proof`, `ToolCalls_proof`, `BackendLeases_proof`, `AgentJobs_proof`, `TransferTransaction_proof` | proofs about the module each extends | |
| `OneAtATime_proof` | proofs about evaluations and process starts that do not overlap | extends `ContactDecisions` and `InstanceLock` |
| `Mandates_proof` | proofs about the aggregate under both specifications | extends `MandateCommands` and `EventPipeline` |
| `MC...` | the instances TLC checks | |

### How state and actions correspond

- **ResearchJobs.** A row of `research_jobs` is `status`, `token`
  (`lease_token`), `lease`, `attempts` (`attempt_count`) and `due`; `results` are
  the claims stored in `research_job_results`. A lease token is the number of
  the claim that drew it, since tokens are only compared for equality and are
  random. Times are relative and count down in units of 30 s; `Tick` lets
  one unit pass. `held` and `eval` are the local variables of `run_once` (and of
  whoever submits a result over HTTP): claims taken but not worked off, and
  results about to be evaluated. Each store method is one action; a claim, a
  completion and an evaluation are three. What the runner answers is a choice.
- **Mandates / MandateCommands.** One action per command, since a command is
  one transaction; refused commands change nothing and are no steps. A request
  is reduced to how many requirements it opens, whether it subscribes to outside
  events and whether it has a schedule. An outbox event keeps hook, mandate,
  revision and the status it tells. `answers` is `command_idempotency`;
  `replied` and `acted` are history. `CInit`, `CNext` and `CSpec` are the
  commands' own specification, so that one module of proofs can extend both
  specifications of the aggregate.
- **EventPipeline.** The same mandates; each outbox row has a delivery state
  (`row`), each event an inbox status, each thread a `task` with what it read
  and claimed. Claim, record, mark, look, match, create and mark again are
  separate actions, as they are separate transactions. Times only decide which
  rows may be claimed or requeued, so these actions are enabled whenever time
  could make them so.
- **ContactDecisions.** `task` is the stack frame of an `evaluate` call; its
  steps are the transactions of `evaluate` in their order. `cond` is the row of
  `condition_states` of one condition key. `log` is history: all verdicts
  written so far.
- **ScheduleScan.** The calendar rule is a set of instants, `Fires`;
  `NextInstance` is `next_after`. `rows` are the schedule rows of one mandate,
  one per revision; `scan` holds the local variables of `scan` and `_scan_one`.
- **InstanceLock.** Every file operation of `acquire` and `release` is an action:
  `open(O_CREAT|O_EXCL)`, write, read and the liveness test, unlink. `LockInit`,
  `LockNext` and `LockSpec` have names of their own, so that one module of proofs
  can extend it beside `ContactDecisions`.
- **TransferTransaction.** A backend's documents are told apart by the
  transactions applied to all of them, the one applied to some only (`part`), and
  the number of the user's writes. `disk` is a backend's documents, its
  reservation (`active`) and its journals; `coord` the phase in the coordinator
  file. A `Way` is what one request does to a store: the states it leads through,
  one per atomic file replacement, and its end; a crash leaves any of them
  (`Halfway`). `op` holds the stage of each operation of the host and the
  requests it has still to send, `turn` being their order; the one with the
  least turn is `Due`. A request is one action, its loss another. A preview that
  is shown (`Show`) waits for the user, and importing it (`Confirm`) is a call of
  its own. `Start` runs the backend's own recovery, one journal a step. A look
  (preview, export) is refused by a store that is reserved, as `store.transaction()`
  refuses it. `Audited` backends ask for the host's decision before they
  finalize, as dsh-trading-core does and market-watch does not. `Outcome`, which
  maps the files to the abstract decision, reads the coordinator file as long as
  there is one, then the documents.
- **BackendLeases.** `call` is the await each `acquire` is at. A promise
  reaction (`again`, `checked`, `granted`) runs before any other event
  (`Drained`). `flight` is the startup others join, `probe` the health flight of
  an entry, `stopping` the entry whose stop is under way, `life` where dispose
  is. A process identity is used again when nobody has a trace of it. One backend
  id: ids share nothing but the disposal.
- **ToolCalls.** `at` is the await the scheduler is at. Between two awaits it
  cannot be interrupted (`Yields`). `live` is what the registry would answer
  now, `mode` what the group was opened with, `failure` the calls whose promise
  was rejected (0 is a preparation or commit).
- **AgentDriver.** `pc` is the await the driver is at; what lies between two is
  one action. `wake` is the latch `wakeRequested`. The sets `quiet`, `heard`,
  `dropped`, `discarded`, `parked` are history: what has become of each message
  and, for those still in the inbox, whether somebody owes them a turn. A person
  may also withdraw a queued message or have it steer the running turn
  (`updateQueue` of the API proxy).
- **AgentJobs.** The notice of a job is the message of that name. `wait` is the
  `job_output` call that waits for a job; `known` is history: jobs whose end
  somebody has been told by other means than a notice. `settle`, with its
  waiters and its listener, is one action, as it is synchronous.

## 3. Runs

Each run is module + cfg and takes from a second to three minutes with two TLC
workers. Passing runs are exhaustive within the bounds.

| run | states | bounds and why they are enough |
|---|---|---|
| `jobs_queue` | 60 k | two jobs of two mandates, two threads, three attempts (the budget in the router), lease 60 s, retry 30 s as in the code. Two claims of one job by two threads, a reclaim of both and a cancellation of one fit in; a third job or thread adds no new kind of overlap, as jobs share nothing but the claim limit |
| `mandates_lifecycle` | 319 k | one mandate, two requirements, three revisions, six events, two keys per operation: two requirements of different revisions are needed for the status derivations to disagree, two keys for a repeat to cross another client |
| `pipeline_safety` | 1.4 M | one mandate that is created, revised, completed, paused and resumed, an outside event, two ticks claiming one row each, one fault anywhere |
| `pipeline_liveness` | 15 k | one tick, two faults, two mandate events, batches of up to two |
| `contact_policies` | 2.4 M | four policies that spread over every `notify_on` that looks back, sustain, re-entry, cooldown, merge and retry times and delivery by date; three jobs in any order and time, a quiet first instant (so that contacts one cooldown apart remain possible after it), one revision, pause or snooze. Entry, exit and re-entry need three verdicts |
| `lock_serial` | 1.5 k | three processes, three crashes, one inside `acquire` at a time |
| `schedule_scan` | 322 k | two scans, a rule with a gap and an end, two instances per scan, one revision, one pause, one aborted scan |
| `transfer` | 211 k | one import or reset and any number of backups, one call at a time; two backends, one that audits the decision and one that does not; two crashes (one to be recovered from, one during that recovery), a lost request, a write at each backend, two visits |
| `transfer_overlap` | violation | the same with a backup made during an import |
| `leases` | 62 k | three callers (one to hold, one to wait, one to come late), two identities, three crashes or failures |
| `tool_calls` | 514 k | four calls of every mix of modes, a pool of two, one reclassification, an abort and a failure anywhere: three calls leave one waiting behind two, the fourth is a barrier or the next group |
| `agent_jobs` | 351 k | two messages of a person, two jobs, a budget of one wake, two cancellations, failures, tool-call steps, maintenance jobs or edits of the queue: one to put the driver in a corner, one to hit it there |

What they show:

- `jobs_queue`: under every interleaving of workers, late submitters, recovery
  and crashes a job stores at most one result, that of its latest claim
  (`OneResultFromLatestClaim`), and the queue implements `JobContract` (open =
  pending or running), which includes that a settled job stays settled. With
  time, ticks and recovery going on every job settles (`EveryJobSettles`).
- `mandates_lifecycle`: revisions, dependencies, schedules and answers are
  consistent (`CommandsTypeOK`); status and open requirements agree
  (`WaitsForSomething`); the outbox tells the status, and each revision once
  (`OutboxTellsTheMandate`); ended is final and only resuming unpauses
  (`StoppedUntilResumed`); an answered command never acts again
  (`AnsweredNeverActs`).
- `pipeline_safety`: published rows are recorded whoever marked them
  (`PipelineTypeOK`); one job per deduplication key, and none is revived
  (`EachJobOnce`); a mandate that watched from the receipt of an event until it
  was processed has a job for it, through revisions and all
  (`WatchersAreServed`).
- `pipeline_liveness`: every mandate event is processed, or failed in the inbox,
  or failed in the outbox with its attempts used up (`EveryEventSettles`).
- `contact_policies`: the condition state lets pass exactly what the history of
  all verdicts says is due (`GateAgreesWithHistory` compares every decision with
  a definition over the whole log), and sent contacts are more than a cooldown
  apart (`CooldownKept`). Both for one evaluation at a time; with two,
  neither holds (section 6).
- `lock_serial`: one holder, the file names it, and what a crash left is taken
  over.
- `schedule_scan`: no instance is jumped over (`PassedIsAccounted`), each
  instance that passed without an event is in `skipped_missed`
  (`SkippedIsCounted`), and a due schedule of a tracking mandate is worked off
  (`DueIsWorkedOff`).
- `transfer`: wherever host and backends die, an import is decided once, for all
  its backends, and the host's answer agrees (`ImplementsAtomic`,
  `AllOrNothing`); it is applied to the data the user was shown
  (`AppliedOnSeen`); no write of the user is lost or made twice and no store is
  reserved without a journal (`TypeOK`); nothing stays reserved
  (`EverythingSettles`).
- `leases`: the count is that of the leases held (`TypeOK`), one process runs
  (`OneProcess`), nobody holds one that is being stopped (`NotStoppedInUse`),
  none is left for nobody (`NothingLeftRunning`), calls and dispose end
  (`CallsEnd`).
- `tool_calls`: `OverlapIsAllowed`, `ModelOrder`, `EndsAnswered` and
  `Terminates`, whatever the registry, the tools and the user do at the awaits.
- `agent_jobs`: each message is at one place and never claimed twice
  (`EachMessageOnce`); an idle agent has nothing in its inbox that was to get a
  turn (`IdleHasNoWork`), and what is to get one gets it (`InboxIsServed`); each
  job's end is told by a notice or by a tool's answer, not both (`ToldOnce`);
  teardown opens no turn and leaves no notice (`TeardownIsSilent`); disposal
  ends (`DisposalEnds`).

`CHECK_DEADLOCK FALSE` stands where a bound or an end (events, revisions, clock,
a step that is over, an agent that is gone) ends the behaviours; the job queue,
the lock and the transfer are checked for deadlock too.

## 4. Fairness

- *Jobs*: weak fairness of the clock, of the recovery patrol (`Reclaim`) and of
  each thread's next step (`Work`): claiming when idle, working off what it
  holds. `api.py` has a separate worker call tick on a timer, `recovery.py` names
  start, wake-up and a periodic patrol. Nothing is assumed of runners: each may
  fail every time, and a thread may lose its claims at any step (`Abort`).
- *Pipeline*: a thread that is not cut off goes on, and recovery and the retry of
  failed rows run again and again. Strong fairness says that a row which is
  claimable again and again is some day in a batch: claims go by age and each row
  ahead of it is dealt with. It is needed because which row waits longest is not
  tracked, and because crashes (bounded by `MaxFaults`) disable a step for a while.
- *Schedules*: each thread keeps ticking (`WF` of its next scan step).
- *Lock*: whoever deploys the service starts it again, and a process in acquire
  or release goes on unless it crashes.
- *Transfer*: a call that runs goes on, backends start when asked, pages are
  closed some day, and the user makes another backup some day: recovery is part
  of the next call, the code has no patrol of its own.
- *Leases*: promise reactions run, boots and probes have time limits, a process
  that is told to end does. Nobody is assumed to release; `CallsEnd` therefore
  excludes other callers that release for ever.
- *Tool calls*: bodies end and the scheduler goes on.
- *Agent and jobs*: models, tools and timers answer, promises are resumed,
  producers settle unless their cancel threw. People are not assumed to do
  anything.

No thread of the Python service ticks by itself, so these assumptions are about
its caller and hold as far as the caller does what `api.py` and `recovery.py` say.

## 5. Proofs

TLAPS checks the following for every value of the constants that the named
assumptions admit.

**`ResearchJobs_proof`** (assuming `JobsAssumption`): `TypeCorrect`,
`OneResult`, `ResultEndsJob`, `ExclusiveHolder`, `DecisionsHaveResults`,
`SettledIsFinal` and the refinement `QueueImplementsContract`. The properties
are not inductive: that a stored result is that of the latest claim rests on a
token in a row being that of the latest claim and going when the row settles
(`JobInv`), that two threads never hold the same claim on claims being new
(`HeldInv`), and that decisions rest on results on what is queued for
evaluation (`EvalInv`). `IInv` is their conjunction with `TypeOK`;
`ArchiveKeepsRows` is the step that storing a result makes, used by both of its
callers.

**`Mandates_proof`** (assuming `MandatesAssumption` and `PipelineAssumption`: any
mandates, requirements, revisions, keys and threads; outside events have ids of
their own). Under the commands' specification: `OldRevisionsRouteNothing`
(`CommandsTypeOK`), `NobodyWaitsForNothing` (`WaitsForSomething`),
`FollowersKnowTheMandate` (`OutboxTellsTheMandate`), `RepeatsDoNothing`
(`AnsweredNeverActs`), `OnlyResumingStarts` (`StoppedUntilResumed`). Under that of
the pipeline: `PublishedIsRecorded` (`PipelineTypeOK`), `WatchersHaveTheirJobs`
(`WatchersAreServed`), `JobsAreOpenedOnce` (`EachJobOnce`). Both rest on `MInv`,
which is proved once for the four actions every command is one of. It says that
the last event of each mandate tells its status (`LastTells`), that each revision
is announced once (`EachAnnouncedOnce`) and that a requirement belongs to a
revision its mandate has had (`OwnedReqs`): without the last, a revision could
come to own a requirement opened before it. `PInv` adds what threads have
read and claimed. That nobody who watches goes without a job rests on `OwedInv`:
who is owed a job has it, or is in the plan of every thread that is opening the
jobs of the event. `TaskInv` says that what a publisher will mark is in
the inbox already, also when another publisher has claimed the row again.

**`OneAtATime_proof`** holds what is true as long as things do not overlap, which
the code relies on and does not enforce: without it TLC refutes each of the four
properties named here.

- Evaluations (assuming `ContactAssumption` and one evaluation at a time,
  `OneAtATime`; any policies and any number of results, revisions, pauses and
  aborts): `OneRowStandsForHistory` (`GateAgreesWithHistory`) and `CooldownIsKept`
  (`CooldownKept`). `Tells` says what the row of `condition_states` has to do
  with the history it stands for: since when the present verdict holds, whether
  the condition was ever entered and whether more than once, when it was last
  met. `TellsOn` shows that `NextCond` keeps this and `GateIsDue` that under it
  the gate decides as the history says, for each `notify_on` in turn. An
  evaluation carries that on to the decision it stores (`TaskFits`,
  `DecisionFits`), and a stored decision stays right as the history grows
  (`DueStays`). That contacts keep their distance needs to know that nothing was
  stored since the evaluation looked for recent ones, and that no decision is
  newer than the evaluation. `CooldownKept` speaks of two contacts at the
  same instant only if both policies have a cooldown: one without may follow.
- Starts (assuming `LockAssumption` and `OneStartAtATime`: a finite set of pids,
  `Concurrent = 1`):
  `SerialStartsExclude`, at most one holder, and `TheFileNamesTheHolder`, the file
  names it, for any crashes and any reuse of pids. A process about to unlink must
  know that nobody has come to hold the lock since it read the file
  (`UnlinkIsSafe`), which holds because nobody else is in acquire
  (`OneAcquires`); `WriterOwns` and `OwnerIsNamed` say whose file it is.

**`ScheduleScan_proof`** (assuming `ScheduleAssumption`: the rule is any
non-empty set of instants): `TypesHold`, `NoInstanceIsLost` and
`SkipsAreOwnedUpTo`. `PassedIsAccounted`
speaks of the rows; a scan writes a row from variables it filled long before, so
the invariant says the same of every scan under way, for the row it is at and
for those it still has to do (`AccountInv`), and that none of them belongs to a
revision to come (`ScanInv`), whose row would begin its account anew. `SkippedIsCounted` follows the same
plan with numbers (`CountInv`): the count of a row, and the row's count with what
a scan has counted so far, cover the instances without an event up to where the
row or the scan is.
`NextInstanceIsNext` rests on the well-foundedness of the naturals.

**`ToolCalls_proof`** (assuming `ToolAssumption`): `OnlyParallelCallsOverlap`
(`OverlapIsAllowed` for any number of calls and any pool) and
`GroupsCommitWhatTheyStart`, which shows the throw "uncommitted settled calls"
to be out of reach, as its coverage comment says. The invariant speaks of all
dispatched calls and of the one being prepared (`FlightInv`, `ModeInv`). The
first call of a group is started without another look at its mode; that it is
still what the group was opened with holds because the scheduler does not await
in between (`NotFirstWhereItAwaits`). `CommitInv` says where each started call
without a committed result is. `SessionIsInModelOrder` and `EveryEndIsAnswered`
(`ModelOrder`, `EndsAnswered`) rest on `LogInv`: the log holds the calls up to
`started` and the answers up to `commits`, each in order and each answer after
its call (`InOrder`), which the two ways of appending to it preserve.

**`BackendLeases_proof`** (assuming `LeasesAssumption`: a finite set of callers):
`LeasesAreCounted`, `OnlyOneRuns`, `NobodyHoldsTheStopping`, `NobodyIsLeftBehind`,
that is all safety invariants of the run, for any number of callers, processes,
crashes and failures. The heart is `FlightInv`: while a startup is under way
there is no entry and no stop, and nobody has heard of its process; so one
process runs at a time, and the count of a new entry starts at no holders.
`CallInv` says that what a flight has granted is the entry, at rest, so that
the lease is not taken on a process being stopped. `ProcInv` says why a process
runs. Steps that only move calls, phases or probes share one lemma, `QuietStep`.

**`AgentJobs_proof`** (assuming `DriverAssumption` and `JobsAssumption`: any
messages and jobs, every notice a message of its own): all safety properties of
the run. `MessagesAreNeverLost` (`EachMessageOnce`) rests on `Placed`: the two
queues and the batch have no repetitions, and they and the three ways a message
can be done with are disjoint and make up what was sent; there is one lemma for
each way of moving messages. `IdleOwesNoTurn` (`IdleHasNoWork`) needs to know why
a message may lie in the inbox of an agent that is not idle yet:
`WakeIsLatched` says that where no turn will look at the inbox again, the wake
is latched or nobody is owed a turn. `EachEndIsToldOnce` (`ToldOnce`) and
`TornDownInSilence` (`TeardownIsSilent`) rest on `ReportIsFounded`: a job is taken
as reported only if its end is known or a resolved wait is about to read it;
and, once teardown has begun, on every live job being reported
(`TornDownIsReported`), so that what it still does settles quietly.

**`TransferTransaction_proof`** (assuming `TransferAssumption`: any sequence of
different backends, any transactions, selections and bounds, and, in each
theorem, `MaxTogether = 1` and `Amid = FALSE`): all safety properties of the run,
`TypeCorrect` (`TypeOK`), `AllOrNothingHolds`, `AppliedOnSeenHolds`
(`AppliedOnSeen`) and the refinement `ImplementsAtomicHolds`
(`ImplementsAtomic`). The two hypotheses say of the environment what the passing
run does: calls come one at a time, and pages do not start a stopped backend
while there is a coordinator file. The code enforces neither, and without either
one `AllOrNothing` is false: `transfer_overlap` shows what a second call does, and with
`Amid = TRUE` and three visits TLC finds the other torn state. So the theorems
say what prepare, commit, decision and recovery guarantee against crashes, lost
requests, stale previews and repeats, for any number of each.

`IInv`, checked by TLC before it was proved, has six parts. `StoresFit` relates
each store to the coordinator file: a journal is there only for a transaction
with a file and at its targets; while it is in force the documents are one of
three versions (before, being replaced, after) with all of the user's writes; a
transaction is in the documents only where it is being committed under a
journal, decided, or over; once it is decided, it is at each target. While the
process is up nothing is half done (`AtRest`). `Decided` says that without a file a
transaction is everywhere or nowhere, `OneCall` and `OneFile` that there is one
operation and one file at a time. `OpInv` ties each stage of an operation to the
phase in the file (`StageInv`), its requests to the transaction they are about
(`RequestInv`), and both to the stores (`ProgressInv`): a journal that is still
there has a finalize to come, one in force a rollback before it, a prepared one
keeps as its `before` what the user was shown, and what is no longer asked to
commit has. The proof first says what each operation of a store does to any
store at any of its steps (`Prepares`, `Commits`, `Undoes`, `Clears`), then that
these keep `Fits` (`Moves`), then goes through the actions. The refinement needs
no more than this invariant: a step of the host decides or answers for one
transaction (`Goes`), and what happens at the stores changes nothing for a
transaction without a file (`Kept`).

Only model-checked: all liveness properties (fairness and `ENABLED` are beyond
the prover). Every safety property of the passing runs is proved.

## 6. Disagreements with the documents

`transfer_overlap` ends in a violation that shows one; the quoted line is in
`PROJECT.json`. An import is documented as atomic, but every call that lists or
recovers transactions takes the coordinator file of one that is still running
for one a crash has left. A backup made during an import can roll one backend
back after it has committed; the import is then reported applied.

Others were met while modelling. The models have behaviours that show them, the
notes of the hazards in `PROJECT.json` quote code and document, and no run
states them:

- a completed job whose process ends before contact evaluation is never
  evaluated; recovery does not look for it;
- `transition` with a sustain time never contacts: the entry is deferred, and
  what follows is no entry; `first_entry` repeats while the condition stays met;
- two overlapping evaluations both send within the cooldown, and the one overwrites
  the condition row the other has written; a pause between
  eligibility check and dispatch does not stop the message; deferred contacts
  reach nobody;
- two simultaneous starts can both hold the lock; a reused pid in the lock file
  keeps the service from starting;
- a revision saved during a scan leaves the old schedule on; a pause during a
  scan does not stop the events of the rows already listed;
- the clock a worker passes to `complete_job` is older than the lease it should
  check; a pause between the router's read and its insert leaves an open job of a
  paused mandate, a revision there one of an old revision; an event whose routing
  failed is never routed again; a pause that overtakes the creation event loses
  the baseline; recovery can requeue what a live router holds;
- when a finalize fails after the decision, the user is told that the data are
  unchanged although the import is in force;
- a page that closes and another that opens during an import restart a backend,
  whose recovery finds "committing" and rolls back (`Amid = TRUE` with `MaxVisits = 3` shows it);
- a startup nobody wants any more whose process cannot be waited for leaves no
  record of that process (`lost`).

## 7. Abstractions

- One condition key per mandate; how a verdict comes about and what a message
  says are left out.
- Calendars are sets of instants; `next_after`'s search through trading days is a
  pure function with unit tests. That it gives up after a year is `Never`.
- Idempotency hashes are the requests themselves.
- `renew_job_lease` is left out: only tests call it.
- In transfers the contents of documents, archives and staging directories are
  left out, and what expires: previews and old journals.
- What a model or a tool says is left out; a step ends, asks for tools or fails.
  `Inbox.prepend` and `replace` (an edit in place) are left out, and the
  flag that a tool's result concludes the turn.
- A job has one waiting call at a time; its output windows and the eviction of
  old records are left out.
- Bounds (`Max...`) stand in guards and are named in each module's CONSTANTS.
- SQLite's transactions and the replacement of one file are taken as atomic and
  durable.

## 8. Not modelled

`PROJECT.json` names every part with its reason. In short: market data, news,
LLM engines and rendering are input and output; parsing, scoring, portfolio
arithmetic and calendars are pure functions; React views, protocol adapters,
boot and packaging have no protocol of their own; the libraries under the
harness (sessions, scopes, storage, compaction, subagents) and the adapter's
in-process services are the next in line.

## 9. Plan

Done, in this order: `JobContract`, `ResearchJobs` and its proofs; `Mandates`,
`MandateCommands`; `EventPipeline`; `ContactDecisions`; `InstanceLock` and
`ScheduleScan` with their proofs; `AtomicTransfer`, `TransferTransaction`;
`ToolCalls`, `AgentDriver`, `AgentJobs`; `BackendLeases`; the proofs about
`ToolCalls` and `BackendLeases`, then those about the mandates, the pipeline, the
agent and its jobs, the transfers and the contact decisions.

Next, most important first:

1. `NotificationDelivery`: the adapter's delivery claims, retries and channels;
   `HoldingsHistory`: the journalled mutations of the holdings file.
2. `WatchPublisher`: market-watch's retry queue in front of ingest, composed with
   the inbox of `EventPipeline`; `BriefSlots`: the brief scheduler's daily slots.
3. Sessions of the harness and what a crash between two of their events leaves;
   goal rounds and timed tasks as further senders to `AgentDriver`.
