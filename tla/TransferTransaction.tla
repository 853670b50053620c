-------------------------- MODULE TransferTransaction -------------------------
(***************************************************************************)
(* Import and reset of the user's data over several backends: the host's   *)
(* BackupService writes a coordinator file and drives prepare, commit and  *)
(* finalize, or rollback, at each backend (adapter/data_transfer.py and    *)
(* market_watch/data_transfer.py); the host and every backend recover what *)
(* a crash, a lost request or a failed rollback has left.                  *)
(***************************************************************************)
EXTENDS Integers, Sequences, FiniteSets, Functions

CONSTANTS Order,        \* the backends in the order the host calls them
          Audited,      \* backends that demand the host's decision at finalize
          Txn,          \* imports and resets, each with its transaction id
          Selections,   \* the sets of backends a user may select
          MaxTogether,  \* operations the user has running at once
          Amid,         \* may others start a stopped backend during a transaction?
          MaxCrashes,   \* bound: crashes of the host or a backend
          MaxFaults,    \* bound: requests that fail on the way
          MaxWrites,    \* bound: the user's writes at each backend
          MaxVisits     \* bound: leases others take

Backend == Range(Order)

ASSUME TransferAssumption ==
    /\ Order \in Seq(Backend) /\ IsInjective(Order) /\ Audited \subseteq Backend
    /\ Txn \subseteq Nat \ {0}
    /\ Selections \subseteq (SUBSET Backend) \ {{}} /\ Amid \in BOOLEAN
    /\ {MaxTogether, MaxCrashes, MaxFaults, MaxWrites, MaxVisits} \subseteq Nat

VARIABLES op,       \* what each operation of the host has still to do
          told,     \* what each import or reset ended with
          targets,  \* the backends each operation is about
          coord,    \* phase in each transaction's coordinator file
          disk,     \* what each backend has stored
          up,       \* is its process running?
          held,     \* does anyone else hold a lease on it?
          written,  \* history: the user's writes each backend accepted
          crashes, faults, visits

host == <<op, told, targets, coord>>
world == <<crashes, faults, visits>>
vars == <<host, disk, up, held, written, world>>

-----------------------------------------------------------------------------
(* A backend's store.  Its documents are told apart by the transactions     *)
(* applied to all of them, the one applied to some of them only, and the   *)
(* number of the user's writes.                                            *)

NoJournal == [state |-> "none"]
NoTxn == 0
Empty == [done |-> {}, part |-> NoTxn, writes |-> 0]

Applied(data, t) == [data EXCEPT !.done = @ \cup {t}]
HasJournal(d, t) == d.journal[t].state # "none"
Journal(d, t, state) == [d EXCEPT !.journal[t].state = state]
Released(d, t) == IF d.active = t THEN [d EXCEPT !.active = NoTxn] ELSE d
Admits(d, t) == d.active \in {NoTxn, t}

\* Mutant: the revision is not compared.
Accepts_Stale(b, d, verb, t, seen) ==
    \/ verb = "look" /\ d.active = NoTxn
    \/ verb \in {"prepare", "rollback"} /\ Admits(d, t)
    \/ verb = "commit" /\ Admits(d, t) /\ d.journal[t].state \in {"prepared", "committed"}
    \/ verb = "finalize" /\ Admits(d, t) /\ d.journal[t].state # "prepared"

\* May the backend do this?  `seen` is the revision the caller names.
Accepts(b, d, verb, t, seen) ==
    \/ verb = "look" /\ d.active = NoTxn
    \/ verb = "prepare" /\ Admits(d, t) /\ (HasJournal(d, t) \/ d.data = seen)
    \/ verb = "commit" /\ Admits(d, t) /\ d.journal[t].state \in {"prepared", "committed"}
    \/ verb = "rollback" /\ Admits(d, t)
    \/ verb = "finalize" /\ Admits(d, t)
       /\ \/ d.journal[t].state \in {"none", "rolled_back"}
          \/ d.journal[t].state = "committed" /\ (b \in Audited => coord[t] = "committed")

\* What is done to a store replaces one file after another: it leads
\* through some states to its end.
Way(through, end) == [through |-> through, end |-> end]

\* The documents are being replaced, and some are.
Half(d, t) == [d EXCEPT !.data = [d.journal[t].before EXCEPT !.part = t]]

\* prepare_import, prepare_reset: the journal first, then the reservation.
Prepared(d, t) ==
    LET j == [state |-> "prepared", before |-> d.data, after |-> Applied(d.data, t)]
        noted == [d EXCEPT !.journal[t] = j]
    IN IF HasJournal(d, t) THEN Way({}, d) ELSE Way({noted}, [noted EXCEPT !.active = t])

\* commit_import: the documents first, then the journal.
Committed(d, t) ==
    LET new == [d EXCEPT !.data = d.journal[t].after]
    IN IF d.journal[t].state = "committed" THEN Way({}, d)
       ELSE Way({Half(d, t), new}, Journal(new, t, "committed"))

\* Mutant: the documents are put back whenever it is asked for.
RolledBack_Again(d, t) ==
    LET old == [d EXCEPT !.data = d.journal[t].before]
        undone == Journal(old, t, "rolled_back")
    IN IF d.journal[t].state = "none" THEN Way({}, Released(d, t))
       ELSE Way((IF d = old THEN {} ELSE {Half(d, t)}) \cup {old, undone}, Released(undone, t))

\* rollback_import: the documents, the journal, the reservation.
RolledBack(d, t) ==
    LET old == [d EXCEPT !.data = d.journal[t].before]
        undone == Journal(old, t, "rolled_back")
    IN IF d.journal[t].state \in {"none", "rolled_back"} THEN Way({}, Released(d, t))
       ELSE Way((IF d = old THEN {} ELSE {Half(d, t)}) \cup {old, undone}, Released(undone, t))

\* finalize_import: the reservation, then the journal.
Finalized(d, t) ==
    LET free == Released(d, t) IN Way({free}, [free EXCEPT !.journal[t] = NoJournal])

Served(d, verb, t) == CASE verb = "prepare"  -> Prepared(d, t)
                        [] verb = "commit"   -> Committed(d, t)
                        [] verb = "rollback" -> RolledBack(d, t)
                        [] verb = "finalize" -> Finalized(d, t)
                        [] OTHER             -> Way({}, d)

\* Mutant: a committed journal is taken for the decision.
Recovery_Eager(d, t) ==
    LET undone == RolledBack(d, t)
        gone == Finalized(undone.end, t)
    IN IF "committed" \in {coord[t], d.journal[t].state} THEN Finalized(d, t)
       ELSE Way(undone.through \cup {undone.end} \cup gone.through, gone.end)

\* recover_incomplete_transactions, for one journal.
Recovery(d, t) ==
    LET undone == RolledBack(d, t)
        gone == Finalized(undone.end, t)
    IN IF coord[t] = "committed" THEN Finalized(d, t)
       ELSE Way(undone.through \cup {undone.end} \cup gone.through, gone.end)

\* The journals are dealt with in the order of their ids, and one that
\* cannot be keeps the backend from starting.
Clean(d) == \A t \in Txn : ~HasJournal(d, t)
IsNext(d, t) == HasJournal(d, t) /\ \A u \in Txn : HasJournal(d, u) => t <= u
Recoverable(b, d, t) ==
    Accepts(b, d, IF coord[t] = "committed" THEN "finalize" ELSE "rollback", t, d.data)
Startable(b, d) == \A t \in Txn : IsNext(d, t) => Recoverable(b, d, t)

-----------------------------------------------------------------------------
(* The host's operations: a stage at a time, and its requests in turn. *)

Backup == 0   \* create: recovers and exports, any number of times
Op == Txn \cup {Backup}

\* The order of the backends, and its reverse.
Pos(b) == CHOOSE i \in DOMAIN Order : Order[i] = b
Forth == [b \in Backend |-> Pos(b)]
Back == [b \in Backend |-> Len(Order) + 1 - Pos(b)]

Ask(verb, t, bs, turn) == {[verb |-> verb, txn |-> t, at |-> b, turn |-> turn[b]] : b \in bs}

UndoRequests(t, bs) ==
    Ask("rollback", t, bs, [b \in Backend |-> 2 * Back[b]])
        \cup Ask("finalize", t, bs, [b \in Backend |-> 2 * Back[b] + 1])

RecoveryRequests(t, bs) ==
    IF coord[t] = "committed" THEN Ask("finalize", t, bs, Back)
    ELSE Ask("rollback", t, bs, Back)
             \cup Ask("finalize", t, bs, [b \in Backend |-> Len(Order) + Pos(b)])

Idle == [call |-> "none", stage |-> "idle", todo |-> {}, files |-> {}, file |-> NoTxn,
         seen |-> [b \in Backend |-> Empty], errors |-> FALSE]

\* A preview that is shown waits for the user.
Running(o) == op[o].stage \notin {"idle", "shown"}
MayCall == Cardinality({o \in Op : Running(o)}) < MaxTogether
HasFile(t) == coord[t] \in {"preparing", "committing", "committed"}

Init == /\ op = [o \in Op |-> Idle]
        /\ told = [t \in Txn |-> "none"]
        /\ targets = [o \in Op |-> {}]
        /\ coord = [t \in Txn |-> "new"]
        /\ disk = [b \in Backend |-> [data |-> Empty, active |-> NoTxn,
                                      journal |-> [t \in Txn |-> NoJournal]]]
        /\ up = [b \in Backend |-> FALSE] /\ held = up
        /\ written = [b \in Backend |-> 0]
        /\ crashes = 0 /\ faults = 0 /\ visits = 0

-----------------------------------------------------------------------------
\* The user calls the preview, reset or create.
Begin(o) ==
    /\ op[o].stage = "idle" /\ MayCall
    /\ o \in Txn => targets[o] = {}
    /\ \E call \in IF o = Backup THEN {"backup"} ELSE {"import", "reset"},
          bs \in IF o = Backup THEN {Backend} ELSE Selections :
         /\ op' = [op EXCEPT ![o].call = call, ![o].stage = "scan"]
         /\ targets' = [targets EXCEPT ![o] = bs]
    /\ UNCHANGED <<told, coord, disk, up, held, written, world>>

\* The user confirms a preview, and the import is called.
Confirm(o) ==
    /\ op[o].stage = "shown" /\ MayCall
    /\ op' = [op EXCEPT ![o].call = "apply", ![o].stage = "scan"]
    /\ UNCHANGED <<told, targets, coord, disk, up, held, written, world>>

\* An operation ends, and the user is told.
Ends(o, how) == /\ op' = [op EXCEPT ![o] = Idle]
                /\ told' = IF o = Backup THEN told ELSE [told EXCEPT ![o] = how]

\* Mutant: only decided transactions are recovered.
Scan_Decided(o) ==
    /\ op[o].stage = "scan"
    /\ op' = [op EXCEPT ![o].stage = "recover", ![o].files = {t \in Txn : coord[t] = "committed"}]
    /\ UNCHANGED <<told, targets, coord, disk, up, held, written, world>>

\* The names of the coordinator files.
Scan(o) ==
    /\ op[o].stage = "scan"
    /\ op' = [op EXCEPT ![o].stage = "recover", ![o].files = {t \in Txn : HasFile(t)}]
    /\ UNCHANGED <<told, targets, coord, disk, up, held, written, world>>

\* One of them is read, and says what is to be done.
Load(o) ==
    /\ op[o].stage = "recover" /\ op[o].file = NoTxn
    /\ \E t \in op[o].files :
         IF HasFile(t)
         THEN /\ op' = [op EXCEPT ![o].file = t, ![o].todo = RecoveryRequests(t, targets[t])]
              /\ UNCHANGED told
         ELSE Ends(o, "refused")
    /\ UNCHANGED <<targets, coord, disk, up, held, written, world>>

\* Everything asked for it is done: the file goes.
Settle(o) ==
    /\ op[o].stage = "recover" /\ op[o].file # NoTxn /\ op[o].todo = {}
    /\ coord' = [coord EXCEPT ![op[o].file] = "removed"]
    /\ op' = [op EXCEPT ![o].files = @ \ {op[o].file}, ![o].file = NoTxn]
    /\ UNCHANGED <<told, targets, disk, up, held, written, world>>

\* The next stage begins when the requests of the last are answered.
Ready(o, stage) == op[o].stage = stage /\ op[o].todo = {} /\ op[o].files = {}

Enter(o, verb) ==
    op' = [op EXCEPT ![o].stage = verb, ![o].todo = Ask(verb, o, targets[o], Forth)]

Look(o) ==
    /\ Ready(o, "recover") /\ op[o].call # "apply"
    /\ Enter(o, "look")
    /\ UNCHANGED <<told, targets, coord, disk, up, held, written, world>>

\* The preview is shown, or the backup written.
Show(o) ==
    /\ Ready(o, "look") /\ op[o].call # "reset"
    /\ op' = [op EXCEPT ![o] = IF o = Backup THEN Idle ELSE [@ EXCEPT !.stage = "shown"]]
    /\ UNCHANGED <<told, targets, coord, disk, up, held, written, world>>

\* executeTransaction writes the phase and sends the requests that follow.
Mark(o, phase, verb) ==
    /\ coord' = [coord EXCEPT ![o] = phase]
    /\ Enter(o, verb)
    /\ UNCHANGED <<told, targets, disk, up, held, written, world>>

\* An import has been looked at in its preview, a reset looks itself.
Open(o) == /\ \/ op[o].call = "apply" /\ Ready(o, "recover")
              \/ op[o].call = "reset" /\ Ready(o, "look")
           /\ Mark(o, "preparing", "prepare")
MarkCommitting_Early(o) == Ready(o, "prepare") /\ Mark(o, "committed", "commit")
MarkCommitting(o) == Ready(o, "prepare") /\ Mark(o, "committing", "commit")
MarkCommitted(o) == Ready(o, "commit") /\ Mark(o, "committed", "finalize")

\* The coordinator file is removed, or kept when a rollback failed.
Close(o) ==
    /\ Ready(o, "finalize") \/ Ready(o, "undo")
    /\ coord' = IF op[o].errors THEN coord ELSE [coord EXCEPT ![o] = "removed"]
    /\ Ends(o, CASE op[o].stage = "finalize" -> "applied"
                 [] op[o].errors             -> "stuck"
                 [] OTHER                    -> "refused")
    /\ UNCHANGED <<targets, disk, up, held, written, world>>

-----------------------------------------------------------------------------
(* A request and what becomes of it *)

Due(o, r) == \A q \in op[o].todo : r.turn <= q.turn
Asking(o, b) == \E r \in op[o].todo : Due(o, r) /\ r.at = b

\* The catch block: undo, go on undoing, or report.
Fails(o, r) ==
    CASE op[o].stage \in {"prepare", "commit"} ->
           /\ op' = [op EXCEPT ![o].stage = "undo", ![o].todo = UndoRequests(o, targets[o])]
           /\ UNCHANGED told
      [] op[o].stage = "undo" ->
           /\ op' = [op EXCEPT ![o].errors = TRUE, ![o].todo = {q \in @ : q.at # r.at}]
           /\ UNCHANGED told
      [] op[o].stage = "finalize" -> Ends(o, "unclean")
      [] OTHER -> Ends(o, "refused")

Succeeds(o, r) ==
    /\ op' = [op EXCEPT ![o].todo = @ \ {r},
                 ![o].seen[r.at] = IF r.verb = "look" THEN disk[r.at].data ELSE @]
    /\ UNCHANGED told

\* The lease of the request was the last: the process is stopped.
LeaseEnds(b) == up' = [up EXCEPT ![b] = held[b]]

Serve(o) ==
    /\ \E r \in op[o].todo :
         /\ Due(o, r) /\ up[r.at] /\ LeaseEnds(r.at)
         /\ IF Accepts(r.at, disk[r.at], r.verb, r.txn, op[o].seen[r.at])
            THEN /\ disk' = [disk EXCEPT ![r.at] = Served(@, r.verb, r.txn).end]
                 /\ Succeeds(o, r)
            ELSE Fails(o, r) /\ UNCHANGED disk
    /\ UNCHANGED <<targets, coord, held, written, world>>

\* acquire starts a process nobody holds, for a request or for a page; it
\* recovers one journal after another, and then it is up.
Start(b) ==
    /\ ~up[b] /\ ~held[b]
    /\ \/ /\ \E o \in Op : Asking(o, b)
          /\ Clean(disk[b]) /\ up' = [up EXCEPT ![b] = TRUE] /\ UNCHANGED disk
       \/ /\ (\E o \in Op : Asking(o, b)) \/ (Amid /\ visits < MaxVisits)
          /\ \E t \in Txn : /\ IsNext(disk[b], t) /\ Recoverable(b, disk[b], t)
                            /\ disk' = [disk EXCEPT ![b] = Recovery(@, t).end]
          /\ UNCHANGED up
    /\ UNCHANGED <<host, held, written, world>>

\* One that died while it was held stays refused until its holders have
\* left, and one that cannot recover does not start.
DeadLease(o) ==
    /\ \E r \in op[o].todo : /\ Due(o, r) /\ ~up[r.at]
                             /\ held[r.at] \/ ~Startable(r.at, disk[r.at])
                             /\ Fails(o, r)
    /\ UNCHANGED <<targets, coord, disk, up, held, written, world>>

\* The answer does not arrive, whether or not the request did.
Lose(o) ==
    /\ faults < MaxFaults /\ faults' = faults + 1
    /\ \E r \in op[o].todo :
         /\ Due(o, r) /\ up[r.at] /\ LeaseEnds(r.at) /\ Fails(o, r)
         /\ \/ /\ Accepts(r.at, disk[r.at], r.verb, r.txn, op[o].seen[r.at])
               /\ disk' = [disk EXCEPT ![r.at] = Served(@, r.verb, r.txn).end]
            \/ UNCHANGED disk
    /\ UNCHANGED <<targets, coord, held, written, crashes, visits>>

-----------------------------------------------------------------------------
(* Everyone else *)

\* A page opens and acquires a backend, and closes.
Visit(b) ==
    /\ visits < MaxVisits /\ visits' = visits + 1
    /\ ~held[b] /\ held' = [held EXCEPT ![b] = TRUE]
    /\ \/ up[b]
       \/ Clean(disk[b]) /\ (Amid \/ \A t \in Txn : ~HasFile(t))
    /\ up' = [up EXCEPT ![b] = TRUE]
    /\ UNCHANGED <<host, disk, written, crashes, faults>>

Leave(b) ==
    /\ held[b] /\ held' = [held EXCEPT ![b] = FALSE] /\ up' = [up EXCEPT ![b] = FALSE]
    /\ UNCHANGED <<host, disk, written, world>>

\* A change of the user's; a reserved store answers 423.
Write(b) ==
    /\ up[b] /\ held[b] /\ written[b] < MaxWrites /\ disk[b].active = NoTxn
    /\ disk' = [disk EXCEPT ![b].data.writes = @ + 1]
    /\ written' = [written EXCEPT ![b] = @ + 1]
    /\ UNCHANGED <<host, up, held, world>>

\* What a store may hold when its process dies: what it held, or any state
\* it was being led to.
Halfway(b, o, r) ==
    LET d == disk[b]
        ways == IF ~up[b] THEN {Recovery(d, t) : t \in {u \in Txn : IsNext(d, u) /\ Recoverable(b, d, u)}}
                ELSE IF Accepts(b, d, r.verb, r.txn, op[o].seen[b]) THEN {Served(d, r.verb, r.txn)}
                ELSE {}
    IN {d} \cup UNION {w.through \cup {w.end} : w \in ways}

\* A backend dies at rest, or amid a request or the start for it.
CrashBackend(b) ==
    /\ crashes < MaxCrashes /\ crashes' = crashes + 1
    /\ up' = [up EXCEPT ![b] = FALSE]
    /\ \/ up[b] /\ UNCHANGED <<disk, op, told>>
       \/ \E o \in Op : \E r \in op[o].todo :
             /\ Due(o, r) /\ r.at = b
             /\ up[b] \/ ~held[b]
             /\ Fails(o, r)
             /\ \E d \in Halfway(b, o, r) : disk' = [disk EXCEPT ![b] = d]
    /\ UNCHANGED <<targets, coord, held, written, faults, visits>>

\* The host dies and its backends with it; nobody is told anything.
CrashHost ==
    /\ crashes < MaxCrashes /\ crashes' = crashes + 1
    /\ \E o \in Op : op[o] # Idle
    /\ told' = [t \in Txn |-> IF Running(t) THEN "lost" ELSE told[t]]
    /\ op' = [o \in Op |-> Idle]
    /\ up' = [b \in Backend |-> FALSE] /\ held' = up'
    /\ UNCHANGED <<targets, coord, disk, written, faults, visits>>

-----------------------------------------------------------------------------
Work(o) == \/ Scan(o) \/ Load(o) \/ Settle(o) \/ Look(o) \/ Show(o) \/ Open(o)
           \/ MarkCommitting(o) \/ MarkCommitted(o) \/ Close(o) \/ Serve(o) \/ DeadLease(o)

Next == \/ \E o \in Op : Begin(o) \/ Confirm(o) \/ Work(o) \/ Lose(o)
        \/ \E b \in Backend : \/ Start(b) \/ Visit(b) \/ Leave(b) \/ Write(b)
                              \/ CrashBackend(b)
        \/ CrashHost

Spec == Init /\ [][Next]_vars

\* Calls run to their end, pages are closed some day, and the user makes
\* another backup some day.
FairSpec == /\ Spec /\ WF_vars(Begin(Backup))
            /\ \A o \in Op : WF_vars(Work(o))
            /\ \A b \in Backend : WF_vars(Start(b)) /\ WF_vars(Leave(b))

-----------------------------------------------------------------------------
(* Properties *)

DataType == [done : SUBSET Txn, part : Txn \cup {NoTxn}, writes : 0 .. MaxWrites]
JournalType == {NoJournal} \cup [state : {"prepared", "committed", "rolled_back"},
                                before : DataType, after : DataType]

StoreType == [data : DataType, active : Txn \cup {NoTxn}, journal : [Txn -> JournalType]]
RequestType == [verb : {"look", "prepare", "commit", "rollback", "finalize"},
                txn : Op, at : Backend, turn : Nat]
OpType == [call : {"none", "import", "apply", "reset", "backup"},
           stage : {"idle", "scan", "recover", "look", "shown",
                    "prepare", "commit", "finalize", "undo"},
           todo : SUBSET RequestType, files : SUBSET Txn, file : Txn \cup {NoTxn},
           seen : [Backend -> DataType], errors : BOOLEAN]

\* Type invariant; a store is never reserved for a transaction whose
\* journal it has not got, for no recovery would find it; and rolling back
\* and recovering never loses a change the user made, nor makes one twice: a
\* store holds the writes its backend has accepted.
TypeOK ==
    /\ op \in [Op -> OpType]
    /\ told \in [Txn -> {"none", "applied", "refused", "unclean", "stuck", "lost"}]
    /\ targets \in [Op -> SUBSET Backend]
    /\ coord \in [Txn -> {"new", "preparing", "committing", "committed", "removed"}]
    /\ disk \in [Backend -> StoreType]
    /\ \A b \in Backend, t \in Txn : disk[b].active = t => HasJournal(disk[b], t)
    /\ up \in [Backend -> BOOLEAN] /\ held \in [Backend -> BOOLEAN]
    /\ written \in [Backend -> 0 .. MaxWrites]
    /\ \A b \in Backend : disk[b].data.writes = written[b]
    /\ crashes \in 0 .. MaxCrashes /\ faults \in 0 .. MaxFaults /\ visits \in 0 .. MaxVisits

AppliedAt(t) == {b \in Backend : t \in disk[b].data.done}

\* "Atomically apply an import preview" (backup-service.ts:757): once an
\* operation has ended and its coordinator file is gone, it is applied at
\* all of its backends or at none, to all their documents or to none, and
\* none is still reserved for it.
AllOrNothing ==
    \A t \in Txn : coord[t] = "removed" /\ ~Running(t) =>
        /\ AppliedAt(t) \in {{}, targets[t]}
        /\ \A b \in Backend : /\ disk[b].active # t /\ disk[b].data.part # t
                              /\ ~HasJournal(disk[b], t)

\* What each transaction has come to, read from the files.
Outcome == [t \in Txn |->
    IF \/ coord[t] = "committed"
       \/ coord[t] = "removed" /\ AppliedAt(t) = targets[t] THEN "applied"
    ELSE IF \/ coord[t] = "new" /\ told[t] # "none"
            \/ coord[t] = "removed" /\ AppliedAt(t) = {} THEN "dropped"
    ELSE IF coord[t] # "removed" THEN "pending" ELSE "torn"]

Promise == INSTANCE AtomicTransfer WITH outcome <- Outcome, answer <- told

\* The transaction over several backends implements one that applies at
\* once: it is decided once and for good, whoever crashes or recovers it,
\* and the host's answer agrees with what came about.
ImplementsAtomic == Promise!Spec

\* A transaction is applied to the very data the user was shown in the
\* preview (expected_revision), never to data changed since.
AppliedOnSeen ==
    [][\A b \in Backend, t \in Txn :
          t \in disk'[b].data.done \ disk[b].data.done => disk[b].data = op[t].seen[b]]_vars

\* No crash and no failed request leaves a store reserved, answering 423 to
\* the user, or a coordinator file behind for good.
EverythingSettles ==
    \A t \in Txn : (HasFile(t) \/ \E b \in Backend : disk[b].active = t)
                   ~> ~(HasFile(t) \/ \E b \in Backend : disk[b].active = t)
=============================================================================
