------------------------------ MODULE Mandates ------------------------------
(***************************************************************************)
(* The mandate aggregate of research_partner: MandateService's commands    *)
(* over the rows of mandates, mandate_requirements, tracking_dependencies, *)
(* mandate_schedules, event_outbox and the open research_jobs.             *)
(*                                                                         *)
(* A command is one BEGIN IMMEDIATE transaction, hence one action.  What a *)
(* command refuses changes nothing and is left out.  Data is reduced to    *)
(* what decides later steps: a request is the requirements it opens,       *)
(* whether it subscribes to outside events and whether it has a schedule.  *)
(***************************************************************************)
EXTENDS Integers, Sequences, FiniteSets

CONSTANTS MandateIds,    \* mandates that may come to exist
          Requirements,  \* requirement ids, each opened at most once
          MaxRevision,   \* bound: revisions per mandate
          MaxEvents      \* bound: rows of event_outbox

ASSUME MandatesAssumption == /\ MaxRevision \in Nat \ {0}
                             /\ MaxEvents \in Nat

VARIABLES status,    \* mandates.status ("absent": no row yet)
          revision,  \* mandates.current_revision
          reqs,      \* mandate_requirements: owner, revision and state of each
          deps,      \* revisions with active rows in tracking_dependencies
          scheds,    \* revisions with enabled rows in mandate_schedules
          jobs,      \* research_jobs: a set of rows
          outbox     \* event_outbox, in order of insertion

mandateVars == <<status, revision, reqs, deps, scheds, jobs, outbox>>

-----------------------------------------------------------------------------
MandateStatuses == {"pending_requirements", "tracking", "paused", "ended"}
Revisions == 1 .. MaxRevision

(* told is the status a reader of the event takes the mandate to have: it   *)
(* is in the payload of created and revised, and in the name of the others. *)
ToldBy == [tracking |-> {"mandate.resumed", "mandate.requirements_completed"},
           paused |-> {"mandate.paused"},
           ended |-> {"mandate.ended"},
           pending_requirements |-> {"mandate.review_requested"}]
Event(hook, m, r, told) ==
    [hook |-> hook, mandate |-> m, revision |-> r, told |-> told]
NamedEvent(hook, m, r) ==
    Event(hook, m, r, CHOOSE s \in DOMAIN ToldBy : hook \in ToldBy[s])

Init == /\ status = [m \in MandateIds |-> "absent"]
        /\ revision = [m \in MandateIds |-> 0]
        /\ reqs = [q \in Requirements |-> [state |-> "absent"]]
        /\ deps = [m \in MandateIds |-> {}]
        /\ scheds = [m \in MandateIds |-> {}]
        /\ jobs = {}
        /\ outbox = <<>>

Exists(m) == status[m] # "absent"
Emit(events) == /\ Len(outbox) + Len(events) <= MaxEvents
                /\ outbox' = outbox \o events

\* list_requirements(status="open"): of every revision.
OpenRequirements(m) ==
    {q \in Requirements : reqs[q].state = "open" /\ reqs[q].mandate = m}

Fresh == {q \in Requirements : reqs[q].state = "absent"}

\* _insert_requirements for the rows of one revision.
OpenThese(needs, m, r) ==
    reqs' = [q \in Requirements |->
               IF q \in needs THEN [state |-> "open", mandate |-> m, revision |-> r]
                              ELSE reqs[q]]

RowsOf(flag, r) == IF flag THEN {r} ELSE {}

-----------------------------------------------------------------------------
(* MandateService._create, with create_mandate and replace_schedules *)
Create(m, needs, watch, timed) ==
    /\ ~Exists(m) /\ needs \subseteq Fresh
    /\ LET first == IF needs # {} THEN "pending_requirements" ELSE "tracking"
           created == Event("mandate.created", m, 1, first)
       IN  /\ status' = [status EXCEPT ![m] = first]
           /\ Emit(IF needs # {}
                   THEN <<created, NamedEvent("mandate.review_requested", m, 1)>>
                   ELSE <<created>>)
    /\ revision' = [revision EXCEPT ![m] = 1]
    /\ OpenThese(needs, m, 1)
    /\ deps' = [deps EXCEPT ![m] = RowsOf(watch, 1)]
    /\ scheds' = [scheds EXCEPT ![m] = RowsOf(timed, 1)]
    /\ UNCHANGED jobs

\* Mutant: a paused mandate is revised back to life.
NextStatus_Unpauses(current, needs) ==
    IF needs # {} THEN "pending_requirements" ELSE "tracking"

\* _next_status: only the new revision's requirements count.
NextStatus(current, needs) ==
    IF current \in {"pending_requirements", "tracking"}
    THEN IF needs # {} THEN "pending_requirements" ELSE "tracking"
    ELSE current

\* The refusals _revise and add_revision share.
MayRevise(m, expected) == /\ Exists(m) /\ status[m] # "ended"
                          /\ revision[m] = expected

\* Mutant: the rows of earlier revisions stay.
ReplaceRows_Adds(rows, m, flag, r) == [rows EXCEPT ![m] = @ \cup RowsOf(flag, r)]

\* Rows of earlier revisions are switched off, those of the new one inserted.
ReplaceRows(rows, m, flag, r) == [rows EXCEPT ![m] = RowsOf(flag, r)]

(* MandateService._revise, with add_revision and replace_schedules *)
Revise(m, expected, needs, watch, timed) ==
    /\ MayRevise(m, expected) /\ expected < MaxRevision
    /\ needs \subseteq Fresh
    /\ LET next == NextStatus(status[m], needs)
           r == expected + 1
           revised == Event("mandate.revised", m, r, next)
       IN  /\ status' = [status EXCEPT ![m] = next]
           /\ revision' = [revision EXCEPT ![m] = r]
           /\ OpenThese(needs, m, r)
           /\ deps' = ReplaceRows(deps, m, watch, r)
           /\ scheds' = ReplaceRows(scheds, m, timed, r)
           /\ Emit(IF next = "pending_requirements"
                   THEN <<revised, NamedEvent("mandate.review_requested", m, r)>>
                   ELSE <<revised>>)
    /\ UNCHANGED jobs

\* The job rows after set_status: pausing and ending cancel what is open.
CancelOpen(m, to) ==
    {IF j.mandate = m /\ j.state = "open" /\ to \in {"paused", "ended"}
     THEN [j EXCEPT !.state = "cancelled"] ELSE j : j \in jobs}

\* set_status, with its table of allowed transitions.
Allowed(from, to) ==
    \/ from = "pending_requirements" /\ to \in {"tracking", "paused", "ended"}
    \/ from = "tracking" /\ to \in {"pending_requirements", "paused", "ended"}
    \/ from = "paused" /\ to \in {"pending_requirements", "tracking", "ended"}

SetStatus(m, to, hook) ==
    /\ Allowed(status[m], to)
    /\ status' = [status EXCEPT ![m] = to]
    /\ jobs' = CancelOpen(m, to)
    /\ deps' = IF to = "ended" THEN [deps EXCEPT ![m] = {}] ELSE deps
    /\ Emit(<<NamedEvent(hook, m, revision[m])>>)

\* Mutant: a resumption that has to wait is announced as one that does not.
EventByStatus_Resumed ==
    [tracking |-> "mandate.resumed", paused |-> "mandate.paused",
     ended |-> "mandate.ended", pending_requirements |-> "mandate.resumed"]

EventByStatus == [tracking |-> "mandate.resumed", paused |-> "mandate.paused",
                  ended |-> "mandate.ended",
                  pending_requirements |-> "mandate.review_requested"]

\* Mutant: resuming goes straight back to tracking.
Effective_Direct(m, target) == target

\* A resumed mandate with anything open waits for it.
Effective(m, target) ==
    IF target = "tracking" /\ OpenRequirements(m) # {}
    THEN "pending_requirements" ELSE target

(* MandateService._apply_status: pause, resume and end.  A command whose    *)
(* target is reached already answers with the mandate as it is.             *)
ApplyStatus(m, expected, target) ==
    /\ Exists(m) /\ revision[m] = expected
    /\ status[m] = "ended" => target = "ended"
    /\ LET to == Effective(m, target)
       IN  IF to = status[m]
           THEN UNCHANGED <<status, jobs, deps, outbox>>
           ELSE SetStatus(m, to, EventByStatus[to])
    /\ UNCHANGED <<revision, reqs, scheds>>

\* What is open once q is closed.
StillOpen(m, q) == OpenRequirements(m) \ {q}

(* MandateService._resolve_requirement: closing the last open requirement   *)
(* of a waiting mandate starts tracking.  Closing a closed one again only   *)
(* looks at the mandate once more.                                          *)
ResolveRequirement(m, q) ==
    /\ Exists(m) /\ reqs[q].state # "absent" /\ reqs[q].mandate = m
    /\ reqs' = [reqs EXCEPT ![q].state = "closed"]
    /\ IF StillOpen(m, q) = {} /\ status[m] = "pending_requirements"
       THEN SetStatus(m, "tracking", "mandate.requirements_completed")
       ELSE UNCHANGED <<status, jobs, deps, outbox>>
    /\ UNCHANGED <<revision, scheds>>

-----------------------------------------------------------------------------
(* Properties *)

TypeOK ==
    /\ status \in [MandateIds -> MandateStatuses \cup {"absent"}]
    /\ revision \in [MandateIds -> 0 .. MaxRevision]
    /\ reqs \in [Requirements ->
                   [state : {"absent"}]
                     \cup [state : {"open", "closed"}, mandate : MandateIds,
                           revision : Revisions]]
    /\ deps \in [MandateIds -> SUBSET Revisions]
    /\ scheds \in [MandateIds -> SUBSET Revisions]
    /\ Len(outbox) <= MaxEvents

\* A waiting mandate waits for something, so that closing requirements can
\* start it; a mandate tracks only when its current revision lacks nothing.
WaitsForSomething ==
    \A m \in MandateIds :
        /\ status[m] = "pending_requirements" => OpenRequirements(m) # {}
        /\ status[m] = "tracking" =>
              \A q \in OpenRequirements(m) : reqs[q].revision # revision[m]

\* Whoever follows the outbox knows the mandate: its last event tells the
\* status it has, and each revision is announced exactly once, by one author.
OutboxTellsTheMandate ==
    /\ \A i \in 1 .. Len(outbox) :
          LET m == outbox[i].mandate
          IN  (\A k \in i + 1 .. Len(outbox) : outbox[k].mandate # m)
                => outbox[i].told = status[m]
    /\ \A m \in MandateIds : \A r \in Revisions :
          Cardinality({i \in 1 .. Len(outbox) :
                          /\ outbox[i].mandate = m /\ outbox[i].revision = r
                          /\ outbox[i].hook \in {"mandate.created", "mandate.revised"}})
            = IF r <= revision[m] THEN 1 ELSE 0

\* Old revisions route nothing: dependencies and schedules in force are those
\* of the current revision, and an ended mandate has no dependencies.
OnlyCurrentInForce ==
    \A m \in MandateIds : /\ deps[m] \cup scheds[m] \subseteq {revision[m]}
                          /\ status[m] = "ended" => deps[m] = {}
=============================================================================
