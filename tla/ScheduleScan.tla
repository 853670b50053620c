----------------------------- MODULE ScheduleScan -----------------------------
(***************************************************************************)
(* schedules.ScheduleService and the schedule rows of one mandate: ticks   *)
(* of several threads turn due instances into schedule.due events and move *)
(* the rows on, while the user revises, pauses and resumes.  The calendar  *)
(* rule of every revision is a set of instants.                            *)
(***************************************************************************)
EXTENDS Integers, FiniteSets, FiniteSetsExt

CONSTANTS Threads,    \* threads that run tick
          Fires,      \* the instants the calendar rule has
          Catchup,    \* catchup_seconds
          PerScan,    \* max_instances_per_scan
          MaxNow,     \* bound: the clock
          MaxRev,     \* bound: revisions
          MaxPauses,  \* bound: pauses
          MaxAborts   \* bound: scans cut off by a crash or an error

ASSUME ScheduleAssumption == /\ Fires \subseteq Nat \ {0} /\ Fires # {}
                             /\ {Catchup, MaxNow, MaxPauses, MaxAborts} \subseteq Nat
                             /\ {PerScan, MaxRev} \subseteq Nat \ {0}

VARIABLES now,      \* the clock
          status,   \* the mandate's status
          rev,      \* its current revision
          rows,     \* its schedule rows, one per revision that has a schedule
          events,   \* the schedule.due events recorded
          missed,   \* history: the instances a scan counted as skipped
          scan,     \* what each thread's scan holds in its variables
          pauses, aborts

vars == <<now, status, rev, rows, events, missed, scan, pauses, aborts>>

-----------------------------------------------------------------------------
Revs == 1 .. MaxRev
Never == 0  \* next_after's None

\* next_after; without an instant within a year the schedule ends.
NextInstance(i) ==
    LET later == {f \in Fires : f > i} IN IF later = {} THEN Never ELSE Min(later)

\* compile_schedules and the row replace_schedules inserts.
NewRow(at) == [enabled |-> TRUE, due |-> NextInstance(at), skipped |-> 0, created |-> at]
NoRow == [enabled |-> FALSE, due |-> Never, skipped |-> 0, created |-> 0]

Idle == [todo |-> {}, row |-> 0, at |-> 0, inst |-> 0, left |-> 0, skipped |-> 0,
         over |-> FALSE]

Init == /\ now = 0 /\ status = "tracking" /\ rev = 1
        /\ rows = [r \in Revs |-> IF r = 1 THEN NewRow(0) ELSE NoRow]
        /\ events = {} /\ missed = {}
        /\ scan = [t \in Threads |-> Idle]
        /\ pauses = 0 /\ aborts = 0

-----------------------------------------------------------------------------
(* The user and the clock *)

Tick == /\ now < MaxNow /\ now' = now + 1
        /\ UNCHANGED <<status, rev, rows, events, missed, scan, pauses, aborts>>

SetStatus(from, to) ==
    /\ status = from /\ status' = to
    /\ UNCHANGED <<now, rev, rows, events, missed, scan, aborts>>

Pause == pauses < MaxPauses /\ SetStatus("tracking", "paused") /\ pauses' = pauses + 1
Resume == SetStatus("paused", "tracking") /\ UNCHANGED pauses

\* A revision turns the mandate's rows off and adds its own, if its policy has
\* a schedule; a rule with nothing ahead is refused.
Revise(has) ==
    /\ rev < MaxRev /\ rev' = rev + 1
    /\ has => NextInstance(now) # Never
    /\ rows' = [r \in Revs |-> IF r = rev' /\ has THEN NewRow(now)
                               ELSE [rows[r] EXCEPT !.enabled = FALSE]]
    /\ UNCHANGED <<now, status, events, missed, scan, pauses, aborts>>

-----------------------------------------------------------------------------
(* One scan *)

\* Mutant: due only when the instant has passed.
IsDue_Past(r) == rows[r].enabled /\ status = "tracking" /\ rows[r].due < now
IsDue(r) == rows[r].enabled /\ status = "tracking" /\ rows[r].due <= now

\* A scan that began at an instant and has these schedules to do.
Waiting(at, todo) == [Idle EXCEPT !.at = at, !.todo = todo]

\* list_due_schedules: one snapshot of the rows that are due.
List(t) ==
    /\ scan[t] = Idle
    /\ \E r \in Revs : IsDue(r)
    /\ LET due == {[row |-> r, due |-> rows[r].due] : r \in {s \in Revs : IsDue(s)}}
       IN scan' = [scan EXCEPT ![t] = Waiting(now, due)]
    /\ UNCHANGED <<now, status, rev, rows, events, missed, pauses, aborts>>

\* _scan_one's variables for the schedule it takes up.
Taken(s, e) == [s EXCEPT !.todo = @ \ {e}, !.row = e.row, !.inst = e.due, !.left = PerScan]

\* The schedule that is due first comes first.
Take(t) ==
    /\ scan[t].row = 0
    /\ \E e \in scan[t].todo :
          /\ \A f \in scan[t].todo : e.due <= f.due
          /\ scan' = [scan EXCEPT ![t] = Taken(scan[t], e)]
    /\ UNCHANGED <<now, status, rev, rows, events, missed, pauses, aborts>>

More(t) == scan[t].inst <= scan[t].at /\ scan[t].left > 0 /\ ~scan[t].over

\* Mutant: instances older than the window are dropped without a count.
Counted_Not(t) == 0
Counted(t) == 1

\* Mutant: the search for the next instance starts now.
From_Now(t) == scan[t].at
From(t) == scan[t].inst

\* The variables after an instance: what it added to the count, and the next one.
Handled(s, counted, next) == [s EXCEPT !.left = @ - 1, !.skipped = @ + counted,
                                       !.over = (next = Never),
                                       !.inst = IF next = Never THEN @ ELSE next]

\* One instance: an event while the catch-up window lasts (record_event keeps
\* one per schedule and instance), otherwise it counts as skipped.
Instance(t) ==
    /\ scan[t].row # 0 /\ More(t)
    /\ LET s == scan[t]  next == NextInstance(From(t))
           recent == s.at - s.inst <= Catchup
       IN /\ events' = IF recent THEN events \cup {<<s.row, s.inst>>} ELSE events
          /\ missed' = IF recent THEN missed ELSE missed \cup {<<s.row, s.inst>>}
          /\ scan' = [scan EXCEPT ![t] = Handled(s, IF recent THEN 0 ELSE Counted(t), next)]
    /\ UNCHANGED <<now, status, rev, rows, pauses, aborts>>

\* The row as a scan leaves it.
MovedOn(old, s) == [old EXCEPT !.due = s.inst, !.skipped = @ + s.skipped, !.enabled = ~s.over]

\* advance_schedule writes the row whatever became of it meanwhile.
Advance(t) ==
    /\ scan[t].row # 0 /\ ~More(t)
    /\ LET s == scan[t]
       IN /\ rows' = [rows EXCEPT ![s.row] = MovedOn(rows[s.row], s)]
          /\ scan' = [scan EXCEPT ![t] = IF s.todo = {} THEN Idle ELSE Waiting(s.at, s.todo)]
    /\ UNCHANGED <<now, status, rev, events, missed, pauses, aborts>>

\* A crash, or an error of the store: tick ends.
Abort(t) ==
    /\ scan[t] # Idle
    /\ aborts < MaxAborts /\ aborts' = aborts + 1
    /\ scan' = [scan EXCEPT ![t] = Idle]
    /\ UNCHANGED <<now, status, rev, rows, events, missed, pauses>>

-----------------------------------------------------------------------------
Scan(t) == List(t) \/ Take(t) \/ Instance(t) \/ Advance(t)

Next == \/ Tick \/ Pause \/ Resume
        \/ \E has \in BOOLEAN : Revise(has)
        \/ \E t \in Threads : Scan(t) \/ Abort(t)

Spec == Init /\ [][Next]_vars

\* Each thread keeps ticking.
FairSpec == Spec /\ \A t \in Threads : WF_vars(Scan(t))

-----------------------------------------------------------------------------
(* Properties *)

TypeOK ==
    /\ now \in 0 .. MaxNow /\ status \in {"tracking", "paused"} /\ rev \in Revs
    /\ \A r \in Revs : /\ rows[r].enabled \in BOOLEAN /\ rows[r].skipped \in Nat
                       /\ rows[r].due \in Fires \cup {Never}
                       /\ rows[r].enabled => rows[r].due \in Fires
    /\ events \cup missed \subseteq Revs \X Fires
    /\ \A t \in Threads : /\ scan[t].left \in 0 .. PerScan
                          /\ scan[t].row # 0 => scan[t].inst \in Fires

\* The instances a row's due date has passed by.
Passed(r) == {i \in Fires : rows[r].created < i /\ i < rows[r].due}

\* However scans overlap, stop halfway or lag behind, no instance of a schedule
\* is jumped over: it has its event, or it was counted as skipped.
PassedIsAccounted ==
    \A r \in Revs : \A i \in Passed(r) : <<r, i>> \in events \cup missed

\* skipped_missed owns up to every instance that passed without an event, also
\* when scans overlap or are cut off before they write the row.
SkippedIsCounted ==
    \A r \in Revs : rows[r].skipped >= Cardinality({i \in Passed(r) : <<r, i>> \notin events})

IsDueNow(r) == rows[r].enabled /\ status = "tracking" /\ rows[r].due <= now

\* A due schedule of a tracking mandate is worked off, ten instances at a time,
\* until it is due in the future.
DueIsWorkedOff ==
    \A r \in Revs : IsDueNow(r) ~> ~IsDueNow(r)
=============================================================================
