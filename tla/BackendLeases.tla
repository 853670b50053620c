----------------------------- MODULE BackendLeases ----------------------------
(***************************************************************************)
(* python-runtime/runtime.ts, InvestmentBackendManager: callers share one  *)
(* owned backend process.  It starts with the first acquire, in a flight   *)
(* others join; is verified before it is handed out again; stops with the  *)
(* last release; and may be cancelled, crash, answer badly or be disposed  *)
(* of at any await.  One backend id: ids share no state but the disposal.  *)
(* Promise reactions run before the next event: while some caller has one  *)
(* to run, nothing else happens.                                           *)
(***************************************************************************)
EXTENDS Integers, FiniteSets

CONSTANTS Caller,     \* callers of acquire
          Proc,       \* processes, with their ActiveEntry
          None,       \* no process
          MaxEvents   \* bound: crashes, failed probes, boots and waits,
                      \*   credential updates

ASSUME LeasesAssumption == IsFiniteSet(Caller) /\ None \notin Proc /\ MaxEvents \in Nat

VARIABLES call,     \* caller -> the await its acquire is at, idle or held,
                    \*   and the entry it awaits or holds
          active, refs, fresh,  \* the active entry, its refs and hasFreshHealth
          stopping, \* the entry whose stop is under way
          flight,   \* startup: phase, process and whether its signal is aborted
          probe,    \* process -> the health flight of its entry
          proc,     \* process -> up, ending or dead
          lost,     \* history: processes whose waitForExit failed
          life,     \* of the manager: live, or the await dispose is at
          events

vars == <<call, active, refs, fresh, stopping, flight, probe, proc, lost, life, events>>
entry == <<active, refs, fresh, stopping>>

NoFlight == [phase |-> "none", proc |-> None, aborted |-> FALSE]

Init ==
    /\ call = [c \in Caller |-> [at |-> "idle", of |-> None]]
    /\ active = None /\ refs = 0 /\ fresh = FALSE /\ stopping = None /\ flight = NoFlight
    /\ probe = [p \in Proc |-> "none"] /\ proc = [p \in Proc |-> "dead"]
    /\ lost = {} /\ life = "live" /\ events = 0

At(where) == {c \in Caller : call[c].at = where}
Holders(p) == {c \in Caller : call[c] = [at |-> "held", of |-> p]}
Disposed == life # "live"
Spend == events < MaxEvents /\ events' = events + 1

\* No promise reaction is left to run.
Drained == At("again") \cup At("checked") \cup At("granted") = {}

\* The calls when those of cs go on to where.
Moved(cs, where, p) == [c \in Caller |-> IF c \in cs THEN [at |-> where, of |-> p] ELSE call[c]]
Let(cs) == Moved(cs, "idle", None)

-----------------------------------------------------------------------------
(* acquire and release *)

\* acquire up to its first await on something; verifyActiveHealth joins the
\* health flight of the entry, and a fresh result is no wait at all.
Enter(c) ==
    /\ \/ /\ Disposed
          /\ call' = Let({c}) /\ UNCHANGED <<flight, probe>>
       \/ /\ ~Disposed /\ stopping # None
          /\ call' = Moved({c}, "stopped", None) /\ UNCHANGED <<flight, probe>>
       \/ /\ ~Disposed /\ stopping = None /\ active # None /\ UNCHANGED flight
          /\ IF fresh THEN call' = Moved({c}, "checked", active) /\ UNCHANGED probe
             ELSE /\ call' = Moved({c}, "probing", active)
                  /\ probe' = [probe EXCEPT ![active] = IF @ = "none" THEN "valid" ELSE @]
       \/ /\ ~Disposed /\ stopping = None /\ active = None /\ UNCHANGED probe
          /\ call' = Moved({c}, "flight", None)
          /\ flight' = IF flight = NoFlight THEN [NoFlight EXCEPT !.phase = "probing"] ELSE flight
    /\ UNCHANGED <<entry, proc, lost, life, events>>

Acquire(c) == Drained /\ call[c].at = "idle" /\ ~Disposed /\ Enter(c)
Again(c) == call[c].at = "again" /\ Enter(c)

Hold_Sets(c) == /\ call' = Moved({c}, "held", call[c].of) /\ refs' = 1
                /\ UNCHANGED <<active, fresh, stopping, flight, probe, proc, lost, life, events>>

\* The lease is taken in the same tick as the last look at the entry.
Hold(c) == /\ call' = Moved({c}, "held", call[c].of) /\ refs' = refs + 1
           /\ UNCHANGED <<active, fresh, stopping, flight, probe, proc, lost, life, events>>

StillActive_Identity(p) == active = p

\* What was verified may be gone by now, or on its way out.
StillActive(p) == active = p /\ stopping = None

Checked(c) == /\ call[c].at = "checked"
              /\ IF StillActive(call[c].of) THEN Hold(c) ELSE Enter(c)

\* The flight has landed.
Granted(c) == call[c].at = "granted" /\ Hold(c)

AbortFlight_Forget == flight' = NoFlight

\* The flight keeps its place until it has ended.
AbortFlight == flight' = [flight EXCEPT !.aborted = TRUE]

\* The caller's signal is aborted.  The last waiter aborts the flight, and
\* stays until it has ended.
Cancel(c) ==
    /\ Drained /\ call[c].at \in {"stopped", "probing", "flight"}
    /\ IF At("flight") = {c}
       THEN /\ call' = Moved({c}, "cancelled", None) /\ AbortFlight
       ELSE /\ call' = Let({c}) /\ UNCHANGED flight
    /\ UNCHANGED <<entry, probe, proc, lost, life, events>>

\* invalidateHealthFreshness: no probe that is under way counts any more.
Invalidate(p) == /\ fresh' = (fresh /\ active # p)
                 /\ probe' = [probe EXCEPT ![p] = IF @ = "valid" THEN "stale" ELSE @]

Terminate(p) == proc' = [proc EXCEPT ![p] = IF @ = "up" THEN "ending" ELSE @]

\* release, once per lease; the last one stops the process.
Release(c) ==
    LET p == call[c].of IN
    /\ Drained /\ call[c].at = "held" /\ call' = Let({c})
    /\ refs' = IF active = p THEN refs - 1 ELSE refs
    /\ IF active = p /\ refs = 1
       THEN /\ Invalidate(p)
            /\ IF stopping = None THEN stopping' = p /\ Terminate(p) ELSE UNCHANGED <<stopping, proc>>
       ELSE UNCHANGED <<fresh, stopping, probe, proc>>
    /\ UNCHANGED <<active, flight, lost, life, events>>

-----------------------------------------------------------------------------
(* The process and its health *)

\* stop has ended: the waiters go on when the tree is gone, and fail when
\* that cannot be told.
Stopped ==
    /\ Drained /\ stopping # None
    /\ \/ /\ proc[stopping] = "dead" /\ UNCHANGED <<lost, events>>
          /\ call' = Moved(At("stopped"), "again", None)
          /\ active' = None /\ refs' = 0 /\ fresh' = FALSE
       \/ /\ Spend /\ lost' = lost \cup {stopping}
          /\ call' = Let(At("stopped")) /\ UNCHANGED <<active, refs, fresh>>
    /\ stopping' = None /\ UNCHANGED <<flight, probe, proc, life>>

\* A process told to end ends; any other may crash.  observeOwnedExit sees it.
Exit(p) ==
    /\ Drained
    /\ \/ proc[p] = "ending" /\ UNCHANGED events
       \/ proc[p] = "up" /\ Spend
    /\ proc' = [proc EXCEPT ![p] = "dead"]
    /\ IF active = p THEN Invalidate(p) ELSE UNCHANGED <<fresh, probe>>
    /\ UNCHANGED <<call, active, refs, stopping, flight, lost, life>>

\* healthFreshnessMs have passed.
Age == /\ Drained /\ fresh /\ fresh' = FALSE
       /\ UNCHANGED <<call, active, refs, stopping, flight, probe, proc, lost, life, events>>

CredentialUpdated == /\ Drained /\ active # None /\ ~Disposed /\ Spend /\ Invalidate(active)
                     /\ UNCHANGED <<call, active, refs, stopping, flight, proc, lost, life>>

\* The health flight of p ends.  An answer that was overtaken is asked for
\* again, unless the entry is on its way out.
ProbeEnds(p) ==
    LET waiting == {c \in At("probing") : call[c].of = p}
    IN /\ Drained /\ probe[p] # "none"
       /\ \E healthy \in BOOLEAN :
            /\ healthy => proc[p] # "dead"
            /\ IF healthy \/ proc[p] # "up" THEN UNCHANGED events ELSE Spend
            /\ fresh' = IF probe[p] = "valid" /\ active = p THEN healthy ELSE fresh
            /\ IF probe[p] = "stale" /\ StillActive(p) /\ waiting # {}
               THEN probe' = [probe EXCEPT ![p] = "valid"] /\ UNCHANGED call
               ELSE /\ probe' = [probe EXCEPT ![p] = "none"]
                    /\ call' = IF healthy \/ probe[p] = "stale" THEN Moved(waiting, "checked", p) ELSE Let(waiting)
       /\ UNCHANGED <<active, refs, stopping, flight, proc, lost, life>>

-----------------------------------------------------------------------------
(* The startup flight *)

Rejected_Waiters == flight' = NoFlight /\ call' = Let(At("flight"))

\* The flight ends without an entry: its waiters are rejected, and the caller
\* that waits for the end of what it has cancelled is let go.
Rejected == /\ flight' = NoFlight /\ call' = Let(At("flight") \cup At("cancelled"))

\* A process is spawned under a new identity.
Fresh == {p \in Proc : proc[p] = "dead" /\ probe[p] = "none" /\ p \notin {active, stopping}
                       /\ \A c \in Caller : call[c].of # p}

\* Nothing listens yet, paths and credentials are there; or something of it
\* fails, the abort of the signal included.
Spawn ==
    /\ Drained /\ flight.phase = "probing" /\ UNCHANGED <<entry, probe, life>>
    /\ \/ /\ ~flight.aborted /\ UNCHANGED <<call, events>> /\ Fresh # {}
          /\ LET p == CHOOSE q \in Fresh : TRUE
             IN /\ proc' = [proc EXCEPT ![p] = "up"] /\ lost' = lost \ {p}
                /\ flight' = [flight EXCEPT !.phase = "booting", !.proc = p]
       \/ /\ IF flight.aborted THEN UNCHANGED events ELSE Spend
          /\ Rejected /\ UNCHANGED <<proc, lost>>

\* It is healthy, and its state file is written; or it is ended: it was not
\* healthy in time, has exited, the signal is aborted, the file fails.
Boot ==
    /\ Drained /\ UNCHANGED <<call, entry, probe, lost, life>>
    /\ \/ /\ flight.phase = "booting" /\ ~flight.aborted /\ proc[flight.proc] = "up"
          /\ flight' = [flight EXCEPT !.phase = "writing"] /\ UNCHANGED <<proc, events>>
       \/ /\ flight.phase \in {"booting", "writing"}
          /\ IF flight.phase = "booting" /\ (flight.aborted \/ proc[flight.proc] # "up")
             THEN UNCHANGED events ELSE Spend
          /\ Terminate(flight.proc) /\ flight' = [flight EXCEPT !.phase = "failing"]

\* The abort of the flight's signal also reaches the process it was given to.
Reaped == /\ Drained /\ flight.aborted /\ flight.phase \in {"booting", "writing"} /\ proc[flight.proc] = "up"
          /\ Terminate(flight.proc)
          /\ UNCHANGED <<call, entry, flight, probe, lost, life, events>>

Unwanted_Disposed == Disposed

\* Nobody is left to take what has been started.
Unwanted == Disposed \/ At("flight") = {}

\* start has returned: the entry is published and granted, or stopped.
Land ==
    /\ Drained /\ flight.phase = "writing"
    /\ IF Unwanted
       THEN /\ Terminate(flight.proc) /\ flight' = [flight EXCEPT !.phase = "undoing"]
            /\ UNCHANGED <<call, entry>>
       ELSE /\ active' = flight.proc /\ refs' = 0 /\ fresh' = (proc[flight.proc] # "dead")
            /\ call' = [c \in Caller |-> CASE call[c].at = "flight" -> [at |-> "granted", of |-> flight.proc]
                                           [] call[c].at = "cancelled" -> [at |-> "idle", of |-> None]
                                           [] OTHER -> call[c]]
            /\ flight' = NoFlight /\ UNCHANGED <<stopping, proc>>
    /\ UNCHANGED <<probe, lost, life, events>>

\* The process of a failed flight has been waited for; if the wait of
\* failOwned fails, the entry is retained, with failed health.
Ended ==
    /\ Drained /\ flight.phase \in {"failing", "undoing"} /\ Rejected
    /\ \/ /\ proc[flight.proc] = "dead" /\ UNCHANGED <<entry, lost, events>>
       \/ /\ Spend /\ lost' = lost \cup {flight.proc} /\ UNCHANGED stopping
          /\ IF flight.phase = "failing" THEN active' = flight.proc /\ refs' = 0 /\ fresh' = FALSE
             ELSE UNCHANGED <<active, refs, fresh>>
    /\ UNCHANGED <<probe, proc, life>>

-----------------------------------------------------------------------------
(* dispose *)

\* New work is refused, every probe and every flight is aborted.
Dispose ==
    /\ Drained /\ life = "live" /\ life' = "flights"
    /\ call' = Let(At("probing")) /\ probe' = [p \in Proc |-> "none"] /\ fresh' = FALSE
    /\ flight' = IF flight = NoFlight THEN flight ELSE [flight EXCEPT !.aborted = TRUE]
    /\ UNCHANGED <<active, refs, stopping, proc, lost, events>>

FlightsEnded == flight = NoFlight

\* The flights, then the stops of that moment have ended; the rest is stopped.
DisposeGoesOn ==
    /\ Drained /\ UNCHANGED <<call, entry, flight, probe, lost, events>>
    /\ \/ life = "flights" /\ FlightsEnded /\ life' = "stops" /\ UNCHANGED proc
       \/ /\ life = "stops" /\ stopping = None /\ life' = "entries"
          /\ IF active = None THEN UNCHANGED proc ELSE Terminate(active)

DisposeEnds ==
    /\ Drained /\ life = "entries"
    /\ \/ /\ active # None => proc[active] = "dead"
          /\ life' = "disposed" /\ active' = None /\ refs' = 0 /\ UNCHANGED <<lost, events>>
       \/ /\ active # None /\ Spend /\ lost' = lost \cup {active}
          /\ life' = "failed" /\ UNCHANGED <<active, refs>>
    /\ UNCHANGED <<call, fresh, stopping, flight, probe, proc>>

-----------------------------------------------------------------------------
Reactions == \E c \in Caller : Again(c) \/ Checked(c) \/ Granted(c)
Starting == Spawn \/ Boot \/ Land \/ Ended
Disposal == DisposeGoesOn \/ DisposeEnds

Next ==
    \/ Reactions \/ Starting \/ Disposal \/ Stopped \/ Reaped
    \/ \E c \in Caller : Acquire(c) \/ Cancel(c) \/ Release(c)
    \/ \E p \in Proc : Exit(p) \/ ProbeEnds(p)
    \/ Age \/ CredentialUpdated \/ Dispose

\* Reactions run; a boot is timed and so is a probe; a process that is told to
\* end does, and the end is noticed.
FairSpec == /\ Init /\ [][Next]_vars
            /\ WF_vars(Reactions) /\ WF_vars(Starting) /\ WF_vars(Disposal) /\ WF_vars(Stopped)
            /\ \A p \in Proc : WF_vars(proc[p] = "ending" /\ Exit(p)) /\ WF_vars(ProbeEnds(p))

-----------------------------------------------------------------------------
(* Properties *)

Running == {p \in Proc : proc[p] # "dead"}

\* Type invariant; the count of the active entry is that of the leases its
\* callers hold: it neither stops under a caller nor stays up for one that
\* has gone.
TypeOK ==
    /\ \A c \in Caller : /\ call[c].at \in {"idle", "held", "stopped", "probing", "flight", "cancelled",
                                            "again", "checked", "granted"}
                         /\ call[c].of \in (IF call[c].at \in {"held", "probing", "checked", "granted"}
                                            THEN Proc ELSE {None})
    /\ {active, stopping} \subseteq Proc \cup {None} /\ fresh \in BOOLEAN
    /\ flight.phase \in {"none", "probing", "booting", "writing", "failing", "undoing"}
    /\ flight.aborted \in BOOLEAN
    /\ flight.proc \in (IF flight.phase \in {"none", "probing"} THEN {None} ELSE Proc)
    /\ probe \in [Proc -> {"none", "valid", "stale"}] /\ proc \in [Proc -> {"up", "ending", "dead"}]
    /\ lost \subseteq Proc /\ life \in {"live", "flights", "stops", "entries", "disposed", "failed"}
    /\ events \in 0..MaxEvents /\ refs \in 0..Cardinality(Caller)
    /\ active # None => refs = Cardinality(Holders(active))

\* A backend has one process at a time, whatever flights, stops and retries
\* overlap; one whose end could not be told is not counted.
OneProcess == Cardinality(Running \ lost) <= 1

\* Nobody holds a lease on a process that a release is stopping.
NotStoppedInUse == stopping # None => Holders(stopping) = {}

\* A process nobody holds is being started, stopped or disposed of: none stays
\* up for a caller that was cancelled, or for nobody; and none at all is up
\* after a dispose that did not fail.
NothingLeftRunning ==
    /\ Drained => \A p \in Running \ lost :
          Holders(p) # {} \/ p \in {stopping, flight.proc} \/ Disposed
    /\ life = "disposed" => Running \subseteq lost

\* Every acquire ends in a lease or an error, unless other callers go on
\* releasing for ever: each release takes the entry from under a probe.
\* dispose ends too.
CallsEnd ==
    /\ \A c \in Caller : \/ []<>(c \in At("idle") \cup At("held"))
                         \/ []<><<\E d \in Caller \ {c} : Release(d)>>_vars
    /\ Disposed ~> (life \in {"disposed", "failed"})
=============================================================================
