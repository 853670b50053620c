-------------------------- MODULE BackendLeases_proof -------------------------
(***************************************************************************)
(* Proofs about BackendLeases for any finite set of callers and any set of *)
(* processes: the count of leases is right, a backend has one process, and *)
(* nobody holds one that is being stopped or keeps one nobody wants.       *)
(*                                                                         *)
(* The count is checked against the leases callers hold; it starts anew    *)
(* with a process no caller has ever heard of.  One process at a time      *)
(* rests on a flight beginning only when there is no entry and no stop,    *)
(* and on neither coming about while it lasts.                             *)
(***************************************************************************)
EXTENDS BackendLeases, FiniteSetTheorems, TLAPS

Awaits == {"idle", "held", "stopped", "probing", "flight", "cancelled", "again", "checked", "granted"}
Phases == {"none", "probing", "booting", "writing", "failing", "undoing"}

Types ==
    /\ call \in [Caller -> [at : Awaits, of : Proc \cup {None}]]
    /\ {active, stopping} \subseteq Proc \cup {None} /\ fresh \in BOOLEAN
    /\ flight \in [phase : Phases, proc : Proc \cup {None}, aborted : BOOLEAN]
    /\ probe \in [Proc -> {"none", "valid", "stale"}] /\ proc \in [Proc -> {"up", "ending", "dead"}]
    /\ lost \subseteq Proc /\ life \in {"live", "flights", "stops", "entries", "disposed", "failed"}
    /\ events \in 0..MaxEvents /\ refs \in 0..Cardinality(Caller)

\* Whom a call is about; what a flight has granted is the entry, at rest.
CallInv ==
    \A c \in Caller :
        /\ call[c].of # None <=> call[c].at \in {"held", "probing", "checked", "granted"}
        /\ call[c].at = "granted" => call[c].of = active /\ stopping = None

\* There is a flight for those that wait for it, and then no entry and no
\* stop; nobody has heard of its process.
FlightInv ==
    /\ flight.phase = "none" => flight = NoFlight
    /\ flight.proc = None <=> flight.phase \in {"none", "probing"}
    /\ At("flight") \cup At("cancelled") # {} => flight # NoFlight
    /\ flight # NoFlight => active = None /\ stopping = None
    /\ \A c \in Caller : flight.proc # None => call[c].of # flight.proc
    /\ life \notin {"live", "flights"} => flight = NoFlight

CountInv == active # None => refs = Cardinality(Holders(active))

StopInv == stopping # None => Holders(stopping) = {} /\ active \in {stopping, None}

\* Where a process is that runs, and why.
ProcInv ==
    /\ Running \ lost \subseteq {active, flight.proc}
    /\ life = "disposed" => active = None
    /\ life = "live" /\ active \in Running \ lost =>
          Holders(active) # {} \/ stopping = active \/ At("granted") # {}

IInv == Types /\ CallInv /\ FlightInv /\ CountInv /\ StopInv /\ ProcInv

-----------------------------------------------------------------------------
(* Counting *)

LEMMA HoldersAreCounted ==
    ASSUME LeasesAssumption, NEW p
    PROVE  /\ IsFiniteSet(Holders(p)) /\ Cardinality(Holders(p)) \in Nat
           /\ Cardinality(Holders(p)) <= Cardinality(Caller) /\ Cardinality(Caller) \in Nat
<1>1. Holders(p) \subseteq Caller
  BY DEF Holders
<1>2. IsFiniteSet(Holders(p)) /\ Cardinality(Holders(p)) <= Cardinality(Caller)
  BY <1>1, FS_Subset DEF LeasesAssumption
<1> QED BY <1>2, FS_CardinalityType DEF LeasesAssumption

\* Calls that neither take nor give a lease leave all holders alone.
LEMMA SameHolders ==
    ASSUME \A c \in Caller : call[c].at = "held" \/ call'[c].at = "held" => call'[c] = call[c]
    PROVE  \A p : Holders(p)' = Holders(p)
BY DEF Holders

-----------------------------------------------------------------------------
(* The actions of a caller *)

LEMMA IInvAtInit == ASSUME LeasesAssumption, Init PROVE IInv
<1> USE DEF Init
<1>1. Types
  <2>1. call \in [Caller -> [at : Awaits, of : Proc \cup {None}]]
    BY DEF Awaits
  <2>2. flight \in [phase : Phases, proc : Proc \cup {None}, aborted : BOOLEAN]
    BY DEF NoFlight, Phases
  <2>3. refs \in 0 .. Cardinality(Caller) /\ events \in 0 .. MaxEvents
    BY FS_CardinalityType DEF LeasesAssumption
  <2> QED BY <2>1, <2>2, <2>3 DEF Types
<1>2. CallInv /\ FlightInv
  BY DEF CallInv, FlightInv, At, NoFlight, LeasesAssumption
<1>3. CountInv /\ StopInv
  BY DEF CountInv, StopInv
<1>4. ProcInv
  BY DEF ProcInv, Running, NoFlight, LeasesAssumption
<1> QED BY <1>1, <1>2, <1>3, <1>4 DEF IInv

\* acquire, up to its first await, of a caller that holds nothing.
LEMMA EnterKeepsIInv ==
    ASSUME LeasesAssumption, IInv, NEW c \in Caller, call[c].at \in {"idle", "again", "checked"}, Enter(c)
    PROVE  IInv'
<1> USE DEF IInv, Let, Moved
<1>1. UNCHANGED <<active, refs, fresh, stopping, proc, lost, life, events>>
  BY DEF Enter, entry
<1>2. \A d \in Caller \ {c} : call'[d] = call[d]
  BY DEF Enter
<1>3. \/ call'[c] = [at |-> "idle", of |-> None] /\ flight' = flight
      \/ call'[c] = [at |-> "stopped", of |-> None] /\ flight' = flight
      \/ /\ active # None /\ flight' = flight
         /\ \/ call'[c] = [at |-> "checked", of |-> active]
            \/ call'[c] = [at |-> "probing", of |-> active]
      \/ /\ call'[c] = [at |-> "flight", of |-> None] /\ active = None /\ stopping = None /\ ~Disposed
         /\ flight' = IF flight = NoFlight THEN [NoFlight EXCEPT !.phase = "probing"] ELSE flight
  BY DEF Enter
<1>4. Types'
  <2>1. call' \in [Caller -> [at : Awaits, of : Proc \cup {None}]]
    <3>1. call'[c] \in [at : Awaits, of : Proc \cup {None}]
      BY <1>3 DEF Types, Awaits
    <3>2. \A d \in Caller : call'[d] \in [at : Awaits, of : Proc \cup {None}]
      BY <1>2, <3>1 DEF Types
    <3>3. call' = [d \in Caller |-> call'[d]]
      BY DEF Enter
    <3> QED BY <3>2, <3>3
  <2>2. flight' \in [phase : Phases, proc : Proc \cup {None}, aborted : BOOLEAN]
    BY <1>3 DEF Types, NoFlight, Phases
  <2>3. probe' \in [Proc -> {"none", "valid", "stale"}]
    BY DEF Enter, Types
  <2> QED BY <1>1, <2>1, <2>2, <2>3 DEF Types
<1>5. \A p : Holders(p)' = Holders(p)
  BY <1>2, <1>3, SameHolders
<1>6. CallInv'
  BY <1>1, <1>2, <1>3 DEF CallInv, Types, LeasesAssumption
<1>7. FlightInv'
  <2>1. flight' # flight => flight' = [phase |-> "probing", proc |-> None, aborted |-> FALSE]
    BY <1>3 DEF NoFlight
  <2>2. call'[c].at # "cancelled" /\ (call'[c].at = "flight" => flight' # NoFlight)
    BY <1>3, <2>1 DEF NoFlight
  <2>3. At("flight")' \cup At("cancelled")' # {} => flight' # NoFlight
    BY <1>2, <1>3, <2>2 DEF At, FlightInv
  <2>4. \A d \in Caller : flight'.proc # None => call'[d].of # flight'.proc
    <3>1. flight'.proc # None => flight' = flight /\ active = None
      BY <1>3, <2>1 DEF FlightInv, NoFlight
    <3> QED BY <1>2, <1>3, <3>1 DEF FlightInv
  <2> QED BY <1>1, <1>3, <2>1, <2>3, <2>4 DEF FlightInv, Disposed, NoFlight
<1>8. CountInv' /\ StopInv'
  BY <1>1, <1>5 DEF CountInv, StopInv
<1>9. ProcInv'
  <2>1. flight'.proc = flight.proc
    BY <1>3 DEF NoFlight
  <2>2. At("granted")' = At("granted")
    BY <1>2, <1>3 DEF At
  <2> QED BY <1>1, <1>5, <2>1, <2>2 DEF ProcInv, Running
<1> QED BY <1>4, <1>6, <1>7, <1>8, <1>9

\* The lease is taken on the entry, which is not being stopped.
LEMMA HoldKeepsIInv ==
    ASSUME LeasesAssumption, IInv, NEW c \in Caller, call[c].at \in {"checked", "granted"},
           call[c].of = active, stopping = None, Hold(c)
    PROVE  IInv'
<1> USE DEF IInv, Hold, Moved
<1>1. active \in Proc /\ active # None
  BY DEF CallInv, Types
<1>2. call'[c] = [at |-> "held", of |-> active] /\ \A d \in Caller \ {c} : call'[d] = call[d]
  OBVIOUS
<1>3. /\ Holders(active)' = Holders(active) \cup {c} /\ c \notin Holders(active)
      /\ \A p \in Proc \ {active} : Holders(p)' = Holders(p)
  BY <1>2 DEF Holders
<1>4. CountInv' /\ refs' \in 0 .. Cardinality(Caller)
  <2>1. Cardinality(Holders(active)') = Cardinality(Holders(active)) + 1
    BY <1>3, HoldersAreCounted, FS_AddElement
  <2>2. Cardinality(Holders(active)') <= Cardinality(Caller)
    <3>1. Holders(active)' \subseteq Caller
      BY DEF Holders
    <3> QED BY <3>1, FS_Subset DEF LeasesAssumption
  <2> QED BY <1>1, <2>1, <2>2, HoldersAreCounted DEF CountInv
<1>5. Types'
  <2>1. call' \in [Caller -> [at : Awaits, of : Proc \cup {None}]]
    BY <1>1 DEF Types, Awaits
  <2> QED BY <1>4, <2>1 DEF Types
<1>6. CallInv'
  BY <1>1, <1>2 DEF CallInv
<1>7. FlightInv'
  BY <1>1, <1>2 DEF FlightInv, At, NoFlight
<1>8. StopInv'
  BY DEF StopInv
<1>9. ProcInv'
  BY <1>3 DEF ProcInv, Running
<1> QED BY <1>4, <1>5, <1>6, <1>7, <1>8, <1>9

-----------------------------------------------------------------------------
(* Steps that neither start nor end anything: calls give up or go on, a    *)
(* flight changes its phase, a process dies, a disposal goes on.           *)

GoesOn(c) == \/ call'[c] = call[c]
             \/ /\ call[c].at \notin {"held", "granted"}
                /\ \/ call'[c] \in {[at |-> "idle", of |-> None], [at |-> "again", of |-> None]}
                   \/ call'[c] = [at |-> "cancelled", of |-> None] /\ flight # NoFlight
                   \/ call'[c] = [at |-> "checked", of |-> call[c].of] /\ call[c].of # None

SameFlight == /\ flight'.proc = flight.proc
              /\ flight'.phase \in {"none", "probing"} <=> flight.phase \in {"none", "probing"}
              /\ flight.phase = "none" => flight' = flight
              /\ flight'.phase = "none" => flight' = flight

LEMMA QuietStep ==
    ASSUME LeasesAssumption, IInv, Types', \A c \in Caller : GoesOn(c), SameFlight,
           UNCHANGED <<active, refs, stopping, lost>>, Running' \subseteq Running,
           \/ life' = life
           \/ life' # "live" /\ life' # "disposed" /\ (life' # "flights" => flight' = NoFlight)
    PROVE  IInv'
<1> USE DEF IInv
<1>0. ASSUME NEW c \in Caller
      PROVE  \/ call'[c] = call[c]
             \/ /\ call[c].at \notin {"held", "granted"}
                /\ \/ call'[c].at \in {"idle", "again"} /\ call'[c].of = None
                   \/ call'[c].at = "cancelled" /\ call'[c].of = None /\ flight # NoFlight
                   \/ call'[c].at = "checked" /\ call'[c].of = call[c].of /\ call[c].of # None
  <2>1. GoesOn(c)
    OBVIOUS
  <2> QED BY <2>1 DEF GoesOn
<1>1. \A p : Holders(p)' = Holders(p)
  BY <1>0, SameHolders
<1>2. CallInv'
  BY <1>0 DEF CallInv
<1>3. FlightInv'
  <2>1. flight # NoFlight <=> flight' # NoFlight
    BY DEF FlightInv, SameFlight, NoFlight
  <2>2. At("flight")' \cup At("cancelled")' # {} => flight' # NoFlight
    BY <1>0, <2>1 DEF FlightInv, At
  <2>3. \A c \in Caller : flight'.proc # None => call'[c].of # flight'.proc
    BY <1>0 DEF FlightInv, SameFlight
  <2>4. flight'.phase = "none" => flight' = NoFlight
    BY DEF FlightInv, SameFlight
  <2>5. flight'.proc = None <=> flight'.phase \in {"none", "probing"}
    BY DEF FlightInv, SameFlight
  <2>6. life' \notin {"live", "flights"} => flight' = NoFlight
    BY <2>1 DEF FlightInv
  <2> QED BY <2>1, <2>2, <2>3, <2>4, <2>5, <2>6 DEF FlightInv
<1>4. CountInv' /\ StopInv'
  BY <1>1 DEF CountInv, StopInv
<1>5. ProcInv'
  <2>1. At("granted")' = At("granted")
    BY <1>0 DEF At
  <2> QED BY <1>1, <2>1 DEF ProcInv, SameFlight
<1> QED BY <1>2, <1>3, <1>4, <1>5

LEMMA CallsAreTyped ==
    ASSUME Types, \A c \in Caller : GoesOn(c), call' = [c \in Caller |-> call'[c]]
    PROVE  call' \in [Caller -> [at : Awaits, of : Proc \cup {None}]]
<1>1. ASSUME NEW c \in Caller PROVE call'[c] \in [at : Awaits, of : Proc \cup {None}]
  <2>1. GoesOn(c) /\ call[c] \in [at : Awaits, of : Proc \cup {None}]
    BY DEF Types
  <2> QED BY <2>1 DEF GoesOn, Awaits
<1> QED BY <1>1

LEMMA CancelKeepsIInv ==
    ASSUME LeasesAssumption, IInv, NEW c \in Caller, Cancel(c) PROVE IInv'
<1> USE DEF Cancel, AbortFlight, Let, Moved, entry
<1>1. At("flight") # {} => flight # NoFlight /\ flight.phase # "none"
  BY DEF IInv, FlightInv
<1>2. \A d \in Caller : GoesOn(d)
  BY <1>1 DEF GoesOn
<1>3. SameFlight
  <2>1. flight' = flight \/ (flight.phase # "none" /\ flight' = [flight EXCEPT !.aborted = TRUE])
    BY <1>1
  <2> QED BY <2>1 DEF SameFlight, IInv, Types
<1>4. Types'
  <2>1. call' \in [Caller -> [at : Awaits, of : Proc \cup {None}]]
    BY <1>2, CallsAreTyped DEF IInv
  <2>2. flight' \in [phase : Phases, proc : Proc \cup {None}, aborted : BOOLEAN]
    BY DEF IInv, Types
  <2> QED BY <2>1, <2>2 DEF IInv, Types
<1> QED BY <1>2, <1>3, <1>4, QuietStep DEF Running

LEMMA ExitKeepsIInv ==
    ASSUME LeasesAssumption, IInv, NEW p \in Proc, Exit(p) PROVE IInv'
<1> USE DEF Exit, Invalidate, Spend
<1>1. Types'
  <2>1. fresh' \in BOOLEAN /\ probe' \in [Proc -> {"none", "valid", "stale"}]
    BY DEF IInv, Types
  <2>2. proc' \in [Proc -> {"up", "ending", "dead"}]
    BY DEF IInv, Types
  <2>3. events' \in 0 .. MaxEvents
    BY DEF IInv, Types, LeasesAssumption
  <2> QED BY <2>1, <2>2, <2>3 DEF IInv, Types
<1>2. Running' \subseteq Running
  BY DEF Running, IInv, Types
<1>3. \A c \in Caller : GoesOn(c)
  BY DEF GoesOn
<1> QED BY <1>1, <1>2, <1>3, QuietStep DEF SameFlight

LEMMA AgeKeepsIInv ==
    ASSUME LeasesAssumption, IInv, Age \/ CredentialUpdated PROVE IInv'
<1> USE DEF Age, CredentialUpdated, Invalidate, Spend
<1>1. Types'
  <2>1. fresh' \in BOOLEAN /\ probe' \in [Proc -> {"none", "valid", "stale"}]
    BY DEF IInv, Types
  <2>2. events' \in 0 .. MaxEvents
    BY DEF IInv, Types, LeasesAssumption
  <2> QED BY <2>1, <2>2 DEF IInv, Types
<1>2. Running' \subseteq Running
  BY DEF Running
<1>3. \A c \in Caller : GoesOn(c)
  BY DEF GoesOn
<1> QED BY <1>1, <1>2, <1>3, QuietStep DEF SameFlight

LEMMA ProbeEndsKeepsIInv ==
    ASSUME LeasesAssumption, IInv, NEW p \in Proc, ProbeEnds(p) PROVE IInv'
<1> USE DEF ProbeEnds, Spend, Let, Moved
<1>1. \A c \in Caller : GoesOn(c)
  <2>1. \A c \in Caller : \/ call'[c] = call[c]
                          \/ /\ call[c].at = "probing" /\ call[c].of = p
                             /\ call'[c] \in {[at |-> "idle", of |-> None], [at |-> "checked", of |-> p]}
    BY DEF At
  <2>2. p # None
    BY DEF LeasesAssumption
  <2> QED BY <2>1, <2>2 DEF GoesOn
<1>2. Types'
  <2>1. call' \in [Caller -> [at : Awaits, of : Proc \cup {None}]]
    <3>1. call' = [c \in Caller |-> call'[c]]
      BY DEF IInv, Types
    <3> QED BY <1>1, <3>1, CallsAreTyped DEF IInv
  <2>2. probe' \in [Proc -> {"none", "valid", "stale"}]
    BY DEF IInv, Types
  <2>3. fresh' \in BOOLEAN
    BY DEF IInv, Types
  <2>4. events' \in 0 .. MaxEvents
    BY DEF IInv, Types, LeasesAssumption
  <2> QED BY <2>1, <2>2, <2>3, <2>4 DEF IInv, Types
<1> QED BY <1>1, <1>2, QuietStep DEF SameFlight, Running

LEMMA BootKeepsIInv ==
    ASSUME LeasesAssumption, IInv, Boot \/ Reaped PROVE IInv'
<1> USE DEF Boot, Reaped, Spend, Terminate, entry
<1>1. \A c \in Caller : GoesOn(c)
  BY DEF GoesOn
<1>2. flight.phase \in {"booting", "writing"}
  OBVIOUS
<1>3. \/ flight' = flight
      \/ flight' = [flight EXCEPT !.phase = "writing"]
      \/ flight' = [flight EXCEPT !.phase = "failing"]
  OBVIOUS
<1>4. SameFlight
  BY <1>2, <1>3 DEF SameFlight, IInv, Types
<1>5. Running' = Running
  BY DEF Running, IInv, Types
<1>6. Types'
  <2>1. flight' \in [phase : Phases, proc : Proc \cup {None}, aborted : BOOLEAN]
    BY <1>3 DEF IInv, Types, Phases
  <2>2. proc' \in [Proc -> {"up", "ending", "dead"}]
    BY DEF IInv, Types
  <2>3. events' \in 0 .. MaxEvents
    BY DEF IInv, Types, LeasesAssumption
  <2> QED BY <2>1, <2>2, <2>3 DEF IInv, Types
<1> QED BY <1>1, <1>4, <1>5, <1>6, QuietStep

LEMMA DisposeKeepsIInv ==
    ASSUME LeasesAssumption, IInv, Dispose \/ DisposeGoesOn PROVE IInv'
<1> USE DEF Dispose, DisposeGoesOn, FlightsEnded, Let, Moved, Terminate, entry
<1>1. \A c \in Caller : GoesOn(c)
  BY DEF GoesOn, At
<1>2. flight' = flight \/ (flight # NoFlight /\ flight' = [flight EXCEPT !.aborted = TRUE])
  OBVIOUS
<1>3. SameFlight
  BY <1>2 DEF SameFlight, IInv, FlightInv, Types
<1>4. Running' = Running
  BY DEF Running, IInv, Types
<1>5. Types'
  <2>1. call' \in [Caller -> [at : Awaits, of : Proc \cup {None}]]
    <3>1. call' = [c \in Caller |-> call'[c]]
      BY DEF IInv, Types
    <3> QED BY <1>1, <3>1, CallsAreTyped DEF IInv
  <2>2. flight' \in [phase : Phases, proc : Proc \cup {None}, aborted : BOOLEAN]
    BY <1>2 DEF IInv, Types
  <2>3. proc' \in [Proc -> {"up", "ending", "dead"}] /\ probe' \in [Proc -> {"none", "valid", "stale"}]
    BY DEF IInv, Types
  <2>4. fresh' \in BOOLEAN /\ life' \in {"live", "flights", "stops", "entries", "disposed", "failed"}
    BY DEF IInv, Types
  <2> QED BY <2>1, <2>2, <2>3, <2>4 DEF IInv, Types
<1>6. \/ life' = "flights"
      \/ life' \in {"stops", "entries"} /\ flight' = NoFlight
  BY DEF IInv, FlightInv
<1> QED BY <1>1, <1>3, <1>4, <1>5, <1>6, QuietStep

-----------------------------------------------------------------------------
(* Steps that take an entry, a process or a flight away, or bring one      *)

\* release: the last lease on the entry is gone when its stop begins.
LEMMA ReleaseKeepsIInv ==
    ASSUME LeasesAssumption, IInv, NEW c \in Caller, Release(c) PROVE IInv'
<1> USE DEF IInv, Release, Invalidate, Let, Moved
<1>0. PICK p \in Proc : call[c] = [at |-> "held", of |-> p]
  BY DEF CallInv, Types
<1>1. p # None /\ call[c] = [at |-> "held", of |-> p] /\ call[c].at = "held" /\ call[c].of = p
  BY <1>0 DEF LeasesAssumption
<1>2. call'[c] = [at |-> "idle", of |-> None] /\ \A d \in Caller \ {c} : call'[d] = call[d]
  OBVIOUS
<1>3. UNCHANGED <<active, flight, lost, life, events>>
  OBVIOUS
<1>4. /\ Holders(p)' = Holders(p) \ {c} /\ c \in Holders(p)
      /\ \A q \in Proc \ {p} : Holders(q)' = Holders(q)
  <2>1. \A q : c \notin Holders(q)'
    BY <1>2 DEF Holders
  <2>2. \A q : \A d \in Caller \ {c} : d \in Holders(q)' <=> d \in Holders(q)
    BY <1>2 DEF Holders
  <2>3. c \in Holders(p) /\ \A q \in Proc \ {p} : c \notin Holders(q)
    BY <1>1 DEF Holders
  <2>4. \A q : Holders(q) \subseteq Caller /\ Holders(q)' \subseteq Caller
    BY DEF Holders
  <2> QED BY <2>1, <2>2, <2>3, <2>4
<1>5. IsFiniteSet(Holders(p)') /\ Cardinality(Holders(p)') = Cardinality(Holders(p)) - 1
  BY <1>4, HoldersAreCounted, FS_RemoveElement
<1>6. Cardinality(Holders(p)') \in Nat
  BY <1>5, FS_CardinalityType
<1>7. Running' = Running
  BY DEF Running, Terminate, Types
<1>8. CountInv' /\ refs' \in 0 .. Cardinality(Caller)
  <2>1. CASE active = p
    <3>1. refs = Cardinality(Holders(p)) /\ refs' = refs - 1
      BY <1>1, <2>1 DEF CountInv
    <3>2. Holders(active)' = Holders(p)'
      BY <1>3, <2>1 DEF Holders
    <3> QED BY <1>3, <1>5, <1>6, <2>1, <3>1, <3>2, HoldersAreCounted DEF CountInv
  <2>2. CASE active # p
    <3>1. active # None => Holders(active)' = Holders(active)
      <4>1. active # None => \A q \in {active} : Holders(q)' = Holders(q)
        BY <1>4, <2>2 DEF Types
      <4> QED BY <1>3, <4>1 DEF Holders
    <3>2. refs' = refs
      BY <1>1, <2>2
    <3> QED BY <1>3, <3>1, <3>2 DEF CountInv, Types
  <2> QED BY <2>1, <2>2
<1>9. Types'
  <2>1. call' \in [Caller -> [at : Awaits, of : Proc \cup {None}]]
    BY DEF Types, Awaits
  <2>2. fresh' \in BOOLEAN
    BY DEF Types
  <2>4. probe' \in [Proc -> {"none", "valid", "stale"}]
    BY <1>1 DEF Types
  <2>3. stopping' \in Proc \cup {None} /\ proc' \in [Proc -> {"up", "ending", "dead"}]
    BY <1>1 DEF Types, Terminate
  <2> QED BY <1>3, <1>8, <2>1, <2>2, <2>3, <2>4 DEF Types
<1>10. \A d \in Caller : call[d].at # "granted"
  BY DEF Drained, At
<1>11. CallInv'
  BY <1>2, <1>3, <1>10 DEF CallInv
<1>12. flight # NoFlight => active = None /\ stopping' = stopping
  BY <1>1 DEF FlightInv
<1>13. FlightInv'
  <2>1. At("flight")' = At("flight") /\ At("cancelled")' = At("cancelled")
    BY <1>1, <1>2 DEF At
  <2> QED BY <1>2, <1>3, <1>12, <2>1 DEF FlightInv, NoFlight
<1>14. active = p /\ refs = 1 => Holders(p)' = {}
  BY <1>1, <1>5, <1>6, FS_EmptySet DEF CountInv
<1>15. StopInv'
  <2>1. CASE stopping' = stopping
    BY <1>3, <1>4, <2>1 DEF StopInv, Types
  <2>2. CASE stopping' # stopping
    <3>1. active = p /\ refs = 1 /\ stopping' = p
      BY <1>1, <2>2
    <3>2. Holders(stopping)' = Holders(p)'
      BY <3>1 DEF Holders
    <3> QED BY <1>3, <1>14, <3>1, <3>2 DEF StopInv
  <2> QED BY <2>1, <2>2
<1>16. ProcInv'
  <2>1. life = "live" /\ active \in Running \ lost => Holders(active)' # {} \/ stopping' = active
    <3>1. CASE active = p /\ refs = 1
      BY <1>1, <3>1 DEF StopInv
    <3>2. CASE active = p /\ refs # 1
      <4>1. Cardinality(Holders(p)') # 0
        BY <1>1, <1>5, <3>2, HoldersAreCounted DEF CountInv
      <4>2. Holders(active)' = Holders(p)'
        BY <1>3, <3>2 DEF Holders
      <4> QED BY <1>5, <3>2, <4>1, <4>2, FS_EmptySet
    <3>3. CASE active # p
      <4>1. stopping' = stopping
        BY <1>1, <3>3
      <4> QED BY <1>4, <1>10, <3>3, <4>1 DEF ProcInv, At, Running
    <3> QED BY <3>1, <3>2, <3>3
  <2> QED BY <1>3, <1>7, <2>1 DEF ProcInv
<1> QED BY <1>9, <1>11, <1>8, <1>13, <1>15, <1>16

\* A stop has ended; a process that may still run is in lost.
LEMMA StoppedKeepsIInv == ASSUME LeasesAssumption, IInv, Stopped PROVE IInv'
<1> USE DEF IInv, Stopped, Let, Moved
<1>1. \A c \in Caller : GoesOn(c)
  BY DEF GoesOn, At
<1>2. \A p : Holders(p)' = Holders(p)
  <2>1. ASSUME NEW c \in Caller, call[c].at = "held" \/ call'[c].at = "held" PROVE call'[c] = call[c]
    BY <2>1 DEF At
  <2> QED BY <2>1, SameHolders
<1>3. flight = NoFlight /\ flight' = flight /\ stopping' = None
  BY DEF FlightInv
<1>4. Types'
  <2>1. call' \in [Caller -> [at : Awaits, of : Proc \cup {None}]]
    <3>1. call' = [c \in Caller |-> call'[c]]
      OBVIOUS
    <3> QED BY <1>1, <3>1, CallsAreTyped
  <2>2. refs' \in 0 .. Cardinality(Caller)
    BY FS_CardinalityType DEF Types, LeasesAssumption
  <2>3. events' \in 0 .. MaxEvents /\ lost' \subseteq Proc
    BY DEF Types, Spend, LeasesAssumption
  <2>4. active' \in Proc \cup {None} /\ fresh' \in BOOLEAN
    BY DEF Types
  <2> QED BY <1>3, <2>1, <2>2, <2>3, <2>4 DEF Types
<1>5. \A c \in Caller : call'[c] = call[c] \/ (call[c].of = None /\ call'[c].of = None
                                               /\ call'[c].at \in {"again", "idle"})
  BY DEF At, CallInv
<1>6. \A c \in Caller : call'[c].at # "granted"
  BY <1>5 DEF Drained, At
<1>7. CallInv'
  BY <1>5, <1>6 DEF CallInv
<1>8. FlightInv'
  BY <1>3, <1>5 DEF FlightInv, At, NoFlight
<1>9. CountInv' /\ StopInv'
  BY <1>2, <1>3 DEF CountInv, StopInv
<1>10. ProcInv'
  <2>1. Running' \ lost' \subseteq {active'}
    BY <1>3 DEF ProcInv, StopInv, Running, NoFlight, Types, LeasesAssumption
  <2>2. active' \notin Running' \ lost'
    BY DEF StopInv, Running, Types, LeasesAssumption
  <2>3. life' = "disposed" => active' = None
    BY DEF ProcInv
  <2> QED BY <2>1, <2>2, <2>3 DEF ProcInv
<1> QED BY <1>4, <1>7, <1>8, <1>9, <1>10

\* The flight is over: nobody waits for it any more.
LEMMA RejectedCalls ==
    ASSUME LeasesAssumption, IInv, Rejected
    PROVE  /\ \A c \in Caller : GoesOn(c)
           /\ \A c \in Caller : \/ call'[c] = call[c] /\ call[c].at \notin {"flight", "cancelled"}
                                \/ call'[c].at = "idle" /\ call[c].of = None /\ call'[c].of = None
           /\ call' \in [Caller -> [at : Awaits, of : Proc \cup {None}]]
<1> USE DEF IInv, Rejected, Let, Moved
<1>1. \A c \in Caller : GoesOn(c)
  BY DEF GoesOn, At
<1>2. call' \in [Caller -> [at : Awaits, of : Proc \cup {None}]]
  <2>1. call' = [c \in Caller |-> call'[c]]
    OBVIOUS
  <2> QED BY <1>1, <2>1, CallsAreTyped
<1> QED BY <1>1, <1>2 DEF At, CallInv

LEMMA EndedKeepsIInv == ASSUME LeasesAssumption, IInv, Ended PROVE IInv'
<1> USE DEF IInv, Ended
<1>1. Rejected
  OBVIOUS
<1>2. flight.phase \in {"failing", "undoing"} /\ flight # NoFlight /\ flight.proc \in Proc
  BY DEF FlightInv, NoFlight, Types
<1>3. active = None /\ stopping = None /\ stopping' = None /\ flight' = NoFlight
  BY <1>2 DEF FlightInv, Rejected, entry
<1>4. \A c \in Caller : \/ call'[c] = call[c] /\ call[c].at \notin {"flight", "cancelled"}
                        \/ call'[c].at = "idle" /\ call[c].of = None /\ call'[c].of = None
  BY <1>1, RejectedCalls
<1>5. \A c \in Caller : call'[c].at # "granted" /\ call'[c].of # flight.proc
  BY <1>2, <1>4 DEF Drained, At, FlightInv, LeasesAssumption
<1>6. \/ active' = None /\ refs' = refs
      \/ active' = flight.proc /\ refs' = 0 /\ flight.proc \in lost'
  BY <1>3 DEF entry
<1>7. Types'
  <2>1. call' \in [Caller -> [at : Awaits, of : Proc \cup {None}]]
    BY <1>1, RejectedCalls
  <2>2. flight' \in [phase : Phases, proc : Proc \cup {None}, aborted : BOOLEAN]
    BY <1>3 DEF NoFlight, Phases
  <2>3. refs' \in 0 .. Cardinality(Caller)
    BY <1>6, FS_CardinalityType DEF Types, LeasesAssumption
  <2>4. events' \in 0 .. MaxEvents /\ lost' \subseteq Proc
    BY <1>2 DEF Types, Spend, LeasesAssumption
  <2>5. fresh' \in BOOLEAN
    BY DEF Types, entry
  <2> QED BY <1>2, <1>3, <1>6, <2>1, <2>2, <2>3, <2>4, <2>5 DEF Types
<1>8. CallInv'
  BY <1>4, <1>5 DEF CallInv
<1>9. FlightInv'
  BY <1>3, <1>4 DEF FlightInv, At, NoFlight
<1>10. CountInv'
  <2>1. CASE active' = flight.proc /\ refs' = 0
    <3>1. Holders(active)' = {}
      BY <1>5, <2>1 DEF Holders
    <3> QED BY <2>1, <3>1, FS_EmptySet DEF CountInv
  <2> QED BY <1>6, <2>1 DEF CountInv
<1>11. StopInv'
  BY <1>3 DEF StopInv
<1>12. ProcInv'
  <2>1. Running' \ lost' = {}
    BY <1>2, <1>3 DEF ProcInv, Running, LeasesAssumption, Types
  <2>2. life # "disposed"
    BY <1>2 DEF FlightInv
  <2> QED BY <2>1, <2>2 DEF ProcInv
<1> QED BY <1>7, <1>8, <1>9, <1>10, <1>11, <1>12

\* A process comes up under an identity nobody has heard of, when no other
\* is up.
LEMMA SpawnKeepsIInv == ASSUME LeasesAssumption, IInv, Spawn PROVE IInv'
<1> USE DEF IInv, Spawn
<1>1. flight.phase = "probing" /\ flight # NoFlight /\ active = None /\ stopping = None
      /\ active' = None /\ stopping' = None /\ flight.proc = None /\ refs' = refs /\ fresh' = fresh
  BY DEF FlightInv, NoFlight, entry
<1>2. Running \ lost = {}
  BY <1>1 DEF ProcInv, Running, LeasesAssumption
<1>3. CASE Rejected /\ UNCHANGED <<proc, lost>>
  <2>1. \A c \in Caller : \/ call'[c] = call[c] /\ call[c].at \notin {"flight", "cancelled"}
                          \/ call'[c].at = "idle" /\ call[c].of = None /\ call'[c].of = None
    BY <1>3, RejectedCalls
  <2>2. \A c \in Caller : call'[c].at # "granted"
    BY <2>1 DEF Drained, At
  <2>3. flight' = NoFlight /\ UNCHANGED <<probe, life>>
    BY <1>3 DEF Rejected
  <2>4. Types'
    <3>1. call' \in [Caller -> [at : Awaits, of : Proc \cup {None}]]
      BY <1>3, RejectedCalls
    <3>2. flight' \in [phase : Phases, proc : Proc \cup {None}, aborted : BOOLEAN]
      BY <2>3 DEF NoFlight, Phases
    <3>3. events' \in 0 .. MaxEvents
      BY DEF Types, Spend, LeasesAssumption
    <3> QED BY <1>1, <1>3, <2>3, <3>1, <3>2, <3>3 DEF Types
  <2>5. CallInv' /\ FlightInv'
    BY <1>1, <2>1, <2>2, <2>3 DEF CallInv, FlightInv, At, NoFlight
  <2>6. CountInv' /\ StopInv'
    BY <1>1 DEF CountInv, StopInv
  <2>7. ProcInv'
    BY <1>1, <1>2, <1>3, <2>3 DEF ProcInv, Running
  <2> QED BY <2>4, <2>5, <2>6, <2>7
<1>4. CASE /\ UNCHANGED <<call, events>> /\ Fresh # {}
           /\ LET p == CHOOSE q \in Fresh : TRUE
              IN /\ proc' = [proc EXCEPT ![p] = "up"] /\ lost' = lost \ {p}
                 /\ flight' = [flight EXCEPT !.phase = "booting", !.proc = p]
  <2>1. PICK p \in Fresh : /\ proc' = [proc EXCEPT ![p] = "up"] /\ lost' = lost \ {p}
                           /\ flight' = [flight EXCEPT !.phase = "booting", !.proc = p]
    BY <1>4
  <2>2. p \in Proc /\ p # None /\ \A c \in Caller : call[c].of # p
    BY DEF Fresh, LeasesAssumption
  <2>3. flight'.phase = "booting" /\ flight'.proc = p /\ flight' # NoFlight
    BY <2>1 DEF Types, NoFlight
  <2>4. Types'
    <3>1. flight' \in [phase : Phases, proc : Proc \cup {None}, aborted : BOOLEAN]
      BY <2>1, <2>2 DEF Types, Phases
    <3>2. proc' \in [Proc -> {"up", "ending", "dead"}]
      BY <2>1 DEF Types
    <3> QED BY <1>1, <1>4, <2>1, <3>1, <3>2 DEF Types
  <2>5. CallInv' /\ CountInv' /\ StopInv'
    BY <1>1, <1>4 DEF CallInv, CountInv, StopInv
  <2>6. FlightInv'
    BY <1>1, <1>4, <2>2, <2>3 DEF FlightInv
  <2>7. ProcInv'
    <3>1. Running' \ lost' \subseteq {p}
      BY <1>2, <2>1 DEF Running, Types
    <3> QED BY <1>1, <2>2, <2>3, <3>1 DEF ProcInv
  <2> QED BY <2>4, <2>5, <2>6, <2>7
<1> QED BY <1>3, <1>4

\* The entry is published and granted to all that wait, or given up.
LEMMA LandKeepsIInv == ASSUME LeasesAssumption, IInv, Land PROVE IInv'
<1> USE DEF IInv, Land
<1>1. flight.phase = "writing" /\ flight # NoFlight /\ active = None /\ stopping = None
      /\ flight.proc \in Proc /\ flight.proc # None
  BY DEF FlightInv, NoFlight, Types
<1>2. CASE Unwanted
  <2> USE <1>2
  <2>1. \A c \in Caller : GoesOn(c)
    BY DEF GoesOn
  <2>2. SameFlight
    BY <1>1 DEF SameFlight, Types
  <2>3. Running' = Running
    BY DEF Running, Terminate, Types
  <2>4. Types'
    <3>1. flight' \in [phase : Phases, proc : Proc \cup {None}, aborted : BOOLEAN]
      BY DEF Types, Phases
    <3>2. proc' \in [Proc -> {"up", "ending", "dead"}]
      BY DEF Types, Terminate
    <3> QED BY <3>1, <3>2 DEF Types, entry
  <2> QED BY <2>1, <2>2, <2>3, <2>4, QuietStep DEF entry
<1>3. CASE ~Unwanted
  <2> USE <1>3
  <2>1. /\ active' = flight.proc /\ refs' = 0 /\ fresh' \in BOOLEAN /\ flight' = NoFlight
        /\ UNCHANGED <<stopping, proc, probe, lost, life, events>>
    OBVIOUS
  <2>2. \A c \in Caller : \/ call[c].at = "flight" /\ call'[c] = [at |-> "granted", of |-> flight.proc]
                          \/ call[c].at = "cancelled" /\ call'[c] = [at |-> "idle", of |-> None]
                          \/ call[c].at \notin {"flight", "cancelled"} /\ call'[c] = call[c]
    OBVIOUS
  <2>3. Types'
    <3>1. call' \in [Caller -> [at : Awaits, of : Proc \cup {None}]]
      <4>1. \A c \in Caller : call'[c] \in [at : Awaits, of : Proc \cup {None}]
        BY <1>1, <2>2 DEF Types, Awaits
      <4>2. call' = [c \in Caller |-> call'[c]]
        OBVIOUS
      <4> QED BY <4>1, <4>2
    <3>2. flight' \in [phase : Phases, proc : Proc \cup {None}, aborted : BOOLEAN]
      BY <2>1 DEF NoFlight, Phases
    <3>3. refs' \in 0 .. Cardinality(Caller)
      BY <2>1, FS_CardinalityType DEF LeasesAssumption
    <3> QED BY <1>1, <2>1, <3>1, <3>2, <3>3 DEF Types
  <2>4. \A c \in Caller : call[c].at # "granted"
    BY DEF Drained, At
  <2>5. CallInv'
    BY <1>1, <2>1, <2>2, <2>4 DEF CallInv
  <2>6. FlightInv'
    BY <2>1, <2>2 DEF FlightInv, At, NoFlight
  <2>7. CountInv'
    <3>1. \A c \in Caller : call'[c] # [at |-> "held", of |-> flight.proc]
      BY <1>1, <2>2 DEF FlightInv
    <3>2. Holders(active)' = {}
      BY <2>1, <3>1 DEF Holders
    <3> QED BY <2>1, <3>2, FS_EmptySet DEF CountInv
  <2>8. StopInv'
    BY <1>1, <2>1 DEF StopInv
  <2>9. ProcInv'
    <3>1. Running' \ lost' \subseteq {active'}
      BY <1>1, <2>1 DEF ProcInv, Running, LeasesAssumption
    <3>2. At("granted")' # {}
      BY <2>2 DEF Unwanted, At
    <3>3. life = "live"
      BY DEF Unwanted, Disposed
    <3> QED BY <2>1, <3>1, <3>2, <3>3 DEF ProcInv
  <2> QED BY <2>3, <2>5, <2>6, <2>7, <2>8, <2>9
<1> QED BY <1>2, <1>3

LEMMA DisposeEndsKeepsIInv == ASSUME LeasesAssumption, IInv, DisposeEnds PROVE IInv'
<1> USE DEF IInv, DisposeEnds
<1>1. UNCHANGED <<call, fresh, stopping, flight, probe, proc>> /\ flight = NoFlight /\ life = "entries"
  BY DEF FlightInv
<1>2. \/ active' = None /\ refs' = 0 /\ lost' = lost /\ life' = "disposed"
         /\ (active # None => proc[active] = "dead")
      \/ active' = active /\ refs' = refs /\ lost' = lost \cup {active} /\ life' = "failed"
         /\ active # None
  OBVIOUS
<1>3. Types'
  <2>1. refs' \in 0 .. Cardinality(Caller)
    BY <1>2, FS_CardinalityType DEF Types, LeasesAssumption
  <2>2. events' \in 0 .. MaxEvents
    BY DEF Types, Spend, LeasesAssumption
  <2> QED BY <1>1, <1>2, <2>1, <2>2 DEF Types
<1>4. \A c \in Caller : call[c].at # "granted"
  BY DEF Drained, At
<1>5. CallInv' /\ FlightInv'
  BY <1>1, <1>2, <1>4 DEF CallInv, FlightInv, At, NoFlight
<1>6. \A p : Holders(p)' = Holders(p)
  BY <1>1 DEF Holders
<1>7. CountInv' /\ StopInv'
  BY <1>1, <1>2, <1>6 DEF CountInv, StopInv
<1>8. ProcInv'
  <2>1. Running' \ lost' \subseteq {active'}
    BY <1>1, <1>2 DEF ProcInv, Running, NoFlight, Types, LeasesAssumption
  <2> QED BY <1>2, <2>1 DEF ProcInv
<1> QED BY <1>3, <1>5, <1>7, <1>8

-----------------------------------------------------------------------------
LEMMA StepKeepsIInv == ASSUME LeasesAssumption, IInv, [Next]_vars PROVE IInv'
<1>1. ASSUME NEW c \in Caller, Acquire(c) \/ Again(c) PROVE IInv'
  BY <1>1, EnterKeepsIInv DEF Acquire, Again
<1>2. ASSUME NEW c \in Caller, Checked(c) PROVE IInv'
  BY <1>2, EnterKeepsIInv, HoldKeepsIInv DEF Checked, StillActive
<1>3. ASSUME NEW c \in Caller, Granted(c) PROVE IInv'
  BY <1>3, HoldKeepsIInv DEF Granted, IInv, CallInv
<1>4. CASE UNCHANGED vars
  BY <1>4 DEF vars, IInv, Types, CallInv, FlightInv, CountInv, StopInv, ProcInv, Running, Holders, At
<1>5. CASE Reactions
  BY <1>1, <1>2, <1>3, <1>5 DEF Reactions
<1>6. CASE Starting \/ Disposal \/ Stopped \/ Reaped \/ Dispose
  BY <1>6, SpawnKeepsIInv, BootKeepsIInv, LandKeepsIInv, EndedKeepsIInv, DisposeKeepsIInv,
     DisposeEndsKeepsIInv, StoppedKeepsIInv DEF Starting, Disposal
<1>7. CASE \E c \in Caller : Acquire(c) \/ Cancel(c) \/ Release(c)
  BY <1>1, <1>7, CancelKeepsIInv, ReleaseKeepsIInv
<1>8. CASE \E p \in Proc : Exit(p) \/ ProbeEnds(p)
  BY <1>8, ExitKeepsIInv, ProbeEndsKeepsIInv
<1>9. CASE Age \/ CredentialUpdated
  BY <1>9, AgeKeepsIInv
<1> QED BY <1>4, <1>5, <1>6, <1>7, <1>8, <1>9 DEF Next

LEMMA IInvAlways == ASSUME LeasesAssumption PROVE Init /\ [][Next]_vars => []IInv
<1>1. Init => IInv
  BY IInvAtInit
<1>2. IInv /\ [Next]_vars => IInv'
  BY StepKeepsIInv
<1> QED BY <1>1, <1>2, PTL

-----------------------------------------------------------------------------
\* The reference count of the entry is the number of leases callers hold, for
\* any number of callers: neither does it stop under one, nor stay up for one
\* that has gone.
THEOREM LeasesAreCounted == ASSUME LeasesAssumption PROVE FairSpec => []TypeOK
<1>1. ASSUME IInv PROVE TypeOK
  <2>1. \A c \in Caller : /\ call[c].at \in Awaits
                          /\ call[c].of \in (IF call[c].at \in {"held", "probing", "checked", "granted"}
                                             THEN Proc ELSE {None})
    BY <1>1 DEF IInv, Types, CallInv, LeasesAssumption
  <2>2. flight.phase \in Phases /\ flight.aborted \in BOOLEAN
        /\ flight.proc \in (IF flight.phase \in {"none", "probing"} THEN {None} ELSE Proc)
    BY <1>1 DEF IInv, Types, FlightInv, LeasesAssumption
  <2> QED BY <1>1, <2>1, <2>2 DEF IInv, Types, CountInv, TypeOK, Awaits, Phases
<1> QED BY <1>1, IInvAlways, PTL DEF FairSpec

\* However startups, stops, crashes and retries overlap, one process runs.
THEOREM OnlyOneRuns == ASSUME LeasesAssumption PROVE FairSpec => []OneProcess
<1>1. ASSUME IInv PROVE OneProcess
  <2>1. \E p : Running \ lost \subseteq {p}
    <3>1. CASE flight = NoFlight
      BY <1>1, <3>1 DEF IInv, ProcInv, NoFlight, Running, LeasesAssumption
    <3>2. CASE flight # NoFlight
      BY <1>1, <3>2 DEF IInv, ProcInv, FlightInv, Running, LeasesAssumption
    <3> QED BY <3>1, <3>2
  <2>2. PICK p : Running \ lost \subseteq {p}
    BY <2>1
  <2>3. Cardinality(Running \ lost) <= Cardinality({p}) /\ Cardinality({p}) = 1
        /\ Cardinality(Running \ lost) \in Nat
    BY <2>2, FS_Singleton, FS_Subset, FS_CardinalityType
  <2> QED BY <2>3 DEF OneProcess
<1> QED BY <1>1, IInvAlways, PTL DEF FairSpec

\* Nobody holds a lease on a process that a release is stopping: what was
\* verified is looked at once more in the tick that takes the lease.
THEOREM NobodyHoldsTheStopping == ASSUME LeasesAssumption PROVE FairSpec => []NotStoppedInUse
<1>1. IInv => NotStoppedInUse
  BY DEF IInv, StopInv, NotStoppedInUse
<1> QED BY <1>1, IInvAlways, PTL DEF FairSpec

\* A process that nobody holds is being started, stopped or disposed of, and
\* none is left after a dispose that did not fail.
THEOREM NobodyIsLeftBehind == ASSUME LeasesAssumption PROVE FairSpec => []NothingLeftRunning
<1>1. ASSUME IInv PROVE NothingLeftRunning
  <2>1. ASSUME Drained, NEW p \in Running \ lost, ~Disposed
        PROVE  Holders(p) # {} \/ p \in {stopping, flight.proc}
    BY <1>1, <2>1 DEF IInv, ProcInv, Drained, At, Disposed
  <2>2. life = "disposed" => Running \subseteq lost
    BY <1>1 DEF IInv, ProcInv, FlightInv, NoFlight, Running, LeasesAssumption
  <2> QED BY <2>1, <2>2 DEF NothingLeftRunning
<1> QED BY <1>1, IInvAlways, PTL DEF FairSpec

=============================================================================
