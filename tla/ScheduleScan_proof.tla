-------------------------- MODULE ScheduleScan_proof --------------------------
(***************************************************************************)
(* Proofs about ScheduleScan for any calendar rule, any number of threads, *)
(* pauses, revisions and aborted scans: the types, that no instance is     *)
(* jumped over, and that what is reported as skipped was skipped.          *)
(*                                                                         *)
(* PassedIsAccounted speaks of the rows only, which a scan writes from its *)
(* own variables: the invariant says the same of every scan under way, of  *)
(* the row it is at and of those it still has to do, and that no scan is   *)
(* at a row which a later revision has yet to create.                      *)
(* SkippedIsCounted needs numbers: the count of a row, together with what  *)
(* a scan at it has counted, covers the instances that have no event.      *)
(***************************************************************************)
EXTENDS ScheduleScan, WellFoundedInduction, FiniteSetTheorems, TLAPS

Entries == [row : Revs, due : Fires]

Row == [enabled : BOOLEAN, due : Fires \cup {Never}, skipped : Nat, created : Nat]
ScanVars == [todo : SUBSET Entries, row : Revs \cup {0}, at : Nat, inst : Nat,
             left : 0 .. PerScan, skipped : Nat, over : BOOLEAN]

Types ==
    /\ now \in 0 .. MaxNow /\ status \in {"tracking", "paused"} /\ rev \in Revs
    /\ rows \in [Revs -> Row]
    /\ events \in SUBSET (Revs \X Fires) /\ missed \in SUBSET (Revs \X Fires)
    /\ scan \in [Threads -> ScanVars]

RowInv(r) == rows[r].enabled => r <= rev /\ rows[r].due \in Fires

ScanInv(t) == /\ scan[t].row # 0 => scan[t].row <= rev /\ scan[t].inst \in Fires
              /\ \A e \in scan[t].todo : e.row <= rev

\* Done accounts for all instances of row r, created at c, that come before i.
Covers(done, r, c, i) == \A f \in Fires : c < f /\ f < i => <<r, f>> \in done

Accounted(r, i) == Covers(events \cup missed, r, rows[r].created, i)

AccountInv ==
    /\ \A r \in Revs : Accounted(r, rows[r].due)
    /\ \A t \in Threads : /\ scan[t].row # 0 => Accounted(scan[t].row, scan[t].inst)
                          /\ \A e \in scan[t].todo : Accounted(e.row, e.due)

IInv == /\ Types /\ AccountInv
        /\ \A r \in Revs : RowInv(r)
        /\ \A t \in Threads : ScanInv(t)

-----------------------------------------------------------------------------
(* The search for the next instance finds the first one, if there is one. *)

LEMMA LeastNat ==
    ASSUME NEW S, S \subseteq Nat, S # {}
    PROVE  Min(S) \in S /\ \A x \in S : Min(S) <= x
<1>1. PICK m \in S : \A y \in S : ~ (<<y, m>> \in OpToRel(<, Nat))
  BY NatLessThanWellFounded, WFMin
<1>2. \A y \in S : ~ (y < m)
  BY <1>1 DEF OpToRel
<1>3. \A y \in S : m <= y
  BY <1>2
<1> QED BY <1>3 DEF Min

LEMMA NextInstanceIsNext ==
    ASSUME NEW i \in Nat
    PROVE  /\ NextInstance(i) \in Fires \cup {Never}
           /\ NextInstance(i) # Never =>
                /\ NextInstance(i) \in Fires /\ i < NextInstance(i)
                /\ \A f \in Fires : i < f => NextInstance(i) <= f
           /\ NextInstance(i) = Never => \A f \in Fires : f <= i
<1> DEFINE later == {f \in Fires : f > i}
<1>1. Fires \subseteq Nat /\ 0 \notin Fires
  BY ScheduleAssumption
<1>2. CASE later = {}
  BY <1>1, <1>2 DEF NextInstance, Never
<1>3. CASE later # {}
  <2>1. Min(later) \in later /\ \A x \in later : Min(later) <= x
    BY <1>1, <1>3, LeastNat
  <2>2. NextInstance(i) = Min(later)
    BY <1>3 DEF NextInstance
  <2> HIDE DEF later
  <2>3. Min(later) \in Fires /\ i < Min(later)
    BY <2>1 DEF later
  <2>4. \A f \in Fires : i < f => Min(later) <= f
    BY <2>1 DEF later
  <2> QED BY <1>1, <2>2, <2>3, <2>4 DEF Never
<1> QED BY <1>2, <1>3

-----------------------------------------------------------------------------
LEMMA InitIInv == Init => IInv
<1> SUFFICES ASSUME Init PROVE IInv
  OBVIOUS
<1>1. NextInstance(0) \in Fires /\ \A f \in Fires : 0 < f => NextInstance(0) <= f
  <2>1. 0 \in Nat /\ \A f \in Fires : f \in Nat /\ 0 < f
    BY ScheduleAssumption
  <2>2. PICK f \in Fires : TRUE
    BY ScheduleAssumption
  <2>3. NextInstance(0) # Never
    BY <2>1, <2>2, NextInstanceIsNext
  <2> QED BY <2>1, <2>3, NextInstanceIsNext
<1>2. Fires \subseteq Nat /\ MaxRev \in Nat \ {0} /\ MaxNow \in Nat /\ PerScan \in Nat \ {0}
  BY ScheduleAssumption
<1>3. Types
  BY <1>1, <1>2 DEF Init, Types, Row, ScanVars, Revs, NewRow, NoRow, Idle, Never, Entries
<1>4. \A r \in Revs : RowInv(r)
  BY <1>1, <1>2 DEF Init, RowInv, Revs, NewRow, NoRow
<1>5. \A t \in Threads : ScanInv(t)
  BY DEF Init, ScanInv, Idle
<1>6. AccountInv
  <2>1. \A r \in Revs : Accounted(r, rows[r].due)
    <3> TAKE r \in Revs
    <3>1. rows[r].created = 0 /\ (rows[r].due = 0 \/ rows[r].due = NextInstance(0))
      BY DEF Init, NewRow, NoRow, Never
    <3>2. ASSUME NEW f \in Fires, 0 < f PROVE ~ (f < rows[r].due)
      <4>1. NextInstance(0) <= f /\ f \in Nat /\ NextInstance(0) \in Nat
        BY <1>1, <1>2, <3>2
      <4> QED BY <3>1, <3>2, <4>1
    <3> QED BY <3>1, <3>2 DEF Accounted, Covers
  <2>2. \A t \in Threads : scan[t].row = 0 /\ scan[t].todo = {}
    BY DEF Init, Idle
  <2> QED BY <2>1, <2>2 DEF AccountInv
<1> QED BY <1>3, <1>4, <1>5, <1>6 DEF IInv

\* A step of one scan that leaves the rows alone: what is left to show is that
\* the scan's new variables are in order and nothing is accounted for less.
LEMMA ScanStep ==
    ASSUME IInv, NEW t \in Threads, NEW new \in ScanVars,
           scan' = [scan EXCEPT ![t] = new], UNCHANGED <<now, status, rev, rows>>,
           events' \in SUBSET (Revs \X Fires), missed' \in SUBSET (Revs \X Fires),
           NEW done, done = events' \cup missed', events \cup missed \subseteq done,
           new.row # 0 => /\ new.row <= rev /\ new.inst \in Fires
                          /\ Covers(done, new.row, rows[new.row].created, new.inst),
           \A e \in new.todo : /\ e.row <= rev
                                /\ Covers(done, e.row, rows[e.row].created, e.due)
    PROVE  IInv'
<1>1. \A u \in Threads : IF u = t THEN scan'[u] = new ELSE scan'[u] = scan[u]
  BY DEF IInv, Types
<1>2. Types'
  BY DEF IInv, Types
<1>3. \A u \in Threads : ScanInv(u)'
  BY <1>1 DEF IInv, ScanInv
<1>4. \A r \in Revs : RowInv(r)'
  BY DEF IInv, RowInv
<1>5. \A r, c, i : Covers(events \cup missed, r, c, i) => Covers(done, r, c, i)
  BY DEF Covers
<1>6. \A r \in Revs : Covers(done, r, rows[r].created, rows[r].due)
  BY <1>5 DEF IInv, AccountInv, Accounted
<1>7. \A u \in Threads : scan'[u].row # 0 =>
          Covers(done, scan'[u].row, rows[scan'[u].row].created, scan'[u].inst)
  BY <1>1, <1>5 DEF IInv, AccountInv, Accounted
<1>8. \A u \in Threads : \A e \in scan'[u].todo :
          Covers(done, e.row, rows[e.row].created, e.due)
  BY <1>1, <1>5 DEF IInv, AccountInv, Accounted
<1>9. AccountInv'
  BY <1>6, <1>7, <1>8 DEF AccountInv, Accounted
<1> QED BY <1>2, <1>3, <1>4, <1>9 DEF IInv

(* What the records become that a scan writes. *)

LEMMA IdleVars == Idle \in ScanVars /\ Idle.row = 0 /\ Idle.todo = {}
  BY ScheduleAssumption DEF Idle, ScanVars

LEMMA WaitingVars ==
    ASSUME NEW n \in Nat, NEW todo \in SUBSET Entries
    PROVE  /\ Waiting(n, todo) \in ScanVars
           /\ Waiting(n, todo).row = 0 /\ Waiting(n, todo).todo = todo
  BY IdleVars DEF Waiting, ScanVars

LEMMA TakenVars ==
    ASSUME NEW s \in ScanVars, NEW e \in Entries
    PROVE  /\ Taken(s, e) \in ScanVars
           /\ Taken(s, e).row = e.row /\ Taken(s, e).inst = e.due
           /\ Taken(s, e).todo = s.todo \ {e}
<1>1. PICK new : new = Taken(s, e)
  OBVIOUS
<1>2. new = [todo |-> s.todo \ {e}, row |-> e.row, at |-> s.at, inst |-> e.due,
             left |-> PerScan, skipped |-> s.skipped, over |-> s.over]
  BY <1>1 DEF Taken, ScanVars
<1>3. PerScan \in 0 .. PerScan
  <2>1. PerScan \in Nat
    BY ScheduleAssumption
  <2> QED BY <2>1
<1>4. e.row \in Revs \cup {0} /\ e.due \in Nat
  <2>1. Fires \subseteq Nat
    BY ScheduleAssumption
  <2>2. e.row \in Revs /\ e.due \in Fires
    BY DEF Entries
  <2> QED BY <2>1, <2>2
<1>5. s.todo \in SUBSET Entries /\ s.at \in Nat /\ s.skipped \in Nat
  BY DEF ScanVars
<1>6. s.over \in BOOLEAN
  BY DEF ScanVars
<1>7. s.todo \ {e} \in SUBSET Entries
  BY <1>5
<1> QED BY <1>1, <1>2, <1>3, <1>4, <1>5, <1>6, <1>7 DEF ScanVars

LEMMA HandledVars ==
    ASSUME NEW s \in ScanVars, s.left > 0, NEW counted \in Nat, NEW next \in Fires \cup {Never}
    PROVE  LET new == Handled(s, counted, next)
           IN /\ new \in ScanVars /\ new.row = s.row /\ new.todo = s.todo
              /\ new.inst = IF next = Never THEN s.inst ELSE next
<1> DEFINE left == s.left - 1
           skipped == s.skipped + counted
           over == next = Never
           inst == IF next = Never THEN s.inst ELSE next
<1>0. PICK new : new = Handled(s, counted, next)
  OBVIOUS
<1>1. new = [todo |-> s.todo, row |-> s.row, at |-> s.at, inst |-> inst,
             left |-> left, skipped |-> skipped, over |-> over]
  BY <1>0 DEF Handled, ScanVars
<1>2. /\ s.todo \in SUBSET Entries /\ s.at \in Nat /\ s.row \in Revs \cup {0}
      /\ left \in 0 .. PerScan /\ skipped \in Nat /\ inst \in Nat
  BY ScheduleAssumption DEF ScanVars
<1>3. over \in BOOLEAN
  OBVIOUS
<1> HIDE DEF left, skipped, inst, over
<1>4. new \in ScanVars
  BY <1>1, <1>2, <1>3 DEF ScanVars
<1> QED BY <1>0, <1>1, <1>4 DEF inst

LEMMA MovedOnRow ==
    ASSUME NEW old \in Row, NEW s \in ScanVars, s.inst \in Fires
    PROVE  /\ MovedOn(old, s) \in Row
           /\ MovedOn(old, s).created = old.created /\ MovedOn(old, s).due = s.inst
<1> DEFINE skipped == old.skipped + s.skipped
           enabled == ~s.over
<1>0. PICK new : new = MovedOn(old, s)
  OBVIOUS
<1>1. new = [enabled |-> enabled, due |-> s.inst, skipped |-> skipped, created |-> old.created]
  BY <1>0 DEF MovedOn, Row
<1>2. skipped \in Nat /\ s.inst \in Fires \cup {Never} /\ old.created \in Nat
  BY DEF Row, ScanVars
<1>3. enabled \in BOOLEAN
  OBVIOUS
<1> HIDE DEF skipped, enabled
<1> QED BY <1>0, <1>1, <1>2, <1>3 DEF Row

\* Every step keeps the invariant.
LEMMA NextIInv == IInv /\ [Next]_vars => IInv'
<1> SUFFICES ASSUME IInv, [Next]_vars PROVE IInv'
  OBVIOUS
<1>0. /\ Fires \subseteq Nat /\ 0 \notin Fires
      /\ MaxRev \in Nat \ {0} /\ MaxNow \in Nat /\ PerScan \in Nat \ {0}
  BY ScheduleAssumption
<1>1. ASSUME Tick PROVE IInv'
  <2>1. now' \in 0 .. MaxNow
    BY <1>0, <1>1 DEF IInv, Types, Row, ScanVars, Tick
  <2>2. UNCHANGED <<status, rev, rows, events, missed, scan>>
    BY <1>1 DEF Tick
  <2> QED BY <2>1, <2>2 DEF IInv, Types, Row, ScanVars, AccountInv, Accounted, Covers, RowInv, ScanInv
<1>2. ASSUME Pause \/ Resume PROVE IInv'
  BY <1>2 DEF IInv, Types, Row, ScanVars, AccountInv, Accounted, Covers, RowInv, ScanInv, Pause, Resume, SetStatus
<1>3. ASSUME NEW has \in BOOLEAN, Revise(has) PROVE IInv'
  <2>1. /\ rev' = rev + 1 /\ rev' \in Revs /\ rev \in Nat /\ now \in Nat
        /\ UNCHANGED <<now, status, events, missed, scan>>
    BY <1>0, <1>3 DEF Revise, IInv, Types, Row, ScanVars, Revs
  <2>2. /\ NextInstance(now) \in Fires \cup {Never}
        /\ has => /\ NextInstance(now) \in Fires
                  /\ \A f \in Fires : now < f => NextInstance(now) <= f
    BY <1>3, <2>1, NextInstanceIsNext DEF Revise
  <2>3. rows' = [r \in Revs |-> IF r = rev + 1 /\ has THEN NewRow(now)
                                ELSE [rows[r] EXCEPT !.enabled = FALSE]]
    BY <1>3, <2>1 DEF Revise
  <2>4. Types'
    BY <2>1, <2>2, <2>3 DEF IInv, Types, Row, ScanVars, NewRow
  <2>5. \A r \in Revs : RowInv(r)'
    BY <2>1, <2>2, <2>3 DEF IInv, Types, Row, ScanVars, RowInv, NewRow
  <2>6. \A t \in Threads : ScanInv(t)'
    <3>1. \A r \in Revs \cup {0} : r <= rev => r <= rev'
      BY <2>1 DEF Revs
    <3>2. \A t \in Threads : scan[t].row \in Revs \cup {0}
      BY DEF IInv, Types, ScanVars
    <3>3. \A t \in Threads : \A e \in scan[t].todo : e.row \in Revs \cup {0}
      BY DEF IInv, Types, ScanVars, Entries
    <3>4. \A t \in Threads : ScanInv(t) /\ scan'[t] = scan[t]
      BY <2>1 DEF IInv
    <3> QED BY <3>1, <3>2, <3>3, <3>4 DEF ScanInv
  <2>7. \A r \in Revs : r # rev + 1 => rows'[r].created = rows[r].created
                                       /\ rows'[r].due = rows[r].due
    BY <2>3 DEF IInv, Types, Row, ScanVars
  <2>8. \A r \in Revs : \A i : r # rev + 1 /\ Accounted(r, i) => Accounted(r, i)'
    BY <2>1, <2>7 DEF Accounted, Covers
  <2>9. \A r \in Revs : Accounted(r, rows[r].due)'
    <3> TAKE r \in Revs
    <3>1. CASE r = rev + 1 /\ has
      BY <1>0, <2>1, <2>2, <2>3, <3>1 DEF Accounted, Covers, NewRow
    <3>2. CASE ~(r = rev + 1 /\ has)
      <4>1. rows'[r].created = rows[r].created /\ rows'[r].due = rows[r].due
        BY <2>3, <3>2 DEF IInv, Types, Row, ScanVars
      <4> QED BY <2>1, <4>1 DEF IInv, AccountInv, Accounted, Covers
    <3> QED BY <3>1, <3>2
  <2>10. AccountInv'
    <3>1. \A t \in Threads : scan[t].row # 0 =>
             scan[t].row \in Revs /\ scan[t].row # rev + 1
      BY <2>1 DEF IInv, Types, Row, ScanVars, ScanInv, Revs
    <3>2. \A t \in Threads : \A e \in scan[t].todo :
             e.row \in Revs /\ e.row # rev + 1
      BY <2>1 DEF IInv, Types, Row, ScanVars, ScanInv, Revs, Entries
    <3> QED BY <2>1, <2>8, <2>9, <3>1, <3>2 DEF IInv, AccountInv
  <2> QED BY <2>4, <2>5, <2>6, <2>10 DEF IInv
<1>4. ASSUME NEW t \in Threads, List(t) PROVE IInv'
  <2> DEFINE todo == {[row |-> r, due |-> rows[r].due] : r \in {q \in Revs : IsDue(q)}}
             new == Waiting(now, todo)
  <2>1. \A e \in todo : e.row \in Revs /\ rows[e.row].enabled /\ e.due = rows[e.row].due
    BY DEF IsDue
  <2>2. todo \subseteq Entries
    <3> SUFFICES ASSUME NEW e \in todo PROVE e \in Entries
      OBVIOUS
    <3>1. PICK r \in Revs : e = [row |-> r, due |-> rows[r].due] /\ rows[r].enabled
      BY DEF IsDue
    <3> QED BY <3>1 DEF IInv, RowInv, Entries
  <2>3. scan' = [scan EXCEPT ![t] = new] /\ UNCHANGED <<now, status, rev, rows, events, missed>>
    BY <1>4 DEF List
  <2> HIDE DEF todo
  <2>4. new \in ScanVars /\ new.row = 0 /\ new.todo = todo
    <3>1. now \in Nat
      BY <1>0 DEF IInv, Types
    <3> QED BY <2>2, <3>1, WaitingVars
  <2> HIDE DEF new
  <2>5. \A e \in new.todo : e.row <= rev
                            /\ Covers(events \cup missed, e.row, rows[e.row].created, e.due)
    BY <2>1, <2>4 DEF IInv, RowInv, AccountInv, Accounted
  <2>6. events \in SUBSET (Revs \X Fires) /\ missed \in SUBSET (Revs \X Fires)
    BY DEF IInv, Types
  <2> QED BY <2>3, <2>4, <2>5, <2>6, ScanStep
<1>5. ASSUME NEW t \in Threads, Take(t) PROVE IInv'
  <2>1. PICK e \in scan[t].todo : scan' = [scan EXCEPT ![t] = Taken(scan[t], e)]
    BY <1>5 DEF Take
  <2> DEFINE new == Taken(scan[t], e)
  <2>2. scan' = [scan EXCEPT ![t] = new]
    BY <2>1
  <2>3. UNCHANGED <<now, status, rev, rows, events, missed>>
    BY <1>5 DEF Take
  <2>4. scan[t] \in ScanVars /\ e \in Entries
    BY DEF IInv, Types, ScanVars
  <2>5. new \in ScanVars /\ new.row = e.row /\ new.inst = e.due
        /\ new.todo = scan[t].todo \ {e}
    BY <2>4, TakenVars
  <2> HIDE DEF new
  <2>6. \A f \in scan[t].todo : f.row <= rev
          /\ Covers(events \cup missed, f.row, rows[f.row].created, f.due)
    BY DEF IInv, ScanInv, AccountInv, Accounted
  <2>7. e.due \in Fires
    BY <2>4 DEF Entries
  <2>8. events \in SUBSET (Revs \X Fires) /\ missed \in SUBSET (Revs \X Fires)
    BY DEF IInv, Types
  <2> QED BY <2>2, <2>3, <2>5, <2>6, <2>7, <2>8, ScanStep
<1>6. ASSUME NEW t \in Threads, Instance(t) PROVE IInv'
  <2> DEFINE row == scan[t].row
             inst == scan[t].inst
             next == NextInstance(inst)
             to == IF next = Never THEN inst ELSE next
             done == events' \cup missed'
  <2>1. scan[t] \in ScanVars
    BY DEF IInv, Types
  <2>2. row # 0 /\ scan[t].left > 0
    BY <1>6 DEF Instance, More
  <2>3. /\ row \in Revs /\ row <= rev /\ inst \in Fires
        /\ Covers(events \cup missed, row, rows[row].created, inst)
    BY <2>1, <2>2 DEF IInv, ScanInv, AccountInv, ScanVars, Accounted
  <2>4. /\ done = events \cup missed \cup {<<row, inst>>}
        /\ events' \in SUBSET (Revs \X Fires) /\ missed' \in SUBSET (Revs \X Fires)
    BY <1>6, <2>3 DEF Instance, IInv, Types
  <2>5. PICK counted \in Nat :
          /\ scan' = [scan EXCEPT ![t] = Handled(scan[t], counted, next)]
          /\ UNCHANGED <<now, status, rev, rows>>
    BY <1>6 DEF Instance, From, Counted
  <2>6. to \in Fires /\ \A f \in Fires : f < to => f <= inst
    <3>1. inst \in Nat /\ \A f \in Fires : f \in Nat
      BY <1>0, <2>3
    <3>2. CASE next = Never
      BY <2>3, <3>1, <3>2
    <3>3. CASE next # Never
      <4>1. next \in Fires /\ \A f \in Fires : inst < f => next <= f
        BY <3>1, <3>3, NextInstanceIsNext
      <4> HIDE DEF next
      <4> QED BY <3>1, <3>3, <4>1
    <3> QED BY <3>2, <3>3
  <2> DEFINE new == Handled(scan[t], counted, next)
  <2>7. new \in ScanVars /\ new.row = row /\ new.inst = to /\ new.todo = scan[t].todo
    <3>1. next \in Fires \cup {Never}
      BY <1>0, <2>3, NextInstanceIsNext
    <3> HIDE DEF next
    <3> QED BY <2>1, <2>2, <3>1, HandledVars
  <2>8. scan' = [scan EXCEPT ![t] = new]
    BY <2>5
  <2>9. events \cup missed \subseteq done
    BY <2>4
  <2> HIDE DEF row, inst, to, new
  <2>10. Covers(done, row, rows[row].created, to)
    <3> SUFFICES ASSUME NEW f \in Fires, rows[row].created < f, f < to
                 PROVE  <<row, f>> \in done
      BY DEF Covers
    <3>1. f <= inst /\ f \in Nat /\ inst \in Nat
      BY <1>0, <2>3, <2>6
    <3>2. CASE f = inst
      BY <2>4, <3>2
    <3>3. CASE f < inst
      BY <2>3, <2>4, <3>3 DEF Covers
    <3> QED BY <3>1, <3>2, <3>3
  <2>11. \A e \in scan[t].todo : e.row <= rev
           /\ Covers(done, e.row, rows[e.row].created, e.due)
    BY <2>9 DEF IInv, ScanInv, AccountInv, Accounted, Covers
  <2> QED BY <2>3, <2>4, <2>5, <2>6, <2>7, <2>8, <2>9, <2>10, <2>11, ScanStep
<1>7. ASSUME NEW t \in Threads, Advance(t) PROVE IInv'
  <2> DEFINE row == scan[t].row
             inst == scan[t].inst
  <2>1. scan[t] \in ScanVars
    BY DEF IInv, Types
  <2>2. row # 0
    BY <1>7 DEF Advance
  <2>3. /\ row \in Revs /\ row <= rev /\ inst \in Fires
        /\ Covers(events \cup missed, row, rows[row].created, inst)
    BY <2>1, <2>2 DEF IInv, ScanInv, AccountInv, ScanVars, Accounted
  <2> DEFINE newRow == MovedOn(rows[row], scan[t])
             new == IF scan[t].todo = {} THEN Idle ELSE Waiting(scan[t].at, scan[t].todo)
  <2>4. rows' = [rows EXCEPT ![row] = newRow] /\ UNCHANGED <<now, status, rev, events, missed>>
    BY <1>7 DEF Advance
  <2>5. scan' = [scan EXCEPT ![t] = new]
    BY <1>7 DEF Advance
  <2>6. newRow \in Row /\ newRow.created = rows[row].created /\ newRow.due = inst
    <3>1. rows[row] \in Row
      BY <2>3 DEF IInv, Types
    <3> QED BY <2>1, <2>3, <3>1, MovedOnRow
  <2>7. new \in ScanVars /\ new.row = 0 /\ new.todo \subseteq scan[t].todo
    <3>1. scan[t].at \in Nat /\ scan[t].todo \in SUBSET Entries
      BY <2>1 DEF ScanVars
    <3> QED BY <3>1, IdleVars, WaitingVars
  <2> HIDE DEF row, inst, newRow, new
  <2>8. Types'
    BY <2>3, <2>4, <2>5, <2>6, <2>7 DEF IInv, Types
  <2>9. \A r \in Revs : IF r = row THEN rows'[r] = newRow ELSE rows'[r] = rows[r]
    BY <2>4 DEF IInv, Types
  <2>10. \A u \in Threads : IF u = t THEN scan'[u] = new ELSE scan'[u] = scan[u]
    BY <2>5 DEF IInv, Types
  <2>11. \A u \in Threads : ScanInv(u)'
    BY <2>4, <2>7, <2>10 DEF IInv, ScanInv
  <2>12. \A r \in Revs : rows'[r].created = rows[r].created
    BY <2>6, <2>9
  <2>13. \A r \in Revs : Covers(events \cup missed, r, rows[r].created, rows'[r].due)
    BY <2>3, <2>6, <2>9 DEF IInv, AccountInv, Accounted
  <2>14. \A u \in Threads : scan'[u].row # 0 => scan'[u].row \in Revs
           /\ Covers(events \cup missed, scan'[u].row, rows[scan'[u].row].created,
                     scan'[u].inst)
    BY <2>7, <2>10 DEF IInv, AccountInv, Accounted, Types, ScanVars
  <2>15. \A u \in Threads : \A e \in scan'[u].todo : e.row \in Revs
           /\ Covers(events \cup missed, e.row, rows[e.row].created, e.due)
    <3> TAKE u \in Threads
    <3> TAKE e \in scan'[u].todo
    <3>1. e \in scan[u].todo
      BY <2>7, <2>10
    <3>2. e.row \in Revs
      BY <3>1 DEF IInv, Types, ScanVars, Entries
    <3> QED BY <3>1, <3>2 DEF IInv, AccountInv, Accounted
  <2>16. AccountInv'
    BY <2>4, <2>12, <2>13, <2>14, <2>15 DEF AccountInv, Accounted
  <2>17. \A r \in Revs : RowInv(r)'
    BY <2>3, <2>4, <2>6, <2>9 DEF IInv, RowInv
  <2> QED BY <2>8, <2>11, <2>16, <2>17 DEF IInv
<1>8. ASSUME NEW t \in Threads, Abort(t) PROVE IInv'
  <2>1. scan' = [scan EXCEPT ![t] = Idle] /\ UNCHANGED <<now, status, rev, rows, events, missed>>
    BY <1>8 DEF Abort
  <2>2. events \in SUBSET (Revs \X Fires) /\ missed \in SUBSET (Revs \X Fires)
    BY DEF IInv, Types
  <2> QED BY <2>1, <2>2, IdleVars, ScanStep
<1>9. CASE UNCHANGED vars
  BY <1>9 DEF vars, IInv, Types, AccountInv, Accounted, RowInv, ScanInv
<1> QED BY <1>1, <1>2, <1>3, <1>4, <1>5, <1>6, <1>7, <1>8, <1>9 DEF Next, Scan

-----------------------------------------------------------------------------
\* The types hold for any calendar rule and any number of threads.
THEOREM TypesHold == Spec => []TypeOK
<1>1. IInv => TypeOK
  BY ScheduleAssumption DEF IInv, Types, Row, ScanVars, TypeOK, RowInv, ScanInv
<1> QED BY InitIInv, NextIInv, <1>1, PTL DEF Spec

\* Whatever scans overlap, lag or stop: the due date of a schedule passes no
\* instance that got neither an event nor a count.
THEOREM NoInstanceIsLost == Spec => []PassedIsAccounted
<1>1. IInv => PassedIsAccounted
  BY DEF IInv, AccountInv, Accounted, Covers, PassedIsAccounted, Passed
<1> QED BY InitIInv, NextIInv, <1>1, PTL DEF Spec

-----------------------------------------------------------------------------
(* What the count owns up to.  A scan writes its count to the row at the   *)
(* end only, so the row's count and the scan's own together cover what the *)
(* scan has passed; that two scans count the same instance does no harm.   *)

\* The instances of row r, created at c, that come before i and are not among
\* the seen, and a count that owns up to them.
Unseen(seen, r, c, i) == {f \in Fires : c < f /\ f < i /\ <<r, f>> \notin seen}

Owned(count, seen, r, c, i) == count >= Cardinality(Unseen(seen, r, c, i))

RowCounts(r) == Owned(rows[r].skipped, events, r, rows[r].created, rows[r].due)

ScanCounts(t) ==
    LET r == scan[t].row
    IN r # 0 => Owned(rows[r].skipped + scan[t].skipped, events, r, rows[r].created, scan[t].inst)

TodoCounts(t) ==
    \A e \in scan[t].todo : Owned(rows[e.row].skipped, events, e.row, rows[e.row].created, e.due)

CountInv == /\ \A r \in Revs : RowCounts(r)
            /\ \A t \in Threads : ScanCounts(t) /\ TodoCounts(t)

LEMMA FewerAreUnseen ==
    ASSUME NEW S, NEW n \in Nat, S \subseteq 0 .. n, NEW T \in SUBSET S
    PROVE  /\ IsFiniteSet(S) /\ IsFiniteSet(T)
           /\ Cardinality(S) \in Nat /\ Cardinality(T) \in Nat
           /\ Cardinality(T) <= Cardinality(S)
<1>1. IsFiniteSet(0 .. n)
  BY FS_Interval
<1>2. IsFiniteSet(S)
  BY <1>1, FS_Subset
<1>3. IsFiniteSet(T) /\ Cardinality(T) <= Cardinality(S)
  BY <1>2, FS_Subset
<1> QED BY <1>2, <1>3, FS_CardinalityType

LEMMA UnseenIsBounded ==
    ASSUME NEW seen, NEW r, NEW c, NEW i \in Nat
    PROVE  Unseen(seen, r, c, i) \subseteq 0 .. i
<1> SUFFICES ASSUME NEW f \in Unseen(seen, r, c, i) PROVE f \in 0 .. i
  OBVIOUS
<1>1. f \in Nat /\ f < i
  BY ScheduleAssumption DEF Unseen
<1> QED BY <1>1

\* A count that was enough stays enough when it grows and more are seen.
LEMMA OwnedGrows ==
    ASSUME NEW r, NEW c, NEW i \in Nat, NEW m \in Nat, NEW n \in Nat, m <= n,
           NEW old, NEW new, old \subseteq new, Owned(m, old, r, c, i)
    PROVE  Owned(n, new, r, c, i)
<1>1. Unseen(new, r, c, i) \in SUBSET Unseen(old, r, c, i)
  BY DEF Unseen
<1>2. Unseen(old, r, c, i) \subseteq 0 .. i
  BY UnseenIsBounded
<1>3. /\ Cardinality(Unseen(new, r, c, i)) \in Nat /\ Cardinality(Unseen(old, r, c, i)) \in Nat
      /\ Cardinality(Unseen(new, r, c, i)) <= Cardinality(Unseen(old, r, c, i))
  BY <1>1, <1>2, FewerAreUnseen
<1> QED BY <1>3 DEF Owned

\* A row that has just been made has nothing to own up to.
LEMMA NewRowOwned ==
    ASSUME NEW seen, NEW r, NEW c \in Nat
    PROVE  Owned(0, seen, r, c, NextInstance(c)) /\ Owned(0, seen, r, c, Never)
<1>1. \A f \in Fires : f \in Nat /\ 0 < f
  BY ScheduleAssumption
<1>2. Unseen(seen, r, c, Never) = {}
  BY <1>1 DEF Unseen, Never
<1>3. Unseen(seen, r, c, NextInstance(c)) = {}
  <2>1. CASE NextInstance(c) = Never
    BY <1>2, <2>1
  <2>2. CASE NextInstance(c) # Never
    <3>1. NextInstance(c) \in Fires /\ \A f \in Fires : c < f => NextInstance(c) <= f
      BY <2>2, NextInstanceIsNext
    <3>2. \A f \in Fires : c < f => ~ (f < NextInstance(c))
      BY <1>1, <3>1
    <3> QED BY <3>2 DEF Unseen
  <2> QED BY <2>1, <2>2
<1> QED BY <1>2, <1>3, FS_EmptySet DEF Owned

LEMMA InitCounts == Init => CountInv
<1> SUFFICES ASSUME Init PROVE CountInv
  OBVIOUS
<1>1. \A r \in Revs : /\ rows[r].skipped = 0 /\ rows[r].created = 0
                      /\ rows[r].due = Never \/ rows[r].due = NextInstance(0)
  BY DEF Init, NewRow, NoRow
<1>2. \A r \in Revs : RowCounts(r)
  BY <1>1, NewRowOwned DEF RowCounts
<1>3. \A t \in Threads : scan[t].row = 0 /\ scan[t].todo = {}
  BY DEF Init, Idle
<1> QED BY <1>2, <1>3 DEF CountInv, ScanCounts, TodoCounts

-----------------------------------------------------------------------------
\* What the proofs about counts use of the types.
Ranges ==
    /\ \A r \in Revs : rows[r].due \in Nat /\ rows[r].skipped \in Nat /\ rows[r].created \in Nat
    /\ \A t \in Threads : /\ scan[t].skipped \in Nat /\ scan[t].inst \in Nat
                          /\ scan[t].row \in Revs \cup {0}
                          /\ \A e \in scan[t].todo : e.row \in Revs /\ e.due \in Nat

LEMMA TypesGiveRanges == Types => Ranges
<1> SUFFICES ASSUME Types PROVE Ranges
  OBVIOUS
<1>1. Fires \cup {Never} \subseteq Nat
  BY ScheduleAssumption DEF Never
<1>2. \A r \in Revs : rows[r].due \in Nat /\ rows[r].skipped \in Nat /\ rows[r].created \in Nat
  BY <1>1 DEF Types, Row
<1>3. \A t \in Threads : scan[t] \in ScanVars
  BY DEF Types
<1>4. \A e \in Entries : e.row \in Revs /\ e.due \in Nat
  BY <1>1 DEF Entries
<1>5. \A t \in Threads : /\ scan[t].skipped \in Nat /\ scan[t].inst \in Nat
                         /\ scan[t].row \in Revs \cup {0} /\ scan[t].todo \subseteq Entries
  BY <1>3 DEF ScanVars
<1> QED BY <1>2, <1>4, <1>5 DEF Ranges

\* A step that leaves the rows alone, adds events and moves one scan at most.
LEMMA ScanStepCounts ==
    ASSUME IInv, CountInv, NEW t \in Threads, NEW new \in ScanVars,
           scan' = [scan EXCEPT ![t] = new], rows' = rows,
           NEW seen, seen = events', events \subseteq seen,
           new.row # 0 => /\ new.inst \in Nat
                          /\ Owned(rows[new.row].skipped + new.skipped, seen, new.row,
                                   rows[new.row].created, new.inst),
           \A e \in new.todo : Owned(rows[e.row].skipped, seen, e.row, rows[e.row].created, e.due)
    PROVE  CountInv'
<1>1. /\ \A u \in Threads : IF u = t THEN scan'[u] = new ELSE scan'[u] = scan[u]
      /\ Ranges
  BY TypesGiveRanges DEF IInv, Types
<1>2. \A r \in Revs : RowCounts(r)'
  <2> TAKE r \in Revs
  <2>1. Owned(rows[r].skipped, seen, r, rows[r].created, rows[r].due)
    BY <1>1, OwnedGrows DEF Ranges, CountInv, RowCounts
  <2> QED BY <2>1 DEF RowCounts
<1>3. ASSUME NEW u \in Threads PROVE ScanCounts(u)'
  <2>1. CASE u = t
    BY <1>1, <2>1 DEF ScanCounts
  <2>2. CASE u # t
    <3> DEFINE r == scan[u].row
               c == rows[r].skipped + scan[u].skipped
    <3>1. scan'[u] = scan[u]
      BY <1>1, <2>2
    <3> SUFFICES ASSUME r # 0
                 PROVE  Owned(c, seen, r, rows[r].created, scan[u].inst)
      BY <3>1 DEF ScanCounts
    <3>2. Owned(c, events, r, rows[r].created, scan[u].inst)
      BY DEF CountInv, ScanCounts
    <3>3. c \in Nat /\ scan[u].inst \in Nat
      BY <1>1 DEF Ranges
    <3> HIDE DEF c, r
    <3> QED BY <3>2, <3>3, OwnedGrows
  <2> QED BY <2>1, <2>2
<1>4. ASSUME NEW u \in Threads PROVE TodoCounts(u)'
  <2>1. CASE u = t
    BY <1>1, <2>1 DEF TodoCounts
  <2>2. CASE u # t
    <3>1. scan'[u] = scan[u]
      BY <1>1, <2>2
    <3>2. \A e \in scan[u].todo : Owned(rows[e.row].skipped, seen, e.row, rows[e.row].created, e.due)
      BY <1>1, OwnedGrows DEF Ranges, CountInv, TodoCounts
    <3> QED BY <3>1, <3>2 DEF TodoCounts
  <2> QED BY <2>1, <2>2
<1> QED BY <1>2, <1>3, <1>4 DEF CountInv

\* A new revision's row starts afresh, the others keep what they have, and no
\* scan is at the new one yet.
LEMMA ReviseCounts ==
    ASSUME IInv, CountInv, NEW has \in BOOLEAN, Revise(has) PROVE CountInv'
<1>1. rev' = rev + 1 /\ rev \in Nat /\ now \in Nat /\ UNCHANGED <<events, scan>>
  BY ScheduleAssumption DEF Revise, IInv, Types, Revs
<1>2. rows' = [r \in Revs |-> IF r = rev + 1 /\ has THEN NewRow(now)
                              ELSE [rows[r] EXCEPT !.enabled = FALSE]]
  BY <1>1 DEF Revise
<1>3. \A r \in Revs : ~ (r = rev + 1 /\ has) =>
         /\ rows'[r].created = rows[r].created /\ rows'[r].due = rows[r].due
         /\ rows'[r].skipped = rows[r].skipped
  BY <1>2 DEF IInv, Types, Row
<1>4. \A r \in Revs : RowCounts(r)'
  <2> TAKE r \in Revs
  <2>1. CASE r = rev + 1 /\ has
    <3>1. /\ rows'[r].skipped = 0 /\ rows'[r].created = now /\ rows'[r].due = NextInstance(now)
      BY <1>2, <2>1 DEF NewRow
    <3> QED BY <1>1, <3>1, NewRowOwned DEF RowCounts
  <2>2. CASE ~ (r = rev + 1 /\ has)
    BY <1>1, <1>3, <2>2 DEF RowCounts, CountInv
  <2> QED BY <2>1, <2>2
<1>5. \A t \in Threads : /\ scan[t].row # 0 => scan[t].row \in Revs /\ scan[t].row # rev + 1
                         /\ \A e \in scan[t].todo : e.row \in Revs /\ e.row # rev + 1
  <2>1. \A r \in Revs : r <= rev => r # rev + 1
    BY <1>1 DEF Revs
  <2>2. Ranges
    BY TypesGiveRanges DEF IInv
  <2>3. \A t \in Threads : ScanInv(t)
    BY DEF IInv
  <2> QED BY <2>1, <2>2, <2>3 DEF Ranges, ScanInv
<1>6. \A t \in Threads : ScanCounts(t)' /\ TodoCounts(t)'
  BY <1>1, <1>3, <1>5 DEF CountInv, ScanCounts, TodoCounts
<1> QED BY <1>4, <1>6 DEF CountInv

\* A scan that has handled an instance owns up to all before the next one.
LEMMA InstanceCounts ==
    ASSUME IInv, CountInv, NEW t \in Threads, Instance(t) PROVE CountInv'
<1> DEFINE r == scan[t].row
           inst == scan[t].inst
           created == rows[r].created
           next == NextInstance(inst)
           recent == scan[t].at - inst <= Catchup
           count == IF recent THEN 0 ELSE 1
           new == Handled(scan[t], count, next)
           owned == rows[r].skipped + scan[t].skipped
<1>1. /\ r # 0 /\ scan[t].left > 0 /\ scan' = [scan EXCEPT ![t] = new]
      /\ UNCHANGED <<now, status, rev, rows>>
      /\ events' = IF recent THEN events \cup {<<r, inst>>} ELSE events
  BY DEF Instance, More, From, Counted
<1>2. Ranges /\ scan[t] \in ScanVars
  BY TypesGiveRanges DEF IInv, Types
<1>3. /\ r \in Revs /\ inst \in Nat /\ owned \in Nat /\ created \in Nat /\ count \in Nat
      /\ next \in Fires \cup {Never}
  BY <1>1, <1>2, NextInstanceIsNext DEF Ranges
<1>4. /\ new \in ScanVars /\ new.row = r /\ new.todo = scan[t].todo
      /\ new.inst = IF next = Never THEN inst ELSE next
      /\ new.skipped = scan[t].skipped + count
  <2>1. /\ new \in ScanVars /\ new.row = r /\ new.todo = scan[t].todo
        /\ new.inst = IF next = Never THEN inst ELSE next
    BY <1>1, <1>2, <1>3, HandledVars
  <2>2. new.skipped = scan[t].skipped + count
    BY <1>2 DEF Handled, ScanVars
  <2> QED BY <2>1, <2>2
<1>5. new.inst \in Nat
  BY <1>4 DEF ScanVars
<1>6. Owned(owned, events, r, created, inst)
  BY <1>1 DEF CountInv, ScanCounts
<1> HIDE DEF r, inst, created, next, new, owned, recent
<1>7. Owned(owned + count, events', r, created, new.inst)
  <2> DEFINE S == Unseen(events, r, created, inst)
             T == Unseen(events', r, created, new.inst)
  <2>1. ASSUME NEW f \in T PROVE f \in S \cup (IF recent THEN {} ELSE {inst})
    <3>1. f \in Fires /\ created < f /\ f < new.inst /\ <<r, f>> \notin events'
      BY DEF Unseen
    <3>2. f \in Nat /\ f <= inst
      <4>1. \A g \in Fires : g \in Nat /\ 0 < g
        BY ScheduleAssumption
      <4>2. CASE next = Never
        BY <1>3, <1>4, <3>1, <4>1, <4>2
      <4>3. CASE next # Never
        <5>1. next \in Nat /\ \A g \in Fires : inst < g => next <= g
          BY <1>3, <4>1, <4>3, NextInstanceIsNext DEF next
        <5> QED BY <1>3, <1>4, <3>1, <4>1, <4>3, <5>1
      <4> QED BY <4>2, <4>3
    <3>3. CASE f = inst
      BY <1>1, <3>1, <3>3
    <3>4. CASE f # inst
      BY <1>1, <1>3, <3>1, <3>2, <3>4 DEF Unseen
    <3> QED BY <3>3, <3>4
  <2>2. S \subseteq 0 .. inst /\ S \in SUBSET S
    BY <1>3, UnseenIsBounded
  <2>3. IsFiniteSet(S) /\ Cardinality(S) \in Nat
    BY <1>3, <2>2, FewerAreUnseen
  <2>4. owned >= Cardinality(S)
    BY <1>6 DEF Owned
  <2> HIDE DEF S, T
  <2>5. CASE recent
    <3>1. T \in SUBSET S /\ count = 0
      BY <2>1, <2>5
    <3>2. Cardinality(T) \in Nat /\ Cardinality(T) <= Cardinality(S)
      BY <1>3, <2>2, <3>1, FewerAreUnseen
    <3> QED BY <1>3, <2>3, <2>4, <3>1, <3>2 DEF Owned, T
  <2>6. CASE ~recent
    <3>1. T \in SUBSET (S \cup {inst}) /\ count = 1
      BY <2>1, <2>6
    <3>2. IsFiniteSet(S \cup {inst}) /\ Cardinality(S \cup {inst}) <= Cardinality(S) + 1
          /\ Cardinality(S \cup {inst}) \in Nat
      BY <2>3, FS_AddElement, FS_CardinalityType
    <3>3. IsFiniteSet(T) /\ Cardinality(T) <= Cardinality(S \cup {inst})
      BY <3>1, <3>2, FS_Subset
    <3>4. Cardinality(T) \in Nat
      BY <3>3, FS_CardinalityType
    <3> QED BY <1>3, <2>3, <2>4, <3>1, <3>2, <3>3, <3>4 DEF Owned, T
  <2> QED BY <2>5, <2>6
<1>8. rows[r].skipped + new.skipped = owned + count
  BY <1>2, <1>3, <1>4 DEF Ranges, owned, r
<1>9. \A e \in new.todo : Owned(rows[e.row].skipped, events', e.row, rows[e.row].created, e.due)
  <2>1. events \subseteq events'
    BY <1>1
  <2> QED BY <1>2, <1>4, <2>1, OwnedGrows DEF CountInv, TodoCounts, Ranges
<1>10. events \subseteq events' /\ rows' = rows
  BY <1>1
<1> QED BY <1>1, <1>4, <1>5, <1>7, <1>8, <1>9, <1>10, ScanStepCounts DEF created

\* The row takes the scan's count over, and keeps what others have added to it
\* meanwhile.
LEMMA AdvanceCounts ==
    ASSUME IInv, CountInv, NEW t \in Threads, Advance(t) PROVE CountInv'
<1> DEFINE r == scan[t].row
           s == scan[t]
<1>1. Ranges /\ s \in ScanVars /\ rows \in [Revs -> Row] /\ scan \in [Threads -> ScanVars]
  BY TypesGiveRanges DEF IInv, Types
<1>2. /\ r \in Revs /\ rows' = [rows EXCEPT ![r] = MovedOn(rows[r], s)] /\ events' = events
      /\ scan' = [scan EXCEPT ![t] = IF s.todo = {} THEN Idle ELSE Waiting(s.at, s.todo)]
  BY <1>1 DEF Advance, Ranges
<1>3. MovedOn(rows[r], s).created = rows[r].created /\ MovedOn(rows[r], s).due = s.inst
      /\ MovedOn(rows[r], s).skipped = rows[r].skipped + s.skipped
  BY <1>1, <1>2 DEF MovedOn, Row
<1>4. /\ \A q \in Revs : rows'[q].created = rows[q].created
      /\ \A q \in Revs : q # r => rows'[q].due = rows[q].due /\ rows'[q].skipped = rows[q].skipped
      /\ rows'[r].due = s.inst /\ rows'[r].skipped = rows[r].skipped + s.skipped
  BY <1>1, <1>2, <1>3
<1>5. \A q \in Revs : rows[q].skipped \in Nat /\ rows'[q].skipped \in Nat
                      /\ rows[q].skipped <= rows'[q].skipped
  BY <1>1, <1>2, <1>4 DEF Ranges
<1>6. \A u \in Threads : \/ scan'[u] = scan[u]
                         \/ /\ u = t /\ scan'[u].row = 0 /\ scan'[u].todo \subseteq s.todo
  <2>1. s.at \in Nat /\ s.todo \in SUBSET Entries
    BY <1>1 DEF ScanVars
  <2> QED BY <1>1, <1>2, <2>1, IdleVars, WaitingVars
<1>7. \A q \in Revs : RowCounts(q)'
  <2> TAKE q \in Revs
  <2>1. CASE q = r
    <3>1. Owned(rows[r].skipped + s.skipped, events, r, rows[r].created, s.inst)
      BY DEF CountInv, ScanCounts, Advance
    <3> QED BY <1>2, <1>4, <2>1, <3>1 DEF RowCounts
  <2>2. CASE q # r
    BY <1>2, <1>4, <2>2 DEF RowCounts, CountInv
  <2> QED BY <2>1, <2>2
<1>8. ASSUME NEW u \in Threads PROVE ScanCounts(u)'
  <2> DEFINE q == scan[u].row
             m == rows[q].skipped + scan[u].skipped
             n == rows'[q].skipped + scan[u].skipped
  <2> SUFFICES ASSUME scan'[u] = scan[u], q # 0
               PROVE  Owned(n, events, q, rows'[q].created, scan[u].inst)
    BY <1>2, <1>6 DEF ScanCounts
  <2>1. Owned(m, events, q, rows[q].created, scan[u].inst)
    BY DEF CountInv, ScanCounts
  <2>2. /\ q \in Revs /\ scan[u].inst \in Nat /\ m \in Nat /\ n \in Nat /\ m <= n
        /\ rows'[q].created = rows[q].created
    BY <1>1, <1>4, <1>5 DEF Ranges
  <2> HIDE DEF q, m, n
  <2> QED BY <2>1, <2>2, OwnedGrows
<1>9. ASSUME NEW u \in Threads PROVE TodoCounts(u)'
  <2> SUFFICES ASSUME NEW e \in scan'[u].todo
               PROVE  Owned(rows'[e.row].skipped, events, e.row, rows'[e.row].created, e.due)
    BY <1>2 DEF TodoCounts
  <2>1. e \in scan[u].todo
    BY <1>6
  <2>2. Owned(rows[e.row].skipped, events, e.row, rows[e.row].created, e.due)
    BY <2>1 DEF CountInv, TodoCounts
  <2>3. e.row \in Revs /\ e.due \in Nat
    BY <1>1, <2>1 DEF Ranges
  <2> QED BY <1>4, <1>5, <2>2, <2>3, OwnedGrows
<1> QED BY <1>7, <1>8, <1>9 DEF CountInv

LEMMA NextCounts == IInv /\ CountInv /\ [Next]_vars => CountInv'
<1> SUFFICES ASSUME IInv, CountInv, [Next]_vars PROVE CountInv'
  OBVIOUS
<1>1. ASSUME Tick \/ Pause \/ Resume \/ UNCHANGED vars PROVE CountInv'
  <2>1. UNCHANGED <<rows, events, scan>>
    BY <1>1 DEF Tick, Pause, Resume, SetStatus, vars
  <2> QED BY <2>1 DEF CountInv, RowCounts, ScanCounts, TodoCounts
<1>2. ASSUME NEW t \in Threads, List(t) PROVE CountInv'
  <2> DEFINE todo == {[row |-> r, due |-> rows[r].due] : r \in {q \in Revs : IsDue(q)}}
             new == Waiting(now, todo)
  <2>1. scan' = [scan EXCEPT ![t] = new] /\ UNCHANGED <<rows, events>>
    BY <1>2 DEF List
  <2>2. todo \subseteq Entries
    <3> SUFFICES ASSUME NEW e \in todo PROVE e \in Entries
      OBVIOUS
    <3>1. PICK r \in Revs : e = [row |-> r, due |-> rows[r].due] /\ rows[r].enabled
      BY DEF IsDue
    <3> QED BY <3>1 DEF IInv, RowInv, Entries
  <2>3. now \in Nat
    BY ScheduleAssumption DEF IInv, Types
  <2>4. \A e \in todo : e.row \in Revs /\ e.due = rows[e.row].due
    OBVIOUS
  <2> HIDE DEF todo
  <2>5. new \in ScanVars /\ new.row = 0 /\ new.todo = todo
    BY <2>2, <2>3, WaitingVars
  <2> HIDE DEF new
  <2>6. \A e \in new.todo : Owned(rows[e.row].skipped, events, e.row, rows[e.row].created, e.due)
    BY <2>4, <2>5 DEF CountInv, RowCounts
  <2> QED BY <2>1, <2>5, <2>6, ScanStepCounts
<1>3. ASSUME NEW t \in Threads, Take(t) PROVE CountInv'
  <2>1. PICK e \in scan[t].todo : scan' = [scan EXCEPT ![t] = Taken(scan[t], e)]
    BY <1>3 DEF Take
  <2> DEFINE new == Taken(scan[t], e)
  <2>2. Ranges /\ scan[t] \in ScanVars /\ e \in Entries
    BY TypesGiveRanges DEF IInv, Types, ScanVars
  <2>3. /\ new \in ScanVars /\ new.row = e.row /\ new.inst = e.due
        /\ new.todo \subseteq scan[t].todo
    BY <2>2, TakenVars
  <2>4. new.skipped = scan[t].skipped
    BY <2>2 DEF Taken, ScanVars
  <2>5. \A f \in scan[t].todo : Owned(rows[f.row].skipped, events, f.row, rows[f.row].created, f.due)
    BY DEF CountInv, TodoCounts
  <2>6. Owned(rows[e.row].skipped + scan[t].skipped, events, e.row, rows[e.row].created, e.due)
    <3> DEFINE m == rows[e.row].skipped
               n == rows[e.row].skipped + scan[t].skipped
    <3>1. m \in Nat /\ n \in Nat /\ m <= n /\ e.due \in Nat /\ Owned(m, events, e.row, rows[e.row].created, e.due)
      BY <2>2, <2>5 DEF Ranges
    <3> HIDE DEF m, n
    <3>2. Owned(n, events, e.row, rows[e.row].created, e.due)
      BY <3>1, OwnedGrows
    <3> QED BY <3>2 DEF n
  <2>7. e.due \in Nat /\ UNCHANGED <<rows, events>> /\ scan' = [scan EXCEPT ![t] = new]
    BY <1>3, <2>1, <2>2 DEF Take, Ranges
  <2> HIDE DEF new
  <2> QED BY <2>3, <2>4, <2>5, <2>6, <2>7, ScanStepCounts
<1>4. ASSUME NEW t \in Threads, Abort(t) PROVE CountInv'
  <2>1. scan' = [scan EXCEPT ![t] = Idle] /\ UNCHANGED <<rows, events>>
    BY <1>4 DEF Abort
  <2> QED BY <2>1, IdleVars, ScanStepCounts
<1> QED BY <1>1, <1>2, <1>3, <1>4, ReviseCounts, InstanceCounts, AdvanceCounts DEF Next, Scan

\* skipped_missed owns up to every instance that passed without an event, for
\* any rule, any number of threads and whatever cuts scans off.
THEOREM SkipsAreOwnedUpTo == Spec => []SkippedIsCounted
<1>1. CountInv => SkippedIsCounted
  <2> SUFFICES ASSUME CountInv, NEW r \in Revs
               PROVE  rows[r].skipped >= Cardinality({i \in Passed(r) : <<r, i>> \notin events})
    BY DEF SkippedIsCounted
  <2>1. {i \in Passed(r) : <<r, i>> \notin events}
          = Unseen(events, r, rows[r].created, rows[r].due)
    BY DEF Passed, Unseen
  <2> QED BY <2>1 DEF CountInv, RowCounts, Owned
<1> QED BY InitIInv, NextIInv, InitCounts, NextCounts, <1>1, PTL DEF Spec
=============================================================================
