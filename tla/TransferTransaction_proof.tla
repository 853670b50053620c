---------------------- MODULE TransferTransaction_proof ----------------------
(***************************************************************************)
(* Proofs about TransferTransaction, for calls that come one at a time     *)
(* (MaxTogether = 1) and pages that do not start a stopped backend during  *)
(* a transaction (Amid = FALSE).                                           *)
(***************************************************************************)
EXTENDS TransferTransaction, FiniteSetTheorems, TLAPS

-----------------------------------------------------------------------------
(* The inductive invariant *)

InForce(d, t) == d.journal[t].state \in {"prepared", "committed"}

\* What the documents may be while a journal is in force.
Versions(j, t) == {j.before, [j.before EXCEPT !.part = t], j.after}

\* Backend b's store d and a transaction t: c is the phase in t's coordinator
\* file, bs are its targets, and w counts the user's writes.
Fits(d, t, c, b, bs, w) ==
    /\ HasJournal(d, t) => /\ c \in {"preparing", "committing", "committed"} /\ b \in bs
                           /\ d.journal[t].before.part = NoTxn
                           /\ t \notin d.journal[t].before.done
                           /\ d.journal[t].after = Applied(d.journal[t].before, t)
    /\ InForce(d, t) =>
         /\ d.data \in Versions(d.journal[t], t)
         /\ d.journal[t].before.writes = w
         /\ c = "preparing" => d.journal[t].state = "prepared" /\ d.data = d.journal[t].before
    /\ d.active = t => HasJournal(d, t)
    /\ d.data.part = t => InForce(d, t)
    /\ t \in d.data.done => /\ b \in bs
                            /\ \/ c \in {"committed", "removed"}
                               \/ c = "committing" /\ InForce(d, t)
    /\ c = "committed" /\ b \in bs => /\ t \in d.data.done
                                /\ d.journal[t].state \in {"none", "committed"}

\* While its process is up, nothing of t is half done.
AtRest(d, t) ==
    InForce(d, t) => /\ d.active = t
                     /\ d.journal[t].state = "prepared" => d.data = d.journal[t].before
                     /\ d.journal[t].state = "committed" => d.data = d.journal[t].after

StoresFit == \A b \in Backend, t \in Txn :
                 /\ Fits(disk[b], t, coord[t], b, targets[t], written[b])
                 /\ up[b] => AtRest(disk[b], t)

\* A removed transaction is at all its targets or nowhere.
Decided == \A t \in Txn :
    /\ coord[t] = "removed" =>
         /\ targets[t] # {}
         /\ \/ \A b \in targets[t] : t \in disk[b].data.done
            \/ \A b \in Backend : t \notin disk[b].data.done
    /\ targets[t] = {} => coord[t] = "new" /\ told[t] = "none"

OneCall == \A o, p \in Op : Running(o) /\ Running(p) => o = p
OneFile == \A t, u \in Txn : HasFile(t) /\ HasFile(u) => t = u

Files == {t \in Txn : HasFile(t)}

\* The phases that go with a stage of an import or a reset.
PhaseAt == [idle |-> {"new", "preparing", "committing", "committed", "removed"},
            scan |-> {"new"}, recover |-> {"new"}, look |-> {"new"}, shown |-> {"new"},
            prepare |-> {"preparing"}, commit |-> {"committing"}, finalize |-> {"committed"},
            undo |-> {"preparing", "committing"}]

StageInv(o) ==
    /\ op[o].stage = "idle" => op[o] = Idle
    /\ op[o].stage \in {"scan", "shown"} => op[o].todo = {}
    /\ op[o].stage # "recover" => op[o].files = {} /\ op[o].file = NoTxn
    /\ op[o].stage = "recover" => op[o].files = Files /\ op[o].file \in Files \cup {NoTxn}
    /\ op[o].stage = "recover" /\ op[o].file = NoTxn => op[o].todo = {}
    /\ op[o].stage = "look" => Files = {}
    /\ op[o].errors => op[o].stage = "undo"
    /\ o = Backup => op[o].call \in {"none", "backup"} /\ op[o].stage \in {"idle", "scan", "recover", "look"}
    /\ o \in Txn => /\ coord[o] \in PhaseAt[op[o].stage]
                    /\ op[o].stage # "idle" => targets[o] # {} /\ told[o] = "none"

\* The transaction an operation is busy with.
Subject(o) == IF op[o].stage = "recover" THEN op[o].file ELSE o

Verbs(o) == CASE op[o].stage = "recover" -> IF coord[op[o].file] = "committed" THEN {"finalize"}
                                            ELSE {"rollback", "finalize"}
              [] op[o].stage = "undo" -> {"rollback", "finalize"}
              [] OTHER -> {op[o].stage}

RequestInv(o) ==
    /\ \A r \in op[o].todo : /\ r.verb \in Verbs(o)
                             /\ op[o].stage # "look" => r.txn = Subject(o) /\ r.at \in targets[Subject(o)]
    /\ \A q, r \in op[o].todo : q.at = r.at =>
         /\ q.verb = r.verb => q = r
         /\ q.verb = "rollback" /\ r.verb = "finalize" => q.turn < r.turn

Asked(o, verb, b) == \E r \in op[o].todo : r.verb = verb /\ r.at = b

\* What has been done for a transaction, and what is still asked for.
ProgressInv(o) ==
    /\ \/ op[o].stage = "recover" /\ op[o].file # NoTxn
       \/ op[o].stage = "finalize"
       \/ op[o].stage = "undo" /\ ~op[o].errors
       => \A b \in targets[Subject(o)] :
            HasJournal(disk[b], Subject(o)) => Asked(o, "finalize", b)
    /\ op[o].stage \in {"recover", "undo"} /\ Subject(o) # NoTxn =>
         \A b \in targets[Subject(o)] :
           InForce(disk[b], Subject(o)) /\ coord[Subject(o)] # "committed" /\ Asked(o, "finalize", b)
               => Asked(o, "rollback", b)
    /\ op[o].stage \in {"prepare", "commit"} =>
         \A b \in targets[o] : HasJournal(disk[b], o) => disk[b].journal[o].before = op[o].seen[b]
    /\ op[o].stage = "prepare" =>
         \A b \in targets[o] : Asked(o, "prepare", b) => ~HasJournal(disk[b], o)
    /\ op[o].stage = "commit" =>
         \A b \in targets[o] : ~Asked(o, "commit", b) =>
             disk[b].journal[o].state = "committed" /\ o \in disk[b].data.done

OpInv == \A o \in Op : StageInv(o) /\ RequestInv(o) /\ ProgressInv(o)

IInv == TypeOK /\ StoresFit /\ Decided /\ OneCall /\ OneFile /\ OpInv

-----------------------------------------------------------------------------
(* What a store goes through *)

\* x is a state a store d may be in while, or after, t is ...
Prepares(d, x, t) ==
    /\ x.data = d.data /\ x.active \in {d.active, t}
    /\ x.journal = [d.journal EXCEPT ![t] = [state |-> "prepared", before |-> d.data,
                                             after |-> Applied(d.data, t)]]

Commits(d, x, t) ==
    /\ x.active = d.active
    /\ \/ x.journal = d.journal /\ x.data \in Versions(d.journal[t], t)
       \/ /\ x.journal = [d.journal EXCEPT ![t].state = "committed"]
          /\ x.data = d.journal[t].after

\* ... and while, or after, its journal is cleared away ...
Clears(d, x, t) ==
    /\ x.data = d.data
    /\ x.active = d.active \/ (d.active = t /\ x.active = NoTxn)
    /\ x.active = t => HasJournal(x, t)
    /\ \/ x.journal = d.journal
       \/ x.journal = [d.journal EXCEPT ![t] = NoJournal]

\* ... or it is undone and its journal cleared away.
Undoes(d, x, t) ==
    /\ x.active = d.active \/ (d.active = t /\ x.active = NoTxn)
    /\ x.active = t => HasJournal(x, t)
    /\ \/ x.journal = d.journal /\ x.data = d.data
       \/ /\ x.journal = d.journal /\ InForce(d, t)
          /\ \/ x.data = d.journal[t].before
             \/ /\ x.data = [d.journal[t].before EXCEPT !.part = t]
                /\ d.data # d.journal[t].before
       \/ /\ x.journal = [d.journal EXCEPT ![t].state = "rolled_back"]
          /\ InForce(d, t) /\ x.data = d.journal[t].before
       \/ /\ x.journal = [d.journal EXCEPT ![t] = NoJournal]
          /\ x.data = IF InForce(d, t) THEN d.journal[t].before ELSE d.data

\* A transaction that is not meant is not touched.
Same(d, x, u) == /\ x.journal[u] = d.journal[u]
                 /\ x.active = u => d.active = u
                 /\ x.data.part = u => d.data.part = u
                 /\ (u \in x.data.done) = (u \in d.data.done)

LEMMA JournalTypes ==
    ASSUME NEW j \in JournalType
    PROVE  /\ j.state \in {"none", "prepared", "committed", "rolled_back"}
           /\ j.state = "none" <=> j = NoJournal
           /\ j.state # "none" =>
                /\ j \in [state : {"prepared", "committed", "rolled_back"},
                          before : DataType, after : DataType]
                /\ j.before \in DataType /\ j.after \in DataType
           /\ \A st \in {"prepared", "committed", "rolled_back"} :
                j.state # "none" => /\ [j EXCEPT !.state = st] \in JournalType
                                    /\ [j EXCEPT !.state = st].state = st
                                    /\ [j EXCEPT !.state = st].before = j.before
                                    /\ [j EXCEPT !.state = st].after = j.after
BY DEF JournalType, NoJournal

LEMMA NoJournalType == NoJournal \in JournalType /\ NoJournal.state = "none"
BY DEF JournalType, NoJournal

LEMMA AppliedType ==
    ASSUME NEW data \in DataType, NEW t \in Txn
    PROVE  /\ Applied(data, t) \in DataType
           /\ Applied(data, t).done = data.done \cup {t}
           /\ Applied(data, t).part = data.part /\ Applied(data, t).writes = data.writes
BY DEF Applied, DataType

LEMMA HalfType ==
    ASSUME NEW data \in DataType, NEW t \in Txn
    PROVE  /\ [data EXCEPT !.part = t] \in DataType
           /\ [data EXCEPT !.part = t].done = data.done
           /\ [data EXCEPT !.part = t].part = t
           /\ [data EXCEPT !.part = t].writes = data.writes
BY DEF DataType

\* A store and its parts, and one of them changed.
LEMMA PartsOf ==
    ASSUME NEW d \in StoreType
    PROVE  /\ d.data \in DataType /\ d.active \in Txn \cup {NoTxn}
           /\ d.journal \in [Txn -> JournalType]
           /\ \A t \in Txn : d.journal[t] \in JournalType
BY DEF StoreType

LEMMA WithData ==
    ASSUME NEW d \in StoreType, NEW data \in DataType
    PROVE  /\ [d EXCEPT !.data = data] \in StoreType
           /\ [d EXCEPT !.data = data].data = data
           /\ [d EXCEPT !.data = data].active = d.active
           /\ [d EXCEPT !.data = data].journal = d.journal
BY DEF StoreType

LEMMA WithActive ==
    ASSUME NEW d \in StoreType, NEW active \in Txn \cup {NoTxn}
    PROVE  /\ [d EXCEPT !.active = active] \in StoreType
           /\ [d EXCEPT !.active = active].data = d.data
           /\ [d EXCEPT !.active = active].active = active
           /\ [d EXCEPT !.active = active].journal = d.journal
BY DEF StoreType

LEMMA WithJournal ==
    ASSUME NEW d \in StoreType, NEW t \in Txn, NEW j \in JournalType
    PROVE  /\ [d EXCEPT !.journal[t] = j] \in StoreType
           /\ [d EXCEPT !.journal[t] = j].data = d.data
           /\ [d EXCEPT !.journal[t] = j].active = d.active
           /\ [d EXCEPT !.journal[t] = j].journal = [d.journal EXCEPT ![t] = j]
BY DEF StoreType

LEMMA JournalOf ==
    ASSUME NEW d \in StoreType, NEW t \in Txn, d.journal[t].state # "none",
           NEW st \in {"prepared", "committed", "rolled_back"}
    PROVE  /\ Journal(d, t, st) \in StoreType
           /\ Journal(d, t, st).data = d.data /\ Journal(d, t, st).active = d.active
           /\ Journal(d, t, st).journal = [d.journal EXCEPT ![t].state = st]
           /\ Journal(d, t, st).journal[t].state = st
<1>1. d.journal[t] \in JournalType /\ d.journal \in [Txn -> JournalType]
  BY DEF StoreType
<1>2. [d.journal[t] EXCEPT !.state = st] \in JournalType /\ [d.journal[t] EXCEPT !.state = st].state = st
  BY <1>1, JournalTypes
<1>3. Journal(d, t, st) = [d EXCEPT !.journal[t] = [d.journal[t] EXCEPT !.state = st]]
  BY <1>1 DEF Journal, StoreType
<1>4. [d.journal EXCEPT ![t].state = st] = [d.journal EXCEPT ![t] = [d.journal[t] EXCEPT !.state = st]]
  BY <1>1
<1>5. [d.journal EXCEPT ![t] = [d.journal[t] EXCEPT !.state = st]][t].state = st
  BY <1>1, <1>2
<1> QED BY <1>2, <1>3, <1>4, <1>5, WithJournal

LEMMA ReleasedOf ==
    ASSUME NEW d \in StoreType, NEW t \in Txn
    PROVE  /\ Released(d, t) \in StoreType
           /\ Released(d, t).data = d.data /\ Released(d, t).journal = d.journal
           /\ Released(d, t).active = (IF d.active = t THEN NoTxn ELSE d.active)
BY WithActive DEF Released, NoTxn

LEMMA HalfOf ==
    ASSUME NEW d \in StoreType, NEW t \in Txn, d.journal[t].state # "none"
    PROVE  /\ Half(d, t) \in StoreType
           /\ Half(d, t).data = [d.journal[t].before EXCEPT !.part = t]
           /\ Half(d, t).active = d.active /\ Half(d, t).journal = d.journal
<1>1. d.journal[t].before \in DataType
  BY PartsOf, JournalTypes
<1>2. [d.journal[t].before EXCEPT !.part = t] \in DataType
  BY <1>1, HalfType
<1> QED BY <1>2, WithData DEF Half

LEMMA PreparedWay ==
    ASSUME NEW d \in StoreType, NEW t \in Txn, ~HasJournal(d, t)
    PROVE  /\ Prepared(d, t).end \in StoreType /\ Prepares(d, Prepared(d, t).end, t)
           /\ Prepared(d, t).end.active = t
           /\ \A x \in Prepared(d, t).through : x \in StoreType /\ Prepares(d, x, t)
<1> DEFINE j == [state |-> "prepared", before |-> d.data, after |-> Applied(d.data, t)]
           noted == [d EXCEPT !.journal[t] = j]
<1>1. j \in JournalType
  BY PartsOf, AppliedType DEF JournalType
<1>2. /\ noted \in StoreType /\ noted.data = d.data /\ noted.active = d.active
      /\ noted.journal = [d.journal EXCEPT ![t] = j]
  <2> HIDE DEF j
  <2> QED BY <1>1, WithJournal
<1>3. Prepared(d, t) = Way({noted}, [noted EXCEPT !.active = t])
  BY DEF Prepared
<1>4. /\ Prepared(d, t).through = {noted}
      /\ Prepared(d, t).end = [noted EXCEPT !.active = t]
  BY <1>3 DEF Way
<1>5. /\ [noted EXCEPT !.active = t] \in StoreType
      /\ [noted EXCEPT !.active = t].data = d.data
      /\ [noted EXCEPT !.active = t].active = t
      /\ [noted EXCEPT !.active = t].journal = [d.journal EXCEPT ![t] = j]
  <2> HIDE DEF noted
  <2> QED BY <1>2, WithActive
<1> QED
  <2> HIDE DEF noted
  <2> QED BY <1>2, <1>4, <1>5 DEF Prepares

LEMMA CommittedWay ==
    ASSUME NEW d \in StoreType, NEW t \in Txn, InForce(d, t),
           d.data \in Versions(d.journal[t], t), d.journal[t].state = "committed" => d.data = d.journal[t].after
    PROVE  /\ Committed(d, t).end \in StoreType /\ Commits(d, Committed(d, t).end, t)
           /\ Committed(d, t).end.journal[t].state = "committed"
           /\ Committed(d, t).end.data = d.journal[t].after
           /\ \A x \in Committed(d, t).through : x \in StoreType /\ Commits(d, x, t)
<1> DEFINE new == [d EXCEPT !.data = d.journal[t].after]
<1>1. d.journal[t].state # "none" /\ d.journal[t].after \in DataType
  BY PartsOf, JournalTypes DEF InForce
<1>2. new \in StoreType /\ new.data = d.journal[t].after /\ new.active = d.active /\ new.journal = d.journal
  BY <1>1, WithData
<1>3. /\ Half(d, t) \in StoreType /\ Half(d, t).data = [d.journal[t].before EXCEPT !.part = t]
      /\ Half(d, t).active = d.active /\ Half(d, t).journal = d.journal
  BY <1>1, HalfOf
<1>4. CASE d.journal[t].state = "committed"
  <2>1. Committed(d, t).end = d /\ Committed(d, t).through = {}
    BY <1>4 DEF Committed, Way
  <2> QED BY <1>4, <2>1 DEF Commits
<1>5. CASE d.journal[t].state # "committed"
  <2>1. /\ Committed(d, t).end = Journal(new, t, "committed")
        /\ Committed(d, t).through = {Half(d, t), new}
    BY <1>5 DEF Committed, Way
  <2>2. /\ Journal(new, t, "committed") \in StoreType
        /\ Journal(new, t, "committed").data = new.data
        /\ Journal(new, t, "committed").active = new.active
        /\ Journal(new, t, "committed").journal = [new.journal EXCEPT ![t].state = "committed"]
        /\ Journal(new, t, "committed").journal[t].state = "committed"
    <3> HIDE DEF new
    <3>1. new.journal[t].state # "none" /\ "committed" \in {"prepared", "committed", "rolled_back"}
      BY <1>1, <1>2
    <3>2. new \in StoreType
      BY <1>2
    <3>3. \A n \in StoreType : n.journal[t].state # "none" =>
            /\ Journal(n, t, "committed") \in StoreType
            /\ Journal(n, t, "committed").data = n.data /\ Journal(n, t, "committed").active = n.active
            /\ Journal(n, t, "committed").journal = [n.journal EXCEPT ![t].state = "committed"]
            /\ Journal(n, t, "committed").journal[t].state = "committed"
      BY <3>1, JournalOf
    <3> QED BY <3>1, <3>2, <3>3
  <2> HIDE DEF new
  <2>3. Commits(d, new, t) /\ Commits(d, Half(d, t), t)
    BY <1>2, <1>3 DEF Commits, Versions
  <2> QED BY <1>2, <1>3, <2>1, <2>2, <2>3 DEF Commits
<1> QED BY <1>4, <1>5

LEMMA RolledBackWay ==
    ASSUME NEW d \in StoreType, NEW t \in Txn, d.active = t => HasJournal(d, t)
    PROVE  /\ RolledBack(d, t).end \in StoreType /\ Undoes(d, RolledBack(d, t).end, t)
           /\ ~InForce(RolledBack(d, t).end, t)
           /\ \A x \in RolledBack(d, t).through : x \in StoreType /\ Undoes(d, x, t)
           /\ RolledBack(d, t).end.active # t
           /\ IF InForce(d, t)
              THEN /\ RolledBack(d, t).end.journal = [d.journal EXCEPT ![t].state = "rolled_back"]
                   /\ RolledBack(d, t).end.data = d.journal[t].before
              ELSE /\ RolledBack(d, t).end.journal = d.journal
                   /\ RolledBack(d, t).end.data = d.data
<1> DEFINE old == [d EXCEPT !.data = d.journal[t].before]
           undone == Journal(old, t, "rolled_back")
<1>0. NoTxn # t /\ d.journal[t] \in JournalType /\ d.journal \in [Txn -> JournalType]
  BY TransferAssumption, PartsOf DEF NoTxn
<1>1. CASE ~InForce(d, t)
  <2>1. d.journal[t].state \in {"none", "rolled_back"}
    BY <1>0, <1>1, JournalTypes DEF InForce
  <2>2. RolledBack(d, t).end = Released(d, t) /\ RolledBack(d, t).through = {}
    BY <2>1 DEF RolledBack, Way
  <2> QED BY <1>0, <1>1, <2>2, ReleasedOf DEF Undoes, InForce, HasJournal
<1>2. CASE InForce(d, t)
  <2>1. d.journal[t].state # "none" /\ d.journal[t].before \in DataType
    BY <1>0, <1>2, JournalTypes DEF InForce
  <2>2. old \in StoreType /\ old.data = d.journal[t].before /\ old.active = d.active /\ old.journal = d.journal
    BY <2>1, WithData
  <2>3. /\ Half(d, t) \in StoreType /\ Half(d, t).data = [d.journal[t].before EXCEPT !.part = t]
        /\ Half(d, t).active = d.active /\ Half(d, t).journal = d.journal
    BY <2>1, HalfOf
  <2>4. /\ RolledBack(d, t).end = Released(undone, t)
        /\ RolledBack(d, t).through \subseteq {old, undone} \cup {h \in {Half(d, t)} : d # old}
    BY <1>2 DEF RolledBack, Way, InForce
  <2>5. d.data = d.journal[t].before => d = old
    BY DEF StoreType
  <2>6. /\ undone \in StoreType /\ undone.data = old.data /\ undone.active = old.active
        /\ undone.journal = [old.journal EXCEPT ![t].state = "rolled_back"]
        /\ undone.journal[t].state = "rolled_back"
    <3> HIDE DEF old
    <3>1. old.journal[t].state # "none" /\ "rolled_back" \in {"prepared", "committed", "rolled_back"}
      BY <2>1, <2>2
    <3>2. old \in StoreType
      BY <2>2
    <3>3. \A n \in StoreType : n.journal[t].state # "none" =>
            /\ Journal(n, t, "rolled_back") \in StoreType
            /\ Journal(n, t, "rolled_back").data = n.data /\ Journal(n, t, "rolled_back").active = n.active
            /\ Journal(n, t, "rolled_back").journal = [n.journal EXCEPT ![t].state = "rolled_back"]
            /\ Journal(n, t, "rolled_back").journal[t].state = "rolled_back"
      BY <3>1, JournalOf
    <3> QED BY <3>1, <3>2, <3>3
  <2> HIDE DEF old, undone
  <2>7. /\ Released(undone, t) \in StoreType
        /\ Released(undone, t).data = undone.data /\ Released(undone, t).journal = undone.journal
        /\ Released(undone, t).active = (IF undone.active = t THEN NoTxn ELSE undone.active)
    BY <2>6, ReleasedOf
  <2>8. Undoes(d, old, t)
    BY <1>2, <2>1, <2>2 DEF Undoes, HasJournal
  <2>9. Undoes(d, undone, t)
    BY <1>2, <2>2, <2>6 DEF Undoes, HasJournal
  <2>10. d # old => Undoes(d, Half(d, t), t)
    BY <1>2, <2>1, <2>3, <2>5 DEF Undoes, HasJournal
  <2>11. Undoes(d, Released(undone, t), t)
    BY <1>0, <1>2, <2>2, <2>6, <2>7 DEF Undoes
  <2>12. \A x \in RolledBack(d, t).through : x \in StoreType /\ Undoes(d, x, t)
    BY <2>2, <2>3, <2>4, <2>6, <2>8, <2>9, <2>10
  <2> QED BY <1>0, <1>2, <2>2, <2>4, <2>6, <2>7, <2>11, <2>12 DEF InForce
<1> QED BY <1>1, <1>2

LEMMA FinalizedWay ==
    ASSUME NEW d \in StoreType, NEW t \in Txn
    PROVE  /\ Finalized(d, t).end \in StoreType /\ Clears(d, Finalized(d, t).end, t)
           /\ Finalized(d, t).end.journal = [d.journal EXCEPT ![t] = NoJournal]
           /\ Finalized(d, t).end.data = d.data
           /\ Finalized(d, t).end.active = (IF d.active = t THEN NoTxn ELSE d.active)
           /\ \A x \in Finalized(d, t).through : x \in StoreType /\ Clears(d, x, t)
<1> DEFINE free == Released(d, t)
           gone == [free EXCEPT !.journal[t] = NoJournal]
<1>0. NoTxn # t
  BY TransferAssumption DEF NoTxn
<1>1. /\ free \in StoreType /\ free.data = d.data /\ free.journal = d.journal
      /\ free.active = (IF d.active = t THEN NoTxn ELSE d.active)
  BY ReleasedOf
<1>2. Finalized(d, t).end = gone /\ Finalized(d, t).through = {free}
  BY DEF Finalized, Way
<1> HIDE DEF free
<1>3. /\ gone \in StoreType /\ gone.data = free.data /\ gone.active = free.active
      /\ gone.journal = [free.journal EXCEPT ![t] = NoJournal]
  BY <1>1, NoJournalType, WithJournal
<1> HIDE DEF gone
<1>4. Clears(d, free, t)
  BY <1>0, <1>1 DEF Clears
<1>5. Clears(d, gone, t)
  BY <1>0, <1>1, <1>3 DEF Clears
<1> QED BY <1>1, <1>2, <1>3, <1>4, <1>5

\* What is cleared away when nothing is in force is undone.
LEMMA ClearsUndoes ==
    ASSUME NEW d \in StoreType, NEW t \in Txn, NEW x \in StoreType,
           ~InForce(d, t), Clears(d, x, t)
    PROVE  Undoes(d, x, t)
BY DEF Clears, Undoes

LEMMA RecoveryWay ==
    ASSUME NEW d \in StoreType, NEW t \in Txn, d.active = t => HasJournal(d, t)
    PROVE  /\ Recovery(d, t).end \in StoreType
           /\ ~HasJournal(Recovery(d, t).end, t) /\ Recovery(d, t).end.active # t
           /\ \A x \in Recovery(d, t).through \cup {Recovery(d, t).end} :
                /\ x \in StoreType
                /\ IF coord[t] = "committed" THEN Clears(d, x, t) ELSE Undoes(d, x, t)
<1> DEFINE e == RolledBack(d, t).end
           g == Finalized(e, t)
<1>0. NoTxn # t /\ d.journal \in [Txn -> JournalType]
  BY TransferAssumption, PartsOf DEF NoTxn
<1>1. CASE coord[t] = "committed"
  <2>1. Recovery(d, t) = Finalized(d, t)
    BY <1>1 DEF Recovery
  <2>2. /\ Finalized(d, t).end \in StoreType /\ Clears(d, Finalized(d, t).end, t)
        /\ Finalized(d, t).end.journal = [d.journal EXCEPT ![t] = NoJournal]
        /\ Finalized(d, t).end.active # t
        /\ \A x \in Finalized(d, t).through : x \in StoreType /\ Clears(d, x, t)
    BY <1>0, FinalizedWay
  <2>3. ~HasJournal(Finalized(d, t).end, t)
    BY <1>0, <2>2 DEF HasJournal, NoJournal
  <2> QED BY <1>1, <2>1, <2>2, <2>3
<1>2. CASE coord[t] # "committed"
  <2>1. /\ Recovery(d, t).end = g.end
        /\ Recovery(d, t).through = RolledBack(d, t).through \cup {e} \cup g.through
    BY <1>2 DEF Recovery, Way
  <2>2. /\ e \in StoreType /\ Undoes(d, e, t) /\ ~InForce(e, t)
        /\ \A x \in RolledBack(d, t).through : x \in StoreType /\ Undoes(d, x, t)
        /\ e.active # t
        /\ IF InForce(d, t) THEN /\ e.journal = [d.journal EXCEPT ![t].state = "rolled_back"]
                                 /\ e.data = d.journal[t].before
           ELSE e.journal = d.journal /\ e.data = d.data
    BY RolledBackWay
  <2> HIDE DEF e
  <2>3. /\ g.end \in StoreType /\ Clears(e, g.end, t)
        /\ g.end.journal = [e.journal EXCEPT ![t] = NoJournal]
        /\ g.end.data = e.data
        /\ g.end.active = e.active
        /\ \A x \in g.through : x \in StoreType /\ Clears(e, x, t)
    BY <2>2, FinalizedWay
  <2> HIDE DEF g
  <2>4. e.journal \in [Txn -> JournalType]
    BY <2>2, PartsOf
  <2>5. [e.journal EXCEPT ![t] = NoJournal] = [d.journal EXCEPT ![t] = NoJournal]
    BY <1>0, <2>2
  <2>6. \A x \in StoreType : Clears(e, x, t) => Undoes(d, x, t)
    <3> SUFFICES ASSUME NEW x \in StoreType, Clears(e, x, t) PROVE Undoes(d, x, t)
      OBVIOUS
    <3>1. x.data = e.data /\ x.active = e.active
      BY <2>2 DEF Clears
    <3>2. x.journal = e.journal \/ x.journal = [d.journal EXCEPT ![t] = NoJournal]
      BY <2>5 DEF Clears
    <3>3. /\ x.active = d.active \/ (d.active = t /\ x.active = NoTxn)
          /\ x.active # t
      BY <2>2, <3>1 DEF Undoes
    <3> QED BY <2>2, <3>1, <3>2, <3>3 DEF Undoes
  <2>7. ~HasJournal(g.end, t)
    BY <2>3, <2>4 DEF HasJournal, NoJournal
  <2> QED BY <1>2, <2>1, <2>2, <2>3, <2>6, <2>7
<1> QED BY <1>1, <1>2

-----------------------------------------------------------------------------
(* How a store goes on fitting the coordinator file *)

Phases == {"new", "preparing", "committing", "committed", "removed"}

\* A journal whose state has changed, and one that is gone.
LEMMA StateChanged ==
    ASSUME NEW d \in StoreType, NEW t \in Txn, HasJournal(d, t),
           NEW st \in {"prepared", "committed", "rolled_back"}
    PROVE  /\ [d.journal EXCEPT ![t].state = st][t].state = st
           /\ [d.journal EXCEPT ![t].state = st][t].before = d.journal[t].before
           /\ [d.journal EXCEPT ![t].state = st][t].after = d.journal[t].after
           /\ \A u \in Txn \ {t} : [d.journal EXCEPT ![t].state = st][u] = d.journal[u]
<1>1. d.journal \in [Txn -> JournalType] /\ d.journal[t] \in JournalType
  BY PartsOf
<1>2. [d.journal EXCEPT ![t].state = st][t] = [d.journal[t] EXCEPT !.state = st]
  BY <1>1
<1>3. \A u \in Txn \ {t} : [d.journal EXCEPT ![t].state = st][u] = d.journal[u]
  BY <1>1
<1> QED BY <1>1, <1>2, <1>3, JournalTypes DEF HasJournal

LEMMA JournalGone ==
    ASSUME NEW d \in StoreType, NEW t \in Txn
    PROVE  /\ [d.journal EXCEPT ![t] = NoJournal][t].state = "none"
           /\ \A u \in Txn \ {t} : [d.journal EXCEPT ![t] = NoJournal][u] = d.journal[u]
BY PartsOf, NoJournalType

\* The documents while a journal is in force differ in t only.
LEMMA VersionsDiffer ==
    ASSUME NEW d \in StoreType, NEW t \in Txn, NEW c, NEW b, NEW bs, NEW w,
           Fits(d, t, c, b, bs, w), InForce(d, t)
    PROVE  /\ d.data \in DataType /\ d.journal[t].before \in DataType
           /\ HasJournal(d, t) /\ c \in {"preparing", "committing", "committed"} /\ b \in bs
           /\ \A x \in Versions(d.journal[t], t) :
                /\ x \in DataType /\ x.writes = w /\ x.part \in {NoTxn, t}
                /\ \A u \in Txn \ {t} : (u \in x.done) = (u \in d.data.done)
                /\ t \in x.done => x = d.journal[t].after
                /\ x.part = t => x = [d.journal[t].before EXCEPT !.part = t]
           /\ d.data \in Versions(d.journal[t], t)
           /\ d.journal[t].before.part = NoTxn
           /\ t \notin d.journal[t].before.done /\ t \in d.journal[t].after.done
           /\ NoTxn \notin Txn
<1> DEFINE j == d.journal[t]
           half == [j.before EXCEPT !.part = t]
<1>1. j \in JournalType /\ j.state # "none" /\ d.data \in DataType
  BY PartsOf DEF InForce
<1>2. /\ HasJournal(d, t) /\ c \in {"preparing", "committing", "committed"} /\ b \in bs
      /\ j.before.part = NoTxn /\ t \notin j.before.done
      /\ j.after = Applied(j.before, t) /\ j.before.writes = w
      /\ d.data \in Versions(j, t)
  BY <1>1 DEF Fits, HasJournal
<1>3. j.before \in DataType
  BY <1>1, JournalTypes
<1>4. /\ j.after \in DataType /\ j.after.done = j.before.done \cup {t}
      /\ j.after.part = j.before.part /\ j.after.writes = j.before.writes
  BY <1>2, <1>3, AppliedType
<1>5. half \in DataType /\ half.done = j.before.done /\ half.part = t /\ half.writes = j.before.writes
  BY <1>3, HalfType
<1>6. t # NoTxn /\ NoTxn \notin Txn
  BY TransferAssumption DEF NoTxn
<1>7. \A x \in Versions(j, t) : x = j.before \/ x = half \/ x = j.after
  BY DEF Versions
<1> HIDE DEF half, j
<1>8. ASSUME NEW x \in Versions(j, t)
      PROVE  /\ x \in DataType /\ x.writes = w /\ x.part \in {NoTxn, t}
             /\ \A u \in Txn \ {t} : (u \in x.done) = (u \in j.before.done)
             /\ t \in x.done => x = j.after
             /\ x.part = t => x = half
  <2>1. CASE x = j.before
    BY <2>1, <1>2, <1>3, <1>6
  <2>2. CASE x = half
    BY <2>2, <1>2, <1>5
  <2>3. CASE x = j.after
    BY <2>3, <1>2, <1>4, <1>6
  <2> QED BY <1>7, <2>1, <2>2, <2>3
<1>9. \A u \in Txn \ {t} : (u \in d.data.done) = (u \in j.before.done)
  BY <1>2, <1>8
<1>10. t \in j.after.done
  BY <1>4
<1> QED BY <1>1, <1>2, <1>3, <1>6, <1>8, <1>9, <1>10 DEF half, j

\* Nothing of t is added.
Less(d, x, t) ==
    /\ x.data.writes = d.data.writes
    /\ HasJournal(x, t) => HasJournal(d, t) /\ x.journal[t].before = d.journal[t].before
    /\ InForce(x, t) => InForce(d, t)
    /\ t \in x.data.done => t \in d.data.done

LEMMA SameFits ==
    ASSUME NEW d \in StoreType, NEW x \in StoreType, NEW u \in Txn,
           NEW c, NEW b, NEW bs, NEW w,
           Fits(d, u, c, b, bs, w), ~HasJournal(d, u), Same(d, x, u)
    PROVE  Fits(x, u, c, b, bs, w)
BY DEF Fits, Same, HasJournal, InForce

LEMMA ClearsFits ==
    ASSUME NEW d \in StoreType, NEW x \in StoreType, NEW t \in Txn,
           NEW b, NEW bs, NEW w,
           Fits(d, t, "committed", b, bs, w), Clears(d, x, t)
    PROVE  /\ Fits(x, t, "committed", b, bs, w) /\ \A u \in Txn \ {t} : Same(d, x, u)
           /\ x.data = d.data
<1>1. x.data = d.data /\ (x.active = t => HasJournal(x, t))
  BY DEF Clears
<1>2. x.journal = d.journal \/ x.journal = [d.journal EXCEPT ![t] = NoJournal]
  BY DEF Clears
<1>3. /\ x.journal[t] = d.journal[t] \/ x.journal[t].state = "none"
      /\ \A u \in Txn \ {t} : x.journal[u] = d.journal[u]
  <2>1. CASE x.journal = d.journal
    BY <2>1
  <2>2. CASE x.journal = [d.journal EXCEPT ![t] = NoJournal]
    BY <2>2, JournalGone
  <2> QED BY <1>2, <2>1, <2>2
<1>4. \A u \in Txn : x.active = u => d.active = u
  BY TransferAssumption DEF Clears, NoTxn
<1>6. d.data.part # t
  <2> SUFFICES ASSUME d.data.part = t PROVE FALSE
    OBVIOUS
  <2>1. InForce(d, t)
    BY DEF Fits
  <2>2. b \in bs
    BY <2>1, VersionsDiffer
  <2>3. t \in d.data.done
    BY <2>2 DEF Fits
  <2>4. d.data = [d.journal[t].before EXCEPT !.part = t] /\ d.journal[t].before \in DataType
        /\ t \notin d.journal[t].before.done
    BY <2>1, VersionsDiffer
  <2>5. [d.journal[t].before EXCEPT !.part = t].done = d.journal[t].before.done
    BY <2>4, HalfType
  <2> QED BY <2>3, <2>4, <2>5
<1>7. Fits(x, t, "committed", b, bs, w)
  BY <1>1, <1>3, <1>6 DEF Fits, HasJournal, InForce
<1>8. \A u \in Txn \ {t} : Same(d, x, u)
  BY <1>1, <1>3, <1>4 DEF Same
<1> QED BY <1>1, <1>7, <1>8

LEMMA UndoesFits ==
    ASSUME NEW d \in StoreType, NEW x \in StoreType, NEW t \in Txn,
           NEW c, c # "committed", NEW b, NEW bs, NEW w,
           Fits(d, t, c, b, bs, w), d.data.writes = w, Undoes(d, x, t)
    PROVE  /\ Fits(x, t, c, b, bs, w) /\ \A u \in Txn \ {t} : Same(d, x, u)
           /\ Less(d, x, t)
<1>1. x.active = t => HasJournal(x, t)
  BY DEF Undoes
<1>2. \A u \in Txn : x.active = u => d.active = u
  BY TransferAssumption DEF Undoes, NoTxn
<1>3. CASE x.journal = d.journal /\ x.data = d.data
  <2>1. Fits(x, t, c, b, bs, w)
    BY <1>1, <1>3 DEF Fits, HasJournal, InForce
  <2> QED BY <1>2, <1>3, <2>1 DEF Same, Less, HasJournal, InForce
<1>4. CASE /\ x.journal = d.journal /\ InForce(d, t)
           /\ \/ x.data = d.journal[t].before
              \/ /\ x.data = [d.journal[t].before EXCEPT !.part = t]
                 /\ d.data # d.journal[t].before
  <2>1. x.data \in Versions(d.journal[t], t)
    BY <1>4 DEF Versions
  <2>2. /\ x.data.writes = w
        /\ \A u \in Txn \ {t} : (u \in x.data.done) = (u \in d.data.done)
        /\ \A u \in Txn \ {t} : x.data.part # u
        /\ t \notin x.data.done
    <3>1. /\ t \notin d.journal[t].before.done /\ d.journal[t].before \in DataType
      BY <1>4, VersionsDiffer
    <3>2. [d.journal[t].before EXCEPT !.part = t].done = d.journal[t].before.done
      BY <3>1, HalfType
    <3>3. t \notin x.data.done
      BY <3>1, <3>2, <1>4
    <3> QED BY <1>4, <2>1, <3>3, VersionsDiffer
  <2>3. Fits(x, t, c, b, bs, w)
    BY <1>1, <1>4, <2>1, <2>2 DEF Fits, HasJournal, InForce
  <2>4. \A u \in Txn \ {t} : Same(d, x, u)
    BY <1>2, <1>4, <2>2 DEF Same
  <2> QED BY <1>4, <2>2, <2>3, <2>4 DEF Less, HasJournal, InForce
<1>5. CASE /\ x.journal = [d.journal EXCEPT ![t].state = "rolled_back"]
           /\ InForce(d, t) /\ x.data = d.journal[t].before
  <2>0. HasJournal(d, t)
    BY <1>5 DEF Less, HasJournal, InForce
  <2>1. /\ x.journal[t].state = "rolled_back" /\ x.journal[t].before = d.journal[t].before
        /\ x.journal[t].after = d.journal[t].after
        /\ \A u \in Txn \ {t} : x.journal[u] = d.journal[u]
    BY <1>5, <2>0, StateChanged
  <2>2. x.data \in Versions(d.journal[t], t)
    BY <1>5 DEF Versions
  <2>3. /\ x.data.writes = w
        /\ \A u \in Txn \ {t} : (u \in x.data.done) = (u \in d.data.done)
        /\ x.data.part = NoTxn /\ t \notin x.data.done /\ NoTxn \notin Txn
    BY <1>5, <2>2, VersionsDiffer
  <2>4. Fits(x, t, c, b, bs, w)
    BY <1>1, <2>0, <2>1, <2>3 DEF Fits, HasJournal, InForce
  <2>5. \A u \in Txn \ {t} : Same(d, x, u)
    BY <1>2, <2>1, <2>3 DEF Same
  <2> QED BY <2>0, <2>1, <2>3, <2>4, <2>5 DEF Less, InForce
<1>6. CASE /\ x.journal = [d.journal EXCEPT ![t] = NoJournal]
           /\ x.data = IF InForce(d, t) THEN d.journal[t].before ELSE d.data
  <2>1. /\ x.journal[t].state = "none"
        /\ \A u \in Txn \ {t} : x.journal[u] = d.journal[u]
    BY <1>6, JournalGone
  <2>2. CASE InForce(d, t)
    <3>1. x.data \in Versions(d.journal[t], t) /\ x.data = d.journal[t].before /\ HasJournal(d, t)
      BY <1>6, <2>2 DEF Versions, HasJournal, InForce
    <3>2. /\ x.data.writes = w
          /\ \A u \in Txn \ {t} : (u \in x.data.done) = (u \in d.data.done)
          /\ x.data.part = NoTxn /\ t \notin x.data.done /\ NoTxn \notin Txn
      BY <2>2, <3>1, VersionsDiffer
    <3>3. Fits(x, t, c, b, bs, w)
      BY <1>1, <2>1, <3>2 DEF Fits, HasJournal, InForce
    <3>4. \A u \in Txn \ {t} : Same(d, x, u)
      BY <1>2, <2>1, <3>2 DEF Same
    <3> QED BY <2>1, <3>2, <3>3, <3>4 DEF Less, HasJournal, InForce
  <2>3. CASE ~InForce(d, t)
    <3>1. Fits(x, t, c, b, bs, w)
      BY <1>1, <1>6, <2>1, <2>3 DEF Fits, HasJournal, InForce
    <3>2. \A u \in Txn \ {t} : Same(d, x, u)
      BY <1>2, <1>6, <2>1, <2>3 DEF Same
    <3> QED BY <1>6, <2>1, <2>3, <3>1, <3>2 DEF Less, HasJournal, InForce
  <2> QED BY <2>2, <2>3
<1> QED BY <1>3, <1>4, <1>5, <1>6 DEF Undoes

LEMMA PreparesFits ==
    ASSUME NEW d \in StoreType, NEW x \in StoreType, NEW t \in Txn,
           NEW b, NEW bs, NEW w, b \in bs,
           Fits(d, t, "preparing", b, bs, w), ~HasJournal(d, t), d.data.part = NoTxn,
           d.data.writes = w, Prepares(d, x, t)
    PROVE  /\ Fits(x, t, "preparing", b, bs, w) /\ \A u \in Txn \ {t} : Same(d, x, u)
           /\ x.active = t => AtRest(x, t)
           /\ x.data = d.data /\ HasJournal(x, t) /\ x.journal[t].before = d.data
<1> DEFINE j == [state |-> "prepared", before |-> d.data, after |-> Applied(d.data, t)]
<1>1. /\ j.state = "prepared" /\ j.before = d.data /\ j.after = Applied(d.data, t)
      /\ x.journal = [d.journal EXCEPT ![t] = j] /\ x.data = d.data /\ x.active \in {d.active, t}
  BY DEF Prepares
<1>2. d.journal \in [Txn -> JournalType]
  BY PartsOf
<1> HIDE DEF j
<1>3. x.journal[t] = j /\ \A u \in Txn \ {t} : x.journal[u] = d.journal[u]
  BY <1>1, <1>2
<1>4. t \notin d.data.done
  BY DEF Fits
<1>5. d.data \in Versions(j, t)
  BY <1>1 DEF Versions
<1>6. d.data.part # t
  BY TransferAssumption DEF NoTxn
<1>7. Fits(x, t, "preparing", b, bs, w)
  BY <1>1, <1>3, <1>4, <1>5, <1>6 DEF Fits, HasJournal, InForce
<1>8. \A u \in Txn \ {t} : Same(d, x, u)
  BY <1>1, <1>3 DEF Same
<1>9. x.active = t => AtRest(x, t)
  BY <1>1, <1>3 DEF AtRest, InForce
<1> QED BY <1>1, <1>3, <1>7, <1>8, <1>9 DEF HasJournal

LEMMA CommitsFits ==
    ASSUME NEW d \in StoreType, NEW x \in StoreType, NEW t \in Txn,
           NEW b, NEW bs, NEW w, d.active = t,
           Fits(d, t, "committing", b, bs, w), InForce(d, t), Commits(d, x, t)
    PROVE  /\ Fits(x, t, "committing", b, bs, w) /\ \A u \in Txn \ {t} : Same(d, x, u)
           /\ x.journal[t].state = "committed" /\ x.data = d.journal[t].after => AtRest(x, t)
           /\ x.data.writes = w
           /\ HasJournal(x, t) /\ x.journal[t].before = d.journal[t].before
<1>1. HasJournal(d, t)
  BY DEF HasJournal, InForce
<1>2. /\ x.journal[t].before = d.journal[t].before /\ x.journal[t].after = d.journal[t].after
      /\ x.journal[t].state \in {"prepared", "committed"}
      /\ \A u \in Txn \ {t} : x.journal[u] = d.journal[u]
  <2>1. CASE x.journal = d.journal
    BY <2>1 DEF InForce
  <2>2. CASE x.journal = [d.journal EXCEPT ![t].state = "committed"]
    BY <1>1, <2>2, StateChanged
  <2> QED BY <2>1, <2>2 DEF Commits
<1>3. x.data \in Versions(d.journal[t], t) /\ x.active = t
  BY <1>1 DEF Commits, Versions
<1>4. /\ x.data.writes = w
      /\ \A u \in Txn \ {t} : (u \in x.data.done) = (u \in d.data.done)
      /\ x.data.part \in {NoTxn, t} /\ NoTxn \notin Txn
  <2>1. \A y \in Versions(d.journal[t], t) :
          /\ y.writes = w /\ y.part \in {NoTxn, t}
          /\ \A u \in Txn \ {t} : (u \in y.done) = (u \in d.data.done)
    BY VersionsDiffer
  <2> QED BY <1>3, <2>1, TransferAssumption DEF NoTxn
<1>5. Versions(x.journal[t], t) = Versions(d.journal[t], t)
  BY <1>2 DEF Versions
<1>6. Fits(x, t, "committing", b, bs, w)
  BY <1>1, <1>2, <1>3, <1>4, <1>5 DEF Fits, HasJournal, InForce
<1>7. \A u \in Txn \ {t} : Same(d, x, u)
  BY <1>1, <1>2, <1>3, <1>4 DEF Same
<1>8. x.journal[t].state = "committed" /\ x.data = d.journal[t].after => AtRest(x, t)
  BY <1>2, <1>3 DEF AtRest
<1> QED BY <1>2, <1>4, <1>6, <1>7, <1>8 DEF HasJournal

-----------------------------------------------------------------------------
(* Requests *)

LEMMA Turns ==
    /\ Forth \in [Backend -> Nat] /\ Back \in [Backend -> Nat]
    /\ \A b \in Backend : Pos(b) \in Nat /\ Pos(b) >= 1 /\ Back[b] <= Len(Order)
    /\ Len(Order) \in Nat
<1>1. Order \in Seq(Backend)
  BY TransferAssumption
<1>2. Len(Order) \in Nat /\ DOMAIN Order = 1 .. Len(Order)
  BY <1>1
<1>3. ASSUME NEW b \in Backend PROVE Pos(b) \in 1 .. Len(Order)
  <2>1. \E i \in DOMAIN Order : Order[i] = b
    BY DEF Backend, Range
  <2>2. Pos(b) \in DOMAIN Order
    BY <2>1 DEF Pos
  <2> QED BY <1>2, <2>2
<1> QED BY <1>2, <1>3 DEF Forth, Back

LEMMA AskIs ==
    ASSUME NEW verb \in {"look", "prepare", "commit", "rollback", "finalize"},
           NEW t \in Op, NEW bs \in SUBSET Backend, NEW turn \in [Backend -> Nat]
    PROVE  /\ Ask(verb, t, bs, turn) \subseteq RequestType
           /\ \A r \in Ask(verb, t, bs, turn) : /\ r.verb = verb /\ r.txn = t /\ r.at \in bs
                                                /\ r.turn = turn[r.at]
           /\ \A q, r \in Ask(verb, t, bs, turn) : q.at = r.at => q = r
           /\ \A b \in bs : \E r \in Ask(verb, t, bs, turn) : r.verb = verb /\ r.at = b
<1> DEFINE R(b) == [verb |-> verb, txn |-> t, at |-> b, turn |-> turn[b]]
<1>1. Ask(verb, t, bs, turn) = {R(b) : b \in bs}
  BY DEF Ask
<1>2. \A b \in bs : /\ R(b) \in RequestType /\ R(b).verb = verb /\ R(b).txn = t
                    /\ R(b).at = b /\ R(b).turn = turn[b]
  BY DEF RequestType
<1> HIDE DEF R
<1> QED BY <1>1, <1>2

\* The requests of a rollback: at each backend first the rollback.
Rollbacks(R, t, bs) ==
    /\ R \subseteq RequestType
    /\ \A r \in R : r.verb \in {"rollback", "finalize"} /\ r.txn = t /\ r.at \in bs
    /\ \A q, r \in R : q.at = r.at =>
         /\ q.verb = r.verb => q = r
         /\ q.verb = "rollback" /\ r.verb = "finalize" => q.turn < r.turn
    /\ \A b \in bs : \E r \in R : r.verb = "finalize" /\ r.at = b

LEMMA TwoAsks ==
    ASSUME NEW t \in Op, NEW bs \in SUBSET Backend,
           NEW f \in [Backend -> Nat], NEW g \in [Backend -> Nat], \A b \in Backend : f[b] < g[b]
    PROVE  /\ Rollbacks(Ask("rollback", t, bs, f) \cup Ask("finalize", t, bs, g), t, bs)
           /\ \A b \in bs : \E r \in Ask("rollback", t, bs, f) \cup Ask("finalize", t, bs, g) :
                               r.verb = "rollback" /\ r.at = b
<1> DEFINE A == Ask("rollback", t, bs, f)
           B == Ask("finalize", t, bs, g)
<1>1. /\ A \subseteq RequestType
      /\ \A r \in A : r.verb = "rollback" /\ r.txn = t /\ r.at \in bs /\ r.turn = f[r.at]
      /\ \A q, r \in A : q.at = r.at => q = r
      /\ \A b \in bs : \E r \in A : r.verb = "rollback" /\ r.at = b
  BY AskIs
<1>2. /\ B \subseteq RequestType
      /\ \A r \in B : r.verb = "finalize" /\ r.txn = t /\ r.at \in bs /\ r.turn = g[r.at]
      /\ \A q, r \in B : q.at = r.at => q = r
      /\ \A b \in bs : \E r \in B : r.verb = "finalize" /\ r.at = b
  BY AskIs
<1> HIDE DEF A, B
<1>3. \A q, r \in A \cup B : q.at = r.at => /\ q.verb = r.verb => q = r
                                            /\ q.verb = "rollback" /\ r.verb = "finalize" => q.turn < r.turn
  BY <1>1, <1>2
<1>4. Rollbacks(A \cup B, t, bs)
  BY <1>1, <1>2, <1>3 DEF Rollbacks
<1>5. \A b \in bs : \E r \in A \cup B : r.verb = "rollback" /\ r.at = b
  BY <1>1
<1> QED BY <1>4, <1>5 DEF A, B

LEMMA UndoRequestsAre ==
    ASSUME NEW t \in Op, NEW bs \in SUBSET Backend
    PROVE  /\ Rollbacks(UndoRequests(t, bs), t, bs)
           /\ \A b \in bs : \E r \in UndoRequests(t, bs) : r.verb = "rollback" /\ r.at = b
<1> DEFINE f == [b \in Backend |-> 2 * Back[b]]
           g == [b \in Backend |-> 2 * Back[b] + 1]
<1>1. \A b \in Backend : 2 * Back[b] \in Nat /\ 2 * Back[b] + 1 \in Nat /\ 2 * Back[b] < 2 * Back[b] + 1
  BY Turns
<1>2. f \in [Backend -> Nat] /\ g \in [Backend -> Nat] /\ \A b \in Backend : f[b] < g[b]
  BY <1>1
<1>3. UndoRequests(t, bs) = Ask("rollback", t, bs, f) \cup Ask("finalize", t, bs, g)
  BY DEF UndoRequests
<1> HIDE DEF f, g
<1>4. /\ Rollbacks(Ask("rollback", t, bs, f) \cup Ask("finalize", t, bs, g), t, bs)
      /\ \A b \in bs : \E r \in Ask("rollback", t, bs, f) \cup Ask("finalize", t, bs, g) :
                          r.verb = "rollback" /\ r.at = b
  BY <1>2, TwoAsks
<1> QED BY <1>3, <1>4

LEMMA RecoveryRequestsAre ==
    ASSUME NEW t \in Txn, NEW bs \in SUBSET Backend
    PROVE  /\ Rollbacks(RecoveryRequests(t, bs), t, bs)
           /\ IF coord[t] = "committed"
              THEN \A r \in RecoveryRequests(t, bs) : r.verb = "finalize"
              ELSE \A b \in bs : \E r \in RecoveryRequests(t, bs) : r.verb = "rollback" /\ r.at = b
<1>0. t \in Op
  BY DEF Op
<1>1. CASE coord[t] = "committed"
  <2>1. RecoveryRequests(t, bs) = Ask("finalize", t, bs, Back)
    BY <1>1 DEF RecoveryRequests
  <2>2. /\ Ask("finalize", t, bs, Back) \subseteq RequestType
        /\ \A r \in Ask("finalize", t, bs, Back) : r.verb = "finalize" /\ r.txn = t /\ r.at \in bs
        /\ \A q, r \in Ask("finalize", t, bs, Back) : q.at = r.at => q = r
        /\ \A b \in bs : \E r \in Ask("finalize", t, bs, Back) : r.verb = "finalize" /\ r.at = b
    <3>1. Back \in [Backend -> Nat] /\ "finalize" \in {"look", "prepare", "commit", "rollback", "finalize"}
      BY Turns
    <3> QED BY <1>0, <3>1, AskIs
  <2> QED BY <1>1, <2>1, <2>2 DEF Rollbacks
<1>2. CASE coord[t] # "committed"
  <2> DEFINE g == [b \in Backend |-> Len(Order) + Pos(b)]
  <2>1. \A b \in Backend : Len(Order) + Pos(b) \in Nat /\ Back[b] < Len(Order) + Pos(b)
    BY Turns
  <2>2. g \in [Backend -> Nat] /\ \A b \in Backend : Back[b] < g[b]
    BY <2>1
  <2>3. RecoveryRequests(t, bs) = Ask("rollback", t, bs, Back) \cup Ask("finalize", t, bs, g)
    BY <1>2 DEF RecoveryRequests
  <2> HIDE DEF g
  <2>4. Back \in [Backend -> Nat]
    BY Turns
  <2>5. /\ Rollbacks(Ask("rollback", t, bs, Back) \cup Ask("finalize", t, bs, g), t, bs)
        /\ \A b \in bs : \E r \in Ask("rollback", t, bs, Back) \cup Ask("finalize", t, bs, g) :
                            r.verb = "rollback" /\ r.at = b
    BY <1>0, <2>2, <2>4, TwoAsks
  <2> QED BY <1>2, <2>3, <2>5
<1> QED BY <1>1, <1>2

-----------------------------------------------------------------------------
(* What a request and a recovery do to a store *)

HostOK == /\ op \in [Op -> OpType]
          /\ told \in [Txn -> {"none", "applied", "refused", "unclean", "stuck", "lost"}]
          /\ targets \in [Op -> SUBSET Backend]
          /\ coord \in [Txn -> Phases]
DiskOK == /\ disk \in [Backend -> StoreType]
          /\ \A b \in Backend, t \in Txn : disk[b].active = t => HasJournal(disk[b], t)
          /\ \A b \in Backend : disk[b].data.writes = written[b]
RestOK == /\ up \in [Backend -> BOOLEAN] /\ held \in [Backend -> BOOLEAN]
          /\ written \in [Backend -> 0 .. MaxWrites]
          /\ crashes \in 0 .. MaxCrashes /\ faults \in 0 .. MaxFaults /\ visits \in 0 .. MaxVisits

LEMMA TypeParts == TypeOK <=> HostOK /\ DiskOK /\ RestOK
BY DEF TypeOK, HostOK, DiskOK, RestOK, Phases

LEMMA OpParts ==
    ASSUME NEW STATE s, s \in OpType
    PROVE  /\ s.call \in {"none", "import", "apply", "reset", "backup"}
           /\ s.stage \in {"idle", "scan", "recover", "look", "shown",
                           "prepare", "commit", "finalize", "undo"}
           /\ s.todo \subseteq RequestType /\ s.files \subseteq Txn
           /\ s.file \in Txn \cup {NoTxn} /\ s.seen \in [Backend -> DataType]
           /\ s.errors \in BOOLEAN
BY DEF OpType

LEMMA RequestParts ==
    ASSUME NEW STATE r, r \in RequestType
    PROVE  /\ r.verb \in {"look", "prepare", "commit", "rollback", "finalize"}
           /\ r.txn \in Op /\ r.at \in Backend /\ r.turn \in Nat
BY DEF RequestType

\* Only the transaction with a coordinator file has journals.
LEMMA NoOther ==
    ASSUME StoresFit, OneFile, NEW STATE t, t \in Txn, HasFile(t)
    PROVE  \A b \in Backend, u \in Txn \ {t} : ~HasJournal(disk[b], u)
BY DEF StoresFit, Fits, OneFile, HasFile

\* Backend b's store may become x, by something done for t.
Moves(x, b, t) ==
    /\ x \in StoreType /\ x.data.writes = written[b]
    /\ Fits(x, t, coord[t], b, targets[t], written[b])
    /\ \A u \in Txn \ {t} : Same(disk[b], x, u)

LEMMA ServedPrepare ==
    ASSUME HostOK, DiskOK, RestOK, StoresFit, OneFile, NEW STATE b, b \in Backend, NEW STATE t, t \in Txn,
           coord[t] = "preparing", b \in targets[t], ~HasJournal(disk[b], t)
    PROVE  /\ AtRest(Prepared(disk[b], t).end, t)
           /\ \A x \in Prepared(disk[b], t).through \cup {Prepared(disk[b], t).end} :
                /\ Moves(x, b, t)
                /\ x.journal[t].before = disk[b].data /\ x.data = disk[b].data
<1> DEFINE d == disk[b]
           w == Prepared(d, t)
<1>1. d \in StoreType /\ d.data.writes = written[b] /\ HasFile(t)
  BY DEF DiskOK, HasFile
<1>2. Fits(d, t, "preparing", b, targets[t], written[b])
  BY DEF StoresFit
<1>3. d.data.part = NoTxn
  <2>1. d.data.part \in Txn \cup {NoTxn}
    BY <1>1, PartsOf DEF DataType
  <2>2. \A u \in Txn : ~HasJournal(d, u)
    BY <1>1, NoOther
  <2>3. \A u \in Txn : d.data.part # u
    BY <2>2 DEF StoresFit, Fits, InForce, HasJournal
  <2> QED BY <2>1, <2>3
<1>4. /\ w.end \in StoreType /\ Prepares(d, w.end, t) /\ w.end.active = t
      /\ \A x \in w.through : x \in StoreType /\ Prepares(d, x, t)
  BY <1>1, PreparedWay
<1> HIDE DEF w
<1>5. \A x \in StoreType : Prepares(d, x, t) =>
        /\ Fits(x, t, "preparing", b, targets[t], written[b])
        /\ \A u \in Txn \ {t} : Same(d, x, u)
        /\ x.data = d.data /\ x.journal[t].before = d.data
        /\ x.active = t => AtRest(x, t)
  BY <1>1, <1>2, <1>3, PreparesFits
<1>6. \A x \in StoreType : Prepares(d, x, t) => Moves(x, b, t)
  BY <1>1, <1>5 DEF Moves
<1>7. AtRest(w.end, t)
  BY <1>4, <1>5
<1>8. \A x \in w.through \cup {w.end} :
        Moves(x, b, t) /\ x.data = d.data /\ x.journal[t].before = d.data
  BY <1>4, <1>5, <1>6
<1> QED BY <1>7, <1>8 DEF w

LEMMA ServedCommit ==
    ASSUME HostOK, DiskOK, RestOK, StoresFit, OneFile, NEW STATE b, b \in Backend, NEW STATE t, t \in Txn,
           coord[t] = "committing", InForce(disk[b], t), up[b]
    PROVE  /\ AtRest(Committed(disk[b], t).end, t)
           /\ Committed(disk[b], t).end.journal[t].state = "committed"
           /\ t \in Committed(disk[b], t).end.data.done
           /\ \A x \in Committed(disk[b], t).through \cup {Committed(disk[b], t).end} :
                /\ Moves(x, b, t)
                /\ x.journal[t].before = disk[b].journal[t].before
           /\ t \notin disk[b].data.done => disk[b].data = disk[b].journal[t].before
<1> DEFINE d == disk[b]
           w == Committed(d, t)
<1>1. d \in StoreType /\ d.data.writes = written[b]
  BY DEF DiskOK
<1>2. Fits(d, t, "committing", b, targets[t], written[b]) /\ AtRest(d, t)
  BY DEF StoresFit
<1>3. /\ d.data \in Versions(d.journal[t], t) /\ d.active = t
      /\ d.journal[t].state = "committed" => d.data = d.journal[t].after
      /\ d.journal[t].state # "committed" => d.data = d.journal[t].before
  BY <1>2 DEF Fits, InForce, AtRest
<1>4. t \in d.journal[t].after.done
  BY <1>1, <1>2, VersionsDiffer
<1>5. /\ w.end \in StoreType /\ Commits(d, w.end, t)
      /\ w.end.journal[t].state = "committed" /\ w.end.data = d.journal[t].after
      /\ \A x \in w.through : x \in StoreType /\ Commits(d, x, t)
  BY <1>1, <1>3, CommittedWay
<1> HIDE DEF w
<1>6. \A x \in StoreType : Commits(d, x, t) =>
        /\ Fits(x, t, "committing", b, targets[t], written[b])
        /\ \A u \in Txn \ {t} : Same(d, x, u)
        /\ x.data.writes = written[b] /\ x.journal[t].before = d.journal[t].before
        /\ x.journal[t].state = "committed" /\ x.data = d.journal[t].after => AtRest(x, t)
  BY <1>1, <1>2, <1>3, CommitsFits
<1>7. \A x \in StoreType : Commits(d, x, t) => Moves(x, b, t)
  BY <1>1, <1>6 DEF Moves
<1>8. AtRest(w.end, t)
  BY <1>5, <1>6
<1>9. \A x \in w.through \cup {w.end} : Moves(x, b, t) /\ x.journal[t].before = d.journal[t].before
  BY <1>5, <1>6, <1>7
<1>10. t \notin d.data.done => d.data = d.journal[t].before
  BY <1>3, <1>4
<1> QED BY <1>4, <1>5, <1>8, <1>9, <1>10 DEF w

LEMMA UndoneMoves ==
    ASSUME HostOK, DiskOK, RestOK, StoresFit, OneFile, NEW STATE b, b \in Backend, NEW STATE t, t \in Txn,
           coord[t] # "committed"
    PROVE  \A x \in StoreType : Undoes(disk[b], x, t) => Moves(x, b, t) /\ Less(disk[b], x, t)
<1> DEFINE d == disk[b]
<1>1. d \in StoreType /\ d.data.writes = written[b]
  BY DEF DiskOK
<1>2. Fits(d, t, coord[t], b, targets[t], written[b])
  BY DEF StoresFit
<1>3. ASSUME NEW x \in StoreType, Undoes(d, x, t)
      PROVE  Moves(x, b, t) /\ Less(disk[b], x, t)
  <2> DEFINE c == coord[t]
             w == written[b]
             bs == targets[t]
  <2>1. Fits(d, t, c, b, bs, w) /\ c # "committed" /\ d.data.writes = w
    BY <1>1, <1>2
  <2> HIDE DEF c, w, bs, d
  <2>2. Fits(x, t, c, b, bs, w)
    BY <1>1, <1>3, <2>1, UndoesFits
  <2>3. \A u \in Txn \ {t} : Same(d, x, u)
    BY <1>1, <1>3, <2>1, UndoesFits
  <2>4. Less(d, x, t)
    BY <1>1, <1>3, <2>1, UndoesFits
  <2> QED BY <1>1, <1>3, <2>2, <2>3, <2>4 DEF Moves, Less, c, w, bs, d
<1> QED BY <1>3

LEMMA ClearedMoves ==
    ASSUME HostOK, DiskOK, RestOK, StoresFit, OneFile, NEW STATE b, b \in Backend, NEW STATE t, t \in Txn,
           coord[t] = "committed"
    PROVE  \A x \in StoreType : Clears(disk[b], x, t) => Moves(x, b, t) /\ Less(disk[b], x, t)
<1> DEFINE d == disk[b]
<1>1. d \in StoreType /\ d.data.writes = written[b]
  BY DEF DiskOK
<1>2. Fits(d, t, "committed", b, targets[t], written[b])
  BY DEF StoresFit
<1>3. \A x \in StoreType : Clears(d, x, t) =>
        /\ Fits(x, t, "committed", b, targets[t], written[b])
        /\ \A u \in Txn \ {t} : Same(d, x, u)
        /\ x.data = d.data
  BY <1>1, <1>2, ClearsFits
<1>4. \A x \in StoreType : Clears(d, x, t) => x.journal = d.journal \/ x.journal = [d.journal EXCEPT ![t] = NoJournal]
  BY DEF Clears
<1>5. \A x \in StoreType : Clears(d, x, t) =>
         /\ HasJournal(x, t) => HasJournal(d, t) /\ x.journal[t].before = d.journal[t].before
         /\ InForce(x, t) => InForce(d, t)
  BY <1>1, <1>4, JournalGone DEF HasJournal, InForce
<1> QED BY <1>1, <1>3, <1>5 DEF Moves, Less

-----------------------------------------------------------------------------
(* A step of one store *)

\* Backend b's store becomes x, by something done for t.
StoreStep(x, b, t) ==
    /\ disk' = [disk EXCEPT ![b] = x] /\ Moves(x, b, t)
    /\ UNCHANGED <<targets, coord, written>>
    /\ \A c \in Backend \ {b} : up'[c] => up[c]
    /\ up'[b] => AtRest(x, t)

\* What a step may do to the stores, t being the transaction with a file.
Onward(t) ==
    /\ DiskOK' /\ StoresFit'
    /\ UNCHANGED <<targets, coord, written>>
    /\ \A u \in Txn \ {t}, c \in Backend : (u \in disk'[c].data.done) = (u \in disk[c].data.done)

LEMMA StoreMoves ==
    ASSUME HostOK, DiskOK, RestOK, StoresFit, OneFile, NEW STATE b, b \in Backend,
           NEW STATE t, t \in Txn, HasFile(t), NEW STATE x, StoreStep(x, b, t)
    PROVE  Onward(t)
<1>1. /\ disk \in [Backend -> StoreType] /\ x \in StoreType /\ disk' = [disk EXCEPT ![b] = x]
      /\ x.data.writes = written[b] /\ UNCHANGED <<targets, coord, written>>
  BY DEF StoreStep, Moves, DiskOK
<1>2. /\ disk'[b] = x /\ \A c \in Backend \ {b} : disk'[c] = disk[c]
      /\ disk' \in [Backend -> StoreType]
  BY <1>1
<1>3. \A u \in Txn \ {t} : ~HasJournal(disk[b], u) /\ Same(disk[b], x, u)
  BY NoOther DEF StoreStep, Moves
<1>4. Fits(x, t, coord[t], b, targets[t], written[b]) /\ (up'[b] => AtRest(x, t))
  BY DEF StoreStep, Moves
<1>5. ASSUME NEW u \in Txn \ {t}
      PROVE  Fits(x, u, coord[u], b, targets[u], written[b]) /\ AtRest(x, u)
  <2>1. Fits(disk[b], u, coord[u], b, targets[u], written[b])
    BY DEF StoresFit
  <2>2. Fits(x, u, coord[u], b, targets[u], written[b])
    BY <1>1, <1>3, <2>1, SameFits
  <2>3. AtRest(x, u)
    BY <1>3 DEF Same, AtRest, InForce, HasJournal
  <2> QED BY <2>2, <2>3
<1>6. \A u \in Txn : Fits(x, u, coord[u], b, targets[u], written[b]) /\ (up'[b] => AtRest(x, u))
  BY <1>4, <1>5
<1>7. ASSUME NEW c \in Backend, NEW u \in Txn
      PROVE  /\ Fits(disk'[c], u, coord'[u], c, targets'[u], written'[c])
             /\ up'[c] => AtRest(disk'[c], u)
  <2>1. CASE c = b
    BY <1>1, <1>2, <1>6, <2>1
  <2>2. CASE c # b
    <3>1. /\ Fits(disk[c], u, coord[u], c, targets[u], written[c])
          /\ up[c] => AtRest(disk[c], u)
      BY DEF StoresFit
    <3>2. up'[c] => up[c]
      BY <2>2 DEF StoreStep
    <3> QED BY <1>1, <1>2, <2>2, <3>1, <3>2
  <2> QED BY <2>1, <2>2
<1>8. StoresFit'
  BY <1>7 DEF StoresFit
<1>9. ASSUME NEW c \in Backend, NEW u \in Txn
      PROVE  (disk'[c].active = u => HasJournal(disk'[c], u)) /\ disk'[c].data.writes = written'[c]
  <2>1. CASE c = b
    BY <1>1, <1>2, <1>6, <2>1 DEF Fits
  <2>2. CASE c # b
    BY <1>1, <1>2, <2>2 DEF DiskOK
  <2> QED BY <2>1, <2>2
<1>9a. \A c \in Backend : disk'[c].data.writes = written'[c]
  BY <1>1, <1>2 DEF DiskOK
<1>10. DiskOK'
  BY <1>2, <1>9, <1>9a DEF DiskOK
<1>11. ASSUME NEW u \in Txn \ {t}, NEW c \in Backend
       PROVE  (u \in disk'[c].data.done) = (u \in disk[c].data.done)
  <2>1. CASE c = b
    BY <1>2, <1>3, <2>1 DEF Same
  <2>2. CASE c # b
    BY <1>2, <2>2
  <2> QED BY <2>1, <2>2
<1> QED BY <1>1, <1>8, <1>10, <1>11 DEF Onward

\* The stores stay as they are, and a backend that comes up has none open.
LEMMA StoresStay ==
    ASSUME HostOK, DiskOK, RestOK, StoresFit, UNCHANGED <<disk, targets, coord, written>>,
           \A b \in Backend : up'[b] => up[b] \/ Clean(disk[b])
    PROVE  DiskOK' /\ StoresFit'
<1>1. DiskOK'
  BY DEF DiskOK, HasJournal
<1>2. ASSUME NEW b \in Backend, NEW t \in Txn
      PROVE  /\ Fits(disk'[b], t, coord'[t], b, targets'[t], written'[b])
             /\ up'[b] => AtRest(disk'[b], t)
  <2>1. /\ Fits(disk[b], t, coord[t], b, targets[t], written[b])
        /\ up[b] => AtRest(disk[b], t)
    BY DEF StoresFit
  <2>2. Clean(disk[b]) => AtRest(disk[b], t)
    BY DEF Clean, AtRest, HasJournal, InForce
  <2> QED BY <2>1, <2>2
<1>3. StoresFit'
  BY <1>2 DEF StoresFit
<1> QED BY <1>1, <1>3

-----------------------------------------------------------------------------
(* The operations that are not concerned, and one that ends or fails *)

LEMMA IdleType == Idle \in OpType /\ Idle.stage = "idle" /\ Idle.todo = {} /\ Idle.files = {}
                  /\ Idle.file = NoTxn /\ Idle.errors = FALSE /\ Idle.call = "none"
<1>1. 0 \in 0 .. MaxWrites
  BY TransferAssumption
<1>2. Empty \in DataType
  BY <1>1 DEF Empty, DataType
<1> QED BY <1>2 DEF Idle, OpType

LEMMA StageType ==
    ASSUME HostOK, NEW o \in Op
    PROVE  /\ op[o] \in OpType
           /\ op[o].stage \in {"idle", "scan", "recover", "look", "shown",
                               "prepare", "commit", "finalize", "undo"}
           /\ op[o].todo \subseteq RequestType
<1>1. op[o] \in OpType
  BY DEF HostOK
<1> QED BY <1>1, OpParts

LEMMA NoTxnIs == NoTxn \notin Txn /\ Backup \notin Txn /\ NoTxn = Backup
BY TransferAssumption DEF NoTxn, Backup

\* Nothing of an operation that does not run depends on the stores.
LEMMA RestsKeeps ==
    ASSUME NEW o \in Op, op'[o] = op[o], ~Running(o), StageInv(o),
           o \in Txn => /\ told'[o] = told[o] /\ targets'[o] = targets[o]
                        /\ (coord'[o] = coord[o] \/ (op[o].stage = "idle" /\ coord'[o] \in Phases))
    PROVE  (StageInv(o) /\ RequestInv(o) /\ ProgressInv(o))' /\ ~Running(o)'
<1>1. op[o].stage \in {"idle", "shown"} /\ op[o].todo = {}
  BY IdleType DEF Running, StageInv
<1>2. StageInv(o)'
  <2>1. CASE op[o].stage = "idle"
    BY <2>1, IdleType DEF StageInv, PhaseAt, Phases
  <2>2. CASE op[o].stage = "shown"
    BY <2>2 DEF StageInv, PhaseAt
  <2> QED BY <1>1, <2>1, <2>2
<1>3. RequestInv(o)'
  BY <1>1 DEF RequestInv
<1>4. ProgressInv(o)'
  BY <1>1 DEF ProgressInv
<1> QED BY <1>1, <1>2, <1>3, <1>4 DEF Running

\* Only operation o goes on: the others do not run.
Alone(o) ==
    /\ op' \in [Op -> OpType] /\ \A p \in Op \ {o} : op'[p] = op[p]
    /\ told' \in [Txn -> {"none", "applied", "refused", "unclean", "stuck", "lost"}]
    /\ \A p \in Txn \ {o} : told'[p] = told[p]
    /\ targets' = targets
    /\ coord' \in [Txn -> Phases]
    /\ \A p \in Txn \ {o} : \/ coord'[p] = coord[p]
                            \/ op[p].stage # "shown"

LEMMA OthersKeep ==
    ASSUME HostOK, OneCall, OpInv, NEW o \in Op, Running(o), Alone(o),
           (StageInv(o) /\ RequestInv(o) /\ ProgressInv(o))'
    PROVE  HostOK' /\ OneCall' /\ OpInv'
<1>1. ASSUME NEW p \in Op \ {o}
      PROVE  (StageInv(p) /\ RequestInv(p) /\ ProgressInv(p))' /\ ~Running(p)'
  <2>1. ~Running(p) /\ StageInv(p)
    BY DEF OneCall, OpInv
  <2>2. op[p].stage \in {"idle", "shown"}
    BY <2>1 DEF Running
  <2>3. p \in Txn => /\ told'[p] = told[p] /\ targets'[p] = targets[p]
                     /\ coord'[p] = coord[p] \/ (op[p].stage = "idle" /\ coord'[p] \in Phases)
    BY <2>2 DEF Alone
  <2>4. op'[p] = op[p]
    BY DEF Alone
  <2> QED BY <2>1, <2>3, <2>4, RestsKeeps
<1>2. OpInv'
  BY <1>1 DEF OpInv
<1>3. OneCall'
  BY <1>1 DEF OneCall
<1>4. HostOK'
  BY DEF HostOK, Alone
<1> QED BY <1>2, <1>3, <1>4

LEMMA EndsKeeps ==
    ASSUME HostOK, OneCall, OpInv, NEW o \in Op, Running(o),
           NEW how, how \in {"none", "applied", "refused", "unclean", "stuck", "lost"},
           Ends(o, how), targets' = targets, coord' \in [Txn -> Phases],
           \A p \in Txn \ {o} : coord'[p] = coord[p] \/ op[p].stage # "shown"
    PROVE  HostOK' /\ OneCall' /\ OpInv'
<1>1. op'[o] = Idle /\ Alone(o)
  BY IdleType DEF HostOK, Ends, Alone
<1>2. StageInv(o)'
  BY <1>1, IdleType DEF StageInv, PhaseAt, Alone, Phases
<1>3. RequestInv(o)' /\ ProgressInv(o)'
  BY <1>1, IdleType DEF RequestInv, ProgressInv
<1> QED BY <1>1, <1>2, <1>3, OthersKeep

-----------------------------------------------------------------------------
(* A request fails *)

\* What an operation is entitled to say of a request.
LEMMA RequestOf ==
    ASSUME HostOK, OpInv, NEW o \in Op, NEW r \in op[o].todo
    PROVE  /\ r \in RequestType /\ r.at \in Backend /\ r.verb \in Verbs(o) /\ Running(o)
           /\ op[o].stage \in {"recover", "look", "prepare", "commit", "finalize", "undo"}
           /\ op[o].stage # "look" =>
                /\ r.txn = Subject(o) /\ Subject(o) \in Txn /\ HasFile(Subject(o))
                /\ r.at \in targets[Subject(o)]
           /\ op[o].stage \in {"prepare", "commit", "finalize", "undo"} => o \in Txn
<1>1. StageInv(o) /\ RequestInv(o)
  BY DEF OpInv
<1>2. /\ op[o].stage \in {"idle", "scan", "recover", "look", "shown",
                          "prepare", "commit", "finalize", "undo"}
      /\ r \in RequestType /\ r.at \in Backend
  BY StageType, RequestParts
<1>3. op[o].stage \in {"recover", "look", "prepare", "commit", "finalize", "undo"}
  BY <1>1, <1>2, IdleType DEF StageInv
<1>4. /\ r.verb \in Verbs(o)
      /\ op[o].stage # "look" => r.txn = Subject(o) /\ r.at \in targets[Subject(o)]
  BY <1>1 DEF RequestInv
<1>5. op[o].stage \in {"prepare", "commit", "finalize", "undo"} => o \in Txn
  BY <1>1 DEF StageInv, Op
<1>6. op[o].stage # "look" => Subject(o) \in Txn /\ HasFile(Subject(o))
  <2>1. CASE op[o].stage = "recover"
    <3>1. op[o].file # NoTxn /\ op[o].file \in Files
      BY <1>1, <2>1 DEF StageInv
    <3> QED BY <2>1, <3>1 DEF Subject, Files
  <2>2. CASE op[o].stage \in {"prepare", "commit", "finalize", "undo"}
    <3>1. coord[o] \in {"preparing", "committing", "committed"}
      BY <1>1, <1>5, <2>2 DEF StageInv, PhaseAt
    <3> QED BY <1>5, <2>2, <3>1 DEF Subject, HasFile
  <2> QED BY <1>3, <2>1, <2>2
<1> QED BY <1>2, <1>3, <1>4, <1>5, <1>6 DEF Running

\* An operation s that enters a stage with its requests, and one of whose
\* requests failed, become n.
Entered(s, n, stage, R) ==
    /\ n \in OpType /\ n.stage = stage /\ n.todo = R /\ n.call = s.call /\ n.files = s.files
    /\ n.file = s.file /\ n.seen = s.seen /\ n.errors = s.errors
Erred(s, n, R) ==
    /\ n \in OpType /\ n.stage = s.stage /\ n.todo = R /\ n.call = s.call /\ n.files = s.files
    /\ n.file = s.file /\ n.seen = s.seen /\ n.errors = TRUE

LEMMA TodoChanged ==
    ASSUME NEW s \in OpType, NEW R, R \subseteq RequestType,
           NEW stage \in {"idle", "scan", "recover", "look", "shown",
                          "prepare", "commit", "finalize", "undo"}
    PROVE  /\ Entered(s, [s EXCEPT !.stage = stage, !.todo = R], stage, R)
           /\ Erred(s, [s EXCEPT !.errors = TRUE, !.todo = R], R)
BY DEF OpType, Entered, Erred

LEMMA UndoBegins ==
    ASSUME HostOK, OneCall, OpInv, NEW o \in Txn, op[o].stage \in {"prepare", "commit"},
           op' = [op EXCEPT ![o].stage = "undo", ![o].todo = UndoRequests(o, targets[o])],
           UNCHANGED <<told, targets, coord>>
    PROVE  HostOK' /\ OneCall' /\ OpInv'
<1> DEFINE R == UndoRequests(o, targets[o])
<1>0. o \in Op /\ targets[o] \in SUBSET Backend /\ op[o] \in OpType /\ o # Backup /\ o # NoTxn
  BY NoTxnIs DEF HostOK, Op
<1>1. /\ Rollbacks(R, o, targets[o])
      /\ \A b \in targets[o] : \E r \in R : r.verb = "rollback" /\ r.at = b
  BY <1>0, UndoRequestsAre
<1> HIDE DEF R
<1>2. R \subseteq RequestType
  BY <1>1 DEF Rollbacks
<1>3. /\ op'[o] = [op[o] EXCEPT !.stage = "undo", !.todo = R]
      /\ \A p \in Op \ {o} : op'[p] = op[p]
  BY <1>0 DEF HostOK, R
<1>4. /\ op'[o].stage = "undo" /\ op'[o].todo = R /\ op'[o].files = op[o].files
      /\ op'[o].file = op[o].file /\ op'[o].errors = op[o].errors /\ op'[o] \in OpType
      /\ op'[o].call = op[o].call
  <2>1. "undo" \in {"idle", "scan", "recover", "look", "shown", "prepare", "commit", "finalize", "undo"}
    OBVIOUS
  <2>2. Entered(op[o], [op[o] EXCEPT !.stage = "undo", !.todo = R], "undo", R)
    BY <1>0, <1>2, <2>1, TodoChanged
  <2>3. Entered(op[o], op'[o], "undo", R)
    BY <1>3, <2>2
  <2> QED BY <2>3 DEF Entered
<1>5. Alone(o) /\ Running(o)
  <2>1. op' \in [Op -> OpType]
    BY <1>3, <1>4 DEF HostOK, R
  <2> QED BY <1>3, <2>1 DEF Alone, HostOK, Running
<1>6. StageInv(o)'
  <2>1. /\ op[o].files = {} /\ op[o].file = NoTxn /\ targets[o] # {} /\ told[o] = "none"
        /\ coord[o] \in {"preparing", "committing"}
    BY <1>0 DEF OpInv, StageInv, PhaseAt
  <2>2. coord'[o] = coord[o] /\ targets'[o] = targets[o] /\ told'[o] = told[o]
    OBVIOUS
  <2>4. coord'[o] \in PhaseAt["undo"]
    BY <2>1, <2>2 DEF PhaseAt
  <2> QED BY <1>0, <1>4, <2>1, <2>2, <2>4 DEF StageInv
<1>7. RequestInv(o)'
  BY <1>0, <1>1, <1>4 DEF RequestInv, Rollbacks, Verbs, Subject
<1>8. ProgressInv(o)'
  BY <1>0, <1>1, <1>4 DEF ProgressInv, Rollbacks, Asked, Subject
<1> QED BY <1>0, <1>5, <1>6, <1>7, <1>8, OthersKeep

\* A backend that fails is passed over, and the file will be kept.
LEMMA UndoGoesOn ==
    ASSUME HostOK, OneCall, OpInv, NEW o \in Txn, op[o].stage = "undo",
           NEW r \in op[o].todo, \A c \in Backend \ {r.at} : disk'[c] = disk[c],
           op' = [op EXCEPT ![o].errors = TRUE, ![o].todo = {q \in @ : q.at # r.at}],
           UNCHANGED <<told, targets, coord>>
    PROVE  HostOK' /\ OneCall' /\ OpInv'
<1> DEFINE R == {q \in op[o].todo : q.at # r.at}
<1>0. o \in Op /\ targets[o] \in SUBSET Backend /\ op[o] \in OpType /\ o # Backup /\ o # NoTxn
  BY NoTxnIs DEF HostOK, Op
<1>1. R \subseteq op[o].todo /\ R \subseteq RequestType
  BY <1>0, StageType
<1>2. /\ op'[o] = [op[o] EXCEPT !.errors = TRUE, !.todo = R]
      /\ \A p \in Op \ {o} : op'[p] = op[p]
  BY <1>0 DEF HostOK
<1>3. \A b \in Backend, verb \in {"rollback", "finalize"} :
         (\E q \in R : q.verb = verb /\ q.at = b) <=> b # r.at /\ Asked(o, verb, b)
  BY DEF Asked
<1> HIDE DEF R
<1>4. /\ op'[o].stage = "undo" /\ op'[o].todo = R /\ op'[o].files = op[o].files
      /\ op'[o].file = op[o].file /\ op'[o].errors = TRUE /\ op'[o] \in OpType
      /\ op'[o].call = op[o].call
  <2>1. op[o].stage \in {"idle", "scan", "recover", "look", "shown", "prepare", "commit", "finalize", "undo"}
    BY <1>0, OpParts
  <2>2. Erred(op[o], [op[o] EXCEPT !.errors = TRUE, !.todo = R], R)
    BY <1>0, <1>1, <2>1, TodoChanged
  <2>3. Erred(op[o], op'[o], R)
    BY <1>2, <2>2
  <2> QED BY <2>3 DEF Erred
<1>5. Alone(o) /\ Running(o)
  <2>1. op' \in [Op -> OpType]
    BY <1>2, <1>4 DEF HostOK
  <2> QED BY <1>2, <2>1 DEF Alone, HostOK, Running
<1>6. StageInv(o)'
  <2>1. StageInv(o)
    BY <1>0 DEF OpInv
  <2> QED BY <1>0, <1>4, <2>1 DEF StageInv, PhaseAt
<1>7. RequestInv(o)'
  <2>1. RequestInv(o)
    BY <1>0 DEF OpInv
  <2> QED BY <1>0, <1>1, <1>4, <2>1 DEF RequestInv, Verbs, Subject
<1>8. ProgressInv(o)'
  <2>1. \A b \in targets[o] :
          InForce(disk[b], o) /\ coord[o] # "committed" /\ Asked(o, "finalize", b)
              => Asked(o, "rollback", b)
    BY <1>0 DEF OpInv, ProgressInv, Subject
  <2>2. \A b \in Backend, verb \in {"rollback", "finalize"} :
           Asked(o, verb, b)' <=> b # r.at /\ Asked(o, verb, b)
    BY <1>3, <1>4 DEF Asked
  <2>3. ASSUME NEW b \in targets[o], InForce(disk[b], o)', coord[o] # "committed",
               Asked(o, "finalize", b)'
        PROVE  Asked(o, "rollback", b)'
    <3>1. b \in Backend /\ b # r.at /\ Asked(o, "finalize", b)
      BY <1>0, <2>2, <2>3
    <3>2. disk'[b] = disk[b]
      BY <3>1
    <3>3. InForce(disk[b], o)
      BY <2>3, <3>2 DEF InForce
    <3>4. Asked(o, "rollback", b)
      BY <2>1, <2>3, <3>1, <3>3
    <3> QED BY <2>2, <3>1, <3>4
  <2> QED BY <1>4, <2>3 DEF ProgressInv, Subject
<1> QED BY <1>0, <1>5, <1>6, <1>7, <1>8, OthersKeep

LEMMA FailsKeeps ==
    ASSUME HostOK, OneCall, OpInv, NEW o \in Op, NEW r \in op[o].todo, Fails(o, r),
           \A c \in Backend \ {r.at} : disk'[c] = disk[c], UNCHANGED <<targets, coord>>
    PROVE  HostOK' /\ OneCall' /\ OpInv' /\ (\A t \in Txn : targets[t] = {} => told'[t] = told[t])
<1>1. /\ Running(o)
      /\ op[o].stage \in {"recover", "look", "prepare", "commit", "finalize", "undo"}
      /\ op[o].stage \in {"prepare", "commit", "finalize", "undo"} => o \in Txn
  BY RequestOf
<1>2. StageInv(o)
  BY DEF OpInv
<1>3. coord' \in [Txn -> Phases]
  BY DEF HostOK
<1>4. ASSUME NEW how \in {"refused", "unclean"}, Ends(o, how)
      PROVE  HostOK' /\ OneCall' /\ OpInv' /\ (\A t \in Txn : targets[t] = {} => told'[t] = told[t])
  <2>1. how \in {"none", "applied", "refused", "unclean", "stuck", "lost"}
    BY <1>4
  <2>2. HostOK' /\ OneCall' /\ OpInv'
    BY <1>1, <1>3, <1>4, <2>1, EndsKeeps
  <2>3. \A t \in Txn : targets[t] = {} => told'[t] = told[t]
    BY <1>1, <1>2, <1>4 DEF Ends, StageInv, HostOK
  <2> QED BY <2>2, <2>3
<1>5. CASE op[o].stage \in {"prepare", "commit"}
  <2>1. /\ op' = [op EXCEPT ![o].stage = "undo", ![o].todo = UndoRequests(o, targets[o])]
        /\ UNCHANGED told
    BY <1>5 DEF Fails
  <2> QED BY <1>1, <1>5, <2>1, UndoBegins
<1>6. CASE op[o].stage = "undo"
  <2>1. /\ op' = [op EXCEPT ![o].errors = TRUE, ![o].todo = {q \in @ : q.at # r.at}]
        /\ UNCHANGED told
    BY <1>6 DEF Fails
  <2> QED BY <1>1, <1>6, <2>1, UndoGoesOn
<1>7. CASE op[o].stage = "finalize"
  BY <1>4, <1>7 DEF Fails
<1>8. CASE op[o].stage \in {"recover", "look"}
  BY <1>4, <1>8 DEF Fails
<1> QED BY <1>1, <1>5, <1>6, <1>7, <1>8

LEMMA DecidedKept ==
    ASSUME HostOK, Decided, UNCHANGED <<targets, coord>>,
           \A t \in Txn : targets[t] = {} => told'[t] = told[t],
           \A t \in Txn, b \in Backend :
               coord[t] = "removed" => (t \in disk'[b].data.done) = (t \in disk[b].data.done)
    PROVE  Decided'
<1>1. \A t \in Txn : targets[t] \subseteq Backend
  BY DEF HostOK, Op
<1> QED BY <1>1 DEF Decided

-----------------------------------------------------------------------------
(* A request is served *)

LEMMA VerbsAre ==
    ASSUME HostOK, OpInv, NEW o \in Op, NEW r \in op[o].todo
    PROVE  /\ r.verb = "look" => op[o].stage = "look"
           /\ r.verb = "prepare" => op[o].stage = "prepare"
           /\ r.verb = "commit" => op[o].stage = "commit"
           /\ r.verb = "rollback" => op[o].stage \in {"recover", "undo"} /\ coord[Subject(o)] # "committed"
           /\ r.verb = "finalize" => op[o].stage \in {"recover", "undo", "finalize"}
           /\ op[o].stage = "look" => r.verb = "look"
           /\ r.verb \in {"look", "prepare", "commit", "rollback", "finalize"}
<1>1. /\ r \in RequestType /\ r.verb \in Verbs(o)
      /\ op[o].stage \in {"recover", "look", "prepare", "commit", "finalize", "undo"}
      /\ op[o].stage \in {"prepare", "commit", "finalize", "undo"} => o \in Txn
  BY RequestOf
<1>2. r.verb \in {"look", "prepare", "commit", "rollback", "finalize"}
  BY <1>1, RequestParts
<1>3. op[o].stage = "undo" => coord[Subject(o)] # "committed"
  BY <1>1 DEF OpInv, StageInv, PhaseAt, Subject
<1> QED BY <1>1, <1>2, <1>3 DEF Verbs, Subject

LEMMA PreparesInTurn ==
    ASSUME HostOK, DiskOK, RestOK, StoresFit, OneFile, OpInv, NEW o \in Op, NEW r \in op[o].todo,
           Accepts(r.at, disk[r.at], r.verb, r.txn, op[o].seen[r.at]), r.verb = "prepare"
    PROVE  LET w == Served(disk[r.at], r.verb, r.txn)
           IN /\ \A x \in w.through \cup {w.end} : Moves(x, r.at, r.txn)
              /\ AtRest(w.end, r.txn)
              /\ w.end.journal[r.txn].before = op[o].seen[r.at]
              /\ \A x \in w.through \cup {w.end} : x.data = disk[r.at].data
<1>1. /\ r.at \in Backend /\ op[o].stage = "prepare" /\ o \in Txn /\ r.txn = o /\ r.at \in targets[o]
  BY RequestOf, VerbsAre DEF Subject
<1>2. coord[o] = "preparing"
  BY <1>1 DEF OpInv, StageInv, PhaseAt, Op
<1>3. Asked(o, "prepare", r.at)
  BY DEF Asked
<1>4. ~HasJournal(disk[r.at], o)
  BY <1>1, <1>3 DEF OpInv, ProgressInv
<1>5. disk[r.at].data = op[o].seen[r.at]
  BY <1>1, <1>4 DEF Accepts
<1>6. Served(disk[r.at], r.verb, r.txn) = Prepared(disk[r.at], o)
  BY <1>1 DEF Served
<1>7. /\ AtRest(Prepared(disk[r.at], o).end, o)
      /\ \A x \in Prepared(disk[r.at], o).through \cup {Prepared(disk[r.at], o).end} :
           Moves(x, r.at, o) /\ x.journal[o].before = disk[r.at].data /\ x.data = disk[r.at].data
  BY <1>1, <1>2, <1>4, ServedPrepare
<1> QED BY <1>1, <1>5, <1>6, <1>7

LEMMA CommitsInTurn ==
    ASSUME HostOK, DiskOK, RestOK, StoresFit, OneFile, OpInv, NEW o \in Op, NEW r \in op[o].todo, up[r.at],
           Accepts(r.at, disk[r.at], r.verb, r.txn, op[o].seen[r.at]), r.verb = "commit"
    PROVE  LET w == Served(disk[r.at], r.verb, r.txn)
           IN /\ \A x \in w.through \cup {w.end} : Moves(x, r.at, r.txn)
              /\ AtRest(w.end, r.txn)
              /\ w.end.journal[r.txn].before = op[o].seen[r.at]
              /\ w.end.journal[r.txn].state = "committed" /\ r.txn \in w.end.data.done
              /\ r.txn \notin disk[r.at].data.done => disk[r.at].data = op[o].seen[r.at]
<1>1. /\ r.at \in Backend /\ op[o].stage = "commit" /\ o \in Txn /\ r.txn = o /\ r.at \in targets[o]
  BY RequestOf, VerbsAre DEF Subject
<1>2. coord[o] = "committing"
  BY <1>1 DEF OpInv, StageInv, PhaseAt, Op
<1>3. InForce(disk[r.at], o) /\ HasJournal(disk[r.at], o)
  BY <1>1 DEF Accepts, InForce, HasJournal
<1>4. disk[r.at].journal[o].before = op[o].seen[r.at]
  BY <1>1, <1>3 DEF OpInv, ProgressInv
<1>5. Served(disk[r.at], r.verb, r.txn) = Committed(disk[r.at], o)
  BY <1>1 DEF Served
<1>6. /\ AtRest(Committed(disk[r.at], o).end, o)
      /\ Committed(disk[r.at], o).end.journal[o].state = "committed"
      /\ o \in Committed(disk[r.at], o).end.data.done
      /\ \A x \in Committed(disk[r.at], o).through \cup {Committed(disk[r.at], o).end} :
           Moves(x, r.at, o) /\ x.journal[o].before = disk[r.at].journal[o].before
      /\ o \notin disk[r.at].data.done => disk[r.at].data = disk[r.at].journal[o].before
  BY <1>1, <1>2, <1>3, ServedCommit
<1> QED BY <1>1, <1>4, <1>5, <1>6

LEMMA UndoneInTurn ==
    ASSUME HostOK, DiskOK, RestOK, StoresFit, OneFile, OpInv, NEW o \in Op, NEW r \in op[o].todo,
           Due(o, r), r.verb \in {"rollback", "finalize"}
    PROVE  LET w == Served(disk[r.at], r.verb, r.txn)
           IN /\ \A x \in w.through \cup {w.end} : Moves(x, r.at, r.txn) /\ Less(disk[r.at], x, r.txn)
              /\ ~InForce(w.end, r.txn)
              /\ r.verb = "finalize" => ~HasJournal(w.end, r.txn)
<1> DEFINE d == disk[r.at]
           t == Subject(o)
<1>1. /\ r.at \in Backend /\ op[o].stage \in {"recover", "undo", "finalize"} /\ r.txn = t
      /\ t \in Txn /\ r.at \in targets[t]
      /\ r.verb = "rollback" => coord[t] # "committed"
      /\ op[o].stage = "finalize" => coord[t] = "committed"
  <2>1. /\ op[o].stage \in {"recover", "undo", "finalize"} /\ r.at \in Backend
        /\ r.verb = "rollback" => coord[t] # "committed"
    BY RequestOf, VerbsAre
  <2>2. r.txn = t /\ t \in Txn /\ r.at \in targets[t]
    BY <2>1, RequestOf
  <2>3. op[o].stage = "finalize" => coord[t] = "committed"
    BY <2>2 DEF OpInv, StageInv, PhaseAt, Subject
  <2> QED BY <2>1, <2>2, <2>3
<1>2. d \in StoreType /\ (d.active = t => HasJournal(d, t)) /\ d.journal \in [Txn -> JournalType]
  BY <1>1, PartsOf DEF DiskOK
<1>3. CASE r.verb = "rollback"
  <2>1. Served(d, r.verb, r.txn) = RolledBack(d, t)
    BY <1>1, <1>3 DEF Served
  <2>2. /\ ~InForce(RolledBack(d, t).end, t)
        /\ \A x \in RolledBack(d, t).through \cup {RolledBack(d, t).end} : x \in StoreType /\ Undoes(d, x, t)
    <3> HIDE DEF d, t
    <3> QED BY <1>1, <1>2, RolledBackWay
  <2>3. \A x \in StoreType : Undoes(d, x, t) => Moves(x, r.at, t) /\ Less(d, x, t)
    BY <1>1, <1>3, UndoneMoves
  <2> QED BY <1>1, <1>3, <2>1, <2>2, <2>3
<1>4. CASE r.verb = "finalize"
  <2>1. Served(d, r.verb, r.txn) = Finalized(d, t)
    BY <1>1, <1>4 DEF Served
  <2>2. /\ Finalized(d, t).end.journal = [d.journal EXCEPT ![t] = NoJournal]
        /\ \A x \in Finalized(d, t).through \cup {Finalized(d, t).end} : x \in StoreType /\ Clears(d, x, t)
    <3> HIDE DEF d, t
    <3> QED BY <1>1, <1>2, FinalizedWay
  <2>3. ~HasJournal(Finalized(d, t).end, t) /\ ~InForce(Finalized(d, t).end, t)
    BY <1>1, <1>2, <2>2, NoJournalType DEF HasJournal, InForce
  <2>4. \A x \in StoreType : Clears(d, x, t) => Moves(x, r.at, t) /\ Less(d, x, t)
    <3>1. CASE coord[t] = "committed"
      BY <1>1, <3>1, ClearedMoves
    <3>2. CASE coord[t] # "committed"
      <4>1. op[o].stage \in {"recover", "undo"} /\ t # NoTxn
        BY <1>1, <3>2, NoTxnIs
      <4>2. \A q \in op[o].todo : q.at = r.at => q.verb # "rollback"
        <5>1. \A q \in op[o].todo : q.at = r.at /\ q.verb = "rollback" => q.turn < r.turn
          BY <1>4 DEF OpInv, RequestInv
        <5>2. \A q \in op[o].todo : r.turn <= q.turn /\ q.turn \in Nat /\ r.turn \in Nat
          BY StageType, RequestParts DEF Due
        <5> QED BY <5>1, <5>2
      <4>3. Asked(o, "finalize", r.at) /\ ~Asked(o, "rollback", r.at)
        BY <1>4, <4>2 DEF Asked
      <4>4. ~InForce(d, t)
        BY <1>1, <3>2, <4>1, <4>3 DEF OpInv, ProgressInv
      <4>5. \A x \in StoreType : Clears(d, x, t) => Undoes(d, x, t)
        <5> HIDE DEF d, t
        <5> QED BY <1>1, <1>2, <4>4, ClearsUndoes
      <4>6. \A x \in StoreType : Undoes(d, x, t) => Moves(x, r.at, t) /\ Less(d, x, t)
        BY <1>1, <3>2, UndoneMoves
      <4> QED BY <4>5, <4>6
    <3> QED BY <3>1, <3>2
  <2> QED BY <1>1, <1>4, <2>1, <2>2, <2>3, <2>4
<1> QED BY <1>3, <1>4

LEMMA ServedMoves ==
    ASSUME HostOK, DiskOK, RestOK, StoresFit, OneFile, OpInv, NEW o \in Op, NEW r \in op[o].todo,
           Due(o, r), op[o].stage # "look", up[r.at],
           Accepts(r.at, disk[r.at], r.verb, r.txn, op[o].seen[r.at])
    PROVE  LET w == Served(disk[r.at], r.verb, r.txn)
           IN (\A x \in w.through \cup {w.end} : Moves(x, r.at, r.txn)) /\ AtRest(w.end, r.txn)
<1>1. r.verb \in {"prepare", "commit", "rollback", "finalize"}
  BY VerbsAre
<1>2. CASE r.verb = "prepare"
  BY <1>2, PreparesInTurn
<1>3. CASE r.verb = "commit"
  BY <1>3, CommitsInTurn
<1>4. CASE r.verb \in {"rollback", "finalize"}
  BY <1>4, UndoneInTurn DEF AtRest
<1> QED BY <1>1, <1>2, <1>3, <1>4

-----------------------------------------------------------------------------
(* A request has succeeded *)

Answered(s, n, R, b, data) ==
    /\ n \in OpType /\ n.stage = s.stage /\ n.todo = R /\ n.call = s.call /\ n.files = s.files
    /\ n.file = s.file /\ n.errors = s.errors /\ n.seen = [s.seen EXCEPT ![b] = data]

LEMMA SeenChanged ==
    ASSUME NEW s \in OpType, NEW R, R \subseteq RequestType, NEW b \in Backend, NEW data \in DataType
    PROVE  Answered(s, [s EXCEPT !.todo = R, !.seen[b] = data], R, b, data)
BY DEF OpType, Answered

\* Operation o has one request less.
OneLess(o, r) ==
    /\ op'[o].todo = op[o].todo \ {r} /\ op'[o].stage = op[o].stage /\ op'[o].call = op[o].call
    /\ op'[o].files = op[o].files /\ op'[o].file = op[o].file /\ op'[o].errors = op[o].errors
    /\ r.verb # "look" => op'[o].seen = op[o].seen

LEMMA SucceedsIs ==
    ASSUME HostOK, DiskOK, OpInv, NEW o \in Op, NEW r \in op[o].todo, Succeeds(o, r),
           UNCHANGED <<targets, coord>>
    PROVE  OneLess(o, r) /\ Alone(o) /\ StageInv(o)' /\ RequestInv(o)'
<1> DEFINE R == op[o].todo \ {r}
           data == IF r.verb = "look" THEN disk[r.at].data ELSE op[o].seen[r.at]
           n == [op[o] EXCEPT !.todo = R, !.seen[r.at] = data]
<1>1. op[o] \in OpType /\ R \subseteq RequestType /\ r.at \in Backend /\ op[o].seen \in [Backend -> DataType]
  BY StageType, RequestOf, OpParts
<1>2. data \in DataType
  BY <1>1, PartsOf DEF DiskOK
<1>3. op' = [op EXCEPT ![o] = n] /\ told' = told
  BY <1>1 DEF HostOK, Succeeds
<1> HIDE DEF R
<1>4. /\ n \in OpType /\ n.stage = op[o].stage /\ n.todo = R /\ n.call = op[o].call
      /\ n.files = op[o].files /\ n.file = op[o].file /\ n.errors = op[o].errors
      /\ n.seen = [op[o].seen EXCEPT ![r.at] = data]
  <2> HIDE DEF data
  <2>1. \A s \in OpType, a \in DataType, b \in Backend :
          Answered(s, [s EXCEPT !.todo = R, !.seen[b] = a], R, b, a)
    BY <1>1, SeenChanged
  <2>2. Answered(op[o], n, R, r.at, data)
    BY <1>1, <1>2, <2>1
  <2> HIDE DEF n
  <2> QED BY <2>2 DEF Answered
<1>5. r.verb # "look" => n.seen = op[o].seen
  BY <1>1, <1>4
<1> HIDE DEF n, data
<1>6. op'[o] = n /\ op' \in [Op -> OpType] /\ \A p \in Op \ {o} : op'[p] = op[p]
  BY <1>3, <1>4 DEF HostOK
<1>7. OneLess(o, r)
  BY <1>4, <1>5, <1>6 DEF OneLess, R
<1>8. Alone(o)
  BY <1>3, <1>6 DEF Alone, HostOK
<1>9. StageInv(o) /\ RequestInv(o) /\ Running(o) /\ op[o].stage \notin {"idle", "shown", "scan"}
  BY RequestOf DEF OpInv
<1>10. StageInv(o)'
  <2>1. op[o].stage = "recover" /\ op[o].file = NoTxn => op'[o].todo = {}
    BY <1>7, <1>9 DEF OneLess, StageInv
  <2>2. Files' = Files
    BY DEF Files, HasFile
  <2> QED BY <1>3, <1>7, <1>9, <2>1, <2>2 DEF OneLess, StageInv
<1>11. Verbs(o)' = Verbs(o) /\ Subject(o)' = Subject(o)
  BY <1>7 DEF OneLess, Verbs, Subject
<1>12. op'[o].todo \subseteq op[o].todo
  BY <1>7 DEF OneLess
<1>13. RequestInv(o)'
  BY <1>7, <1>9, <1>11, <1>12 DEF OneLess, RequestInv
<1> QED BY <1>7, <1>8, <1>10, <1>13

\* What is asked for after r is answered.
LEMMA AskedAfter ==
    ASSUME HostOK, OpInv, NEW o \in Op, NEW r \in op[o].todo, OneLess(o, r)
    PROVE  /\ \A c \in Backend \ {r.at}, v \in {"look", "prepare", "commit", "rollback", "finalize"} :
                Asked(o, v, c)' <=> Asked(o, v, c)
           /\ \A v \in {"look", "prepare", "commit", "rollback", "finalize"} :
                Asked(o, v, r.at)' <=> v # r.verb /\ Asked(o, v, r.at)
           /\ Subject(o)' = Subject(o)
<1>1. \A q \in op[o].todo : q.at = r.at /\ q.verb = r.verb => q = r
  BY DEF OpInv, RequestInv
<1> QED BY <1>1 DEF OneLess, Asked, Subject

LEMMA ProgressPrepared ==
    ASSUME HostOK, DiskOK, OpInv, NEW o \in Op, NEW r \in op[o].todo, OneLess(o, r),
           UNCHANGED <<targets, coord>>, r.verb = "prepare", op[o].stage = "prepare", r.txn = o,
           \A c \in Backend \ {r.at} : disk'[c] = disk[c],
           disk'[r.at].journal[o].before = op[o].seen[r.at]
    PROVE  ProgressInv(o)'
<1>1. /\ \A b \in targets[o] : HasJournal(disk[b], o) => disk[b].journal[o].before = op[o].seen[b]
      /\ \A b \in targets[o] : Asked(o, "prepare", b) => ~HasJournal(disk[b], o)
      /\ targets[o] \subseteq Backend
  BY DEF OpInv, ProgressInv, HostOK
<1>2. /\ \A c \in Backend \ {r.at} : Asked(o, "prepare", c)' <=> Asked(o, "prepare", c)
      /\ ~Asked(o, "prepare", r.at)'
  BY AskedAfter
<1>3. op'[o].stage = "prepare" /\ op'[o].seen = op[o].seen
  BY DEF OneLess
<1>4. ASSUME NEW b \in targets[o]
      PROVE  /\ HasJournal(disk'[b], o) => disk'[b].journal[o].before = op'[o].seen[b]
             /\ Asked(o, "prepare", b)' => ~HasJournal(disk'[b], o)
  <2>1. CASE b = r.at
    BY <1>2, <1>3, <2>1
  <2>2. CASE b # r.at
    BY <1>1, <1>2, <1>3, <2>2
  <2> QED BY <2>1, <2>2
<1> QED BY <1>3, <1>4 DEF ProgressInv

LEMMA ProgressCommitted ==
    ASSUME HostOK, DiskOK, OpInv, NEW o \in Op, NEW r \in op[o].todo, OneLess(o, r),
           UNCHANGED <<targets, coord>>, r.verb = "commit", op[o].stage = "commit", r.txn = o,
           \A c \in Backend \ {r.at} : disk'[c] = disk[c],
           disk'[r.at].journal[o].before = op[o].seen[r.at],
           disk'[r.at].journal[o].state = "committed" /\ o \in disk'[r.at].data.done
    PROVE  ProgressInv(o)'
<1>1. /\ \A b \in targets[o] : HasJournal(disk[b], o) => disk[b].journal[o].before = op[o].seen[b]
      /\ \A b \in targets[o] : ~Asked(o, "commit", b) =>
            disk[b].journal[o].state = "committed" /\ o \in disk[b].data.done
      /\ targets[o] \subseteq Backend
  BY DEF OpInv, ProgressInv, HostOK
<1>2. \A c \in Backend \ {r.at} : Asked(o, "commit", c)' <=> Asked(o, "commit", c)
  BY AskedAfter
<1>3. op'[o].stage = "commit" /\ op'[o].seen = op[o].seen
  BY DEF OneLess
<1>4. ASSUME NEW b \in targets[o]
      PROVE  /\ HasJournal(disk'[b], o) => disk'[b].journal[o].before = op'[o].seen[b]
             /\ ~Asked(o, "commit", b)' => disk'[b].journal[o].state = "committed" /\ o \in disk'[b].data.done
  <2>1. CASE b = r.at
    BY <1>3, <2>1
  <2>2. CASE b # r.at
    BY <1>1, <1>2, <1>3, <2>2
  <2> QED BY <2>1, <2>2
<1> QED BY <1>3, <1>4 DEF ProgressInv

LEMMA ProgressUndone ==
    ASSUME HostOK, DiskOK, OpInv, NEW o \in Op, NEW r \in op[o].todo, OneLess(o, r),
           UNCHANGED <<targets, coord>>, r.verb \in {"rollback", "finalize"},
           op[o].stage \in {"recover", "undo", "finalize"}, Subject(o) \in Txn,
           \A c \in Backend \ {r.at} : disk'[c] = disk[c], ~InForce(disk'[r.at], Subject(o)),
           HasJournal(disk'[r.at], Subject(o)) => HasJournal(disk[r.at], Subject(o)),
           r.verb = "finalize" => ~HasJournal(disk'[r.at], Subject(o))
    PROVE  ProgressInv(o)'
<1> DEFINE t == Subject(o)
           Watched == \/ op[o].stage = "recover" /\ op[o].file # NoTxn
                      \/ op[o].stage = "finalize"
                      \/ op[o].stage = "undo" /\ ~op[o].errors
<1>1. /\ Watched => \A b \in targets[t] : HasJournal(disk[b], t) => Asked(o, "finalize", b)
      /\ op[o].stage \in {"recover", "undo"} /\ t # NoTxn => \A b \in targets[t] :
           InForce(disk[b], t) /\ coord[t] # "committed" /\ Asked(o, "finalize", b)
               => Asked(o, "rollback", b)
      /\ targets[t] \subseteq Backend
  BY DEF OpInv, ProgressInv, HostOK, Op
<1>2. /\ \A c \in Backend \ {r.at}, v \in {"rollback", "finalize"} : Asked(o, v, c)' <=> Asked(o, v, c)
      /\ r.verb = "rollback" => (Asked(o, "finalize", r.at)' <=> Asked(o, "finalize", r.at))
      /\ Subject(o)' = t
  BY AskedAfter
<1>3. op'[o].stage = op[o].stage /\ op'[o].file = op[o].file /\ op'[o].errors = op[o].errors
  BY DEF OneLess
<1>4. ASSUME NEW b \in targets[t]
      PROVE  /\ Watched /\ HasJournal(disk'[b], t) => Asked(o, "finalize", b)'
             /\ op[o].stage \in {"recover", "undo"} /\ t # NoTxn
                /\ InForce(disk'[b], t) /\ coord[t] # "committed" /\ Asked(o, "finalize", b)'
                  => Asked(o, "rollback", b)'
  <2>1. CASE b = r.at
    BY <1>1, <1>2, <2>1
  <2>2. CASE b # r.at
    <3>1. disk'[b] = disk[b] /\ b \in Backend
      BY <1>1, <2>2
    <3>2. (Asked(o, "finalize", b)' <=> Asked(o, "finalize", b)) /\ (Asked(o, "rollback", b)' <=> Asked(o, "rollback", b))
      BY <1>2, <2>2, <3>1
    <3> QED BY <1>1, <3>1, <3>2
  <2> QED BY <2>1, <2>2
<1>5. ~(op[o].stage \in {"prepare", "commit"})
  OBVIOUS
<1>6. coord'[t] = coord[t] /\ targets'[t] = targets[t]
  OBVIOUS
<1> QED BY <1>2, <1>3, <1>4, <1>5, <1>6 DEF ProgressInv

-----------------------------------------------------------------------------
(* The steps between the host and the backends *)

Core == HostOK /\ DiskOK /\ StoresFit /\ Decided /\ OneCall /\ OneFile /\ OpInv

LEMMA Parts == IInv <=> Core /\ RestOK
BY TypeParts DEF IInv, Core

LEMMA PartsNext == ASSUME Core', RestOK' PROVE IInv'
<1>1. TypeOK'
  BY DEF Core, HostOK, DiskOK, RestOK, TypeOK, Phases
<1> QED BY <1>1 DEF IInv, Core

\* The files tell the same after a step at the stores.
LEMMA FilesStay ==
    ASSUME HostOK, Decided, OneFile, UNCHANGED <<targets, coord>>,
           \A t \in Txn : targets[t] = {} => told'[t] = told[t],
           \/ \E t \in Txn : HasFile(t) /\ Onward(t)
           \/ \A t \in Txn, b \in Backend : (t \in disk'[b].data.done) = (t \in disk[b].data.done)
    PROVE  Decided' /\ OneFile'
<1>1. OneFile'
  BY DEF OneFile, HasFile
<1>2. \A t \in Txn, b \in Backend :
         coord[t] = "removed" => (t \in disk'[b].data.done) = (t \in disk[b].data.done)
  BY DEF Onward, HasFile
<1>3. Decided'
  BY <1>2, DecidedKept
<1> QED BY <1>1, <1>3

\* A request was not answered, and has changed one store at most.
LEMMA FailedStep ==
    ASSUME Core, RestOK, NEW o \in Op, NEW r \in op[o].todo, Fails(o, r), UNCHANGED <<targets, coord, written>>,
           \/ UNCHANGED disk /\ \A b \in Backend : up'[b] => up[b]
           \/ \E t \in Txn : \E x \in StoreType : HasFile(t) /\ StoreStep(x, r.at, t)
    PROVE  Core'
<1>1. r.at \in Backend
  BY RequestOf DEF Core
<1>2. CASE UNCHANGED disk /\ \A b \in Backend : up'[b] => up[b]
  <2>1. DiskOK' /\ StoresFit'
    BY <1>2, StoresStay DEF Core
  <2>2. HostOK' /\ OneCall' /\ OpInv' /\ (\A t \in Txn : targets[t] = {} => told'[t] = told[t])
    BY <1>2, FailsKeeps DEF Core
  <2>3. Decided' /\ OneFile'
    BY <1>2, <2>2, FilesStay DEF Core
  <2> QED BY <2>1, <2>2, <2>3 DEF Core
<1>3. ASSUME NEW t \in Txn, NEW x \in StoreType, HasFile(t), StoreStep(x, r.at, t)
      PROVE  Core'
  <2>1. Onward(t)
    BY <1>1, <1>3, StoreMoves DEF Core
  <2>2. \A c \in Backend \ {r.at} : disk'[c] = disk[c]
    BY <1>3 DEF StoreStep, Core, DiskOK
  <2>3. HostOK' /\ OneCall' /\ OpInv' /\ (\A u \in Txn : targets[u] = {} => told'[u] = told[u])
    BY <2>2, FailsKeeps DEF Core
  <2>4. Decided' /\ OneFile'
    BY <1>3, <2>1, <2>3, FilesStay DEF Core
  <2> QED BY <2>1, <2>3, <2>4 DEF Core, Onward
<1> QED BY <1>2, <1>3

\* A lease has ended, the rest of RestOK stays.
LEMMA LeaseStep ==
    ASSUME RestOK, NEW b \in Backend, LeaseEnds(b), up[b]
    PROVE  up' \in [Backend -> BOOLEAN] /\ \A c \in Backend : up'[c] => up[c]
BY DEF RestOK, LeaseEnds

LEMMA LookServed ==
    ASSUME Core, RestOK, NEW o \in Op, NEW r \in op[o].todo, up[r.at], LeaseEnds(r.at),
           op[o].stage = "look", Succeeds(o, r), UNCHANGED <<targets, coord, written, disk>>
    PROVE  Core'
<1>0. HostOK /\ DiskOK /\ StoresFit /\ Decided /\ OneCall /\ OneFile /\ OpInv
  BY DEF Core
<1>1. r.at \in Backend /\ Running(o)
  BY <1>0, RequestOf
<1>2. \A c \in Backend : up'[c] => up[c]
  BY <1>1, LeaseStep
<1>3. DiskOK' /\ StoresFit'
  BY <1>0, <1>2, StoresStay
<1>4. OneLess(o, r) /\ Alone(o) /\ StageInv(o)' /\ RequestInv(o)'
  BY <1>0, SucceedsIs
<1>5. op'[o].stage = "look"
  BY <1>4 DEF OneLess
<1>6. ProgressInv(o)'
  BY <1>5 DEF ProgressInv
<1>7. HostOK' /\ OneCall' /\ OpInv'
  BY <1>0, <1>1, <1>4, <1>6, OthersKeep
<1>8. Decided' /\ OneFile'
  BY <1>0, FilesStay DEF Succeeds
<1> QED BY <1>3, <1>7, <1>8 DEF Core

LEMMA RequestServed ==
    ASSUME Core, RestOK, NEW o \in Op, NEW r \in op[o].todo, Due(o, r), up[r.at], LeaseEnds(r.at),
           op[o].stage # "look", Succeeds(o, r), UNCHANGED <<targets, coord, written>>,
           Accepts(r.at, disk[r.at], r.verb, r.txn, op[o].seen[r.at]),
           disk' = [disk EXCEPT ![r.at] = Served(@, r.verb, r.txn).end]
    PROVE  Core'
<1> DEFINE w == Served(disk[r.at], r.verb, r.txn)
           x == w.end
<1>0. HostOK /\ DiskOK /\ StoresFit /\ Decided /\ OneCall /\ OneFile /\ OpInv
  BY DEF Core
<1>1. /\ r.at \in Backend /\ Running(o) /\ r.txn = Subject(o) /\ Subject(o) \in Txn /\ HasFile(Subject(o))
      /\ op[o].stage \in {"recover", "prepare", "commit", "finalize", "undo"}
  BY <1>0, RequestOf
<1>2. Moves(x, r.at, r.txn) /\ AtRest(x, r.txn)
  BY <1>0, ServedMoves
<1>3. disk' = [disk EXCEPT ![r.at] = x] /\ disk'[r.at] = x /\ \A c \in Backend \ {r.at} : disk'[c] = disk[c]
  BY <1>0, <1>1 DEF DiskOK
<1> HIDE DEF x
<1>4. \A c \in Backend : up'[c] => up[c]
  BY <1>1, LeaseStep
<1>5. StoreStep(x, r.at, r.txn)
  BY <1>2, <1>3, <1>4 DEF StoreStep
<1>6. Onward(r.txn)
  BY <1>0, <1>1, <1>5, StoreMoves
<1>7. OneLess(o, r) /\ Alone(o) /\ StageInv(o)' /\ RequestInv(o)'
  BY <1>0, SucceedsIs
<1>8. ProgressInv(o)'
  <2>1. CASE r.verb = "prepare"
    <3>1. op[o].stage = "prepare" /\ r.txn = o
      BY <1>0, <1>1, <2>1, VerbsAre DEF Subject
    <3>2. x.journal[o].before = op[o].seen[r.at]
      BY <1>0, <2>1, <3>1, PreparesInTurn DEF x
    <3> QED BY <1>0, <1>3, <1>7, <2>1, <3>1, <3>2, ProgressPrepared
  <2>2. CASE r.verb = "commit"
    <3>1. op[o].stage = "commit" /\ r.txn = o
      BY <1>0, <1>1, <2>2, VerbsAre DEF Subject
    <3>2. /\ x.journal[o].before = op[o].seen[r.at]
          /\ x.journal[o].state = "committed" /\ o \in x.data.done
      BY <1>0, <2>2, <3>1, CommitsInTurn DEF x
    <3> QED BY <1>0, <1>3, <1>7, <2>2, <3>1, <3>2, ProgressCommitted
  <2>3. CASE r.verb \in {"rollback", "finalize"}
    <3>1. op[o].stage \in {"recover", "undo", "finalize"}
      BY <1>0, <2>3, VerbsAre
    <3>2. /\ ~InForce(x, r.txn) /\ Less(disk[r.at], x, r.txn)
          /\ r.verb = "finalize" => ~HasJournal(x, r.txn)
      BY <1>0, <2>3, UndoneInTurn DEF x
    <3>3. /\ ~InForce(disk'[r.at], Subject(o))
          /\ HasJournal(disk'[r.at], Subject(o)) => HasJournal(disk[r.at], Subject(o))
          /\ r.verb = "finalize" => ~HasJournal(disk'[r.at], Subject(o))
      BY <1>1, <1>3, <3>2 DEF Less
    <3> QED BY <1>0, <1>1, <1>3, <1>7, <2>3, <3>1, <3>3, ProgressUndone
  <2> QED BY <1>0, <1>1, <2>1, <2>2, <2>3, VerbsAre
<1>9. HostOK' /\ OneCall' /\ OpInv'
  BY <1>0, <1>1, <1>7, <1>8, OthersKeep
<1>10. Decided' /\ OneFile'
  <2>1. \E t \in Txn : HasFile(t) /\ Onward(t)
    BY <1>1, <1>6
  <2> QED BY <1>0, <2>1, FilesStay DEF Succeeds
<1> QED BY <1>6, <1>9, <1>10 DEF Core, Onward

LEMMA RestFrame ==
    ASSUME RestOK, up' \in [Backend -> BOOLEAN], held' \in [Backend -> BOOLEAN],
           written' \in [Backend -> 0 .. MaxWrites],
           crashes' \in 0 .. MaxCrashes, faults' \in 0 .. MaxFaults, visits' \in 0 .. MaxVisits
    PROVE  RestOK'
BY DEF RestOK

LEMMA ServeKeeps == ASSUME IInv, NEW o \in Op, Serve(o) PROVE IInv'
<1>1. Core /\ RestOK
  BY Parts
<1>2. PICK r \in op[o].todo :
         /\ Due(o, r) /\ up[r.at] /\ LeaseEnds(r.at)
         /\ IF Accepts(r.at, disk[r.at], r.verb, r.txn, op[o].seen[r.at])
            THEN /\ disk' = [disk EXCEPT ![r.at] = Served(@, r.verb, r.txn).end]
                 /\ Succeeds(o, r)
            ELSE Fails(o, r) /\ UNCHANGED disk
  BY DEF Serve
<1>3. r.at \in Backend
  BY <1>1, RequestOf DEF Core
<1>4. UNCHANGED <<targets, coord, held, written, world>>
  BY DEF Serve
<1>5. up' \in [Backend -> BOOLEAN] /\ \A c \in Backend : up'[c] => up[c]
  BY <1>1, <1>2, <1>3, LeaseStep
<1>6. RestOK'
  BY <1>1, <1>4, <1>5 DEF RestOK, world
<1>7. Core'
  <2>1. CASE ~Accepts(r.at, disk[r.at], r.verb, r.txn, op[o].seen[r.at])
    BY <1>1, <1>2, <1>4, <1>5, <2>1, FailedStep
  <2>2. CASE Accepts(r.at, disk[r.at], r.verb, r.txn, op[o].seen[r.at]) /\ op[o].stage # "look"
    BY <1>1, <1>2, <1>4, <2>2, RequestServed
  <2>3. CASE Accepts(r.at, disk[r.at], r.verb, r.txn, op[o].seen[r.at]) /\ op[o].stage = "look"
    <3>1. r.verb = "look"
      BY <1>1, <2>3, VerbsAre DEF Core
    <3>2. Served(disk[r.at], r.verb, r.txn).end = disk[r.at]
      BY <3>1 DEF Served, Way
    <3>3. disk' = disk
      BY <1>1, <1>2, <2>3, <3>2 DEF Core, DiskOK
    <3> QED BY <1>1, <1>2, <1>4, <2>3, <3>3, LookServed
  <2> QED BY <2>1, <2>2, <2>3
<1> QED BY <1>6, <1>7, PartsNext

LEMMA LoseKeeps == ASSUME IInv, NEW o \in Op, Lose(o) PROVE IInv'
<1>1. Core /\ RestOK
  BY Parts
<1>2. PICK r \in op[o].todo :
         /\ Due(o, r) /\ up[r.at] /\ LeaseEnds(r.at) /\ Fails(o, r)
         /\ \/ /\ Accepts(r.at, disk[r.at], r.verb, r.txn, op[o].seen[r.at])
               /\ disk' = [disk EXCEPT ![r.at] = Served(@, r.verb, r.txn).end]
            \/ UNCHANGED disk
  BY DEF Lose
<1>3. r.at \in Backend
  BY <1>1, RequestOf DEF Core
<1>4. UNCHANGED <<targets, coord, held, written, crashes, visits>> /\ faults < MaxFaults /\ faults' = faults + 1
  BY DEF Lose
<1>5. up' \in [Backend -> BOOLEAN] /\ \A c \in Backend : up'[c] => up[c]
  BY <1>1, <1>2, <1>3, LeaseStep
<1>6. faults' \in 0 .. MaxFaults
  <2>1. faults \in 0 .. MaxFaults /\ MaxFaults \in Nat
    BY <1>1, TransferAssumption DEF RestOK
  <2> QED BY <1>4, <2>1
<1>7. RestOK'
  BY <1>1, <1>4, <1>5, <1>6 DEF RestOK
<1>8. Core'
  <2>1. CASE UNCHANGED disk
    BY <1>1, <1>2, <1>4, <1>5, <2>1, FailedStep
  <2>2. CASE /\ Accepts(r.at, disk[r.at], r.verb, r.txn, op[o].seen[r.at])
             /\ disk' = [disk EXCEPT ![r.at] = Served(@, r.verb, r.txn).end]
    <3> DEFINE x == Served(disk[r.at], r.verb, r.txn).end
    <3>1. CASE op[o].stage = "look"
      <4>1. x = disk[r.at]
        BY <1>1, <3>1, VerbsAre DEF Core, Served, Way
      <4>2. disk' = disk
        BY <1>1, <2>2, <4>1 DEF Core, DiskOK
      <4> QED BY <1>1, <1>2, <1>4, <1>5, <4>2, FailedStep
    <3>2. CASE op[o].stage # "look"
      <4>1. Moves(x, r.at, r.txn) /\ AtRest(x, r.txn)
        BY <1>1, <1>2, <2>2, <3>2, ServedMoves DEF Core
      <4>2. r.txn \in Txn /\ HasFile(r.txn)
        BY <1>1, <3>2, RequestOf DEF Core
      <4>3. x \in StoreType /\ StoreStep(x, r.at, r.txn)
        BY <1>4, <1>5, <2>2, <4>1 DEF StoreStep, Moves
      <4> QED BY <1>1, <1>2, <1>4, <4>2, <4>3, FailedStep
    <3> QED BY <3>1, <3>2
  <2> QED BY <1>2, <2>1, <2>2
<1> QED BY <1>7, <1>8, PartsNext

LEMMA DeadLeaseKeeps == ASSUME IInv, NEW o \in Op, DeadLease(o) PROVE IInv'
<1>1. Core /\ RestOK
  BY Parts
<1>2. PICK r \in op[o].todo : Fails(o, r)
  BY DEF DeadLease
<1>3. UNCHANGED <<targets, coord, disk, up, held, written, world>>
  BY DEF DeadLease
<1>4. RestOK'
  BY <1>1, <1>3 DEF RestOK, world
<1>5. Core'
  BY <1>1, <1>2, <1>3, FailedStep
<1> QED BY <1>4, <1>5, PartsNext

\* Nothing happens to the operations.
LEMMA OpsStay ==
    ASSUME Core, UNCHANGED <<op, told, targets, coord>>, DiskOK', StoresFit',
           \A o \in Op : Running(o) => ProgressInv(o)',
           \/ \E t \in Txn : HasFile(t) /\ Onward(t)
           \/ \A t \in Txn, b \in Backend : (t \in disk'[b].data.done) = (t \in disk[b].data.done)
    PROVE  Core'
<1>1. ASSUME NEW o \in Op PROVE (StageInv(o) /\ RequestInv(o) /\ ProgressInv(o))'
  <2>1. StageInv(o) /\ RequestInv(o)
    BY DEF Core, OpInv
  <2>2. StageInv(o)'
    BY <2>1 DEF StageInv, Files, HasFile
  <2>3. RequestInv(o)'
    BY <2>1 DEF RequestInv, Verbs, Subject
  <2>4. ProgressInv(o)'
    <3>1. CASE Running(o)
      BY <3>1
    <3>2. CASE ~Running(o)
      BY <3>2 DEF Running, ProgressInv
    <3> QED BY <3>1, <3>2
  <2> QED BY <2>2, <2>3, <2>4
<1>2. OpInv'
  BY <1>1 DEF OpInv
<1>3. HostOK' /\ OneCall'
  BY DEF Core, HostOK, OneCall, Running
<1>4. Decided' /\ OneFile'
  BY FilesStay DEF Core
<1> QED BY <1>2, <1>3, <1>4 DEF Core

\* Nor to the stores.
LEMMA OnlyLeases ==
    ASSUME Core, RestOK, UNCHANGED <<op, told, targets, coord, disk, written>>,
           \A b \in Backend : up'[b] => up[b] \/ Clean(disk[b])
    PROVE  Core'
<1>1. DiskOK' /\ StoresFit'
  BY StoresStay DEF Core
<1>2. ASSUME NEW o \in Op PROVE ProgressInv(o)'
  <2>1. ProgressInv(o)
    BY DEF Core, OpInv
  <2> QED BY <2>1 DEF ProgressInv, Subject, Asked, HasJournal, InForce
<1> QED BY <1>1, <1>2, OpsStay

LEMMA VisitKeeps == ASSUME IInv, NEW b \in Backend, Visit(b) PROVE IInv'
<1>1. Core /\ RestOK
  BY Parts
<1>2. /\ visits < MaxVisits /\ visits' = visits + 1 /\ held' = [held EXCEPT ![b] = TRUE]
      /\ up[b] \/ Clean(disk[b])
      /\ up' = [up EXCEPT ![b] = TRUE] /\ UNCHANGED <<host, disk, written, crashes, faults>>
  BY DEF Visit
<1>3. visits' \in 0 .. MaxVisits
  <2>1. visits \in 0 .. MaxVisits /\ MaxVisits \in Nat
    BY <1>1, TransferAssumption DEF RestOK
  <2> QED BY <1>2, <2>1
<1>4. RestOK'
  BY <1>1, <1>2, <1>3 DEF RestOK
<1>5. \A c \in Backend : up'[c] => up[c] \/ Clean(disk[c])
  BY <1>1, <1>2 DEF RestOK
<1>6. Core'
  BY <1>1, <1>2, <1>5, OnlyLeases DEF host
<1> QED BY <1>4, <1>6, PartsNext

LEMMA LeaveKeeps == ASSUME IInv, NEW b \in Backend, Leave(b) PROVE IInv'
<1>1. Core /\ RestOK
  BY Parts
<1>2. /\ held' = [held EXCEPT ![b] = FALSE] /\ up' = [up EXCEPT ![b] = FALSE]
      /\ UNCHANGED <<host, disk, written, world>>
  BY DEF Leave
<1>3. RestOK'
  BY <1>1, <1>2 DEF RestOK, world
<1>4. \A c \in Backend : up'[c] => up[c]
  BY <1>1, <1>2 DEF RestOK
<1>5. Core'
  BY <1>1, <1>2, <1>4, OnlyLeases DEF host
<1> QED BY <1>3, <1>5, PartsNext

\* A store the user may change has no journal in force.
LEMMA WriteKeeps == ASSUME IInv, NEW b \in Backend, Write(b) PROVE IInv'
<1> DEFINE d == disk[b]
           data == [d.data EXCEPT !.writes = @ + 1]
           x == [d EXCEPT !.data = data]
<1>1. Core /\ RestOK
  BY Parts
<1>2. HostOK /\ DiskOK /\ StoresFit /\ OpInv
  BY <1>1 DEF Core
<1>3. /\ up[b] /\ written[b] < MaxWrites /\ d.active = NoTxn
      /\ written' = [written EXCEPT ![b] = @ + 1] /\ UNCHANGED <<host, up, held, world>>
      /\ disk' = [disk EXCEPT ![b].data.writes = @ + 1]
  BY DEF Write
<1>4. /\ d \in StoreType /\ d.data \in DataType /\ d.data.writes = written[b]
      /\ written[b] \in 0 .. MaxWrites /\ MaxWrites \in Nat
  BY <1>1, <1>2, PartsOf, TransferAssumption DEF DiskOK, RestOK
<1>5. written[b] + 1 \in 0 .. MaxWrites
  BY <1>3, <1>4
<1>6. /\ data \in DataType /\ data.done = d.data.done /\ data.part = d.data.part
      /\ data.writes = written[b] + 1
  <2> HIDE DEF d
  <2>1. d.data.writes + 1 \in 0 .. MaxWrites
    BY <1>4, <1>5
  <2>2. \A a \in DataType : a.writes + 1 \in 0 .. MaxWrites =>
          LET n == [a EXCEPT !.writes = @ + 1]
          IN n \in DataType /\ n.done = a.done /\ n.part = a.part /\ n.writes = a.writes + 1
    BY DEF DataType
  <2> QED BY <1>4, <2>1, <2>2
<1>7. disk' = [disk EXCEPT ![b] = x]
  BY <1>2, <1>3, <1>4 DEF DiskOK, StoreType
<1> HIDE DEF data
<1>8. x \in StoreType /\ x.data = data /\ x.active = d.active /\ x.journal = d.journal
  BY <1>4, <1>6, WithData
<1> HIDE DEF x
<1>9. /\ disk'[b] = x /\ \A c \in Backend \ {b} : disk'[c] = disk[c]
      /\ written'[b] = written[b] + 1 /\ \A c \in Backend \ {b} : written'[c] = written[c]
      /\ disk' \in [Backend -> StoreType]
  BY <1>1, <1>2, <1>3, <1>7, <1>8 DEF DiskOK, RestOK
<1>10. written' \in [Backend -> 0 .. MaxWrites]
  BY <1>1, <1>3, <1>5 DEF RestOK
<1>11. RestOK'
  BY <1>1, <1>3, <1>10 DEF RestOK, world
<1>12. \A t \in Txn : ~InForce(d, t)
  BY <1>2, <1>3, NoTxnIs DEF StoresFit, AtRest
<1>13. \A t \in Txn : /\ HasJournal(x, t) <=> HasJournal(d, t)
                      /\ InForce(x, t) <=> InForce(d, t)
  BY <1>8 DEF HasJournal, InForce
<1>14. ASSUME NEW c \in Backend, NEW t \in Txn
       PROVE  /\ Fits(disk'[c], t, coord'[t], c, targets'[t], written'[c])
              /\ up'[c] => AtRest(disk'[c], t)
  <2>1. Fits(disk[c], t, coord[t], c, targets[t], written[c]) /\ (up[c] => AtRest(disk[c], t))
    BY <1>2 DEF StoresFit
  <2>2. coord' = coord /\ targets' = targets /\ up' = up
    BY <1>3 DEF host
  <2>3. CASE c = b
    <3>1. Fits(x, t, coord[t], b, targets[t], written[b] + 1)
      BY <1>6, <1>8, <1>12, <1>13, <2>1, <2>3 DEF Fits
    <3>2. AtRest(x, t)
      BY <1>12, <1>13 DEF AtRest
    <3> QED BY <1>9, <2>2, <2>3, <3>1, <3>2
  <2>4. CASE c # b
    BY <1>9, <2>1, <2>2, <2>4
  <2> QED BY <2>3, <2>4
<1>15. StoresFit'
  BY <1>14 DEF StoresFit
<1>16. DiskOK'
  <2>1. ASSUME NEW c \in Backend
        PROVE  /\ \A t \in Txn : disk'[c].active = t => HasJournal(disk'[c], t)
               /\ disk'[c].data.writes = written'[c]
    <3>1. CASE c = b
      BY <1>2, <1>6, <1>8, <1>9, <1>13, <3>1 DEF DiskOK
    <3>2. CASE c # b
      BY <1>2, <1>9, <3>2 DEF DiskOK
    <3> QED BY <3>1, <3>2
  <2> QED BY <1>9, <2>1 DEF DiskOK
<1>17. \A t \in Txn, c \in Backend :
          /\ (t \in disk'[c].data.done) = (t \in disk[c].data.done)
          /\ disk'[c].journal = disk[c].journal
  BY <1>6, <1>8, <1>9
<1>18. ASSUME NEW o \in Op PROVE ProgressInv(o)'
  <2>1. ProgressInv(o) /\ (Subject(o) \in Op)
    <3>1. op[o].file \in Txn \cup {NoTxn}
      BY <1>2, StageType, OpParts
    <3>2. Subject(o) \in Op
      BY <3>1, NoTxnIs DEF Subject, Op
    <3> QED BY <1>2, <3>2 DEF OpInv
  <2>2. UNCHANGED <<op, targets, coord>>
    BY <1>3 DEF host
  <2>3. \A c \in Backend : disk'[c].journal = disk[c].journal
    BY <1>8, <1>9
  <2>4. targets[o] \subseteq Backend /\ targets[Subject(o)] \subseteq Backend
    BY <1>2, <2>1 DEF HostOK
  <2>5. \A c \in Backend : (o \in disk'[c].data.done) = (o \in disk[c].data.done)
    BY <1>6, <1>8, <1>9
  <2> QED BY <2>1, <2>2, <2>3, <2>4, <2>5 DEF ProgressInv, Subject, Asked, HasJournal, InForce
<1>19. Core'
  BY <1>1, <1>3, <1>15, <1>16, <1>17, <1>18, OpsStay DEF host
<1> QED BY <1>11, <1>19, PartsNext

\* The first journal of a store is recovered, or some way of that is gone.
LEMMA RecoveredStore ==
    ASSUME Core, RestOK, NEW b \in Backend, NEW t \in Txn, IsNext(disk[b], t)
    PROVE  /\ HasFile(t)
           /\ \A x \in Recovery(disk[b], t).through \cup {Recovery(disk[b], t).end} :
                Moves(x, b, t) /\ Less(disk[b], x, t)
           /\ ~HasJournal(Recovery(disk[b], t).end, t)
<1> DEFINE d == disk[b]
<1>1. HostOK /\ DiskOK /\ StoresFit /\ OneFile
  BY DEF Core
<1>2. d \in StoreType /\ (d.active = t => HasJournal(d, t)) /\ HasJournal(d, t)
  BY <1>1 DEF DiskOK, IsNext
<1>3. HasFile(t)
  BY <1>1, <1>2 DEF StoresFit, Fits, HasFile
<1>4. /\ Recovery(d, t).end \in StoreType
      /\ ~HasJournal(Recovery(d, t).end, t)
      /\ \A x \in Recovery(d, t).through \cup {Recovery(d, t).end} :
           /\ x \in StoreType
           /\ IF coord[t] = "committed" THEN Clears(d, x, t) ELSE Undoes(d, x, t)
  <2> HIDE DEF d
  <2> QED BY <1>2, RecoveryWay
<1>5. \A x \in StoreType : (IF coord[t] = "committed" THEN Clears(d, x, t) ELSE Undoes(d, x, t))
                             => Moves(x, b, t) /\ Less(d, x, t)
  <2>1. CASE coord[t] = "committed"
    BY <1>1, <2>1, ClearedMoves
  <2>2. CASE coord[t] # "committed"
    BY <1>1, <2>2, UndoneMoves
  <2> QED BY <2>1, <2>2
<1> QED BY <1>3, <1>4, <1>5

\* A backend that is asked for something may have lost all its journals.
LEMMA ProgressRecovered ==
    ASSUME Core, NEW o \in Op, NEW r \in op[o].todo, UNCHANGED <<op, targets, coord>>,
           \A c \in Backend \ {r.at} : disk'[c] = disk[c],
           \A u \in Txn : ~HasJournal(disk'[r.at], u)
    PROVE  ProgressInv(o)'
<1>1. /\ ProgressInv(o) /\ HostOK /\ r.at \in Backend
      /\ op[o].stage \in {"prepare", "commit", "finalize", "undo"} => o \in Txn
      /\ op[o].stage = "commit" => Asked(o, "commit", r.at)
      /\ op[o].stage # "look" => Subject(o) \in Txn
  BY RequestOf, VerbsAre DEF Core, OpInv, Asked, Verbs
<1>2. /\ targets[o] \subseteq Backend
      /\ op[o].stage # "look" => targets[Subject(o)] \subseteq Backend
  BY <1>1 DEF HostOK, Op
<1>3. \A u \in Txn : ~HasJournal(disk'[r.at], u) /\ ~InForce(disk'[r.at], u)
  BY DEF HasJournal, InForce
<1>4. /\ \A v \in {"rollback", "finalize", "prepare", "commit"}, c \in Backend : Asked(o, v, c)' <=> Asked(o, v, c)
      /\ Subject(o)' = Subject(o)
  BY DEF Asked, Subject
<1>5. CASE op[o].stage \in {"prepare", "commit"}
  <2>1. ASSUME NEW b \in targets[o]
        PROVE  /\ HasJournal(disk'[b], o) => disk'[b].journal[o].before = op[o].seen[b]
               /\ op[o].stage = "prepare" /\ Asked(o, "prepare", b) => ~HasJournal(disk'[b], o)
               /\ op[o].stage = "commit" /\ ~Asked(o, "commit", b) =>
                    disk'[b].journal[o].state = "committed" /\ o \in disk'[b].data.done
    <3>1. CASE b = r.at
      BY <1>1, <1>3, <1>5, <3>1
    <3>2. CASE b # r.at
      <4>1. disk'[b] = disk[b]
        BY <1>2, <3>2
      <4> QED BY <1>1, <1>5, <4>1 DEF ProgressInv
    <3> QED BY <3>1, <3>2
  <2>2. \A b \in targets[o], v \in {"prepare", "commit"} : Asked(o, v, b)' <=> Asked(o, v, b)
    BY <1>2, <1>4
  <2> QED BY <1>5, <2>1, <2>2 DEF ProgressInv
<1>6. CASE op[o].stage \in {"recover", "finalize", "undo"}
  <2> DEFINE t == Subject(o)
  <2>1. ASSUME NEW b \in targets[t]
        PROVE  /\ HasJournal(disk'[b], t) => HasJournal(disk[b], t)
               /\ InForce(disk'[b], t) => InForce(disk[b], t)
    <3>1. CASE b = r.at
      BY <1>1, <1>3, <1>6, <3>1
    <3>2. CASE b # r.at
      BY <1>2, <1>6, <3>2
    <3> QED BY <3>1, <3>2
  <2>2. \A b \in targets[t], v \in {"rollback", "finalize"} : Asked(o, v, b)' <=> Asked(o, v, b)
    BY <1>2, <1>4, <1>6
  <2>3. \/ op[o].stage = "recover" /\ op[o].file # NoTxn
        \/ op[o].stage = "finalize"
        \/ op[o].stage = "undo" /\ ~op[o].errors
        => \A b \in targets[t] : HasJournal(disk'[b], t) => Asked(o, "finalize", b)'
    BY <1>1, <2>1, <2>2 DEF ProgressInv
  <2>4. op[o].stage \in {"recover", "undo"} /\ t # NoTxn =>
         \A b \in targets[t] :
           InForce(disk'[b], t) /\ coord[t] # "committed" /\ Asked(o, "finalize", b)'
               => Asked(o, "rollback", b)'
    BY <1>1, <2>1, <2>2 DEF ProgressInv
  <2> QED BY <1>4, <1>6, <2>3, <2>4 DEF ProgressInv
<1>7. CASE op[o].stage \notin {"prepare", "commit", "recover", "finalize", "undo"}
  BY <1>7 DEF ProgressInv
<1> QED BY <1>5, <1>6, <1>7

LEMMA StartKeeps == ASSUME IInv, Amid = FALSE, NEW b \in Backend, Start(b) PROVE IInv'
<1>1. Core /\ RestOK
  BY Parts
<1>2. ~up[b] /\ UNCHANGED <<host, held, written, world>>
  BY DEF Start
<1>3. PICK o \in Op : Asking(o, b)
  BY DEF Start
<1>4. CASE Clean(disk[b]) /\ up' = [up EXCEPT ![b] = TRUE] /\ UNCHANGED disk
  <2>1. RestOK'
    BY <1>1, <1>2, <1>4 DEF RestOK, world
  <2>2. \A c \in Backend : up'[c] => up[c] \/ Clean(disk[c])
    BY <1>1, <1>4 DEF RestOK
  <2>3. Core'
    BY <1>1, <1>2, <1>4, <2>2, OnlyLeases DEF host
  <2> QED BY <2>1, <2>3, PartsNext
<1>5. ASSUME NEW t \in Txn, IsNext(disk[b], t), disk' = [disk EXCEPT ![b] = Recovery(@, t).end], up' = up
      PROVE  IInv'
  <2> DEFINE x == Recovery(disk[b], t).end
  <2>1. HasFile(t) /\ Moves(x, b, t) /\ Less(disk[b], x, t) /\ ~HasJournal(x, t)
    BY <1>1, <1>5, RecoveredStore
  <2>2. disk' = [disk EXCEPT ![b] = x] /\ disk'[b] = x /\ \A c \in Backend \ {b} : disk'[c] = disk[c]
    BY <1>1, <1>5 DEF Core, DiskOK
  <2> HIDE DEF x
  <2>3. StoreStep(x, b, t)
    BY <1>2, <1>5, <2>1, <2>2 DEF StoreStep, host
  <2>4. Onward(t)
    BY <1>1, <2>1, <2>3, StoreMoves DEF Core
  <2>5. \A u \in Txn : ~HasJournal(disk'[b], u)
    <3>1. \A u \in Txn \ {t} : ~HasJournal(disk[b], u)
      BY <1>1, <2>1, NoOther DEF Core
    <3> QED BY <2>1, <2>2, <3>1 DEF Moves, Same, HasJournal
  <2>6. ASSUME NEW p \in Op, Running(p) PROVE ProgressInv(p)'
    <3>1. PICK r \in op[o].todo : r.at = b
      BY <1>3 DEF Asking
    <3>2. Running(o)
      BY <1>1, RequestOf DEF Core
    <3>3. p = o
      BY <1>1, <2>6, <3>2 DEF Core, OneCall
    <3>4. ProgressInv(o)'
      BY <1>1, <1>2, <2>2, <2>5, <3>1, ProgressRecovered DEF host
    <3> QED BY <3>3, <3>4
  <2>7. Core'
    BY <1>1, <1>2, <2>1, <2>4, <2>6, OpsStay DEF host, Onward
  <2>8. RestOK'
    BY <1>1, <1>2, <1>5 DEF RestOK, world
  <2> QED BY <2>7, <2>8, PartsNext
<1> QED BY <1>4, <1>5 DEF Start

LEMMA CrashBackendKeeps == ASSUME IInv, NEW b \in Backend, CrashBackend(b) PROVE IInv'
<1>1. Core /\ RestOK
  BY Parts
<1>2. /\ crashes < MaxCrashes /\ crashes' = crashes + 1 /\ up' = [up EXCEPT ![b] = FALSE]
      /\ UNCHANGED <<targets, coord, held, written, faults, visits>>
  BY DEF CrashBackend
<1>3. crashes' \in 0 .. MaxCrashes
  <2>1. crashes \in 0 .. MaxCrashes /\ MaxCrashes \in Nat
    BY <1>1, TransferAssumption DEF RestOK
  <2> QED BY <1>2, <2>1
<1>4. RestOK'
  BY <1>1, <1>2, <1>3 DEF RestOK
<1>5. ~up'[b] /\ \A c \in Backend : up'[c] => up[c]
  BY <1>1, <1>2 DEF RestOK
<1>6. CASE UNCHANGED <<disk, op, told>>
  <2>1. Core'
    BY <1>1, <1>2, <1>5, <1>6, OnlyLeases
  <2> QED BY <1>4, <2>1, PartsNext
<1>7. ASSUME NEW o \in Op, NEW r \in op[o].todo, Due(o, r), r.at = b, Fails(o, r),
             NEW x \in Halfway(b, o, r), disk' = [disk EXCEPT ![b] = x]
      PROVE  IInv'
  <2> DEFINE d == disk[b]
             w == Served(d, r.verb, r.txn)
  <2>1. \/ x = d
        \/ \E t \in Txn : /\ IsNext(d, t)
                          /\ x \in Recovery(d, t).through \cup {Recovery(d, t).end}
        \/ /\ up[b] /\ Accepts(b, d, r.verb, r.txn, op[o].seen[b])
           /\ x \in w.through \cup {w.end}
    BY <1>7 DEF Halfway
  <2>2. Core'
    <3>1. CASE x = d
      <4>1. disk' = disk
        BY <1>1, <1>7, <3>1 DEF Core, DiskOK
      <4> QED BY <1>1, <1>2, <1>5, <1>7, <4>1, FailedStep
    <3>2. ASSUME NEW t \in Txn, IsNext(d, t), x \in Recovery(d, t).through \cup {Recovery(d, t).end}
          PROVE  Core'
      <4>1. HasFile(t) /\ Moves(x, b, t)
        BY <1>1, <3>2, RecoveredStore
      <4>2. x \in StoreType /\ StoreStep(x, r.at, t)
        BY <1>2, <1>5, <1>7, <4>1 DEF StoreStep, Moves
      <4> QED BY <1>1, <1>2, <1>7, <4>1, <4>2, FailedStep
    <3>3. CASE /\ up[b] /\ Accepts(b, d, r.verb, r.txn, op[o].seen[b])
               /\ x \in w.through \cup {w.end}
      <4>1. CASE op[o].stage = "look"
        <5>1. x = d
          BY <1>1, <1>7, <3>3, <4>1, VerbsAre DEF Core, Served, Way
        <5> QED BY <3>1, <5>1
      <4>2. CASE op[o].stage # "look"
        <5>1. Moves(x, r.at, r.txn)
          BY <1>1, <1>7, <3>3, <4>2, ServedMoves DEF Core
        <5>2. r.txn \in Txn /\ HasFile(r.txn)
          BY <1>1, <1>7, <4>2, RequestOf DEF Core
        <5>3. x \in StoreType /\ StoreStep(x, r.at, r.txn)
          BY <1>2, <1>5, <1>7, <5>1 DEF StoreStep, Moves
        <5> QED BY <1>1, <1>2, <1>7, <5>2, <5>3, FailedStep
      <4> QED BY <4>1, <4>2
    <3> QED BY <2>1, <3>1, <3>2, <3>3
  <2> QED BY <1>4, <2>2, PartsNext
<1>8. \/ UNCHANGED <<disk, op, told>>
      \/ \E o \in Op : \E r \in op[o].todo :
           /\ Due(o, r) /\ r.at = b /\ Fails(o, r)
           /\ \E x \in Halfway(b, o, r) : disk' = [disk EXCEPT ![b] = x]
  BY DEF CrashBackend
<1> QED BY <1>6, <1>7, <1>8

LEMMA CrashHostKeeps == ASSUME IInv, CrashHost PROVE IInv'
<1>1. Core /\ RestOK
  BY Parts
<1>2. HostOK /\ DiskOK /\ StoresFit /\ Decided /\ OneFile /\ OpInv
  BY <1>1 DEF Core
<1>3. /\ crashes < MaxCrashes /\ crashes' = crashes + 1
      /\ told' = [t \in Txn |-> IF Running(t) THEN "lost" ELSE told[t]]
      /\ op' = [o \in Op |-> Idle]
      /\ up' = [b \in Backend |-> FALSE] /\ held' = up'
      /\ UNCHANGED <<targets, coord, disk, written, faults, visits>>
  BY DEF CrashHost
<1>4. crashes' \in 0 .. MaxCrashes
  <2>1. crashes \in 0 .. MaxCrashes /\ MaxCrashes \in Nat
    BY <1>1, TransferAssumption DEF RestOK
  <2> QED BY <1>3, <2>1
<1>5. RestOK'
  BY <1>1, <1>3, <1>4 DEF RestOK
<1>6. DiskOK' /\ StoresFit'
  BY <1>2, <1>1, <1>3, StoresStay
<1>7. HostOK'
  BY <1>2, <1>3, IdleType DEF HostOK
<1>8. \A t \in Txn : targets[t] = {} => told'[t] = told[t]
  <2>1. ASSUME NEW t \in Txn, Running(t) PROVE targets[t] # {}
    <3>1. StageInv(t) /\ op[t].stage # "idle"
      BY <1>2, <2>1 DEF OpInv, Op, Running
    <3> QED BY <3>1 DEF StageInv
  <2> QED BY <1>3, <2>1
<1>9. Decided' /\ OneFile'
  BY <1>2, <1>3, <1>8, FilesStay
<1>10. \A o \in Op : op'[o] = Idle
  BY <1>3
<1>11. OneCall'
  BY <1>10, IdleType DEF OneCall, Running
<1>12. ASSUME NEW o \in Op PROVE (StageInv(o) /\ RequestInv(o) /\ ProgressInv(o))'
  <2>1. StageInv(o)'
    BY <1>7, <1>10, IdleType DEF StageInv, PhaseAt, HostOK, Phases
  <2>2. RequestInv(o)' /\ ProgressInv(o)'
    BY <1>10, IdleType DEF RequestInv, ProgressInv
  <2> QED BY <2>1, <2>2
<1>13. Core'
  BY <1>6, <1>7, <1>9, <1>11, <1>12 DEF Core, OpInv
<1> QED BY <1>5, <1>13, PartsNext

-----------------------------------------------------------------------------
(* The steps of the host: calls and recovery *)

\* The stores and the files stay as they are.
LEMMA HostStep ==
    ASSUME Core, RestOK, UNCHANGED <<targets, coord, disk, up, held, written, world>>,
           HostOK', OneCall', OpInv', \A t \in Txn : targets[t] = {} => told'[t] = told[t]
    PROVE  IInv'
<1>1. DiskOK' /\ StoresFit'
  BY StoresStay DEF Core
<1>2. Decided' /\ OneFile'
  BY FilesStay DEF Core
<1>3. RestOK'
  BY DEF RestOK, world
<1>4. Core'
  BY <1>1, <1>2 DEF Core
<1> QED BY <1>3, <1>4, PartsNext

\* The running operation o does something of its own.
LEMMA OwnStep ==
    ASSUME Core, RestOK, UNCHANGED <<told, targets, coord, disk, up, held, written, world>>,
           NEW o \in Op, Running(o), op' \in [Op -> OpType], \A p \in Op \ {o} : op'[p] = op[p],
           StageInv(o)', RequestInv(o)', ProgressInv(o)'
    PROVE  IInv'
<1>1. Alone(o)
  BY DEF Core, HostOK, Alone
<1>2. HostOK' /\ OneCall' /\ OpInv'
  BY <1>1, OthersKeep DEF Core
<1> QED BY <1>2, HostStep

LEMMA NobodyRuns ==
    ASSUME MaxTogether = 1, OneCall, MayCall
    PROVE  \A o \in Op : ~Running(o)
<1> DEFINE S == {o \in Op : Running(o)}
<1> SUFFICES ASSUME NEW o \in Op, Running(o) PROVE FALSE
  OBVIOUS
<1>1. S = {o}
  BY DEF OneCall
<1>2. Cardinality(S) = 1
  BY <1>1, FS_Singleton
<1>3. Cardinality(S) < 1
  BY DEF MayCall
<1> QED BY <1>2, <1>3

\* An operation that begins at a stage with nothing to do yet.
LEMMA CallKeeps ==
    ASSUME Core, NEW o \in Op, \A p \in Op : ~Running(p),
           op' \in [Op -> OpType], \A p \in Op \ {o} : op'[p] = op[p],
           \A p \in Op \ {o} : targets'[p] = targets[p], targets' \in [Op -> SUBSET Backend],
           UNCHANGED <<told, coord>>,
           op'[o].stage = "scan", op'[o].todo = {}, op'[o].files = {}, op'[o].file = NoTxn,
           op'[o].errors = FALSE, o = Backup => op'[o].call = "backup",
           o \in Txn => coord[o] = "new" /\ told[o] = "none" /\ targets'[o] # {}
    PROVE  HostOK' /\ OneCall' /\ OpInv'
<1>1. ASSUME NEW p \in Op \ {o}
      PROVE  (StageInv(p) /\ RequestInv(p) /\ ProgressInv(p))' /\ ~Running(p)'
  <2>1. StageInv(p) /\ ~Running(p) /\ op'[p] = op[p]
    BY DEF Core, OpInv
  <2>2. p \in Txn => told'[p] = told[p] /\ targets'[p] = targets[p] /\ coord'[p] = coord[p]
    OBVIOUS
  <2> QED BY <2>1, <2>2, RestsKeeps
<1>2. StageInv(o)'
  BY NoTxnIs DEF StageInv, PhaseAt
<1>3. RequestInv(o)' /\ ProgressInv(o)'
  BY DEF RequestInv, ProgressInv
<1>4. OpInv' /\ OneCall'
  BY <1>1, <1>2, <1>3 DEF OpInv, OneCall
<1>5. HostOK'
  BY DEF Core, HostOK
<1> QED BY <1>4, <1>5

LEMMA Called ==
    ASSUME NEW s \in OpType, NEW call \in {"none", "import", "apply", "reset", "backup"}
    PROVE  LET n == [s EXCEPT !.call = call, !.stage = "scan"]
           IN /\ n \in OpType /\ n.stage = "scan" /\ n.call = call /\ n.todo = s.todo
              /\ n.files = s.files /\ n.file = s.file /\ n.errors = s.errors
BY DEF OpType

LEMMA BeginKeeps == ASSUME IInv, MaxTogether = 1, NEW o \in Op, Begin(o) PROVE IInv'
<1>1. Core /\ RestOK
  BY Parts
<1>0. HostOK /\ DiskOK /\ StoresFit /\ Decided /\ OneCall /\ OneFile /\ OpInv
  BY <1>1 DEF Core
<1>2. /\ op[o].stage = "idle" /\ MayCall /\ (o \in Txn => targets[o] = {})
      /\ UNCHANGED <<told, coord, disk, up, held, written, world>>
  BY DEF Begin
<1>3. PICK call \in IF o = Backup THEN {"backup"} ELSE {"import", "reset"},
           bs \in IF o = Backup THEN {Backend} ELSE Selections :
         /\ op' = [op EXCEPT ![o].call = call, ![o].stage = "scan"]
         /\ targets' = [targets EXCEPT ![o] = bs]
  BY DEF Begin
<1>4. call \in {"none", "import", "apply", "reset", "backup"} /\ (o = Backup => call = "backup")
  BY <1>3
<1>5. bs \in SUBSET Backend /\ (o \in Txn => bs # {})
  BY <1>3, TransferAssumption, NoTxnIs DEF Op
<1>6. op[o] = Idle /\ op[o] \in OpType
  BY <1>0, <1>2 DEF OpInv, StageInv, HostOK
<1> DEFINE n == [op[o] EXCEPT !.call = call, !.stage = "scan"]
<1>7. /\ n \in OpType /\ n.stage = "scan" /\ n.call = call /\ n.todo = {}
      /\ n.files = {} /\ n.file = NoTxn /\ n.errors = FALSE
  <2>1. op[o].todo = {} /\ op[o].files = {} /\ op[o].file = NoTxn /\ op[o].errors = FALSE
    BY <1>6, IdleType
  <2>2. op[o] \in OpType
    BY <1>6
  <2>3. /\ n \in OpType /\ n.stage = "scan" /\ n.call = call /\ n.todo = op[o].todo
        /\ n.files = op[o].files /\ n.file = op[o].file /\ n.errors = op[o].errors
    BY <1>4, <2>2, Called
  <2> QED BY <2>1, <2>3
<1>8. op' = [op EXCEPT ![o] = n]
  BY <1>0, <1>3 DEF HostOK
<1> HIDE DEF n
<1>9. op' \in [Op -> OpType] /\ op'[o] = n /\ \A p \in Op \ {o} : op'[p] = op[p]
  BY <1>0, <1>7, <1>8 DEF HostOK
<1>10. targets' \in [Op -> SUBSET Backend] /\ targets'[o] = bs /\ \A p \in Op \ {o} : targets'[p] = targets[p]
  BY <1>0, <1>3, <1>5 DEF HostOK
<1>11. o \in Txn => coord[o] = "new" /\ told[o] = "none" /\ targets'[o] # {}
  BY <1>0, <1>2, <1>5, <1>10 DEF Decided
<1>12. \A p \in Op : ~Running(p)
  BY <1>0, <1>2, NobodyRuns
<1>13. HostOK' /\ OneCall' /\ OpInv'
  BY <1>1, <1>2, <1>4, <1>7, <1>9, <1>10, <1>11, <1>12, CallKeeps
<1>14. Decided'
  <2>1. \A t \in Txn : (t # o => targets'[t] = targets[t]) /\ (t = o => coord[t] = "new")
    BY <1>10, <1>11 DEF Op
  <2> QED BY <1>0, <1>2, <1>10, <1>11, <2>1 DEF Decided
<1>15. OneFile' /\ DiskOK' /\ RestOK'
  BY <1>0, <1>1, <1>2 DEF OneFile, HasFile, DiskOK, HasJournal, RestOK, world
<1>16. ASSUME NEW b \in Backend, NEW t \in Txn
       PROVE  /\ Fits(disk'[b], t, coord'[t], b, targets'[t], written'[b])
              /\ up'[b] => AtRest(disk'[b], t)
  <2>1. Fits(disk[b], t, coord[t], b, targets[t], written[b]) /\ (up[b] => AtRest(disk[b], t))
    BY <1>0 DEF StoresFit
  <2>2. CASE t = o
    <3>1. targets[t] = {} /\ coord[t] = "new"
      BY <1>2, <1>11, <2>2
    <3>2. Fits(disk[b], t, "new", b, bs, written[b])
      BY <2>1, <3>1 DEF Fits
    <3> QED BY <1>2, <1>10, <2>1, <2>2, <3>1, <3>2
  <2>3. CASE t # o
    <3>1. targets'[t] = targets[t]
      BY <1>10, <2>3 DEF Op
    <3> QED BY <1>2, <2>1, <3>1
  <2> QED BY <2>2, <2>3
<1>17. StoresFit'
  BY <1>16 DEF StoresFit
<1>18. Core'
  BY <1>13, <1>14, <1>15, <1>17 DEF Core
<1> QED BY <1>15, <1>18, PartsNext

LEMMA ConfirmKeeps == ASSUME IInv, MaxTogether = 1, NEW o \in Op, Confirm(o) PROVE IInv'
<1>1. Core /\ RestOK
  BY Parts
<1>0. HostOK /\ OneCall /\ OpInv
  BY <1>1 DEF Core
<1>2. /\ op[o].stage = "shown" /\ MayCall
      /\ op' = [op EXCEPT ![o].call = "apply", ![o].stage = "scan"]
      /\ UNCHANGED <<told, targets, coord, disk, up, held, written, world>>
  BY DEF Confirm
<1>3. /\ op[o] \in OpType /\ op[o].todo = {} /\ op[o].files = {} /\ op[o].file = NoTxn /\ ~op[o].errors
      /\ op[o].errors \in BOOLEAN /\ o # Backup /\ o \in Txn
      /\ coord[o] = "new" /\ told[o] = "none" /\ targets[o] # {}
  <2>1. op[o] \in OpType /\ op[o].errors \in BOOLEAN
    BY <1>0, StageType, OpParts
  <2>2. StageInv(o)
    BY <1>0 DEF OpInv
  <2> QED BY <1>2, <2>1, <2>2 DEF StageInv, PhaseAt, Op
<1> DEFINE n == [op[o] EXCEPT !.call = "apply", !.stage = "scan"]
<1>4. "apply" \in {"none", "import", "apply", "reset", "backup"}
  OBVIOUS
<1>5. /\ n \in OpType /\ n.stage = "scan" /\ n.todo = {}
      /\ n.files = {} /\ n.file = NoTxn /\ n.errors = FALSE
  BY <1>3, <1>4, Called
<1>6. op' = [op EXCEPT ![o] = n]
  BY <1>0, <1>2 DEF HostOK
<1> HIDE DEF n
<1>7. op' \in [Op -> OpType] /\ op'[o] = n /\ \A p \in Op \ {o} : op'[p] = op[p]
  BY <1>0, <1>5, <1>6 DEF HostOK
<1>8. \A p \in Op : ~Running(p)
  BY <1>0, <1>2, NobodyRuns
<1>9. targets' \in [Op -> SUBSET Backend] /\ \A p \in Op : targets'[p] = targets[p]
  BY <1>0, <1>2 DEF HostOK
<1>10. HostOK' /\ OneCall' /\ OpInv'
  BY <1>1, <1>2, <1>3, <1>5, <1>7, <1>8, <1>9, CallKeeps
<1> QED BY <1>1, <1>2, <1>10, HostStep

LEMMA Scanned ==
    ASSUME NEW s \in OpType, NEW F, F \subseteq Txn
    PROVE  LET n == [s EXCEPT !.stage = "recover", !.files = F]
           IN /\ n \in OpType /\ n.stage = "recover" /\ n.call = s.call /\ n.todo = s.todo
              /\ n.files = F /\ n.file = s.file /\ n.errors = s.errors
BY DEF OpType

LEMMA ScanKeeps == ASSUME IInv, NEW o \in Op, Scan(o) PROVE IInv'
<1>1. Core /\ RestOK /\ HostOK /\ OpInv
  BY Parts DEF Core
<1>2. /\ op[o].stage = "scan"
      /\ op' = [op EXCEPT ![o].stage = "recover", ![o].files = Files]
      /\ UNCHANGED <<told, targets, coord, disk, up, held, written, world>>
  BY DEF Scan, Files
<1>3. op[o] \in OpType /\ Files \subseteq Txn /\ StageInv(o)
  BY <1>1, StageType DEF Files, OpInv
<1> DEFINE n == [op[o] EXCEPT !.stage = "recover", !.files = Files]
<1>4. /\ n \in OpType /\ n.stage = "recover" /\ n.call = op[o].call /\ n.todo = op[o].todo
      /\ n.files = Files /\ n.file = op[o].file /\ n.errors = op[o].errors
  <2> HIDE DEF n
  <2>1. \A F \in SUBSET Txn : LET m == [op[o] EXCEPT !.stage = "recover", !.files = F]
           IN /\ m \in OpType /\ m.stage = "recover" /\ m.call = op[o].call /\ m.todo = op[o].todo
              /\ m.files = F /\ m.file = op[o].file /\ m.errors = op[o].errors
    BY <1>3, Scanned
  <2> QED BY <1>3, <2>1 DEF n
<1>5. op' = [op EXCEPT ![o] = n]
  BY <1>1, <1>2 DEF HostOK
<1> HIDE DEF n
<1>6. op' \in [Op -> OpType] /\ op'[o] = n /\ \A p \in Op \ {o} : op'[p] = op[p]
  BY <1>1, <1>4, <1>5 DEF HostOK
<1>7. op[o].todo = {} /\ op[o].file = NoTxn /\ Files' = Files
  BY <1>2, <1>3 DEF StageInv, Files, HasFile
<1>8. StageInv(o)'
  BY <1>2, <1>3, <1>4, <1>6, <1>7 DEF StageInv, PhaseAt
<1>9. RequestInv(o)'
  BY <1>4, <1>6, <1>7 DEF RequestInv
<1>10. ProgressInv(o)'
  BY <1>4, <1>6, <1>7 DEF ProgressInv, Subject
<1>11. Running(o)
  BY <1>2 DEF Running
<1> QED BY <1>1, <1>2, <1>6, <1>8, <1>9, <1>10, <1>11, OwnStep

Loads(s, n, t, R) ==
    /\ n \in OpType /\ n.stage = s.stage /\ n.call = s.call /\ n.todo = R
    /\ n.files = s.files /\ n.file = t /\ n.errors = s.errors

LEMMA Loaded ==
    ASSUME NEW s \in OpType, NEW t \in Txn, NEW R \in SUBSET RequestType
    PROVE  Loads(s, [s EXCEPT !.file = t, !.todo = R], t, R)
BY DEF OpType, Loads

LEMMA LoadKeeps == ASSUME IInv, NEW o \in Op, Load(o) PROVE IInv'
<1>1. Core /\ RestOK /\ HostOK /\ OpInv
  BY Parts DEF Core
<1>2. /\ op[o].stage = "recover" /\ op[o].file = NoTxn
      /\ UNCHANGED <<targets, coord, disk, up, held, written, world>>
  BY DEF Load
<1>3. op[o] \in OpType /\ Files \subseteq Txn /\ StageInv(o)
  BY <1>1, StageType DEF Files, OpInv
<1>4. op[o].files = Files
  BY <1>2, <1>3 DEF StageInv
<1>5. PICK t \in Files : /\ op' = [op EXCEPT ![o].file = t, ![o].todo = RecoveryRequests(t, targets[t])]
                         /\ UNCHANGED told
  BY <1>4 DEF Load, Files
<1>6. t \in Txn /\ t \in Op /\ t # NoTxn /\ targets[t] \in SUBSET Backend
  BY <1>1, <1>3, NoTxnIs DEF HostOK, Op
<1> DEFINE R == RecoveryRequests(t, targets[t])
<1>7. /\ Rollbacks(R, t, targets[t])
      /\ IF coord[t] = "committed"
         THEN \A r \in R : r.verb = "finalize"
         ELSE \A b \in targets[t] : \E r \in R : r.verb = "rollback" /\ r.at = b
  BY <1>6, RecoveryRequestsAre
<1>8. R \subseteq RequestType
  BY <1>7 DEF Rollbacks
<1> DEFINE n == [op[o] EXCEPT !.file = t, !.todo = R]
<1>9. op' = [op EXCEPT ![o] = n]
  BY <1>1, <1>5 DEF HostOK
<1> HIDE DEF R
<1>10. /\ n \in OpType /\ n.stage = "recover" /\ n.call = op[o].call /\ n.todo = R
       /\ n.files = Files /\ n.file = t /\ n.errors = op[o].errors
  <2> HIDE DEF n
  <2>1. \A s \in OpType : Loads(s, [s EXCEPT !.file = t, !.todo = R], t, R)
    BY <1>6, <1>8, Loaded
  <2>2. Loads(op[o], n, t, R)
    BY <1>3, <2>1 DEF n
  <2> QED BY <1>2, <1>4, <2>2 DEF Loads
<1> HIDE DEF n
<1>11. op' \in [Op -> OpType] /\ op'[o] = n /\ \A p \in Op \ {o} : op'[p] = op[p]
  BY <1>1, <1>9, <1>10 DEF HostOK
<1>12. Files' = Files
  BY <1>2 DEF Files, HasFile
<1>13. StageInv(o)'
  BY <1>2, <1>3, <1>5, <1>6, <1>10, <1>11, <1>12 DEF StageInv, PhaseAt
<1>14. RequestInv(o)'
  BY <1>2, <1>7, <1>10, <1>11 DEF RequestInv, Rollbacks, Verbs, Subject
<1>15. ProgressInv(o)'
  BY <1>2, <1>7, <1>10, <1>11 DEF ProgressInv, Rollbacks, Asked, Subject
<1>16. Running(o)
  BY <1>2 DEF Running
<1> QED BY <1>1, <1>2, <1>5, <1>11, <1>13, <1>14, <1>15, <1>16, OwnStep

-----------------------------------------------------------------------------
(* The steps of the host: stages and phases *)

\* Operation o goes to a stage with one request to each of its backends.
LEMMA Enters ==
    ASSUME HostOK, NEW o \in Op, NEW verb \in {"look", "prepare", "commit", "finalize"}, Enter(o, verb)
    PROVE  /\ op' \in [Op -> OpType] /\ \A p \in Op \ {o} : op'[p] = op[p]
           /\ Entered(op[o], op'[o], verb, Ask(verb, o, targets[o], Forth))
           /\ \A r \in op'[o].todo : r.verb = verb /\ r.txn = o /\ r.at \in targets[o]
           /\ \A q, r \in op'[o].todo : q.at = r.at => q = r
           /\ \A b \in targets[o] : \E r \in op'[o].todo : r.verb = verb /\ r.at = b
<1> DEFINE R == Ask(verb, o, targets[o], Forth)
           n == [op[o] EXCEPT !.stage = verb, !.todo = R]
<1>1. op[o] \in OpType /\ targets[o] \in SUBSET Backend /\ Forth \in [Backend -> Nat]
  BY Turns DEF HostOK
<1>2. verb \in {"look", "prepare", "commit", "rollback", "finalize"}
  OBVIOUS
<1>3. /\ R \subseteq RequestType
      /\ \A r \in R : r.verb = verb /\ r.txn = o /\ r.at \in targets[o]
      /\ \A q, r \in R : q.at = r.at => q = r
      /\ \A b \in targets[o] : \E r \in R : r.verb = verb /\ r.at = b
  <2>1. \A v \in {"look", "prepare", "commit", "rollback", "finalize"}, bs \in SUBSET Backend :
          LET A == Ask(v, o, bs, Forth)
          IN /\ A \subseteq RequestType
             /\ \A r \in A : r.verb = v /\ r.txn = o /\ r.at \in bs
             /\ \A q, r \in A : q.at = r.at => q = r
             /\ \A b \in bs : \E r \in A : r.verb = v /\ r.at = b
    BY <1>1, AskIs
  <2> QED BY <1>1, <1>2, <2>1
<1>4. op' = [op EXCEPT ![o] = n]
  BY DEF HostOK, Enter
<1> HIDE DEF R
<1>5. Entered(op[o], n, verb, R)
  <2> HIDE DEF n
  <2>1. verb \in {"idle", "scan", "recover", "look", "shown", "prepare", "commit", "finalize", "undo"}
    OBVIOUS
  <2>2. \A s \in OpType : Entered(s, [s EXCEPT !.stage = verb, !.todo = R], verb, R)
    BY <1>3, <2>1, TodoChanged
  <2> QED BY <1>1, <2>2 DEF n
<1> HIDE DEF n
<1>6. op'[o] = n /\ n \in OpType /\ n.todo = R
  BY <1>4, <1>5 DEF HostOK, Entered
<1>7. op' \in [Op -> OpType] /\ \A p \in Op \ {o} : op'[p] = op[p]
  BY <1>4, <1>6 DEF HostOK
<1> QED BY <1>3, <1>5, <1>6, <1>7 DEF R

LEMMA ReadyIs ==
    ASSUME HostOK, OpInv, NEW o \in Op, NEW stage \in {"recover", "look", "prepare", "commit", "finalize", "undo"},
           Ready(o, stage)
    PROVE  /\ Running(o) /\ op[o].todo = {} /\ op[o].files = {} /\ op[o].file = NoTxn
           /\ StageInv(o) /\ ProgressInv(o)
           /\ stage \in {"recover", "look"} => Files = {}
           /\ \A v, b : ~Asked(o, v, b)
<1>1. op[o].stage = stage /\ op[o].todo = {} /\ op[o].files = {} /\ StageInv(o) /\ ProgressInv(o)
  BY DEF Ready, OpInv
<1>2. stage \in {"recover", "look"} => Files = {}
  BY <1>1 DEF StageInv
<1>3. op[o].file = NoTxn
  BY <1>1, <1>2 DEF StageInv
<1> QED BY <1>1, <1>2, <1>3 DEF Running, Asked

LEMMA LookKeeps == ASSUME IInv, NEW o \in Op, Look(o) PROVE IInv'
<1>1. Core /\ RestOK /\ HostOK /\ OpInv
  BY Parts DEF Core
<1>2. /\ Ready(o, "recover") /\ Enter(o, "look")
      /\ UNCHANGED <<told, targets, coord, disk, up, held, written, world>>
  BY DEF Look
<1>3. /\ Running(o) /\ op[o].files = {} /\ op[o].file = NoTxn /\ StageInv(o) /\ Files = {}
      /\ op[o].stage = "recover"
  BY <1>1, <1>2, ReadyIs DEF Ready
<1>4. /\ op' \in [Op -> OpType] /\ \A p \in Op \ {o} : op'[p] = op[p]
      /\ op'[o].stage = "look" /\ op'[o].files = {} /\ op'[o].file = NoTxn
      /\ op'[o].errors = op[o].errors /\ op'[o].call = op[o].call
      /\ \A r \in op'[o].todo : r.verb = "look"
      /\ \A q, r \in op'[o].todo : q.at = r.at => q = r
  BY <1>1, <1>2, <1>3, Enters DEF Entered
<1>5. Files' = {}
  BY <1>2, <1>3 DEF Files, HasFile
<1>6. StageInv(o)'
  BY <1>2, <1>3, <1>4, <1>5 DEF StageInv, PhaseAt
<1>7. RequestInv(o)'
  BY <1>4 DEF RequestInv, Verbs
<1>8. ProgressInv(o)'
  BY <1>4 DEF ProgressInv
<1> QED BY <1>1, <1>2, <1>3, <1>4, <1>6, <1>7, <1>8, OwnStep

LEMMA Shown ==
    ASSUME NEW s \in OpType
    PROVE  LET n == [s EXCEPT !.stage = "shown"]
           IN /\ n \in OpType /\ n.stage = "shown" /\ n.call = s.call /\ n.todo = s.todo
              /\ n.files = s.files /\ n.file = s.file /\ n.errors = s.errors
BY DEF OpType

LEMMA ShowKeeps == ASSUME IInv, NEW o \in Op, Show(o) PROVE IInv'
<1>1. Core /\ RestOK /\ HostOK /\ OpInv
  BY Parts DEF Core
<1>2. /\ Ready(o, "look")
      /\ op' = [op EXCEPT ![o] = IF o = Backup THEN Idle ELSE [op[o] EXCEPT !.stage = "shown"]]
      /\ UNCHANGED <<told, targets, coord, disk, up, held, written, world>>
  BY DEF Show
<1>3. /\ Running(o) /\ op[o].files = {} /\ op[o].file = NoTxn /\ StageInv(o) /\ op[o].todo = {}
      /\ op[o].stage = "look" /\ op[o] \in OpType
  BY <1>1, <1>2, ReadyIs DEF Ready, HostOK
<1> DEFINE n == IF o = Backup THEN Idle ELSE [op[o] EXCEPT !.stage = "shown"]
<1>4. /\ n \in OpType /\ n.todo = {} /\ n.files = {} /\ n.file = NoTxn
      /\ n.stage = (IF o = Backup THEN "idle" ELSE "shown")
      /\ o = Backup => n = Idle
      /\ o # Backup => n.call = op[o].call /\ n.errors = op[o].errors
  <2>1. CASE o = Backup
    BY <2>1, IdleType
  <2>2. CASE o # Backup
    BY <1>3, <2>2, Shown
  <2> QED BY <2>1, <2>2
<1> HIDE DEF n
<1>5. op' \in [Op -> OpType] /\ op'[o] = n /\ \A p \in Op \ {o} : op'[p] = op[p]
  BY <1>1, <1>2, <1>4 DEF HostOK, n
<1>6. StageInv(o)'
  <2>1. CASE o = Backup
    BY <1>4, <1>5, <2>1, NoTxnIs, IdleType DEF StageInv
  <2>2. CASE o # Backup
    BY <1>2, <1>3, <1>4, <1>5, <2>2 DEF StageInv, PhaseAt
  <2> QED BY <2>1, <2>2
<1>7. RequestInv(o)'
  BY <1>4, <1>5 DEF RequestInv
<1>8. ProgressInv(o)'
  BY <1>4, <1>5 DEF ProgressInv
<1> QED BY <1>1, <1>2, <1>3, <1>5, <1>6, <1>7, <1>8, OwnStep

\* A transaction with a file is at all its targets or nowhere once no store
\* has its journal; then the file goes.
LEMMA FileGoes ==
    ASSUME Core, RestOK, NEW t \in Txn, HasFile(t), \A b \in targets[t] : ~HasJournal(disk[b], t),
           coord' = [coord EXCEPT ![t] = "removed"],
           UNCHANGED <<targets, disk, up, held, written, world>>,
           \A u \in Txn : targets[u] = {} => told'[u] = told[u]
    PROVE  DiskOK' /\ StoresFit' /\ Decided' /\ OneFile' /\ RestOK'
<1>1. HostOK /\ DiskOK /\ StoresFit /\ Decided /\ OneFile /\ t \in Op
  BY DEF Core, Op
<1>2. coord'[t] = "removed" /\ \A u \in Txn \ {t} : coord'[u] = coord[u]
  BY <1>1 DEF HostOK
<1>3. DiskOK' /\ RestOK'
  BY <1>1 DEF DiskOK, HasJournal, RestOK, world
<1>4. OneFile'
  BY <1>1, <1>2 DEF OneFile, HasFile
<1>5. \A b \in Backend : Fits(disk[b], t, coord[t], b, targets[t], written[b])
  BY <1>1 DEF StoresFit
<1>6. \A b \in Backend : ~HasJournal(disk[b], t) /\ ~InForce(disk[b], t)
  BY <1>5 DEF Fits, HasJournal, InForce
<1>7. ASSUME NEW b \in Backend
      PROVE  Fits(disk[b], t, "removed", b, targets[t], written[b])
  BY <1>5, <1>6 DEF Fits
<1>8. ASSUME NEW b \in Backend, NEW u \in Txn
      PROVE  /\ Fits(disk'[b], u, coord'[u], b, targets'[u], written'[b])
             /\ up'[b] => AtRest(disk'[b], u)
  BY <1>1, <1>2, <1>7 DEF StoresFit
<1>9. StoresFit'
  BY <1>8 DEF StoresFit
<1>10. \/ \A b \in targets[t] : t \in disk[b].data.done
       \/ \A b \in Backend : t \notin disk[b].data.done
  <2>1. targets[t] \subseteq Backend
    BY <1>1 DEF HostOK
  <2>2. CASE coord[t] = "committed"
    BY <1>5, <2>1, <2>2 DEF Fits
  <2>3. CASE coord[t] # "committed"
    BY <1>5, <1>6, <2>3 DEF Fits, HasFile
  <2> QED BY <2>2, <2>3
<1>11. targets[t] # {}
  BY <1>1 DEF Decided, HasFile
<1>12. Decided'
  BY <1>1, <1>2, <1>10, <1>11 DEF Decided
<1> QED BY <1>3, <1>4, <1>9, <1>12

LEMMA Unloaded ==
    ASSUME NEW s \in OpType, NEW F, F \subseteq Txn
    PROVE  LET n == [s EXCEPT !.files = F, !.file = NoTxn]
           IN /\ n \in OpType /\ n.stage = s.stage /\ n.call = s.call /\ n.todo = s.todo
              /\ n.files = F /\ n.file = NoTxn /\ n.errors = s.errors
BY DEF OpType

LEMMA SettleKeeps == ASSUME IInv, NEW o \in Op, Settle(o) PROVE IInv'
<1>1. Core /\ RestOK /\ HostOK /\ OpInv /\ OneCall
  BY Parts DEF Core
<1> DEFINE t == op[o].file
           F == op[o].files \ {t}
<1>2. /\ op[o].stage = "recover" /\ t # NoTxn /\ op[o].todo = {}
      /\ coord' = [coord EXCEPT ![t] = "removed"]
      /\ op' = [op EXCEPT ![o].files = @ \ {t}, ![o].file = NoTxn]
      /\ UNCHANGED <<told, targets, disk, up, held, written, world>>
  BY DEF Settle
<1>3. op[o] \in OpType /\ StageInv(o) /\ ProgressInv(o)
  BY <1>1, StageType DEF OpInv
<1>4. op[o].files = Files /\ t \in Files /\ t \in Txn /\ HasFile(t)
  BY <1>2, <1>3 DEF StageInv, Files
<1>5. \A b \in targets[t] : ~HasJournal(disk[b], t)
  BY <1>2, <1>3 DEF ProgressInv, Subject, Asked
<1>6. DiskOK' /\ StoresFit' /\ Decided' /\ OneFile' /\ RestOK'
  BY <1>1, <1>2, <1>4, <1>5, FileGoes
<1>7. coord'[t] = "removed" /\ (\A u \in Txn \ {t} : coord'[u] = coord[u]) /\ coord' \in [Txn -> Phases]
  BY <1>1, <1>2, <1>4 DEF HostOK, Phases
<1>8. Files' = F
  BY <1>4, <1>7 DEF Files, HasFile
<1> DEFINE n == [op[o] EXCEPT !.files = F, !.file = NoTxn]
<1>9. op' = [op EXCEPT ![o] = n]
  BY <1>1, <1>2 DEF HostOK
<1>10. F \subseteq Txn
  BY <1>4 DEF Files
<1> HIDE DEF F
<1>11. /\ n \in OpType /\ n.stage = op[o].stage /\ n.call = op[o].call /\ n.todo = op[o].todo
       /\ n.files = F /\ n.file = NoTxn /\ n.errors = op[o].errors
  <2> HIDE DEF n
  <2>1. \A s \in OpType : LET m == [s EXCEPT !.files = F, !.file = NoTxn]
           IN /\ m \in OpType /\ m.stage = s.stage /\ m.call = s.call /\ m.todo = s.todo
              /\ m.files = F /\ m.file = NoTxn /\ m.errors = s.errors
    BY <1>10, Unloaded
  <2> QED BY <1>3, <2>1 DEF n
<1> HIDE DEF n
<1>12. op' \in [Op -> OpType] /\ op'[o] = n /\ \A p \in Op \ {o} : op'[p] = op[p]
  BY <1>1, <1>9, <1>11 DEF HostOK
<1>13. coord[t] # "new" /\ (\A p \in Txn : coord'[p] = "new" <=> coord[p] = "new")
  BY <1>4, <1>7 DEF HasFile
<1>14. \A p \in Txn : op[p].stage = "shown" => coord'[p] = coord[p]
  <2>1. \A p \in Txn : op[p].stage = "shown" => coord[p] = "new"
    BY <1>1 DEF OpInv, StageInv, PhaseAt, Op
  <2> QED BY <1>7, <1>13, <2>1
<1>15. Alone(o) /\ Running(o)
  BY <1>1, <1>2, <1>7, <1>12, <1>14 DEF Alone, HostOK, Running
<1>16. StageInv(o)'
  <2>1. o \in Txn => coord[o] = "new" /\ targets[o] # {} /\ told[o] = "none"
    BY <1>2, <1>3 DEF StageInv, PhaseAt
  <2>2. o \in Txn => coord'[o] = "new" /\ targets'[o] # {} /\ told'[o] = "none"
    BY <1>2, <1>13, <2>1
  <2>3. /\ op'[o].stage = "recover" /\ op'[o].files = Files' /\ op'[o].file = NoTxn
        /\ op'[o].todo = {} /\ op'[o].errors = op[o].errors /\ op'[o].call = op[o].call
    BY <1>2, <1>8, <1>11, <1>12
  <2>4. ~op[o].errors /\ (o = Backup => op[o].call \in {"none", "backup"})
    BY <1>2, <1>3 DEF StageInv
  <2> QED BY <2>2, <2>3, <2>4 DEF StageInv, PhaseAt
<1>17. RequestInv(o)' /\ ProgressInv(o)'
  BY <1>2, <1>11, <1>12 DEF RequestInv, ProgressInv, Subject
<1>18. HostOK' /\ OneCall' /\ OpInv'
  BY <1>1, <1>15, <1>16, <1>17, OthersKeep
<1>19. Core'
  BY <1>6, <1>18 DEF Core
<1> QED BY <1>6, <1>19, PartsNext

\* A phase is written, and the requests that follow are to be sent.
LEMMA MarkKeeps ==
    ASSUME Core, RestOK, NEW o \in Txn, Running(o), Files \subseteq {o},
           NEW phase \in {"preparing", "committing", "committed"},
           NEW verb \in {"prepare", "commit", "finalize"}, phase \in PhaseAt[verb],
           Mark(o, phase, verb), op[o].files = {}, op[o].file = NoTxn, ~op[o].errors,
           \A b \in Backend : Fits(disk[b], o, phase, b, targets[o], written[b]),
           ProgressInv(o)'
    PROVE  IInv'
<1>1. /\ HostOK /\ DiskOK /\ StoresFit /\ Decided /\ OneCall /\ OpInv /\ o \in Op /\ o # Backup
  BY NoTxnIs DEF Core, Op
<1>2. /\ coord' = [coord EXCEPT ![o] = phase] /\ Enter(o, verb)
      /\ UNCHANGED <<told, targets, disk, up, held, written, world>>
  BY DEF Mark
<1>3. /\ coord'[o] = phase /\ coord' \in [Txn -> Phases]
      /\ \A u \in Txn \ {o} : coord'[u] = coord[u]
  BY <1>1, <1>2 DEF HostOK, Phases
<1>4. verb \in {"look", "prepare", "commit", "finalize"}
  OBVIOUS
<1>5. /\ op' \in [Op -> OpType] /\ \A p \in Op \ {o} : op'[p] = op[p]
      /\ op'[o].stage = verb /\ op'[o].files = {} /\ op'[o].file = NoTxn
      /\ op'[o].errors = op[o].errors /\ op'[o].call = op[o].call
      /\ \A r \in op'[o].todo : r.verb = verb /\ r.txn = o /\ r.at \in targets[o]
      /\ \A q, r \in op'[o].todo : q.at = r.at => q = r
  BY <1>1, <1>2, <1>4, Enters DEF Entered
<1>6. targets[o] # {} /\ told[o] = "none"
  <2>1. StageInv(o) /\ op[o].stage # "idle"
    BY <1>1 DEF OpInv, Running
  <2> QED BY <2>1 DEF StageInv
<1>7. Alone(o)
  BY <1>1, <1>2, <1>3, <1>5 DEF Alone, HostOK
<1>8. StageInv(o)'
  BY <1>1, <1>2, <1>3, <1>5, <1>6 DEF StageInv
<1>9. RequestInv(o)'
  <2>1. Subject(o)' = o /\ Verbs(o)' = {verb}
    BY <1>5 DEF Subject, Verbs
  <2>2. \A r \in op'[o].todo : r.verb # "rollback"
    BY <1>5
  <2> QED BY <1>2, <1>5, <2>1, <2>2 DEF RequestInv
<1>10. HostOK' /\ OneCall' /\ OpInv'
  BY <1>1, <1>7, <1>8, <1>9, OthersKeep
<1>11. DiskOK' /\ RestOK'
  BY <1>1, <1>2 DEF DiskOK, HasJournal, RestOK, world
<1>12. ASSUME NEW b \in Backend, NEW u \in Txn
       PROVE  /\ Fits(disk'[b], u, coord'[u], b, targets'[u], written'[b])
              /\ up'[b] => AtRest(disk'[b], u)
  <2>1. /\ Fits(disk[b], u, coord[u], b, targets[u], written[b])
        /\ up[b] => AtRest(disk[b], u)
    BY <1>1 DEF StoresFit
  <2>2. CASE u = o
    BY <1>2, <1>3, <2>1, <2>2
  <2>3. CASE u # o
    BY <1>2, <1>3, <2>1, <2>3
  <2> QED BY <2>2, <2>3
<1>13. StoresFit'
  BY <1>12 DEF StoresFit
<1>14. Decided'
  BY <1>1, <1>2, <1>3, <1>6 DEF Decided
<1>15. OneFile'
  BY <1>3 DEF OneFile, HasFile, Files
<1>16. Core'
  BY <1>10, <1>11, <1>13, <1>14, <1>15 DEF Core
<1> QED BY <1>11, <1>16, PartsNext

LEMMA OpenKeeps == ASSUME IInv, NEW o \in Op, Open(o) PROVE IInv'
<1>1. Core /\ RestOK /\ HostOK /\ OpInv /\ StoresFit
  BY Parts DEF Core
<1>2. /\ \/ op[o].call = "apply" /\ Ready(o, "recover")
         \/ op[o].call = "reset" /\ Ready(o, "look")
      /\ Mark(o, "preparing", "prepare")
  BY DEF Open
<1>3. /\ Running(o) /\ op[o].files = {} /\ op[o].file = NoTxn /\ StageInv(o) /\ Files = {}
      /\ op[o].stage \in {"recover", "look"}
  BY <1>1, <1>2, ReadyIs DEF Ready
<1>4. o \in Txn /\ coord[o] = "new" /\ ~op[o].errors
  BY <1>2, <1>3 DEF StageInv, PhaseAt, Op
<1>5. ASSUME NEW b \in Backend PROVE Fits(disk[b], o, "preparing", b, targets[o], written[b])
  <2>1. Fits(disk[b], o, "new", b, targets[o], written[b])
    BY <1>1, <1>4 DEF StoresFit
  <2>2. ~HasJournal(disk[b], o) /\ ~InForce(disk[b], o)
    BY <2>1 DEF Fits, HasJournal, InForce
  <2> QED BY <2>1, <2>2 DEF Fits
<1>6. /\ op'[o].stage = "prepare"
      /\ UNCHANGED <<targets, disk>>
  <2>1. Enter(o, "prepare") /\ UNCHANGED <<targets, disk>>
    BY <1>2 DEF Mark
  <2> QED BY <1>1, <2>1, Enters DEF Entered
<1>7. \A b \in Backend : ~HasJournal(disk[b], o)
  BY <1>1, <1>4 DEF StoresFit, Fits
<1>8. ProgressInv(o)'
  <2>1. targets[o] \subseteq Backend
    BY <1>1 DEF HostOK
  <2> QED BY <1>6, <1>7, <2>1 DEF ProgressInv, HasJournal
<1>9. "preparing" \in PhaseAt["prepare"]
  BY DEF PhaseAt
<1> QED BY <1>1, <1>2, <1>3, <1>4, <1>5, <1>8, <1>9, MarkKeeps

\* Only the running transaction has a file.
LEMMA OwnFile ==
    ASSUME Core, NEW o \in Op, op[o].stage \in {"prepare", "commit", "finalize", "undo"}
    PROVE  o \in Txn /\ HasFile(o) /\ Files \subseteq {o}
<1>1. StageInv(o) /\ OneFile
  BY DEF Core, OpInv
<1>2. o \in Txn
  BY <1>1 DEF StageInv, Op
<1>3. HasFile(o)
  BY <1>1, <1>2 DEF StageInv, PhaseAt, HasFile
<1> QED BY <1>1, <1>2, <1>3 DEF OneFile, Files

LEMMA MarkCommittingKeeps == ASSUME IInv, NEW o \in Op, MarkCommitting(o) PROVE IInv'
<1>1. Core /\ RestOK /\ HostOK /\ OpInv /\ StoresFit
  BY Parts DEF Core
<1>2. Ready(o, "prepare") /\ Mark(o, "committing", "commit")
  BY DEF MarkCommitting
<1>3. /\ Running(o) /\ op[o].files = {} /\ op[o].file = NoTxn /\ StageInv(o) /\ ProgressInv(o)
      /\ op[o].stage = "prepare"
  BY <1>1, <1>2, ReadyIs DEF Ready
<1>4. o \in Txn /\ Files \subseteq {o}
  BY <1>1, <1>3, OwnFile
<1>5. coord[o] = "preparing" /\ ~op[o].errors
  BY <1>3, <1>4 DEF StageInv, PhaseAt
<1>6. ASSUME NEW b \in Backend PROVE Fits(disk[b], o, "committing", b, targets[o], written[b])
  <2>1. Fits(disk[b], o, "preparing", b, targets[o], written[b])
    BY <1>1, <1>4, <1>5 DEF StoresFit
  <2> QED BY <2>1 DEF Fits
<1>7. /\ op'[o].stage = "commit" /\ op'[o].seen = op[o].seen
      /\ \A b \in targets[o] : Asked(o, "commit", b)'
      /\ UNCHANGED <<targets, disk>>
  <2>1. Enter(o, "commit") /\ UNCHANGED <<targets, disk>>
    BY <1>2 DEF Mark
  <2>2. "commit" \in {"look", "prepare", "commit", "finalize"}
    OBVIOUS
  <2> QED BY <1>1, <2>1, <2>2, Enters DEF Entered, Asked
<1>8. \A b \in targets[o] : HasJournal(disk[b], o) => disk[b].journal[o].before = op[o].seen[b]
  BY <1>3 DEF ProgressInv
<1>9. ProgressInv(o)'
  BY <1>7, <1>8 DEF ProgressInv, HasJournal
<1>10. "committing" \in PhaseAt["commit"]
  BY DEF PhaseAt
<1> QED BY <1>1, <1>2, <1>3, <1>4, <1>5, <1>6, <1>9, <1>10, MarkKeeps

LEMMA MarkCommittedKeeps == ASSUME IInv, NEW o \in Op, MarkCommitted(o) PROVE IInv'
<1>1. Core /\ RestOK /\ HostOK /\ OpInv /\ StoresFit
  BY Parts DEF Core
<1>2. Ready(o, "commit") /\ Mark(o, "committed", "finalize")
  BY DEF MarkCommitted
<1>3. /\ Running(o) /\ op[o].files = {} /\ op[o].file = NoTxn /\ StageInv(o) /\ ProgressInv(o)
      /\ op[o].stage = "commit" /\ \A v, b : ~Asked(o, v, b)
  BY <1>1, <1>2, ReadyIs DEF Ready
<1>4. o \in Txn /\ Files \subseteq {o}
  BY <1>1, <1>3, OwnFile
<1>5. coord[o] = "committing" /\ ~op[o].errors
  BY <1>3, <1>4 DEF StageInv, PhaseAt
<1>6. \A b \in targets[o] : disk[b].journal[o].state = "committed" /\ o \in disk[b].data.done
  BY <1>3 DEF ProgressInv
<1>7. ASSUME NEW b \in Backend PROVE Fits(disk[b], o, "committed", b, targets[o], written[b])
  <2>1. Fits(disk[b], o, "committing", b, targets[o], written[b])
    BY <1>1, <1>4, <1>5 DEF StoresFit
  <2> QED BY <1>6, <2>1 DEF Fits
<1>8. /\ op'[o].stage = "finalize"
      /\ \A b \in targets[o] : Asked(o, "finalize", b)'
      /\ UNCHANGED <<targets, disk>>
  <2>1. Enter(o, "finalize") /\ UNCHANGED <<targets, disk>>
    BY <1>2 DEF Mark
  <2>2. "finalize" \in {"look", "prepare", "commit", "finalize"}
    OBVIOUS
  <2> QED BY <1>1, <2>1, <2>2, Enters DEF Entered, Asked
<1>9. ProgressInv(o)'
  BY <1>8 DEF ProgressInv, Subject
<1>10. "committed" \in PhaseAt["finalize"]
  BY DEF PhaseAt
<1> QED BY <1>1, <1>2, <1>3, <1>4, <1>5, <1>7, <1>9, <1>10, MarkKeeps

LEMMA CloseKeeps == ASSUME IInv, NEW o \in Op, Close(o) PROVE IInv'
<1>1. Core /\ RestOK /\ HostOK /\ OpInv /\ OneCall
  BY Parts DEF Core
<1> DEFINE how == CASE op[o].stage = "finalize" -> "applied"
                    [] op[o].errors             -> "stuck"
                    [] OTHER                    -> "refused"
<1>2. /\ Ready(o, "finalize") \/ Ready(o, "undo")
      /\ coord' = IF op[o].errors THEN coord ELSE [coord EXCEPT ![o] = "removed"]
      /\ Ends(o, how)
      /\ UNCHANGED <<targets, disk, up, held, written, world>>
  BY DEF Close
<1>3. /\ Running(o) /\ StageInv(o) /\ ProgressInv(o)
      /\ op[o].stage \in {"finalize", "undo"} /\ \A v, b : ~Asked(o, v, b)
  BY <1>1, <1>2, ReadyIs DEF Ready
<1>4. o \in Txn /\ HasFile(o)
  BY <1>1, <1>3, OwnFile
<1>5. how \in {"none", "applied", "refused", "unclean", "stuck", "lost"}
  OBVIOUS
<1> HIDE DEF how
<1>6. coord' \in [Txn -> Phases] /\ \A p \in Txn \ {o} : coord'[p] = coord[p]
  BY <1>1, <1>2, <1>4 DEF HostOK, Phases
<1>7. HostOK' /\ OneCall' /\ OpInv'
  BY <1>1, <1>2, <1>3, <1>5, <1>6, EndsKeeps
<1>8. \A u \in Txn : targets[u] = {} => told'[u] = told[u]
  BY <1>1, <1>2, <1>3, <1>4 DEF Ends, StageInv, HostOK
<1>9. CASE op[o].errors
  <2>1. UNCHANGED coord
    BY <1>2, <1>9
  <2> QED BY <1>1, <1>2, <1>7, <1>8, <2>1, HostStep
<1>10. CASE ~op[o].errors
  <2>1. coord' = [coord EXCEPT ![o] = "removed"]
    BY <1>2, <1>10
  <2>2. Subject(o) = o
    BY <1>3 DEF Subject
  <2>3. \A b \in targets[o] : ~HasJournal(disk[b], o)
    BY <1>3, <1>10, <2>2 DEF ProgressInv
  <2>4. DiskOK' /\ StoresFit' /\ Decided' /\ OneFile' /\ RestOK'
    BY <1>1, <1>2, <1>4, <1>8, <2>1, <2>3, FileGoes
  <2>5. Core'
    BY <1>7, <2>4 DEF Core
  <2> QED BY <2>4, <2>5, PartsNext
<1> QED BY <1>9, <1>10

-----------------------------------------------------------------------------
(* The invariant *)

LEMMA InitIInv == Init => IInv
<1> SUFFICES ASSUME Init PROVE IInv
  OBVIOUS
<1>1. /\ op = [o \in Op |-> Idle] /\ told = [t \in Txn |-> "none"]
      /\ targets = [o \in Op |-> {}] /\ coord = [t \in Txn |-> "new"]
      /\ disk = [b \in Backend |-> [data |-> Empty, active |-> NoTxn,
                                    journal |-> [t \in Txn |-> NoJournal]]]
      /\ up = [b \in Backend |-> FALSE] /\ held = up /\ written = [b \in Backend |-> 0]
      /\ crashes = 0 /\ faults = 0 /\ visits = 0
  BY DEF Init
<1>2. 0 \in 0 .. MaxWrites /\ 0 \in 0 .. MaxCrashes /\ 0 \in 0 .. MaxFaults /\ 0 \in 0 .. MaxVisits
  BY TransferAssumption
<1>3. /\ Empty \in DataType /\ Empty.done = {} /\ Empty.part = NoTxn /\ Empty.writes = 0
  BY <1>2 DEF Empty, DataType
<1>4. HostOK /\ RestOK
  BY <1>1, <1>2, IdleType DEF HostOK, RestOK, Phases
<1>5. ASSUME NEW b \in Backend
      PROVE  /\ disk[b] \in StoreType /\ disk[b].data = Empty /\ disk[b].active = NoTxn
             /\ \A t \in Txn : disk[b].journal[t].state = "none"
  BY <1>1, <1>3, NoJournalType DEF StoreType
<1>6. DiskOK
  <2>1. disk \in [Backend -> StoreType]
    BY <1>1, <1>5
  <2> QED BY <1>1, <1>3, <1>5, <2>1, NoTxnIs DEF DiskOK
<1>7. StoresFit
  BY <1>1, <1>3, <1>5, NoTxnIs DEF StoresFit, Fits, AtRest, HasJournal, InForce
<1>8. Decided /\ OneFile
  BY <1>1 DEF Decided, OneFile, HasFile, Op
<1>9. OneCall
  BY <1>1, IdleType DEF OneCall, Running
<1>10. OpInv
  BY <1>1, IdleType DEF OpInv, StageInv, RequestInv, ProgressInv, PhaseAt
<1> QED BY <1>4, <1>6, <1>7, <1>8, <1>9, <1>10, Parts DEF Core

LEMMA NextIInv ==
    ASSUME MaxTogether = 1, Amid = FALSE
    PROVE  IInv /\ [Next]_vars => IInv'
<1> SUFFICES ASSUME IInv, [Next]_vars PROVE IInv'
  OBVIOUS
<1>1. ASSUME NEW o \in Op, Begin(o) PROVE IInv'
  BY <1>1, BeginKeeps
<1>2. ASSUME NEW o \in Op, Confirm(o) PROVE IInv'
  BY <1>2, ConfirmKeeps
<1>3. ASSUME NEW o \in Op, Work(o) PROVE IInv'
  <2>1. CASE Scan(o)
    BY <2>1, ScanKeeps
  <2>2. CASE Load(o)
    BY <2>2, LoadKeeps
  <2>3. CASE Settle(o)
    BY <2>3, SettleKeeps
  <2>4. CASE Look(o)
    BY <2>4, LookKeeps
  <2>5. CASE Show(o)
    BY <2>5, ShowKeeps
  <2>6. CASE Open(o)
    BY <2>6, OpenKeeps
  <2>7. CASE MarkCommitting(o)
    BY <2>7, MarkCommittingKeeps
  <2>8. CASE MarkCommitted(o)
    BY <2>8, MarkCommittedKeeps
  <2>9. CASE Close(o)
    BY <2>9, CloseKeeps
  <2>10. CASE Serve(o)
    BY <2>10, ServeKeeps
  <2>11. CASE DeadLease(o)
    BY <2>11, DeadLeaseKeeps
  <2> QED BY <1>3, <2>1, <2>2, <2>3, <2>4, <2>5, <2>6, <2>7, <2>8, <2>9, <2>10, <2>11 DEF Work
<1>4. ASSUME NEW o \in Op, Lose(o) PROVE IInv'
  BY <1>4, LoseKeeps
<1>5. ASSUME NEW b \in Backend, Start(b) PROVE IInv'
  BY <1>5, StartKeeps
<1>6. ASSUME NEW b \in Backend, Visit(b) PROVE IInv'
  BY <1>6, VisitKeeps
<1>7. ASSUME NEW b \in Backend, Leave(b) PROVE IInv'
  BY <1>7, LeaveKeeps
<1>8. ASSUME NEW b \in Backend, Write(b) PROVE IInv'
  BY <1>8, WriteKeeps
<1>9. ASSUME NEW b \in Backend, CrashBackend(b) PROVE IInv'
  BY <1>9, CrashBackendKeeps
<1>10. CASE CrashHost
  BY <1>10, CrashHostKeeps
<1>11. CASE UNCHANGED vars
  <2>1. Core /\ RestOK
    BY Parts
  <2>2. Core'
    BY <1>11, <2>1, OnlyLeases DEF vars, host
  <2>3. RestOK'
    BY <1>11, <2>1 DEF RestOK, vars, world
  <2> QED BY <2>2, <2>3, PartsNext
<1> QED BY <1>1, <1>2, <1>3, <1>4, <1>5, <1>6, <1>7, <1>8, <1>9, <1>10, <1>11 DEF Next

THEOREM Invariant ==
    ASSUME MaxTogether = 1, Amid = FALSE
    PROVE  Spec => []IInv
<1>1. Init => IInv
  BY InitIInv
<1>2. IInv /\ [Next]_vars => IInv'
  BY NextIInv
<1> QED BY <1>1, <1>2, PTL DEF Spec

\* The type invariant: no store is reserved without a journal, and rolling
\* back and recovering neither loses nor repeats a change of the user's.
THEOREM TypeCorrect ==
    ASSUME MaxTogether = 1, Amid = FALSE
    PROVE  Spec => []TypeOK
<1>1. IInv => TypeOK
  BY DEF IInv
<1> QED BY <1>1, Invariant, PTL

\* Once its coordinator file is gone, a transaction is applied at all of its
\* backends or at none, whole, and nothing of it is left at any of them.
THEOREM AllOrNothingHolds ==
    ASSUME MaxTogether = 1, Amid = FALSE
    PROVE  Spec => []AllOrNothing
<1>1. IInv => AllOrNothing
  <2> SUFFICES ASSUME IInv, NEW t \in Txn, coord[t] = "removed"
               PROVE  /\ AppliedAt(t) \in {{}, targets[t]}
                      /\ \A b \in Backend : /\ disk[b].active # t /\ disk[b].data.part # t
                                            /\ ~HasJournal(disk[b], t)
    BY DEF AllOrNothing
  <2>1. StoresFit /\ Decided /\ HostOK
    BY Parts DEF Core
  <2>2. ASSUME NEW b \in Backend
        PROVE  /\ disk[b].active # t /\ disk[b].data.part # t /\ ~HasJournal(disk[b], t)
               /\ t \in disk[b].data.done => b \in targets[t]
    BY <2>1 DEF StoresFit, Fits, HasJournal, InForce
  <2>3. targets[t] \subseteq Backend
    BY <2>1 DEF HostOK, Op
  <2>4. AppliedAt(t) \in {{}, targets[t]}
    BY <2>1, <2>2, <2>3 DEF Decided, AppliedAt
  <2> QED BY <2>2, <2>4
<1> QED BY <1>1, Invariant, PTL

-----------------------------------------------------------------------------
(* What is applied is what was seen *)

\* Store x has no transaction more than backend b's, but one that found the
\* data its operation has seen.
OnSeen(x, b) == \A u \in Txn : u \in x.data.done \ disk[b].data.done => disk[b].data = op[u].seen[b]

LEMMA ServedOnSeen ==
    ASSUME Core, RestOK, NEW o \in Op, NEW r \in op[o].todo, Due(o, r), up[r.at],
           Accepts(r.at, disk[r.at], r.verb, r.txn, op[o].seen[r.at])
    PROVE  LET w == Served(disk[r.at], r.verb, r.txn)
           IN \A x \in w.through \cup {w.end} : OnSeen(x, r.at)
<1> DEFINE w == Served(disk[r.at], r.verb, r.txn)
<1>1. HostOK /\ DiskOK /\ StoresFit /\ OneFile /\ OpInv
  BY DEF Core
<1>2. r.verb \in {"look", "prepare", "commit", "rollback", "finalize"}
  BY <1>1, VerbsAre
<1>3. CASE r.verb = "look"
  BY <1>3 DEF Served, Way, OnSeen
<1>4. CASE r.verb = "prepare"
  <2>1. \A x \in w.through \cup {w.end} : x.data = disk[r.at].data
    BY <1>1, <1>4, PreparesInTurn
  <2> QED BY <2>1 DEF OnSeen
<1>5. CASE r.verb = "commit"
  <2>1. op[o].stage = "commit" /\ r.txn = o
    BY <1>1, <1>5, VerbsAre, RequestOf DEF Subject
  <2>2. /\ \A x \in w.through \cup {w.end} : Moves(x, r.at, r.txn)
        /\ r.txn \notin disk[r.at].data.done => disk[r.at].data = op[o].seen[r.at]
    BY <1>1, <1>5, CommitsInTurn
  <2> QED BY <2>1, <2>2 DEF OnSeen, Moves, Same
<1>6. CASE r.verb \in {"rollback", "finalize"}
  <2>1. \A x \in w.through \cup {w.end} : Moves(x, r.at, r.txn) /\ Less(disk[r.at], x, r.txn)
    BY <1>1, <1>6, UndoneInTurn
  <2> QED BY <2>1 DEF OnSeen, Moves, Same, Less
<1> QED BY <1>2, <1>3, <1>4, <1>5, <1>6

LEMMA RecoveredOnSeen ==
    ASSUME Core, RestOK, NEW b \in Backend, NEW t \in Txn, IsNext(disk[b], t)
    PROVE  \A x \in Recovery(disk[b], t).through \cup {Recovery(disk[b], t).end} : OnSeen(x, b)
<1>1. \A x \in Recovery(disk[b], t).through \cup {Recovery(disk[b], t).end} :
         Moves(x, b, t) /\ Less(disk[b], x, t)
  BY RecoveredStore
<1> QED BY <1>1 DEF OnSeen, Moves, Same, Less

\* The step AppliedOnSeen speaks of.
AppliesOnSeen ==
    \A b \in Backend, t \in Txn :
       t \in disk'[b].data.done \ disk[b].data.done => disk[b].data = op[t].seen[b]

LEMMA OneOnSeen ==
    ASSUME Core, NEW b \in Backend, NEW STATE x, OnSeen(x, b), disk' = [disk EXCEPT ![b] = x]
    PROVE  AppliesOnSeen
<1>1. disk'[b] = x /\ \A c \in Backend \ {b} : disk'[c] = disk[c]
  BY DEF Core, DiskOK
<1> QED BY <1>1 DEF AppliesOnSeen, OnSeen

LEMMA StepOnSeen == IInv /\ [Next]_vars => AppliesOnSeen
<1> SUFFICES ASSUME IInv, [Next]_vars PROVE AppliesOnSeen
  OBVIOUS
<1>1. Core /\ RestOK
  BY Parts
<1>2. CASE UNCHANGED disk
  BY <1>2 DEF AppliesOnSeen
<1>3. ASSUME NEW o \in Op, NEW r \in op[o].todo, Due(o, r), up[r.at],
             Accepts(r.at, disk[r.at], r.verb, r.txn, op[o].seen[r.at]),
             disk' = [disk EXCEPT ![r.at] = Served(@, r.verb, r.txn).end]
      PROVE  AppliesOnSeen
  <2> DEFINE x == Served(disk[r.at], r.verb, r.txn).end
  <2>1. r.at \in Backend
    BY <1>1, RequestOf DEF Core
  <2>2. OnSeen(x, r.at)
    BY <1>1, <1>3, ServedOnSeen
  <2>3. disk' = [disk EXCEPT ![r.at] = x]
    BY <1>3
  <2> HIDE DEF x
  <2> QED BY <1>1, <2>1, <2>2, <2>3, OneOnSeen
<1>4. ASSUME NEW b \in Backend, Start(b) PROVE AppliesOnSeen
  <2>1. ASSUME NEW t \in Txn, IsNext(disk[b], t), disk' = [disk EXCEPT ![b] = Recovery(@, t).end]
        PROVE  AppliesOnSeen
    <3> DEFINE x == Recovery(disk[b], t).end
    <3>1. OnSeen(x, b)
      BY <1>1, <2>1, RecoveredOnSeen
    <3>2. disk' = [disk EXCEPT ![b] = x]
      BY <2>1
    <3> HIDE DEF x
    <3> QED BY <1>1, <3>1, <3>2, OneOnSeen
  <2> QED BY <1>2, <1>4, <2>1 DEF Start
<1>5. ASSUME NEW b \in Backend, Write(b) PROVE AppliesOnSeen
  <2>1. disk' = [disk EXCEPT ![b].data.writes = @ + 1] /\ disk \in [Backend -> StoreType]
    BY <1>1, <1>5 DEF Write, Core, DiskOK
  <2>2. disk[b] \in StoreType /\ disk[b].data \in DataType
    BY <2>1, PartsOf
  <2>3. disk'[b].data.done = disk[b].data.done /\ \A c \in Backend \ {b} : disk'[c] = disk[c]
    BY <2>1, <2>2 DEF StoreType, DataType
  <2> QED BY <2>3 DEF AppliesOnSeen
<1>6. ASSUME NEW b \in Backend, CrashBackend(b) PROVE AppliesOnSeen
  <2>1. ASSUME NEW o \in Op, NEW r \in op[o].todo, Due(o, r), r.at = b,
               NEW x \in Halfway(b, o, r), disk' = [disk EXCEPT ![b] = x]
        PROVE  AppliesOnSeen
    <3> DEFINE d == disk[b]
               w == Served(d, r.verb, r.txn)
    <3>1. \/ x = d
          \/ \E t \in Txn : /\ IsNext(d, t)
                            /\ x \in Recovery(d, t).through \cup {Recovery(d, t).end}
          \/ /\ up[b] /\ Accepts(b, d, r.verb, r.txn, op[o].seen[b])
             /\ x \in w.through \cup {w.end}
      BY <2>1 DEF Halfway
    <3>2. x = d => OnSeen(x, b)
      BY DEF OnSeen
    <3>3. ASSUME NEW t \in Txn, IsNext(d, t), x \in Recovery(d, t).through \cup {Recovery(d, t).end}
          PROVE  OnSeen(x, b)
      BY <1>1, <3>3, RecoveredOnSeen
    <3>4. ASSUME up[b], Accepts(b, d, r.verb, r.txn, op[o].seen[b]), x \in w.through \cup {w.end}
          PROVE  OnSeen(x, b)
      BY <1>1, <2>1, <3>4, ServedOnSeen
    <3>5. OnSeen(x, b)
      BY <3>1, <3>2, <3>3, <3>4
    <3> QED BY <1>1, <2>1, <3>5, OneOnSeen
  <2> QED BY <1>2, <1>6, <2>1 DEF CrashBackend
<1>7. ASSUME NEW o \in Op, Serve(o) PROVE AppliesOnSeen
  BY <1>2, <1>3, <1>7 DEF Serve
<1>8. ASSUME NEW o \in Op, Lose(o) PROVE AppliesOnSeen
  BY <1>2, <1>3, <1>8 DEF Lose
<1>9. ASSUME NEW o \in Op, Begin(o) \/ Confirm(o) PROVE UNCHANGED disk
  BY <1>9 DEF Begin, Confirm
<1>10. ASSUME NEW o \in Op, Work(o), ~Serve(o) PROVE UNCHANGED disk
  BY <1>10 DEF Work, Scan, Load, Settle, Look, Show, Open, MarkCommitting, MarkCommitted, Mark,
               Close, DeadLease
<1>11. ASSUME NEW b \in Backend, Visit(b) \/ Leave(b) PROVE UNCHANGED disk
  BY <1>11 DEF Visit, Leave
<1>12. CrashHost \/ UNCHANGED vars => UNCHANGED disk
  BY DEF CrashHost, vars
<1>13. CASE Next
  <2>1. CASE \E o \in Op : Begin(o) \/ Confirm(o) \/ Work(o) \/ Lose(o)
    BY <1>2, <1>7, <1>8, <1>9, <1>10, <2>1
  <2>2. CASE \E b \in Backend : Start(b) \/ Visit(b) \/ Leave(b) \/ Write(b) \/ CrashBackend(b)
    BY <1>2, <1>4, <1>5, <1>6, <1>11, <2>2
  <2>3. CASE CrashHost
    BY <1>2, <1>12, <2>3
  <2> QED BY <1>13, <2>1, <2>2, <2>3 DEF Next
<1> QED BY <1>2, <1>12, <1>13

\* An import is applied to the very data the user was shown, whatever other
\* requests, restarts and changes come in between.
THEOREM AppliedOnSeenHolds ==
    ASSUME MaxTogether = 1, Amid = FALSE
    PROVE  Spec => AppliedOnSeen
<1>1. IInv /\ [Next]_vars => [AppliesOnSeen]_vars
  BY StepOnSeen
<1>2. IInv /\ [Next]_vars => [\A b \in Backend, t \in Txn :
          t \in disk'[b].data.done \ disk[b].data.done => disk[b].data = op[t].seen[b]]_vars
  BY <1>1 DEF AppliesOnSeen
<1> QED BY <1>2, Invariant, PTL DEF Spec, AppliedOnSeen

-----------------------------------------------------------------------------
(* The transaction implements an atomic one *)

\* What a transaction has come to, by its phase.
OutcomeOf(t, phase, answer, at, bs) ==
    IF \/ phase = "committed"
       \/ phase = "removed" /\ at = bs THEN "applied"
    ELSE IF \/ phase = "new" /\ answer # "none"
            \/ phase = "removed" /\ at = {} THEN "dropped"
    ELSE IF phase # "removed" THEN "pending" ELSE "torn"

LEMMA OutcomeByPhase ==
    ASSUME NEW t, NEW phase \in Phases, NEW answer, NEW at, NEW bs
    PROVE  LET o == OutcomeOf(t, phase, answer, at, bs)
           IN /\ phase = "committed" => o = "applied"
              /\ phase = "new" /\ answer # "none" => o = "dropped"
              /\ phase = "new" /\ answer = "none" => o = "pending"
              /\ phase \in {"preparing", "committing"} => o = "pending"
              /\ phase = "removed" /\ at = bs => o = "applied"
              /\ phase = "removed" /\ at # bs /\ at = {} => o = "dropped"
BY DEF OutcomeOf

LEMMA OutcomeIs ==
    ASSUME NEW t \in Txn
    PROVE  /\ Outcome[t] = OutcomeOf(t, coord[t], told[t], AppliedAt(t), targets[t])
           /\ Outcome'[t] = OutcomeOf(t, coord'[t], told'[t], AppliedAt(t)', targets'[t])
<1>1. Outcome[t] = OutcomeOf(t, coord[t], told[t], AppliedAt(t), targets[t])
  BY DEF Outcome, OutcomeOf
<1>2. Outcome'[t] = OutcomeOf(t, coord'[t], told'[t], AppliedAt(t)', targets'[t])
  BY DEF Outcome, OutcomeOf
<1> QED BY <1>1, <1>2

\* Nothing is decided or answered for t.
Stands(t) == Outcome'[t] = Outcome[t] /\ told'[t] = told[t]

\* For t, something is decided, or answered, or both.
Goes(t) ==
    /\ \/ Outcome'[t] = Outcome[t]
       \/ Outcome[t] = "pending" /\ Outcome'[t] \in {"applied", "dropped"}
    /\ \/ told'[t] = told[t]
       \/ told[t] = "none" /\ told'[t] \in Promise!Honest(Outcome'[t]) \cup {"lost"}

LEMMA AtomicStep ==
    ASSUME HostOK, HostOK', NEW t \in Txn, Goes(t), \A u \in Txn \ {t} : Stands(u)
    PROVE  [Promise!Next]_<<Outcome, told>>
<1>1. /\ told = [u \in Txn |-> told[u]] /\ told' = [u \in Txn |-> told'[u]]
      /\ Outcome = [u \in Txn |-> Outcome[u]] /\ Outcome' = [u \in Txn |-> Outcome'[u]]
  BY DEF HostOK, Outcome
<1>2. Outcome' = [Outcome EXCEPT ![t] = Outcome'[t]] /\ told' = [told EXCEPT ![t] = told'[t]]
  BY <1>1 DEF Stands
<1>3. Outcome'[t] = Outcome[t] => Outcome' = Outcome
  BY <1>1, <1>2 DEF Stands
<1>4. told'[t] = told[t] => told' = told
  BY <1>1, <1>2 DEF Stands
<1>5. Outcome'[t] = Outcome[t] \/ Promise!Decide(t)
  BY <1>2 DEF Goes, Promise!Decide
<1>6. told'[t] = told[t] \/ Promise!Answer(t)
  BY <1>2 DEF Goes, Promise!Answer
<1> QED BY <1>3, <1>4, <1>5, <1>6 DEF Promise!Next

LEMMA AtomicStutter ==
    ASSUME HostOK, HostOK', \A u \in Txn : Stands(u)
    PROVE  [Promise!Next]_<<Outcome, told>>
<1>1. /\ told = [u \in Txn |-> told[u]] /\ told' = [u \in Txn |-> told'[u]]
      /\ Outcome = [u \in Txn |-> Outcome[u]] /\ Outcome' = [u \in Txn |-> Outcome'[u]]
  BY DEF HostOK, Outcome
<1> QED BY <1>1 DEF Stands

\* A transaction whose file and answer are as before stands, if only
\* others' steps have touched the stores.
LEMMA StandsIf ==
    ASSUME NEW t \in Txn, coord[t] \in Phases, coord'[t] = coord[t], told'[t] = told[t],
           coord[t] # "new" => targets'[t] = targets[t],
           coord[t] = "removed" =>
             \A b \in Backend : (t \in disk'[b].data.done) = (t \in disk[b].data.done)
    PROVE  Stands(t)
<1>1. coord[t] = "removed" => AppliedAt(t)' = AppliedAt(t)
  BY DEF AppliedAt
<1>2. coord[t] # "new" => Outcome'[t] = Outcome[t]
  BY <1>1, OutcomeIs, OutcomeByPhase DEF Phases
<1>3. coord[t] = "new" => Outcome'[t] = Outcome[t]
  BY OutcomeIs, OutcomeByPhase
<1> QED BY <1>2, <1>3 DEF Stands

\* What a step at the stores leaves as it was: the files, and what has
\* become of the transactions without one.
Kept == /\ UNCHANGED <<targets, coord>>
        /\ \A t \in Txn : coord[t] = "removed" =>
             \A b \in Backend : (t \in disk'[b].data.done) = (t \in disk[b].data.done)

LEMMA KeptStands ==
    ASSUME HostOK, Kept, NEW t \in Txn, told'[t] = told[t]
    PROVE  Stands(t)
BY StandsIf DEF Kept, HostOK

\* The answer to an operation that ends with "refused" or "unclean".
LEMMA FailsGoes ==
    ASSUME Core, HostOK', NEW o \in Op, NEW r \in op[o].todo, Fails(o, r), Kept
    PROVE  [Promise!Next]_<<Outcome, told>>
<1>1. /\ HostOK /\ StageInv(o) /\ op[o].stage \in {"recover", "look", "prepare", "commit", "finalize", "undo"}
  BY RequestOf DEF Core, OpInv
<1>2. CASE UNCHANGED told
  BY <1>1, <1>2, KeptStands, AtomicStutter
<1>3. ASSUME NEW how \in {"refused", "unclean"}, Ends(o, how), o \in Txn,
             \/ Outcome'[o] = "applied" /\ Outcome[o] = "applied" /\ how = "unclean"
             \/ Outcome'[o] = "dropped" /\ Outcome[o] = "pending" /\ how = "refused"
      PROVE  [Promise!Next]_<<Outcome, told>>
  <2>1. o # Backup /\ told' = [told EXCEPT ![o] = how]
    BY <1>3, NoTxnIs DEF Ends
  <2>2. told'[o] = how /\ \A u \in Txn \ {o} : told'[u] = told[u]
    BY <1>1, <1>3, <2>1 DEF HostOK
  <2>3. told[o] = "none"
    BY <1>1, <1>3 DEF StageInv
  <2>4. Goes(o)
    BY <1>3, <2>2, <2>3 DEF Goes, Promise!Honest
  <2>5. \A u \in Txn \ {o} : Stands(u)
    BY <1>1, <2>2, KeptStands
  <2> QED BY <1>1, <1>3, <2>4, <2>5, AtomicStep
<1>4. CASE op[o].stage = "finalize"
  <2>1. o \in Txn /\ coord[o] = "committed" /\ coord' = coord /\ Ends(o, "unclean")
    BY <1>1, <1>4 DEF StageInv, PhaseAt, Op, Fails, Kept
  <2>2. Outcome[o] = "applied" /\ Outcome'[o] = "applied"
    BY <2>1, OutcomeIs, OutcomeByPhase DEF Phases
  <2> QED BY <1>3, <2>1, <2>2
<1>5. CASE op[o].stage \in {"recover", "look"}
  <2>1. Ends(o, "refused")
    BY <1>5 DEF Fails
  <2>2. CASE o = Backup
    BY <1>2, <2>1, <2>2 DEF Ends
  <2>3. CASE o # Backup
    <3>1. o \in Txn /\ coord[o] = "new" /\ told[o] = "none" /\ coord' = coord
      BY <1>1, <1>5, <2>3 DEF StageInv, PhaseAt, Op, Kept
    <3>2. told'[o] = "refused"
      BY <1>1, <2>1, <2>3, <3>1 DEF Ends, HostOK
    <3>3. Outcome[o] = "pending" /\ Outcome'[o] = "dropped"
      BY <3>1, <3>2, OutcomeIs, OutcomeByPhase DEF Phases
    <3> QED BY <1>3, <2>1, <3>1, <3>3
  <2> QED BY <2>2, <2>3
<1>6. CASE op[o].stage \in {"prepare", "commit", "undo"}
  BY <1>2, <1>6 DEF Fails
<1> QED BY <1>1, <1>4, <1>5, <1>6

\* Store x has the same transactions without a file as backend b's has.
Settled(x, b) == \A u \in Txn : coord[u] = "removed" =>
                    (u \in x.data.done) = (u \in disk[b].data.done)

LEMMA MovesSettled ==
    ASSUME NEW STATE b, NEW STATE t, HasFile(t), NEW STATE x, Moves(x, b, t)
    PROVE  Settled(x, b)
BY DEF Moves, Same, Settled, HasFile

LEMMA ServedSettled ==
    ASSUME Core, RestOK, NEW o \in Op, NEW r \in op[o].todo, Due(o, r), up[r.at],
           Accepts(r.at, disk[r.at], r.verb, r.txn, op[o].seen[r.at])
    PROVE  LET w == Served(disk[r.at], r.verb, r.txn)
           IN \A x \in w.through \cup {w.end} : Settled(x, r.at)
<1> DEFINE w == Served(disk[r.at], r.verb, r.txn)
<1>1. HostOK /\ DiskOK /\ StoresFit /\ OneFile /\ OpInv
  BY DEF Core
<1>2. CASE op[o].stage = "look"
  <2>1. r.verb = "look"
    BY <1>1, <1>2, VerbsAre
  <2> QED BY <2>1 DEF Served, Way, Settled
<1>3. CASE op[o].stage # "look"
  <2>1. HasFile(r.txn)
    BY <1>1, <1>3, RequestOf
  <2>2. \A x \in w.through \cup {w.end} : Moves(x, r.at, r.txn)
    BY <1>1, <1>3, ServedMoves
  <2> QED BY <2>1, <2>2 DEF Moves, Same, Settled, HasFile
<1> QED BY <1>2, <1>3

LEMMA RecoveredSettled ==
    ASSUME Core, RestOK, NEW b \in Backend, NEW t \in Txn, IsNext(disk[b], t)
    PROVE  \A x \in Recovery(disk[b], t).through \cup {Recovery(disk[b], t).end} : Settled(x, b)
<1>1. /\ HasFile(t)
      /\ \A x \in Recovery(disk[b], t).through \cup {Recovery(disk[b], t).end} : Moves(x, b, t)
  BY RecoveredStore
<1> QED BY <1>1 DEF Moves, Same, Settled, HasFile

LEMMA OneKept ==
    ASSUME Core, NEW b \in Backend, NEW STATE x, Settled(x, b), disk' = [disk EXCEPT ![b] = x],
           UNCHANGED <<targets, coord>>
    PROVE  Kept
<1>1. disk'[b] = x /\ \A c \in Backend \ {b} : disk'[c] = disk[c]
  BY DEF Core, DiskOK
<1> QED BY <1>1 DEF Kept, Settled

LEMMA RequestKept ==
    ASSUME Core, RestOK, NEW o \in Op, NEW r \in op[o].todo, Due(o, r), up[r.at],
           Accepts(r.at, disk[r.at], r.verb, r.txn, op[o].seen[r.at]),
           disk' = [disk EXCEPT ![r.at] = Served(@, r.verb, r.txn).end],
           UNCHANGED <<targets, coord>>
    PROVE  Kept
<1> DEFINE x == Served(disk[r.at], r.verb, r.txn).end
<1>1. r.at \in Backend
  BY RequestOf DEF Core
<1>2. Settled(x, r.at)
  BY ServedSettled
<1>3. disk' = [disk EXCEPT ![r.at] = x]
  OBVIOUS
<1> HIDE DEF x
<1> QED BY <1>1, <1>2, <1>3, OneKept

LEMMA RestKept == UNCHANGED <<disk, targets, coord>> => Kept
BY DEF Kept

LEMMA HalfwayKept ==
    ASSUME Core, RestOK, NEW o \in Op, NEW r \in op[o].todo, Due(o, r),
           NEW x \in Halfway(r.at, o, r), disk' = [disk EXCEPT ![r.at] = x],
           UNCHANGED <<targets, coord>>
    PROVE  Kept
<1> DEFINE b == r.at
           d == disk[b]
           w == Served(d, r.verb, r.txn)
<1>1. b \in Backend
  BY RequestOf DEF Core
<1>2. \/ x = d
      \/ \E t \in Txn : /\ IsNext(d, t)
                        /\ x \in Recovery(d, t).through \cup {Recovery(d, t).end}
      \/ /\ up[b] /\ Accepts(b, d, r.verb, r.txn, op[o].seen[b])
         /\ x \in w.through \cup {w.end}
  BY DEF Halfway
<1>3. x = d => Settled(x, b)
  BY DEF Settled
<1>4. ASSUME NEW t \in Txn, IsNext(d, t), x \in Recovery(d, t).through \cup {Recovery(d, t).end}
      PROVE  Settled(x, b)
  BY <1>1, <1>4, RecoveredSettled
<1>5. ASSUME up[b], Accepts(b, d, r.verb, r.txn, op[o].seen[b]), x \in w.through \cup {w.end}
      PROVE  Settled(x, b)
  BY <1>5, ServedSettled
<1>6. Settled(x, b)
  BY <1>2, <1>3, <1>4, <1>5
<1> QED BY <1>1, <1>6, OneKept

\* Requests, and what the backends do by themselves, as steps of the promise.
AtomicOrSame == [Promise!Next]_<<Outcome, told>>

LEMMA KeptAtomic ==
    ASSUME HostOK, HostOK', Kept, UNCHANGED told
    PROVE  AtomicOrSame
<1>1. \A u \in Txn : Stands(u)
  BY KeptStands
<1> QED BY <1>1, AtomicStutter DEF AtomicOrSame

LEMMA RequestAtomic ==
    ASSUME Core, RestOK, HostOK', NEW o \in Op, Serve(o) \/ Lose(o) \/ DeadLease(o)
    PROVE  AtomicOrSame
<1>0. HostOK /\ UNCHANGED <<targets, coord>>
  BY DEF Core, Serve, Lose, DeadLease
<1>1. ASSUME NEW r \in op[o].todo, Fails(o, r), Kept PROVE AtomicOrSame
  BY <1>1, FailsGoes DEF AtomicOrSame
<1>2. CASE Serve(o)
  <2>1. PICK r \in op[o].todo :
          /\ Due(o, r) /\ up[r.at]
          /\ IF Accepts(r.at, disk[r.at], r.verb, r.txn, op[o].seen[r.at])
             THEN /\ disk' = [disk EXCEPT ![r.at] = Served(@, r.verb, r.txn).end]
                  /\ Succeeds(o, r)
             ELSE Fails(o, r) /\ UNCHANGED disk
    BY <1>2 DEF Serve
  <2>2. CASE Accepts(r.at, disk[r.at], r.verb, r.txn, op[o].seen[r.at])
    <3>1. Kept
      BY <1>0, <2>1, <2>2, RequestKept
    <3> QED BY <1>0, <2>1, <2>2, <3>1, KeptAtomic DEF Succeeds
  <2>3. CASE ~Accepts(r.at, disk[r.at], r.verb, r.txn, op[o].seen[r.at])
    BY <1>0, <1>1, <2>1, <2>3, RestKept
  <2> QED BY <2>2, <2>3
<1>3. CASE Lose(o)
  <2>1. PICK r \in op[o].todo :
          /\ Due(o, r) /\ up[r.at] /\ Fails(o, r)
          /\ \/ /\ Accepts(r.at, disk[r.at], r.verb, r.txn, op[o].seen[r.at])
                /\ disk' = [disk EXCEPT ![r.at] = Served(@, r.verb, r.txn).end]
             \/ UNCHANGED disk
    BY <1>3 DEF Lose
  <2>2. Kept
    BY <1>0, <2>1, RequestKept, RestKept
  <2> QED BY <1>1, <2>1, <2>2
<1>4. CASE DeadLease(o)
  <2>1. PICK r \in op[o].todo : Fails(o, r)
    BY <1>4 DEF DeadLease
  <2>2. Kept
    BY <1>0, <1>4, RestKept DEF DeadLease
  <2> QED BY <1>1, <2>1, <2>2
<1> QED BY <1>2, <1>3, <1>4

LEMMA BackendAtomic ==
    ASSUME Core, RestOK, HostOK', NEW b \in Backend,
           Start(b) \/ Visit(b) \/ Leave(b) \/ Write(b) \/ CrashBackend(b)
    PROVE  AtomicOrSame
<1>0. HostOK /\ UNCHANGED <<targets, coord>>
  BY DEF Core, Start, Visit, Leave, Write, CrashBackend, host
<1>1. CASE Start(b)
  <2>1. UNCHANGED told
    BY <1>1 DEF Start, host
  <2>2. ASSUME NEW t \in Txn, IsNext(disk[b], t), disk' = [disk EXCEPT ![b] = Recovery(@, t).end]
        PROVE  Kept
    <3> DEFINE x == Recovery(disk[b], t).end
    <3>1. Settled(x, b)
      BY <2>2, RecoveredSettled
    <3>2. disk' = [disk EXCEPT ![b] = x]
      BY <2>2
    <3> HIDE DEF x
    <3> QED BY <1>0, <3>1, <3>2, OneKept
  <2>3. Kept
    BY <1>0, <1>1, <2>2, RestKept DEF Start
  <2> QED BY <1>0, <2>1, <2>3, KeptAtomic
<1>2. CASE Visit(b) \/ Leave(b)
  BY <1>0, <1>2, RestKept, KeptAtomic DEF Visit, Leave, host
<1>3. CASE Write(b)
  <2>1. disk' = [disk EXCEPT ![b].data.writes = @ + 1] /\ disk \in [Backend -> StoreType]
    BY <1>3 DEF Write, Core, DiskOK
  <2>2. disk[b] \in StoreType /\ disk[b].data \in DataType
    BY <2>1, PartsOf
  <2>3. disk'[b].data.done = disk[b].data.done /\ \A c \in Backend \ {b} : disk'[c] = disk[c]
    BY <2>1, <2>2 DEF StoreType, DataType
  <2>4. Kept
    BY <1>0, <2>3 DEF Kept
  <2> QED BY <1>0, <1>3, <2>4, KeptAtomic DEF Write, host
<1>4. CASE CrashBackend(b)
  <2>1. CASE UNCHANGED <<disk, op, told>>
    BY <1>0, <2>1, RestKept, KeptAtomic
  <2>2. ASSUME NEW o \in Op, NEW r \in op[o].todo, Due(o, r), r.at = b, Fails(o, r),
               NEW x \in Halfway(b, o, r), disk' = [disk EXCEPT ![b] = x]
        PROVE  AtomicOrSame
    <3>1. Kept
      BY <1>0, <2>2, HalfwayKept
    <3> QED BY <2>2, <3>1, FailsGoes DEF AtomicOrSame
  <2> QED BY <1>4, <2>1, <2>2 DEF CrashBackend
<1> QED BY <1>1, <1>2, <1>3, <1>4

\* A coordinator file goes when the journals are gone: a decided transaction
\* stays applied, any other is dropped.
LEMMA FileGoneOutcome ==
    ASSUME Core, NEW t \in Txn, HasFile(t), \A b \in targets[t] : ~HasJournal(disk[b], t),
           coord'[t] = "removed", UNCHANGED <<targets, disk>>
    PROVE  \/ coord[t] = "committed" /\ Outcome[t] = "applied" /\ Outcome'[t] = "applied"
           \/ coord[t] # "committed" /\ Outcome[t] = "pending" /\ Outcome'[t] = "dropped"
<1>1. HostOK /\ StoresFit /\ Decided /\ t \in Op
  BY DEF Core, Op
<1>2. \A b \in Backend : Fits(disk[b], t, coord[t], b, targets[t], written[b])
  BY <1>1 DEF StoresFit
<1>3. AppliedAt(t)' = AppliedAt(t) /\ targets'[t] = targets[t]
  BY DEF AppliedAt
<1>4. targets[t] \in SUBSET Backend /\ targets[t] # {}
  BY <1>1 DEF Decided, HasFile, HostOK
<1>5. coord[t] = "committed" => AppliedAt(t) = targets[t]
  BY <1>2, <1>4 DEF Fits, AppliedAt
<1>6. coord[t] \in {"preparing", "committing"} => AppliedAt(t) = {}
  BY <1>2 DEF Fits, AppliedAt, InForce, HasJournal
<1>7. coord[t] \in {"preparing", "committing", "committed"}
  BY DEF HasFile
<1> QED BY <1>3, <1>4, <1>5, <1>6, <1>7, OutcomeIs, OutcomeByPhase DEF Phases

LEMMA SettleAtomic == ASSUME IInv, HostOK', NEW o \in Op, Settle(o) PROVE AtomicOrSame
<1>1. Core /\ HostOK /\ OpInv
  BY Parts DEF Core
<1> DEFINE t == op[o].file
<1>2. /\ op[o].stage = "recover" /\ t # NoTxn /\ op[o].todo = {}
      /\ coord' = [coord EXCEPT ![t] = "removed"]
      /\ UNCHANGED <<told, targets, disk>>
  BY DEF Settle
<1>3. op[o] \in OpType /\ StageInv(o) /\ ProgressInv(o)
  BY <1>1, StageType DEF OpInv
<1>4. op[o].files = Files /\ t \in Files /\ t \in Txn /\ HasFile(t)
  BY <1>2, <1>3 DEF StageInv, Files
<1>5. \A b \in targets[t] : ~HasJournal(disk[b], t)
  BY <1>2, <1>3 DEF ProgressInv, Subject, Asked
<1>6. coord'[t] = "removed" /\ \A u \in Txn \ {t} : coord'[u] = coord[u]
  BY <1>1, <1>2, <1>4 DEF HostOK
<1> HIDE DEF t
<1>7. Goes(t)
  BY <1>1, <1>2, <1>4, <1>5, <1>6, FileGoneOutcome DEF Goes
<1>8. \A u \in Txn \ {t} : Stands(u)
  BY <1>1, <1>2, <1>6, StandsIf DEF HostOK
<1> QED BY <1>1, <1>4, <1>7, <1>8, AtomicStep DEF AtomicOrSame

LEMMA CloseAtomic == ASSUME IInv, HostOK', NEW o \in Op, Close(o) PROVE AtomicOrSame
<1>1. Core /\ HostOK /\ OpInv
  BY Parts DEF Core
<1>2. /\ Ready(o, "finalize") \/ Ready(o, "undo")
      /\ coord' = IF op[o].errors THEN coord ELSE [coord EXCEPT ![o] = "removed"]
      /\ UNCHANGED <<targets, disk>>
  BY DEF Close
<1>3. /\ StageInv(o) /\ ProgressInv(o)
      /\ op[o].stage \in {"finalize", "undo"} /\ \A v, b : ~Asked(o, v, b)
  BY <1>1, <1>2, ReadyIs DEF Ready
<1>4. o \in Txn /\ HasFile(o) /\ o # Backup /\ told[o] = "none"
  BY <1>1, <1>3, OwnFile, NoTxnIs DEF StageInv
<1>5. /\ op[o].stage = "finalize" => ~op[o].errors /\ coord[o] = "committed"
      /\ op[o].stage = "undo" => coord[o] \in {"preparing", "committing"}
  BY <1>3, <1>4 DEF StageInv, PhaseAt
<1>6. /\ \A u \in Txn \ {o} : coord'[u] = coord[u] /\ told'[u] = told[u]
      /\ op[o].errors => coord'[o] = coord[o]
      /\ ~op[o].errors => coord'[o] = "removed"
  BY <1>1, <1>2, <1>4 DEF HostOK, Close, Ends
<1>7. /\ op[o].stage = "finalize" => told'[o] = "applied"
      /\ op[o].stage = "undo" /\ op[o].errors => told'[o] = "stuck"
      /\ op[o].stage = "undo" /\ ~op[o].errors => told'[o] = "refused"
  BY <1>1, <1>4, <1>5 DEF HostOK, Close, Ends
<1>8. \A u \in Txn \ {o} : Stands(u)
  BY <1>1, <1>2, <1>6, StandsIf DEF HostOK
<1>9. ASSUME op[o].errors PROVE Goes(o)
  <2>1. op[o].stage = "undo"
    BY <1>3, <1>5, <1>9
  <2>2. Outcome[o] = "pending" /\ Outcome'[o] = "pending"
    BY <1>4, <1>5, <1>6, <1>9, <2>1, OutcomeIs, OutcomeByPhase DEF Phases
  <2> QED BY <1>4, <1>7, <1>9, <2>1, <2>2 DEF Goes, Promise!Honest
<1>10. ASSUME ~op[o].errors PROVE Goes(o)
  <2>1. Subject(o) = o
    BY <1>3 DEF Subject
  <2>2. \A b \in targets[o] : ~HasJournal(disk[b], o)
    BY <1>3, <1>10, <2>1 DEF ProgressInv
  <2>3. \/ coord[o] = "committed" /\ Outcome[o] = "applied" /\ Outcome'[o] = "applied"
        \/ coord[o] # "committed" /\ Outcome[o] = "pending" /\ Outcome'[o] = "dropped"
    BY <1>1, <1>2, <1>4, <1>6, <1>10, <2>2, FileGoneOutcome
  <2> QED BY <1>3, <1>4, <1>5, <1>7, <1>10, <2>3 DEF Goes, Promise!Honest
<1>11. Goes(o)
  BY <1>9, <1>10
<1> QED BY <1>1, <1>4, <1>8, <1>11, AtomicStep DEF AtomicOrSame

\* The coordinator file says "committed": from here on it is applied.
LEMMA MarkAtomic ==
    ASSUME IInv, HostOK', NEW o \in Op, Open(o) \/ MarkCommitting(o) \/ MarkCommitted(o)
    PROVE  AtomicOrSame
<1>1. Core /\ HostOK /\ OpInv
  BY Parts DEF Core
<1>2. PICK phase \in {"preparing", "committing", "committed"} : coord' = [coord EXCEPT ![o] = phase]
  BY DEF Open, MarkCommitting, MarkCommitted, Mark
<1>3. UNCHANGED <<told, targets, disk>>
  BY DEF Open, MarkCommitting, MarkCommitted, Mark
<1>4. /\ StageInv(o) /\ o \in Txn
      /\ coord[o] \in {"new", "preparing", "committing"} /\ op[o].stage # "idle"
  <2>1. CASE Open(o)
    <3>1. StageInv(o) /\ op[o].stage \in {"recover", "look"} /\ op[o].call # "none" /\ op[o].call # "backup"
      BY <1>1, <2>1, ReadyIs DEF Open, Ready
    <3> QED BY <3>1 DEF StageInv, PhaseAt, Op
  <2>2. CASE MarkCommitting(o) \/ MarkCommitted(o)
    <3>1. StageInv(o) /\ op[o].stage \in {"prepare", "commit"}
      BY <1>1, <2>2, ReadyIs DEF MarkCommitting, MarkCommitted, Ready
    <3> QED BY <3>1 DEF StageInv, PhaseAt, Op
  <2> QED BY <2>1, <2>2
<1>5. told[o] = "none"
  BY <1>4 DEF StageInv
<1>6. coord'[o] = phase /\ \A u \in Txn \ {o} : coord'[u] = coord[u]
  BY <1>1, <1>2, <1>4 DEF HostOK
<1>7. Outcome[o] = "pending" /\ Outcome'[o] \in {"pending", "applied"}
  BY <1>3, <1>4, <1>5, <1>6, OutcomeIs, OutcomeByPhase DEF Phases
<1>8. Goes(o)
  BY <1>3, <1>7 DEF Goes
<1>9. \A u \in Txn \ {o} : Stands(u)
  BY <1>1, <1>3, <1>6, StandsIf DEF HostOK
<1> QED BY <1>1, <1>4, <1>8, <1>9, AtomicStep DEF AtomicOrSame

LEMMA QuietAtomic ==
    ASSUME Core, HostOK', UNCHANGED <<told, targets, coord, disk>>
    PROVE  AtomicOrSame
<1>1. HostOK
  BY DEF Core
<1> QED BY <1>1, RestKept, KeptAtomic

LEMMA BeginAtomic == ASSUME IInv, HostOK', NEW o \in Op, Begin(o) PROVE AtomicOrSame
<1>1. Core /\ HostOK /\ Decided
  BY Parts DEF Core
<1>2. UNCHANGED <<told, coord, disk>> /\ (o \in Txn => targets[o] = {})
  BY DEF Begin
<1>3. \A u \in Txn \ {o} : targets'[u] = targets[u]
  BY <1>1 DEF Begin, HostOK, Op
<1>4. o \in Txn => coord[o] = "new"
  BY <1>1, <1>2 DEF Decided
<1>5. \A u \in Txn : Stands(u)
  BY <1>1, <1>2, <1>3, <1>4, StandsIf DEF HostOK
<1> QED BY <1>1, <1>5, AtomicStutter DEF AtomicOrSame

LEMMA LoadAtomic == ASSUME IInv, HostOK', NEW o \in Op, Load(o) PROVE AtomicOrSame
<1>1. Core /\ HostOK /\ OpInv
  BY Parts DEF Core
<1>2. op[o].files = Files
  BY <1>1 DEF Load, OpInv, StageInv
<1>3. UNCHANGED <<told, targets, coord, disk>>
  BY <1>2 DEF Load, Files
<1> QED BY <1>1, <1>3, QuietAtomic

LEMMA CrashHostAtomic == ASSUME IInv, HostOK', CrashHost PROVE AtomicOrSame
<1>1. Core /\ HostOK /\ OpInv /\ OneCall
  BY Parts DEF Core
<1>2. /\ told' = [t \in Txn |-> IF Running(t) THEN "lost" ELSE told[t]]
      /\ UNCHANGED <<targets, coord, disk>>
  BY DEF CrashHost
<1>3. ASSUME NEW u \in Txn, ~Running(u) PROVE Stands(u)
  <2>1. told'[u] = told[u]
    BY <1>2, <1>3
  <2> QED BY <1>1, <1>2, <2>1, StandsIf DEF HostOK
<1>4. CASE \A u \in Txn : ~Running(u)
  BY <1>1, <1>3, <1>4, AtomicStutter DEF AtomicOrSame
<1>5. ASSUME NEW t \in Txn, Running(t) PROVE AtomicOrSame
  <2>1. told'[t] = "lost"
    BY <1>2, <1>5
  <2>2. t \in Op /\ StageInv(t) /\ op[t].stage # "idle"
    BY <1>1, <1>5 DEF OpInv, Op, Running
  <2>3. told[t] = "none"
    BY <2>2 DEF StageInv
  <2>4. AppliedAt(t)' = AppliedAt(t) /\ coord'[t] = coord[t] /\ targets'[t] = targets[t]
    BY <1>2 DEF AppliedAt
  <2>5. ASSUME coord[t] = "new" PROVE Goes(t)
    <3>1. Outcome[t] = "pending" /\ Outcome'[t] = "dropped"
      BY <2>1, <2>3, <2>4, <2>5, OutcomeIs, OutcomeByPhase DEF Phases
    <3> QED BY <2>1, <2>3, <3>1 DEF Goes
  <2>6. ASSUME coord[t] # "new" PROVE Goes(t)
    <3>1. Outcome'[t] = Outcome[t]
      BY <2>4, <2>6, OutcomeIs DEF OutcomeOf
    <3> QED BY <2>1, <2>3, <3>1 DEF Goes
  <2>7. \A u \in Txn \ {t} : Stands(u)
    BY <1>1, <1>3, <1>5 DEF OneCall, Op
  <2>8. Goes(t)
    BY <2>5, <2>6
  <2> QED BY <1>1, <2>7, <2>8, AtomicStep DEF AtomicOrSame
<1> QED BY <1>4, <1>5

LEMMA StepAtomic ==
    ASSUME MaxTogether = 1, Amid = FALSE
    PROVE  IInv /\ [Next]_vars => AtomicOrSame
<1> SUFFICES ASSUME IInv, [Next]_vars PROVE AtomicOrSame
  OBVIOUS
<1>1. Core /\ RestOK
  BY Parts
<1>2. HostOK'
  <2>1. IInv'
    BY NextIInv
  <2>2. TypeOK'
    BY <2>1 DEF IInv
  <2> QED BY <2>2 DEF TypeOK, HostOK, Phases
<1>3. ASSUME NEW o \in Op, Work(o) PROVE AtomicOrSame
  <2>1. CASE Scan(o) \/ Look(o) \/ Show(o)
    BY <1>1, <1>2, <2>1, QuietAtomic DEF Scan, Look, Show
  <2>2. CASE Load(o)
    BY <1>2, <2>2, LoadAtomic
  <2>3. CASE Settle(o)
    BY <1>2, <2>3, SettleAtomic
  <2>4. CASE Open(o) \/ MarkCommitting(o) \/ MarkCommitted(o)
    BY <1>2, <2>4, MarkAtomic
  <2>5. CASE Close(o)
    BY <1>2, <2>5, CloseAtomic
  <2>6. CASE Serve(o) \/ DeadLease(o)
    BY <1>1, <1>2, <2>6, RequestAtomic
  <2> QED BY <1>3, <2>1, <2>2, <2>3, <2>4, <2>5, <2>6 DEF Work
<1>4. ASSUME NEW o \in Op, Begin(o) \/ Confirm(o) \/ Work(o) \/ Lose(o) PROVE AtomicOrSame
  <2>1. CASE Begin(o)
    BY <1>2, <2>1, BeginAtomic
  <2>2. CASE Confirm(o)
    BY <1>1, <1>2, <2>2, QuietAtomic DEF Confirm
  <2>3. CASE Lose(o)
    BY <1>1, <1>2, <2>3, RequestAtomic
  <2> QED BY <1>3, <1>4, <2>1, <2>2, <2>3
<1>5. ASSUME NEW b \in Backend, Start(b) \/ Visit(b) \/ Leave(b) \/ Write(b) \/ CrashBackend(b)
      PROVE  AtomicOrSame
  BY <1>1, <1>2, <1>5, BackendAtomic
<1>6. CASE CrashHost
  BY <1>2, <1>6, CrashHostAtomic
<1>7. CASE UNCHANGED vars
  BY <1>1, <1>2, <1>7, QuietAtomic DEF vars, host
<1> QED BY <1>4, <1>5, <1>6, <1>7 DEF Next

\* An import or a reset over several backends is to the user one that
\* applies at once: decided once and for good, and never told otherwise,
\* whichever requests fail and whoever crashes and recovers.
THEOREM ImplementsAtomicHolds ==
    ASSUME MaxTogether = 1, Amid = FALSE
    PROVE  Spec => ImplementsAtomic
<1>1. Init => Promise!Init
  <2> SUFFICES ASSUME Init PROVE Promise!Init
    OBVIOUS
  <2>1. told = [t \in Txn |-> "none"] /\ \A t \in Txn : coord[t] = "new" /\ told[t] = "none"
    BY DEF Init
  <2>2. \A t \in Txn : Outcome[t] = "pending"
    BY <2>1, OutcomeIs, OutcomeByPhase DEF Phases
  <2>3. Outcome = [t \in Txn |-> Outcome[t]]
    BY DEF Outcome
  <2>4. Outcome = [t \in Txn |-> "pending"]
    BY <2>2, <2>3
  <2> QED BY <2>1, <2>4 DEF Promise!Init
<1>2. IInv /\ [Next]_vars => [Promise!Next]_<<Outcome, told>>
  BY StepAtomic DEF AtomicOrSame
<1> QED BY <1>1, <1>2, Invariant, PTL DEF Spec, ImplementsAtomic, Promise!Spec
=============================================================================
