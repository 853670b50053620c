---------------------------- MODULE Mandates_proof ----------------------------
(***************************************************************************)
(* Proofs about the mandate aggregate, for any number of mandates,         *)
(* requirements, revisions and events, under its two specifications: the   *)
(* commands with their idempotency keys, and the event pipeline.  A        *)
(* command of either is one of four actions of Mandates, so that what      *)
(* these preserve is proved once.                                          *)
(***************************************************************************)
EXTENDS MandateCommands, EventPipeline, FiniteSetTheorems, TLAPS

Announcing == {"mandate.created", "mandate.revised"}
Hooks == Announcing \cup UNION {ToldBy[s] : s \in MandateStatuses}
OutboxEvent == [hook : Hooks, mandate : MandateIds, revision : Revisions, told : MandateStatuses]

\* The last event about a mandate tells its status.
LastTells(l, st) ==
    \A i \in 1 .. Len(l) :
       (\A k \in i + 1 .. Len(l) : l[k].mandate # l[i].mandate) => l[i].told = st[l[i].mandate]

Announcements(l, m, r) ==
    {i \in 1 .. Len(l) : l[i].mandate = m /\ l[i].revision = r /\ l[i].hook \in Announcing}

EachAnnouncedOnce(l, rev) ==
    \A m \in MandateIds, r \in Revisions :
       Cardinality(Announcements(l, m, r)) = IF r <= rev[m] THEN 1 ELSE 0

-----------------------------------------------------------------------------
(* The outbox *)

LEMMA NamedEventTells ==
    ASSUME NEW m, NEW r
    PROVE  /\ \A s \in {"tracking", "paused", "ended", "pending_requirements"} :
                 NamedEvent(EventByStatus[s], m, r) = Event(EventByStatus[s], m, r, s)
           /\ NamedEvent("mandate.requirements_completed", m, r)
                 = Event("mandate.requirements_completed", m, r, "tracking")
<1>1. DOMAIN ToldBy = MandateStatuses
  BY DEF ToldBy, MandateStatuses
<1>2. \A s \in MandateStatuses : EventByStatus[s] \in ToldBy[s]
  BY DEF ToldBy, MandateStatuses, EventByStatus
<1>3. "mandate.requirements_completed" \in ToldBy["tracking"]
  BY DEF ToldBy
<1>4. \A s, t \in MandateStatuses : s # t => ToldBy[s] \cap ToldBy[t] = {}
  BY DEF ToldBy, MandateStatuses
<1>5. ASSUME NEW h, NEW s \in MandateStatuses, h \in ToldBy[s]
      PROVE  NamedEvent(h, m, r) = Event(h, m, r, s)
  <2>1. \A t \in DOMAIN ToldBy : h \in ToldBy[t] <=> t = s
    BY <1>1, <1>4, <1>5
  <2>2. (CHOOSE t \in DOMAIN ToldBy : h \in ToldBy[t]) = s
    BY <1>1, <1>5, <2>1
  <2> QED BY <2>2 DEF NamedEvent
<1> QED BY <1>2, <1>3, <1>5 DEF MandateStatuses

LEMMA EventsAreTyped ==
    ASSUME NEW m \in MandateIds, NEW r \in Revisions, NEW s \in MandateStatuses
    PROVE  /\ \A h \in Announcing : Event(h, m, r, s) \in OutboxEvent
           /\ Event(EventByStatus[s], m, r, s) \in OutboxEvent
           /\ Event("mandate.requirements_completed", m, r, s) \in OutboxEvent
           /\ EventByStatus[s] \notin Announcing
<1>1. EventByStatus[s] \in ToldBy[s] /\ "mandate.requirements_completed" \in ToldBy["tracking"]
  BY DEF ToldBy, MandateStatuses, EventByStatus
<1>2. EventByStatus[s] \in Hooks /\ "mandate.requirements_completed" \in Hooks /\ Announcing \subseteq Hooks
  BY <1>1 DEF Hooks, MandateStatuses
<1>3. EventByStatus[s] \notin Announcing
  BY DEF EventByStatus, Announcing, MandateStatuses
<1> QED BY <1>2, <1>3 DEF Event, OutboxEvent

\* An event that tells the status its mandate has from now on.
LEMMA AppendTells ==
    ASSUME NEW l \in Seq(OutboxEvent), NEW e \in OutboxEvent,
           NEW st \in [MandateIds -> MandateStatuses \cup {"absent"}], NEW st2 \in [MandateIds -> MandateStatuses \cup {"absent"}], LastTells(l, st),
           st2 = [st EXCEPT ![e.mandate] = e.told]
    PROVE  LastTells(Append(l, e), st2)
<1> DEFINE new == Append(l, e)
<1>1. /\ Len(new) = Len(l) + 1 /\ Len(l) \in Nat /\ new[Len(l) + 1] = e
      /\ \A i \in 1 .. Len(l) : new[i] = l[i]
  OBVIOUS
<1>2. \A i \in 1 .. Len(l) : l[i] \in OutboxEvent
  OBVIOUS
<1>3. e.mandate \in MandateIds /\ \A i \in 1 .. Len(l) : l[i].mandate \in MandateIds
  BY <1>2 DEF OutboxEvent
<1> HIDE DEF new
<1> SUFFICES ASSUME NEW i \in 1 .. Len(l) + 1,
                    \A k \in i + 1 .. Len(l) + 1 : new[k].mandate # new[i].mandate
             PROVE  new[i].told = st2[new[i].mandate]
  BY <1>1 DEF LastTells, new
<1>4. CASE i = Len(l) + 1
  BY <1>1, <1>3, <1>4
<1>5. CASE i # Len(l) + 1
  <2>1. i \in 1 .. Len(l) /\ new[i] = l[i]
    BY <1>1, <1>5
  <2>2. Len(l) + 1 \in i + 1 .. Len(l) + 1
    BY <1>1, <2>1
  <2>3. e.mandate # l[i].mandate
    BY <1>1, <2>1, <2>2
  <2>4. \A k \in i + 1 .. Len(l) : l[k].mandate # l[i].mandate
    BY <1>1, <2>1
  <2>5. l[i].told = st[l[i].mandate]
    BY <2>1, <2>4 DEF LastTells
  <2> QED BY <1>3, <2>1, <2>3, <2>5
<1> QED BY <1>4, <1>5

LEMMA AnnouncementsAreFinite ==
    ASSUME NEW l \in Seq(OutboxEvent), NEW m, NEW r
    PROVE  IsFiniteSet(Announcements(l, m, r)) /\ Len(l) + 1 \notin Announcements(l, m, r)
<1>1. IsFiniteSet(1 .. Len(l))
  BY FS_Interval
<1> QED BY <1>1, FS_Subset DEF Announcements

LEMMA AppendAnnouncements ==
    ASSUME NEW l \in Seq(OutboxEvent), NEW e \in OutboxEvent, NEW m, NEW r
    PROVE  Announcements(Append(l, e), m, r)
             = IF e.mandate = m /\ e.revision = r /\ e.hook \in Announcing
               THEN Announcements(l, m, r) \cup {Len(l) + 1} ELSE Announcements(l, m, r)
<1> DEFINE new == Append(l, e)
<1>1. /\ Len(new) = Len(l) + 1 /\ Len(l) \in Nat /\ new[Len(l) + 1] = e
      /\ \A i \in 1 .. Len(l) : new[i] = l[i]
  OBVIOUS
<1> HIDE DEF new
<1>2. 1 .. Len(l) + 1 = (1 .. Len(l)) \cup {Len(l) + 1} /\ Len(l) + 1 \notin 1 .. Len(l)
  BY <1>1
<1> QED BY <1>1, <1>2 DEF Announcements, new

LEMMA AppendSilent ==
    ASSUME NEW l \in Seq(OutboxEvent), NEW e \in OutboxEvent, e.hook \notin Announcing,
           NEW rev, EachAnnouncedOnce(l, rev)
    PROVE  EachAnnouncedOnce(Append(l, e), rev)
<1>1. \A m, r : Announcements(Append(l, e), m, r) = Announcements(l, m, r)
  BY AppendAnnouncements
<1> QED BY <1>1 DEF EachAnnouncedOnce

LEMMA AppendAnnounced ==
    ASSUME NEW l \in Seq(OutboxEvent), NEW e \in OutboxEvent, e.hook \in Announcing,
           NEW rev \in [MandateIds -> 0 .. MaxRevision], EachAnnouncedOnce(l, rev),
           e.revision = rev[e.mandate] + 1
    PROVE  EachAnnouncedOnce(Append(l, e), [rev EXCEPT ![e.mandate] = e.revision])
<1> SUFFICES ASSUME NEW m \in MandateIds, NEW r \in Revisions
             PROVE  Cardinality(Announcements(Append(l, e), m, r))
                      = IF r <= [rev EXCEPT ![e.mandate] = e.revision][m] THEN 1 ELSE 0
  BY DEF EachAnnouncedOnce
<1>1. Cardinality(Announcements(l, m, r)) = IF r <= rev[m] THEN 1 ELSE 0
  BY DEF EachAnnouncedOnce
<1>2. rev[m] \in Nat /\ r \in Nat
  BY MandatesAssumption DEF Revisions
<1>3. CASE e.mandate = m /\ e.revision = r
  <2>1. Cardinality(Announcements(l, m, r) \cup {Len(l) + 1}) = Cardinality(Announcements(l, m, r)) + 1
    BY AnnouncementsAreFinite, FS_AddElement
  <2>2. Announcements(Append(l, e), m, r) = Announcements(l, m, r) \cup {Len(l) + 1}
    BY <1>3, AppendAnnouncements
  <2> QED BY <1>1, <1>2, <1>3, <2>1, <2>2
<1>4. CASE ~(e.mandate = m /\ e.revision = r)
  <2>1. Announcements(Append(l, e), m, r) = Announcements(l, m, r)
    BY <1>4, AppendAnnouncements
  <2> QED BY <1>1, <1>2, <1>4, <2>1
<1> QED BY <1>3, <1>4

LEMMA EmitAppends ==
    ASSUME NEW l \in Seq(OutboxEvent), NEW d \in OutboxEvent, NEW e \in OutboxEvent
    PROVE  l \o <<e>> = Append(l, e) /\ l \o <<d, e>> = Append(Append(l, d), e)
OBVIOUS

-----------------------------------------------------------------------------
(* The aggregate *)

\* A requirement belongs to a revision that its mandate has had.
OwnedReqs ==
    \A q \in Requirements : reqs[q].state # "absent" =>
       Exists(reqs[q].mandate) /\ reqs[q].revision <= revision[reqs[q].mandate]

Types == /\ TypeOK /\ outbox \in Seq(OutboxEvent)
         /\ \A m \in MandateIds : Exists(m) <=> revision[m] # 0

MInv == /\ Types
        /\ OwnedReqs
        /\ OnlyCurrentInForce
        /\ WaitsForSomething
        /\ LastTells(outbox, status)
        /\ EachAnnouncedOnce(outbox, revision)

LEMMA MInvAtInit == ASSUME Init PROVE MInv
<1> USE DEF Init
<1>1. MaxRevision \in Nat /\ MaxEvents \in Nat
  BY MandatesAssumption
<1>2. Len(outbox) = 0 /\ outbox \in Seq(OutboxEvent)
  OBVIOUS
<1>3. Types
  BY <1>1, <1>2 DEF Types, TypeOK, Exists
<1>4. OwnedReqs /\ OnlyCurrentInForce /\ WaitsForSomething
  BY DEF OwnedReqs, OnlyCurrentInForce, WaitsForSomething
<1>5. LastTells(outbox, status)
  BY <1>2 DEF LastTells
<1>6. EachAnnouncedOnce(outbox, revision)
  <2>1. \A m, r : Announcements(outbox, m, r) = {}
    BY <1>2 DEF Announcements
  <2>2. \A r \in Revisions : ~ (r <= 0)
    BY <1>1 DEF Revisions
  <2> QED BY <2>1, <2>2, FS_EmptySet DEF EachAnnouncedOnce
<1> QED BY <1>3, <1>4, <1>5, <1>6 DEF MInv

\* What a change of status does to the outbox.
LEMMA SetStatusTells ==
    ASSUME MInv, NEW m \in MandateIds, NEW to \in {"tracking", "paused", "ended", "pending_requirements"},
           NEW hook, SetStatus(m, to, hook),
           \/ hook = EventByStatus[to]
           \/ to = "tracking" /\ hook = "mandate.requirements_completed"
    PROVE  /\ outbox' \in Seq(OutboxEvent) /\ Len(outbox') <= MaxEvents
           /\ LastTells(outbox', status')
           /\ EachAnnouncedOnce(outbox', revision)
<1> DEFINE e == NamedEvent(hook, m, revision[m])
<1>1. MaxRevision \in Nat /\ MaxEvents \in Nat
  BY MandatesAssumption
<1>2. revision[m] \in Revisions
  BY <1>1 DEF MInv, Types, TypeOK, SetStatus, Allowed, Exists, Revisions
<1>3. e = Event(hook, m, revision[m], to) /\ to \in MandateStatuses
  BY NamedEventTells DEF MandateStatuses
<1>4. e \in OutboxEvent /\ e.mandate = m /\ e.told = to /\ e.hook \notin Announcing
  <2>1. Event(hook, m, revision[m], to) \in OutboxEvent /\ hook \notin Announcing
    BY <1>2, <1>3, EventsAreTyped DEF Announcing
  <2> QED BY <1>3, <2>1 DEF Event
<1> HIDE DEF e
<1>5. outbox' = Append(outbox, e) /\ Len(outbox') <= MaxEvents /\ outbox \in Seq(OutboxEvent)
  <2>1. outbox \in Seq(OutboxEvent) /\ Len(outbox) + 1 <= MaxEvents /\ outbox' = outbox \o <<e>>
    BY DEF SetStatus, Emit, e, MInv, Types
  <2>2. outbox' = Append(outbox, e)
    BY <1>4, <2>1, EmitAppends
  <2> QED BY <1>1, <2>1, <2>2
<1>6. LastTells(outbox', status')
  <2>1. status' = [status EXCEPT ![e.mandate] = e.told]
    BY <1>4 DEF SetStatus
  <2>2. status \in [MandateIds -> MandateStatuses \cup {"absent"}] /\ LastTells(outbox, status)
    BY DEF MInv, Types, TypeOK
  <2>3. status' \in [MandateIds -> MandateStatuses \cup {"absent"}]
    BY <1>3, <1>4, <2>1, <2>2
  <2> QED BY <1>4, <1>5, <2>1, <2>2, <2>3, AppendTells
<1>7. EachAnnouncedOnce(outbox', revision)
  BY <1>4, <1>5, AppendSilent DEF MInv
<1> QED BY <1>4, <1>5, <1>6, <1>7

LEMMA CreateKeepsMInv ==
    ASSUME MInv, NEW m \in MandateIds, NEW needs, NEW watch, NEW timed, Create(m, needs, watch, timed)
    PROVE  MInv'
<1> DEFINE first == IF needs # {} THEN "pending_requirements" ELSE "tracking"
           e == Event("mandate.created", m, 1, first)
           d == NamedEvent("mandate.review_requested", m, 1)
<1>1. MaxRevision \in Nat /\ MaxEvents \in Nat /\ 1 \in Revisions
  BY MandatesAssumption DEF Revisions
<1>2. /\ TypeOK /\ outbox \in Seq(OutboxEvent) /\ ~Exists(m) /\ revision[m] = 0
      /\ needs \subseteq Requirements /\ \A q \in needs : reqs[q].state = "absent"
  BY DEF MInv, Types, Create, Fresh
<1>3. /\ status' = [status EXCEPT ![m] = first] /\ revision' = [revision EXCEPT ![m] = 1]
      /\ deps' = [deps EXCEPT ![m] = RowsOf(watch, 1)]
      /\ scheds' = [scheds EXCEPT ![m] = RowsOf(timed, 1)]
      /\ reqs' = [q \in Requirements |->
               IF q \in needs THEN [state |-> "open", mandate |-> m, revision |-> 1] ELSE reqs[q]]
  BY DEF Create, OpenThese
<1>4. first \in MandateStatuses /\ first # "paused" /\ first # "ended"
  BY DEF MandateStatuses
<1>5. /\ e \in OutboxEvent /\ e.mandate = m /\ e.told = first /\ e.revision = 1 /\ e.hook \in Announcing
      /\ d \in OutboxEvent /\ d.mandate = m /\ d.told = "pending_requirements" /\ d.hook \notin Announcing
  <2>1. d = Event(EventByStatus["pending_requirements"], m, 1, "pending_requirements")
    BY NamedEventTells DEF EventByStatus
  <2>2. /\ Event("mandate.created", m, 1, first) \in OutboxEvent /\ "mandate.created" \in Announcing
        /\ d \in OutboxEvent /\ EventByStatus["pending_requirements"] \notin Announcing
    BY <1>1, <1>4, <2>1, EventsAreTyped DEF Announcing, MandateStatuses
  <2> QED BY <2>1, <2>2 DEF Event
<1> HIDE DEF e, d
<1>6. /\ outbox' = IF needs # {} THEN Append(Append(outbox, e), d) ELSE Append(outbox, e)
      /\ Len(outbox') <= MaxEvents /\ outbox' \in Seq(OutboxEvent)
  <2>1. outbox' = outbox \o (IF needs # {} THEN <<e, d>> ELSE <<e>>)
    BY DEF Create, Emit, e, d
  <2>2. outbox' = IF needs # {} THEN Append(Append(outbox, e), d) ELSE Append(outbox, e)
    BY <1>2, <1>5, <2>1, EmitAppends
  <2>3. outbox' \in Seq(OutboxEvent)
    BY <1>2, <1>5, <2>2
  <2>4. Len(outbox) + Len(IF needs # {} THEN <<e, d>> ELSE <<e>>) <= MaxEvents
    BY DEF Create, Emit, e, d
  <2>5. Len(outbox') <= MaxEvents
    BY <1>1, <1>2, <1>5, <2>2, <2>4
  <2> QED BY <2>2, <2>3, <2>5
<1>7. TypeOK' /\ Types'
  <2>1. /\ status' \in [MandateIds -> MandateStatuses \cup {"absent"}]
        /\ revision' \in [MandateIds -> 0 .. MaxRevision]
        /\ deps' \in [MandateIds -> SUBSET Revisions] /\ scheds' \in [MandateIds -> SUBSET Revisions]
    <3> HIDE DEF first
    <3>1. RowsOf(watch, 1) \in SUBSET Revisions /\ RowsOf(timed, 1) \in SUBSET Revisions /\ 1 \in 0 .. MaxRevision
      BY <1>1 DEF RowsOf, Revisions
    <3> QED BY <1>2, <1>3, <1>4, <3>1 DEF TypeOK
  <2>2. reqs' \in [Requirements -> [state : {"absent"}]
             \cup [state : {"open", "closed"}, mandate : MandateIds, revision : Revisions]]
    BY <1>1, <1>2, <1>3 DEF TypeOK
  <2>3. \A n \in MandateIds : Exists(n)' <=> revision'[n] # 0
    BY <1>2, <1>3, <1>4 DEF Exists, MInv, Types, TypeOK, MandateStatuses
  <2> QED BY <1>6, <2>1, <2>2, <2>3 DEF TypeOK, Types
<1>8. OwnedReqs'
  BY <1>1, <1>2, <1>3, <1>4 DEF OwnedReqs, MInv, Types, TypeOK, Exists, MandateStatuses
<1>9. OnlyCurrentInForce'
  BY <1>2, <1>3, <1>4 DEF OnlyCurrentInForce, MInv, TypeOK, RowsOf
<1>10. WaitsForSomething'
  <2> SUFFICES ASSUME NEW n \in MandateIds
               PROVE  /\ status'[n] = "pending_requirements" => OpenRequirements(n)' # {}
                      /\ status'[n] = "tracking" =>
                           \A q \in OpenRequirements(n)' : reqs'[q].revision # revision'[n]
    BY DEF WaitsForSomething
  <2>1. CASE n = m
    <3>1. OpenRequirements(m)' = needs
      BY <1>2, <1>3 DEF OpenRequirements, MInv, OwnedReqs, Exists
    <3> QED BY <1>2, <1>3, <2>1, <3>1 DEF TypeOK
  <2>2. CASE n # m
    <3>1. OpenRequirements(n)' = OpenRequirements(n) /\ \A q \in OpenRequirements(n) : reqs'[q] = reqs[q]
      BY <1>2, <1>3, <2>2 DEF OpenRequirements
    <3>2. status'[n] = status[n] /\ revision'[n] = revision[n]
      BY <1>2, <1>3, <2>2 DEF TypeOK
    <3> QED BY <3>1, <3>2 DEF MInv, WaitsForSomething
  <2> QED BY <2>1, <2>2
<1>11. LastTells(outbox', status')
  <2>1. status \in [MandateIds -> MandateStatuses \cup {"absent"}] /\ LastTells(outbox, status)
    BY <1>2 DEF MInv, TypeOK
  <2>2. status' = [status EXCEPT ![e.mandate] = e.told] /\ status' \in [MandateIds -> MandateStatuses \cup {"absent"}]
    BY <1>3, <1>5, <1>7 DEF TypeOK
  <2> HIDE DEF first
  <2>3. LastTells(Append(outbox, e), status')
    BY <1>2, <1>5, <2>1, <2>2, AppendTells
  <2>4. needs # {} => status' = [status' EXCEPT ![d.mandate] = d.told]
    BY <1>3, <1>5, <2>1 DEF first
  <2>5. Append(outbox, e) \in Seq(OutboxEvent)
    BY <1>2, <1>5
  <2>6. needs # {} => LastTells(Append(Append(outbox, e), d), status')
    BY <1>5, <2>2, <2>3, <2>4, <2>5, AppendTells
  <2> QED BY <1>6, <2>3, <2>6
<1>12. EachAnnouncedOnce(outbox', revision')
  <2>1. revision \in [MandateIds -> 0 .. MaxRevision] /\ EachAnnouncedOnce(outbox, revision)
    BY <1>2 DEF MInv, TypeOK
  <2>2. revision' = [revision EXCEPT ![e.mandate] = e.revision] /\ e.revision = revision[e.mandate] + 1
    BY <1>2, <1>3, <1>5
  <2>3. EachAnnouncedOnce(Append(outbox, e), revision')
    BY <1>2, <1>5, <2>1, <2>2, AppendAnnounced
  <2>4. Append(outbox, e) \in Seq(OutboxEvent)
    BY <1>2, <1>5
  <2>5. EachAnnouncedOnce(Append(Append(outbox, e), d), revision')
    BY <1>5, <2>3, <2>4, AppendSilent
  <2> QED BY <1>6, <2>3, <2>5
<1> QED BY <1>7, <1>8, <1>9, <1>10, <1>11, <1>12 DEF MInv

LEMMA ReviseKeepsMInv ==
    ASSUME MInv, NEW m \in MandateIds, NEW expected, NEW needs, NEW watch, NEW timed,
           Revise(m, expected, needs, watch, timed)
    PROVE  MInv'
<1> DEFINE next == NextStatus(status[m], needs)
           r == expected + 1
           e == Event("mandate.revised", m, r, next)
           d == NamedEvent("mandate.review_requested", m, r)
<1>1. MaxRevision \in Nat /\ MaxEvents \in Nat
  BY MandatesAssumption
<1>2. /\ TypeOK /\ outbox \in Seq(OutboxEvent) /\ Exists(m) /\ revision[m] = expected /\ status[m] # "ended"
      /\ needs \subseteq Requirements /\ \A q \in needs : reqs[q].state = "absent"
      /\ expected < MaxRevision
  BY DEF MInv, Types, Revise, MayRevise, Fresh
<1>3. expected \in Nat /\ r \in Revisions /\ r = revision[m] + 1
  BY <1>1, <1>2 DEF TypeOK, Revisions
<1>4. /\ status' = [status EXCEPT ![m] = next] /\ revision' = [revision EXCEPT ![m] = r]
      /\ deps' = [deps EXCEPT ![m] = RowsOf(watch, r)]
      /\ scheds' = [scheds EXCEPT ![m] = RowsOf(timed, r)]
      /\ reqs' = [q \in Requirements |->
               IF q \in needs THEN [state |-> "open", mandate |-> m, revision |-> r] ELSE reqs[q]]
  BY DEF Revise, OpenThese, ReplaceRows
<1>5. /\ next \in MandateStatuses /\ next # "ended"
      /\ next = "pending_requirements" => needs # {}
      /\ next = "tracking" => needs = {}
  BY <1>2 DEF MandateStatuses, NextStatus, TypeOK, Exists
<1>6. /\ e \in OutboxEvent /\ e.mandate = m /\ e.told = next /\ e.revision = r /\ e.hook \in Announcing
      /\ d \in OutboxEvent /\ d.mandate = m /\ d.told = "pending_requirements" /\ d.hook \notin Announcing
  <2>1. d = Event(EventByStatus["pending_requirements"], m, r, "pending_requirements")
    BY NamedEventTells DEF EventByStatus
  <2>2. /\ Event("mandate.revised", m, r, next) \in OutboxEvent /\ "mandate.revised" \in Announcing
        /\ d \in OutboxEvent /\ EventByStatus["pending_requirements"] \notin Announcing
    BY <1>3, <1>5, <2>1, EventsAreTyped DEF Announcing, MandateStatuses
  <2> QED BY <2>1, <2>2 DEF Event
<1> HIDE DEF e, d, next, r
<1>7. /\ outbox' = IF next = "pending_requirements" THEN Append(Append(outbox, e), d) ELSE Append(outbox, e)
      /\ Len(outbox') <= MaxEvents /\ outbox' \in Seq(OutboxEvent)
  <2>1. outbox' = outbox \o (IF next = "pending_requirements" THEN <<e, d>> ELSE <<e>>)
    BY DEF Revise, Emit, e, d, next, r
  <2>2. outbox' = IF next = "pending_requirements" THEN Append(Append(outbox, e), d) ELSE Append(outbox, e)
    BY <1>2, <1>6, <2>1, EmitAppends
  <2>3. outbox' \in Seq(OutboxEvent)
    BY <1>2, <1>6, <2>2
  <2>4. Len(outbox) + Len(IF next = "pending_requirements" THEN <<e, d>> ELSE <<e>>) <= MaxEvents
    BY DEF Revise, Emit, e, d, next, r
  <2>5. Len(outbox') <= MaxEvents
    BY <1>1, <1>2, <1>6, <2>2, <2>4
  <2> QED BY <2>2, <2>3, <2>5
<1>8. TypeOK' /\ Types'
  <2>1. /\ status' \in [MandateIds -> MandateStatuses \cup {"absent"}]
        /\ revision' \in [MandateIds -> 0 .. MaxRevision]
        /\ deps' \in [MandateIds -> SUBSET Revisions] /\ scheds' \in [MandateIds -> SUBSET Revisions]
    <3>1. RowsOf(watch, r) \in SUBSET Revisions /\ RowsOf(timed, r) \in SUBSET Revisions /\ r \in 0 .. MaxRevision
      BY <1>1, <1>3 DEF RowsOf, Revisions
    <3> QED BY <1>2, <1>4, <1>5, <3>1 DEF TypeOK
  <2>2. reqs' \in [Requirements -> [state : {"absent"}]
             \cup [state : {"open", "closed"}, mandate : MandateIds, revision : Revisions]]
    BY <1>2, <1>3, <1>4 DEF TypeOK
  <2>3. \A n \in MandateIds : Exists(n)' <=> revision'[n] # 0
    <3>1. r # 0 /\ next # "absent"
      BY <1>1, <1>3, <1>5 DEF Revisions, MandateStatuses
    <3> QED BY <1>2, <1>4, <3>1 DEF Exists, MInv, Types, TypeOK
  <2> QED BY <1>7, <2>1, <2>2, <2>3 DEF TypeOK, Types
<1>9. OwnedReqs'
  <2>1. next # "absent"
    BY <1>5 DEF MandateStatuses
  <2> SUFFICES ASSUME NEW q \in Requirements, reqs'[q].state # "absent"
               PROVE  status'[reqs'[q].mandate] # "absent" /\ reqs'[q].revision <= revision'[reqs'[q].mandate]
    BY DEF OwnedReqs, Exists
  <2>2. CASE q \in needs
    BY <1>2, <1>3, <1>4, <2>1, <2>2 DEF TypeOK, Exists, Revisions
  <2>3. CASE q \notin needs
    <3>1. /\ reqs'[q] = reqs[q] /\ reqs[q].mandate \in MandateIds /\ reqs[q].revision \in Nat
          /\ Exists(reqs[q].mandate) /\ reqs[q].revision <= revision[reqs[q].mandate]
      BY <1>1, <1>2, <1>4, <2>3 DEF OwnedReqs, MInv, TypeOK, Revisions
    <3> QED BY <1>2, <1>3, <1>4, <2>1, <3>1 DEF TypeOK, Exists
  <2> QED BY <2>2, <2>3
<1>10. OnlyCurrentInForce'
  BY <1>2, <1>4, <1>5 DEF OnlyCurrentInForce, MInv, TypeOK, RowsOf
<1>11. WaitsForSomething'
  <2> SUFFICES ASSUME NEW n \in MandateIds
               PROVE  /\ status'[n] = "pending_requirements" => OpenRequirements(n)' # {}
                      /\ status'[n] = "tracking" =>
                           \A q \in OpenRequirements(n)' : reqs'[q].revision # revision'[n]
    BY DEF WaitsForSomething
  <2>1. CASE n = m
    <3>1. status'[n] = next /\ revision'[n] = r
      BY <1>2, <1>4, <2>1 DEF TypeOK
    <3>2. next = "pending_requirements" => OpenRequirements(n)' # {}
      <4>1. \A q \in needs : q \in OpenRequirements(n)'
        BY <1>2, <1>4, <2>1 DEF OpenRequirements
      <4> QED BY <1>5, <4>1
    <3>3. ASSUME next = "tracking", NEW q \in OpenRequirements(n)' PROVE reqs'[q].revision # r
      <4>1. q \in Requirements /\ reqs'[q] = reqs[q] /\ reqs[q].state = "open" /\ reqs[q].mandate = m
        BY <1>4, <1>5, <2>1, <3>3 DEF OpenRequirements
      <4>2. reqs[q].revision <= revision[m] /\ reqs[q].revision \in Nat
        BY <1>1, <1>2, <4>1 DEF OwnedReqs, MInv, TypeOK, Revisions
      <4> QED BY <1>2, <1>3, <4>1, <4>2
    <3> QED BY <3>1, <3>2, <3>3
  <2>2. CASE n # m
    <3>1. OpenRequirements(n)' = OpenRequirements(n) /\ \A q \in OpenRequirements(n) : reqs'[q] = reqs[q]
      BY <1>2, <1>4, <2>2 DEF OpenRequirements
    <3>2. status'[n] = status[n] /\ revision'[n] = revision[n]
      BY <1>2, <1>4, <2>2 DEF TypeOK
    <3> QED BY <3>1, <3>2 DEF MInv, WaitsForSomething
  <2> QED BY <2>1, <2>2
<1>12. LastTells(outbox', status')
  <2>1. status \in [MandateIds -> MandateStatuses \cup {"absent"}] /\ LastTells(outbox, status)
    BY <1>2 DEF MInv, TypeOK
  <2>2. status' = [status EXCEPT ![e.mandate] = e.told] /\ status' \in [MandateIds -> MandateStatuses \cup {"absent"}]
    BY <1>4, <1>6, <1>8 DEF TypeOK
  <2>3. LastTells(Append(outbox, e), status')
    BY <1>2, <1>6, <2>1, <2>2, AppendTells
  <2>4. next = "pending_requirements" => status' = [status' EXCEPT ![d.mandate] = d.told]
    BY <1>4, <1>6, <2>1
  <2>5. Append(outbox, e) \in Seq(OutboxEvent)
    BY <1>2, <1>6
  <2>6. next = "pending_requirements" => LastTells(Append(Append(outbox, e), d), status')
    BY <1>6, <2>2, <2>3, <2>4, <2>5, AppendTells
  <2> QED BY <1>7, <2>3, <2>6
<1>13. EachAnnouncedOnce(outbox', revision')
  <2>1. revision \in [MandateIds -> 0 .. MaxRevision] /\ EachAnnouncedOnce(outbox, revision)
    BY <1>2 DEF MInv, TypeOK
  <2>2. revision' = [revision EXCEPT ![e.mandate] = e.revision] /\ e.revision = revision[e.mandate] + 1
    BY <1>3, <1>4, <1>6
  <2>3. EachAnnouncedOnce(Append(outbox, e), revision')
    BY <1>2, <1>6, <2>1, <2>2, AppendAnnounced
  <2>4. Append(outbox, e) \in Seq(OutboxEvent)
    BY <1>2, <1>6
  <2>5. EachAnnouncedOnce(Append(Append(outbox, e), d), revision')
    BY <1>6, <2>3, <2>4, AppendSilent
  <2> QED BY <1>7, <2>3, <2>5
<1> QED BY <1>8, <1>9, <1>10, <1>11, <1>12, <1>13 DEF MInv

LEMMA ApplyStatusKeepsMInv ==
    ASSUME MInv, NEW m \in MandateIds, NEW expected, NEW target \in {"tracking", "paused", "ended"},
           ApplyStatus(m, expected, target)
    PROVE  MInv'
<1> DEFINE to == Effective(m, target)
<1>1. to \in {"tracking", "paused", "ended", "pending_requirements"}
  BY DEF Effective
<1>2. /\ to = "pending_requirements" => OpenRequirements(m) # {}
      /\ to = "tracking" => OpenRequirements(m) = {}
  BY DEF Effective
<1>3. UNCHANGED <<revision, reqs, scheds>>
  BY DEF ApplyStatus
<1> HIDE DEF to
<1>4. CASE to = status[m]
  <2>1. UNCHANGED <<status, deps, outbox>>
    BY <1>4 DEF ApplyStatus, to
  <2> QED BY <1>3, <2>1 DEF MInv, Types, TypeOK, OwnedReqs, Exists, OnlyCurrentInForce, WaitsForSomething,
                          OpenRequirements
<1>5. CASE to # status[m]
  <2>1. SetStatus(m, to, EventByStatus[to])
    BY <1>5 DEF ApplyStatus, to
  <2>2. /\ outbox' \in Seq(OutboxEvent) /\ Len(outbox') <= MaxEvents
        /\ LastTells(outbox', status') /\ EachAnnouncedOnce(outbox', revision')
    BY <1>1, <1>3, <2>1, SetStatusTells
  <2>3. /\ status' = [status EXCEPT ![m] = to]
        /\ deps' = IF to = "ended" THEN [deps EXCEPT ![m] = {}] ELSE deps
        /\ to \in MandateStatuses /\ TypeOK
    BY <1>1, <2>1 DEF SetStatus, MandateStatuses, MInv, Types
  <2>4. TypeOK' /\ Types'
    <3>1. /\ status' \in [MandateIds -> MandateStatuses \cup {"absent"}]
          /\ deps' \in [MandateIds -> SUBSET Revisions]
      BY <2>3 DEF TypeOK
    <3>2. Exists(m) /\ to # "absent"
      BY <1>1, <2>1 DEF SetStatus, Allowed, Exists
    <3>3. \A n \in MandateIds : Exists(n)' <=> revision'[n] # 0
      BY <1>3, <2>3, <3>2 DEF Exists, MInv, Types, TypeOK
    <3> QED BY <1>3, <2>2, <2>3, <3>1, <3>3 DEF TypeOK, Types
  <2>5. OwnedReqs'
    BY <1>1, <1>3, <2>3 DEF OwnedReqs, MInv, Exists, TypeOK
  <2>6. OnlyCurrentInForce'
    BY <1>3, <2>3 DEF OnlyCurrentInForce, MInv, TypeOK
  <2>7. WaitsForSomething'
    BY <1>2, <1>3, <2>3 DEF WaitsForSomething, OpenRequirements, MInv, TypeOK
  <2> QED BY <2>2, <2>4, <2>5, <2>6, <2>7 DEF MInv
<1> QED BY <1>4, <1>5

LEMMA ResolveKeepsMInv ==
    ASSUME MInv, NEW m \in MandateIds, NEW q \in Requirements, ResolveRequirement(m, q)
    PROVE  MInv'
<1> DEFINE starts == StillOpen(m, q) = {} /\ status[m] = "pending_requirements"
<1>1. /\ UNCHANGED <<revision, scheds>> /\ TypeOK /\ reqs[q].state # "absent" /\ reqs[q].mandate = m
      /\ reqs' = [reqs EXCEPT ![q].state = "closed"]
  BY DEF ResolveRequirement, MInv, Types
<1>2. reqs' \in [Requirements -> [state : {"absent"}]
         \cup [state : {"open", "closed"}, mandate : MandateIds, revision : Revisions]]
  BY <1>1 DEF TypeOK
<1>3. /\ OpenRequirements(m)' = StillOpen(m, q)
      /\ \A n \in MandateIds : n # m => OpenRequirements(n)' = OpenRequirements(n)
      /\ \A p \in Requirements : /\ reqs'[p].state # "absent" => reqs[p].state # "absent"
                                 /\ reqs[p].state # "absent" =>
                                      reqs'[p].mandate = reqs[p].mandate /\ reqs'[p].revision = reqs[p].revision
  BY <1>1 DEF OpenRequirements, StillOpen, TypeOK
<1>4. /\ outbox' \in Seq(OutboxEvent) /\ Len(outbox') <= MaxEvents
      /\ LastTells(outbox', status') /\ EachAnnouncedOnce(outbox', revision')
  <2>1. CASE starts
    BY <1>1, <2>1, SetStatusTells DEF ResolveRequirement
  <2>2. CASE ~starts
    BY <1>1, <2>2 DEF ResolveRequirement, MInv, Types, TypeOK
  <2> QED BY <2>1, <2>2
<1>5. status' = (IF starts THEN [status EXCEPT ![m] = "tracking"] ELSE status) /\ deps' = deps
  BY DEF ResolveRequirement, SetStatus
<1>6. TypeOK' /\ Types'
  <2>1. status' \in [MandateIds -> MandateStatuses \cup {"absent"}]
    BY <1>1, <1>5 DEF TypeOK, MandateStatuses
  <2>2. \A n \in MandateIds : Exists(n)' <=> revision'[n] # 0
    BY <1>1, <1>5 DEF Exists, MInv, Types, TypeOK
  <2> QED BY <1>1, <1>2, <1>4, <1>5, <2>1, <2>2 DEF TypeOK, Types
<1>7. OwnedReqs'
  BY <1>1, <1>3, <1>5 DEF OwnedReqs, MInv, Exists, TypeOK
<1>8. OnlyCurrentInForce'
  BY <1>1, <1>5 DEF OnlyCurrentInForce, MInv, TypeOK
<1>9. WaitsForSomething'
  <2> SUFFICES ASSUME NEW n \in MandateIds
               PROVE  /\ status'[n] = "pending_requirements" => OpenRequirements(n)' # {}
                      /\ status'[n] = "tracking" =>
                           \A p \in OpenRequirements(n)' : reqs'[p].revision # revision'[n]
    BY DEF WaitsForSomething
  <2>1. CASE n # m
    <3>1. status'[n] = status[n] /\ revision'[n] = revision[n] /\ OpenRequirements(n)' = OpenRequirements(n)
      BY <1>1, <1>3, <1>5, <2>1 DEF TypeOK
    <3> QED BY <1>3, <3>1 DEF MInv, WaitsForSomething, OpenRequirements
  <2>2. CASE n = m
    <3>1. revision'[n] = revision[n] /\ status'[n] = IF starts THEN "tracking" ELSE status[n]
      BY <1>1, <1>5, <2>2 DEF TypeOK
    <3>2. OpenRequirements(n)' = StillOpen(n, q) /\ StillOpen(n, q) \subseteq OpenRequirements(n)
      BY <1>3, <2>2 DEF StillOpen
    <3> QED BY <1>3, <2>2, <3>1, <3>2 DEF MInv, WaitsForSomething, OpenRequirements
  <2> QED BY <2>1, <2>2
<1> QED BY <1>4, <1>6, <1>7, <1>8, <1>9 DEF MInv

-----------------------------------------------------------------------------
(* Commands with idempotency keys *)

\* What was answered has its answer saved.
CommandInv == /\ MInv
              /\ answers \in [Slots -> Commands \cup {NoAnswer}]
              /\ replied \subseteq Slots /\ acted \in [Slots -> 0 .. 2]
              /\ \A s \in replied : answers[s] # NoAnswer

LEMMA CommandsAreTyped ==
    ASSUME NEW c \in Commands
    PROVE  /\ Slot(c) \in Slots /\ c # NoAnswer
           /\ c.op \in Operations
           /\ c.op \in Operations \ {"create"} => c.mandate \in MandateIds
           /\ c.op = "resolve" => c.req \in Requirements
BY DEF Commands, Slot, Slots, NoAnswer, Operations, Targets

\* Each command is one of the four actions.
LEMMA ActIsOneOfFour ==
    ASSUME NEW c \in Commands, Act(c)
    PROVE  \E m \in MandateIds :
              \/ \E needs \in SUBSET Fresh : \/ Create(m, needs, c.body.watch, c.body.timed)
                                             \/ Revise(m, c.expected, needs, c.body.watch, c.body.timed)
              \/ \E target \in {"tracking", "paused", "ended"} : ApplyStatus(m, c.expected, target)
              \/ \E q \in Requirements : ResolveRequirement(m, q)
<1>1. \A n : Draws(n) \subseteq SUBSET Fresh
  BY DEF Draws
<1>2. CASE c.op = "create"
  BY <1>1, <1>2 DEF Act
<1>3. CASE c.op = "revise"
  BY <1>1, <1>3, CommandsAreTyped DEF Act, Operations
<1>4. CASE c.op = "resolve"
  BY <1>4, CommandsAreTyped DEF Act, Operations
<1>5. CASE c.op \in {"tracking", "paused", "ended"}
  <2>1. ApplyStatus(c.mandate, c.expected, c.op)
    BY <1>5 DEF Act
  <2> QED BY <1>5, <2>1, CommandsAreTyped DEF Operations
<1> QED BY <1>2, <1>3, <1>4, <1>5, CommandsAreTyped DEF Operations

LEMMA ActKeepsMInv == ASSUME MInv, NEW c \in Commands, Act(c) PROVE MInv'
BY ActIsOneOfFour, CreateKeepsMInv, ReviseKeepsMInv, ApplyStatusKeepsMInv, ResolveKeepsMInv

LEMMA StepKeepsCommandInv == ASSUME CommandInv, [CNext]_commandVars PROVE CommandInv'
<1>1. CASE UNCHANGED commandVars
  BY <1>1 DEF commandVars, mandateVars, CommandInv, MInv, Types, TypeOK, OwnedReqs, Exists,
              OnlyCurrentInForce, WaitsForSomething, OpenRequirements
<1>2. ASSUME NEW c \in Commands, Execute(c) PROVE CommandInv'
  <2>1. MInv'
    BY <1>2, ActKeepsMInv DEF CommandInv, Execute
  <2>2. Slot(c) \in Slots /\ c # NoAnswer
    BY CommandsAreTyped
  <2>3. /\ answers' = [answers EXCEPT ![Slot(c)] = c] /\ replied' = replied \cup {Slot(c)}
        /\ acted' = [acted EXCEPT ![Slot(c)] = IF TookEffect /\ @ < 2 THEN @ + 1 ELSE @]
    BY <1>2 DEF Execute, Save
  <2>4. answers' \in [Slots -> Commands \cup {NoAnswer}] /\ \A s \in replied' : answers'[s] # NoAnswer
    BY <2>2, <2>3 DEF CommandInv
  <2>5. acted' \in [Slots -> 0 .. 2]
    <3> DEFINE new == IF TookEffect /\ acted[Slot(c)] < 2 THEN acted[Slot(c)] + 1 ELSE acted[Slot(c)]
    <3>1. acted[Slot(c)] \in 0 .. 2
      BY <2>2 DEF CommandInv
    <3>2. new \in 0 .. 2
      BY <3>1
    <3> HIDE DEF new
    <3>3. acted' = [acted EXCEPT ![Slot(c)] = new]
      BY <2>3 DEF new
    <3> QED BY <3>2, <3>3 DEF CommandInv
  <2> QED BY <2>1, <2>2, <2>3, <2>4, <2>5 DEF CommandInv
<1> QED BY <1>1, <1>2 DEF CNext

LEMMA CommandInvAlways == CSpec => []CommandInv
<1>1. CInit => CommandInv
  BY MInvAtInit DEF CInit, CommandInv, NoAnswer
<1> QED BY <1>1, StepKeepsCommandInv, PTL DEF CSpec

\* The types, and: dependencies and schedules in force are those of the
\* current revision, and an ended mandate has no dependencies.
THEOREM OldRevisionsRouteNothing == CSpec => []CommandsTypeOK
<1>1. CommandInv => CommandsTypeOK
  BY DEF CommandInv, MInv, Types, CommandsTypeOK
<1> QED BY <1>1, CommandInvAlways, PTL

\* A waiting mandate waits for an open requirement, whose closing starts it.
THEOREM NobodyWaitsForNothing == CSpec => []WaitsForSomething
<1>1. CommandInv => WaitsForSomething
  BY DEF CommandInv, MInv
<1> QED BY <1>1, CommandInvAlways, PTL

\* Whoever follows the outbox knows every mandate's status and has heard of
\* each of its revisions exactly once.
THEOREM FollowersKnowTheMandate == CSpec => []OutboxTellsTheMandate
<1>1. MInv => OutboxTellsTheMandate
  BY DEF MInv, OutboxTellsTheMandate, LastTells, EachAnnouncedOnce, Announcements, Announcing
<1> QED BY <1>1, CommandInvAlways, PTL DEF CommandInv

\* A command that was answered never acts again.
THEOREM RepeatsDoNothing == CSpec => AnsweredNeverActs
<1>1. CommandInv /\ [CNext]_commandVars
        => [\A s \in replied : acted'[s] = acted[s]]_commandVars
  <2> SUFFICES ASSUME CommandInv, NEW c \in Commands, Execute(c), NEW s \in replied
               PROVE  acted'[s] = acted[s]
    BY DEF CNext
  <2>1. s # Slot(c) /\ s \in Slots
    BY DEF CommandInv, Execute
  <2> QED BY <2>1 DEF CommandInv, Execute
<1> QED BY <1>1, CommandInvAlways, PTL DEF CSpec, AnsweredNeverActs

\* What the four actions may do to a mandate that was stopped.
StaysStopped ==
    \A m \in MandateIds :
       /\ status[m] = "paused" /\ status'[m] # "paused" => revision'[m] = revision[m]
       /\ status[m] = "ended" =>
             /\ status'[m] = "ended" /\ revision'[m] = revision[m]
             /\ deps'[m] = {} /\ scheds'[m] = scheds[m]

LEMMA ActLeavesStopped ==
    ASSUME MInv, NEW c \in Commands, Act(c) PROVE StaysStopped
<1>1. TypeOK /\ OnlyCurrentInForce
  BY DEF MInv, Types
<1>2. PICK m \in MandateIds :
              \/ \E needs \in SUBSET Fresh : \/ Create(m, needs, c.body.watch, c.body.timed)
                                             \/ Revise(m, c.expected, needs, c.body.watch, c.body.timed)
              \/ \E target \in {"tracking", "paused", "ended"} : ApplyStatus(m, c.expected, target)
              \/ \E q \in Requirements : ResolveRequirement(m, q)
  BY ActIsOneOfFour
<1>3. ASSUME NEW needs, NEW w, NEW t, Create(m, needs, w, t) PROVE StaysStopped
  BY <1>1, <1>3 DEF Create, Exists, StaysStopped, TypeOK, OnlyCurrentInForce
<1>4. ASSUME NEW needs, NEW x, NEW w, NEW t, Revise(m, x, needs, w, t) PROVE StaysStopped
  BY <1>1, <1>4 DEF Revise, MayRevise, NextStatus, ReplaceRows, StaysStopped, TypeOK, OnlyCurrentInForce
<1>5. ASSUME NEW x, NEW target \in {"tracking", "paused", "ended"}, ApplyStatus(m, x, target)
      PROVE  StaysStopped
  <2>1. CASE Effective(m, target) = status[m]
    BY <1>1, <1>5, <2>1 DEF ApplyStatus, StaysStopped, OnlyCurrentInForce
  <2>2. CASE Effective(m, target) # status[m]
    <3> DEFINE to == Effective(m, target)
    <3>1. /\ Allowed(status[m], to) /\ status' = [status EXCEPT ![m] = to]
          /\ deps' = IF to = "ended" THEN [deps EXCEPT ![m] = {}] ELSE deps
          /\ revision' = revision /\ scheds' = scheds
      BY <1>5, <2>2 DEF ApplyStatus, SetStatus
    <3>2. status[m] # "ended"
      BY <3>1 DEF Allowed
    <3> HIDE DEF to
    <3> QED BY <1>1, <3>1, <3>2 DEF StaysStopped, TypeOK, OnlyCurrentInForce
  <2> QED BY <2>1, <2>2
<1>6. ASSUME NEW q, ResolveRequirement(m, q) PROVE StaysStopped
  BY <1>1, <1>6 DEF ResolveRequirement, SetStatus, StaysStopped, TypeOK, OnlyCurrentInForce
<1> QED BY <1>2, <1>3, <1>4, <1>5, <1>6

\* Nothing but a resumption starts a stopped mandate.
THEOREM OnlyResumingStarts == CSpec => StoppedUntilResumed
<1>1. CommandInv /\ [CNext]_commandVars => [StaysStopped]_mandateVars
  BY ActLeavesStopped DEF CNext, Execute, commandVars, CommandInv
<1> QED BY <1>1, CommandInvAlways, PTL DEF CSpec, StoppedUntilResumed, StaysStopped

-----------------------------------------------------------------------------
(* The event pipeline *)

Plans(kind) == [kind : {kind}, mandate : MandateIds, revision : Revisions]

\* What a thread claimed is there: rows of the outbox, events of the inbox.
\* A publisher's recorded event is in the inbox before its row is marked.
TaskInv(w) ==
    \/ task[w] = Idle
    \/ /\ task[w] \in [kind : {"publish"}, todo : SUBSET Rows, recorded : SUBSET Rows]
       /\ \A i \in task[w].todo : row[i].st # "none"
       /\ \A i \in task[w].recorded : inbox[i] # "none"
    \/ /\ task[w] \in [kind : {"route"}, todo : SUBSET EventIds]
       /\ \A e \in task[w].todo : inbox[e] # "none"
    \/ /\ \/ task[w] \in [kind : {"look"}, todo : SUBSET EventIds, event : EventIds, plan : SUBSET Plans("baseline")]
          \/ task[w] \in [kind : {"open"}, todo : SUBSET EventIds, event : EventIds, plan : SUBSET Plans("job")]
       /\ inbox[task[w].event] # "none" /\ \A e \in task[w].todo : inbox[e] # "none"

RowStates == {"none", "pending", "sending", "published", "failed"}

QueueInv ==
    /\ row \in [Rows -> [st : RowStates, tries : 0 .. MaxTries]]
    /\ inbox \in [EventIds -> InboxStatuses]
    /\ faults \in 0 .. MaxFaults /\ DOMAIN task = Threads
    /\ \A i \in Rows : /\ row[i].st # "none" => i <= Len(outbox)
                       /\ inbox[i] # "none" => i <= Len(outbox)
                       /\ row[i].st = "published" => inbox[i] # "none"

\* A job carries its key; keys are unique.
Keyed(j) == /\ j = [key |-> j.key, mandate |-> j.mandate, revision |-> j.revision, state |-> j.state]
            /\ \A e, m, r : j.key = <<"job", e, m, r>> => j.mandate = m
JobsInv(js) == /\ \A j \in js : Keyed(j)
               /\ \A j, k \in js : j.key = k.key => j = k

HasJob(js, e, m) == \E j \in js : j.key[1] = "job" /\ j.key[2] = e /\ j.mandate = m

\* Who is owed a job watches; a thread that opens the jobs of an event has
\* in its plan everybody who is owed one and has none yet.
OwedInv ==
    /\ owed \in [Outside -> SUBSET MandateIds]
    /\ \A e \in Outside : \A m \in owed[e] : Watches(m)
    /\ \A e \in Outside : inbox[e] = "processed" => \A m \in owed[e] : HasJob(jobs, e, m)
    /\ \A w \in Threads : task[w].kind = "open" /\ task[w].event \in Outside =>
          \A m \in owed[task[w].event] :
             HasJob(jobs, task[w].event, m) \/ \E p \in task[w].plan : p.mandate = m

PInv == /\ MInv
        /\ QueueInv
        /\ \A w \in Threads : TaskInv(w)
        /\ JobsInv(jobs)
        /\ OwedInv

-----------------------------------------------------------------------------
(* Jobs *)

\* More jobs, by key and mandate.
Keep(old, new) == \A j \in old : \E k \in new : k.key = j.key /\ k.mandate = j.mandate

LEMMA KeptJobsServe ==
    ASSUME NEW old, NEW new, Keep(old, new), NEW e, NEW m, HasJob(old, e, m)
    PROVE  HasJob(new, e, m)
BY DEF Keep, HasJob

LEMMA CancelKeepsJobs ==
    ASSUME JobsInv(jobs), NEW m, NEW to
    PROVE  JobsInv(CancelOpen(m, to)) /\ Keep(jobs, CancelOpen(m, to))
<1> DEFINE f(j) == IF j.mandate = m /\ j.state = "open" /\ to \in {"paused", "ended"}
                   THEN [j EXCEPT !.state = "cancelled"] ELSE j
<1>1. CancelOpen(m, to) = {f(j) : j \in jobs}
  BY DEF CancelOpen
<1>2. ASSUME NEW j \in jobs PROVE Keyed(f(j)) /\ f(j).key = j.key /\ f(j).mandate = j.mandate
  BY DEF JobsInv, Keyed
<1> HIDE DEF f
<1> QED BY <1>1, <1>2 DEF JobsInv, Keep

LEMMA SettleKeepsJobs ==
    ASSUME JobsInv(jobs), NEW j \in jobs
    PROVE  LET new == (jobs \ {j}) \cup {[j EXCEPT !.state = "settled"]}
           IN  JobsInv(new) /\ Keep(jobs, new)
<1> DEFINE k == [j EXCEPT !.state = "settled"]
           new == (jobs \ {j}) \cup {k}
<1>1. Keyed(k) /\ k.key = j.key /\ k.mandate = j.mandate
  BY DEF JobsInv, Keyed
<1> HIDE DEF k
<1>2. JobsInv(new) /\ Keep(jobs, new)
  BY <1>1 DEF JobsInv, Keep
<1> QED BY <1>2 DEF k

LEMMA InsertKeepsJobs ==
    ASSUME JobsInv(jobs), NEW e, NEW kind \in {"baseline", "job"}, NEW p \in Plans(kind)
    PROVE  LET new == Insert(JobKey(p.kind, e, p.mandate, p.revision), p)
           IN  /\ JobsInv(new) /\ Keep(jobs, new)
               /\ kind = "job" => HasJob(new, e, p.mandate)
<1> DEFINE key == JobKey(p.kind, e, p.mandate, p.revision)
           j == [key |-> key, mandate |-> p.mandate, revision |-> p.revision, state |-> "open"]
           new == Insert(key, p)
<1>1. p.kind = kind
  BY DEF Plans
<1>2. /\ kind = "job" => key = <<"job", e, p.mandate, p.revision>>
      /\ kind = "baseline" => key = <<"baseline", p.mandate, p.revision>>
  BY <1>1 DEF JobKey
<1>3. \A x, m, r : key = <<"job", x, m, r>> => p.mandate = m
  BY <1>2
<1>4. Keyed(j) /\ j.key = key /\ j.mandate = p.mandate
  BY <1>3 DEF Keyed
<1>5. new = IF \E k \in jobs : k.key = key THEN jobs ELSE jobs \cup {j}
  BY DEF Insert
<1>6. kind = "job" => key[1] = "job" /\ key[2] = e
  BY <1>2
<1> HIDE DEF key, j, new
<1>7. JobsInv(new) /\ Keep(jobs, new)
  BY <1>4, <1>5 DEF JobsInv, Keep
<1>8. ASSUME kind = "job" PROVE HasJob(new, e, p.mandate)
  <2>1. CASE \E k \in jobs : k.key = key
    <3>1. PICK k \in jobs : k.key = key
      BY <2>1
    <3>2. k.mandate = p.mandate
      BY <1>2, <1>8, <3>1 DEF JobsInv, Keyed
    <3> QED BY <1>5, <1>6, <1>8, <2>1, <3>1, <3>2 DEF HasJob
  <2>2. CASE ~ \E k \in jobs : k.key = key
    BY <1>4, <1>5, <1>6, <1>8, <2>2 DEF HasJob
  <2> QED BY <2>1, <2>2
<1> QED BY <1>7, <1>8 DEF new, key

-----------------------------------------------------------------------------
(* Steps of the pipeline *)

LEMMA CommandKeepsMInv == ASSUME MInv, NEW m \in MandateIds, Command(m) PROVE MInv'
BY CreateKeepsMInv, ReviseKeepsMInv, ApplyStatusKeepsMInv, ResolveKeepsMInv DEF Command

LEMMA EmitGrows ==
    ASSUME NEW l \in Seq(OutboxEvent), NEW d, NEW e
    PROVE  Len(l) <= Len(l \o <<e>>) /\ Len(l) <= Len(l \o <<d, e>>)
<1> DEFINE S == OutboxEvent \cup {d, e}
<1>1. l \in Seq(S) /\ <<e>> \in Seq(S) /\ <<d, e>> \in Seq(S) /\ Len(<<e>>) = 1 /\ Len(<<d, e>>) = 2
  OBVIOUS
<1> HIDE DEF S
<1>2. Len(l \o <<e>>) = Len(l) + 1 /\ Len(l \o <<d, e>>) = Len(l) + 2 /\ Len(l) \in Nat
  BY <1>1
<1> QED BY <1>2

\* A command adds to the outbox, touches one mandate and may cancel jobs.
LEMMA CommandFrame ==
    ASSUME MInv, NEW m \in MandateIds, Command(m)
    PROVE  /\ Len(outbox) <= Len(outbox')
           /\ \A n \in MandateIds : n # m => status'[n] = status[n] /\ deps'[n] = deps[n]
           /\ jobs' = jobs \/ \E to : jobs' = CancelOpen(m, to)
<1>1. TypeOK /\ outbox \in Seq(OutboxEvent) /\ Len(outbox) \in Nat
  BY DEF MInv, Types
<1>2. ASSUME NEW needs, NEW w, NEW t, Create(m, needs, w, t)
      PROVE  /\ Len(outbox) <= Len(outbox') /\ jobs' = jobs
             /\ \A n \in MandateIds : n # m => status'[n] = status[n] /\ deps'[n] = deps[n]
  <2>1. \E d, e : outbox' \in {outbox \o <<e>>, outbox \o <<d, e>>}
    BY <1>2 DEF Create, Emit
  <2>2. Len(outbox) <= Len(outbox')
    BY <1>1, <2>1, EmitGrows
  <2> QED BY <1>1, <1>2, <2>2 DEF Create, TypeOK
<1>3. ASSUME NEW needs, NEW x, NEW w, NEW t, Revise(m, x, needs, w, t)
      PROVE  /\ Len(outbox) <= Len(outbox') /\ jobs' = jobs
             /\ \A n \in MandateIds : n # m => status'[n] = status[n] /\ deps'[n] = deps[n]
  <2>1. \E d, e : outbox' \in {outbox \o <<e>>, outbox \o <<d, e>>}
    BY <1>3 DEF Revise, Emit
  <2>2. Len(outbox) <= Len(outbox')
    BY <1>1, <2>1, EmitGrows
  <2> QED BY <1>1, <1>3, <2>2 DEF Revise, ReplaceRows, TypeOK
<1>4. ASSUME NEW to, NEW hook, SetStatus(m, to, hook)
      PROVE  /\ Len(outbox) <= Len(outbox') /\ jobs' = CancelOpen(m, to)
             /\ \A n \in MandateIds : n # m => status'[n] = status[n] /\ deps'[n] = deps[n]
  <2>1. Len(outbox) <= Len(outbox')
    BY <1>1, <1>4, EmitGrows DEF SetStatus, Emit
  <2> QED BY <1>1, <1>4, <2>1 DEF SetStatus, TypeOK
<1>5. ASSUME NEW x, NEW target, ApplyStatus(m, x, target)
      PROVE  UNCHANGED <<status, jobs, deps, outbox>> \/ \E to, hook : SetStatus(m, to, hook)
  BY <1>5 DEF ApplyStatus
<1>6. ASSUME NEW q, ResolveRequirement(m, q)
      PROVE  UNCHANGED <<status, jobs, deps, outbox>> \/ \E to, hook : SetStatus(m, to, hook)
  BY <1>6 DEF ResolveRequirement
<1>7. CASE UNCHANGED <<status, jobs, deps, outbox>>
  BY <1>1, <1>7
<1> QED BY <1>2, <1>3, <1>4, <1>5, <1>6, <1>7 DEF Command

LEMMA CommandStepKeepsPInv == ASSUME PInv, NEW m \in MandateIds, CommandStep(m) PROVE PInv'
<1>1. MInv' /\ MInv
  BY CommandKeepsMInv DEF PInv, CommandStep
<1>2. MaxEvents \in Nat /\ MaxTries \in Nat
  BY MandatesAssumption, PipelineAssumption
<1>3. /\ Len(outbox) <= Len(outbox') /\ Len(outbox) \in Nat /\ Len(outbox') \in Nat
      /\ \A n \in MandateIds : n # m => status'[n] = status[n] /\ deps'[n] = deps[n]
      /\ jobs' = jobs \/ \E to : jobs' = CancelOpen(m, to)
  BY <1>1, CommandFrame DEF CommandStep, MInv, Types
<1>4. /\ row' = [i \in Rows |-> IF i \in Len(outbox) + 1 .. Len(outbox') THEN NewRow ELSE row[i]]
      /\ owed' = [e \in Outside |-> IF Watches(m)' THEN owed[e] ELSE owed[e] \ {m}]
      /\ UNCHANGED <<inbox, task, faults>>
  BY DEF CommandStep
<1>5. NewRow \in [st : RowStates, tries : 0 .. MaxTries] /\ NewRow.st = "pending"
  BY <1>2 DEF NewRow, RowStates
<1>6. QueueInv'
  <2>1. row' \in [Rows -> [st : RowStates, tries : 0 .. MaxTries]]
    BY <1>4, <1>5 DEF PInv, QueueInv
  <2>2. ASSUME NEW i \in Rows
        PROVE  /\ row'[i].st # "none" => i <= Len(outbox')
               /\ inbox'[i] # "none" => i <= Len(outbox')
               /\ row'[i].st = "published" => inbox'[i] # "none"
    <3>1. row'[i] = IF i \in Len(outbox) + 1 .. Len(outbox') THEN NewRow ELSE row[i]
      BY <1>4
    <3>2. i \in Nat
      BY <1>2 DEF Rows
    <3> QED BY <1>3, <1>4, <1>5, <3>1, <3>2 DEF PInv, QueueInv
  <2> QED BY <1>4, <2>1, <2>2 DEF PInv, QueueInv
<1>7. ASSUME NEW w \in Threads PROVE TaskInv(w)'
  <2>1. \A i \in Rows : row[i].st # "none" => row'[i].st # "none"
    BY <1>4, <1>5
  <2>2. TaskInv(w) /\ task' = task /\ inbox' = inbox
    BY <1>4 DEF PInv
  <2> QED BY <2>1, <2>2 DEF TaskInv
<1>8. JobsInv(jobs') /\ Keep(jobs, jobs')
  <2>1. JobsInv(jobs) /\ Keep(jobs, jobs)
    BY DEF PInv, Keep
  <2> QED BY <1>3, <2>1, CancelKeepsJobs
<1>9. OwedInv'
  <2>1. \A e \in Outside : owed'[e] \subseteq owed[e] /\ owed'[e] \in SUBSET MandateIds
    BY <1>4 DEF PInv, OwedInv
  <2>2. \A e \in Outside : \A n \in owed'[e] : Watches(n)'
    <3> TAKE e \in Outside
    <3> TAKE n \in owed'[e]
    <3>1. CASE n = m
      BY <1>4, <3>1
    <3>2. CASE n # m
      BY <1>3, <2>1, <3>2 DEF PInv, OwedInv, Watches
    <3> QED BY <3>1, <3>2
  <2>3. \A e, n : HasJob(jobs, e, n) => HasJob(jobs', e, n)
    BY <1>8, KeptJobsServe
  <2>4. owed' \in [Outside -> SUBSET MandateIds]
    BY <1>4, <2>1
  <2> QED BY <1>4, <2>1, <2>2, <2>3, <2>4 DEF PInv, OwedInv
<1> QED BY <1>1, <1>6, <1>7, <1>8, <1>9 DEF PInv

\* The mandates are left alone.
LEMMA MInvStays ==
    ASSUME MInv, UNCHANGED <<status, revision, reqs, deps, scheds, outbox>> PROVE MInv'
BY DEF MInv, Types, TypeOK, OwnedReqs, Exists, OnlyCurrentInForce, WaitsForSomething, OpenRequirements

\* Nothing leaves the outbox or the inbox.
Grows == /\ \A i \in Rows : row[i].st # "none" => row'[i].st # "none"
         /\ \A e \in EventIds : inbox[e] # "none" => inbox'[e] # "none"

LEMMA TaskStays == ASSUME NEW w, TaskInv(w), task'[w] = task[w], Grows PROVE TaskInv(w)'
<1>1. Rows \subseteq EventIds
  BY DEF EventIds
<1> QED BY <1>1 DEF TaskInv, Grows

\* Everybody who is owed a job of the event has it or is in the plan.
Serves(js, e, plan, who) ==
    \A m \in who : HasJob(js, e, m) \/ \E p \in plan : p.mandate = m

LEMMA OwedStays ==
    ASSUME OwedInv, UNCHANGED <<status, deps, owed>>, Keep(jobs, jobs'),
           \A e \in Outside : inbox'[e] = "processed" =>
              inbox[e] = "processed" \/ Serves(jobs', e, {}, owed[e]),
           \A w \in Threads : task'[w].kind = "open" /\ task'[w].event \in Outside =>
              task'[w] = task[w] \/ Serves(jobs', task'[w].event, task'[w].plan, owed[task'[w].event])
    PROVE  OwedInv'
<1>1. \A e, m : HasJob(jobs, e, m) => HasJob(jobs', e, m)
  BY KeptJobsServe
<1>2. \A e \in Outside : \A m \in owed'[e] : Watches(m)'
  BY DEF OwedInv, Watches
<1>3. \A e \in Outside : inbox'[e] = "processed" => \A m \in owed'[e] : HasJob(jobs', e, m)
  BY <1>1 DEF OwedInv, Serves
<1>4. ASSUME NEW w \in Threads, task'[w].kind = "open", task'[w].event \in Outside, NEW m \in owed'[task'[w].event]
      PROVE  HasJob(jobs', task'[w].event, m) \/ \E p \in task'[w].plan : p.mandate = m
  <2>1. CASE task'[w] = task[w]
    BY <1>1, <1>4, <2>1 DEF OwedInv
  <2>2. CASE Serves(jobs', task'[w].event, task'[w].plan, owed[task'[w].event])
    BY <1>4, <2>2 DEF Serves
  <2> QED BY <1>4, <2>1, <2>2
<1> QED BY <1>2, <1>3, <1>4 DEF OwedInv

LEMMA SameJobs == Keep(jobs, jobs)
BY DEF Keep

LEMMA SettleJobKeepsPInv == ASSUME PInv, NEW j \in jobs, SettleJob(j) PROVE PInv'
<1> USE DEF SettleJob, pipeVars, PInv
<1>1. MInv'
  BY MInvStays
<1>2. JobsInv(jobs') /\ Keep(jobs, jobs')
  BY SettleKeepsJobs
<1>3. QueueInv' /\ \A w \in Threads : TaskInv(w)'
  BY DEF QueueInv, TaskInv
<1>4. OwedInv'
  BY <1>2, OwedStays
<1> QED BY <1>1, <1>2, <1>3, <1>4

LEMMA IngestKeepsPInv == ASSUME PInv, NEW e \in Outside, Ingest(e) PROVE PInv'
<1>1. /\ inbox[e] = "none" /\ inbox' = [inbox EXCEPT ![e] = "pending"]
      /\ owed' = [owed EXCEPT ![e] = {m \in MandateIds : Watches(m)}]
      /\ UNCHANGED <<mandateVars, row, task, faults>> /\ inbox \in [EventIds -> InboxStatuses]
      /\ e \in EventIds /\ e \notin Rows /\ Rows \subseteq EventIds
  BY PipelineAssumption DEF Ingest, PInv, QueueInv, EventIds, Rows
<1>2. MInv'
  BY <1>1, MInvStays DEF PInv, mandateVars
<1>3. QueueInv'
  BY <1>1 DEF PInv, QueueInv, InboxStatuses, mandateVars
<1>4. Grows
  BY <1>1 DEF Grows
<1>5. \A w \in Threads : TaskInv(w)'
  BY <1>1, <1>4, TaskStays DEF PInv
<1>6. \A w \in Threads : task[w].kind = "open" => inbox[task[w].event] # "none"
  BY DEF PInv, TaskInv, Idle
<1>7. OwedInv'
  BY <1>1, <1>6 DEF PInv, OwedInv, Watches, mandateVars
<1>8. JobsInv(jobs')
  BY <1>1 DEF PInv, mandateVars
<1> QED BY <1>2, <1>3, <1>5, <1>7, <1>8 DEF PInv

\* A thread's step that leaves mandates, jobs and what is owed alone.
LEMMA ThreadStepKeepsPInv ==
    ASSUME PInv, NEW w \in Threads, UNCHANGED <<mandateVars, owed>>, QueueInv', Grows, TaskInv(w)',
           \A u \in Threads \ {w} : task'[u] = task[u],
           \A e \in Outside : inbox'[e] = "processed" =>
              inbox[e] = "processed" \/ Serves(jobs, e, {}, owed[e]),
           task'[w].kind = "open" /\ task'[w].event \in Outside =>
              Serves(jobs, task'[w].event, task'[w].plan, owed[task'[w].event])
    PROVE  PInv'
<1>1. MInv'
  BY MInvStays DEF PInv, mandateVars
<1>2. \A u \in Threads : TaskInv(u)'
  BY TaskStays DEF PInv
<1>3. OwedInv' /\ JobsInv(jobs')
  BY SameJobs, OwedStays DEF PInv, mandateVars
<1> QED BY <1>1, <1>2, <1>3 DEF PInv

LEMMA ClaimOutboxKeepsPInv ==
    ASSUME PInv, NEW w \in Threads, NEW batch, ClaimOutbox(w, batch) PROVE PInv'
<1>1. /\ UNCHANGED <<mandateVars, inbox, owed, faults>>
      /\ batch \subseteq InState("pending") \cup InState("sending")
      /\ task' = [task EXCEPT ![w] = Publishing(batch)]
      /\ row' = [i \in Rows |->
                 IF i \in batch
                 THEN [st |-> "sending", tries |-> IF row[i].tries < MaxTries THEN row[i].tries + 1 ELSE MaxTries]
                 ELSE row[i]]
      /\ QueueInv /\ MaxTries \in Nat
  BY PipelineAssumption DEF ClaimOutbox, PInv
<1>2. \A i \in batch : i \in Rows /\ row[i].st # "none"
  BY <1>1 DEF InState
<1>3. QueueInv'
  <2>1. \A i \in Rows : (IF row[i].tries < MaxTries THEN row[i].tries + 1 ELSE MaxTries) \in 0 .. MaxTries
    BY <1>1 DEF QueueInv
  <2>2. row' \in [Rows -> [st : RowStates, tries : 0 .. MaxTries]]
    BY <1>1, <2>1 DEF QueueInv, RowStates
  <2>3. \A i \in Rows : /\ row'[i].st # "none" => row[i].st # "none"
                        /\ row'[i].st = "published" => row[i].st = "published"
    BY <1>1, <1>2
  <2> QED BY <1>1, <2>2, <2>3 DEF QueueInv, mandateVars
<1>4. Grows
  BY <1>1 DEF Grows
<1>5. task'[w] = Publishing(batch) /\ \A u \in Threads \ {w} : task'[u] = task[u]
  BY <1>1 DEF QueueInv
<1>6. TaskInv(w)'
  <2>1. task'[w] \in [kind : {"publish"}, todo : SUBSET Rows, recorded : SUBSET Rows]
    BY <1>2, <1>5 DEF Publishing
  <2>2. task'[w].todo = batch /\ task'[w].recorded = {}
    BY <1>5 DEF Publishing
  <2> QED BY <1>2, <1>4, <2>1, <2>2 DEF TaskInv, Grows
<1>7. task'[w].kind = "publish"
  BY <1>5 DEF Publishing
<1> QED BY <1>1, <1>3, <1>4, <1>5, <1>6, <1>7, ThreadStepKeepsPInv

LEMMA RecordMessageKeepsPInv ==
    ASSUME PInv, NEW w \in Threads, NEW i \in Rows, RecordMessage(w, i) PROVE PInv'
<1>1. /\ UNCHANGED <<mandateVars, row, owed, faults>> /\ QueueInv /\ TaskInv(w)
      /\ task[w].kind = "publish" /\ i \in task[w].todo
      /\ inbox' = [inbox EXCEPT ![i] = IF @ = "none" THEN "pending" ELSE @]
      /\ task' = [task EXCEPT ![w].recorded = {i}]
  BY DEF RecordMessage, Recorded, PInv
<1>2. /\ task[w] \in [kind : {"publish"}, todo : SUBSET Rows, recorded : SUBSET Rows]
      /\ \A k \in task[w].todo : row[k].st # "none"
  BY <1>1 DEF TaskInv, Idle
<1>3. i \in EventIds /\ Rows \subseteq EventIds
  BY DEF EventIds
<1>4. Grows /\ inbox'[i] # "none" /\ inbox' \in [EventIds -> InboxStatuses]
      /\ \A e \in EventIds : /\ inbox'[e] = "processed" => inbox[e] = "processed"
                             /\ e # i => inbox'[e] = inbox[e]
  BY <1>1, <1>3 DEF Grows, QueueInv, InboxStatuses
<1>5. QueueInv'
  BY <1>1, <1>2, <1>3, <1>4 DEF QueueInv, mandateVars
<1>6. task'[w] = [task[w] EXCEPT !.recorded = {i}] /\ \A u \in Threads \ {w} : task'[u] = task[u]
  BY <1>1 DEF QueueInv
<1>7. /\ task'[w] \in [kind : {"publish"}, todo : SUBSET Rows, recorded : SUBSET Rows]
      /\ task'[w].todo = task[w].todo /\ task'[w].recorded = {i} /\ task'[w].kind = "publish"
  BY <1>2, <1>6
<1>8. TaskInv(w)'
  BY <1>1, <1>2, <1>4, <1>7 DEF TaskInv
<1>9. \A e \in Outside : inbox'[e] = "processed" => inbox[e] = "processed"
  BY <1>4 DEF EventIds
<1> QED BY <1>1, <1>4, <1>5, <1>6, <1>7, <1>8, <1>9, ThreadStepKeepsPInv

LEMMA MarkOutboxKeepsPInv ==
    ASSUME PInv, NEW w \in Threads, NEW i \in Rows, MarkOutbox(w, i) PROVE PInv'
<1>1. /\ UNCHANGED <<mandateVars, inbox, owed>> /\ QueueInv /\ TaskInv(w)
      /\ task[w].kind = "publish" /\ i \in task[w].todo
      /\ \/ i \in task[w].recorded /\ row' = [row EXCEPT ![i].st = "published"] /\ faults' = faults
         \/ row' = [row EXCEPT ![i].st = "failed"] /\ faults < MaxFaults /\ faults' = faults + 1
      /\ task' = [task EXCEPT ![w] = IF task[w].todo = {i} THEN Idle ELSE Publishing(task[w].todo \ {i})]
      /\ MaxFaults \in Nat
  BY PipelineAssumption DEF MarkOutbox, MayPublish, PInv
<1>2. /\ task[w] \in [kind : {"publish"}, todo : SUBSET Rows, recorded : SUBSET Rows]
      /\ \A k \in task[w].todo : row[k].st # "none"
      /\ \A k \in task[w].recorded : inbox[k] # "none"
  BY <1>1 DEF TaskInv, Idle
<1>3. /\ row' \in [Rows -> [st : RowStates, tries : 0 .. MaxTries]]
      /\ \A k \in Rows : k # i => row'[k] = row[k]
      /\ row'[i].st # "none" /\ row[i].st # "none"
      /\ row'[i].st = "published" => inbox[i] # "none"
  <2>1. row[i] \in [st : RowStates, tries : 0 .. MaxTries] /\ row[i].st # "none"
    BY <1>1, <1>2 DEF QueueInv
  <2>2. CASE i \in task[w].recorded /\ row' = [row EXCEPT ![i].st = "published"]
    BY <1>1, <1>2, <2>1, <2>2 DEF QueueInv, RowStates
  <2>3. CASE row' = [row EXCEPT ![i].st = "failed"]
    BY <1>1, <1>2, <2>1, <2>3 DEF QueueInv, RowStates
  <2> QED BY <1>1, <2>2, <2>3
<1>4. Grows
  BY <1>1, <1>3 DEF Grows
<1>5. QueueInv'
  <2>1. faults' \in 0 .. MaxFaults
    BY <1>1 DEF QueueInv
  <2>2. \A k \in Rows : /\ row'[k].st # "none" => k <= Len(outbox)
                        /\ row'[k].st = "published" => inbox[k] # "none"
    BY <1>1, <1>3 DEF QueueInv
  <2> QED BY <1>1, <1>3, <2>1, <2>2 DEF QueueInv, mandateVars
<1>6. /\ task'[w] = IF task[w].todo = {i} THEN Idle ELSE Publishing(task[w].todo \ {i})
      /\ \A u \in Threads \ {w} : task'[u] = task[u]
  BY <1>1 DEF QueueInv
<1>7. TaskInv(w)' /\ task'[w].kind # "open"
  <2>1. CASE task[w].todo = {i}
    BY <1>6, <2>1 DEF TaskInv, Idle
  <2>2. CASE task[w].todo # {i}
    <3>1. task'[w] = Publishing(task[w].todo \ {i})
      BY <1>6, <2>2
    <3>2. /\ task'[w] \in [kind : {"publish"}, todo : SUBSET Rows, recorded : SUBSET Rows]
          /\ task'[w].todo \subseteq task[w].todo /\ task'[w].recorded = {}
      BY <1>2, <3>1 DEF Publishing
    <3> QED BY <1>2, <1>4, <3>2 DEF TaskInv, Grows
  <2> QED BY <2>1, <2>2
<1> QED BY <1>1, <1>4, <1>5, <1>6, <1>7, ThreadStepKeepsPInv

LEMMA ClaimInboxKeepsPInv ==
    ASSUME PInv, NEW w \in Threads, NEW batch, ClaimInbox(w, batch) PROVE PInv'
<1>1. /\ UNCHANGED <<mandateVars, row, owed, faults>> /\ QueueInv
      /\ batch \subseteq Pending
      /\ inbox' = [e \in EventIds |-> IF e \in batch THEN "processing" ELSE inbox[e]]
      /\ task' = [task EXCEPT ![w] = Routing(batch)]
  BY DEF ClaimInbox, PInv
<1>2. \A e \in batch : e \in EventIds /\ inbox[e] # "none" /\ inbox'[e] # "none"
  BY <1>1 DEF Pending
<1>3. /\ Grows
      /\ \A e \in EventIds : inbox'[e] \in InboxStatuses
      /\ \A e \in EventIds : /\ inbox'[e] = "processed" => inbox[e] = "processed"
                             /\ inbox'[e] # "none" => inbox[e] # "none"
  BY <1>1, <1>2 DEF Grows, QueueInv, InboxStatuses
<1>4. QueueInv'
  <2>1. Rows \subseteq EventIds
    BY DEF EventIds
  <2>2. inbox' \in [EventIds -> InboxStatuses]
    BY <1>1, <1>3
  <2> QED BY <1>1, <1>3, <2>1, <2>2 DEF QueueInv, mandateVars, Grows
<1>5. task'[w] = Routing(batch) /\ \A u \in Threads \ {w} : task'[u] = task[u]
  BY <1>1 DEF QueueInv
<1>6. TaskInv(w)' /\ task'[w].kind # "open"
  <2>1. task'[w] \in [kind : {"route"}, todo : SUBSET EventIds] /\ task'[w].todo = batch
    BY <1>2, <1>5 DEF Routing
  <2> QED BY <1>2, <2>1 DEF TaskInv
<1>7. \A e \in Outside : inbox'[e] = "processed" => inbox[e] = "processed"
  BY <1>3 DEF EventIds
<1> QED BY <1>1, <1>3, <1>4, <1>5, <1>6, <1>7, ThreadStepKeepsPInv

LEMMA PlansAreTyped ==
    ASSUME PInv, NEW e \in EventIds, inbox[e] # "none"
    PROVE  /\ BaselinePlan(e) \subseteq Plans("baseline")
           /\ ReviewPlan(e) \subseteq Plans("job")
           /\ e \in Outside => Serves(jobs, e, ReviewPlan(e), owed[e])
<1>1. TypeOK /\ outbox \in Seq(OutboxEvent) /\ QueueInv /\ MaxEvents \in Nat
  BY MandatesAssumption DEF PInv, MInv, Types
<1>2. e \in Rows => outbox[e].mandate \in MandateIds /\ outbox[e].revision \in Revisions
  <2> SUFFICES ASSUME e \in Rows PROVE outbox[e] \in OutboxEvent
    BY DEF OutboxEvent
  <2>1. e \in 1 .. Len(outbox)
    BY <1>1 DEF QueueInv, Rows
  <2> QED BY <1>1, <2>1
<1>3. BaselinePlan(e) \subseteq Plans("baseline")
  BY <1>2 DEF BaselinePlan, Plans
<1>4. ReviewPlan(e) \subseteq Plans("job")
  BY DEF ReviewPlan, Plans
<1>5. ASSUME e \in Outside, NEW m \in owed[e] PROVE \E p \in ReviewPlan(e) : p.mandate = m
  <2>1. m \in MandateIds /\ status[m] = "tracking" /\ deps[m] # {} /\ deps[m] \subseteq Revisions
    BY <1>1, <1>5 DEF PInv, OwedInv, Watches, TypeOK
  <2>2. PICK r \in Revisions : r \in deps[m]
    BY <2>1
  <2>3. <<m, r>> \in {p \in MandateIds \X Revisions :
                        e \in Outside /\ status[p[1]] = "tracking" /\ p[2] \in deps[p[1]]}
    BY <1>5, <2>1, <2>2
  <2>4. [kind |-> "job", mandate |-> <<m, r>>[1], revision |-> <<m, r>>[2]] \in ReviewPlan(e)
    BY <2>3 DEF ReviewPlan
  <2> QED BY <2>4
<1> QED BY <1>3, <1>4, <1>5 DEF Serves

LEMMA LookKeepsPInv ==
    ASSUME PInv, NEW w \in Threads, NEW e \in EventIds, LookAtEvent(w, e) PROVE PInv'
<1>1. /\ UNCHANGED <<mandateVars, row, inbox, owed, faults>> /\ QueueInv /\ TaskInv(w)
      /\ task[w].kind = "route" /\ e \in task[w].todo
      /\ task' = [task EXCEPT ![w] = Looking(task[w].todo, e, BaselinePlan(e))]
  BY DEF LookAtEvent, PInv
<1>2. task[w].todo \in SUBSET EventIds /\ \A x \in task[w].todo : inbox[x] # "none"
  BY <1>1 DEF TaskInv, Idle
<1>3. BaselinePlan(e) \subseteq Plans("baseline")
  BY <1>1, <1>2, PlansAreTyped
<1>4. QueueInv' /\ Grows
  BY <1>1 DEF QueueInv, mandateVars, Grows
<1>5. task'[w] = Looking(task[w].todo, e, BaselinePlan(e)) /\ \A u \in Threads \ {w} : task'[u] = task[u]
  BY <1>1 DEF QueueInv
<1>6. TaskInv(w)' /\ task'[w].kind # "open"
  <2>1. /\ task'[w] \in [kind : {"look"}, todo : SUBSET EventIds, event : EventIds, plan : SUBSET Plans("baseline")]
        /\ task'[w].event = e /\ task'[w].todo = task[w].todo /\ task'[w].kind = "look"
    BY <1>2, <1>3, <1>5 DEF Looking
  <2>2. inbox' = inbox
    BY <1>1
  <2> QED BY <1>1, <1>2, <2>1, <2>2 DEF TaskInv
<1> QED BY <1>1, <1>4, <1>5, <1>6, ThreadStepKeepsPInv

LEMMA MatchKeepsPInv == ASSUME PInv, NEW w \in Threads, MatchEvent(w) PROVE PInv'
<1> DEFINE e == task[w].event
<1>1. /\ UNCHANGED <<mandateVars, row, inbox, owed, faults>> /\ QueueInv /\ TaskInv(w)
      /\ task[w].kind = "look"
      /\ task' = [task EXCEPT ![w] = Opening(task[w].todo, e, ReviewPlan(e))]
  BY DEF MatchEvent, PInv
<1>2. /\ e \in EventIds /\ inbox[e] # "none"
      /\ task[w].todo \in SUBSET EventIds /\ \A x \in task[w].todo : inbox[x] # "none"
  BY <1>1 DEF TaskInv, Idle
<1> HIDE DEF e
<1>3. ReviewPlan(e) \subseteq Plans("job") /\ (e \in Outside => Serves(jobs, e, ReviewPlan(e), owed[e]))
  BY <1>2, PlansAreTyped
<1>4. QueueInv' /\ Grows
  BY <1>1 DEF QueueInv, mandateVars, Grows
<1>5. task'[w] = Opening(task[w].todo, e, ReviewPlan(e)) /\ \A u \in Threads \ {w} : task'[u] = task[u]
  BY <1>1 DEF QueueInv
<1>6. /\ task'[w] \in [kind : {"open"}, todo : SUBSET EventIds, event : EventIds, plan : SUBSET Plans("job")]
      /\ task'[w].event = e /\ task'[w].todo = task[w].todo /\ task'[w].plan = ReviewPlan(e)
  BY <1>2, <1>3, <1>5 DEF Opening
<1>7. TaskInv(w)'
  BY <1>1, <1>2, <1>6 DEF TaskInv
<1> QED BY <1>1, <1>3, <1>4, <1>5, <1>6, <1>7, ThreadStepKeepsPInv

LEMMA CreateJobKeepsPInv ==
    ASSUME PInv, NEW w \in Threads, NEW p \in task[w].plan, CreateJob(w, p) PROVE PInv'
<1> DEFINE e == task[w].event
           kind == IF task[w].kind = "look" THEN "baseline" ELSE "job"
<1>1. /\ UNCHANGED <<status, revision, reqs, deps, scheds, outbox, row, inbox, owed, faults>>
      /\ QueueInv /\ TaskInv(w) /\ task[w].kind \in {"look", "open"}
      /\ jobs' = Insert(JobKey(p.kind, e, p.mandate, p.revision), p)
      /\ task' = [task EXCEPT ![w].plan = @ \ {p}]
  BY DEF CreateJob, PInv
<1>2. /\ task[w] \in [kind : {task[w].kind}, todo : SUBSET EventIds, event : EventIds, plan : SUBSET Plans(kind)]
      /\ inbox[e] # "none" /\ \A x \in task[w].todo : inbox[x] # "none"
  BY <1>1 DEF TaskInv, Idle
<1>3. p \in Plans(kind) /\ kind \in {"baseline", "job"}
  BY <1>2
<1>4. /\ task'[w] = [task[w] EXCEPT !.plan = @ \ {p}]
      /\ \A u \in Threads \ {w} : task'[u] = task[u]
  BY <1>1 DEF QueueInv
<1>5. /\ task'[w] \in [kind : {task[w].kind}, todo : SUBSET EventIds, event : EventIds, plan : SUBSET Plans(kind)]
      /\ task'[w].plan = task[w].plan \ {p} /\ task'[w].event = e /\ task'[w].todo = task[w].todo
      /\ task'[w].kind = task[w].kind
  BY <1>2, <1>4
<1>6. TaskInv(w)'
  BY <1>1, <1>2, <1>5 DEF TaskInv
<1>7. /\ JobsInv(jobs') /\ Keep(jobs, jobs')
      /\ kind = "job" => HasJob(jobs', e, p.mandate)
  BY <1>1, <1>3, InsertKeepsJobs DEF PInv
<1>8. task[w].kind = "open" /\ e \in Outside => Serves(jobs', e, task'[w].plan, owed[e])
  <2> SUFFICES ASSUME task[w].kind = "open", e \in Outside, NEW m \in owed[e]
               PROVE  HasJob(jobs', e, m) \/ \E x \in task'[w].plan : x.mandate = m
    BY DEF Serves
  <2>1. HasJob(jobs, e, m) \/ \E x \in task[w].plan : x.mandate = m
    BY DEF PInv, OwedInv
  <2>2. HasJob(jobs, e, m) => HasJob(jobs', e, m)
    BY <1>7, KeptJobsServe
  <2>3. HasJob(jobs', e, p.mandate)
    BY <1>7
  <2> QED BY <1>5, <2>1, <2>2, <2>3
<1>9. OwedInv'
  <2>1. OwedInv /\ UNCHANGED <<status, deps, owed, inbox>>
    BY <1>1 DEF PInv
  <2>2. \A u \in Threads : task'[u].kind = "open" /\ task'[u].event \in Outside =>
           task'[u] = task[u] \/ Serves(jobs', task'[u].event, task'[u].plan, owed[task'[u].event])
    BY <1>4, <1>5, <1>8
  <2> HIDE DEF e, kind
  <2> QED BY <1>7, <2>1, <2>2, OwedStays
<1>10. MInv'
  BY <1>1, MInvStays DEF PInv
<1>11. QueueInv' /\ Grows
  BY <1>1 DEF QueueInv, Grows
<1>12. \A u \in Threads : TaskInv(u)'
  BY <1>4, <1>6, <1>11, TaskStays DEF PInv
<1> QED BY <1>7, <1>9, <1>10, <1>11, <1>12 DEF PInv

LEMMA MarkInboxKeepsPInv == ASSUME PInv, NEW w \in Threads, MarkInbox(w) PROVE PInv'
<1> DEFINE e == task[w].event
<1>1. /\ UNCHANGED <<mandateVars, row, owed>> /\ QueueInv /\ TaskInv(w) /\ MaxFaults \in Nat
      /\ task[w].kind \in {"look", "open"}
      /\ \/ /\ task[w].kind = "open" /\ task[w].plan = {}
            /\ inbox' = [inbox EXCEPT ![e] = "processed"] /\ faults' = faults
         \/ inbox' = [inbox EXCEPT ![e] = "failed"] /\ faults < MaxFaults /\ faults' = faults + 1
      /\ task' = [task EXCEPT ![w] = IF task[w].todo = {e} THEN Idle ELSE Routing(task[w].todo \ {e})]
  BY PipelineAssumption DEF MarkInbox, PInv
<1>2. /\ e \in EventIds /\ inbox[e] # "none"
      /\ task[w].todo \in SUBSET EventIds /\ \A x \in task[w].todo : inbox[x] # "none"
  BY <1>1 DEF TaskInv, Idle
<1>3. /\ inbox' \in [EventIds -> InboxStatuses] /\ \A x \in EventIds : x # e => inbox'[x] = inbox[x]
      /\ inbox'[e] # "none"
      /\ inbox'[e] = "processed" => task[w].kind = "open" /\ task[w].plan = {}
  <2>1. CASE inbox' = [inbox EXCEPT ![e] = "processed"] /\ task[w].kind = "open" /\ task[w].plan = {}
    BY <1>1, <1>2, <2>1 DEF QueueInv, InboxStatuses
  <2>2. CASE inbox' = [inbox EXCEPT ![e] = "failed"]
    BY <1>1, <1>2, <2>2 DEF QueueInv, InboxStatuses
  <2> QED BY <1>1, <2>1, <2>2
<1>4. task'[w] = (IF task[w].todo = {e} THEN Idle ELSE Routing(task[w].todo \ {e}))
      /\ \A u \in Threads \ {w} : task'[u] = task[u]
  BY <1>1 DEF QueueInv
<1>5. \A x \in Outside : inbox'[x] = "processed" =>
              inbox[x] = "processed" \/ Serves(jobs, x, {}, owed[x])
  BY <1>3 DEF PInv, OwedInv, Serves, EventIds
<1> HIDE DEF e
<1>6. Grows
  BY <1>1, <1>2, <1>3 DEF Grows
<1>7. QueueInv'
  <2>1. Rows \subseteq EventIds
    BY DEF EventIds
  <2>2. faults' \in 0 .. MaxFaults
    BY <1>1 DEF QueueInv
  <2>3. \A i \in Rows : inbox'[i] # "none" => inbox[i] # "none"
    BY <1>2, <1>3, <2>1
  <2> QED BY <1>1, <1>3, <1>6, <2>1, <2>2, <2>3 DEF QueueInv, mandateVars, Grows
<1>8. TaskInv(w)' /\ task'[w].kind # "open"
  <2>1. CASE task'[w] = Idle
    BY <2>1 DEF TaskInv, Idle
  <2>2. CASE task'[w] = Routing(task[w].todo \ {e})
    <3>1. /\ task'[w] \in [kind : {"route"}, todo : SUBSET EventIds]
          /\ task'[w].todo \subseteq task[w].todo
      BY <1>2, <2>2 DEF Routing
    <3> QED BY <1>2, <1>6, <3>1 DEF TaskInv, Grows
  <2> QED BY <1>4, <2>1, <2>2
<1> QED BY <1>1, <1>4, <1>5, <1>6, <1>7, <1>8, ThreadStepKeepsPInv

LEMMA CrashKeepsPInv == ASSUME PInv, NEW w \in Threads, Crash(w) PROVE PInv'
<1>1. /\ UNCHANGED <<mandateVars, row, inbox, owed>> /\ QueueInv /\ MaxFaults \in Nat
      /\ faults < MaxFaults /\ faults' = faults + 1 /\ task' = [task EXCEPT ![w] = Idle]
  BY PipelineAssumption DEF Crash, PInv
<1>2. QueueInv' /\ Grows
  BY <1>1 DEF QueueInv, mandateVars, Grows
<1>3. task'[w] = Idle /\ \A u \in Threads \ {w} : task'[u] = task[u]
  BY <1>1 DEF QueueInv
<1>4. TaskInv(w)' /\ task'[w].kind # "open"
  BY <1>3 DEF TaskInv, Idle
<1> QED BY <1>1, <1>2, <1>3, <1>4, ThreadStepKeepsPInv

\* Recovery: nobody's task, no job.
LEMMA RecoveryKeepsPInv ==
    ASSUME PInv, (\E batch \in SUBSET EventIds : Requeue(batch)) \/ RetryOutbox PROVE PInv'
<1>1. UNCHANGED <<mandateVars, task, owed, faults>> /\ QueueInv
  BY DEF Requeue, RetryOutbox, PInv
<1>2. /\ QueueInv' /\ Grows
      /\ \A e \in EventIds : inbox'[e] = "processed" => inbox[e] = "processed"
  <2>1. Rows \subseteq EventIds
    BY DEF EventIds
  <2>2. ASSUME NEW batch \in SUBSET EventIds, Requeue(batch)
        PROVE  /\ QueueInv' /\ Grows
               /\ \A e \in EventIds : inbox'[e] = "processed" => inbox[e] = "processed"
    <3>1. /\ inbox' = [e \in EventIds |-> IF e \in batch THEN "pending" ELSE inbox[e]] /\ row' = row
          /\ \A e \in batch : inbox[e] = "processing"
      BY <2>2 DEF Requeue
    <3>2. /\ inbox' \in [EventIds -> InboxStatuses]
          /\ \A e \in EventIds : /\ inbox'[e] # "none" <=> inbox[e] # "none"
                                 /\ inbox'[e] = "processed" => inbox[e] = "processed"
      BY <1>1, <3>1 DEF QueueInv, InboxStatuses
    <3> QED BY <1>1, <2>1, <3>1, <3>2 DEF QueueInv, Grows, mandateVars
  <2>3. CASE RetryOutbox
    <3>1. row' = [i \in Rows |-> IF Retriable(i) THEN [row[i] EXCEPT !.st = "pending"] ELSE row[i]] /\ inbox' = inbox
      BY <2>3 DEF RetryOutbox
    <3>2. ASSUME NEW i \in Rows
          PROVE  /\ row'[i] \in [st : RowStates, tries : 0 .. MaxTries]
                 /\ row'[i].st # "none" <=> row[i].st # "none"
                 /\ row'[i].st = "published" => row[i].st = "published"
      <4>1. row[i] \in [st : RowStates, tries : 0 .. MaxTries]
        BY <1>1 DEF QueueInv
      <4> QED BY <3>1, <4>1 DEF RowStates, Retriable
    <3>3. row' \in [Rows -> [st : RowStates, tries : 0 .. MaxTries]]
      BY <3>1, <3>2
    <3> QED BY <1>1, <3>1, <3>2, <3>3 DEF QueueInv, Grows, mandateVars
  <2> QED BY <2>2, <2>3
<1>3. MInv'
  BY <1>1, MInvStays DEF PInv, mandateVars
<1>4. \A w \in Threads : TaskInv(w)'
  BY <1>1, <1>2, TaskStays DEF PInv
<1>5. OwedInv' /\ JobsInv(jobs')
  BY <1>1, <1>2, SameJobs, OwedStays DEF PInv, mandateVars, EventIds
<1> QED BY <1>2, <1>3, <1>4, <1>5 DEF PInv

LEMMA StepKeepsPInv == ASSUME PInv, [Next]_vars PROVE PInv'
<1>1. CASE UNCHANGED vars
  <2>1. MInv'
    BY <1>1, MInvStays DEF PInv, vars, mandateVars
  <2> QED BY <1>1, <2>1 DEF vars, mandateVars, pipeVars, PInv, QueueInv, TaskInv, OwedInv, Watches
<1>2. CASE \E w \in Threads : Publish(w)
  BY <1>2, ClaimOutboxKeepsPInv, RecordMessageKeepsPInv, MarkOutboxKeepsPInv DEF Publish
<1>3. CASE \E w \in Threads : Route(w)
  BY <1>3, ClaimInboxKeepsPInv, LookKeepsPInv, MatchKeepsPInv, MarkInboxKeepsPInv, CreateJobKeepsPInv DEF Route
<1> QED BY <1>1, <1>2, <1>3, CommandStepKeepsPInv, SettleJobKeepsPInv, IngestKeepsPInv, CrashKeepsPInv,
           RecoveryKeepsPInv DEF Next

LEMMA PInvAlways == Spec => []PInv
<1>1. PInit => PInv
  <2> SUFFICES ASSUME PInit PROVE PInv
    OBVIOUS
  <2>1. MInv
    BY MInvAtInit DEF PInit
  <2>2. QueueInv
    <3>1. NoRow \in [st : RowStates, tries : 0 .. MaxTries] /\ NoRow.st = "none"
      BY PipelineAssumption DEF NoRow, RowStates
    <3> QED BY <3>1, PipelineAssumption DEF PInit, QueueInv, InboxStatuses, EventIds
  <2>3. \A w \in Threads : TaskInv(w)
    BY DEF PInit, TaskInv
  <2>4. JobsInv(jobs) /\ OwedInv
    BY DEF PInit, Init, JobsInv, OwedInv, EventIds, Idle
  <2> QED BY <2>1, <2>2, <2>3, <2>4 DEF PInv
<1> QED BY <1>1, StepKeepsPInv, PTL DEF Spec

\* The types, and: a published row has its event in the inbox, whichever of
\* several publishers marked it and whatever crashed in between.
THEOREM PublishedIsRecorded == Spec => []PipelineTypeOK
<1>1. PInv => PipelineTypeOK
  BY DEF PInv, MInv, Types, QueueInv, OwedInv, PipelineTypeOK, RowStates
<1> QED BY <1>1, PInvAlways, PTL

\* A mandate that watched from the receipt of an event until it was
\* processed, through revisions and all, has a job for it.
THEOREM WatchersHaveTheirJobs == Spec => []WatchersAreServed
<1>1. PInv => WatchersAreServed
  BY DEF PInv, OwedInv, HasJob, WatchersAreServed
<1> QED BY <1>1, PInvAlways, PTL

\* One row per deduplication key, and a job that ended stays as it is.
THEOREM JobsAreOpenedOnce == Spec => EachJobOnce
<1>1. PInv => \A j, k \in jobs : j.key = k.key => j = k
  BY DEF PInv, JobsInv
<1>2. PInv /\ [Next]_vars => [\A j \in jobs : j.state # "open" => j \in jobs']_vars
  <2> SUFFICES ASSUME PInv, Next, NEW j \in jobs, j.state # "open" PROVE j \in jobs'
    OBVIOUS
  <2>1. CASE \E m \in MandateIds : CommandStep(m)
    <3>1. jobs' = jobs \/ \E m, to : jobs' = CancelOpen(m, to)
      BY <2>1, CommandFrame DEF CommandStep, PInv
    <3> QED BY <3>1 DEF CancelOpen
  <2>2. CASE \E k \in jobs : SettleJob(k)
    BY <2>2 DEF SettleJob
  <2>3. CASE \E w \in Threads : \E p \in task[w].plan : CreateJob(w, p)
    BY <2>3 DEF CreateJob, Insert
  <2>4. CASE jobs' = jobs
    BY <2>4
  <2> QED BY <2>1, <2>2, <2>3, <2>4 DEF Next, Ingest, Publish, Route, Crash, Requeue, RetryOutbox, ClaimOutbox,
            RecordMessage, MarkOutbox, ClaimInbox, LookAtEvent, MatchEvent, MarkInbox, mandateVars
<1> QED BY <1>1, <1>2, PInvAlways, PTL DEF Spec, EachJobOnce
=============================================================================
