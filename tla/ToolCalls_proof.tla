---------------------------- MODULE ToolCalls_proof ---------------------------
(***************************************************************************)
(* Proofs about ToolCalls for any number of calls, any pool and any number *)
(* of reclassifications: what overlaps may overlap, a group that ends in   *)
(* order has committed every call it started, and the session's log is in  *)
(* the model's order and complete.                                         *)
(*                                                                         *)
(* Bodies are dispatched calls, so the invariant speaks of all of those,   *)
(* and of the one that is being prepared.  That the first call of a group  *)
(* still has the mode the group was opened with rests on the scheduler not *)
(* awaiting anything between the choice and the start.  What the log holds *)
(* follows from the two counters, which say how far calls were started and *)
(* answers committed.                                                      *)
(***************************************************************************)
EXTENDS ToolCalls, FiniteSetTheorems, TLAPS

\* A group is one exclusive call, or all calls from a parallel one on.
GroupInv ==
    /\ mode = "parallel" => group = {} \/ \E f \in Call : group = f .. N
    /\ mode = "exclusive" => \E x \in Call : group = {x} /\ started \in {x - 1, x}
    /\ at \in {"prepare", "commit"} => started \in group

\* What is dispatched was started in this group; there is room for the call
\* that is being prepared.
FlightInv ==
    /\ flight \subseteq group /\ flight \subseteq 1 .. started /\ slots \subseteq 1 .. started
    /\ IsFiniteSet(flight) /\ Cardinality(flight) <= MaxParallel
    /\ at = "prepare" => started \notin flight /\ Cardinality(flight) < MaxParallel
    /\ at = "pick" => flight = {}

\* In a parallel group every call was parallel when it started; the first
\* one is still what it was when the group was opened.
ModeInv ==
    /\ at = "fill" /\ Next1 \in group /\ started \notin group => live[Next1] = mode
    /\ mode = "parallel" => /\ \A c \in flight : startedAs[c] = "parallel"
                            /\ at = "prepare" => startedAs[started] = "parallel"

\* A started call without a committed result is dispatched, has its result
\* already, or is being prepared; commitReady stops at a dispatched one.
CommitInv ==
    /\ at \in {"fill", "prepare", "commit"} =>
          \A c \in commits + 1 .. started : c \in slots \cup flight \/ (at = "prepare" /\ c = started)
    /\ at = "fill" /\ commits < started => commits + 1 \in flight
    /\ at = "pick" => commits = started

IInv == TypeOK /\ GroupInv /\ FlightInv /\ ModeInv /\ CommitInv

Events == [kind : {"call", "result", "skipped"}, of : Call]

-----------------------------------------------------------------------------
LEMMA EventsAreTyped ==
    ASSUME NEW c \in Call
    PROVE  CallEvent(c) \in Events /\ ResultEvent(c) \in Events /\ SkippedEvent(c) \in Events
BY DEF CallEvent, ResultEvent, SkippedEvent, Events

\* The calls an abort leaves over are answered with events of calls.
LEMMA SkippedIsTyped ==
    ASSUME ToolAssumption, NEW c \in 1 .. N + 1
    PROVE  Skipped(c) \in Seq(Events)
<1> DEFINE n == 2 * (N - c + 1)
<1>1. n \in Nat
  BY DEF ToolAssumption
<1>2. ASSUME NEW i \in 1 .. n
      PROVE  (IF i % 2 = 1 THEN CallEvent(c + i \div 2) ELSE SkippedEvent(c + (i \div 2) - 1)) \in Events
  <2>1. CASE i % 2 = 1
    <3>1. c + i \div 2 \in Call
      BY <1>2, <2>1 DEF Call, ToolAssumption
    <3> QED BY <2>1, <3>1, EventsAreTyped
  <2>2. CASE i % 2 # 1
    <3>1. c + (i \div 2) - 1 \in Call
      BY <1>2, <2>2 DEF Call, ToolAssumption
    <3> QED BY <2>2, <3>1, EventsAreTyped
  <2> QED BY <2>1, <2>2
<1>3. Skipped(c) \in [1 .. n -> Events]
  BY <1>2 DEF Skipped
<1> QED BY <1>1, <1>3

-----------------------------------------------------------------------------
LEMMA TypesAtInit == ASSUME ToolAssumption, Init PROVE TypeOK
<1>1. live \in [Call -> Modes] /\ mode \in Modes /\ {signal, stop} \subseteq BOOLEAN
  BY DEF Init, Modes
<1>2. commits \in 0 .. started /\ started \in 0 .. N
  BY DEF Init, ToolAssumption
<1>3. failure \in [0 .. N -> BOOLEAN] /\ startedAs \in [Call -> Modes \cup {"none"}]
  BY DEF Init
<1>4. log \in Seq(Events)
  BY DEF Init
<1> QED BY <1>1, <1>2, <1>3, <1>4 DEF Init, TypeOK, Events

LEMMA IInvAtInit == ASSUME ToolAssumption, Init PROVE IInv
<1>1. TypeOK
  BY TypesAtInit
<1>2. Cardinality({}) = 0 /\ IsFiniteSet({})
  BY FS_EmptySet
<1> QED BY <1>1, <1>2 DEF ToolAssumption, Init, IInv, GroupInv, FlightInv, ModeInv, CommitInv, Next1

\* A dispatched call settles, or a tool is registered anew, only where the
\* scheduler awaits: the next call is then not the first of its group.
LEMMA NotFirstWhereItAwaits ==
    ASSUME ToolAssumption, IInv, Yields, at = "fill"
    PROVE  started \in group \/ Next1 \notin group
<1>1. PICK c \in flight : TRUE
  BY DEF Yields
<1>2. c \in group /\ c \in 1 .. started /\ started \in 0 .. N
  BY <1>1 DEF IInv, FlightInv, TypeOK
<1>3. CASE mode = "parallel"
  BY <1>2, <1>3 DEF IInv, GroupInv, Call, ToolAssumption
<1>4. CASE mode = "exclusive"
  BY <1>2, <1>4 DEF IInv, GroupInv, Call, ToolAssumption, Next1
<1> QED BY <1>3, <1>4 DEF IInv, TypeOK, Modes

LEMMA PickKeepsIInv == ASSUME ToolAssumption, IInv, Pick PROVE IInv'
<1> USE DEF Pick, IInv, Next1
<1>1. Next1 \in Call /\ live[Next1] \in Modes /\ started \in 0 .. N
  <2>1. started \in 0 .. N /\ live \in [Call -> Modes]
    BY DEF TypeOK
  <2> QED BY <2>1 DEF Call, ToolAssumption
<1>2. TypeOK'
  <2>1. group' \subseteq Call
    BY <1>1 DEF Call, ToolAssumption
  <2> QED BY <1>1, <2>1 DEF TypeOK
<1>3. GroupInv'
  <2>1. CASE live[Next1] = "parallel"
    BY <1>1, <2>1 DEF GroupInv
  <2>2. CASE live[Next1] = "exclusive"
    BY <1>1, <2>2 DEF GroupInv, Call
  <2> QED BY <1>1, <2>1, <2>2 DEF Modes
<1>4. FlightInv'
  BY DEF FlightInv
<1>5. ModeInv' /\ CommitInv'
  BY <1>1 DEF ModeInv, CommitInv, FlightInv
<1> QED BY <1>2, <1>3, <1>4, <1>5

LEMMA StartKeepsIInv == ASSUME ToolAssumption, IInv, StartCall PROVE IInv'
<1> USE DEF StartCall, MayStart, IInv, Next1
<1>1. Next1 \in Call /\ live[Next1] \in Modes /\ started \in 0 .. N /\ commits \in 0 .. started
  BY DEF TypeOK
<1>2. TypeOK'
  <2>1. log' \in Seq(Events)
    BY <1>1, EventsAreTyped DEF TypeOK, Events
  <2> QED BY <1>1, <2>1 DEF TypeOK, Call, Events, ToolAssumption
<1>3. GroupInv'
  <2>1. mode = "exclusive" => group = {started + 1}
    BY <1>1 DEF GroupInv, Call
  <2> QED BY <1>1, <2>1 DEF GroupInv, Call
<1>4. FlightInv'
  BY <1>1 DEF FlightInv
<1>5. ModeInv'
  <2>1. mode = "parallel" => live[Next1] = "parallel"
    <3>1. Next1 - 1 = started
      BY <1>1
    <3> QED BY <3>1 DEF ModeInv
  <2>2. startedAs' = [startedAs EXCEPT ![Next1] = live[Next1]] /\ startedAs \in [Call -> Modes \cup {"none"}]
    BY DEF TypeOK
  <2>3. \A c \in flight : c \in Call /\ c # Next1
    BY <1>1 DEF FlightInv, Call, TypeOK
  <2> QED BY <1>1, <2>1, <2>2, <2>3 DEF ModeInv
<1>6. CommitInv'
  BY <1>1 DEF CommitInv, FlightInv
<1> QED BY <1>2, <1>3, <1>4, <1>5, <1>6

LEMMA PreparedKeepsIInv == ASSUME ToolAssumption, IInv, Prepared PROVE IInv'
<1> USE DEF Prepared, IInv, Next1
<1>1. started \in group /\ started \in Call /\ started \in 0 .. N /\ commits \in 0 .. started
  BY DEF TypeOK, GroupInv
<1>2. CASE Failed
  BY <1>2 DEF TypeOK, GroupInv, FlightInv, ModeInv, CommitInv
<1>3. CASE ~Failed /\ flight' = flight \cup {started} /\ slots' = slots
  <2>1. IsFiniteSet(flight') /\ Cardinality(flight') = Cardinality(flight) + 1
    BY <1>3, FS_AddElement DEF FlightInv
  <2>2. Cardinality(flight) \in Nat /\ MaxParallel \in Nat
    BY FS_CardinalityType DEF FlightInv, ToolAssumption
  <2>3. FlightInv'
    BY <1>1, <1>3, <2>1, <2>2 DEF FlightInv, Call
  <2>4. TypeOK' /\ GroupInv'
    BY <1>1, <1>3 DEF TypeOK, GroupInv
  <2>5. ModeInv' /\ CommitInv'
    BY <1>1, <1>3 DEF ModeInv, CommitInv
  <2> QED BY <2>3, <2>4, <2>5
<1>4. CASE ~Failed /\ slots' = slots \cup {started} /\ flight' = flight
  <2>1. TypeOK' /\ GroupInv'
    BY <1>1, <1>4 DEF TypeOK, GroupInv
  <2>2. FlightInv'
    <3>1. started \in 1 .. started
      BY <1>1 DEF Call, ToolAssumption
    <3>2. slots' \subseteq 1 .. started /\ at' = "commit"
      BY <1>4, <3>1 DEF FlightInv
    <3> QED BY <1>4, <3>2 DEF FlightInv
  <2>3. ModeInv' /\ CommitInv'
    BY <1>1, <1>4 DEF ModeInv, CommitInv
  <2> QED BY <2>1, <2>2, <2>3
<1> QED BY <1>2, <1>3, <1>4

LEMMA CommitKeepsIInv == ASSUME ToolAssumption, IInv, Commit PROVE IInv'
<1> USE DEF Commit, IInv, Next1
<1>1. commits \in 0 .. started /\ started \in 0 .. N /\ commits + 1 \in 1 .. started
  BY DEF TypeOK, FlightInv
<1>2. TypeOK'
  <2>1. log' \in Seq(Events)
    <3>1. commits + 1 \in Call
      BY <1>1 DEF Call, ToolAssumption
    <3> QED BY <3>1, EventsAreTyped DEF TypeOK, Events
  <2> QED BY <1>1, <2>1 DEF TypeOK, Events, ToolAssumption
<1>3. GroupInv' /\ FlightInv' /\ ModeInv'
  BY DEF GroupInv, FlightInv, ModeInv
<1>4. CommitInv'
  BY <1>1 DEF CommitInv
<1> QED BY <1>2, <1>3, <1>4

LEMMA CommittedKeepsIInv == ASSUME ToolAssumption, IInv, Committed PROVE IInv'
<1> USE DEF Committed, IInv, Next1
<1>1. started \in group /\ commits \in 0 .. started /\ started \in 0 .. N
  BY DEF TypeOK, GroupInv
<1>2. TypeOK'
  BY DEF TypeOK
<1>3. GroupInv' /\ FlightInv' /\ ModeInv'
  BY <1>1 DEF GroupInv, FlightInv, ModeInv
<1>4. CommitInv'
  BY <1>1 DEF CommitInv
<1> QED BY <1>2, <1>3, <1>4

LEMMA RaceKeepsIInv == ASSUME ToolAssumption, IInv, Race PROVE IInv'
<1> USE DEF Race, IInv, Next1
<1>1. PICK c \in flight : c \notin Bodies /\ flight' = flight \ {c}
  OBVIOUS
<1>2. c \in group /\ c \in 1 .. started /\ started \in 0 .. N /\ commits \in 0 .. started
  BY <1>1 DEF FlightInv, TypeOK
<1>3. started \in group
  <2>1. CASE mode = "parallel"
    BY <1>2, <2>1 DEF GroupInv, Call, ToolAssumption
  <2>2. CASE mode = "exclusive"
    BY <1>2, <2>2 DEF GroupInv, Call, ToolAssumption
  <2> QED BY <2>1, <2>2 DEF TypeOK, Modes
<1>4. TypeOK' /\ GroupInv' /\ ModeInv'
  BY <1>1, <1>3 DEF TypeOK, GroupInv, ModeInv
<1>5. FlightInv'
  <2>1. IsFiniteSet(flight') /\ Cardinality(flight') = Cardinality(flight) - 1
    BY <1>1, FS_RemoveElement DEF FlightInv
  <2>2. Cardinality(flight) \in Nat /\ MaxParallel \in Nat
    BY FS_CardinalityType DEF FlightInv, ToolAssumption
  <2> QED BY <1>1, <2>1, <2>2 DEF FlightInv
<1>6. CommitInv'
  <2>1. ~Failed => c \in slots
    BY <1>1, <1>2 DEF Bodies, Failed
  <2> QED BY <1>1, <1>2, <2>1 DEF CommitInv
<1> QED BY <1>4, <1>5, <1>6

LEMMA GroupEndsKeepsIInv == ASSUME ToolAssumption, IInv, GroupEnds PROVE IInv'
<1> USE DEF GroupEnds, IInv, Next1
<1>1. commits \in 0 .. started /\ started \in 0 .. N
  BY DEF TypeOK
<1>2. TypeOK'
  <2>1. Next1 \in 1 .. N + 1
    BY <1>1 DEF ToolAssumption
  <2>2. log \in Seq(Events) /\ Skipped(Next1) \in Seq(Events)
    BY <2>1, SkippedIsTyped DEF TypeOK, Events
  <2>3. log \o Skipped(Next1) \in Seq(Events)
    BY <2>2
  <2>4. log' \in Seq(Events)
    BY <2>2, <2>3
  <2> QED BY <2>4 DEF TypeOK, Events
<1>3. GroupInv' /\ FlightInv' /\ ModeInv'
  BY DEF GroupInv, FlightInv, ModeInv
<1>4. CommitInv'
  BY <1>1 DEF CommitInv
<1> QED BY <1>2, <1>3, <1>4

LEMMA SettleKeepsIInv == ASSUME ToolAssumption, IInv, NEW c \in Call, Settle(c) PROVE IInv'
<1> USE DEF Settle, IInv, Next1, sched
<1>1. c \in flight /\ c \in 1 .. started
  BY DEF Bodies, FlightInv
<1>2. TypeOK'
  BY DEF TypeOK
<1>3. GroupInv' /\ FlightInv' /\ ModeInv'
  BY <1>1 DEF GroupInv, FlightInv, ModeInv
<1>4. CommitInv'
  BY DEF CommitInv
<1> QED BY <1>2, <1>3, <1>4

LEMMA ReclassifyKeepsIInv == ASSUME ToolAssumption, IInv, NEW c \in Call, Reclassify(c) PROVE IInv'
<1> USE DEF Reclassify, IInv, Next1, sched
<1>1. TypeOK'
  BY DEF TypeOK, ToolAssumption
<1>2. at = "fill" => started \in group \/ Next1 \notin group
  BY NotFirstWhereItAwaits
<1>3. GroupInv' /\ FlightInv' /\ CommitInv'
  BY DEF GroupInv, FlightInv, CommitInv
<1>4. ModeInv'
  BY <1>2 DEF ModeInv
<1> QED BY <1>1, <1>3, <1>4

LEMMA StepKeepsIInv == ASSUME ToolAssumption, IInv, [Next]_vars PROVE IInv'
<1> USE DEF IInv, Next1
<1>1. CASE Finish \/ Throws \/ Drained \/ Abort
  <2>1. TypeOK'
    BY <1>1 DEF TypeOK, Finish, Throws, Drained, Abort, sched
  <2>2. GroupInv' /\ FlightInv' /\ ModeInv' /\ CommitInv'
    BY <1>1 DEF GroupInv, FlightInv, ModeInv, CommitInv, Finish, Throws, Drained, Abort, sched
  <2> QED BY <2>1, <2>2
<1>2. CASE UNCHANGED vars
  BY <1>2 DEF vars, sched, TypeOK, GroupInv, FlightInv, ModeInv, CommitInv
<1>3. CASE \E c \in Call : Settle(c) \/ Reclassify(c)
  BY <1>3, SettleKeepsIInv, ReclassifyKeepsIInv
<1> QED BY <1>1, <1>2, <1>3, PickKeepsIInv, StartKeepsIInv, PreparedKeepsIInv, CommitKeepsIInv,
          CommittedKeepsIInv, RaceKeepsIInv, GroupEndsKeepsIInv DEF Next, Scheduler

LEMMA IInvAlways == ASSUME ToolAssumption PROVE Spec => []IInv
<1>1. Init => IInv
  BY IInvAtInit
<1>2. IInv /\ [Next]_vars => IInv'
  BY StepKeepsIInv
<1> QED BY <1>1, <1>2, PTL DEF Spec

-----------------------------------------------------------------------------
\* "Exclusive calls form barriers; parallel calls use a bounded rolling
\* pool": however tools are reclassified, fail, end or are aborted, bodies
\* overlap only if both calls were parallel when they started.
THEOREM OnlyParallelCallsOverlap ==
    ASSUME ToolAssumption PROVE Spec => []OverlapIsAllowed
<1>1. ASSUME IInv PROVE OverlapIsAllowed
  <2> USE <1>1 DEF IInv
  <2>1. Bodies \subseteq flight
    BY DEF Bodies
  <2>2. Cardinality(Bodies) <= MaxParallel
    <3>1. Cardinality(Bodies) <= Cardinality(flight) /\ IsFiniteSet(Bodies)
      BY <2>1, FS_Subset DEF FlightInv
    <3>2. Cardinality(Bodies) \in Nat /\ Cardinality(flight) \in Nat /\ MaxParallel \in Nat
      BY <3>1, FS_CardinalityType DEF FlightInv, ToolAssumption
    <3> QED BY <3>1, <3>2 DEF FlightInv
  <2>3. ASSUME NEW c \in Bodies, NEW d \in Bodies, c # d
        PROVE  {startedAs[c], startedAs[d]} = {"parallel"}
    <3>1. mode # "exclusive"
      BY <2>1, <2>3 DEF FlightInv, GroupInv
    <3> QED BY <2>1, <2>3, <3>1 DEF ModeInv, TypeOK, Modes
  <2> QED BY <2>2, <2>3 DEF OverlapIsAllowed
<1> QED BY <1>1, IInvAlways, PTL

\* A group that ends without an abort or a failure has committed every call
\* it started: the throw "uncommitted settled calls" is out of reach.
THEOREM GroupsCommitWhatTheyStart ==
    ASSUME ToolAssumption PROVE Spec => [](at = "pick" => commits = started)
<1>1. IInv => (at = "pick" => commits = started)
  BY DEF IInv, CommitInv
<1> QED BY <1>1, IInvAlways, PTL

-----------------------------------------------------------------------------
(* The session's log.  Calls are logged when they start and answers when   *)
(* they are committed, so the two counters say what the log holds.         *)

\* A log with the calls up to n and the answers up to m, each in order, and
\* no answer before its call.
InOrder(l, n, m) ==
    /\ \A i, j \in DOMAIN l : j < i /\ (IsCall(l[i]) <=> IsCall(l[j])) => l[j].of < l[i].of
    /\ \A i \in DOMAIN l : ~IsCall(l[i]) => \E j \in 1 .. i - 1 : l[j] = CallEvent(l[i].of)
    /\ \A c \in Call : (\E i \in DOMAIN l : IsCall(l[i]) /\ l[i].of = c) <=> c <= n
    /\ \A c \in Call : (\E i \in DOMAIN l : ~IsCall(l[i]) /\ l[i].of = c) <=> c <= m

LEMMA CallIsLogged ==
    ASSUME NEW l \in Seq(Events), NEW n \in 0 .. N, NEW m \in 0 .. n, InOrder(l, n, m), n + 1 \in Call
    PROVE  InOrder(Append(l, CallEvent(n + 1)), n + 1, m)
<1> DEFINE e == CallEvent(n + 1)
           new == Append(l, e)
<1>1. IsCall(e) /\ e.of = n + 1 /\ e \in Events
  BY EventsAreTyped DEF IsCall, CallEvent
<1>2. /\ DOMAIN l = 1 .. Len(l) /\ Len(l) \in Nat /\ DOMAIN new = 1 .. Len(l) + 1
      /\ \A i \in 1 .. Len(l) : new[i] = l[i] /\ l[i] \in Events
      /\ new[Len(l) + 1] = e
  BY <1>1
<1>3. \A i \in 1 .. Len(l) : l[i].of \in Call
  BY <1>2 DEF Events
<1> HIDE DEF new, e
<1>4. \A i, j \in DOMAIN new : j < i /\ (IsCall(new[i]) <=> IsCall(new[j])) => new[j].of < new[i].of
  <2> SUFFICES ASSUME NEW i \in 1 .. Len(l) + 1, NEW j \in 1 .. Len(l) + 1, j < i,
                      IsCall(new[i]) <=> IsCall(new[j])
               PROVE  new[j].of < new[i].of
    BY <1>2
  <2>1. j \in 1 .. Len(l)
    BY <1>2
  <2>2. CASE i = Len(l) + 1
    <3>1. IsCall(l[j]) /\ l[j].of \in Call
      BY <1>1, <1>2, <1>3, <2>1, <2>2
    <3>2. l[j].of <= n
      BY <1>2, <2>1, <3>1 DEF InOrder
    <3> QED BY <1>1, <1>2, <2>1, <2>2, <3>1, <3>2 DEF Call, ToolAssumption
  <2>3. CASE i # Len(l) + 1
    <3>1. i \in 1 .. Len(l)
      BY <1>2, <2>3
    <3> QED BY <1>2, <2>1, <3>1 DEF InOrder
  <2> QED BY <2>2, <2>3
<1>5. \A i \in DOMAIN new : ~IsCall(new[i]) => \E j \in 1 .. i - 1 : new[j] = CallEvent(new[i].of)
  <2> SUFFICES ASSUME NEW i \in 1 .. Len(l) + 1, ~IsCall(new[i])
               PROVE  \E j \in 1 .. i - 1 : new[j] = CallEvent(new[i].of)
    BY <1>2
  <2>1. i \in 1 .. Len(l) /\ new[i] = l[i]
    BY <1>1, <1>2
  <2>2. PICK j \in 1 .. i - 1 : l[j] = CallEvent(l[i].of)
    BY <1>2, <2>1 DEF InOrder
  <2> QED BY <1>2, <2>1, <2>2
<1>6. \A c \in Call : (\E i \in DOMAIN new : IsCall(new[i]) /\ new[i].of = c) <=> c <= n + 1
  <2> TAKE c \in Call
  <2>1. (\E i \in 1 .. Len(l) : IsCall(l[i]) /\ l[i].of = c) <=> c <= n
    BY <1>2 DEF InOrder
  <2>2. (\E i \in DOMAIN new : IsCall(new[i]) /\ new[i].of = c)
          <=> (\E i \in 1 .. Len(l) : IsCall(l[i]) /\ l[i].of = c) \/ c = n + 1
    BY <1>1, <1>2
  <2> QED BY <2>1, <2>2 DEF Call
<1>7. \A c \in Call : (\E i \in DOMAIN new : ~IsCall(new[i]) /\ new[i].of = c) <=> c <= m
  <2> TAKE c \in Call
  <2>1. (\E i \in 1 .. Len(l) : ~IsCall(l[i]) /\ l[i].of = c) <=> c <= m
    BY <1>2 DEF InOrder
  <2>2. (\E i \in DOMAIN new : ~IsCall(new[i]) /\ new[i].of = c)
          <=> (\E i \in 1 .. Len(l) : ~IsCall(l[i]) /\ l[i].of = c)
    BY <1>1, <1>2
  <2> QED BY <2>1, <2>2
<1> QED BY <1>4, <1>5, <1>6, <1>7 DEF InOrder, new, e

LEMMA AnswerIsLogged ==
    ASSUME NEW l \in Seq(Events), NEW n \in 0 .. N, NEW m \in 0 .. n, InOrder(l, n, m), m + 1 <= n
    PROVE  InOrder(Append(l, ResultEvent(m + 1)), n, m + 1)
<1> DEFINE e == ResultEvent(m + 1)
           new == Append(l, e)
<1>0. m + 1 \in Call
  <2>1. N \in Nat
    BY ToolAssumption
  <2> QED BY <2>1 DEF Call
<1>1. ~IsCall(e) /\ e.of = m + 1 /\ e \in Events
  BY <1>0, EventsAreTyped DEF IsCall, ResultEvent
<1>2. /\ DOMAIN l = 1 .. Len(l) /\ Len(l) \in Nat /\ DOMAIN new = 1 .. Len(l) + 1
      /\ \A i \in 1 .. Len(l) : new[i] = l[i] /\ l[i] \in Events
      /\ new[Len(l) + 1] = e
  BY <1>1
<1>3. \A i \in 1 .. Len(l) : l[i].of \in Call
  BY <1>2 DEF Events
<1> HIDE DEF new, e
<1>4. \A i, j \in DOMAIN new : j < i /\ (IsCall(new[i]) <=> IsCall(new[j])) => new[j].of < new[i].of
  <2> SUFFICES ASSUME NEW i \in 1 .. Len(l) + 1, NEW j \in 1 .. Len(l) + 1, j < i,
                      IsCall(new[i]) <=> IsCall(new[j])
               PROVE  new[j].of < new[i].of
    BY <1>2
  <2>1. j \in 1 .. Len(l)
    BY <1>2
  <2>2. CASE i = Len(l) + 1
    <3>1. ~IsCall(l[j]) /\ l[j].of \in Call
      BY <1>1, <1>2, <1>3, <2>1, <2>2
    <3>2. l[j].of <= m
      BY <1>2, <2>1, <3>1 DEF InOrder
    <3> QED BY <1>1, <1>2, <2>1, <2>2, <3>1, <3>2 DEF Call, ToolAssumption
  <2>3. CASE i # Len(l) + 1
    <3>1. i \in 1 .. Len(l)
      BY <1>2, <2>3
    <3> QED BY <1>2, <2>1, <3>1 DEF InOrder
  <2> QED BY <2>2, <2>3
<1>5. \A i \in DOMAIN new : ~IsCall(new[i]) => \E j \in 1 .. i - 1 : new[j] = CallEvent(new[i].of)
  <2> SUFFICES ASSUME NEW i \in 1 .. Len(l) + 1, ~IsCall(new[i])
               PROVE  \E j \in 1 .. i - 1 : new[j] = CallEvent(new[i].of)
    BY <1>2
  <2>1. CASE i = Len(l) + 1
    <3>1. PICK j \in 1 .. Len(l) : IsCall(l[j]) /\ l[j].of = m + 1
      BY <1>0, <1>2 DEF InOrder
    <3>2. l[j] = CallEvent(m + 1)
      BY <1>2, <3>1 DEF Events, IsCall, CallEvent
    <3> QED BY <1>1, <1>2, <2>1, <3>1, <3>2
  <2>2. CASE i # Len(l) + 1
    <3>1. i \in 1 .. Len(l) /\ new[i] = l[i]
      BY <1>2, <2>2
    <3>2. PICK j \in 1 .. i - 1 : l[j] = CallEvent(l[i].of)
      BY <1>2, <3>1 DEF InOrder
    <3> QED BY <1>2, <3>1, <3>2
  <2> QED BY <2>1, <2>2
<1>6. \A c \in Call : (\E i \in DOMAIN new : ~IsCall(new[i]) /\ new[i].of = c) <=> c <= m + 1
  <2> TAKE c \in Call
  <2>1. (\E i \in 1 .. Len(l) : ~IsCall(l[i]) /\ l[i].of = c) <=> c <= m
    BY <1>2 DEF InOrder
  <2>2. (\E i \in DOMAIN new : ~IsCall(new[i]) /\ new[i].of = c)
          <=> (\E i \in 1 .. Len(l) : ~IsCall(l[i]) /\ l[i].of = c) \/ c = m + 1
    BY <1>1, <1>2
  <2> QED BY <2>1, <2>2 DEF Call
<1>7. \A c \in Call : (\E i \in DOMAIN new : IsCall(new[i]) /\ new[i].of = c) <=> c <= n
  <2> TAKE c \in Call
  <2>1. (\E i \in 1 .. Len(l) : IsCall(l[i]) /\ l[i].of = c) <=> c <= n
    BY <1>2 DEF InOrder
  <2>2. (\E i \in DOMAIN new : IsCall(new[i]) /\ new[i].of = c)
          <=> (\E i \in 1 .. Len(l) : IsCall(l[i]) /\ l[i].of = c)
    BY <1>1, <1>2
  <2> QED BY <2>1, <2>2
<1> QED BY <1>4, <1>5, <1>6, <1>7 DEF InOrder, new, e

\* The calls an abort leaves over: event i is about call n + (i + 1) \div 2.
LEMMA SkippedEvents ==
    ASSUME NEW n \in 0 .. N, NEW i \in 1 .. 2 * (N - n)
    PROVE  /\ Skipped(n + 1)[i] \in Events
           /\ Skipped(n + 1)[i] = IF i % 2 = 1 THEN CallEvent(n + (i + 1) \div 2)
                                  ELSE SkippedEvent(n + (i + 1) \div 2)
           /\ n + (i + 1) \div 2 \in n + 1 .. N
<1>1. N \in Nat
  BY ToolAssumption
<1>2. n + (i + 1) \div 2 \in n + 1 .. N
  BY <1>1
<1>3. n + (i + 1) \div 2 \in Call
  BY <1>1, <1>2 DEF Call
<1>4. 2 * (N - (n + 1) + 1) = 2 * (N - n)
  BY <1>1
<1>5. Skipped(n + 1)[i] = IF i % 2 = 1 THEN CallEvent((n + 1) + i \div 2)
                          ELSE SkippedEvent((n + 1) + (i \div 2) - 1)
  BY <1>4 DEF Skipped
<1>6. i % 2 = 1 => (n + 1) + i \div 2 = n + (i + 1) \div 2
  BY <1>1
<1>7. i % 2 # 1 => (n + 1) + (i \div 2) - 1 = n + (i + 1) \div 2
  BY <1>1
<1> QED BY <1>2, <1>3, <1>5, <1>6, <1>7, EventsAreTyped

LEMMA SkippedAreLogged ==
    ASSUME NEW l \in Seq(Events), NEW n \in 0 .. N, InOrder(l, n, n)
    PROVE  InOrder(l \o Skipped(n + 1), N, N)
<1> DEFINE k == Len(l)
           rest == Skipped(n + 1)
           new == l \o rest
           About(i) == n + (i + 1) \div 2
<1>1. /\ N \in Nat /\ k \in Nat /\ DOMAIN l = 1 .. k
      /\ \A i \in 1 .. k : l[i] \in Events /\ l[i].of \in Call
  <2>1. N \in Nat
    BY ToolAssumption
  <2>2. k \in Nat /\ DOMAIN l = 1 .. k /\ \A i \in 1 .. k : l[i] \in Events
    OBVIOUS
  <2> QED BY <2>1, <2>2 DEF Events
<1>2. rest \in Seq(Events) /\ Len(rest) = 2 * (N - n)
  <2>1. n + 1 \in 1 .. N + 1
    BY <1>1
  <2>2. rest \in Seq(Events)
    BY <2>1, SkippedIsTyped, ToolAssumption DEF ToolAssumption
  <2>3. 2 * (N - (n + 1) + 1) = 2 * (N - n) /\ 2 * (N - n) \in Nat
    BY <1>1
  <2> QED BY <2>2, <2>3 DEF Skipped
<1>3. /\ DOMAIN new = 1 .. k + 2 * (N - n)
      /\ \A i \in 1 .. k : new[i] = l[i]
      /\ \A i \in 1 .. 2 * (N - n) : new[k + i] = rest[i]
  BY <1>1, <1>2
<1>4. \A i \in 1 .. 2 * (N - n) :
         /\ IsCall(new[k + i]) <=> i % 2 = 1
         /\ new[k + i].of = About(i) /\ About(i) \in n + 1 .. N
         /\ i % 2 = 1 => new[k + i] = CallEvent(About(i))
  <2> TAKE i \in 1 .. 2 * (N - n)
  <2>1. new[k + i] = IF i % 2 = 1 THEN CallEvent(About(i)) ELSE SkippedEvent(About(i))
    BY <1>3, SkippedEvents
  <2>2. About(i) \in n + 1 .. N
    BY SkippedEvents
  <2> HIDE DEF About, new
  <2> QED BY <2>1, <2>2 DEF IsCall, CallEvent, SkippedEvent
<1> HIDE DEF new, rest
<1>5. \A i \in DOMAIN new : i \in 1 .. k \/ \E x \in 1 .. 2 * (N - n) : i = k + x
  <2> SUFFICES ASSUME NEW i \in 1 .. k + 2 * (N - n), i \notin 1 .. k
               PROVE  \E x \in 1 .. 2 * (N - n) : i = k + x
    BY <1>3
  <2>1. i - k \in 1 .. 2 * (N - n) /\ i = k + (i - k)
    BY <1>1
  <2> QED BY <2>1
<1>6. \A i \in 1 .. k : l[i].of <= n
  BY <1>1 DEF InOrder
<1>7. ASSUME NEW i \in DOMAIN new, NEW j \in DOMAIN new, j < i, IsCall(new[i]) <=> IsCall(new[j])
      PROVE  new[j].of < new[i].of
  <2>1. CASE i \in 1 .. k
    <3>1. j \in 1 .. k
      BY <1>1, <1>3, <1>7, <2>1
    <3> QED BY <1>1, <1>3, <1>7, <2>1, <3>1 DEF InOrder
  <2>2. ASSUME NEW x \in 1 .. 2 * (N - n), i = k + x PROVE new[j].of < new[i].of
    <3>1. CASE j \in 1 .. k
      <4>1. new[j].of \in Call /\ new[j].of <= n /\ new[i].of \in n + 1 .. N
        BY <1>1, <1>3, <1>4, <1>6, <2>2, <3>1
      <4> QED BY <4>1 DEF Call
    <3>2. ASSUME NEW y \in 1 .. 2 * (N - n), j = k + y PROVE new[j].of < new[i].of
      <4>1. y < x /\ (x % 2 = 1 <=> y % 2 = 1)
        BY <1>1, <1>4, <1>7, <2>2, <3>2
      <4>2. About(y) < About(x)
        BY <1>1, <4>1
      <4> QED BY <1>4, <2>2, <3>2, <4>2
    <3> QED BY <1>5, <3>1, <3>2
  <2> QED BY <1>5, <2>1, <2>2
<1>8. ASSUME NEW i \in DOMAIN new, ~IsCall(new[i])
      PROVE  \E j \in 1 .. i - 1 : new[j] = CallEvent(new[i].of)
  <2>1. CASE i \in 1 .. k
    <3>1. PICK j \in 1 .. i - 1 : l[j] = CallEvent(l[i].of)
      BY <1>1, <1>3, <1>8, <2>1 DEF InOrder
    <3>2. j \in 1 .. k
      BY <1>1, <2>1, <3>1
    <3> QED BY <1>3, <2>1, <3>1, <3>2
  <2>2. ASSUME NEW x \in 1 .. 2 * (N - n), i = k + x
        PROVE  \E j \in 1 .. i - 1 : new[j] = CallEvent(new[i].of)
    <3>1. x % 2 # 1
      BY <1>4, <1>8, <2>2
    <3>2. x - 1 \in 1 .. 2 * (N - n) /\ (x - 1) % 2 = 1 /\ About(x - 1) = About(x)
      BY <1>1, <3>1
    <3>3. k + (x - 1) \in 1 .. i - 1
      BY <1>1, <2>2, <3>2
    <3>4. new[k + (x - 1)] = CallEvent(About(x))
      BY <1>4, <3>2
    <3> QED BY <1>4, <2>2, <3>3, <3>4
  <2> QED BY <1>5, <2>1, <2>2
<1>9. ASSUME NEW c \in Call
      PROVE  /\ \E i \in DOMAIN new : IsCall(new[i]) /\ new[i].of = c
             /\ \E i \in DOMAIN new : ~IsCall(new[i]) /\ new[i].of = c
  <2>1. CASE c <= n
    <3>1. /\ \E i \in 1 .. k : IsCall(l[i]) /\ l[i].of = c
          /\ \E i \in 1 .. k : ~IsCall(l[i]) /\ l[i].of = c
      BY <1>1, <2>1 DEF InOrder
    <3>2. 1 .. k \subseteq DOMAIN new
      BY <1>1, <1>3
    <3> QED BY <1>3, <3>1, <3>2
  <2>2. CASE ~ (c <= n)
    <3> DEFINE x == 2 * (c - n)
    <3>1. /\ x \in 1 .. 2 * (N - n) /\ x - 1 \in 1 .. 2 * (N - n)
          /\ x % 2 # 1 /\ (x - 1) % 2 = 1 /\ About(x) = c /\ About(x - 1) = c
      BY <1>1, <2>2 DEF Call
    <3> HIDE DEF x
    <3>2. \A y \in 1 .. 2 * (N - n) : k + y \in DOMAIN new
      BY <1>1, <1>3
    <3> QED BY <1>4, <3>1, <3>2
  <2> QED BY <2>1, <2>2
<1>10. \A c \in Call : c <= N
  BY <1>1 DEF Call
<1> QED BY <1>7, <1>8, <1>9, <1>10 DEF InOrder, new, rest

\* What is logged, and that only an abort, once the group has drained, logs
\* answers to calls that never started.
LogInv ==
    /\ InOrder(log, IF at = "done" THEN N ELSE started, IF at = "done" THEN N ELSE commits)
    /\ \A i \in DOMAIN log : log[i].kind = "skipped" =>
          at = "done" /\ startedAs[log[i].of] = "none" /\ signal
    /\ \A c \in Call : c > started => startedAs[c] = "none"
    /\ stop => signal
    /\ at = "done" => flight = {}
    /\ at = "failed" => Bodies = {}

LEMMA LogAtInit == ASSUME Init PROVE LogInv
<1>1. log = << >> /\ DOMAIN log = {}
  BY DEF Init
<1>2. InOrder(log, 0, 0)
  BY <1>1 DEF InOrder, Call
<1> QED BY <1>1, <1>2 DEF Init, LogInv

LEMMA StartKeepsLog == ASSUME IInv, LogInv, StartCall PROVE LogInv'
<1> USE DEF IInv, LogInv
<1>1. log \in Seq(Events) /\ started \in 0 .. N /\ commits \in 0 .. started /\ Next1 \in Call /\ N \in Nat
  BY ToolAssumption DEF TypeOK, Events, StartCall, MayStart, ToolAssumption
<1>2. InOrder(log', started', commits')
  <2>1. InOrder(log, started, commits) /\ started + 1 \in Call
    BY <1>1 DEF StartCall, Next1
  <2>2. InOrder(Append(log, CallEvent(started + 1)), started + 1, commits)
    BY <1>1, <2>1, CallIsLogged
  <2> QED BY <2>2 DEF StartCall, Next1
<1>3. \A i \in DOMAIN log' : log'[i].kind # "skipped"
  <2>1. log' = Append(log, CallEvent(Next1)) /\ CallEvent(Next1).kind = "call"
    BY DEF StartCall, CallEvent
  <2>2. \A i \in DOMAIN log : log[i].kind # "skipped"
    BY DEF StartCall
  <2> QED BY <1>1, <2>1, <2>2, EventsAreTyped
<1>4. \A c \in Call : c > started' => startedAs'[c] = "none"
  BY <1>1 DEF StartCall, Next1, TypeOK, Call
<1> QED BY <1>2, <1>3, <1>4 DEF StartCall

LEMMA CommitKeepsLog == ASSUME IInv, LogInv, Commit PROVE LogInv'
<1> USE DEF IInv, LogInv
<1>1. /\ log \in Seq(Events) /\ started \in 0 .. N /\ commits \in 0 .. started /\ N \in Nat
      /\ commits + 1 <= started /\ commits + 1 \in Call
  <2>1. N \in Nat
    BY ToolAssumption
  <2> QED BY <2>1 DEF TypeOK, Events, Commit, FlightInv
<1>2. InOrder(log', started', commits')
  <2>1. InOrder(log, started, commits)
    BY DEF Commit
  <2>2. InOrder(Append(log, ResultEvent(commits + 1)), started, commits + 1)
    BY <1>1, <2>1, AnswerIsLogged
  <2> QED BY <2>2 DEF Commit
<1>3. \A i \in DOMAIN log' : log'[i].kind # "skipped"
  <2>1. log' = Append(log, ResultEvent(commits + 1)) /\ ResultEvent(commits + 1).kind = "result"
    BY DEF Commit, ResultEvent
  <2>2. \A i \in DOMAIN log : log[i].kind # "skipped"
    BY DEF Commit
  <2> QED BY <1>1, <2>1, <2>2, EventsAreTyped
<1> QED BY <1>2, <1>3 DEF Commit

LEMMA GroupEndsKeepsLog == ASSUME IInv, LogInv, GroupEnds PROVE LogInv'
<1> USE DEF IInv, LogInv
<1>1. CASE ~stop
  BY <1>1 DEF GroupEnds
<1>2. CASE stop
  <2>1. log \in Seq(Events) /\ started \in 0 .. N /\ N \in Nat
    BY ToolAssumption DEF TypeOK, Events
  <2>2. commits = started
    BY DEF TypeOK, CommitInv, GroupEnds
  <2>3. log' = log \o Skipped(started + 1) /\ at' = "done" /\ InOrder(log, started, started)
    BY <1>2, <2>2 DEF GroupEnds, Next1
  <2>4. InOrder(log', N, N)
    BY <2>1, <2>3, SkippedAreLogged
  <2>5. \A i \in DOMAIN log' : log'[i].kind = "skipped" => startedAs[log'[i].of] = "none"
    <3> DEFINE rest == Skipped(started + 1)
    <3>1. rest \in Seq(Events) /\ Len(rest) = 2 * (N - started)
      <4>1. started + 1 \in 1 .. N + 1
        BY <2>1
      <4>2. rest \in Seq(Events)
        BY <4>1, SkippedIsTyped, ToolAssumption DEF ToolAssumption
      <4>3. 2 * (N - (started + 1) + 1) = 2 * (N - started) /\ 2 * (N - started) \in Nat
        BY <2>1
      <4> QED BY <4>2, <4>3 DEF Skipped
    <3>2. \A i \in DOMAIN log : log[i].kind # "skipped"
      BY DEF GroupEnds
    <3>3. \A i \in 1 .. 2 * (N - started) : rest[i].of \in Call /\ rest[i].of > started
      <4> TAKE i \in 1 .. 2 * (N - started)
      <4>1. started + (i + 1) \div 2 \in started + 1 .. N
        BY <2>1, SkippedEvents
      <4>2. rest[i] = IF i % 2 = 1 THEN CallEvent(started + (i + 1) \div 2)
                      ELSE SkippedEvent(started + (i + 1) \div 2)
        BY <2>1, SkippedEvents
      <4>3. rest[i].of = started + (i + 1) \div 2
        BY <4>2 DEF CallEvent, SkippedEvent
      <4> QED BY <2>1, <4>1, <4>3 DEF Call
    <3> HIDE DEF rest
    <3>4. \A i \in DOMAIN log' : \/ i \in DOMAIN log /\ log'[i] = log[i]
                               \/ /\ i - Len(log) \in 1 .. 2 * (N - started)
                                  /\ log'[i] = rest[i - Len(log)]
      BY <2>1, <2>3, <3>1 DEF rest
    <3> QED BY <3>2, <3>3, <3>4
  <2> QED BY <1>2, <2>3, <2>4, <2>5 DEF GroupEnds
<1> QED BY <1>1, <1>2

LEMMA StepKeepsLog == ASSUME IInv, LogInv, [Next]_vars PROVE LogInv'
<1> USE DEF IInv, LogInv
<1>1. CASE Finish
  <2>1. commits = started /\ started = N /\ flight = {}
    BY <1>1 DEF Finish, CommitInv, FlightInv
  <2> QED BY <1>1, <2>1 DEF Finish
<1>2. CASE Prepared \/ Throws
  BY <1>2 DEF Prepared, Throws
<1>8. CASE Committed
  <2>1. at = "commit" /\ at' \in {"drain", "fill"} /\ stop' \in {stop, stop \/ signal}
    BY <1>8 DEF Committed
  <2> QED BY <1>8, <2>1 DEF Committed, TypeOK
<1>9. CASE Race
  <2>1. at = "fill" /\ at' \in {"drain", "commit"}
    BY <1>9 DEF Race
  <2> QED BY <1>9, <2>1 DEF Race
<1>6. CASE Pick
  BY <1>6 DEF Pick
<1>7. CASE Abort \/ UNCHANGED vars
  BY <1>7 DEF Abort, vars, sched, Bodies
<1>3. CASE Drained
  BY <1>3 DEF Drained, Bodies
<1>4. ASSUME NEW c \in Call, Settle(c) PROVE LogInv'
  <2>1. at # "done" /\ at # "failed"
    BY <1>4 DEF Settle, Bodies
  <2> QED BY <1>4, <2>1 DEF Settle, sched
<1>5. ASSUME NEW c \in Call, Reclassify(c) PROVE LogInv'
  BY <1>5 DEF Reclassify, sched, Bodies
<1> QED BY <1>1, <1>2, <1>3, <1>4, <1>5, <1>6, <1>7, <1>8, <1>9, StartKeepsLog, CommitKeepsLog, GroupEndsKeepsLog
        DEF Next, Scheduler

LEMMA LogInvAlways == ASSUME ToolAssumption PROVE Spec => []LogInv
<1>1. Init => LogInv
  BY LogAtInit
<1>2. IInv /\ LogInv /\ [Next]_vars => LogInv'
  BY StepKeepsLog
<1> QED BY <1>1, <1>2, IInvAlways, PTL DEF Spec

\* Whatever order the tools end in, the session reads as if they had run one
\* after the other: calls and answers in the model's order, none missing.
THEOREM SessionIsInModelOrder == ASSUME ToolAssumption PROVE Spec => []ModelOrder
<1>1. ASSUME IInv, LogInv PROVE ModelOrder
  <2> DEFINE n == IF at = "done" THEN N ELSE started
             m == IF at = "done" THEN N ELSE commits
  <2>1. /\ InOrder(log, n, m) /\ log \in Seq(Events) /\ n \in Nat /\ m \in Nat
        /\ \A i \in DOMAIN log : log[i] \in Events /\ log[i].of \in Call
    <3>1. N \in Nat
      BY ToolAssumption
    <3>2. log \in Seq(Events) /\ n \in Nat /\ m \in Nat /\ InOrder(log, n, m)
      BY <1>1, <3>1 DEF IInv, TypeOK, Events, LogInv
    <3>3. \A i \in DOMAIN log : log[i] \in Events
      BY <3>2
    <3>4. \A i \in DOMAIN log : log[i].of \in Call
      BY <3>3 DEF Events
    <3> HIDE DEF n, m
    <3> QED BY <3>2, <3>3, <3>4
  <2> HIDE DEF n, m
  <2> SUFFICES ASSUME NEW i \in DOMAIN log
               PROVE  /\ \A j \in 1 .. i - 1 : SameSide(i, j) => log[j].of < log[i].of
                      /\ \A c \in 1 .. log[i].of : \E j \in 1 .. i : SameSide(i, j) /\ log[j].of = c
                      /\ ~IsCall(log[i]) => \E j \in 1 .. i - 1 : log[j] = CallEvent(log[i].of)
    BY DEF ModelOrder
  <2>2. DOMAIN log = 1 .. Len(log) /\ Len(log) \in Nat /\ \A j \in 1 .. i - 1 : j \in DOMAIN log /\ j < i
    BY <2>1
  <2>3. \A j \in 1 .. i - 1 : SameSide(i, j) => log[j].of < log[i].of
    BY <2>1, <2>2 DEF InOrder, SameSide
  <2>4. ASSUME NEW c \in 1 .. log[i].of
        PROVE  \E j \in 1 .. i : SameSide(i, j) /\ log[j].of = c
    <3>1. c \in Call /\ c \in Nat /\ log[i].of \in Nat /\ c <= log[i].of
      BY <2>1, ToolAssumption DEF Call, ToolAssumption
    <3>2. IF IsCall(log[i]) THEN log[i].of <= n ELSE log[i].of <= m
      BY <2>1 DEF InOrder
    <3>3. IF IsCall(log[i]) THEN c <= n ELSE c <= m
      BY <2>1, <3>1, <3>2
    <3>4. PICK j \in DOMAIN log : SameSide(i, j) /\ log[j].of = c
      BY <2>1, <3>1, <3>3 DEF InOrder, SameSide
    <3>5. j <= i
      <4>1. j > i => log[i].of < log[j].of
        BY <2>1, <3>4 DEF InOrder, SameSide
      <4> QED BY <2>2, <3>1, <3>4, <4>1
    <3> QED BY <2>2, <3>4, <3>5
  <2> QED BY <2>1, <2>3, <2>4 DEF InOrder
<1> QED BY <1>1, IInvAlways, LogInvAlways, PTL

\* A step that ends, aborted or not, has answered every call, and "aborted
\* before dispatch" answers only calls that never started.
THEOREM EveryEndIsAnswered == ASSUME ToolAssumption PROVE Spec => []EndsAnswered
<1>1. ASSUME IInv, LogInv PROVE EndsAnswered
  <2>1. ASSUME at = "done", NEW c \in Call
        PROVE  \E i \in DOMAIN log : ~IsCall(log[i]) /\ log[i].of = c
    <3>1. InOrder(log, N, N) /\ c <= N
      BY <1>1, <2>1, ToolAssumption DEF LogInv, Call, ToolAssumption
    <3> QED BY <3>1 DEF InOrder
  <2>2. at \in {"done", "failed"} => Bodies = {}
    BY <1>1 DEF LogInv, Bodies
  <2>3. \A i \in DOMAIN log : log[i].kind = "skipped" =>
           at # "failed" /\ startedAs[log[i].of] = "none" /\ signal
    BY <1>1 DEF LogInv
  <2> QED BY <2>1, <2>2, <2>3 DEF EndsAnswered
<1> QED BY <1>1, IInvAlways, LogInvAlways, PTL
=============================================================================
