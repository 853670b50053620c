------------------------------- MODULE ToolCalls ------------------------------
(***************************************************************************)
(* agent-loop/tool-calls.ts: the tool calls of one assistant step.         *)
(* Exclusive calls are barriers, parallel calls overlap in a bounded pool, *)
(* and results enter the session in the model's order, while the registry  *)
(* reclassifies tools, tools fail and the user aborts.                     *)
(***************************************************************************)
EXTENDS Integers, Sequences, FiniteSets

CONSTANTS N,            \* the calls of the step are 1 .. N
          MaxParallel,  \* maxParallelToolCalls
          MaxFlips      \* bound: changes of a tool's execution mode

ASSUME ToolAssumption == {N, MaxParallel} \subseteq Nat \ {0} /\ MaxFlips \in Nat

VARIABLES live,     \* executionMode's present answer for each call
          signal,   \* has the step been aborted?
          at,       \* where the scheduler is
          group,    \* the calls of the present group
          mode,     \* the mode the group was opened with
          started,  \* the calls started so far
          commits,  \* the calls whose results are committed, in order
          flight,   \* inFlight: dispatched calls the race has not returned
          slots,    \* calls with a result that waits for its turn
          stop,     \* aborted
          failure,  \* schedulerFailure
          startedAs,  \* history: the mode each call was started under
          log,      \* the session's tool/call and tool/result events
          flips

sched == <<at, group, mode, started, commits, stop, startedAs, log>>
vars == <<live, signal, sched, flight, slots, failure, flips>>

-----------------------------------------------------------------------------
Call == 1 .. N
Modes == {"parallel", "exclusive"}
Next1 == started + 1

CallEvent(c) == [kind |-> "call", of |-> c]
ResultEvent(c) == [kind |-> "result", of |-> c]
SkippedEvent(c) == [kind |-> "skipped", of |-> c]

\* The remaining calls from c on, each with its answer at once.
Skipped(c) == [i \in 1 .. 2 * (N - c + 1) |->
                  IF i % 2 = 1 THEN CallEvent(c + i \div 2) ELSE SkippedEvent(c + (i \div 2) - 1)]

\* Bodies that run: dispatched and not settled.
Bodies == {c \in flight : c \notin slots /\ ~failure[c]}
Failed == \E c \in 0 .. N : failure[c]

Init == /\ live \in [Call -> Modes]
        /\ signal = FALSE /\ stop = FALSE /\ at = "pick"
        /\ group = {} /\ mode = "parallel" /\ started = 0 /\ commits = 0
        /\ flight = {} /\ slots = {} /\ failure = [c \in 0 .. N |-> FALSE]
        /\ startedAs = [c \in Call |-> "none"] /\ log = << >> /\ flips = 0

-----------------------------------------------------------------------------
\* executeToolCalls classifies the first call not yet started and opens a
\* group with it.
Pick == /\ at = "pick" /\ started < N
        /\ mode' = live[Next1]
        /\ group' = IF live[Next1] = "parallel" THEN Next1 .. N ELSE {Next1}
        /\ stop' = signal /\ at' = "fill"
        /\ UNCHANGED <<live, signal, started, commits, startedAs, log, flight, slots, failure, flips>>

Finish == /\ at = "pick" /\ started = N /\ at' = "done"
          /\ UNCHANGED <<live, signal, group, mode, started, commits, stop, startedAs, log,
                         flight, slots, failure, flips>>

\* Mutant: the mode the group was opened with is not read again.
MayStart_Stale == ~stop /\ Next1 \in group /\ Cardinality(flight) < MaxParallel

\* fillPool's conditions: room, and no barrier ahead.
MayStart == /\ ~stop /\ Next1 \in group /\ Cardinality(flight) < MaxParallel
            /\ \/ Next1 - 1 \notin group
               \/ mode = "exclusive"
               \/ live[Next1] = "parallel"

\* startCall up to the await of prepare.
StartCall ==
    /\ at = "fill" /\ MayStart
    /\ log' = Append(log, CallEvent(Next1))
    /\ started' = Next1
    /\ startedAs' = [startedAs EXCEPT ![Next1] = live[Next1]]
    /\ at' = "prepare"
    /\ UNCHANGED <<live, signal, group, mode, commits, stop, flight, slots, failure, flips>>

\* prepare returns: the call is dispatched, or has its result already.  A
\* dispatch that failed meanwhile ends the group here.
Prepared ==
    /\ at = "prepare"
    /\ IF Failed THEN at' = "drain" /\ UNCHANGED <<flight, slots>>
       ELSE /\ at' = "commit"
            /\ \/ flight' = flight \cup {started} /\ UNCHANGED slots
               \/ slots' = slots \cup {started} /\ UNCHANGED flight
    /\ UNCHANGED <<live, signal, group, mode, started, commits, stop, startedAs, log, failure, flips>>

\* Mutant: a result is committed as soon as it is there.
Commit_Settled ==
    /\ at = "commit" /\ slots # {}
    /\ \E c \in slots : log' = Append(log, ResultEvent(c)) /\ slots' = slots \ {c}
    /\ commits' = commits + 1
    /\ UNCHANGED <<live, signal, at, group, mode, started, stop, startedAs, flight, failure, flips>>

\* commitReady takes the next result in model order; the others wait.
Commit ==
    /\ at = "commit" /\ commits + 1 \in slots
    /\ commits' = commits + 1 /\ log' = Append(log, ResultEvent(commits + 1))
    /\ slots' = slots \ {commits + 1}
    /\ UNCHANGED <<live, signal, at, group, mode, started, stop, startedAs, flight, failure, flips>>

Committed ==
    /\ at = "commit" /\ commits + 1 \notin slots
    /\ IF Failed THEN at' = "drain" /\ UNCHANGED stop
       ELSE at' = "fill" /\ stop' = (stop \/ signal)
    /\ UNCHANGED <<live, signal, group, mode, started, commits, startedAs, log, flight, slots,
                   failure, flips>>

\* prepare or finalize throws.
Throws ==
    /\ at = "prepare" \/ (at = "commit" /\ commits + 1 \in slots)
    /\ ~Failed /\ failure' = [failure EXCEPT ![0] = TRUE] /\ at' = "drain"
    /\ UNCHANGED <<live, signal, group, mode, started, commits, stop, startedAs, log, flight,
                   slots, flips>>

\* Nothing to start: wait for one of the dispatched calls.
Race ==
    /\ at = "fill" /\ ~MayStart
    /\ \E c \in flight : c \notin Bodies /\ flight' = flight \ {c}
    /\ at' = IF Failed THEN "drain" ELSE "commit"
    /\ UNCHANGED <<live, signal, group, mode, started, commits, stop, startedAs, log, slots,
                   failure, flips>>

\* Mutant: an aborted group leaves its skipped calls unanswered.
GroupEnds_Bare ==
    /\ at = "fill" /\ ~MayStart /\ flight = {} /\ at' = IF stop THEN "done" ELSE "pick"
    /\ UNCHANGED <<live, signal, group, mode, started, commits, stop, startedAs, log, flight,
                   slots, failure, flips>>

\* The group has drained: the next one, or the skipped calls of an abort.
GroupEnds ==
    /\ at = "fill" /\ ~MayStart /\ flight = {}
    /\ IF stop THEN at' = "done" /\ log' = log \o Skipped(Next1)
       ELSE at' = "pick" /\ UNCHANGED log
    /\ UNCHANGED <<live, signal, group, mode, started, commits, stop, startedAs, flight, slots,
                   failure, flips>>

\* Mutant: the drain waits for the race to empty the map.
Drained_Map == /\ at = "drain" /\ flight = {} /\ at' = "failed"
               /\ UNCHANGED <<live, signal, group, mode, started, commits, stop, startedAs, log,
                              flight, slots, failure, flips>>

\* allSettled, and the first failure is thrown.
Drained == /\ at = "drain" /\ Bodies = {} /\ at' = "failed"
           /\ UNCHANGED <<live, signal, group, mode, started, commits, stop, startedAs, log,
                          flight, slots, failure, flips>>

-----------------------------------------------------------------------------
\* Between its choice of a call and the call's start the scheduler does not
\* await anything.
Yields == at = "fill" => ~MayStart /\ flight # {}

\* A tool's body ends, with a result or by breaking the scheduler.
Settle(c) == /\ Yields /\ c \in Bodies
             /\ \/ slots' = slots \cup {c} /\ UNCHANGED failure
                \/ ~Failed /\ failure' = [failure EXCEPT ![c] = TRUE] /\ UNCHANGED slots
             /\ UNCHANGED <<live, signal, sched, flight, flips>>

Abort == /\ Yields /\ ~signal /\ signal' = TRUE
         /\ UNCHANGED <<live, sched, flight, slots, failure, flips>>

\* A tool is registered anew with another execution mode.
Reclassify(c) == /\ Yields /\ flips < MaxFlips /\ flips' = flips + 1
                 /\ \E m \in Modes \ {live[c]} : live' = [live EXCEPT ![c] = m]
                 /\ UNCHANGED <<signal, sched, flight, slots, failure>>

Scheduler == \/ Pick \/ Finish \/ StartCall \/ Prepared \/ Commit \/ Committed \/ Throws
             \/ Race \/ GroupEnds \/ Drained

Next == Scheduler \/ Abort \/ \E c \in Call : Settle(c) \/ Reclassify(c)

Spec == Init /\ [][Next]_vars

\* Every tool's body ends some day, and the scheduler goes on.
FairSpec == Spec /\ WF_vars(Scheduler) /\ \A c \in Call : WF_vars(Settle(c))

-----------------------------------------------------------------------------
(* Properties *)

\* Type invariant.
TypeOK == /\ live \in [Call -> Modes] /\ mode \in Modes /\ {signal, stop} \subseteq BOOLEAN
          /\ at \in {"pick", "fill", "prepare", "commit", "drain", "done", "failed"}
          /\ group \subseteq Call /\ flight \subseteq Call /\ slots \subseteq Call
          /\ commits \in 0 .. started /\ started \in 0 .. N
          /\ failure \in [0 .. N -> BOOLEAN] /\ startedAs \in [Call -> Modes \cup {"none"}]
          /\ log \in Seq([kind : {"call", "result", "skipped"}, of : Call])

\* "Exclusive calls form barriers; parallel calls use a bounded rolling
\* pool": whatever the registry does meanwhile, two bodies overlap only if
\* both calls were parallel when they started, and never more than the bound.
OverlapIsAllowed ==
    /\ TypeOK
    /\ Cardinality(Bodies) <= MaxParallel
    /\ \A c, d \in Bodies : c # d => {startedAs[c], startedAs[d]} = {"parallel"}

IsCall(e) == e.kind = "call"
SameSide(i, j) == IsCall(log[i]) <=> IsCall(log[j])

\* Calls and results enter the session in the model's order, each once and
\* none left out, and no result before its call.
ModelOrder ==
    \A i \in DOMAIN log :
       /\ \A j \in 1 .. i - 1 : SameSide(i, j) => log[j].of < log[i].of
       /\ \A c \in 1 .. log[i].of : \E j \in 1 .. i : SameSide(i, j) /\ log[j].of = c
       /\ ~IsCall(log[i]) => \E j \in 1 .. i - 1 : log[j] = CallEvent(log[i].of)

\* A step that ends, aborted or not, has answered every call; what a tool
\* did is never covered by "aborted before dispatch"; a failed scheduler
\* invents no result and leaves no body running.
EndsAnswered ==
    /\ at = "done" => \A c \in Call : \E i \in DOMAIN log : ~IsCall(log[i]) /\ log[i].of = c
    /\ at \in {"done", "failed"} => Bodies = {}
    /\ \A i \in DOMAIN log : log[i].kind = "skipped" =>
          at # "failed" /\ startedAs[log[i].of] = "none" /\ signal

\* Every step comes to an end.
Terminates == <>(at \in {"done", "failed"})
=============================================================================
