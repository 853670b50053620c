------------------------------ MODULE AgentDriver -----------------------------
(***************************************************************************)
(* agent-loop/agent.ts and agent/inbox.ts: one agent's inbox and the       *)
(* driver that works it off, turn by turn and step by step, while messages *)
(* arrive, turns fail and are cancelled, and maintenance borrows the       *)
(* agent.  The driver yields at awaits only; what lies between two of them *)
(* is one action.                                                          *)
(***************************************************************************)
EXTENDS Integers, Sequences, FiniteSets, SequencesExt

CONSTANTS Msg,           \* messages, each sent once
          UserMsg,       \* those a person wrote
          MaxEvents      \* bound: cancellations, failures, steps that end in
                         \*   tool calls, maintenance jobs and edits of the
                         \*   queue, all together

ASSUME DriverAssumption ==
    UserMsg \subseteq Msg /\ MaxEvents \in Nat

VARIABLES phase,     \* idle, maintenance or running
          abort,     \* the cause the phase's signal was aborted with
          wake,      \* wakeRequested
          pc,        \* the await the driver is at
          ends,      \* turnEnds
          stepped,   \* has the turn entered a step?
          nextTurn, nextStep,  \* the inbox
          batch,     \* the messages claimed for the proposed step
          sent,      \* history: the messages sent so far,
          quiet,     \*   those that came with no turn to wait for nor wake,
          heard,     \*   those that entered a step,
          dropped,   \*   those claimed by a turn that ended before its step,
          discarded, \*   those cancelled in the inbox,
          parked,    \*   those left in the inbox on purpose
          events     \* the number of events MaxEvents bounds

inbox == <<nextTurn, nextStep>>
history == <<sent, quiet, heard, dropped, discarded, parked>>
driver == <<phase, abort, wake, pc, ends, stepped, batch>>
agentVars == <<driver, inbox, history, events>>

-----------------------------------------------------------------------------
Pending == Range(nextTurn) \cup Range(nextStep)
Status == IF phase = "running" THEN "running" ELSE "idle"

AgentInit ==
    /\ phase = "idle" /\ abort = "none" /\ wake = FALSE /\ pc = "off"
    /\ ends = "none" /\ stepped = FALSE
    /\ nextTurn = << >> /\ nextStep = << >> /\ batch = << >>
    /\ sent = {} /\ quiet = {} /\ heard = {} /\ dropped = {} /\ discarded = {} /\ parked = {}
    /\ events = 0

Spend == events < MaxEvents /\ events' = events + 1

\* turn() up to its first await: the turn opens and claims the next-step
\* input and one prompt of what is then in the inbox.
OpenTurn(turns, steps) ==
    /\ phase' = "running" /\ abort' = "none" /\ wake' = FALSE /\ pc' = "pre-step"
    /\ ends' = "none" /\ stepped' = FALSE
    /\ nextStep' = << >>
    /\ IF turns = << >> THEN batch' = steps /\ nextTurn' = << >>
       ELSE batch' = Append(steps, Head(turns)) /\ nextTurn' = Tail(turns)

-----------------------------------------------------------------------------
(* send, with followup, steer and inject *)

\* A turn that will look at the inbox again, if it does not fail.
TurnIsLive == pc \in {"pre-step", "step", "stopping", "between"} /\ abort = "none"

\* A waking message is left in the inbox: the driver is past its last look
\* at it, or a disposal has begun.
Unheeded == \/ abort = "disposed"
            \/ pc \in {"retire", "fail"} /\ abort = "none"

Latches_Maintenance(converging) == abort # "disposed" /\ phase = "maintenance"

\* wakeDriver, of a busy agent.
Latches(converging) == abort # "disposed" /\ (phase = "maintenance" \/ converging)

\* send, to a queue of these prompts and that next-step input.
Deliver(m, target, waking, prompts, input) ==
    LET converging == waking /\ phase # "idle" /\ abort # "none"
        goal == IF converging THEN "next-turn" ELSE target
        turns == IF goal = "next-turn" THEN Append(prompts, m) ELSE prompts
        steps == IF goal = "next-step" THEN Append(input, m) ELSE input
        latches == waking /\ Latches(converging)
    IN /\ quiet' = IF waking \/ TurnIsLive THEN quiet ELSE quiet \cup {m}
       /\ parked' = IF waking /\ Unheeded THEN parked \cup {m} ELSE parked \ {m}
       /\ IF waking /\ phase = "idle" THEN OpenTurn(turns, steps)
          ELSE /\ nextTurn' = turns /\ nextStep' = steps /\ wake' = (wake \/ latches)
               /\ UNCHANGED <<phase, abort, pc, ends, stepped, batch>>
       /\ UNCHANGED <<heard, dropped, discarded>>

Send(m, target, waking) ==
    /\ m \notin sent /\ sent' = sent \cup {m} /\ UNCHANGED events
    /\ Deliver(m, target, waking, nextTurn, nextStep)

Followup(m) == Send(m, "next-turn", TRUE)
Steer(m) == Send(m, "next-step", TRUE)
Inject(m) == Send(m, "next-step", FALSE)

\* Inbox.remove: the message is located in a list and spliced out of it.
Without(list, m) ==
    IF m \in Range(list) THEN RemoveAt(list, CHOOSE i \in DOMAIN list : list[i] = m) ELSE list

\* A person takes a queued message back ...
Withdraw(m) ==
    /\ m \in Pending /\ Spend /\ discarded' = discarded \cup {m}
    /\ nextTurn' = Without(nextTurn, m) /\ nextStep' = Without(nextStep, m)
    /\ UNCHANGED <<driver, sent, quiet, heard, dropped, parked>>

\* ... or has it steer the turn that runs: it is removed and sent again.
Promote(m) ==
    /\ Status = "running" /\ m \in Range(nextTurn) /\ Spend
    /\ Deliver(m, "next-step", TRUE, Without(nextTurn, m), nextStep) /\ UNCHANGED sent

Cancel(cause, keepInbox) ==
    /\ abort' = IF phase # "idle" /\ abort = "none" THEN cause ELSE abort
    /\ IF keepInbox
       THEN /\ parked' = IF phase = "running" /\ abort = "none" THEN parked \cup Pending ELSE parked
            /\ UNCHANGED <<inbox, wake, discarded>>
       ELSE /\ nextTurn' = << >> /\ nextStep' = << >> /\ wake' = FALSE
            /\ discarded' = discarded \cup Pending /\ UNCHANGED parked
    /\ UNCHANGED <<phase, pc, ends, stepped, batch, sent, quiet, heard, dropped>>

UserCancel == /\ Spend
              /\ \E keep \in BOOLEAN : Cancel("user", keep)

-----------------------------------------------------------------------------
(* The driver *)

\* The turn ends with the driver on its way out, by a throw or by return
\* false: the inbox is not looked at again.
Fail == /\ pc' = "fail" /\ batch' = << >> /\ ends' = "none" /\ stepped' = FALSE
        /\ parked' = IF abort = "none" THEN parked \cup Pending ELSE parked
        /\ UNCHANGED <<phase, abort, wake, inbox, heard>>

Aborted == abort # "none" /\ UNCHANGED events
Breaks == abort = "none" /\ Spend
Proceeds == abort = "none" /\ UNCHANGED events

EndTurn_Stops == /\ pc' = "retire" /\ ends' = "none" /\ stepped' = FALSE /\ batch' = << >>
                 /\ UNCHANGED <<phase, abort, wake, inbox, heard, parked>>

\* The turn ends in order: another one under a fresh signal, or none.
EndTurn == /\ pc' = (IF Pending # {} THEN "between" ELSE "retire")
           /\ wake' = (wake /\ Pending = {})
           /\ ends' = "none" /\ stepped' = FALSE /\ batch' = << >>
           /\ UNCHANGED <<phase, abort, inbox, heard, parked>>

ClaimSteps_Copies == /\ batch' = nextStep /\ pc' = "pre-step"
                     /\ UNCHANGED <<phase, abort, wake, stepped, inbox, heard, parked>>

ClaimSteps == /\ batch' = nextStep /\ nextStep' = << >> /\ pc' = "pre-step"
              /\ UNCHANGED <<phase, abort, wake, stepped, nextTurn, heard, parked>>

\* step/start: the batch enters the session, and the model is asked.
EnterStep == /\ pc' = "step" /\ stepped' = TRUE /\ batch' = << >>
             /\ UNCHANGED <<phase, abort, wake, ends, inbox, parked>>

\* agent/pre-step has answered: it rejects or throws, empties the batch or
\* finds it empty, or lets it enter.
PreStep ==
    /\ pc = "pre-step"
    /\ \/ /\ Aborted \/ Breaks
          /\ Fail /\ dropped' = dropped \cup Range(batch)
       \/ /\ Breaks \/ (Proceeds /\ batch = << >>)
          /\ dropped' = dropped \cup Range(batch)
          /\ \/ ends # "none" /\ EndTurn
             \/ ends = "none" /\ ~stepped /\ Fail
             \/ ends = "none" /\ stepped /\ EnterStep /\ UNCHANGED heard
       \/ /\ Proceeds
          /\ EnterStep /\ heard' = heard \cup Range(batch) /\ UNCHANGED dropped
    /\ UNCHANGED <<sent, quiet, discarded>>

\* The model and its tools have answered, or the request has failed.
Step ==
    /\ pc = "step"
    /\ \/ (Aborted \/ Breaks) /\ Fail
       \/ /\ abort = "none"
          /\ \/ UNCHANGED events
                /\ ends' \in IF ends = "max-tokens" THEN {ends} ELSE {"completed", "max-tokens"}
             \/ Spend
                /\ ends' = (IF ends = "max-tokens" THEN ends ELSE "none")
          /\ \/ ends' # "none" /\ nextStep = << >> /\ pc' = "stopping"
                /\ UNCHANGED <<phase, abort, wake, stepped, inbox, batch, heard, parked>>
             \/ ~(ends' # "none" /\ nextStep = << >>) /\ ClaimSteps
    /\ UNCHANGED <<sent, quiet, dropped, discarded>>

\* agent/turn-stopping has been heard.
Stopping ==
    /\ pc = "stopping"
    /\ \/ (Aborted \/ Breaks) /\ Fail
       \/ /\ Proceeds
          /\ \/ nextStep = << >> /\ EndTurn
             \/ nextStep # << >> /\ ClaimSteps /\ UNCHANGED ends
    /\ UNCHANGED <<sent, quiet, dropped, discarded>>

\* kick asks for the next turn; a signal aborted meanwhile ends it here.
Between ==
    /\ pc = "between"
    /\ \/ Proceeds /\ OpenTurn(nextTurn, nextStep) /\ UNCHANGED <<heard, parked>>
       \/ Aborted /\ Fail
    /\ UNCHANGED <<sent, quiet, dropped, discarded>>

\* An activity converges to idle; a latched wake is replayed.
Converge ==
    /\ IF wake /\ Pending # {} THEN OpenTurn(nextTurn, nextStep)
       ELSE /\ phase' = "idle" /\ abort' = "none" /\ wake' = FALSE /\ pc' = "off"
            /\ UNCHANGED <<ends, stepped, inbox, batch>>
    /\ UNCHANGED <<history, events>>

\* kick's finally.
Retire == pc \in {"retire", "fail"} /\ Converge

BeginMaintenance ==
    /\ phase = "idle" /\ Spend
    /\ phase' = "maintenance" /\ abort' = "none" /\ wake' = FALSE /\ pc' = "maintenance"
    /\ UNCHANGED <<ends, stepped, inbox, batch, history>>

EndMaintenance == pc = "maintenance" /\ Converge

Drive == PreStep \/ Step \/ Stopping \/ Between \/ Retire \/ EndMaintenance

\* A person talks to the agent; every message is a new one.
Speak == LET m == CHOOSE m \in UserMsg \ sent : TRUE
         IN UserMsg \ sent # {} /\ (Followup(m) \/ Steer(m) \/ Inject(m))

\* A person edits the queue.
EditQueue == \E m \in Msg : Withdraw(m) \/ Promote(m)

-----------------------------------------------------------------------------
(* Properties *)

\* Type invariant; no more than one driver, and one whenever there is a turn.
AgentTypeOK ==
    /\ pc \in {"off", "maintenance", "pre-step", "step", "stopping", "between", "retire", "fail"}
    /\ phase = CASE pc = "off" -> "idle" [] pc = "maintenance" -> "maintenance" [] OTHER -> "running"
    /\ abort \in {"none", "user", "disposed"} /\ {wake, stepped} \subseteq BOOLEAN
    /\ ends \in {"none", "completed", "max-tokens"}
    /\ Range(batch) \cup Pending \subseteq sent /\ (batch # << >> => pc = "pre-step")
    /\ {sent, quiet, heard, dropped, discarded, parked} \subseteq SUBSET Msg
    /\ events \in 0..MaxEvents

\* Each message is at one place: in the inbox, in a proposed step, in the
\* session, or left out by a turn or a cancellation that ended it; it is
\* never claimed twice and never gone without a trace.
EachMessageOnce ==
    /\ AgentTypeOK
    /\ IsInjective(nextTurn \o nextStep \o batch)
    /\ Cardinality(Pending) + Len(batch) + Cardinality(heard) + Cardinality(dropped)
         + Cardinality(discarded) = Cardinality(sent)
    /\ sent = Pending \cup Range(batch) \cup heard \cup dropped \cup discarded

\* "Waking input submitted after active cancellation ... runs when the
\* aborted activity converges to idle" (runtime-types.ts), and what arrives
\* during a turn "the turn cannot close over" (tool-jobs/index.ts): an idle
\* agent has nothing in its inbox but what a failed or cancelled turn, a
\* disposal or the driver's retirement has left there, and what came without
\* a wake while no turn was to see it.
IdleHasNoWork == phase = "idle" => Pending \subseteq quiet \cup parked

\* A message that the driver owes a turn does not wait for ever: it leaves
\* the inbox, or the turn fails or is cancelled before it.
InboxIsServed ==
    \A m \in Msg : (m \in Pending \ quiet) ~> (m \notin Pending \/ m \in parked)
=============================================================================
