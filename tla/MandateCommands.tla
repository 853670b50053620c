--------------------------- MODULE MandateCommands ---------------------------
(***************************************************************************)
(* MandateService as its clients see it: a command carries an idempotency  *)
(* key, and a client that did not get its answer sends the same command    *)
(* again, any number of times and arbitrarily late, while others send      *)
(* theirs.  _idempotent looks the key up, acts and saves the answer in one *)
(* transaction, so one action executes one command.                        *)
(***************************************************************************)
EXTENDS Mandates

CONSTANTS Keys,    \* idempotency keys clients use, per kind of operation
          Bodies   \* [count, watch, timed]: requests of create and revise

VARIABLES answers,  \* idempotent responses: <<operation, key>> -> the command
          replied,  \* history: the <<operation, key>> that were answered once
          acted     \* history: how often <<operation, key>> took effect, up to 2

commandVars == <<mandateVars, answers, replied, acted>>

-----------------------------------------------------------------------------
Operations == {"create", "revise", "tracking", "paused", "ended", "resolve"}
Slots == Operations \X Keys
Targets == {"tracking", "paused", "ended"}

\* The requests that can be made; everything but the key is hashed.
Commands ==
    [op : {"create"}, key : Keys, body : Bodies]
      \cup [op : {"revise"}, key : Keys, mandate : MandateIds,
            expected : Revisions, body : Bodies]
      \cup [op : Targets, key : Keys, mandate : MandateIds, expected : Revisions]
      \cup [op : {"resolve"}, key : Keys, mandate : MandateIds, req : Requirements]

Slot(c) == <<c.op, c.key>>
NoAnswer == [op |-> "none"]

\* The ids of new requirements are drawn afresh at each execution.
Draws(n) == {S \in SUBSET Fresh : Cardinality(S) = n}

Act(c) ==
    CASE c.op = "create" ->
           \E m \in MandateIds, needs \in Draws(c.body.count) :
               Create(m, needs, c.body.watch, c.body.timed)
      [] c.op = "revise" ->
           \E needs \in Draws(c.body.count) :
               Revise(c.mandate, c.expected, needs, c.body.watch, c.body.timed)
      [] c.op = "resolve" -> ResolveRequirement(c.mandate, c.req)
      [] OTHER -> ApplyStatus(c.mandate, c.expected, c.op)

TookEffect == outbox' # outbox \/ reqs' # reqs

\* Mutant: an answer that changed nothing is not saved.
Save_Effective(c) ==
    answers' = IF TookEffect THEN [answers EXCEPT ![Slot(c)] = c] ELSE answers

\* save_idempotent_response, in the transaction of the command.
Save(c) == answers' = [answers EXCEPT ![Slot(c)] = c]

\* _idempotent when the key is new: the command acts or is refused.  A saved
\* key answers (same request) or conflicts (another one); both change nothing.
Execute(c) ==
    /\ answers[Slot(c)] = NoAnswer
    /\ Act(c)
    /\ Save(c)
    /\ replied' = replied \cup {Slot(c)}
    /\ acted' = [acted EXCEPT ![Slot(c)] = IF TookEffect /\ @ < 2 THEN @ + 1 ELSE @]

CInit == /\ Init
         /\ answers = [s \in Slots |-> NoAnswer]
         /\ replied = {}
         /\ acted = [s \in Slots |-> 0]

CNext == \E c \in Commands : Execute(c)

CSpec == CInit /\ [][CNext]_commandVars

-----------------------------------------------------------------------------
(* Properties *)

\* Type invariant, and: old revisions route nothing.
CommandsTypeOK == /\ OnlyCurrentInForce
                  /\ TypeOK
                  /\ answers \in [Slots -> Commands \cup {NoAnswer}]
                  /\ replied \subseteq Slots
                  /\ acted \in [Slots -> 0 .. 2]

\* A command that was answered, even with "nothing to do", never acts again,
\* however often and late its client repeats it: a repeated create makes no
\* second mandate, a repeated pause does not undo somebody's resume.
AnsweredNeverActs ==
    [][\A s \in replied : acted'[s] = acted[s]]_commandVars

\* Nothing but a resumption starts a mandate that was stopped: revising a
\* paused one does not, and an ended one stays as it is, status, revision,
\* dependencies and schedules, whatever late revise or resolution comes.
StoppedUntilResumed ==
    [][\A m \in MandateIds :
          /\ status[m] = "paused" /\ status'[m] # "paused" => revision'[m] = revision[m]
          /\ status[m] = "ended" =>
                /\ status'[m] = "ended" /\ revision'[m] = revision[m]
                /\ deps'[m] = {} /\ scheds'[m] = scheds[m]]_mandateVars
=============================================================================
