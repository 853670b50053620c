---------------------------- MODULE AtomicTransfer ----------------------------
(***************************************************************************)
(* What an import or a reset promises: it applies at every backend or at   *)
(* none, once, for good, and the answer never claims what has not come     *)
(* about.                                                                  *)
(***************************************************************************)
CONSTANT Txn

VARIABLES outcome,  \* "pending", "applied" or "dropped"
          answer    \* what the operation ended with

Init == /\ outcome = [t \in Txn |-> "pending"]
        /\ answer = [t \in Txn |-> "none"]

Decide(t) == /\ outcome[t] = "pending"
             /\ \E o \in {"applied", "dropped"} : outcome' = [outcome EXCEPT ![t] = o]

\* The answers a transaction with this outcome may get.
Honest(o) == CASE o = "applied" -> {"applied", "unclean"}
               [] o = "dropped" -> {"refused"}
               [] OTHER         -> {"stuck"}

Answer(t) == /\ answer[t] = "none"
             /\ \E a \in Honest(outcome'[t]) \cup {"lost"} : answer' = [answer EXCEPT ![t] = a]

\* A step decides, answers, or does both.
Next == \E t \in Txn : \/ Decide(t) /\ (Answer(t) \/ UNCHANGED answer)
                       \/ Answer(t) /\ UNCHANGED outcome

Spec == Init /\ [][Next]_<<outcome, answer>>
=============================================================================
