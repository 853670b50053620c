-------------------------- MODULE MCContactDecisions --------------------------
(* Small instances of ContactDecisions. *)
EXTENDS ContactDecisions

CONSTANT w1

Plain == [mode |-> "condition", notifyOn |-> "level", sustain |-> 0, reentry |-> 0,
          cooldown |-> 0, merge |-> 0, unknownRetry |-> 0, maxRetries |-> 0]

\* Every notify_on that looks back, with sustain, re-entry, cooldown, merge and
\* retry times spread over them, and contact by date.
MCPolicies ==
    {[Plain EXCEPT !.notifyOn = "transition", !.cooldown = 1],
     [Plain EXCEPT !.notifyOn = "first_entry", !.sustain = 1, !.unknownRetry = 1,
                   !.maxRetries = 1],
     [Plain EXCEPT !.notifyOn = "reentry", !.reentry = 2, !.merge = 2],
     [Plain EXCEPT !.mode = "scheduled_delivery", !.merge = 1]}

MCVerdicts == {"met", "unmet", "unknown"}
MCQuiet == {0}
MCOneThread == {w1}
=============================================================================
