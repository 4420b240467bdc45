-------------------------- MODULE MCTaskScheduler --------------------------
(* Small instances of TaskScheduler for TLC, and the properties they check. *)
EXTENDS TaskScheduler, TLC

CONSTANTS daily, weekly, monthly, oneoff, onmail

MCTrigger == [t \in Tasks |-> CASE t \in {daily, weekly, monthly} -> "recurring"
                                [] t = oneoff -> "once"
                                [] t = onmail -> "event"]
MCNoChain == [t \in Tasks |-> NoTask]
MCEventChain == [t \in Tasks |-> IF t = onmail THEN CHOOSE u \in Tasks : u # onmail
                                ELSE NoTask]

\* What concerns two tasks needs two of them, which nobody edits; a schedule and
\* a trigger concern one task and its runs.  The two have good schedules.
Scopes == {{daily, weekly}, {monthly}, {onmail}}
InitScoped == Init /\ {t \in Tasks : status[t] # "deleted"} \in Scopes
              /\ \A t \in {daily, weekly} : status[t] # "completed"
ScopedSpec == InitScoped /\ [][Next]_vars

Symmetric == Permutations({daily, weekly}) \cup Permutations(Runs)
=============================================================================
