------------------------------- MODULE BgJobs -------------------------------
(***************************************************************************)
(* Background jobs of the agent's bash tool (src/bg_jobs.py) and the       *)
(* monitor that re-invokes the agent when one finishes                     *)
(* (src/bg_monitor.py).  A job is a detached process that leaves its exit  *)
(* code in a file; its record is in a JSON store; the follow-up is an      *)
(* agent run of minutes inside the job's conversation.                     *)
(*                                                                         *)
(* All functions of bg_jobs.py are called on the event loop and hold no    *)
(* await: each is one step, and the monitor runs on to the next await.     *)
(***************************************************************************)
EXTENDS Naturals, FiniteSets

CONSTANTS
    Jobs,
    Sessions,
    NoJob,
    MaxFaults   \* bound: crashes, failed saves and raising follow-ups

ASSUME JobsAssumption == NoJob \notin Jobs /\ Sessions # {}
ASSUME FaultsAssumption == MaxFaults \in Nat

VARIABLES
    home,       \* the session each job belongs to
    proc,       \* the detached process; "closing": its exit file is open
    file,       \* the exit file
    overdue,    \* jobs that run longer than max_runtime_s
    rec,        \* the records of the store
    turn,       \* the live run of each session, as is_active sees it
    deleted,    \* sessions that were deleted
    told,       \* answers of the agent about a job, in the database
    up,         \* the server runs
    at,         \* the job the monitor follows up
    todo,       \* the rest of its list
    faults

procVars == <<proc, file, overdue>>
monitor  == <<at, todo>>
vars     == <<home, procVars, rec, turn, deleted, told, up, monitor, faults>>

NoRec == [status |-> "none", why |-> "", followed |-> FALSE]
Final == {"done", "failed"}

TypeOK ==
    /\ home \in [Jobs -> Sessions]
    /\ proc \in [Jobs -> {"absent", "running", "closing", "gone"}]
    /\ file \in [Jobs -> {"none", "empty", "ok", "bad"}]
    /\ overdue \subseteq Jobs
    /\ rec \in [Jobs -> [status : {"none", "running"} \cup Final,
                         why : {"", "exit", "timeout", "died", "killed"},
                         followed : BOOLEAN]]
    /\ turn \in [Sessions -> {"idle", "live", "stuck"}]
    /\ deleted \subseteq Sessions
    /\ told \in [Jobs -> Nat]
    /\ up \in BOOLEAN
    /\ at \in Jobs \cup {NoJob} /\ todo \subseteq Jobs
    /\ faults \in 0 .. MaxFaults

Init ==
    /\ home \in [Jobs -> Sessions]
    /\ proc = [j \in Jobs |-> "absent"]
    /\ file = [j \in Jobs |-> "none"]
    /\ overdue = {}
    /\ rec = [j \in Jobs |-> NoRec]
    /\ turn = [s \in Sessions |-> "idle"]
    /\ deleted = {}
    /\ told = [j \in Jobs |-> 0]
    /\ up = TRUE
    /\ at = NoJob /\ todo = {}
    /\ faults = 0

-----------------------------------------------------------------------------
(* The processes. *)

\* The command ends, and the wrapper opens the exit file.
CommandEnds(j) ==
    /\ proc[j] = "running"
    /\ proc' = [proc EXCEPT ![j] = "closing"]
    /\ file' = [file EXCEPT ![j] = "empty"]
    /\ UNCHANGED <<home, overdue, rec, turn, deleted, told, up, monitor, faults>>

\* It writes the code.
ExitWritten(j) ==
    /\ proc[j] = "closing"
    /\ proc' = [proc EXCEPT ![j] = "gone"]
    /\ \E code \in {"ok", "bad"} : file' = [file EXCEPT ![j] = code]
    /\ UNCHANGED <<home, overdue, rec, turn, deleted, told, up, monitor, faults>>

\* Killed from outside, out of memory, or the machine restarts.
Vanishes(j) ==
    /\ proc[j] \in {"running", "closing"}
    /\ proc' = [proc EXCEPT ![j] = "gone"]
    /\ UNCHANGED <<home, file, overdue, rec, turn, deleted, told, up, monitor, faults>>

Overdue(j) ==
    /\ rec[j].status = "running" /\ j \notin overdue
    /\ overdue' = overdue \cup {j}
    /\ UNCHANGED <<home, proc, file, rec, turn, deleted, told, up, monitor, faults>>

-----------------------------------------------------------------------------
(* The store. *)

\* Mutant: the arguments are swapped.
EndedSwapped(status, why, followed) == [status |-> why, why |-> status, followed |-> followed]
Ended(status, why, followed) == [status |-> status, why |-> why, followed |-> followed]

\* Mutant: an empty exit file reads as code 0.
RefreshedEmptyOk(j, dead) ==
    IF rec[j].status = "running" /\ file[j] # "none"
    THEN Ended(IF file[j] = "bad" THEN "failed" ELSE "done", "exit", FALSE) ELSE rec[j]
\* Mutant: a job that runs too long is not reaped.
RefreshedPatient(j, dead) ==
    IF rec[j].status # "running" THEN rec[j]
    ELSE IF file[j] # "none"
         THEN Ended(IF file[j] = "ok" THEN "done" ELSE "failed", "exit", FALSE)
    ELSE IF j \in dead THEN Ended("failed", "died", FALSE)
    ELSE rec[j]
\* What refresh makes of a record; an empty exit file reads as code 1.
Refreshed(j, dead) ==
    IF rec[j].status # "running" THEN rec[j]
    ELSE IF file[j] # "none"
         THEN Ended(IF file[j] = "ok" THEN "done" ELSE "failed", "exit", FALSE)
    ELSE IF j \in overdue THEN Ended("failed", "timeout", FALSE)
    ELSE IF j \in dead THEN Ended("failed", "died", FALSE)
    ELSE rec[j]

\* The pid of a process that is gone may answer: it may be a zombie's, or belong
\* to another process by now.
Silent == {j \in Jobs : proc[j] = "gone" /\ rec[j].status = "running" /\ file[j] = "none"}

\* _prune: records whose retention is over, and their files.
Prunable(r) == {j \in Jobs : r[j].status \in Final /\ r[j].followed}

\* SIGTERM to the process group; the command may ignore it.
Terminated(hit) ==
    \E ends \in SUBSET {j \in hit : proc[j] \in {"running", "closing"}} :
        proc' = [j \in Jobs |-> IF j \in ends THEN "gone" ELSE proc[j]]

\* refresh: the records it may return.
Refreshes ==
    UNION {LET new == [j \in Jobs |-> Refreshed(j, dead)] IN
           {[j \in Jobs |-> IF j \in old THEN NoRec ELSE new[j]] :
               old \in SUBSET Prunable(new)} : dead \in SUBSET Silent}

\* The exit files of pruned records are removed.
Files(r) == [j \in Jobs |-> IF rec[j] # NoRec /\ r[j] = NoRec THEN "none" ELSE file[j]]

TimedOut(r) == {j \in Jobs : r[j].why = "timeout" /\ rec[j].status = "running"}

\* An agent acts in a session: the user's turn, or a follow-up.
Acting(s) == up /\ (turn[s] = "live" \/ (at # NoJob /\ home[at] = s))

\* launch: the process is started, then the record is stored.
Launch(j) ==
    /\ proc[j] = "absent" /\ Acting(home[j])
    /\ proc' = [proc EXCEPT ![j] = "running"]
    /\ rec' = [rec EXCEPT ![j].status = "running"]
    /\ UNCHANGED <<home, file, overdue, turn, deleted, told, up, monitor, faults>>

\* The tool's "list" and "output".
Look(s) ==
    /\ Acting(s)
    /\ \E r \in Refreshes :
          rec' = r /\ file' = Files(r) /\ Terminated(TimedOut(r))
    /\ UNCHANGED <<home, overdue, turn, deleted, told, up, monitor, faults>>

\* The tool's "kill": get, and kill if the job still runs.
\* Mutants: a job that has ended is marked killed as well; a killed job is not
\* marked followed up.
KilledAnyway(r, j) == [r EXCEPT ![j] = Ended("failed", "killed", TRUE)]
KilledPending(r, j) ==
    IF r[j].status = "running"
    THEN [r EXCEPT ![j] = Ended("failed", "killed", FALSE)] ELSE r
Killed(r, j) ==
    IF r[j].status = "running"
    THEN [r EXCEPT ![j] = Ended("failed", "killed", TRUE)] ELSE r
Kill(j) ==
    /\ Acting(home[j]) /\ rec[j].status # "none"
    /\ \E r \in Refreshes :
          /\ rec' = Killed(r, j) /\ file' = Files(r)
          /\ Terminated(TimedOut(r) \cup {k \in {j} : r[k].status = "running"})
    /\ UNCHANGED <<home, overdue, turn, deleted, told, up, monitor, faults>>

-----------------------------------------------------------------------------
(* The monitor. *)

Pending(r) == {j \in Jobs : r[j].status \in Final /\ ~r[j].followed}

\* _run_followup up to the agent's first await: not into a live turn, and a
\* session that is gone raises.
CanFollow(j) == home[j] \notin deleted /\ turn[home[j]] = "idle"

\* The loop over the list, up to the next follow-up or to the sleep.
Proceed(list) ==
    \/ \E j \in {k \in list : CanFollow(k)} :
         \E skipped \in SUBSET {k \in list : ~CanFollow(k)} :
           /\ at' = j
           /\ todo' = list \ (skipped \cup {j})
    \/ /\ ~\E j \in list : CanFollow(j)
       /\ at' = NoJob /\ todo' = {}

Tick ==
    /\ up /\ at = NoJob
    /\ \E r \in Refreshes :
          /\ rec' = r /\ file' = Files(r) /\ Terminated(TimedOut(r))
          /\ Proceed(Pending(r))
    /\ UNCHANGED <<home, overdue, turn, deleted, told, up, faults>>

TickStarts(j) ==
    /\ up /\ at = NoJob /\ CanFollow(j) /\ rec[j].status # "none"
    /\ at' = j /\ Tick

\* Mutant: the mark is not stored.
MarkedNowhere(j) == rec
\* mark_followed_up loads the store anew.
Marked(j) == [rec EXCEPT ![j].followed = TRUE]

Told(j) == told' = [told EXCEPT ![j] = @ + 1]

\* The agent's stream has ended.  There is no answer if the stream was the error
\* event of a model that failed, or if the database fails: neither is noticed.
FollowUpEnds(j) ==
    /\ up /\ at = j /\ home[j] \notin deleted
    /\ Told(j) \/ UNCHANGED told
    /\ rec' = Marked(j)
    /\ Proceed(todo)
    /\ UNCHANGED <<home, procVars, turn, deleted, up, faults>>

\* The session was deleted meanwhile: add_message raises.
FollowUpOrphaned(j) ==
    /\ up /\ at = j /\ home[j] \in deleted
    /\ Proceed(todo)
    /\ UNCHANGED <<home, procVars, rec, turn, deleted, told, up, faults>>

\* The agent raises, or the store cannot be written once the message is there.
FollowUpFails(j) ==
    /\ up /\ at = j /\ home[j] \notin deleted
    /\ faults < MaxFaults /\ faults' = faults + 1
    /\ Told(j) \/ UNCHANGED told
    /\ Proceed(todo)
    /\ UNCHANGED <<home, procVars, rec, turn, deleted, up>>

-----------------------------------------------------------------------------
(* The sessions and the server. *)

TurnStarts(s) ==
    /\ up /\ s \notin deleted /\ turn[s] # "live"
    /\ turn' = [turn EXCEPT ![s] = "live"]
    /\ UNCHANGED <<home, procVars, rec, deleted, told, up, monitor, faults>>

\* It ends, or was cancelled before it began and stays "running" (AgentRuns).
TurnEnds(s) ==
    /\ up /\ turn[s] = "live"
    /\ \E how \in {"idle", "stuck"} : turn' = [turn EXCEPT ![s] = how]
    /\ UNCHANGED <<home, procVars, rec, deleted, told, up, monitor, faults>>

DeleteSession(s) ==
    /\ up /\ s \notin deleted
    /\ deleted' = deleted \cup {s}
    /\ UNCHANGED <<home, procVars, rec, turn, told, up, monitor, faults>>

\* The server dies: between two steps, between the start of a process and its
\* record, or between a message and its mark.
Crash ==
    /\ up /\ faults < MaxFaults
    /\ up' = FALSE /\ faults' = faults + 1
    /\ turn' = [s \in Sessions |-> "idle"]
    /\ at' = NoJob /\ todo' = {}
    /\ \/ UNCHANGED <<proc, told>>
       \/ \E j \in Jobs : /\ proc[j] = "absent" /\ Acting(home[j])
                          /\ proc' = [proc EXCEPT ![j] = "running"]
                          /\ UNCHANGED told
       \/ \E j \in Jobs : /\ at = j /\ home[j] \notin deleted
                          /\ Told(j)
                          /\ UNCHANGED proc
    /\ UNCHANGED <<home, file, overdue, rec, deleted>>

Restart ==
    /\ ~up
    /\ up' = TRUE
    /\ UNCHANGED <<home, procVars, rec, turn, deleted, told, monitor, faults>>

-----------------------------------------------------------------------------
FollowUpStep(j) == FollowUpEnds(j) \/ FollowUpOrphaned(j) \/ FollowUpFails(j)

Next ==
    \/ \E j \in Jobs : CommandEnds(j) \/ ExitWritten(j) \/ Vanishes(j) \/ Overdue(j)
    \/ \E j \in Jobs : Launch(j) \/ Kill(j) \/ FollowUpStep(j)
    \/ \E s \in Sessions : Look(s) \/ TurnStarts(s) \/ TurnEnds(s) \/ DeleteSession(s)
    \/ Tick \/ Crash \/ Restart

\* The server is restarted, time passes, turns and follow-ups end (the agent loop
\* has deadlines), the monitor ticks, and one of its ticks meets the session idle.
Fairness ==
    /\ WF_vars(Restart) /\ WF_vars(Tick)
    /\ \A s \in Sessions : WF_vars(TurnEnds(s))
    /\ \A j \in Jobs : /\ WF_vars(Overdue(j))
                       /\ WF_vars(FollowUpStep(j))
                       /\ SF_vars(TickStarts(j))

Spec == Init /\ [][Next]_vars
FairSpec == Spec /\ Fairness

-----------------------------------------------------------------------------
(* Properties. *)

\* However the wrapper's write, the probe of the pid and the three callers of
\* refresh interleave, a job is only reported done if its command succeeded.
NoFalseSuccess == \A j \in Jobs : rec[j].status = "done" => file[j] = "ok"

\* A verdict is final: neither a later exit file, nor a kill, nor a process that
\* survives its SIGTERM changes it ("Idempotent: a job that already finished is
\* returned unchanged", bg_jobs.kill), and the mark is not taken back.
VerdictFinal ==
    [][\A j \in Jobs :
         rec[j].status \in Final =>
            \/ rec'[j].status = rec[j].status /\ rec'[j].why = rec[j].why
               /\ (rec[j].followed => rec'[j].followed)
            \/ rec[j].followed /\ rec'[j] = NoRec]_vars

\* The agent is not re-invoked for a job it stopped itself, whichever list the
\* monitor is working through at that moment (bg_jobs.kill).
StoppedStaysStopped ==
    \A j \in Jobs : rec[j].why = "killed" => told[j] = 0 /\ at # j /\ j \notin todo

\* The result of a job is told once, but for a crash or a failed save between
\* the message and the mark: each of those costs one repetition at most.
ToldOnce == \A j \in Jobs : told[j] <= 1 + faults

\* A recorded job is marked in the end, unless its session is deleted or a run
\* of the session stays marked running ("you always hear back", bg_jobs.py).
EveryJobHeard ==
    \A j \in Jobs :
        rec[j].status # "none" ~>
            \/ rec[j].followed \/ rec[j] = NoRec
            \/ home[j] \in deleted \/ turn[home[j]] = "stuck"

\* "completion can never silently do nothing" (bg_jobs.py); the monitor "only
\* calls mark_followed_up() AFTER the agent run succeeds - so a transient failure
\* is simply retried on the next tick" (bg_monitor.py).
MarkedWhenTold ==
    \A j \in Jobs : rec[j].followed /\ rec[j].why # "killed" => told[j] > 0
=============================================================================
