--------------------------- MODULE TaskScheduler ---------------------------
(***************************************************************************)
(* The background scheduler of scheduled tasks (src/task_scheduler.py),    *)
(* with the event bus that triggers it (src/event_bus.py), the foreground  *)
(* gate that holds it back (src/interactive_gate.py) and the task routes   *)
(* that edit its rows (routes/task_routes.py).                             *)
(*                                                                         *)
(* Everything runs on one asyncio loop: a step is the code between two     *)
(* awaits of one coroutine.  The database rows survive a restart; the      *)
(* coroutines, the set _executing, the handles and the semaphore do not.   *)
(***************************************************************************)
EXTENDS Naturals, Sequences, FiniteSets, Functions

CONSTANTS
    Tasks,      \* ScheduledTask ids
    Runs,       \* TaskRun ids; a finished run's id is used again
    NoTask,
    NoRun,
    Trigger,    \* Trigger[t]: "recurring" and "once" are schedules, "event"
                \* stands for every task that no schedule drives
    ModelBacked,\* tasks that _task_needs_model_slot sends to the semaphore
    AdminOnly,  \* tasks whose action may be refused to their owner
    Then,       \* Then[t]: then_task_id, or NoTask
    Editable,   \* recurring tasks whose schedule is edited
    Silent,     \* tasks of _SILENT_ACTIONS: they commit nothing in the run's session
    Threshold   \* trigger_count of the event tasks

ASSUME TasksAssumption ==
    /\ NoTask \notin Tasks
    /\ NoRun \notin Runs
    /\ Trigger \in [Tasks -> {"recurring", "once", "event"}]
    /\ ModelBacked \subseteq Tasks
    /\ AdminOnly \subseteq Tasks
    /\ Then \in [Tasks -> Tasks \cup {NoTask}]
    /\ Silent \subseteq Tasks
    /\ Editable \subseteq {t \in Tasks : Trigger[t] = "recurring"}
    /\ Threshold \in Nat \ {0}

VARIABLES
    status,     \* scheduled_tasks.status, "deleted" when the row is gone
    nextRun,    \* scheduled_tasks.next_run: NULL, in the future, or <= now
    dated,      \* tasks whose schedule gives a next date: recurring ones with a
                \* well-formed schedule, one-offs whose date is still ahead
    counter,    \* scheduled_tasks.trigger_counter
    row,        \* task_runs.status
    pc,         \* where the run's coroutine is suspended
    of,         \* the task of the run
    forced,     \* started by "run now, force": no slot, no gate
    cancel,     \* the cancellation waiting to be delivered: by the
                \* foreground monitor, or by a stop of either kind
    result,     \* what the coroutine carries over the await of "closing"
    loaded,     \* the task as the run's session last read it
    executing,  \* _executing
    handles,    \* _task_handles
    newest,     \* of a task's rows, the one with the latest started_at
    slot,       \* the run that holds _run_semaphore
    waitq,      \* the runs that wait for it, first come first served
    foreground, \* has_foreground_activity()
    stopPending,\* a request has scheduled stop_background_tasks_for_foreground
    owed        \* history: event tasks with a trigger no run has answered yet

taskVars  == <<status, nextRun, dated, counter>>
runVars   == <<row, pc, of, forced, cancel, result, loaded>>
loopVars  == <<executing, handles, newest, slot, waitq>>
fgVars    == <<foreground, stopPending>>
vars      == <<taskVars, runVars, loopVars, fgVars, owed>>

Statuses == {"active", "paused", "completed", "deleted"}
NextRuns == {"none", "later", "due"}
Unfinished == {"queued", "running"}
Rows  == Unfinished \cup {"absent", "success", "error", "skipped", "aborted"}
PCs   == {"done", "created", "chained", "queued", "gate", "running", "closing"}
Cancels == {"none", "stop", "monitor"}
Results == {"none", "success", "error", "exception", "settled"}

Sessions == [set : BOOLEAN, dated : BOOLEAN]
Unread == [set |-> FALSE, dated |-> FALSE]

TypeOK ==
    /\ status \in [Tasks -> Statuses]
    /\ nextRun \in [Tasks -> NextRuns]
    /\ dated \subseteq Tasks
    /\ counter \in [Tasks -> 0 .. Threshold - 1]
    /\ row \in [Runs -> Rows]
    /\ pc \in [Runs -> PCs]
    /\ of \in [Runs -> Tasks \cup {NoTask}]
    /\ forced \in [Runs -> BOOLEAN]
    /\ cancel \in [Runs -> Cancels]
    /\ result \in [Runs -> Results]
    /\ loaded \in [Runs -> Sessions]
    /\ executing \subseteq Tasks
    /\ handles \in [Tasks -> Runs \cup {NoRun}]
    /\ newest \in [Tasks -> Runs \cup {NoRun}]
    /\ slot \in Runs \cup {NoRun}
    /\ waitq \in Seq(Runs)
    /\ foreground \in BOOLEAN
    /\ stopPending \in BOOLEAN
    /\ owed \subseteq Tasks

\* Some tasks exist, which create_task has made: a schedule that gives no date
\* makes a "completed" one.
Init ==
    /\ \E there \in SUBSET Tasks :
          /\ \E good \in SUBSET {t \in there : Trigger[t] = "recurring"} :
                dated = good \cup {t \in there : Trigger[t] = "once"}
          /\ status = [t \in Tasks |->
                IF t \notin there THEN "deleted"
                ELSE IF Trigger[t] = "event" \/ t \in dated THEN "active"
                ELSE "completed"]
    /\ nextRun = [t \in Tasks |-> IF t \in dated THEN "later" ELSE "none"]
    /\ counter = [t \in Tasks |-> 0]
    /\ row = [r \in Runs |-> "absent"]
    /\ pc = [r \in Runs |-> "done"]
    /\ of = [r \in Runs |-> NoTask]
    /\ forced = [r \in Runs |-> FALSE]
    /\ cancel = [r \in Runs |-> "none"]
    /\ result = [r \in Runs |-> "none"]
    /\ loaded = [r \in Runs |-> Unread]
    /\ executing = {}
    /\ handles = [t \in Tasks |-> NoRun]
    /\ newest = [t \in Tasks |-> NoRun]
    /\ slot = NoRun
    /\ waitq = <<>>
    /\ foreground = FALSE
    /\ stopPending = FALSE
    /\ owed = {}

-----------------------------------------------------------------------------
(* Helpers. *)

Fresh == {r \in Runs : pc[r] = "done"}
UnfinishedRows(t) == {r \in Runs : of[r] = t /\ row[r] \in Unfinished}
\* _mark_run_aborted without a run_id takes the latest unfinished row; behind
\* the latest one the order of started_at is left open.
LatestRows(t) ==
    IF newest[t] \in UnfinishedRows(t) THEN {newest[t]} ELSE UnfinishedRows(t)

\* compute_next_run: a later date, or None for a one-off whose date is over, a
\* time or a cron expression that cannot be read, and an unknown schedule.
ComputeNextRun(t) == IF t \in dated THEN "later" ELSE "none"

\* What the session of a run sees of the task when it reads the row: whether
\* next_run is set, and whether the schedule is good.
Read(t) == [set |-> nextRun[t] # "none", dated |-> t \in dated]

\* What the end of r computes for next_run, from the schedule as it was loaded.
NextAfterRun(r) ==
    CASE Trigger[of[r]] = "event" -> "none"
      [] Trigger[of[r]] = "once" -> ComputeNextRun(of[r])
      [] OTHER -> IF loaded[r].dated THEN "later" ELSE "none"

\* An UPDATE of a row that a concurrent request has deleted changes nothing.
SetNextRun(t, n) ==
    nextRun' = IF status[t] = "deleted" THEN nextRun
               ELSE [nextRun EXCEPT ![t] = n]
\* The session emits no UPDATE for an attribute that is set to the value it was
\* loaded with: to None again, or to the date that an edit has meanwhile taken.
SaveNextRun(r, n) ==
    \/ /\ n = "none" /\ ~loaded[r].set
       /\ UNCHANGED nextRun
    \/ /\ n = "later" /\ loaded[r].set /\ nextRun[of[r]] = "none"
       /\ UNCHANGED nextRun
    \/ /\ n = "later" \/ loaded[r].set
       /\ SetNextRun(of[r], n)
SetRow(r, s) ==
    row' = IF row[r] = "absent" THEN row ELSE [row EXCEPT ![r] = s]

\* Mutant: only a running row is marked.
AbortedIfRunning(r) == IF row[r] = "running" THEN "aborted" ELSE row[r]
\* _mark_run_aborted with a run_id.
Aborted(r) == IF row[r] \in Unfinished THEN "aborted" ELSE row[r]

\* Mutant: a task without a schedule has no date to be put off to.
DropDueTask(t) ==
    nextRun' = IF status[t] = "active" /\ nextRun[t] = "due"
               THEN [nextRun EXCEPT ![t] = IF Trigger[t] = "event" THEN "none" ELSE "later"]
               ELSE nextRun
\* _defer_immediately_due_task.
DeferDueTask(t) ==
    nextRun' = IF status[t] = "active" /\ nextRun[t] = "due"
               THEN [nextRun EXCEPT ![t] = "later"] ELSE nextRun

\* _has_chain_cycle follows then_task_id for at most MaxChain tasks.
MaxChain == 10
ChainFrom(s) ==
    LET at[n \in 0 .. MaxChain] ==
            IF n = 0 THEN s
            ELSE IF at[n - 1] = NoTask THEN NoTask
            ELSE IF status[at[n - 1]] = "deleted" THEN NoTask
            ELSE Then[at[n - 1]]
    IN  at
HasChainCycle(s) == ChainFrom(s)[MaxChain] # NoTask
ChainTarget(t) ==
    IF Then[t] = NoTask THEN NoTask
    ELSE IF status[Then[t]] = "deleted" \/ HasChainCycle(Then[t]) THEN NoTask
    ELSE Then[t]

\* asyncio.create_task of a coroutine for each task of ts, as runs f[t].
Spawn(ts, f, where, force) ==
    /\ pc' = [r \in Runs |-> IF \E t \in ts : f[t] = r THEN where ELSE pc[r]]
    /\ of' = [r \in Runs |-> IF \E t \in ts : f[t] = r
                             THEN CHOOSE t \in ts : f[t] = r ELSE of[r]]
    /\ forced' = [r \in Runs |-> IF \E t \in ts : f[t] = r
                                 THEN force ELSE forced[r]]
    /\ row' = [r \in Runs |-> IF \E t \in ts : f[t] = r
                              THEN "absent" ELSE row[r]]
    /\ UNCHANGED <<cancel, result, loaded>>

\* Mutant: an early return that forgets the mark.
UnmarkActiveOnly(r, ex) ==
    IF forced[r] \/ status[of[r]] # "active" THEN ex ELSE ex \ {of[r]}
\* release_executing: the mark goes with an unforced run, whoever set it.
Unmark(r, ex) == IF forced[r] THEN ex ELSE ex \ {of[r]}

\* Mutant: a cancelled waiter stays in the queue.
WithoutNothing(q, r) == q
\* The waiters that stay when r is cancelled while it waits.
Without(q, r) ==
    IF \E i \in DOMAIN q : q[i] = r
    THEN LET i == CHOOSE i \in DOMAIN q : q[i] = r
         IN  SubSeq(q, 1, i - 1) \o SubSeq(q, i + 1, Len(q))
    ELSE q

\* The id of r is free again.
Free(r) ==
    /\ pc' = [pc EXCEPT ![r] = "done"]
    /\ of' = [of EXCEPT ![r] = NoTask]
    /\ forced' = [forced EXCEPT ![r] = FALSE]

\* The coroutine of r returns: the "async with" hands the semaphore to the
\* next waiter and the finally blocks drop the handle and the _executing mark.
\* ex, hs and sl are what executing, handles and slot have become by then.
Exit(r, ex, hs, sl) ==
    /\ cancel' = [cancel EXCEPT ![r] = "none"]
    /\ result' = [result EXCEPT ![r] = "none"]
    /\ loaded' = [loaded EXCEPT ![r] = Unread]
    /\ handles' = IF hs[of[r]] = r THEN [hs EXCEPT ![of[r]] = NoRun] ELSE hs
    /\ newest' = IF newest[of[r]] = r THEN [newest EXCEPT ![of[r]] = NoRun]
                 ELSE newest
    /\ executing' = Unmark(r, ex)
    /\ \/ /\ sl = r /\ waitq # <<>>
          /\ slot' = Head(waitq)
          /\ waitq' = Tail(waitq)
       \/ /\ sl = r /\ waitq = <<>>
          /\ slot' = NoRun
          /\ UNCHANGED waitq
       \/ /\ sl # r
          /\ slot' = sl
          /\ waitq' = Without(waitq, r)

-----------------------------------------------------------------------------
(* Time, the loop's tick and the ways a run is started. *)

\* The clock reaches the next_run of t.
ClockReaches(t) ==
    /\ nextRun[t] = "later"
    /\ nextRun' = [nextRun EXCEPT ![t] = "due"]
    /\ dated' = IF Trigger[t] = "once" THEN dated \ {t} ELSE dated
    /\ UNCHANGED <<status, counter, runVars, loopVars, fgVars, owed>>

\* Mutant: tasks that are executing are dispatched again.
DueTasksAll == {t \in Tasks : status[t] = "active" /\ nextRun[t] = "due"}
\* The query of _check_due_tasks.
DueTasks == {t \in Tasks : /\ status[t] = "active"
                           /\ nextRun[t] = "due"
                           /\ t \notin executing}

\* One tick of _loop: dispatch every due task, or defer all of them by 15
\* minutes while somebody is using the application.
CheckDueTasks ==
    /\ DueTasks # {}
    /\ \/ /\ foreground
          /\ nextRun' = [t \in Tasks |->
                            IF t \in DueTasks THEN "later" ELSE nextRun[t]]
          /\ UNCHANGED <<runVars, executing>>
       \/ /\ ~foreground
          /\ executing' = executing \cup DueTasks
          /\ \E f \in Injection(DueTasks, Fresh) :
                Spawn(DueTasks, f, "created", FALSE)
          /\ UNCHANGED nextRun
    /\ UNCHANGED <<status, dated, counter, handles, newest, slot, waitq, fgVars, owed>>

\* run_task_now, from the task list, a webhook or the assistant; a task that
\* is already executing is left alone.
RunTaskNow(t) ==
    /\ status[t] # "deleted"
    /\ t \notin executing
    /\ executing' = executing \cup {t}
    /\ \E r \in Fresh : Spawn({t}, [x \in {t} |-> r], "created", FALSE)
    /\ UNCHANGED <<taskVars, handles, newest, slot, waitq, fgVars, owed>>

\* run_task_now(force=True): outside _executing, the semaphore and the gate.
ForceRun(t) ==
    /\ status[t] # "deleted"
    /\ \E r \in Fresh : Spawn({t}, [x \in {t} |-> r], "created", TRUE)
    /\ UNCHANGED <<taskVars, loopVars, fgVars, owed>>

\* Mutant: the threshold is compared before the event is counted.
ReachedLate(t) == counter[t] >= Threshold
Reached(t) == counter[t] + 1 >= Threshold

\* _handle_event: count the event; at the threshold reset the counter, persist
\* the trigger in next_run and hand the task to run_task_now.
FireEvent(t) ==
    /\ Trigger[t] = "event"
    /\ status[t] = "active"
    /\ \/ /\ ~Reached(t)
          /\ counter' = [counter EXCEPT ![t] = @ + 1]
          /\ UNCHANGED <<nextRun, runVars, executing, owed>>
       \/ /\ Reached(t)
          /\ counter' = [counter EXCEPT ![t] = 0]
          /\ nextRun' = [nextRun EXCEPT ![t] = "due"]
          /\ owed' = owed \cup {t}
          /\ \/ /\ t \in executing
                /\ UNCHANGED <<runVars, executing>>
             \/ /\ t \notin executing
                /\ executing' = executing \cup {t}
                /\ \E r \in Fresh :
                      Spawn({t}, [x \in {t} |-> r], "created", FALSE)
    /\ UNCHANGED <<status, dated, handles, newest, slot, waitq, fgVars>>

-----------------------------------------------------------------------------
(* _execute_task and _execute_task_locked, from one await to the next. *)

NeedsSlot(t) == t \in ModelBacked \/ status[t] = "deleted"

\* The flip of the row to "running" and the call of the executor.
Begin(r, t, hs, ex, sl) ==
    /\ pc' = [pc EXCEPT ![r] = "running"]
    /\ row' = [row EXCEPT ![r] = "running"]
    /\ handles' = hs
    /\ newest' = [newest EXCEPT ![t] = r]
    /\ executing' = ex
    /\ slot' = sl
    /\ owed' = owed \ {t}
    /\ loaded' = [loaded EXCEPT ![r] = Read(t)]
    /\ UNCHANGED <<taskVars, of, forced, cancel, result, waitq>>

\* The part of _execute_task_locked before its first await: refuse a task that
\* is not active or not allowed, wait at the foreground gate, or begin.
Admit(r, t, hs, nw, ex, sl) ==
    \/ /\ status[t] # "active"
       /\ row' = [row EXCEPT ![r] =
                    IF status[t] = "deleted" THEN "absent"
                    ELSE IF @ \in {"absent", "queued"} THEN "skipped" ELSE @]
       /\ Free(r) /\ Exit(r, ex, hs, sl)
       /\ UNCHANGED <<taskVars, owed>>
    \/ /\ status[t] = "active"
       /\ t \in AdminOnly
       /\ row' = [row EXCEPT ![r] = "error"]
       /\ status' = [status EXCEPT ![t] = "paused"]
       /\ nextRun' = [nextRun EXCEPT ![t] = "none"]
       /\ owed' = owed \ {t}
       /\ Free(r) /\ Exit(r, ex, hs, sl)
       /\ UNCHANGED <<dated, counter>>
    \/ /\ status[t] = "active"
       /\ foreground /\ ~forced[r]
       /\ pc' = [pc EXCEPT ![r] = "gate"]
       /\ row' = [row EXCEPT ![r] = IF @ = "absent" THEN "queued" ELSE @]
       /\ handles' = hs
       /\ newest' = nw
       /\ executing' = ex
       /\ slot' = sl
       /\ UNCHANGED <<taskVars, of, forced, cancel, result, loaded, waitq, owed>>
    \/ /\ status[t] = "active"
       /\ ~foreground \/ forced[r]
       /\ Begin(r, t, hs, ex, sl)

\* The first step of the coroutine.  A chained run gives way to one that is
\* already executing; a model-backed one takes the semaphore or queues for it.
Launch(r) ==
    LET t  == of[r]
        hs == [handles EXCEPT ![t] = r]
        nw == [newest EXCEPT ![t] = r]
        ex == executing \cup (IF pc[r] = "chained" THEN {t} ELSE {})
    IN
    /\ pc[r] \in {"created", "chained"}
    /\ \/ /\ pc[r] = "chained" /\ t \in executing
          /\ Free(r)
          /\ UNCHANGED <<taskVars, row, cancel, result, loaded, loopVars, owed>>
       \/ /\ pc[r] = "created" \/ t \notin executing
          /\ \/ /\ forced[r] \/ ~NeedsSlot(t)
                /\ Admit(r, t, hs, nw, ex, slot)
             \/ /\ ~forced[r] /\ NeedsSlot(t) /\ slot = NoRun
                /\ Admit(r, t, hs, nw, ex, r)
             \/ /\ ~forced[r] /\ NeedsSlot(t) /\ slot # NoRun
                /\ pc' = [pc EXCEPT ![r] = "queued"]
                /\ row' = [row EXCEPT ![r] = IF status[t] = "deleted"
                                             THEN "absent" ELSE "queued"]
                /\ handles' = hs
                /\ newest' = nw
                /\ executing' = ex
                /\ waitq' = Append(waitq, r)
                /\ UNCHANGED <<taskVars, of, forced, cancel, result, loaded,
                               slot, owed>>
    /\ UNCHANGED fgVars

\* Mutant: a waiter that does not look who holds the semaphore.
AcquireUnchecked(r) ==
    /\ pc[r] = "queued" /\ cancel[r] = "none"
    /\ Admit(r, of[r], handles, newest, executing, slot)
    /\ UNCHANGED fgVars
\* The semaphore was handed to r, which wakes up.
Acquire(r) ==
    /\ pc[r] = "queued" /\ slot = r /\ cancel[r] = "none"
    /\ Admit(r, of[r], handles, newest, executing, slot)
    /\ UNCHANGED fgVars

\* wait_for_interactive_quiet returns.  The status of the task is not read
\* again; the row of a deleted task cannot be written again either.
PassGate(r) ==
    /\ pc[r] = "gate" /\ ~foreground /\ cancel[r] = "none"
    /\ \/ /\ status[of[r]] = "deleted"
          /\ Free(r) /\ Exit(r, executing, handles, slot)
          /\ UNCHANGED <<taskVars, row, owed>>
       \/ /\ status[of[r]] # "deleted"
          /\ Begin(r, of[r], handles, executing, slot)
    /\ UNCHANGED fgVars

\* The foreground monitor of a running task sees the user come back.
Monitor(r) ==
    /\ pc[r] = "running" /\ ~forced[r] /\ foreground
    /\ cancel[r] # "monitor"
    /\ cancel' = [cancel EXCEPT ![r] = "monitor"]
    /\ UNCHANGED <<taskVars, row, pc, of, forced, result, loaded, loopVars, fgVars,
                   owed>>

\* The executor has committed, which expires the task: the next look at it reads
\* the row again.
Reload(r) ==
    /\ pc[r] \in {"running", "closing"}
    /\ of[r] \notin Silent /\ status[of[r]] # "deleted"
    /\ loaded' = [loaded EXCEPT ![r] = Read(of[r])]
    /\ UNCHANGED <<taskVars, row, pc, of, forced, cancel, result, loopVars, fgVars,
                   owed>>

\* An end of the run that is committed at once; unless the monitor has ended,
\* the coroutine then awaits its cancellation.
Settle(r, s, monitored) ==
    /\ SetRow(r, s)
    /\ \/ /\ monitored
          /\ pc' = [pc EXCEPT ![r] = "closing"]
          /\ result' = [result EXCEPT ![r] = "settled"]
          /\ cancel' = [cancel EXCEPT ![r] = "none"]
          /\ UNCHANGED <<of, forced, loaded, loopVars>>
       \/ /\ ~monitored
          /\ Free(r) /\ Exit(r, executing, handles, slot)
    /\ UNCHANGED <<status, dated, counter, fgVars, owed>>

\* The end of _execute_task_locked for what the executor has returned.
Conclude(r, res) ==
    LET t == of[r]
        n == NextAfterRun(r)
        chain == IF res = "success" /\ status[t] # "deleted"
                 THEN ChainTarget(t) ELSE NoTask
    IN
    /\ Exit(r, executing, handles, slot)
    /\ \/ /\ res \in {"success", "error"}
          /\ SaveNextRun(r, n)
          /\ status' = IF Trigger[t] = "once" /\ n = "none" /\ status[t] # "deleted"
                       THEN [status EXCEPT ![t] = "completed"] ELSE status
          /\ \/ /\ chain = NoTask
                /\ SetRow(r, res)
                /\ Free(r)
             \/ /\ chain # NoTask
                /\ \E c \in IF Fresh = {} THEN {r} ELSE Fresh :
                      /\ row' = [row EXCEPT ![r] = res, ![c] = "absent"]
                      /\ pc' = [pc EXCEPT ![r] = "done", ![c] = "chained"]
                      /\ of' = [of EXCEPT ![r] = NoTask, ![c] = chain]
                      /\ forced' = [forced EXCEPT ![r] = FALSE]
       \/ /\ res = "exception"
          /\ Free(r)
          /\ UNCHANGED status
          /\ \/ /\ \E late \in BOOLEAN :
                      SetRow(r, IF row[r] = "running" \/ late
                                THEN "error" ELSE row[r])
                /\ IF Trigger[t] = "event" THEN UNCHANGED nextRun
                   ELSE SaveNextRun(r, n)
             \/ /\ SetRow(r, Aborted(r))
                /\ IF Trigger[t] = "event" THEN UNCHANGED nextRun
                   ELSE SetNextRun(t, "later")
       \/ /\ res = "settled"
          /\ Free(r)
          /\ UNCHANGED <<status, nextRun, row>>
    /\ UNCHANGED <<dated, counter, fgVars, owed>>

\* The executor returns, raises, reports nothing to do or asks to be deferred.
Finish(r) ==
    /\ pc[r] = "running" /\ cancel[r] = "none"
    /\ \/ \E res \in {"success", "error", "exception"} :
          \/ /\ forced[r]
             /\ Conclude(r, res)
          \/ /\ ~forced[r]
             /\ pc' = [pc EXCEPT ![r] = "closing"]
             /\ result' = [result EXCEPT ![r] = res]
             /\ UNCHANGED <<taskVars, row, of, forced, cancel, loaded, loopVars,
                            fgVars, owed>>
       \/ SaveNextRun(r, NextAfterRun(r)) /\ Settle(r, "skipped", ~forced[r])
       \/ SetNextRun(of[r], "later") /\ Settle(r, "absent", ~forced[r])

\* The cancelled monitor has ended.  A cancellation that arrives during this
\* await is swallowed with the monitor's own.
Close(r) ==
    /\ pc[r] = "closing"
    /\ Conclude(r, result[r])

-----------------------------------------------------------------------------
(* Cancellation. *)

\* Mutant: a run at the gate does not notice its cancellation.
WaitsQueued(r) == pc[r] = "queued"
Waits(r) == pc[r] \in {"queued", "gate"}

\* CancelledError raised while r waits for the semaphore or at the gate; a due
\* task is put off so that the next tick does not dispatch it again.
CancelWaiting(r) ==
    /\ Waits(r) /\ cancel[r] # "none"
    /\ SetRow(r, Aborted(r))
    /\ DeferDueTask(of[r])
    /\ Free(r) /\ Exit(r, executing, handles, slot)
    /\ UNCHANGED <<status, dated, counter, fgVars, owed>>

\* CancelledError raised inside the executor.
CancelRunning(r) ==
    /\ pc[r] = "running" /\ cancel[r] # "none"
    /\ \/ cancel[r] = "monitor" /\ SetNextRun(of[r], "later")
       \/ cancel[r] # "monitor" /\ SaveNextRun(r, NextAfterRun(r))
    /\ Settle(r, "aborted", ~forced[r] /\ cancel[r] # "monitor")

\* Task.cancel of the handle: it does not replace one that is on its way.
Cancelled(rs) ==
    [r \in Runs |-> IF r \in rs /\ cancel[r] = "none" /\ pc[r] # "done"
                    THEN "stop" ELSE cancel[r]]

\* stop_task, from the route, which refuses a deleted task.
StopTask(t) ==
    /\ status[t] # "deleted"
    /\ cancel' = Cancelled({handles[t]})
    /\ executing' = executing \ {t}
    /\ \/ /\ UnfinishedRows(t) = {}
          /\ UNCHANGED row
       \/ \E r \in LatestRows(t) : row' = [row EXCEPT ![r] = "aborted"]
    /\ UNCHANGED <<taskVars, pc, of, forced, result, loaded, handles, newest, slot,
                   waitq, fgVars, owed>>

\* A tracked request or a browser heartbeat: the user is active, and a coroutine
\* that stops the background work is scheduled.
ForegroundRequest ==
    /\ foreground' = TRUE
    /\ stopPending' = TRUE
    /\ UNCHANGED <<taskVars, runVars, loopVars, owed>>

\* The requests are over and their quiet period has passed; the coroutine they
\* scheduled has run long before.
Quiet ==
    /\ foreground /\ ~stopPending
    /\ foreground' = FALSE
    /\ UNCHANGED <<taskVars, runVars, loopVars, stopPending, owed>>

\* stop_background_tasks_for_foreground: cancel the handle of every task in
\* _executing and mark one unfinished row of each.
StopBackground ==
    /\ stopPending
    /\ stopPending' = FALSE
    /\ cancel' = Cancelled({handles[t] : t \in executing})
    /\ \E rs \in SUBSET UNION {LatestRows(t) : t \in executing} :
          /\ \A t \in executing :
                Cardinality(rs \cap LatestRows(t)) =
                    IF LatestRows(t) = {} THEN 0 ELSE 1
          /\ row' = [r \in Runs |-> IF r \in rs THEN "aborted" ELSE row[r]]
    /\ UNCHANGED <<taskVars, pc, of, forced, result, loaded, loopVars, foreground,
                   owed>>

-----------------------------------------------------------------------------
(* The task routes and the restart of the server. *)

\* pause_task; next_run is kept.
Pause(t) ==
    /\ status[t] # "deleted"
    /\ status' = [status EXCEPT ![t] = "paused"]
    /\ UNCHANGED <<nextRun, dated, counter, runVars, loopVars, fgVars, owed>>

\* Mutant: next_run is not computed again.
ResumeOnly(t) ==
    /\ status[t] # "deleted"
    /\ status' = [status EXCEPT ![t] = "active"]
    /\ UNCHANGED <<nextRun, dated, counter, runVars, loopVars, fgVars, owed>>
\* resume_task; the next_run of an event task is kept.
Resume(t) ==
    /\ status[t] # "deleted"
    /\ status' = [status EXCEPT ![t] = "active"]
    /\ nextRun' = IF Trigger[t] = "event" THEN nextRun
                  ELSE [nextRun EXCEPT ![t] = ComputeNextRun(t)]
    /\ UNCHANGED <<dated, counter, runVars, loopVars, fgVars, owed>>

\* update_task with a new schedule, which may be one that gives no date; next_run
\* is computed again for an active task only.
EditSchedule(t) ==
    /\ status[t] # "deleted"
    /\ \/ dated' = dated \cup {t}
       \/ dated' = dated \ {t}
    /\ nextRun' = IF status[t] # "active" THEN nextRun
                  ELSE [nextRun EXCEPT ![t] = ComputeNextRun(t)']
    /\ UNCHANGED <<status, counter, runVars, loopVars, fgVars, owed>>

\* delete_task; the runs' rows go with it, the coroutines do not.
Delete(t) ==
    /\ status[t] # "deleted"
    /\ status' = [status EXCEPT ![t] = "deleted"]
    /\ nextRun' = [nextRun EXCEPT ![t] = "none"]
    /\ row' = [r \in Runs |-> IF of[r] = t THEN "absent" ELSE row[r]]
    /\ UNCHANGED <<dated, counter, pc, of, forced, cancel, result, loaded, loopVars,
                   fgVars, owed>>

\* The server stops, at any point, and start() repairs the rows: unfinished runs
\* become "aborted" and an overdue task is pushed into the future.
Restart ==
    /\ row' = [r \in Runs |-> Aborted(r)]
    /\ nextRun' = [t \in Tasks |->
                      IF status[t] = "active" /\ nextRun[t] = "due"
                      THEN "later" ELSE nextRun[t]]
    /\ pc' = [r \in Runs |-> "done"]
    /\ of' = [r \in Runs |-> NoTask]
    /\ forced' = [r \in Runs |-> FALSE]
    /\ cancel' = [r \in Runs |-> "none"]
    /\ result' = [r \in Runs |-> "none"]
    /\ loaded' = [r \in Runs |-> Unread]
    /\ executing' = {}
    /\ handles' = [t \in Tasks |-> NoRun]
    /\ newest' = [t \in Tasks |-> NoRun]
    /\ slot' = NoRun
    /\ waitq' = <<>>
    /\ foreground' = FALSE
    /\ stopPending' = FALSE
    /\ UNCHANGED <<status, dated, counter, owed>>

-----------------------------------------------------------------------------
\* One step of a run's coroutine.
Step(r) ==
    \/ Launch(r) \/ Acquire(r) \/ PassGate(r) \/ Finish(r) \/ Close(r)
    \/ CancelWaiting(r) \/ CancelRunning(r)

\* Everything but the stop button.
NextUnstopped ==
    \/ \E t \in Tasks :
          \/ ClockReaches(t) \/ RunTaskNow(t) \/ ForceRun(t) \/ FireEvent(t)
          \/ Pause(t) \/ Resume(t) \/ Delete(t)
    \/ \E t \in Editable : EditSchedule(t)
    \/ \E r \in Runs : Step(r) \/ Monitor(r) \/ Reload(r)
    \/ CheckDueTasks \/ ForegroundRequest \/ Quiet \/ StopBackground \/ Restart

Next == NextUnstopped \/ \E t \in Tasks : StopTask(t)

Spec == Init /\ [][Next]_vars
SpecUnstopped == Init /\ [][NextUnstopped]_vars

\* The loop runs ready coroutines, the tick comes back within a minute, and an
\* executor ends (its calls have timeouts).  Nothing is assumed of the user:
\* neither that he leaves, nor that he presses anything.
Fairness ==
    /\ \A r \in Runs : WF_vars(Step(r))
    /\ WF_vars(CheckDueTasks)
    /\ WF_vars(StopBackground)
FairSpec == Spec /\ Fairness

\* What is left when nobody presses "run now", "force" or "stop" and the server
\* stays up: ticks, events, chains, edits of tasks and foreground activity.
NextUnattended ==
    \/ \E t \in Tasks : \/ ClockReaches(t) \/ FireEvent(t)
                         \/ Pause(t) \/ Resume(t) \/ Delete(t)
    \/ \E t \in Editable : EditSchedule(t)
    \/ \E r \in Runs : Step(r) \/ Monitor(r) \/ Reload(r)
    \/ CheckDueTasks \/ ForegroundRequest \/ Quiet \/ StopBackground
SpecUnattended == Init /\ [][NextUnattended]_vars
FairUnattended == SpecUnattended /\ Fairness

-----------------------------------------------------------------------------
(* Properties. *)

Live(r) == pc[r] # "done"
\* Runs that went through _executing; a chained one has not entered it yet.
Marked(r) == pc[r] \notin {"done", "chained"} /\ ~forced[r]
UsesModel(r) == /\ pc[r] \in {"gate", "running", "closing"}
                /\ ~forced[r] /\ of[r] \in ModelBacked

\* Two model-backed runs that nobody forced are never past the semaphore at the
\* same time, whatever is cancelled while they wait for it or are handed it
\* (__init__ and _execute_task: "async with self._run_semaphore").
ModelRunsExclude ==
    \A r, s \in Runs : UsesModel(r) /\ UsesModel(s) => r = s

\* The tick, "run now", an event and a chain never have two unforced runs of one
\* task in flight; holds as long as nobody presses stop (_executing).
NoDoubleDispatch ==
    \A r, s \in Runs : Marked(r) /\ Marked(s) /\ of[r] = of[s] => r = s

\* No cancellation loses the semaphore: a run that waits is in the queue or has
\* just been handed it, and whoever holds it is alive to hand it on.
NoForgottenWaiter ==
    /\ waitq # <<>> => slot # NoRun
    /\ slot # NoRun => Live(slot)
    /\ \A r \in Runs : pc[r] = "queued" =>
          slot = r \/ \E i \in DOMAIN waitq : waitq[i] = r

\* A task marked in _executing has a run in flight that will remove the mark: a
\* leaked mark would keep the task from ever being dispatched again.
NoLeakedMark ==
    \A t \in executing : \E r \in Runs : Marked(r) /\ of[r] = t

\* The Activity view shows no run as queued or running after its coroutine has
\* ended (start(): "the UI shows phantoms").
NoPhantomRows ==
    \A r \in Runs : row[r] \in Unfinished =>
        pc[r] \in {"queued", "gate", "running", "closing"}

\* This step is the end of a run of t that was executing.
EndsRun(r, t) == of[r] = t /\ pc[r] \in {"running", "closing"} /\ pc'[r] # pc[r]

\* An active recurring task that has a schedule but no date: nothing else than an
\* edit or a run by hand would ever run it again.
Unserved(t) == /\ status[t] = "active" /\ Trigger[t] = "recurring"
               /\ t \in dated /\ nextRun[t] = "none"

\* Nothing takes the next date of an active recurring task with a good schedule:
\* no end, refusal or cancellation of a run, no deferral, resume or restart.  The
\* exception is a schedule that was repaired while a run executed that had loaded
\* the broken one (the end of _execute_task_locked, resume_task, update_task).
RecurringStaysScheduled ==
    [][\A t \in Tasks : Unserved(t)' =>
          \/ Unserved(t)
          \/ \E r \in Runs : EndsRun(r, t) /\ ~loaded[r].dated]_vars

\* The trigger of an event that was counted is gone, and no run has begun since.
Dropped(t) == /\ t \in owed /\ Trigger[t] = "event"
              /\ status[t] # "deleted" /\ nextRun[t] = "none"

\* A trigger that no run has answered stays in next_run through cancellations,
\* pauses and restarts (_handle_event: "makes the trigger survive reboot"); only
\* the end of a run of the task that was executing when it came may drop it, and
\* does: run_task_now has declined the event, and the end writes None.
TriggerKept ==
    [][\A t \in Tasks : Dropped(t)' =>
          Dropped(t) \/ \E r \in Runs : EndsRun(r, t)]_vars

\* Once the user stays away, every coroutine of a run ends: no waiter of the
\* semaphore is forgotten, no slot is kept.
EveryRunEnds ==
    <>[]~foreground => \A r \in Runs : []<>(pc[r] = "done")

\* Once the user stays away, a due active task is served: the tick dispatches
\* it unless a run of it is on its way.
DueIsServed ==
    <>[]~foreground => \A t \in Tasks :
        (status[t] = "active" /\ nextRun[t] = "due") ~>
            \/ status[t] # "active" \/ nextRun[t] # "due"
            \/ \E r \in Runs : of[r] = t /\ pc[r] = "running"
=============================================================================
