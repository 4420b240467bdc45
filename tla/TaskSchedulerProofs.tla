----------------------- MODULE TaskSchedulerProofs -----------------------
(***************************************************************************)
(* What holds of the scheduler for every set of tasks and runs.            *)
(***************************************************************************)
EXTENDS TaskScheduler, TLAPS, SequenceTheorems

\* A coroutine that has not ended belongs to a task.
HasTask == \A r \in Runs : pc[r] # "done" => of[r] \in Tasks

Typed == TypeOK /\ HasTask

-----------------------------------------------------------------------------
(* Typing of the helpers. *)

\* The queue without a waiter is still a sequence of runs.
LEMMA WithoutType ==
    ASSUME NEW q \in Seq(Runs), NEW r
    PROVE  Without(q, r) \in Seq(Runs)
<1>1. CASE \E i \in DOMAIN q : q[i] = r
  <2>1. PICK n \in DOMAIN q : n = CHOOSE i \in DOMAIN q : q[i] = r
    BY <1>1
  <2>2. n \in 1 .. Len(q) /\ Len(q) \in Nat /\ \A i \in 1 .. Len(q) : q[i] \in Runs
    BY <2>1, LenProperties
  <2>3. SubSeq(q, 1, n - 1) \in Seq(Runs)
    <3>1. \A i \in 1 .. n - 1 : q[i] \in Runs
      BY <2>2
    <3> QED
      BY <2>2, <3>1, SubSeqProperties
  <2>4. SubSeq(q, n + 1, Len(q)) \in Seq(Runs)
    <3>1. \A i \in n + 1 .. Len(q) : q[i] \in Runs
      BY <2>2
    <3> QED
      BY <2>2, <3>1, SubSeqProperties
  <2>5. SubSeq(q, 1, n - 1) \o SubSeq(q, n + 1, Len(q)) \in Seq(Runs)
    BY <2>3, <2>4, ConcatProperties
  <2> QED
    BY <1>1, <2>1, <2>5 DEF Without
<1>2. CASE ~ \E i \in DOMAIN q : q[i] = r
  BY <1>2 DEF Without
<1> QED
  BY <1>1, <1>2

\* compute_next_run and what the end of a run computes are values of next_run.
LEMMA NextRunType ==
    ASSUME NEW x
    PROVE  /\ ComputeNextRun(x) \in {"later", "none"}
           /\ NextAfterRun(x) \in {"later", "none"}
BY DEF ComputeNextRun, NextAfterRun

\* A chain leads to a task or nowhere.
LEMMA ChainType ==
    ASSUME TasksAssumption, NEW t \in Tasks
    PROVE  ChainTarget(t) \in Tasks \cup {NoTask}
BY DEF ChainTarget, TasksAssumption

\* A session has read the row or not.
LEMMA UnreadType == /\ Unread \in Sessions
                    /\ \A t : Read(t) \in Sessions
BY DEF Unread, Read, Sessions

\* Leaving keeps the types of everything it assigns.
LEMMA ExitType ==
    ASSUME Typed, NEW r \in Runs, of[r] \in Tasks,
           NEW ex \in SUBSET Tasks, NEW hs \in [Tasks -> Runs \cup {NoRun}],
           NEW sl \in Runs \cup {NoRun}, Exit(r, ex, hs, sl)
    PROVE  /\ cancel' \in [Runs -> Cancels]
           /\ result' \in [Runs -> Results]
           /\ loaded' \in [Runs -> Sessions]
           /\ handles' \in [Tasks -> Runs \cup {NoRun}]
           /\ newest' \in [Tasks -> Runs \cup {NoRun}]
           /\ executing' \subseteq Tasks
           /\ slot' \in Runs \cup {NoRun}
           /\ waitq' \in Seq(Runs)
<1>1. /\ cancel' \in [Runs -> Cancels] /\ result' \in [Runs -> Results]
      /\ loaded' \in [Runs -> Sessions]
  BY UnreadType DEF Typed, TypeOK, Exit, Cancels, Results
<1>2. /\ handles' \in [Tasks -> Runs \cup {NoRun}]
      /\ newest' \in [Tasks -> Runs \cup {NoRun}]
      /\ executing' \subseteq Tasks
  BY DEF Typed, TypeOK, Exit, Unmark
<1>3. slot' \in Runs \cup {NoRun} /\ waitq' \in Seq(Runs)
  <2>1. CASE sl = r /\ waitq # <<>>
    <3>1. Head(waitq) \in Runs /\ Tail(waitq) \in Seq(Runs)
      BY <2>1, HeadTailProperties DEF Typed, TypeOK
    <3> QED
      BY <2>1, <3>1 DEF Exit
  <2>2. CASE sl = r /\ waitq = <<>>
    BY <2>2 DEF Typed, TypeOK, Exit
  <2>3. CASE sl # r
    BY <2>3, WithoutType DEF Typed, TypeOK, Exit
  <2> QED
    BY <2>1, <2>2, <2>3
<1> QED
  BY <1>1, <1>2, <1>3

\* An id that is free again is typed like any other.
LEMMA FreeType ==
    ASSUME Typed, NEW r \in Runs, Free(r)
    PROVE  /\ pc' \in [Runs -> PCs]
           /\ of' \in [Runs -> Tasks \cup {NoTask}]
           /\ forced' \in [Runs -> BOOLEAN]
           /\ HasTask'
BY DEF Typed, TypeOK, HasTask, Free, PCs

\* An early end: the id is freed, the coroutine leaves, the rows are typed.
LEMMA LeaveType ==
    ASSUME Typed, NEW r \in Runs, of[r] \in Tasks,
           NEW ex \in SUBSET Tasks, NEW hs \in [Tasks -> Runs \cup {NoRun}],
           NEW sl \in Runs \cup {NoRun},
           Free(r), Exit(r, ex, hs, sl),
           status' \in [Tasks -> Statuses], nextRun' \in [Tasks -> NextRuns],
           row' \in [Runs -> Rows], owed' \subseteq Tasks,
           UNCHANGED <<dated, counter, fgVars>>
    PROVE  Typed'
<1>1. /\ pc' \in [Runs -> PCs]
      /\ of' \in [Runs -> Tasks \cup {NoTask}]
      /\ forced' \in [Runs -> BOOLEAN]
      /\ HasTask'
  BY FreeType
<1>2. /\ cancel' \in [Runs -> Cancels]
      /\ result' \in [Runs -> Results]
      /\ loaded' \in [Runs -> Sessions]
      /\ handles' \in [Tasks -> Runs \cup {NoRun}]
      /\ newest' \in [Tasks -> Runs \cup {NoRun}]
      /\ executing' \subseteq Tasks
      /\ slot' \in Runs \cup {NoRun}
      /\ waitq' \in Seq(Runs)
  BY ExitType
<1> QED
  BY <1>1, <1>2 DEF Typed, TypeOK, fgVars

\* The start of the executor is typed.
LEMMA BeginType ==
    ASSUME Typed, NEW r \in Runs, NEW t \in Tasks, of[r] = t,
           NEW ex \in SUBSET Tasks, NEW hs \in [Tasks -> Runs \cup {NoRun}],
           NEW sl \in Runs \cup {NoRun}, Begin(r, t, hs, ex, sl),
           UNCHANGED fgVars
    PROVE  Typed'
<1>1. /\ pc' \in [Runs -> PCs] /\ row' \in [Runs -> Rows]
      /\ newest' \in [Tasks -> Runs \cup {NoRun}]
      /\ owed' \subseteq Tasks
      /\ handles' \in [Tasks -> Runs \cup {NoRun}]
      /\ executing' \subseteq Tasks /\ slot' \in Runs \cup {NoRun}
      /\ loaded' \in [Runs -> Sessions]
  BY UnreadType DEF Typed, TypeOK, Begin, PCs, Rows, Unfinished
<1>2. HasTask'
  BY DEF Typed, TypeOK, HasTask, Begin
<1> QED
  BY <1>1, <1>2 DEF Typed, TypeOK, Begin, taskVars, fgVars

\* The part before the first await is typed, on each of its four ways out.
LEMMA AdmitType ==
    ASSUME Typed, NEW r \in Runs, NEW t \in Tasks, of[r] = t,
           NEW ex \in SUBSET Tasks, NEW hs \in [Tasks -> Runs \cup {NoRun}],
           NEW nw \in [Tasks -> Runs \cup {NoRun}],
           NEW sl \in Runs \cup {NoRun}, Admit(r, t, hs, nw, ex, sl),
           UNCHANGED fgVars
    PROVE  Typed'
<1>1. CASE /\ row' = [row EXCEPT ![r] =
                         IF status[t] = "deleted" THEN "absent"
                         ELSE IF @ \in {"absent", "queued"} THEN "skipped" ELSE @]
           /\ Free(r) /\ Exit(r, ex, hs, sl)
           /\ UNCHANGED <<taskVars, owed>>
  <2>1. row' \in [Runs -> Rows]
    BY <1>1 DEF Typed, TypeOK, Rows, Unfinished
  <2>2. /\ status' \in [Tasks -> Statuses] /\ nextRun' \in [Tasks -> NextRuns]
        /\ owed' \subseteq Tasks /\ UNCHANGED <<dated, counter, fgVars>>
    BY <1>1 DEF Typed, TypeOK, taskVars
  <2> QED
    BY <1>1, <2>1, <2>2, LeaveType
<1>2. CASE /\ row' = [row EXCEPT ![r] = "error"]
           /\ status' = [status EXCEPT ![t] = "paused"]
           /\ nextRun' = [nextRun EXCEPT ![t] = "none"]
           /\ owed' = owed \ {t}
           /\ Free(r) /\ Exit(r, ex, hs, sl)
           /\ UNCHANGED <<dated, counter>>
  <2>1. /\ row' \in [Runs -> Rows] /\ status' \in [Tasks -> Statuses]
        /\ nextRun' \in [Tasks -> NextRuns] /\ owed' \subseteq Tasks
        /\ UNCHANGED <<dated, counter, fgVars>>
    BY <1>2 DEF Typed, TypeOK, Rows, Unfinished, Statuses, NextRuns
  <2> QED
    BY <1>2, <2>1, LeaveType
<1>3. CASE /\ pc' = [pc EXCEPT ![r] = "gate"]
           /\ row' = [row EXCEPT ![r] = IF @ = "absent" THEN "queued" ELSE @]
           /\ handles' = hs
           /\ newest' = nw
           /\ executing' = ex
           /\ slot' = sl
           /\ UNCHANGED <<taskVars, of, forced, cancel, result, loaded, waitq, owed>>
  <2>1. pc' \in [Runs -> PCs] /\ row' \in [Runs -> Rows]
    BY <1>3 DEF Typed, TypeOK, PCs, Rows, Unfinished
  <2>2. HasTask'
    BY <1>3 DEF Typed, TypeOK, HasTask
  <2> QED
    BY <1>3, <2>1, <2>2 DEF Typed, TypeOK, taskVars, fgVars
<1>4. CASE Begin(r, t, hs, ex, sl)
  BY <1>4, BeginType
<1> QED
  BY <1>1, <1>2, <1>3, <1>4 DEF Admit

\* New coroutines are typed: each belongs to the task it was created for.
LEMMA SpawnType ==
    ASSUME Typed, NEW ts \in SUBSET Tasks, NEW f, NEW where \in PCs,
           NEW force \in BOOLEAN, Spawn(ts, f, where, force)
    PROVE  /\ pc' \in [Runs -> PCs]
           /\ of' \in [Runs -> Tasks \cup {NoTask}]
           /\ forced' \in [Runs -> BOOLEAN]
           /\ row' \in [Runs -> Rows]
           /\ cancel' \in [Runs -> Cancels]
           /\ result' \in [Runs -> Results]
           /\ loaded' \in [Runs -> Sessions]
           /\ HasTask'
<1>1. /\ pc' \in [Runs -> PCs] /\ forced' \in [Runs -> BOOLEAN]
      /\ row' \in [Runs -> Rows]
      /\ cancel' \in [Runs -> Cancels] /\ result' \in [Runs -> Results]
      /\ loaded' \in [Runs -> Sessions]
  BY DEF Typed, TypeOK, Spawn, Rows
<1>2. \A r \in Runs : (\E t \in ts : f[t] = r)
                      => (CHOOSE t \in ts : f[t] = r) \in Tasks
  OBVIOUS
<1>3. of' \in [Runs -> Tasks \cup {NoTask}]
  BY <1>2 DEF Typed, TypeOK, Spawn
<1>4. HasTask'
  BY <1>2 DEF Typed, HasTask, Spawn
<1> QED
  BY <1>1, <1>3, <1>4

\* The writers of next_run and of a run's row are typed.
LEMMA SetType ==
    ASSUME Typed
    PROVE  /\ \A t \in Tasks, n \in NextRuns :
                 SetNextRun(t, n) => nextRun' \in [Tasks -> NextRuns]
           /\ \A r \in Runs, n \in NextRuns : of[r] \in Tasks /\ SaveNextRun(r, n)
                 => nextRun' \in [Tasks -> NextRuns]
           /\ \A r \in Runs, x \in Rows : SetRow(r, x) => row' \in [Runs -> Rows]
           /\ \A r \in Runs : Aborted(r) \in Rows
           /\ \A r : NextAfterRun(r) \in NextRuns
           /\ \A t : ComputeNextRun(t) \in NextRuns
BY NextRunType
DEF Typed, TypeOK, SetNextRun, SaveNextRun, SetRow, Aborted, NextRuns, Rows

\* The end of a run is typed, chained successor included.
LEMMA ConcludeType ==
    ASSUME Typed, NEW r \in Runs, of[r] \in Tasks, NEW res \in Results,
           Conclude(r, res)
    PROVE  Typed'
<1> DEFINE t == of[r]
<1>1. /\ Exit(r, executing, handles, slot)
      /\ UNCHANGED <<dated, counter, fgVars, owed>>
  BY DEF Conclude
<1>2. /\ executing \in SUBSET Tasks /\ handles \in [Tasks -> Runs \cup {NoRun}]
      /\ slot \in Runs \cup {NoRun} /\ owed' \subseteq Tasks
  BY <1>1 DEF Typed, TypeOK
<1>3. CASE /\ res \in {"success", "error"}
           /\ SaveNextRun(r, NextAfterRun(r))
           /\ status' \in {[status EXCEPT ![t] = "completed"], status}
           /\ SetRow(r, res)
           /\ Free(r)
  <2>1. nextRun' \in [Tasks -> NextRuns]
    BY <1>3, SetType
  <2>2. row' \in [Runs -> Rows]
    BY <1>3, SetType DEF Rows
  <2>3. status' \in [Tasks -> Statuses]
    BY <1>3 DEF Typed, TypeOK, Statuses
  <2> QED
    BY <1>1, <1>2, <1>3, <2>1, <2>2, <2>3, LeaveType
<1>4. CASE /\ res \in {"success", "error"}
           /\ SaveNextRun(r, NextAfterRun(r))
           /\ status' \in {[status EXCEPT ![t] = "completed"], status}
           /\ \E u \in Tasks, c \in Runs :
                 /\ row' = [row EXCEPT ![r] = res, ![c] = "absent"]
                 /\ pc' = [pc EXCEPT ![r] = "done", ![c] = "chained"]
                 /\ of' = [of EXCEPT ![r] = NoTask, ![c] = u]
                 /\ forced' = [forced EXCEPT ![r] = FALSE]
  <2>1. nextRun' \in [Tasks -> NextRuns]
    BY <1>4, SetType
  <2>2. status' \in [Tasks -> Statuses]
    BY <1>4 DEF Typed, TypeOK, Statuses
  <2>3. /\ row' \in [Runs -> Rows] /\ pc' \in [Runs -> PCs]
        /\ of' \in [Runs -> Tasks \cup {NoTask}]
        /\ forced' \in [Runs -> BOOLEAN]
        /\ HasTask'
    <3>1. PICK u \in Tasks, c \in Runs :
             /\ row' = [row EXCEPT ![r] = res, ![c] = "absent"]
             /\ pc' = [pc EXCEPT ![r] = "done", ![c] = "chained"]
             /\ of' = [of EXCEPT ![r] = NoTask, ![c] = u]
             /\ forced' = [forced EXCEPT ![r] = FALSE]
      BY <1>4
    <3>2. row' \in [Runs -> Rows]
      BY <1>4, <3>1 DEF Typed, TypeOK, Rows
    <3>3. pc' \in [Runs -> PCs]
      BY <3>1 DEF Typed, TypeOK, PCs
    <3>4. of' \in [Runs -> Tasks \cup {NoTask}] /\ forced' \in [Runs -> BOOLEAN]
      BY <3>1 DEF Typed, TypeOK
    <3>5. ASSUME NEW s \in Runs, pc'[s] # "done"
          PROVE  of'[s] \in Tasks
      BY <3>1, <3>5 DEF Typed, TypeOK, HasTask
    <3> QED
      BY <3>2, <3>3, <3>4, <3>5 DEF HasTask
  <2>4. /\ cancel' \in [Runs -> Cancels]
        /\ result' \in [Runs -> Results]
        /\ loaded' \in [Runs -> Sessions]
        /\ handles' \in [Tasks -> Runs \cup {NoRun}]
        /\ newest' \in [Tasks -> Runs \cup {NoRun}]
        /\ executing' \subseteq Tasks
        /\ slot' \in Runs \cup {NoRun}
        /\ waitq' \in Seq(Runs)
    BY <1>1, <1>2, ExitType
  <2> QED
    BY <1>1, <1>2, <2>1, <2>2, <2>3, <2>4 DEF Typed, TypeOK, fgVars
<1>5. CASE /\ Free(r) /\ UNCHANGED status
           /\ \E x \in Rows : SetRow(r, x)
           /\ nextRun' \in [Tasks -> NextRuns]
  <2>1. nextRun' \in [Tasks -> NextRuns] /\ row' \in [Runs -> Rows]
    BY <1>5, SetType
  <2>2. status' \in [Tasks -> Statuses]
    BY <1>5 DEF Typed, TypeOK
  <2> QED
    BY <1>1, <1>2, <1>5, <2>1, <2>2, LeaveType
<1>6. CASE Free(r) /\ UNCHANGED <<status, nextRun, row>>
  <2>1. /\ status' \in [Tasks -> Statuses] /\ nextRun' \in [Tasks -> NextRuns]
        /\ row' \in [Runs -> Rows]
    BY <1>6 DEF Typed, TypeOK
  <2> QED
    BY <1>1, <1>2, <1>6, <2>1, LeaveType
<1>7. CASE res \in {"success", "error"}
  <2>1. /\ SaveNextRun(r, NextAfterRun(r))
        /\ status' \in {[status EXCEPT ![t] = "completed"], status}
    BY <1>7 DEF Conclude
  <2>2. CASE SetRow(r, res) /\ Free(r)
    BY <1>3, <1>7, <2>1, <2>2
  <2>3. CASE ~(SetRow(r, res) /\ Free(r))
    <3>1. PICK c \in IF Fresh = {} THEN {r} ELSE Fresh :
             /\ res = "success" /\ ChainTarget(t) # NoTask
             /\ row' = [row EXCEPT ![r] = res, ![c] = "absent"]
             /\ pc' = [pc EXCEPT ![r] = "done", ![c] = "chained"]
             /\ of' = [of EXCEPT ![r] = NoTask, ![c] = ChainTarget(t)]
             /\ forced' = [forced EXCEPT ![r] = FALSE]
      BY <1>7, <2>3 DEF Conclude
    <3>2. c \in Runs /\ ChainTarget(t) \in Tasks
      BY <3>1, ChainType, TasksAssumption DEF Fresh
    <3> QED
      BY <1>4, <1>7, <2>1, <3>1, <3>2
  <2> QED
    BY <2>2, <2>3
<1>8. CASE res = "exception"
  <2>1. nextRun[t] \in NextRuns /\ row[r] \in Rows /\ "later" \in NextRuns /\ "error" \in Rows
    BY DEF Typed, TypeOK, NextRuns, Rows
  <2>2. \E x \in Rows : SetRow(r, x)
    BY <1>8, <2>1, SetType DEF Conclude
  <2>3. nextRun' \in [Tasks -> NextRuns]
    <3>1. \/ UNCHANGED nextRun \/ SaveNextRun(r, NextAfterRun(r))
          \/ SetNextRun(t, "later")
      BY <1>8 DEF Conclude
    <3> QED
      BY <2>1, <3>1, SetType DEF Typed, TypeOK
  <2>4. Free(r) /\ UNCHANGED status
    BY <1>8 DEF Conclude
  <2> QED
    BY <1>5, <2>2, <2>3, <2>4
<1>9. CASE res = "settled"
  BY <1>6, <1>9 DEF Conclude
<1> QED
  BY <1>7, <1>8, <1>9 DEF Conclude

\* So is an end that is committed at once.
LEMMA SettleType ==
    ASSUME Typed, NEW r \in Runs, of[r] \in Tasks, NEW x \in Rows,
           nextRun' \in [Tasks -> NextRuns], NEW monitored \in BOOLEAN,
           Settle(r, x, monitored)
    PROVE  Typed'
<1>1. /\ row' \in [Runs -> Rows]
      /\ status' \in [Tasks -> Statuses] /\ owed' \subseteq Tasks
      /\ UNCHANGED <<dated, counter, fgVars>>
  BY SetType DEF Settle, Typed, TypeOK
<1>2. CASE monitored
  <2>1. /\ pc' \in [Runs -> PCs] /\ result' \in [Runs -> Results]
        /\ cancel' \in [Runs -> Cancels] /\ HasTask'
    BY <1>2 DEF Settle, Typed, TypeOK, HasTask, PCs, Results, Cancels
  <2> QED
    BY <1>1, <1>2, <2>1 DEF Settle, Typed, TypeOK, loopVars, fgVars
<1>3. CASE ~monitored
  <2>1. Free(r) /\ Exit(r, executing, handles, slot)
    BY <1>3 DEF Settle
  <2> QED
    BY <1>1, <2>1, LeaveType DEF Typed, TypeOK
<1> QED
  BY <1>2, <1>3

-----------------------------------------------------------------------------
(* Type correctness. *)

\* Every step keeps the types, and every coroutine its task.
LEMMA TypedStep ==
    ASSUME Typed, [Next]_vars
    PROVE  Typed'
<1> USE TasksAssumption
<1>1. ASSUME NEW t \in Tasks, ClockReaches(t) PROVE Typed'
  BY <1>1 DEF ClockReaches, Typed, TypeOK, HasTask, NextRuns, runVars, loopVars, fgVars
<1>2. CASE CheckDueTasks
  <2>1. /\ UNCHANGED <<status, dated, counter, handles, newest, slot, waitq, fgVars, owed>>
        /\ nextRun' \in [Tasks -> NextRuns] /\ executing' \subseteq Tasks
    <3>1. \/ /\ nextRun' = [t \in Tasks |-> IF t \in DueTasks THEN "later"
                                              ELSE nextRun[t]]
             /\ executing' = executing
          \/ nextRun' = nextRun /\ executing' = executing \cup DueTasks
      BY <1>2 DEF CheckDueTasks
    <3>2. nextRun' \in [Tasks -> NextRuns]
      BY <3>1 DEF Typed, TypeOK, NextRuns
    <3>3. executing' \subseteq Tasks
      BY <3>1 DEF Typed, TypeOK, DueTasks
    <3> QED
      BY <1>2, <3>2, <3>3 DEF CheckDueTasks
  <2>2. CASE UNCHANGED runVars
    BY <2>1, <2>2 DEF Typed, TypeOK, HasTask, runVars, fgVars
  <2>3. CASE \E f : Spawn(DueTasks, f, "created", FALSE)
    <3>1. DueTasks \in SUBSET Tasks /\ "created" \in PCs
      BY DEF DueTasks, PCs
    <3> QED
      BY <2>1, <2>3, <3>1, SpawnType DEF Typed, TypeOK, fgVars
  <2> QED
    BY <1>2, <2>2, <2>3 DEF CheckDueTasks
<1>3. ASSUME NEW t \in Tasks, RunTaskNow(t) PROVE Typed'
  <2>1. PICK f : Spawn({t}, f, "created", FALSE)
    BY <1>3 DEF RunTaskNow
  <2>2. {t} \in SUBSET Tasks /\ "created" \in PCs /\ FALSE \in BOOLEAN
    BY DEF PCs
  <2> QED
    BY <1>3, <2>1, <2>2, SpawnType
    DEF RunTaskNow, Typed, TypeOK, taskVars, fgVars
<1>4. ASSUME NEW t \in Tasks, ForceRun(t) PROVE Typed'
  <2>1. PICK f : Spawn({t}, f, "created", TRUE)
    BY <1>4 DEF ForceRun
  <2>2. {t} \in SUBSET Tasks /\ "created" \in PCs /\ TRUE \in BOOLEAN
    BY DEF PCs
  <2> QED
    BY <1>4, <2>1, <2>2, SpawnType
    DEF ForceRun, Typed, TypeOK, taskVars, loopVars, fgVars
<1>5. ASSUME NEW t \in Tasks, FireEvent(t) PROVE Typed'
  <2>1. /\ nextRun' \in [Tasks -> NextRuns] /\ executing' \subseteq Tasks
        /\ owed' \subseteq Tasks
        /\ UNCHANGED <<status, dated, handles, newest, slot, waitq, fgVars>>
    BY <1>5 DEF FireEvent, Typed, TypeOK, NextRuns
  <2>2. counter' \in [Tasks -> 0 .. Threshold - 1]
    <3>1. counter[t] \in Nat /\ counter[t] <= Threshold - 1 /\ Threshold \in Nat \ {0}
      BY DEF Typed, TypeOK
    <3>2. \/ counter' = [counter EXCEPT ![t] = counter[t] + 1] /\ ~Reached(t)
          \/ counter' = [counter EXCEPT ![t] = 0]
      BY <1>5 DEF FireEvent
    <3>3. ~Reached(t) => counter[t] + 1 \in 0 .. Threshold - 1
      BY <3>1 DEF Reached
    <3>4. 0 \in 0 .. Threshold - 1
      BY <3>1
    <3> DEFINE Counts == 0 .. Threshold - 1
    <3>5. counter \in [Tasks -> Counts]
      BY DEF Typed, TypeOK
    <3>6. \E c \in Counts : counter' = [counter EXCEPT ![t] = c]
      BY <3>2, <3>3, <3>4
    <3> HIDE DEF Counts
    <3>7. counter' \in [Tasks -> Counts]
      BY ONLY <3>5, <3>6
    <3> QED
      BY <3>7 DEF Counts
  <2>3. CASE UNCHANGED runVars
    BY <2>1, <2>2, <2>3 DEF Typed, TypeOK, HasTask, runVars, fgVars
  <2>4. CASE \E f : Spawn({t}, f, "created", FALSE)
    <3>1. {t} \in SUBSET Tasks /\ "created" \in PCs
      BY DEF PCs
    <3> QED
      BY <2>1, <2>2, <2>4, <3>1, SpawnType DEF Typed, TypeOK, fgVars
  <2> QED
    BY <1>5, <2>3, <2>4 DEF FireEvent
<1>6. ASSUME NEW r \in Runs, Launch(r) PROVE Typed'
  <2> DEFINE t  == of[r]
             hs == [handles EXCEPT ![t] = r]
             nw == [newest EXCEPT ![t] = r]
             ex == executing \cup (IF pc[r] = "chained" THEN {t} ELSE {})
  <2>1. /\ t \in Tasks /\ ex \in SUBSET Tasks
        /\ hs \in [Tasks -> Runs \cup {NoRun}] /\ nw \in [Tasks -> Runs \cup {NoRun}]
        /\ slot \in Runs \cup {NoRun} /\ UNCHANGED fgVars
    BY <1>6 DEF Launch, Typed, TypeOK, HasTask
  <2>2. CASE Free(r) /\ UNCHANGED <<taskVars, row, cancel, result, loaded, loopVars, owed>>
    BY <2>1, <2>2, FreeType DEF Typed, TypeOK, taskVars, loopVars, fgVars
  <2>3. CASE \E sl \in {slot, r} : Admit(r, t, hs, nw, ex, sl)
    <3>1. PICK sl \in Runs \cup {NoRun} : Admit(r, t, hs, nw, ex, sl)
      BY <2>1, <2>3
    <3> HIDE DEF t, hs, nw, ex
    <3> QED
      BY <2>1, <3>1, AdmitType DEF t
  <2>4. CASE /\ pc' = [pc EXCEPT ![r] = "queued"]
             /\ row' = [row EXCEPT ![r] = IF status[t] = "deleted"
                                          THEN "absent" ELSE "queued"]
             /\ handles' = hs
             /\ newest' = nw
             /\ executing' = ex
             /\ waitq' = Append(waitq, r)
             /\ UNCHANGED <<taskVars, of, forced, cancel, result, loaded, slot, owed>>
    <3>1. pc' \in [Runs -> PCs] /\ row' \in [Runs -> Rows] /\ waitq' \in Seq(Runs)
      BY <2>4 DEF Typed, TypeOK, PCs, Rows, Unfinished
    <3>2. HasTask'
      BY <2>1, <2>4 DEF Typed, TypeOK, HasTask
    <3> QED
      BY <2>1, <2>4, <3>1, <3>2 DEF Typed, TypeOK, taskVars, fgVars
  <2>5. \/ Free(r) /\ UNCHANGED <<taskVars, row, cancel, result, loaded, loopVars, owed>>
        \/ Admit(r, t, hs, nw, ex, slot) \/ Admit(r, t, hs, nw, ex, r)
        \/ /\ pc' = [pc EXCEPT ![r] = "queued"]
           /\ row' = [row EXCEPT ![r] = IF status[t] = "deleted"
                                        THEN "absent" ELSE "queued"]
           /\ handles' = hs
           /\ newest' = nw
           /\ executing' = ex
           /\ waitq' = Append(waitq, r)
           /\ UNCHANGED <<taskVars, of, forced, cancel, result, loaded, slot, owed>>
    BY <1>6 DEF Launch
  <2> QED
    BY <2>2, <2>3, <2>4, <2>5
<1>7. ASSUME NEW r \in Runs, Acquire(r) PROVE Typed'
  <2>1. of[r] \in Tasks /\ Admit(r, of[r], handles, newest, executing, slot) /\ UNCHANGED fgVars
    BY <1>7 DEF Acquire, Typed, HasTask
  <2> QED
    BY <2>1, AdmitType DEF Typed, TypeOK
<1>8. ASSUME NEW r \in Runs, PassGate(r) PROVE Typed'
  <2>1. of[r] \in Tasks /\ UNCHANGED fgVars
    BY <1>8 DEF PassGate, Typed, HasTask
  <2>2. CASE /\ Free(r) /\ Exit(r, executing, handles, slot)
             /\ UNCHANGED <<taskVars, row, owed>>
    BY <2>1, <2>2, LeaveType DEF Typed, TypeOK, taskVars
  <2>3. CASE Begin(r, of[r], handles, executing, slot)
    BY <2>1, <2>3, BeginType DEF Typed, TypeOK
  <2> QED
    BY <1>8, <2>2, <2>3 DEF PassGate
<1>9. ASSUME NEW r \in Runs, Finish(r) PROVE Typed'
  <2>1. of[r] \in Tasks /\ forced[r] \in BOOLEAN /\ (~forced[r]) \in BOOLEAN
    BY <1>9 DEF Finish, Typed, TypeOK, HasTask
  <2>2. ASSUME NEW res \in {"success", "error", "exception"}, Conclude(r, res)
        PROVE  Typed'
    BY <2>1, <2>2, ConcludeType DEF Results
  <2>3. ASSUME NEW res \in {"success", "error", "exception"},
               pc' = [pc EXCEPT ![r] = "closing"],
               result' = [result EXCEPT ![r] = res],
               UNCHANGED <<taskVars, row, of, forced, cancel, loaded, loopVars,
                           fgVars, owed>>
        PROVE  Typed'
    BY <2>1, <2>3
    DEF Typed, TypeOK, HasTask, PCs, Results, taskVars, loopVars, fgVars
  <2>4. "skipped" \in Rows /\ "absent" \in Rows /\ "later" \in NextRuns
        /\ NextAfterRun(r) \in NextRuns
    BY <2>1, SetType DEF Rows, NextRuns
  <2>5. CASE SaveNextRun(r, NextAfterRun(r)) /\ Settle(r, "skipped", ~forced[r])
    BY <2>1, <2>4, <2>5, SetType, SettleType
  <2>6. CASE SetNextRun(of[r], "later") /\ Settle(r, "absent", ~forced[r])
    BY <2>1, <2>4, <2>6, SetType, SettleType
  <2> QED
    BY <1>9, <2>2, <2>3, <2>5, <2>6 DEF Finish
<1>10. ASSUME NEW r \in Runs, Close(r) PROVE Typed'
  BY <1>10, ConcludeType DEF Close, Typed, TypeOK, HasTask
<1>11. ASSUME NEW r \in Runs, CancelWaiting(r) PROVE Typed'
  <2>1. /\ of[r] \in Tasks /\ Free(r) /\ Exit(r, executing, handles, slot)
        /\ UNCHANGED <<status, dated, counter, fgVars, owed>>
        /\ SetRow(r, Aborted(r)) /\ DeferDueTask(of[r])
    BY <1>11 DEF CancelWaiting, Waits, Typed, HasTask
  <2>2. row' \in [Runs -> Rows]
    BY <2>1, SetType
  <2>3. nextRun' \in [Tasks -> NextRuns]
    BY <2>1 DEF DeferDueTask, Typed, TypeOK, NextRuns
  <2> QED
    BY <2>1, <2>2, <2>3, LeaveType DEF Typed, TypeOK
<1>12. ASSUME NEW r \in Runs, CancelRunning(r) PROVE Typed'
  <2> DEFINE m == ~forced[r] /\ cancel[r] # "monitor"
  <2>1. /\ of[r] \in Tasks /\ Settle(r, "aborted", m)
        /\ m \in BOOLEAN /\ "aborted" \in Rows
    BY <1>12 DEF CancelRunning, Typed, TypeOK, HasTask, Rows
  <2>2. nextRun' \in [Tasks -> NextRuns]
    BY <1>12, <2>1, SetType DEF CancelRunning, NextRuns
  <2> HIDE DEF m
  <2> QED
    BY <2>1, <2>2, SettleType
<1>13. ASSUME NEW r \in Runs, Monitor(r) PROVE Typed'
  BY <1>13 DEF Monitor, Typed, TypeOK, HasTask, Cancels, taskVars, loopVars, fgVars
<1>22. ASSUME NEW r \in Runs, Reload(r) PROVE Typed'
  <2>1. loaded' \in [Runs -> Sessions]
    BY <1>22, UnreadType DEF Reload, Typed, TypeOK
  <2> QED
    BY <1>22, <2>1 DEF Reload, Typed, TypeOK, HasTask, taskVars, loopVars,
                       fgVars
<1>14. ASSUME NEW t \in Tasks, StopTask(t) PROVE Typed'
  <2>1. cancel' \in [Runs -> Cancels]
    BY <1>14 DEF StopTask, Cancelled, Typed, TypeOK, Cancels
  <2>2. row' \in [Runs -> Rows]
    BY <1>14 DEF StopTask, Typed, TypeOK, Rows
  <2> QED
    BY <1>14, <2>1, <2>2 DEF StopTask, Typed, TypeOK, HasTask, taskVars, fgVars
<1>15. CASE ForegroundRequest
  BY <1>15 DEF ForegroundRequest, Typed, TypeOK, HasTask, taskVars, runVars, loopVars
<1>16. CASE Quiet
  BY <1>16 DEF Quiet, Typed, TypeOK, HasTask, taskVars, runVars, loopVars
<1>17. CASE StopBackground
  <2>1. cancel' \in [Runs -> Cancels]
    BY <1>17 DEF StopBackground, Cancelled, Typed, TypeOK, Cancels
  <2>2. row' \in [Runs -> Rows]
    BY <1>17 DEF StopBackground, Typed, TypeOK, Rows
  <2> QED
    BY <1>17, <2>1, <2>2 DEF StopBackground, Typed, TypeOK, HasTask, taskVars, loopVars
<1>18. ASSUME NEW t \in Tasks, Pause(t) \/ Resume(t) PROVE Typed'
  <2>1. nextRun' \in [Tasks -> NextRuns]
    <3>1. ComputeNextRun(t) \in NextRuns
      BY SetType
    <3>2. \/ nextRun' = nextRun
          \/ nextRun' = [nextRun EXCEPT ![t] = ComputeNextRun(t)]
      BY <1>18 DEF Pause, Resume
    <3> QED
      BY <3>1, <3>2 DEF Typed, TypeOK
  <2>2. status' \in [Tasks -> Statuses]
    BY <1>18 DEF Pause, Resume, Typed, TypeOK, Statuses
  <2> QED
    BY <1>18, <2>1, <2>2
    DEF Pause, Resume, Typed, TypeOK, HasTask, runVars, loopVars, fgVars
<1>23. ASSUME NEW t \in Tasks, EditSchedule(t) PROVE Typed'
  <2>1. ComputeNextRun(t)' \in NextRuns
    BY DEF ComputeNextRun, NextRuns
  <2>2. nextRun' \in [Tasks -> NextRuns] /\ dated' \subseteq Tasks
    BY <1>23, <2>1 DEF EditSchedule, Typed, TypeOK
  <2> QED
    BY <1>23, <2>2
    DEF EditSchedule, Typed, TypeOK, HasTask, runVars, loopVars, fgVars
<1>19. ASSUME NEW t \in Tasks, Delete(t) PROVE Typed'
  BY <1>19 DEF Delete, Typed, TypeOK, HasTask, Statuses, NextRuns, Rows, loopVars, fgVars
<1>20. CASE Restart
  <2>1. row' \in [Runs -> Rows] /\ nextRun' \in [Tasks -> NextRuns]
    BY <1>20, SetType DEF Restart, Typed, TypeOK, NextRuns
  <2>2. waitq' \in Seq(Runs)
    BY <1>20 DEF Restart
  <2> QED
    BY <1>20, <2>1, <2>2, UnreadType
    DEF Restart, Typed, TypeOK, HasTask, PCs, Cancels, Results
<1>21. CASE UNCHANGED vars
  BY <1>21 DEF Typed, TypeOK, HasTask, vars, taskVars, runVars, loopVars, fgVars
<1> QED
  BY <1>1, <1>2, <1>3, <1>4, <1>5, <1>6, <1>7, <1>8, <1>9, <1>10, <1>11, <1>12,
     <1>13, <1>14, <1>15, <1>16, <1>17, <1>18, <1>19, <1>20, <1>21, <1>22, <1>23
  DEF Next, NextUnstopped, Step, TasksAssumption

\* The first state is typed.
LEMMA TypedInit == Init => Typed
<1> SUFFICES ASSUME Init PROVE Typed
  OBVIOUS
<1>1. counter \in [Tasks -> 0 .. Threshold - 1]
  <2>1. 0 \in 0 .. Threshold - 1
    BY TasksAssumption
  <2> QED
    BY <2>1 DEF Init
<1>2. waitq \in Seq(Runs) /\ dated \subseteq Tasks
  BY DEF Init
<1>3. /\ status \in [Tasks -> Statuses] /\ nextRun \in [Tasks -> NextRuns]
      /\ row \in [Runs -> Rows] /\ pc \in [Runs -> PCs]
      /\ of \in [Runs -> Tasks \cup {NoTask}] /\ forced \in [Runs -> BOOLEAN]
      /\ cancel \in [Runs -> Cancels] /\ result \in [Runs -> Results]
      /\ loaded \in [Runs -> Sessions]
      /\ handles \in [Tasks -> Runs \cup {NoRun}]
      /\ newest \in [Tasks -> Runs \cup {NoRun}]
  BY UnreadType DEF Init, Statuses, NextRuns, Rows, PCs, Cancels, Results
<1> QED
  BY <1>1, <1>2, <1>3 DEF Init, Typed, TypeOK, HasTask

\* Every variable keeps its type, and every coroutine the task it runs.
THEOREM TypeCorrect == Spec => []TypeOK
<1>1. Spec => []Typed
  BY TypedInit, TypedStep, PTL DEF Spec
<1>2. Typed => TypeOK
  BY DEF Typed
<1> QED
  BY <1>1, <1>2, PTL

-----------------------------------------------------------------------------
(* The semaphore: who is past it holds it. *)

SlotHeld == \A r \in Runs : UsesModel(r) => slot = r

\* A coroutine that leaves takes the semaphore from nobody else.
LEMMA LeaveKeepsSlot ==
    ASSUME Typed, SlotHeld, NEW r \in Runs, NEW ex, NEW hs, NEW sl,
           sl = slot \/ slot = NoRun, Exit(r, ex, hs, sl),
           \A s \in Runs \ {r} : UsesModel(s)' => UsesModel(s),
           ~UsesModel(r)'
    PROVE  SlotHeld'
<1> SUFFICES ASSUME NEW s \in Runs, UsesModel(s)'
             PROVE  slot' = s
  BY DEF SlotHeld
<1>1. s # r /\ slot = s
  BY DEF SlotHeld
<1>2. sl = s
  BY <1>1, TasksAssumption
<1> QED
  BY <1>1, <1>2 DEF Exit

\* A coroutine that goes on past the semaphore holds it or does not need it.
LEMMA EnterKeepsSlot ==
    ASSUME Typed, SlotHeld, NEW r \in Runs, NEW x \in PCs,
           pc' = [pc EXCEPT ![r] = x], UNCHANGED <<of, forced>>,
           slot' = slot \/ (slot = NoRun /\ slot' = r),
           forced[r] \/ of[r] \notin ModelBacked \/ slot' = r \/ UsesModel(r)
    PROVE  SlotHeld'
<1> SUFFICES ASSUME NEW s \in Runs, UsesModel(s)'
             PROVE  slot' = s
  BY DEF SlotHeld
<1>1. CASE s = r
  BY <1>1, TasksAssumption DEF SlotHeld, UsesModel
<1>2. CASE s # r
  <2>1. UsesModel(s)
    BY <1>2 DEF UsesModel, Typed, TypeOK
  <2> QED
    BY <1>2, <2>1, TasksAssumption DEF SlotHeld
<1> QED
  BY <1>1, <1>2

\* So does the part of _execute_task_locked before its first await.
LEMMA AdmitKeepsSlot ==
    ASSUME Typed, SlotHeld, NEW r \in Runs, NEW t \in Tasks, of[r] = t,
           NEW hs, NEW nw, NEW ex, NEW sl,
           sl = slot \/ (slot = NoRun /\ sl = r),
           forced[r] \/ t \notin ModelBacked \/ sl = r,
           Admit(r, t, hs, nw, ex, sl)
    PROVE  SlotHeld'
<1>1. CASE Free(r) /\ Exit(r, ex, hs, sl)
  BY <1>1, LeaveKeepsSlot DEF Free, UsesModel, Typed, TypeOK
<1>2. CASE /\ \E x \in {"gate", "running"} : pc' = [pc EXCEPT ![r] = x]
           /\ UNCHANGED <<of, forced>>
           /\ slot' = sl
  BY <1>2, EnterKeepsSlot DEF PCs
<1> QED
  BY <1>1, <1>2 DEF Admit, Begin

\* Every step, a stop or a restart included, leaves the semaphore with its holder.
LEMMA SlotHeldStep ==
    ASSUME Typed, SlotHeld, [Next]_vars
    PROVE  SlotHeld'
<1>1. ASSUME NEW ts, NEW f, NEW b, Spawn(ts, f, "created", b), UNCHANGED slot
      PROVE  SlotHeld'
  BY <1>1 DEF SlotHeld, UsesModel, Spawn, Typed, TypeOK
<1>2. ASSUME UNCHANGED <<pc, of, forced, slot>>
      PROVE  SlotHeld'
  BY <1>2 DEF SlotHeld, UsesModel
<1>3. CASE CheckDueTasks
  <2>1. UNCHANGED <<pc, of, forced, slot>> \/
        (\E f : Spawn(DueTasks, f, "created", FALSE) /\ UNCHANGED slot)
    BY <1>3 DEF CheckDueTasks, runVars
  <2> QED
    BY <1>1, <1>2, <2>1
<1>4. ASSUME NEW t \in Tasks, RunTaskNow(t) \/ ForceRun(t) \/ FireEvent(t)
      PROVE  SlotHeld'
  <2>1. UNCHANGED <<pc, of, forced, slot>> \/
        (\E f, b : Spawn({t}, f, "created", b) /\ UNCHANGED slot)
    BY <1>4 DEF RunTaskNow, ForceRun, FireEvent, runVars, loopVars
  <2> QED
    BY <1>1, <1>2, <2>1
<1>5. ASSUME NEW r \in Runs, Launch(r) PROVE SlotHeld'
  <2> DEFINE t  == of[r]
             hs == [handles EXCEPT ![t] = r]
             nw == [newest EXCEPT ![t] = r]
             ex == executing \cup (IF pc[r] = "chained" THEN {t} ELSE {})
  <2>1. t \in Tasks
    BY <1>5 DEF Launch, Typed, HasTask
  <2>2. CASE Free(r) /\ UNCHANGED slot
    BY <2>2 DEF Free, SlotHeld, UsesModel, Typed, TypeOK
  <2>3. CASE (forced[r] \/ ~NeedsSlot(t)) /\ Admit(r, t, hs, nw, ex, slot)
    <3>1. forced[r] \/ t \notin ModelBacked
      BY <2>3 DEF NeedsSlot
    <3> HIDE DEF t, hs, nw, ex
    <3> QED
      BY <2>1, <2>3, <3>1, AdmitKeepsSlot DEF t
  <2>4. CASE slot = NoRun /\ Admit(r, t, hs, nw, ex, r)
    <3> HIDE DEF t, hs, nw, ex
    <3> QED
      BY <2>1, <2>4, AdmitKeepsSlot DEF t
  <2>5. CASE /\ pc' = [pc EXCEPT ![r] = "queued"]
             /\ UNCHANGED <<of, forced, slot>>
    BY <2>5 DEF SlotHeld, UsesModel, Typed, TypeOK
  <2> QED
    BY <1>5, <2>2, <2>3, <2>4, <2>5 DEF Launch, loopVars
<1>6. ASSUME NEW r \in Runs, Acquire(r) PROVE SlotHeld'
  <2>1. /\ of[r] \in Tasks /\ slot = r
        /\ Admit(r, of[r], handles, newest, executing, slot)
    BY <1>6 DEF Acquire, Typed, HasTask
  <2> QED
    BY <2>1, AdmitKeepsSlot
<1>7. ASSUME NEW r \in Runs, Exit(r, executing, handles, slot), Free(r)
      PROVE  SlotHeld'
  BY <1>7, LeaveKeepsSlot DEF Free, UsesModel, Typed, TypeOK
<1>8. ASSUME NEW r \in Runs, PassGate(r) PROVE SlotHeld'
  <2>1. CASE Begin(r, of[r], handles, executing, slot)
    <3>1. /\ pc' = [pc EXCEPT ![r] = "running"] /\ UNCHANGED <<of, forced, slot>>
          /\ "running" \in PCs
      BY <2>1 DEF Begin, PCs
    <3>2. forced[r] \/ of[r] \notin ModelBacked \/ UsesModel(r)
      BY <1>8 DEF PassGate, UsesModel
    <3> QED
      BY <3>1, <3>2, EnterKeepsSlot
  <2> QED
    BY <1>7, <1>8, <2>1 DEF PassGate
<1>9. ASSUME NEW r \in Runs, pc[r] \in {"running", "closing"},
             pc' = [pc EXCEPT ![r] = "closing"], UNCHANGED <<of, forced, slot>>
      PROVE  SlotHeld'
  BY <1>9 DEF SlotHeld, UsesModel, Typed, TypeOK
<1>10. ASSUME NEW r \in Runs, NEW res, Conclude(r, res), pc[r] # "done"
       PROVE  SlotHeld'
  <2>1. CASE Free(r)
    BY <1>7, <1>10, <2>1 DEF Conclude
  <2>2. ASSUME NEW u, NEW c \in Runs,
               /\ pc' = [pc EXCEPT ![r] = "done", ![c] = "chained"]
               /\ of' = [of EXCEPT ![r] = NoTask, ![c] = u]
               /\ forced' = [forced EXCEPT ![r] = FALSE]
        PROVE  SlotHeld'
    <3>1. /\ \A s \in Runs \ {r} : UsesModel(s)' => UsesModel(s)
          /\ ~UsesModel(r)'
      BY <2>2 DEF UsesModel, Typed, TypeOK
    <3>2. Exit(r, executing, handles, slot)
      BY <1>10 DEF Conclude
    <3> QED
      BY <3>1, <3>2, LeaveKeepsSlot
  <2>3. CASE ~Free(r)
    <3>1. PICK c \in IF Fresh = {} THEN {r} ELSE Fresh :
             /\ pc' = [pc EXCEPT ![r] = "done", ![c] = "chained"]
             /\ of' = [of EXCEPT ![r] = NoTask, ![c] = ChainTarget(of[r])]
             /\ forced' = [forced EXCEPT ![r] = FALSE]
      BY <1>10, <2>3 DEF Conclude
    <3>2. c \in Runs
      BY DEF Fresh
    <3> QED
      BY <2>2, <3>1, <3>2
  <2> QED
    BY <2>1, <2>3
<1>11. ASSUME NEW r \in Runs, NEW x, NEW m, pc[r] = "running",
              Settle(r, x, m)
       PROVE  SlotHeld'
  BY <1>7, <1>9, <1>11 DEF Settle, loopVars
<1>12. ASSUME NEW r \in Runs, Finish(r) \/ Close(r) PROVE SlotHeld'
  <2>1. CASE \E res : Conclude(r, res)
    BY <1>10, <1>12, <2>1 DEF Finish, Close
  <2>2. CASE /\ pc[r] = "running" /\ pc' = [pc EXCEPT ![r] = "closing"]
             /\ UNCHANGED <<of, forced, slot>>
    BY <1>9, <2>2
  <2>3. CASE \E x, m : pc[r] = "running" /\ Settle(r, x, m)
    BY <1>11, <2>3
  <2> QED
    BY <1>12, <2>1, <2>2, <2>3 DEF Finish, Close, loopVars
<1>13. ASSUME NEW r \in Runs, CancelWaiting(r) \/ CancelRunning(r)
       PROVE  SlotHeld'
  BY <1>7, <1>11, <1>13 DEF CancelWaiting, Waits, CancelRunning
<1>14. CASE Restart
  BY <1>14 DEF Restart, SlotHeld, UsesModel
<1>15. CASE \/ \E t \in Tasks : \/ ClockReaches(t) \/ StopTask(t) \/ Pause(t)
                                \/ Resume(t) \/ Delete(t)
            \/ \E t \in Editable : EditSchedule(t)
            \/ \E r \in Runs : Monitor(r) \/ Reload(r)
            \/ ForegroundRequest \/ Quiet \/ StopBackground \/ UNCHANGED vars
  <2>1. UNCHANGED <<pc, of, forced, slot>>
    BY <1>15 DEF ClockReaches, StopTask, Pause, Resume, Delete, Monitor,
                 Reload, EditSchedule, ForegroundRequest, Quiet, StopBackground, vars, runVars, loopVars
  <2> QED
    BY <1>2, <2>1
<1> QED
  BY <1>3, <1>4, <1>5, <1>6, <1>8, <1>12, <1>13, <1>14, <1>15
  DEF Next, NextUnstopped, Step

\* At most one unforced model-backed run is past the semaphore, for every number
\* of tasks and runs and whatever is cancelled, deleted or restarted.
THEOREM OneModelRun == Spec => []ModelRunsExclude
<1>1. Init => Typed /\ SlotHeld
  BY TypedInit DEF Init, SlotHeld, UsesModel
<1>2. Typed /\ SlotHeld /\ [Next]_vars => (Typed /\ SlotHeld)'
  BY TypedStep, SlotHeldStep
<1>3. SlotHeld => ModelRunsExclude
  BY DEF SlotHeld, ModelRunsExclude
<1> QED
  BY <1>1, <1>2, <1>3, PTL DEF Spec

-----------------------------------------------------------------------------
(* The dates of recurring tasks. *)

\* What a coroutine writes while it executes: nothing, or the next date of its own
\* task, at its end.
WritesDate(r) ==
    /\ EndsRun(r, of[r])
    /\ UNCHANGED <<dated, owed>>
    /\ \A t \in Tasks : /\ (status'[t] = "active" => status[t] = "active")
                         /\ (status'[t] # "deleted" => status[t] # "deleted")
    /\ \/ SetNextRun(of[r], "later")
       \/ SetNextRun(of[r], NextAfterRun(r))
       \/ UNCHANGED nextRun

\* An end that is committed at once leaves the coroutine or awaits the monitor.
LEMMA SettleMoves ==
    ASSUME Typed, NEW r \in Runs, pc[r] = "running", NEW x, NEW m, Settle(r, x, m)
    PROVE  EndsRun(r, of[r]) /\ UNCHANGED <<status, dated, owed>>
BY DEF Settle, Free, EndsRun, Typed, TypeOK

\* The end of a run leaves the coroutine, chained successor or not.
LEMMA ConcludeMoves ==
    ASSUME Typed, NEW r \in Runs, pc[r] \in {"running", "closing"}, NEW res,
           Conclude(r, res)
    PROVE  WritesDate(r)
<1>1. pc'[r] # pc[r]
  <2>1. CASE Free(r)
    BY <2>1 DEF Free, Typed, TypeOK
  <2>2. CASE ~Free(r)
    <3>1. PICK c \in IF Fresh = {} THEN {r} ELSE Fresh :
             pc' = [pc EXCEPT ![r] = "done", ![c] = "chained"]
      BY <2>2 DEF Conclude
    <3> QED
      BY <3>1 DEF Typed, TypeOK
  <2> QED
    BY <2>1, <2>2
<1>2. /\ UNCHANGED <<dated, owed>>
      /\ status' \in {status, [status EXCEPT ![of[r]] = "completed"]}
      /\ status' # status => status[of[r]] # "deleted"
  BY DEF Conclude
<1>3. \/ SetNextRun(of[r], "later")
      \/ SetNextRun(of[r], NextAfterRun(r))
      \/ UNCHANGED nextRun
  BY DEF Conclude, SaveNextRun
<1> QED
  BY <1>1, <1>2, <1>3 DEF WritesDate, EndsRun, Typed, TypeOK

\* So every step of an executing coroutine.
LEMMA EndWrites ==
    ASSUME Typed, NEW r \in Runs, Finish(r) \/ Close(r) \/ CancelRunning(r)
    PROVE  UNCHANGED <<taskVars, owed>> \/ WritesDate(r)
<1>1. CASE \E res : Conclude(r, res)
  BY <1>1, ConcludeMoves DEF Finish, Close, CancelRunning
<1>2. CASE /\ pc[r] = "running" /\ \E x, m : Settle(r, x, m)
           /\ \/ SetNextRun(of[r], "later")
              \/ SaveNextRun(r, NextAfterRun(r))
  BY <1>2, SettleMoves DEF WritesDate, SaveNextRun
<1>3. CASE UNCHANGED <<taskVars, owed>>
  BY <1>3
<1> QED
  BY <1>1, <1>2, <1>3 DEF Finish, Close, CancelRunning

\* The stretch before the gate: only a refusal clears a date, and it pauses.
LEMMA AdmitWrites ==
    ASSUME Typed, NEW r \in Runs, NEW t \in Tasks,
           NEW hs, NEW nw, NEW ex, NEW sl, Admit(r, t, hs, nw, ex, sl)
    PROVE  \/ UNCHANGED taskVars /\ owed' \subseteq owed
           \/ /\ status' = [status EXCEPT ![t] = "paused"]
              /\ nextRun' = [nextRun EXCEPT ![t] = "none"]
              /\ owed' = owed \ {t}
              /\ UNCHANGED dated
BY DEF Admit, Begin, taskVars

\* So the first steps of a coroutine and its wake-up at the semaphore.
LEMMA StartWrites ==
    ASSUME Typed, NEW r \in Runs, Launch(r) \/ Acquire(r)
    PROVE  \/ UNCHANGED taskVars /\ owed' \subseteq owed
           \/ \E t \in Tasks :
                 /\ status' = [status EXCEPT ![t] = "paused"]
                 /\ nextRun' = [nextRun EXCEPT ![t] = "none"]
                 /\ owed' = owed \ {t}
                 /\ UNCHANGED dated
<1>1. of[r] \in Tasks
  BY DEF Launch, Acquire, Typed, HasTask
<1>2. CASE \E hs, nw, ex, sl : Admit(r, of[r], hs, nw, ex, sl)
  BY <1>1, <1>2, AdmitWrites
<1>3. CASE UNCHANGED <<taskVars, owed>>
  BY <1>3
<1> QED
  BY <1>2, <1>3 DEF Launch, Acquire

\* The steps that touch neither the rows of the tasks nor what is owed to them.
LEMMA QuietSteps ==
    ASSUME \/ \E t \in Tasks : RunTaskNow(t) \/ ForceRun(t) \/ StopTask(t)
           \/ \E r \in Runs : Monitor(r) \/ Reload(r)
           \/ ForegroundRequest \/ Quiet \/ StopBackground
           \/ UNCHANGED vars
    PROVE  UNCHANGED <<status, nextRun, dated, owed>>
BY DEF RunTaskNow, ForceRun, StopTask, Monitor, Reload, ForegroundRequest, Quiet,
       StopBackground, vars, taskVars

\* No action takes the date of an active recurring task with a good schedule, but
\* for the end of a run that had loaded a broken one.
LEMMA DateStep ==
    ASSUME Typed, [Next]_vars, NEW t \in Tasks, Unserved(t)', ~Unserved(t)
    PROVE  \E r \in Runs : EndsRun(r, t) /\ ~loaded[r].dated
<1>0. /\ status'[t] = "active" /\ Trigger[t] = "recurring"
      /\ t \in dated' /\ nextRun'[t] = "none"
      /\ ~(status[t] = "active" /\ t \in dated /\ nextRun[t] = "none")
  BY DEF Unserved
<1>1. CASE UNCHANGED <<status, nextRun, dated>>
  BY <1>0, <1>1
<1>11. nextRun \in [Tasks -> NextRuns] /\ status \in [Tasks -> Statuses]
  BY DEF Typed, TypeOK
<1>2. ASSUME NEW u \in Tasks, ClockReaches(u) \/ FireEvent(u)
      PROVE  FALSE
  <2>1. CASE ClockReaches(u)
    <3>1. nextRun'[u] = "due" /\ UNCHANGED status
      BY <1>11, <2>1 DEF ClockReaches
    <3>2. t # u /\ nextRun'[t] = nextRun[t] /\ (t \in dated' <=> t \in dated)
      BY <1>0, <1>11, <2>1, <3>1 DEF ClockReaches
    <3> QED
      BY <1>0, <3>1, <3>2
  <2>2. CASE FireEvent(u)
    BY <1>0, <1>11, <2>2 DEF FireEvent
  <2> QED
    BY <1>2, <2>1, <2>2
<1>3. CASE CheckDueTasks
  <2>1. UNCHANGED <<status, dated>>
    BY <1>3 DEF CheckDueTasks
  <2>2. \/ UNCHANGED nextRun
        \/ nextRun' = [u \in Tasks |-> IF u \in DueTasks THEN "later" ELSE nextRun[u]]
    BY <1>3 DEF CheckDueTasks
  <2>3. nextRun[t] = "none"
    BY <1>0, <2>2
  <2> QED
    BY <1>0, <2>1, <2>3
<1>4. CASE \E r \in Runs : Launch(r) \/ Acquire(r)
  BY <1>0, <1>4, StartWrites DEF taskVars, Typed, TypeOK
<1>5. ASSUME NEW r \in Runs, Finish(r) \/ Close(r) \/ CancelRunning(r)
      PROVE  \E s \in Runs : EndsRun(s, t) /\ ~loaded[s].dated
  <2>1. WritesDate(r)
    BY <1>0, <1>5, EndWrites DEF taskVars
  <2>2. status[t] = "active" /\ nextRun[t] # "none"
    BY <1>0, <2>1 DEF WritesDate
  <2>3. t = of[r] /\ NextAfterRun(r) = "none"
    BY <1>0, <2>1, <2>2 DEF WritesDate, SetNextRun, Typed, TypeOK
  <2>4. ~loaded[r].dated
    BY <1>0, <2>3 DEF NextAfterRun
  <2> QED
    BY <2>1, <2>3, <2>4 DEF WritesDate
<1>6. CASE \E r \in Runs : CancelWaiting(r)
  BY <1>0, <1>6 DEF CancelWaiting, DeferDueTask, Typed, TypeOK
<1>7. CASE \E u \in Tasks : Pause(u) \/ Resume(u) \/ Delete(u)
  BY <1>0, <1>7 DEF Pause, Resume, Delete, ComputeNextRun, Typed, TypeOK
<1>8. CASE \E u \in Editable : EditSchedule(u)
  BY <1>0, <1>8, TasksAssumption DEF EditSchedule, ComputeNextRun, Typed, TypeOK
<1>9. CASE Restart
  BY <1>0, <1>9 DEF Restart
<1>10. CASE \E r \in Runs : PassGate(r)
  BY <1>1, <1>10 DEF PassGate, Begin, taskVars
<1> QED
  BY <1>1, <1>2, <1>3, <1>4, <1>5, <1>6, <1>7, <1>8, <1>9, <1>10, QuietSteps
  DEF Next, NextUnstopped, Step

\* However its runs end and whatever is refused, deferred, cancelled, resumed,
\* edited or restarted, an active recurring task with a good schedule keeps a next
\* date; only a run that had loaded a broken schedule takes it (compute_next_run
\* and its callers).
THEOREM RecurringKeepsDate == Spec => RecurringStaysScheduled
<1>1. Typed /\ [Next]_vars
      => [\A t \in Tasks : Unserved(t)' =>
            \/ Unserved(t)
            \/ \E r \in Runs : EndsRun(r, t) /\ ~loaded[r].dated]_vars
  BY DateStep
<1> QED
  BY TypedInit, TypedStep, <1>1, PTL DEF Spec, RecurringStaysScheduled

-----------------------------------------------------------------------------
(* One unforced run per task, as long as nobody presses stop. *)

OneDispatch ==
    /\ \A r \in Runs : Marked(r) => of[r] \in executing
    /\ NoDoubleDispatch

\* A coroutine that leaves takes its own mark only: no other run relies on it.
LEMMA LeaveKeepsMarks ==
    ASSUME OneDispatch, NEW r \in Runs, NEW ex, NEW hs, NEW sl,
           executing \subseteq ex, Exit(r, ex, hs, sl),
           forced[r] \/ Marked(r) \/ of[r] \notin executing,
           \A s \in Runs \ {r} : Marked(s)' => Marked(s) /\ of'[s] = of[s],
           ~Marked(r)'
    PROVE  OneDispatch'
<1>1. \A s \in Runs : Marked(s)' => s # r /\ Marked(s) /\ of'[s] = of[s]
  OBVIOUS
<1>2. ASSUME NEW s \in Runs, Marked(s)' PROVE of'[s] \in executing'
  <2>1. of[s] \in executing
    BY <1>1, <1>2 DEF OneDispatch
  <2>2. forced[r] \/ of[s] # of[r]
    BY <1>1, <1>2, <2>1 DEF OneDispatch, NoDoubleDispatch
  <2>3. of[s] \in executing'
    BY <2>1, <2>2 DEF Exit, Unmark
  <2> QED
    BY <1>1, <1>2, <2>3
<1>3. NoDoubleDispatch'
  BY <1>1 DEF OneDispatch, NoDoubleDispatch
<1> QED
  BY <1>2, <1>3 DEF OneDispatch

\* A coroutine that goes on keeps its mark, or is the first to set it.
LEMMA EnterKeepsMarks ==
    ASSUME Typed, OneDispatch, NEW r \in Runs, NEW x \in PCs,
           pc' = [pc EXCEPT ![r] = x], UNCHANGED <<of, forced>>,
           executing \subseteq executing',
           forced[r] \/ Marked(r) \/ of[r] \in executing' \ executing
    PROVE  OneDispatch'
<1>1. \A s \in Runs \ {r} : Marked(s)' => Marked(s)
  BY DEF Marked, Typed, TypeOK
<1>2. Marked(r)' => Marked(r) \/ of[r] \in executing' \ executing
  BY DEF Marked
<1> QED
  BY <1>1, <1>2 DEF OneDispatch, NoDoubleDispatch

\* New coroutines, each of another task that nobody had marked.
LEMMA SpawnKeepsMarks ==
    ASSUME Typed, OneDispatch, NEW ts \in SUBSET (Tasks \ executing),
           NEW f \in [ts -> Fresh], \A t, u \in ts : f[t] = f[u] => t = u,
           Spawn(ts, f, "created", FALSE), executing' = executing \cup ts
    PROVE  OneDispatch'
<1> DEFINE new == {r \in Runs : \E t \in ts : f[t] = r}
<1>1. \A r \in new : of'[r] \in ts /\ f[of'[r]] = r
  <2>1. ASSUME NEW r \in new
        PROVE  of'[r] \in ts /\ f[of'[r]] = r
    <3>1. of'[r] = CHOOSE t \in ts : f[t] = r
      BY DEF Spawn
    <3> QED
      BY <3>1
  <2> QED
    BY <2>1
<1>2. \A r \in Runs \ new : Marked(r)' => Marked(r) /\ of'[r] = of[r]
  BY DEF Marked, Spawn
<1>3. \A r \in Runs : Marked(r)' => of'[r] \in executing'
  BY <1>1, <1>2 DEF OneDispatch
<1>4. NoDoubleDispatch'
  <2>1. ASSUME NEW r \in Runs, NEW s \in Runs, Marked(r)', Marked(s)',
               of'[r] = of'[s]
        PROVE  r = s
    <3>1. CASE r \in new /\ s \in new
      BY <1>1, <2>1, <3>1
    <3>2. CASE r \notin new /\ s \notin new
      BY <1>2, <2>1, <3>2 DEF OneDispatch, NoDoubleDispatch
    <3>3. CASE (r \in new) # (s \in new)
      BY <1>1, <1>2, <2>1, <3>3 DEF OneDispatch
    <3> QED
      BY <3>1, <3>2, <3>3
  <2> QED
    BY <2>1 DEF NoDoubleDispatch
<1> QED
  BY <1>3, <1>4 DEF OneDispatch

\* The stretch before the gate, of a coroutine with the mark or without need of it.
LEMMA AdmitKeepsMarks ==
    ASSUME Typed, OneDispatch, NEW r \in Runs, NEW t \in Tasks, of[r] = t,
           NEW hs, NEW nw, NEW ex, NEW sl, executing \subseteq ex,
           forced[r] \/ Marked(r) \/ t \in ex \ executing,
           Admit(r, t, hs, nw, ex, sl)
    PROVE  OneDispatch'
<1>1. CASE Free(r) /\ Exit(r, ex, hs, sl)
  <2>1. /\ \A s \in Runs \ {r} : Marked(s)' => Marked(s) /\ of'[s] = of[s]
        /\ ~Marked(r)'
    BY <1>1 DEF Free, Marked, Typed, TypeOK
  <2> QED
    BY <1>1, <2>1, LeaveKeepsMarks
<1>2. CASE /\ \E x \in {"gate", "running"} : pc' = [pc EXCEPT ![r] = x]
           /\ UNCHANGED <<of, forced>>
           /\ executing' = ex
  BY <1>2, EnterKeepsMarks DEF PCs
<1> QED
  BY <1>1, <1>2 DEF Admit, Begin

\* No step but a stop separates a run in flight from its mark.
LEMMA DispatchStep ==
    ASSUME Typed, OneDispatch, [NextUnstopped]_vars
    PROVE  OneDispatch'
<1>1. ASSUME UNCHANGED <<pc, of, forced, executing>>
      PROVE  OneDispatch'
  BY <1>1 DEF OneDispatch, NoDoubleDispatch, Marked
<1>2. ASSUME NEW r \in Runs, Exit(r, executing, handles, slot), Free(r),
             forced[r] \/ Marked(r)
      PROVE  OneDispatch'
  <2>1. /\ \A s \in Runs \ {r} : Marked(s)' => Marked(s) /\ of'[s] = of[s]
        /\ ~Marked(r)'
    BY <1>2 DEF Free, Marked, Typed, TypeOK
  <2> QED
    BY <1>2, <2>1, LeaveKeepsMarks
<1>3. ASSUME NEW r \in Runs, NEW x \in PCs, pc' = [pc EXCEPT ![r] = x],
             UNCHANGED <<of, forced, executing>>, forced[r] \/ Marked(r)
      PROVE  OneDispatch'
  BY <1>3, EnterKeepsMarks
<1>4. ASSUME NEW t \in Tasks, t \notin executing, executing' = executing \cup {t},
             NEW r \in Fresh, Spawn({t}, [x \in {t} |-> r], "created", FALSE)
      PROVE  OneDispatch'
  <2> DEFINE f == [x \in {t} |-> r]
  <2>1. f \in [{t} -> Fresh] /\ \A u, v \in {t} : f[u] = f[v] => u = v
    OBVIOUS
  <2>2. {t} \in SUBSET (Tasks \ executing)
    BY <1>4
  <2> HIDE DEF f
  <2> QED
    BY <1>4, <2>1, <2>2, SpawnKeepsMarks DEF f
<1>5. CASE CheckDueTasks
  <2>1. CASE UNCHANGED <<runVars, executing>>
    BY <1>1, <2>1 DEF runVars
  <2>2. CASE /\ executing' = executing \cup DueTasks
             /\ \E f \in Injection(DueTasks, Fresh) :
                   Spawn(DueTasks, f, "created", FALSE)
    <3>1. PICK f \in Injection(DueTasks, Fresh) :
             Spawn(DueTasks, f, "created", FALSE)
      BY <2>2
    <3>2. f \in [DueTasks -> Fresh] /\ \A t, u \in DueTasks : f[t] = f[u] => t = u
      BY DEF Injection, IsInjective
    <3>3. DueTasks \in SUBSET (Tasks \ executing)
      BY DEF DueTasks
    <3> QED
      BY <2>2, <3>1, <3>2, <3>3, SpawnKeepsMarks
  <2> QED
    BY <1>5, <2>1, <2>2 DEF CheckDueTasks
<1>6. ASSUME NEW t \in Tasks, RunTaskNow(t) PROVE OneDispatch'
  BY <1>4, <1>6 DEF RunTaskNow
<1>7. ASSUME NEW t \in Tasks, ForceRun(t) PROVE OneDispatch'
  <2>1. PICK r \in Fresh : Spawn({t}, [x \in {t} |-> r], "created", TRUE)
    BY <1>7 DEF ForceRun
  <2>2. \A s \in Runs : Marked(s)' => Marked(s) /\ of'[s] = of[s]
    BY <2>1 DEF Spawn, Marked
  <2> QED
    BY <1>7, <2>2 DEF ForceRun, loopVars, OneDispatch, NoDoubleDispatch
<1>8. ASSUME NEW t \in Tasks, FireEvent(t) PROVE OneDispatch'
  <2>1. CASE UNCHANGED <<runVars, executing>>
    BY <1>1, <2>1 DEF runVars
  <2> QED
    BY <1>4, <1>8, <2>1 DEF FireEvent
<1>9. ASSUME NEW r \in Runs, Launch(r) PROVE OneDispatch'
  <2> DEFINE t  == of[r]
             hs == [handles EXCEPT ![t] = r]
             nw == [newest EXCEPT ![t] = r]
             ex == executing \cup (IF pc[r] = "chained" THEN {t} ELSE {})
  <2>1. t \in Tasks
    BY <1>9 DEF Launch, Typed, HasTask
  <2>2. CASE pc[r] = "chained" /\ Free(r) /\ UNCHANGED executing
    BY <2>2 DEF Free, OneDispatch, NoDoubleDispatch, Marked, Typed, TypeOK
  <2>3. CASE pc[r] = "created" \/ t \notin executing
    <3>1. executing \subseteq ex
      OBVIOUS
    <3>2. forced[r] \/ Marked(r) \/ t \in ex \ executing
      BY <1>9, <2>3 DEF Launch, Marked
    <3>3. CASE \E sl : Admit(r, t, hs, nw, ex, sl)
      <4> HIDE DEF t, hs, nw, ex
      <4> QED
        BY <2>1, <3>1, <3>2, <3>3, AdmitKeepsMarks DEF t
    <3>4. CASE /\ pc' = [pc EXCEPT ![r] = "queued"]
               /\ executing' = ex /\ UNCHANGED <<of, forced>>
      <4>1. "queued" \in PCs
        BY DEF PCs
      <4>2. \/ forced[r] \/ Marked(r)
            \/ of[r] \in executing' \ executing
        BY <3>2, <3>4
      <4> QED
        BY <3>1, <3>4, <4>1, <4>2, EnterKeepsMarks
    <3> QED
      BY <1>9, <2>3, <3>3, <3>4 DEF Launch
  <2> QED
    BY <1>9, <2>2, <2>3 DEF Launch, loopVars
<1>10. ASSUME NEW r \in Runs, Acquire(r) PROVE OneDispatch'
  <2>1. /\ of[r] \in Tasks
        /\ forced[r] \/ Marked(r)
        /\ Admit(r, of[r], handles, newest, executing, slot)
    BY <1>10 DEF Acquire, Typed, HasTask, Marked
  <2> QED
    BY <2>1, AdmitKeepsMarks
<1>11. ASSUME NEW r \in Runs, PassGate(r) PROVE OneDispatch'
  <2>1. forced[r] \/ Marked(r)
    BY <1>11 DEF PassGate, Marked
  <2> QED
    BY <1>2, <1>3, <1>11, <2>1 DEF PassGate, Begin, PCs
<1>12. ASSUME NEW r \in Runs, NEW res, Conclude(r, res), forced[r] \/ Marked(r)
       PROVE  OneDispatch'
  <2>1. Exit(r, executing, handles, slot)
    BY <1>12 DEF Conclude
  <2>2. CASE Free(r)
    BY <1>2, <1>12, <2>1, <2>2
  <2>3. CASE ~Free(r)
    <3>1. PICK c \in IF Fresh = {} THEN {r} ELSE Fresh :
             /\ pc' = [pc EXCEPT ![r] = "done", ![c] = "chained"]
             /\ of' = [of EXCEPT ![r] = NoTask, ![c] = ChainTarget(of[r])]
             /\ forced' = [forced EXCEPT ![r] = FALSE]
      BY <1>12, <2>3 DEF Conclude
    <3>2. c \in Runs
      BY DEF Fresh
    <3>3. /\ \A s \in Runs \ {r} : Marked(s)' => Marked(s) /\ of'[s] = of[s]
          /\ ~Marked(r)'
      BY <3>1, <3>2 DEF Marked, Typed, TypeOK
    <3> QED
      BY <1>12, <2>1, <3>3, LeaveKeepsMarks
  <2> QED
    BY <2>2, <2>3
<1>13. ASSUME NEW r \in Runs, NEW x, NEW m, pc[r] = "running",
              Settle(r, x, m)
       PROVE  OneDispatch'
  <2>1. forced[r] \/ Marked(r)
    BY <1>13 DEF Marked
  <2> QED
    BY <1>2, <1>3, <1>13, <2>1 DEF Settle, loopVars, PCs
<1>14. ASSUME NEW r \in Runs, Finish(r) \/ Close(r) PROVE OneDispatch'
  <2>1. forced[r] \/ Marked(r)
    BY <1>14 DEF Finish, Close, Marked
  <2>2. CASE \E res : Conclude(r, res)
    BY <1>12, <2>1, <2>2
  <2>3. CASE /\ pc' = [pc EXCEPT ![r] = "closing"]
             /\ UNCHANGED <<of, forced, executing>>
    BY <1>3, <2>1, <2>3 DEF PCs
  <2>4. CASE \E x, m : pc[r] = "running" /\ Settle(r, x, m)
    BY <1>13, <2>4
  <2> QED
    BY <1>14, <2>2, <2>3, <2>4 DEF Finish, Close, loopVars
<1>15. ASSUME NEW r \in Runs, CancelWaiting(r) PROVE OneDispatch'
  <2>1. forced[r] \/ Marked(r)
    BY <1>15 DEF CancelWaiting, Waits, Marked
  <2> QED
    BY <1>2, <1>15, <2>1 DEF CancelWaiting
<1>16. ASSUME NEW r \in Runs, CancelRunning(r) PROVE OneDispatch'
  BY <1>13, <1>16 DEF CancelRunning
<1>17. CASE Restart
  BY <1>17 DEF Restart, OneDispatch, NoDoubleDispatch, Marked
<1>18. CASE \/ \E t \in Tasks : ClockReaches(t) \/ Pause(t) \/ Resume(t) \/ Delete(t)
            \/ \E t \in Editable : EditSchedule(t)
            \/ \E r \in Runs : Monitor(r) \/ Reload(r)
            \/ ForegroundRequest \/ Quiet \/ StopBackground \/ UNCHANGED vars
  <2>1. UNCHANGED <<pc, of, forced, executing>>
    BY <1>18 DEF ClockReaches, Pause, Resume, Delete, Monitor, Reload, EditSchedule, ForegroundRequest,
                 Quiet, StopBackground, vars, runVars, loopVars
  <2> QED
    BY <1>1, <2>1
<1> QED
  BY <1>5, <1>6, <1>7, <1>8, <1>9, <1>10, <1>11, <1>14, <1>15, <1>16, <1>17, <1>18
  DEF NextUnstopped, Step

\* Nobody having pressed stop, a task never has two unforced runs in flight: the
\* tick, "run now", events and chains all agree through _executing.
THEOREM OneRunPerTask == SpecUnstopped => []NoDoubleDispatch
<1>1. Init => Typed /\ OneDispatch
  BY TypedInit DEF Init, OneDispatch, NoDoubleDispatch, Marked
<1>2. Typed /\ OneDispatch /\ [NextUnstopped]_vars => (Typed /\ OneDispatch)'
  BY TypedStep, DispatchStep DEF Next
<1>3. OneDispatch => NoDoubleDispatch
  BY DEF OneDispatch
<1> QED
  BY <1>1, <1>2, <1>3, PTL DEF SpecUnstopped
=============================================================================
