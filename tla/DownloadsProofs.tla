-------------------------- MODULE DownloadsProofs --------------------------
(***************************************************************************)
(* Proofs about Downloads, for every number of models, keys, requests and  *)
(* steps: type correctness, and that a ticket starts one download, a       *)
(* removed task stays removed and a running download is known somewhere.   *)
(***************************************************************************)
EXTENDS Downloads, TLAPS

-----------------------------------------------------------------------------
(* Types.                                                                   *)

Statuses == {"none", "live", "ok", "failed", "dead"}
Tasks == [Key -> Task]

\* What is open is about a key, except a click, a look at the list and a poll.
OpenOp == {o \in Op : o.key = 0 =>
             \/ o.kind \in {"clear", "status", "agent"}
             \/ o.kind = "launch" /\ o.why = "click"}

\* TypeOK with the history of starts, which is not bounded, and the keys.
Typed == TypeOK /\ ops \subseteq OpenOp /\ started \in [Key -> Nat]

\* The part of Typed that a launch writes.
LaunchTyped ==
  /\ ops \subseteq OpenOp /\ faults \in 0..MaxSteps /\ started \in [Key -> Nat]
  /\ session \in [Key -> Statuses]
  /\ of \in [Key -> Model \cup {NoModel}] /\ next \in 1..(MaxKeys + 1)

\* The blank record of an open operation is an operation.
LEMMA BlankTyped == Blank \in Op
<1>1. 0 \in 0..MaxKeys
  BY BoundsAreNatural
<1>2. [k \in Key |-> Absent] \in Tasks
  BY DEF Absent, Task, Tasks
<1> QED BY <1>1, <1>2 DEF Blank, Op, Tasks

\* Task records of each status are tasks.
LEMMA FreshTyped ==
  /\ Absent \in Task
  /\ Fresh("queued") \in Task /\ Fresh("running") \in Task
BY DEF Fresh, Absent, Task, Ended

\* Writing one task, or the status of one.
LEMMA TaskWritten ==
  ASSUME NEW tasks \in Tasks, NEW k, NEW t \in Task
  PROVE  [tasks EXCEPT ![k] = t] \in Tasks
BY DEF Tasks

AllStatuses == {"absent", "queued", "running"} \cup Ended

LEMMA StatusWritten ==
  ASSUME NEW tasks \in Tasks, NEW k, NEW s \in AllStatuses
  PROVE  [tasks EXCEPT ![k].status = s] \in Tasks
BY DEF Tasks, Task, AllStatuses

LEMMA StatusChanged ==
  ASSUME NEW t \in Task, NEW s \in AllStatuses
  PROVE  [t EXCEPT !.status = s] \in Task /\ [t EXCEPT !.status = s, !.ok = FALSE] \in Task
BY DEF Task, AllStatuses

LEMMA SomeStatuses ==
  /\ "running" \in AllStatuses /\ "crashed" \in AllStatuses /\ "done" \in AllStatuses
  /\ "queued" \in AllStatuses
BY DEF AllStatuses, Ended

\* The fields of an open operation.
Whys == {"", "click", "queue", "again", "retry", "auto", "stale", "remove"}

LEMMA OpFields ==
  ASSUME NEW o \in Op
  PROVE  /\ o.key \in 0..MaxKeys /\ o.sid \in 0..MaxKeys
         /\ o.busy \in BOOLEAN /\ o.tasks \in Tasks /\ o.gone \subseteq Key
         /\ o.why \in Whys
         /\ o.seen \in [Key -> {"", "running", "completed", "stopped"}]
BY DEF Op, Tasks, Whys

LEMMA KeyOrZero ==
  ASSUME NEW k \in 0..MaxKeys
  PROVE  k # 0 <=> k \in Key
BY BoundsAreNatural DEF Key

LEMMA WithoutTyped ==
  ASSUME NEW tasks \in Tasks, NEW keys
  PROVE  Without(tasks, keys) \in Tasks
BY FreshTyped DEF Without, Tasks

\* What a launch sends.
Request(why, key, sid) ==
  [[Blank EXCEPT !.kind = "launch", !.why = why, !.key = key] EXCEPT !.sid = sid]

LEMMA RequestTyped ==
  ASSUME NEW why \in Whys, NEW key \in 0..MaxKeys, NEW sid \in 0..MaxKeys,
         key = 0 => why = "click"
  PROVE  Request(why, key, sid) \in OpenOp
BY BlankTyped DEF Request, Blank, Op, OpenOp, Whys

\* The next key is a key while there is one; a fault that is counted was allowed.
LEMMA NextKey ==
  ASSUME Typed, next <= MaxKeys
  PROVE  next \in Key /\ next + 1 \in 1..(MaxKeys + 1) /\ next \in 0..MaxKeys
BY BoundsAreNatural DEF Key, Typed, TypeOK

LEMMA FaultCounted ==
  ASSUME Typed, Fault
  PROVE  faults' \in 0..MaxSteps
<1> DEFINE c == clicks  f == faults
<1>1. c \in Nat /\ f \in Nat /\ c + f < MaxSteps /\ faults' = f + 1 /\ MaxSteps \in Nat
  BY BoundsAreNatural DEF Fault, CanBegin, Typed, TypeOK
<1> QED BY <1>1

\* The two outcomes of a launch.
Succeeds(why, m, key, rest, sess) ==
  /\ next <= MaxKeys /\ next' = next + 1 /\ faults' = faults
  /\ session' = [sess EXCEPT ![next] = "live"]
  /\ of' = [of EXCEPT ![next] = m]
  /\ ops' = rest \cup {Request(why, key, next)}
Fails(why, key, rest, sess) ==
  /\ Fault /\ next' = next /\ session' = sess /\ of' = of
  /\ ops' = rest \cup {Request(why, key, 0)}

LEMMA LaunchCases ==
  ASSUME NEW why \in Whys, NEW m, NEW key \in 0..MaxKeys, NEW rest, NEW sess,
         LaunchFrom(why, m, key, rest, sess)
  PROVE  /\ started' = IF why = "queue" THEN [started EXCEPT ![key] = @ + 1] ELSE started
         /\ Succeeds(why, m, key, rest, sess) \/ Fails(why, key, rest, sess)
<1>1. /\ Request(why, key, 0) \in Op
      /\ [Blank EXCEPT !.kind = "launch", !.why = why, !.key = key] \in Op
      /\ [Blank EXCEPT !.kind = "launch", !.why = why, !.key = key].sid = 0
  BY BlankTyped, BoundsAreNatural DEF Request, Blank, Op, Whys
<1>2. [Blank EXCEPT !.kind = "launch", !.why = why, !.key = key] = Request(why, key, 0)
  BY <1>1 DEF Request, Op
<1> QED BY <1>2 DEF LaunchFrom, Request, Succeeds, Fails

\* A launch keeps its part of the types.
LEMMA LaunchKeepsTypes ==
  ASSUME Typed, NEW why \in Whys, NEW m \in Model \cup {NoModel},
         NEW key \in 0..MaxKeys, key = 0 => why = "click", NEW rest \in SUBSET OpenOp,
         NEW sess \in [Key -> Statuses],
         LaunchFrom(why, m, key, rest, sess)
  PROVE  LaunchTyped'
<1>1. started' \in [Key -> Nat]
  <2>1. started' = IF why = "queue" THEN [started EXCEPT ![key] = @ + 1] ELSE started
    BY LaunchCases
  <2>2. started \in [Key -> Nat]
    BY DEF Typed
  <2>3. CASE key \in Key
    <3>1. started[key] + 1 \in Nat
      BY <2>2, <2>3
    <3> QED BY <2>1, <2>2, <3>1
  <2>4. CASE key \notin Key
    <3>1. [started EXCEPT ![key] = @ + 1] = started
      BY <2>2, <2>4
    <3> QED BY <2>1, <2>2, <3>1
  <2> QED BY <2>3, <2>4
<1>2. CASE Succeeds(why, m, key, rest, sess)
  <2>1. next \in Key /\ next + 1 \in 1..(MaxKeys + 1) /\ Request(why, key, next) \in OpenOp
    BY <1>2, NextKey, RequestTyped DEF Succeeds
  <2>2. session' \in [Key -> Statuses] /\ of' \in [Key -> Model \cup {NoModel}]
    BY <1>2, <2>1 DEF Succeeds, Typed, TypeOK, Statuses
  <2>3. faults' \in 0..MaxSteps
    BY <1>2 DEF Succeeds, Typed, TypeOK
  <2>4. ops' \subseteq OpenOp /\ next' \in 1..(MaxKeys + 1)
    BY <1>2, <2>1 DEF Succeeds
  <2> QED BY <1>1, <2>2, <2>3, <2>4 DEF LaunchTyped
<1>3. CASE Fails(why, key, rest, sess)
  <2>1. faults' \in 0..MaxSteps /\ Request(why, key, 0) \in OpenOp
    BY <1>3, FaultCounted, RequestTyped, BoundsAreNatural DEF Fails
  <2> QED BY <1>1, <1>3, <2>1 DEF Fails, LaunchTyped, Typed, TypeOK
<1> QED BY <1>2, <1>3, LaunchCases

LEMMA NoLaunchKeepsTypes ==
  ASSUME Typed, NEW rest \in SUBSET OpenOp, NoLaunch(rest)
  PROVE  LaunchTyped'
BY DEF NoLaunch, host, LaunchTyped, Typed, TypeOK, Statuses

\* What the pruning of the queue leaves: tasks as they were, without some tickets.
LEMMA PrunedTasks ==
  ASSUME NEW tasks \in Tasks, NEW p \in Pruned(tasks)
  PROVE  /\ p \in Tasks
         /\ \A k \in Key : \/ p[k] = tasks[k]
                           \/ p[k] = Absent /\ tasks[k].status = "queued"
<1>1. PICK d \in SUBSET Having(tasks, {"queued"}) : p = Without(tasks, d)
  BY DEF Pruned
<1> QED BY <1>1, WithoutTyped DEF Without, Having

\* Looking at the queue keeps the types.
LEMMA QueueKeepsTypes ==
  ASSUME Typed, NEW tasks \in Tasks, NEW rest \in SUBSET OpenOp,
         ProcessQueue(tasks, rest)
  PROVE  list' \in Tasks /\ LaunchTyped'
<1>1. PICK p \in Pruned(tasks) :
        \/ list' = p /\ NoLaunch(rest)
        \/ \E k \in Having(p, {"queued"}) :
             list' = Flipped(p, k) /\ Launch("queue", of[k], k, rest)
  BY DEF ProcessQueue
<1>2. p \in Tasks
  BY PrunedTasks
<1>3. CASE list' = p /\ NoLaunch(rest)
  BY <1>2, <1>3, NoLaunchKeepsTypes
<1>4. CASE \E k \in Having(p, {"queued"}) :
             list' = Flipped(p, k) /\ Launch("queue", of[k], k, rest)
  <2>1. PICK k \in Having(p, {"queued"}) :
             list' = Flipped(p, k) /\ Launch("queue", of[k], k, rest)
    BY <1>4
  <2>2. k \in Key /\ k \in 0..MaxKeys /\ k # 0
    BY BoundsAreNatural DEF Having, Key
  <2>3. list' \in Tasks
    BY <1>2, <2>1, <2>2 DEF Flipped, Tasks, Task
  <2>4. session \in [Key -> Statuses] /\ of[k] \in Model \cup {NoModel}
    BY <2>2 DEF Typed, TypeOK, Statuses
  <2>5. "queue" \in Whys
    BY DEF Whys
  <2> QED BY <2>1, <2>2, <2>3, <2>4, <2>5, LaunchKeepsTypes DEF Launch
<1> QED BY <1>1, <1>3, <1>4

\* The download button goes on: with a ticket or a launch.
LEMMA ProceedKeepsTypes ==
  ASSUME Typed, NEW m \in Model \cup {NoModel}, NEW busy \in BOOLEAN,
         NEW rest \in SUBSET OpenOp, Proceed(m, busy, rest)
  PROVE  list' \in Tasks /\ dirty' \in BOOLEAN /\ LaunchTyped'
<1>1. CASE busy
  <2>1. next \in Key /\ next + 1 \in 1..(MaxKeys + 1)
    BY <1>1, NextKey DEF Proceed
  <2> QED BY <1>1, <2>1, FreshTyped
          DEF Proceed, Save, LaunchTyped, Typed, TypeOK, Statuses, Tasks
<1>2. CASE ~busy
  <2>1. 0 \in 0..MaxKeys /\ session \in [Key -> Statuses]
    BY BoundsAreNatural DEF Typed, TypeOK, Statuses
  <2>3. "click" \in Whys
    BY DEF Whys
  <2>2. Launch("click", m, 0, rest) /\ UNCHANGED <<list, dirty>>
    BY <1>2 DEF Proceed
  <2> QED BY <2>1, <2>2, <2>3, LaunchKeepsTypes DEF Launch, Typed, TypeOK, Tasks
<1> QED BY <1>1, <1>2

\* What the actions of the list leave to LaunchTyped.
ListTyped ==
  /\ list \in Tasks /\ tomb \subseteq Key /\ dirty \in BOOLEAN
  /\ retries \in [Model -> 0..MaxAutoRetry]
  /\ disk \in [tasks : Tasks, removed : SUBSET Key] /\ old \subseteq Key
  /\ reissued \subseteq Key /\ lost \subseteq Key

LEMMA TypesSplit == Typed <=> ListTyped /\ LaunchTyped /\ clicks \in 0..MaxSteps
BY DEF Typed, TypeOK, ListTyped, LaunchTyped, Tasks, Statuses, OpenOp

\* Adding one well-typed operation, or dropping operations.
LEMMA OpsTyped ==
  ASSUME Typed, ops' \subseteq OpenOp, UNCHANGED <<host, faults, started>>
  PROVE  LaunchTyped'
BY DEF host, LaunchTyped, Typed, TypeOK, Statuses

LEMMA InitTyped == ASSUME Init PROVE Typed
<1>1. [k \in Key |-> Absent] \in Tasks
  BY FreshTyped DEF Tasks
<1>2. 0 \in 0..MaxAutoRetry /\ 0 \in 0..MaxSteps /\ 1 \in 1..(MaxKeys + 1)
  BY BoundsAreNatural
<1>3. ListTyped
  BY <1>1, <1>2 DEF Init, ListTyped
<1>4. LaunchTyped
  BY <1>2 DEF Init, LaunchTyped, Statuses
<1>5. clicks \in 0..MaxSteps
  BY <1>2 DEF Init
<1> QED BY <1>3, <1>4, <1>5, TypesSplit

\* The answer to a launch keeps the types.
LEMMA AnsweredTyped ==
  ASSUME Typed, NEW o \in ops, LaunchAnswered(o)
  PROVE  ListTyped' /\ LaunchTyped'
<1>0. ListTyped /\ o \in OpenOp /\ ops \ {o} \subseteq OpenOp
  BY TypesSplit DEF LaunchTyped
<1>1. LaunchTyped'
  BY <1>0, OpsTyped DEF LaunchAnswered
<1>2. list \in Tasks /\ dirty \in BOOLEAN
  BY <1>0 DEF ListTyped
<1>3. o.key \in 0..MaxKeys /\ o.sid \in 0..MaxKeys
  BY <1>0, OpFields DEF OpenOp
<1>4. o.why # "click" => o.key \in Key
  BY <1>0, <1>3, KeyOrZero DEF LaunchAnswered, OpenOp
<1>5. o.key \in Key => list[o.key] \in Task
  BY <1>2 DEF Tasks
<1>6. CASE o.why \in {"queue", "again"} /\ QueueStarted(o) /\ UNCHANGED lost
  <2>1. CASE o.sid = 0
    <3>1. [list EXCEPT ![o.key].status = "crashed"] \in Tasks
      BY <1>2, StatusWritten, SomeStatuses
    <3> QED BY <1>0, <1>1, <1>2, <1>6, <2>1, <3>1
            DEF QueueStarted, Save, LaunchAnswered, ListTyped
  <2>2. CASE o.sid # 0
    <3> DEFINE rivals == {k \in Having(list, {"queued"}) : of[k] = of[o.sid]}
               kept == Without(list, {o.key} \cup rivals)
    <3>1. kept \in Tasks
      BY <1>2, WithoutTyped
    <3>2. [list[o.key] EXCEPT !.status = "running"] \in Task
      BY <1>4, <1>5, <1>6, StatusChanged, SomeStatuses
    <3> HIDE DEF kept
    <3>3. [kept EXCEPT ![o.sid] = [list[o.key] EXCEPT !.status = "running"]] \in Tasks
      BY <3>1, <3>2, TaskWritten
    <3>4. list' = [kept EXCEPT ![o.sid] = [list[o.key] EXCEPT !.status = "running"]]
          /\ dirty' = TRUE
      BY <1>6, <2>2 DEF QueueStarted, Save, kept
    <3> QED BY <1>0, <1>1, <1>6, <3>3, <3>4 DEF LaunchAnswered, ListTyped
  <2> QED BY <2>1, <2>2
<1> DEFINE moved == [list[o.key] EXCEPT !.status = "running", !.ok = FALSE]
           renamed == [Without(list, {o.key}) EXCEPT ![o.sid] = moved]
<1>7. o.key \in Key => renamed \in Tasks
  <2>1. SUFFICES ASSUME o.key \in Key PROVE renamed \in Tasks
    OBVIOUS
  <2>2. moved \in Task
    BY <1>5, <2>1, StatusChanged, SomeStatuses
  <2>3. Without(list, {o.key}) \in Tasks
    BY <1>2, WithoutTyped
  <2> HIDE DEF moved
  <2> QED BY <2>2, <2>3, TaskWritten
<1> HIDE DEF moved
<1>8. CASE o.why \in {"click", "retry", "auto"} /\ Relaunched(o) /\ UNCHANGED lost
  <2>1. [list EXCEPT ![o.key].status = "crashed"] \in Tasks
    BY <1>2, StatusWritten, SomeStatuses
  <2>2. Added(list, o.sid, of[o.sid]) \in Tasks
    <3> DEFINE kept == Without(list, {k \in Having(list, {"queued"}) : of[k] = of[o.sid]})
    <3>1. kept \in Tasks
      BY <1>2, WithoutTyped
    <3> HIDE DEF kept
    <3>2. [kept EXCEPT ![o.sid] = Fresh("running")] \in Tasks
      BY <3>1, TaskWritten, FreshTyped
    <3> QED BY <3>2 DEF Added, kept
  <2>3. /\ dirty' = TRUE
        /\ \/ list' = [list EXCEPT ![o.key].status = "crashed"] \/ list' = list
           \/ o.why # "click" /\ list' = renamed
           \/ list' = Added(list, o.sid, of[o.sid])
    BY <1>8 DEF Relaunched, Save, moved
  <2>4. list' \in Tasks
    BY <1>2, <1>4, <1>7, <2>1, <2>2, <2>3
  <2> QED BY <1>0, <1>1, <1>8, <2>3, <2>4 DEF LaunchAnswered, ListTyped
<1>9. CASE o.why = "stale" /\ Restarted(o)
  <2>1. list' \in Tasks /\ dirty' \in BOOLEAN
    BY <1>2, <1>4, <1>7, <1>9 DEF Restarted, Save, moved
  <2>2. lost' \subseteq Key
    <3>1. {o.sid} \ {0} \subseteq Key /\ lost \subseteq Key
      BY <1>0, <1>3, KeyOrZero DEF ListTyped
    <3> QED BY <1>9, <3>1 DEF Restarted
  <2> QED BY <1>0, <1>1, <2>1, <2>2 DEF LaunchAnswered, ListTyped
<1> QED BY <1>6, <1>8, <1>9 DEF LaunchAnswered

\* A member of the open operations, and what is left without it.
LEMMA OneOpen ==
  ASSUME Typed, NEW o \in ops
  PROVE  /\ o \in OpenOp /\ ops \ {o} \in SUBSET OpenOp
         /\ o.key \in 0..MaxKeys /\ o.sid \in 0..MaxKeys
         /\ o.kind \notin {"launch", "clear", "status", "agent"} => o.key \in Key
         /\ o.busy \in BOOLEAN /\ o.tasks \in Tasks /\ o.gone \subseteq Key
<1>1. o \in OpenOp /\ ops \ {o} \in SUBSET OpenOp
  BY DEF Typed
<1>2. o.key # 0 <=> o.key \in Key
  BY <1>1, OpFields, KeyOrZero DEF OpenOp
<1> QED BY <1>1, <1>2, OpFields DEF OpenOp

\* A new operation about a key.
LEMMA NewOpen ==
  ASSUME NEW kind \in {"kill", "probe", "wait", "confirm"}, NEW why \in Whys,
         NEW k \in Key, NEW busy \in BOOLEAN
  PROVE  /\ [Blank EXCEPT !.kind = kind, !.why = why, !.key = k] \in OpenOp
         /\ [Blank EXCEPT !.kind = kind, !.key = k] \in OpenOp
         /\ [Blank EXCEPT !.kind = kind, !.key = k, !.busy = busy] \in OpenOp
         /\ [Blank EXCEPT !.why = why, !.key = k] \in OpenOp
<1>1. k \in 0..MaxKeys /\ k # 0
  BY BoundsAreNatural DEF Key
<1> QED BY <1>1, BlankTyped DEF Blank, Op, OpenOp, Whys

LEMMA SomeWhys ==
  /\ "auto" \in Whys /\ "remove" \in Whys /\ "retry" \in Whys /\ "stale" \in Whys
  /\ "queue" \in Whys /\ "again" \in Whys /\ "click" \in Whys
BY DEF Whys

LEMMA ProbedTyped ==
  ASSUME Typed, NEW o \in ops, Probed(o)
  PROVE  ListTyped' /\ LaunchTyped'
<1>1. ListTyped /\ LaunchTyped /\ o.key \in Key /\ o.busy \in BOOLEAN
  BY OneOpen, TypesSplit DEF Probed
<1>2. CASE Alive(o.key)
  <2>1. LaunchTyped'
    BY <1>2, OneOpen, NoLaunchKeepsTypes DEF Probed
  <2>2. list' \in Tasks /\ dirty' \in BOOLEAN
    <3>1. [list EXCEPT ![o.key].status = "running"] \in Tasks
      BY <1>1, StatusWritten, SomeStatuses DEF ListTyped
    <3> QED BY <1>1, <1>2, <3>1 DEF Probed, Save, ListTyped
  <2> QED BY <1>1, <2>1, <2>2 DEF Probed, ListTyped
<1>3. CASE ~Alive(o.key)
  <2>1. of[o.key] \in Model \cup {NoModel}
    BY <1>1 DEF LaunchTyped
  <2>2. list' \in Tasks /\ dirty' \in BOOLEAN /\ LaunchTyped'
    BY <1>1, <1>3, <2>1, OneOpen, ProceedKeepsTypes DEF Probed
  <2> QED BY <1>1, <2>2 DEF Probed, ListTyped
<1> QED BY <1>2, <1>3

LEMMA ConfirmedTyped ==
  ASSUME Typed, NEW o \in ops, Confirmed(o)
  PROVE  ListTyped' /\ LaunchTyped'
<1>1. ListTyped /\ list \in Tasks
  BY TypesSplit DEF ListTyped
<1>2. CASE NoLaunch(ops \ {o})
           /\ \/ UNCHANGED <<list, dirty>>
              \/ Save([list EXCEPT ![o.key].status = "running"])
  <2>1. LaunchTyped'
    BY <1>2, OneOpen, NoLaunchKeepsTypes
  <2>2. list' \in Tasks /\ dirty' \in BOOLEAN
    <3>1. [list EXCEPT ![o.key].status = "running"] \in Tasks
      BY <1>1, StatusWritten, SomeStatuses
    <3> QED BY <1>1, <1>2, <3>1 DEF Save, ListTyped
  <2> QED BY <1>1, <2>1, <2>2 DEF Confirmed, ListTyped
<1>3. CASE /\ ProcessQueue([list EXCEPT ![o.key].status = "done"], ops \ {o})
           /\ dirty' = TRUE
  <2>1. [list EXCEPT ![o.key].status = "done"] \in Tasks
    BY <1>1, StatusWritten, SomeStatuses
  <2>2. list' \in Tasks /\ LaunchTyped'
    BY <1>3, <2>1, OneOpen, QueueKeepsTypes
  <2> QED BY <1>1, <1>3, <2>2 DEF Confirmed, ListTyped
<1> QED BY <1>2, <1>3 DEF Confirmed

LEMMA KilledTyped ==
  ASSUME Typed, NEW o \in ops, Killed(o)
  PROVE  ListTyped' /\ LaunchTyped'
<1> DEFINE rest == ops \ {o}
           dead == IF Alive(o.key) THEN [session EXCEPT ![o.key] = "dead"] ELSE session
<1>1. ListTyped /\ LaunchTyped /\ list \in Tasks /\ o.key \in Key /\ rest \in SUBSET OpenOp
  BY OneOpen, TypesSplit DEF Killed, ListTyped
<1>2. dead \in [Key -> Statuses]
  BY <1>1 DEF LaunchTyped, Statuses
<1>3. list' \in Tasks /\ dirty' \in BOOLEAN
  <2>1. /\ [list EXCEPT ![o.key].status = "running"] \in Tasks
        /\ Without(list, {o.key}) \in Tasks
    BY <1>1, WithoutTyped, StatusWritten, SomeStatuses
  <2> QED BY <1>1, <2>1 DEF Killed, Save, ListTyped
<1>4. tomb' \subseteq Key /\ lost' \subseteq Key
  BY <1>1 DEF Killed, ListTyped
<1>5. LaunchTyped'
  <2>1. CASE o.why \in {"retry", "stale"}
             /\ LaunchFrom(o.why, of[o.key], o.key, rest, dead)
    <3>1. o.why \in Whys /\ of[o.key] \in Model \cup {NoModel}
          /\ o.key \in 0..MaxKeys /\ o.key # 0
      BY <1>1, <2>1, SomeWhys, OneOpen, KeyOrZero DEF LaunchTyped
    <3> HIDE DEF rest, dead
    <3> QED BY <1>1, <1>2, <2>1, <3>1, LaunchKeepsTypes
  <2>2. CASE /\ ops' = rest \cup (IF o.why = "remove" THEN {}
                               ELSE {[Blank EXCEPT !.why = "auto", !.key = o.key]})
             /\ (session' = dead \/ session' = session)
             /\ UNCHANGED <<of, next, started>>
             /\ (faults' = faults \/ Fault)
    <3>1. [Blank EXCEPT !.why = "auto", !.key = o.key] \in OpenOp
      BY <1>1, NewOpen, SomeWhys
    <3>2. ops' \subseteq OpenOp
      BY <1>1, <2>2, <3>1
    <3>3. faults' \in 0..MaxSteps
      BY <1>1, <2>2, FaultCounted DEF LaunchTyped
    <3>4. session' \in [Key -> Statuses]
      BY <1>1, <1>2, <2>2 DEF LaunchTyped
    <3> QED BY <1>1, <2>2, <3>2, <3>3, <3>4 DEF LaunchTyped
  <2> QED BY <2>1, <2>2 DEF Killed
<1> QED BY <1>1, <1>3, <1>4, <1>5 DEF Killed, ListTyped

LEMMA RelaunchTyped ==
  ASSUME Typed, NEW o \in ops, Relaunch(o)
  PROVE  ListTyped' /\ LaunchTyped'
<1>1. ListTyped /\ LaunchTyped /\ o.key \in Key /\ o.key \in 0..MaxKeys /\ o.key # 0
  BY OneOpen, TypesSplit, KeyOrZero DEF Relaunch
<1>2. of[o.key] \in Model \cup {NoModel} /\ session \in [Key -> Statuses]
  BY <1>1 DEF LaunchTyped
<1>3. LaunchTyped'
  BY <1>1, <1>2, OneOpen, SomeWhys, LaunchKeepsTypes DEF Relaunch, Launch
<1> QED BY <1>1, <1>3 DEF Relaunch, ListTyped

\* The page's list and the server's file as they are merged and stored.
LEMMA MergedTyped ==
  ASSUME Typed, NEW tasks \in Tasks, NEW removed
  PROVE  Merged(tasks, removed) \in Tasks
BY DEF Merged, Tasks, Typed, TypeOK

LEMMA StoredTyped ==
  ASSUME Typed, NEW tasks \in Tasks, NEW removed \in SUBSET Key
  PROVE  Stored(tasks, removed) \in [tasks : Tasks, removed : SUBSET Key]
<1>1. disk.tasks \in Tasks /\ disk.removed \subseteq Key
  BY DEF Typed, TypeOK, Tasks
<1> QED BY <1>1, FreshTyped DEF Stored, Tasks

LEMMA AnswerTyped ==
  ASSUME Typed, NEW o \in ops, Answer(o)
  PROVE  ListTyped' /\ LaunchTyped'
<1>0. ListTyped /\ LaunchTyped
  BY TypesSplit
<1>1. CASE KillRefused(o)
  <2>1. faults' \in 0..MaxSteps
    BY <1>1, FaultCounted DEF KillRefused
  <2> QED BY <1>0, <1>1, <2>1, OneOpen DEF KillRefused, host, ListTyped, LaunchTyped
<1>2. CASE ClearConfirmed(o)
  <2>1. LaunchTyped'
    BY <1>2, OneOpen, OpsTyped DEF ClearConfirmed
  <2>2. o.tasks \in Tasks /\ o.gone \subseteq Key
    BY OneOpen
  <2> QED BY <1>0, <1>2, <2>1, <2>2 DEF ClearConfirmed, Save, Shown, ListTyped
<1>3. CASE ClearDismissed(o)
  <2>1. LaunchTyped'
    BY <1>3, OneOpen, OpsTyped DEF ClearDismissed
  <2> QED BY <1>0, <1>3, <2>1 DEF ClearDismissed, ListTyped
<1>4. CASE PollAnswered(o)
  <2>1. LaunchTyped'
    BY <1>4, OneOpen, OpsTyped DEF PollAnswered
  <2> DEFINE base == [k \in Key |->
                 IF list[k].status = "absent" /\ o.seen[k] # "" /\ k \notin tomb
                   THEN Fresh("running") ELSE list[k]]
             tasks == [k \in Key |-> Reconciled(base[k], o.seen[k])]
  <2>2. base \in Tasks
    BY <1>0, FreshTyped DEF ListTyped, Tasks
  <2>3. \A t \in Task, seen \in {o.seen[k] : k \in Key} : Reconciled(t, seen) \in Task
    BY DEF Reconciled, Task, Ended
  <2> HIDE DEF base
  <2>4. tasks \in Tasks
    BY <2>2, <2>3 DEF Tasks
  <2>5. list' \in Tasks /\ dirty' \in BOOLEAN /\ reissued' \subseteq Key
    BY <1>0, <1>4, <2>4 DEF PollAnswered, Save, Returned, ListTyped, base
  <2> QED BY <1>0, <1>4, <2>1, <2>5 DEF PollAnswered, ListTyped
<1>5. CASE AgentRegisters(o)
  <2>1. LaunchTyped'
    BY <1>5, OneOpen, OpsTyped DEF AgentRegisters
  <2>2. disk' \in [tasks : Tasks, removed : SUBSET Key]
    BY <1>5, OneOpen, StoredTyped DEF AgentRegisters
  <2>3. lost' \subseteq Key
    BY <1>0, <1>5 DEF AgentRegisters, Forgotten, Shown, ListTyped
  <2> QED BY <1>0, <1>5, <2>1, <2>2, <2>3 DEF AgentRegisters, ListTyped
<1> QED BY <1>1, <1>2, <1>3, <1>4, <1>5, AnsweredTyped, ProbedTyped, ConfirmedTyped,
           KilledTyped, RelaunchTyped DEF Answer

LEMMA WatcherTyped ==
  ASSUME Typed, NEW k \in Key, Watcher(k)
  PROVE  ListTyped' /\ LaunchTyped'
<1>0. ListTyped /\ LaunchTyped /\ list \in Tasks /\ ops \in SUBSET OpenOp
  BY TypesSplit DEF ListTyped, LaunchTyped
<1>1. \A s \in AllStatuses : [list EXCEPT ![k].status = s] \in Tasks
  BY <1>0, StatusWritten
<1>2. CASE SeesDone(k)
  <2>1. list' \in Tasks /\ LaunchTyped'
    BY <1>0, <1>1, <1>2, SomeStatuses, QueueKeepsTypes DEF SeesDone
  <2>2. retries' \in [Model -> 0..MaxAutoRetry]
    <3>1. 0 \in 0..MaxAutoRetry /\ retries \in [Model -> 0..MaxAutoRetry]
          /\ retries' = [retries EXCEPT ![of[k]] = 0]
      BY <1>0, <1>2, BoundsAreNatural DEF SeesDone, ListTyped
    <3> QED BY <3>1
  <2> QED BY <1>0, <1>2, <2>1, <2>2 DEF SeesDone, ListTyped
<1>3. CASE SeesFailed(k)
  <2>1. [Blank EXCEPT !.kind = "kill", !.why = "auto", !.key = k] \in OpenOp
    BY NewOpen, SomeWhys
  <2>2. ops' \subseteq OpenOp
    BY <1>0, <1>3, <2>1 DEF SeesFailed
  <2>3. LaunchTyped'
    BY <1>3, <2>2, OpsTyped DEF SeesFailed
  <2>4. list' \in Tasks /\ dirty' \in BOOLEAN
    BY <1>0, <1>1, <1>3, SomeStatuses DEF SeesFailed, Save, ListTyped
  <2>5. retries' \in [Model -> 0..MaxAutoRetry]
    <3>1. CASE of[k] \in Model /\ MayRetry(k) /\ retries' = [retries EXCEPT ![of[k]] = @ + 1]
      <4>1. retries[of[k]] + 1 \in 0..MaxAutoRetry
        BY <1>0, <3>1, BoundsAreNatural DEF MayRetry, ListTyped
      <4> QED BY <1>0, <3>1, <4>1 DEF ListTyped
    <3>2. CASE of[k] \notin Model /\ retries' = [retries EXCEPT ![of[k]] = @ + 1]
      BY <1>0, <3>2 DEF ListTyped
    <3> QED BY <1>0, <1>3, <3>1, <3>2 DEF SeesFailed, ListTyped
  <2> QED BY <1>0, <1>3, <2>3, <2>4, <2>5 DEF SeesFailed, ListTyped
<1>4. CASE SeesGone(k)
  <2> DEFINE confirm == [Blank EXCEPT !.kind = "confirm", !.key = k]
  <2>1. ops \cup {confirm} \in SUBSET OpenOp
    BY <1>0, NewOpen, SomeWhys
  <2> HIDE DEF confirm
  <2>2. \/ ProcessQueue(list, ops \cup {confirm})
        \/ ProcessQueue([list EXCEPT ![k].status = "done"], ops)
        \/ ProcessQueue([list EXCEPT ![k].status = "crashed"], ops)
    BY <1>4 DEF SeesGone, confirm
  <2>3. list' \in Tasks /\ LaunchTyped'
    BY <1>0, <1>1, <2>1, <2>2, SomeStatuses, QueueKeepsTypes
  <2> QED BY <1>0, <1>4, <2>3 DEF SeesGone, ListTyped
<1>5. CASE SeesStall(k)
  <2>1. [Blank EXCEPT !.kind = "kill", !.why = "stale", !.key = k] \in OpenOp
    BY NewOpen, SomeWhys
  <2>2. faults' \in 0..MaxSteps
    BY <1>5, FaultCounted DEF SeesStall
  <2>3. ops' \subseteq OpenOp
    BY <1>0, <1>5, <2>1 DEF SeesStall
  <2> QED BY <1>0, <1>5, <2>2, <2>3 DEF SeesStall, host, LaunchTyped, ListTyped
<1>6. CASE SelfHeal(k)
  <2>1. list' \in Tasks /\ dirty' \in BOOLEAN
    BY <1>1, <1>6, SomeStatuses DEF SelfHeal, Save
  <2> QED BY <1>0, <1>6, <2>1 DEF SelfHeal, host, LaunchTyped, ListTyped
<1> QED BY <1>2, <1>3, <1>4, <1>5, <1>6 DEF Watcher

LEMMA HostTyped ==
  ASSUME Typed, \/ \E k \in Key : Ends(k) \/ HostLoses(k)
                \/ Push \/ Reload
  PROVE  ListTyped' /\ LaunchTyped'
<1>0. ListTyped /\ LaunchTyped
  BY TypesSplit
<1>1. ASSUME NEW k \in Key, Ends(k)
      PROVE  ListTyped' /\ LaunchTyped'
  BY <1>0, <1>1 DEF Ends, client, ListTyped, LaunchTyped, Statuses
<1>2. ASSUME NEW k \in Key, HostLoses(k)
      PROVE  ListTyped' /\ LaunchTyped'
  <2>1. faults' \in 0..MaxSteps
    BY <1>2, FaultCounted DEF HostLoses
  <2> QED BY <1>0, <1>2, <2>1 DEF HostLoses, client, ListTyped, LaunchTyped, Statuses
<1>3. CASE Push
  <2>1. disk' \in [tasks : Tasks, removed : SUBSET Key]
    BY <1>0, <1>3, StoredTyped DEF Push, ListTyped
  <2>2. lost' \subseteq Key
    BY <1>0, <1>3 DEF Push, Forgotten, Shown, ListTyped
  <2> QED BY <1>0, <1>3, <2>1, <2>2 DEF Push, host, ListTyped, LaunchTyped
<1>4. CASE Reload
  <2>1. faults' \in 0..MaxSteps
    BY <1>4, FaultCounted DEF Reload
  <2>2. lost' \subseteq Key
    <3>1. \A o \in ops : o.sid # 0 => o.sid \in Key
      BY OneOpen, KeyOrZero
    <3> QED BY <1>0, <1>4, <3>1 DEF Reload, ListTyped
  <2>3. retries' \in [Model -> 0..MaxAutoRetry]
    BY <1>4, BoundsAreNatural DEF Reload
  <2> QED BY <1>0, <1>4, <2>1, <2>2, <2>3 DEF Reload, host, ListTyped, LaunchTyped
<1> QED BY <1>1, <1>2, <1>3, <1>4

\* A look at the list that waits for an answer.
LEMMA LookOpen ==
  ASSUME NEW gone \in SUBSET Key, NEW tasks \in Tasks,
         NEW seen \in [Key -> {"", "running", "completed", "stopped"}],
         NEW sid \in 0..MaxKeys
  PROVE  /\ [Blank EXCEPT !.kind = "clear", !.gone = gone, !.tasks = tasks] \in OpenOp
         /\ [Blank EXCEPT !.kind = "status", !.seen = seen] \in OpenOp
         /\ [Blank EXCEPT !.kind = "agent", !.sid = sid, !.tasks = tasks] \in OpenOp
BY BlankTyped DEF Blank, Op, OpenOp, Tasks

LEMMA DownloadTyped ==
  ASSUME Typed, NEW m \in Model, Download(m)
  PROVE  ListTyped' /\ LaunchTyped'
<1>0. ListTyped /\ ops \in SUBSET OpenOp /\ m \in Model \cup {NoModel}
  BY TypesSplit DEF LaunchTyped
<1> DEFINE mine == {k \in Key : of[k] = m}
           busy == Having(list, {"running", "queued"}) # {}
           zombies == {k \in mine \cap Having(list, Ended) : ~IsTicket(k)}
           probe(z) == [Blank EXCEPT !.kind = "probe", !.key = z, !.busy = busy]
<1>1. CASE Proceed(m, busy, ops)
  <2>1. list' \in Tasks /\ dirty' \in BOOLEAN /\ LaunchTyped'
    BY <1>0, <1>1, ProceedKeepsTypes
  <2> QED BY <1>0, <2>1 DEF Download, ListTyped
<1>2. CASE (\E z \in zombies : NoLaunch(ops \cup {probe(z)})) /\ UNCHANGED <<list, dirty>>
  <2>1. PICK z \in zombies : NoLaunch(ops \cup {probe(z)})
    BY <1>2
  <2>2. probe(z) \in OpenOp
    BY NewOpen, SomeWhys
  <2> HIDE DEF probe
  <2>3. LaunchTyped'
    BY <1>0, <2>1, <2>2, NoLaunchKeepsTypes
  <2> QED BY <1>0, <1>2, <2>3 DEF Download, ListTyped
<1> QED BY <1>1, <1>2 DEF Download

\* What a poll is told about a task.
LEMMA StatusTold ==
  ASSUME NEW k, NEW blind
  PROVE  LiveStatus(k, blind) \in {"", "running", "completed", "stopped"}
<1> DEFINE told == [live |-> "running", ok |-> "completed", failed |-> "stopped"]
<1>1. Alive(k) => told[session[k]] \in {"running", "completed", "stopped"}
  <2>1. told["live"] = "running" /\ told["ok"] = "completed" /\ told["failed"] = "stopped"
    OBVIOUS
  <2> HIDE DEF told
  <2> QED BY <2>1 DEF Alive
<1> QED BY <1>1 DEF LiveStatus

LEMMA BeginTyped ==
  ASSUME Typed, Begins
  PROVE  ListTyped' /\ LaunchTyped'
<1>0. ListTyped /\ LaunchTyped /\ list \in Tasks /\ disk.tasks \in Tasks
  BY TypesSplit DEF ListTyped
<1>1. CASE AMinutePasses
  <2>1. old' \subseteq Key
    BY <1>0, <1>1, BoundsAreNatural DEF AMinutePasses, LaunchTyped, Key
  <2> QED BY <1>0, <1>1, <2>1 DEF AMinutePasses, client, host, ListTyped, LaunchTyped
<1>2. CASE ClearAsked
  <2>1. [Blank EXCEPT !.kind = "clear", !.gone = Having(list, Ended),
                      !.tasks = Without(list, Having(list, Ended))] \in OpenOp
    <3>1. Having(list, Ended) \in SUBSET Key
      BY DEF Having
    <3>2. Without(list, Having(list, Ended)) \in Tasks
      BY <1>0, WithoutTyped
    <3>3. [k \in Key |-> ""] \in [Key -> {"", "running", "completed", "stopped"}]
      OBVIOUS
    <3>4. 0 \in 0..MaxKeys
      BY BoundsAreNatural
    <3> QED BY <3>1, <3>2, <3>3, <3>4, LookOpen
  <2>2. ops' \subseteq OpenOp
    BY <1>0, <1>2, <2>1 DEF ClearAsked, LaunchTyped
  <2>3. LaunchTyped'
    BY <1>2, <2>2, OpsTyped DEF ClearAsked
  <2> QED BY <1>0, <1>2, <2>3 DEF ClearAsked, ListTyped
<1>3. CASE Pull
  <2>1. list' \in Tasks /\ tomb' \subseteq Key
    <3>1. Merged(list, tomb \cup disk.removed) \in Tasks
      BY <1>0, MergedTyped
    <3>2. Without(Merged(list, tomb \cup disk.removed), tomb \cup disk.removed) \in Tasks
      BY <3>1, WithoutTyped
    <3> QED BY <1>0, <1>3, <3>2 DEF Pull, ListTyped
  <2>2. reissued' \subseteq Key
    BY <1>0, <1>3 DEF Pull, Returned, ListTyped
  <2>3. LaunchTyped'
    BY <1>0, <1>3 DEF Pull, host, LaunchTyped
  <2> QED BY <1>0, <1>3, <2>1, <2>2, <2>3 DEF Pull, ListTyped
<1>4. CASE PollAsks
  <2>1. list' \in Tasks
    BY <1>0, <1>4, MergedTyped DEF PollAsks
  <2>2. reissued' \subseteq Key
    BY <1>0, <1>4 DEF PollAsks, Returned, ListTyped
  <2>3. PICK blind \in {{}} \cup {{k} : k \in {j \in Key : session[j] = "live"}} :
          /\ IF blind = {} THEN UNCHANGED faults ELSE Fault
          /\ ops' = ops \cup {[Blank EXCEPT !.kind = "status",
                                 !.seen = [k \in Key |-> LiveStatus(k, blind)]]}
    BY <1>4 DEF PollAsks
  <2>4. faults' \in 0..MaxSteps
    BY <1>0, <2>3, FaultCounted DEF LaunchTyped
  <2>5. [k \in Key |-> LiveStatus(k, blind)]
          \in [Key -> {"", "running", "completed", "stopped"}]
    BY StatusTold
  <2>6. [Blank EXCEPT !.kind = "status", !.seen = [k \in Key |-> LiveStatus(k, blind)]]
          \in OpenOp
    <3>1. {} \in SUBSET Key /\ 0 \in 0..MaxKeys
      BY BoundsAreNatural
    <3> QED BY <1>0, <2>5, <3>1, LookOpen
  <2>7. ops' \subseteq OpenOp
    BY <1>0, <2>3, <2>6 DEF LaunchTyped
  <2>8. LaunchTyped'
    BY <1>0, <1>4, <2>4, <2>7 DEF PollAsks, host, LaunchTyped
  <2> QED BY <1>0, <1>4, <2>1, <2>2, <2>8 DEF PollAsks, ListTyped
<1>5. ASSUME NEW m \in Model, AgentLaunches(m)
      PROVE  ListTyped' /\ LaunchTyped'
  <2>1. next \in Key /\ next + 1 \in 1..(MaxKeys + 1) /\ next \in 0..MaxKeys
    BY <1>5, NextKey DEF AgentLaunches
  <2> DEFINE tasks == [disk.tasks EXCEPT ![next] = Fresh("running")]
  <2>2. tasks \in Tasks
    BY <1>0, TaskWritten, FreshTyped
  <2> HIDE DEF tasks
  <2>3. [Blank EXCEPT !.kind = "agent", !.sid = next, !.tasks = tasks] \in OpenOp
    <3>1. {} \in SUBSET Key
             /\ [k \in Key |-> ""] \in [Key -> {"", "running", "completed", "stopped"}]
      OBVIOUS
    <3> QED BY <2>1, <2>2, <3>1, LookOpen
  <2>4. ops' \subseteq OpenOp
    BY <1>0, <1>5, <2>3 DEF AgentLaunches, LaunchTyped, tasks
  <2>5. session' \in [Key -> Statuses] /\ of' \in [Key -> Model \cup {NoModel}]
    BY <1>0, <1>5, <2>1 DEF AgentLaunches, LaunchTyped, Statuses
  <2>6. LaunchTyped'
    BY <1>0, <1>5, <2>1, <2>4, <2>5 DEF AgentLaunches, LaunchTyped
  <2> QED BY <1>0, <1>5, <2>6 DEF AgentLaunches, ListTyped
<1>6. ASSUME NEW k \in Key, StartNow(k)
      PROVE  ListTyped' /\ LaunchTyped'
  <2>1. k \in 0..MaxKeys /\ k # 0 /\ of[k] \in Model \cup {NoModel}
        /\ session \in [Key -> Statuses] /\ ops \in SUBSET OpenOp
    BY <1>0, BoundsAreNatural DEF Key, LaunchTyped
  <2>2. LaunchTyped'
    BY <1>6, <2>1, SomeWhys, LaunchKeepsTypes DEF StartNow, Launch
  <2>3. list' \in Tasks /\ dirty' \in BOOLEAN
    <3>1. Flipped(list, k) \in Tasks
      BY <1>0, StatusWritten, SomeStatuses DEF Flipped
    <3> QED BY <1>0, <1>6, <3>1 DEF StartNow, Save, ListTyped
  <2> QED BY <1>0, <1>6, <2>2, <2>3 DEF StartNow, ListTyped
<1>7. ASSUME NEW k \in Key, Remove(k) \/ Restart(k)
      PROVE  ListTyped' /\ LaunchTyped'
  <2>1. /\ [Blank EXCEPT !.kind = "kill", !.why = "remove", !.key = k] \in OpenOp
        /\ [Blank EXCEPT !.kind = "kill", !.why = "retry", !.key = k] \in OpenOp
    BY NewOpen, SomeWhys
  <2>2. ops' \subseteq OpenOp
    BY <1>0, <1>7, <2>1 DEF Remove, Restart, LaunchTyped
  <2> QED BY <1>0, <1>7, <2>2 DEF Remove, Restart, host, ListTyped, LaunchTyped
<1> QED BY <1>1, <1>2, <1>3, <1>4, <1>5, <1>6, <1>7, DownloadTyped DEF Begins

LEMMA StepTyped == ASSUME Typed, [Next]_vars PROVE Typed'
<1>1. CASE Begins /\ CanBegin /\ clicks' = clicks + 1
  <2>1. clicks' \in 0..MaxSteps
    <3> DEFINE c == clicks  f == faults
    <3>1. c \in Nat /\ f \in Nat /\ c + f < MaxSteps /\ clicks' = c + 1 /\ MaxSteps \in Nat
      BY <1>1, BoundsAreNatural DEF CanBegin, Typed, TypeOK
    <3> QED BY <3>1
  <2> QED BY <1>1, <2>1, BeginTyped, TypesSplit DEF ListTyped, LaunchTyped, Typed, TypeOK,
             Tasks, Statuses, OpenOp
<1>2. CASE Reacts /\ UNCHANGED clicks
  <2>1. ListTyped' /\ LaunchTyped'
    BY <1>2, WatcherTyped, HostTyped, AnswerTyped DEF Reacts
  <2> QED BY <1>2, <2>1, TypesSplit DEF ListTyped, LaunchTyped, Typed, TypeOK,
             Tasks, Statuses, OpenOp
<1>3. CASE UNCHANGED vars
  BY <1>3 DEF vars, Typed, TypeOK
<1> QED BY <1>1, <1>2, <1>3 DEF Next

\* Type correctness (TypeOK) of the task lists, the file, the sessions and
\* every open request of the Cookbook's downloads.
THEOREM DownloadsTyped == Spec => []TypeOK
<1>1. Init => Typed
  BY InitTyped
<1>2. Typed /\ [Next]_vars => Typed'
  BY StepTyped
<1>3. Typed => TypeOK
  BY DEF Typed
<1> QED BY <1>1, <1>2, <1>3, PTL DEF Spec

-----------------------------------------------------------------------------
(* The invariant.                                                           *)

Listed(k) == list[k].status # "absent"
Filed(k) == disk.tasks[k].status # "absent"

\* An open operation has the key in its snapshot, or is about it; sid apart.
Mentions(o, k) ==
  o.key = k \/ k \in o.gone \/ o.tasks[k].status # "absent" \/ o.seen[k] # ""

\* Neither the page nor the file has seen the key.
Unheard(k) ==
  /\ ~Listed(k) /\ ~Filed(k) /\ k \notin tomb /\ k \notin disk.removed
  /\ \A o \in ops : ~Mentions(o, k)

\* Keys not handed out are unknown everywhere, and so are the keys in the
\* answers to launches that are still under way, each of which is another.
FreshKeys ==
  \A k \in Key : k >= next =>
    session[k] = "none" /\ started[k] = 0 /\ Unheard(k) /\ \A o \in ops : o.sid # k
PendingKeys ==
  \A o \in ops : o.kind = "launch" /\ o.sid # 0 =>
    /\ Unheard(o.sid) /\ session[o.sid] # "none"
    /\ \A p \in ops : p # o => p.sid # o.sid

\* Only tickets wait; a waiting ticket was not started unless it came back.
ListTickets ==
  \A k \in Key : list[k].status = "queued" =>
    IsTicket(k) /\ (k \in reissued \/ started[k] = 0)
\* A listed ticket that was started says so, unless it came back.
LaunchMarks ==
  \A k \in Key : Listed(k) /\ IsTicket(k) =>
    k \in reissued \/ started[k] = 0 \/ list[k].launched
CopiesTickets ==
  \A k \in Key : \/ disk.tasks[k].status = "queued"
                 \/ \E o \in ops : o.tasks[k].status = "queued"
    => IsTicket(k)

\* What an open operation knows about its keys.
Sound(o) ==
  /\ o.sid # 0 => o.kind \in {"launch", "agent"}
  /\ o.kind = "launch" /\ o.why \in {"queue", "again"} => IsTicket(o.key)
  /\ o.kind = "launch" /\ o.why \in {"retry", "stale"} => session[o.key] # "live"
  /\ o.kind = "clear" => o.gone \cap Shown(o.tasks) = {}
  /\ o.kind = "agent" => o.sid # 0 /\ o.tasks[o.sid].status # "absent"
SoundOps == \A o \in ops : Sound(o)

\* A running download that is not lost has not been removed, is listed when an
\* operation is about it, and is listed, on file or named in an answer.
LiveKeys ==
  \A k \in Key : session[k] = "live" /\ k \notin lost =>
    /\ k \notin tomb /\ k \notin disk.removed
    /\ \A o \in ops : k = o.key \/ k \in o.gone => Listed(k)
    /\ Listed(k) \/ Filed(k) \/ \E o \in ops : o.sid = k

KeyInv ==
  /\ Typed /\ FreshKeys /\ PendingKeys /\ ListTickets /\ CopiesTickets /\ SoundOps
  /\ LaunchMarks /\ TicketOnce /\ RemovedStays /\ LiveKeys

-----------------------------------------------------------------------------
(* Sessions.                                                                *)

\* Keys are handed out in order, a ticket never gets a session, nobody else
\* loses all trace of one, and only a new key gets a live one.
HostStep ==
  /\ next <= next'
  /\ \A k \in Key : session[k] # "none" => session'[k] # "none"
  /\ \A k \in Key : session[k] = "none" /\ (k < next \/ k >= next') => session'[k] = "none"
  /\ \A k \in Key : session'[k] = "live" =>
       session[k] = "live" \/ (k = next /\ next' = next + 1)

\* Sessions may only be killed before a launch.
Kills(sess) ==
  \A k \in Key : sess[k] = session[k] \/ (Alive(k) /\ sess[k] = "dead")

LEMMA LaunchHost ==
  ASSUME Typed, NEW why \in Whys, NEW m, NEW key \in 0..MaxKeys, NEW rest,
         NEW sess \in [Key -> Statuses], Kills(sess),
         LaunchFrom(why, m, key, rest, sess)
  PROVE  HostStep
<1>1. next \in Nat
  BY BoundsAreNatural DEF Typed, TypeOK
<1>2. CASE Succeeds(why, m, key, rest, sess)
  <2>1. next' = next + 1 /\ session' = [sess EXCEPT ![next] = "live"]
    BY <1>2 DEF Succeeds
  <2> QED BY <1>1, <2>1 DEF HostStep, Kills, Alive, Key
<1>3. CASE Fails(why, key, rest, sess)
  <2>1. next' = next /\ session' = sess
    BY <1>3 DEF Fails
  <2> QED BY <1>1, <2>1 DEF HostStep, Kills, Alive, Key
<1> QED BY <1>2, <1>3, LaunchCases

LEMMA SessionsSame ==
  ASSUME Typed, UNCHANGED <<session, next>>
  PROVE  HostStep
BY BoundsAreNatural DEF HostStep, Typed, TypeOK

LEMMA NothingKilled == Kills(session)
BY DEF Kills

LEMMA QueueHost ==
  ASSUME Typed, NEW tasks, NEW rest, ProcessQueue(tasks, rest)
  PROVE  HostStep
<1>1. CASE NoLaunch(rest)
  BY <1>1, SessionsSame DEF NoLaunch, host
<1>2. CASE \E k \in Key : Launch("queue", of[k], k, rest)
  <2>1. PICK k \in Key : Launch("queue", of[k], k, rest)
    BY <1>2
  <2>2. k \in 0..MaxKeys /\ session \in [Key -> Statuses]
    BY BoundsAreNatural DEF Key, Typed, TypeOK, Statuses
  <2> QED BY <2>1, <2>2, SomeWhys, NothingKilled, LaunchHost DEF Launch
<1> QED BY <1>1, <1>2 DEF ProcessQueue, Having

LEMMA ProceedHost ==
  ASSUME Typed, NEW m, NEW busy, NEW rest, Proceed(m, busy, rest)
  PROVE  HostStep
<1>1. CASE busy
  <2>1. next \in Nat /\ next' = next + 1 /\ session' = session
    BY <1>1, BoundsAreNatural DEF Proceed, Typed, TypeOK
  <2> QED BY <2>1 DEF HostStep, Key
<1>2. CASE ~busy
  <2>1. 0 \in 0..MaxKeys /\ session \in [Key -> Statuses]
    BY BoundsAreNatural DEF Typed, TypeOK, Statuses
  <2> QED BY <1>2, <2>1, SomeWhys, NothingKilled, LaunchHost DEF Proceed, Launch
<1> QED BY <1>1, <1>2

LEMMA StepHost == ASSUME Typed, [Next]_vars PROVE HostStep
<1>0. session \in [Key -> Statuses] /\ next \in Nat
  BY BoundsAreNatural DEF Typed, TypeOK, Statuses
<1>1. CASE UNCHANGED <<session, next>>
  BY <1>1, SessionsSame
<1>2. ASSUME NEW o \in ops, Answer(o)
      PROVE  HostStep
  <2>0. o.key \in 0..MaxKeys
    BY OneOpen
  <2>1. CASE Probed(o)
    BY <2>1, ProceedHost, SessionsSame DEF Probed, NoLaunch, host
  <2>2. CASE Confirmed(o)
    BY <2>2, QueueHost, SessionsSame DEF Confirmed, NoLaunch, host
  <2>3. CASE Killed(o)
    <3> DEFINE dead == IF Alive(o.key) THEN [session EXCEPT ![o.key] = "dead"] ELSE session
    <3>1. Kills(dead) /\ dead \in [Key -> Statuses]
      BY <1>0, <2>0 DEF Kills, Statuses
    <3>2. \/ UNCHANGED next /\ (session' = dead \/ session' = session)
          \/ /\ o.why \in {"retry", "stale"}
             /\ LaunchFrom(o.why, of[o.key], o.key, ops \ {o}, dead)
      BY <2>3 DEF Killed
    <3> HIDE DEF dead
    <3>3. CASE UNCHANGED next /\ (session' = dead \/ session' = session)
      BY <1>0, <3>1, <3>3 DEF Kills, Alive, HostStep
    <3> QED BY <2>0, <3>1, <3>2, <3>3, SomeWhys, LaunchHost
  <2>4. CASE Relaunch(o)
    BY <1>0, <2>0, <2>4, SomeWhys, NothingKilled, LaunchHost DEF Relaunch, Launch
  <2> QED BY <1>2, <2>1, <2>2, <2>3, <2>4, SessionsSame
          DEF Answer, LaunchAnswered, KillRefused, ClearConfirmed, ClearDismissed,
              PollAnswered, AgentRegisters, host
<1>3. ASSUME NEW k \in Key, Watcher(k) \/ Ends(k) \/ HostLoses(k)
      PROVE  HostStep
  <2>1. CASE Ends(k) \/ HostLoses(k)
    BY <1>0, <2>1 DEF Ends, HostLoses, Alive, HostStep
  <2> QED BY <1>3, <2>1, QueueHost, SessionsSame
          DEF Watcher, SeesDone, SeesFailed, SeesGone, SeesStall, SelfHeal, host
<1>4. CASE Begins
  <2>1. ASSUME NEW m \in Model, Download(m)
        PROVE  HostStep
    BY <2>1, ProceedHost, SessionsSame DEF Download, NoLaunch, host
  <2>2. ASSUME NEW m \in Model, AgentLaunches(m)
        PROVE  HostStep
    BY <1>0, <2>2 DEF AgentLaunches, HostStep, Key
  <2>3. ASSUME NEW k \in Key, StartNow(k)
        PROVE  HostStep
    <3>1. k \in 0..MaxKeys
      BY BoundsAreNatural DEF Key
    <3> QED BY <1>0, <2>3, <3>1, SomeWhys, NothingKilled, LaunchHost DEF StartNow, Launch
  <2> QED BY <1>4, <2>1, <2>2, <2>3, SessionsSame
          DEF Begins, AMinutePasses, ClearAsked, Pull, PollAsks, Remove, Restart, host
<1>5. CASE Push \/ Reload
  BY <1>5, SessionsSame DEF Push, Reload, host
<1>6. CASE UNCHANGED vars
  BY <1>6, SessionsSame DEF vars
<1> QED BY <1>2, <1>3, <1>4, <1>5, <1>6 DEF Next, Reacts

\* Tickets stay tickets.
LEMMA TicketsStay ==
  ASSUME Typed, Typed', HostStep, NEW k \in Key, IsTicket(k)
  PROVE  IsTicket(k)'
<1>1. next \in Nat /\ next' \in Nat /\ k \in Nat /\ k < next /\ session[k] = "none"
  BY BoundsAreNatural DEF Typed, TypeOK, IsTicket, Key
<1>2. next <= next' /\ session'[k] = "none"
  BY <1>1 DEF HostStep
<1> QED BY <1>1, <1>2 DEF IsTicket

-----------------------------------------------------------------------------
(* What a step does to the list, to the open operations and to the file.    *)

Lives(k) == session[k] = "live" /\ k \notin lost

\* A key joins the list if it was heard of, is a new ticket, or is in an
\* answer; what joins waits only as a ticket and was not removed.
ListStep ==
  /\ \A k \in Key : Listed(k)' =>
       \/ ~Unheard(k)
       \/ k = next /\ next' = next + 1 /\ ops' \subseteq ops
       \/ \E o \in ops \ ops' : o.sid = k
  /\ \A k \in Key : Listed(k) /\ Lives(k)' => Listed(k)'
  /\ ListTickets' /\ LaunchMarks' /\ RemovedStays'

\* Launches are counted for tickets only, once while the ticket is not reissued.
CountStep ==
  /\ \A k \in Key : k >= next => started'[k] = started[k]
  /\ TicketOnce'

\* What opens is sound and about keys heard of or tickets; a session in it is new.
Opens(o) ==
  /\ Sound(o)'
  /\ \A k \in Key : o.tasks[k].status = "queued" => IsTicket(k)'
  /\ \A k \in Key : Mentions(o, k) =>
       ~Unheard(k) \/ IsTicket(k) \/ (o.kind = "agent" /\ k = o.sid)
  /\ \A k \in Key : (k = o.key \/ k \in o.gone) /\ Lives(k)' => Listed(k)
  /\ o.sid # 0 => o.sid = next /\ next' = next + 1 /\ session'[o.sid] # "none"

\* An answer that is consumed makes the key in it known, if it still runs.
SidsStay(dropped) ==
  \A o \in dropped : o.sid # 0 /\ Lives(o.sid)' => Listed(o.sid)' \/ Filed(o.sid)'

OpsStep ==
  /\ \A o \in ops' \ ops :
       Opens(o) /\ \A p \in ops' \ ops : p # o /\ o.sid # 0 => p.sid # o.sid
  /\ SidsStay(ops \ ops')
  /\ \A k \in Key : Lives(k)' /\ session[k] # "live" => \E o \in ops' : o.sid = k

\* Only keys heard of are filed or removed, and no running download silently.
FileStep ==
  /\ lost \subseteq lost'
  /\ \A k \in Key : Filed(k)' \/ k \in tomb' \/ k \in disk'.removed => ~Unheard(k)
  /\ \A k \in Key : disk'.tasks[k].status = "queued" => IsTicket(k)'
  /\ \A k \in Key : Lives(k)' =>
       /\ k \notin tomb' /\ k \notin disk'.removed
       /\ Filed(k) => Filed(k)' \/ Listed(k)'

LEMMA StepsKeepKeyInv ==
  ASSUME KeyInv, Typed', HostStep, ListStep, CountStep, OpsStep, FileStep
  PROVE  KeyInv'
<1>0. /\ Typed /\ next \in Nat /\ next' \in Nat /\ Key \subseteq Nat /\ next <= next'
      /\ next > 0
  BY BoundsAreNatural DEF KeyInv, Typed, TypeOK, Key, HostStep
<1>1. \A o \in ops : o.sid # 0 => o.sid \in Key
  BY <1>0, OneOpen, KeyOrZero
<1>2. \A o \in ops' : o \in ops => \A k \in Key : k >= next => ~Mentions(o, k) /\ o.sid # k
  BY DEF KeyInv, FreshKeys, Unheard
<1>3. \A k \in Key : /\ Unheard(k) /\ ~IsTicket(k)
                     /\ ~(k = next /\ next' = next + 1)
                     /\ \A o \in ops \ ops' : o.sid # k
                     => Unheard(k)'
  <2> SUFFICES ASSUME NEW k \in Key, Unheard(k), ~IsTicket(k),
                      ~(k = next /\ next' = next + 1),
                      \A o \in ops \ ops' : o.sid # k
               PROVE  Unheard(k)'
    OBVIOUS
  <2>1. ~Listed(k)'
    BY DEF ListStep
  <2>2. ~Filed(k)' /\ k \notin tomb' /\ k \notin disk'.removed
    BY DEF FileStep
  <2>3. ASSUME NEW o \in ops'
        PROVE  ~Mentions(o, k)
    <3>1. CASE o \in ops
      BY <3>1 DEF Unheard
    <3>2. CASE o \notin ops
      <4>1. k \in Key => k # 0
        BY <1>0, BoundsAreNatural DEF Key
      <4> QED BY <3>2, <4>1 DEF OpsStep, Opens, SidsStay
    <3> QED BY <3>1, <3>2
  <2> QED BY <2>1, <2>2, <2>3 DEF Unheard, Mentions
<1>4. FreshKeys'
  <2> SUFFICES ASSUME NEW k \in Key, k >= next'
               PROVE  /\ session'[k] = "none" /\ started'[k] = 0 /\ Unheard(k)'
                      /\ \A o \in ops' : o.sid # k
    BY DEF FreshKeys
  <2>1. k >= next /\ ~(k = next /\ next' = next + 1)
    BY <1>0
  <2>2. /\ session[k] = "none" /\ started[k] = 0 /\ Unheard(k)
        /\ \A o \in ops : o.sid # k
    BY <2>1 DEF KeyInv, FreshKeys
  <2>3. session'[k] = "none" /\ started'[k] = 0
    BY <2>1, <2>2 DEF HostStep, CountStep
  <2>4. Unheard(k)'
    BY <1>0, <1>3, <2>1, <2>2 DEF IsTicket
  <2>5. \A o \in ops' : o.sid # k
    <3>1. k # 0
      BY BoundsAreNatural DEF Key
    <3> QED BY <2>1, <2>2, <3>1 DEF OpsStep, Opens, SidsStay
  <2> QED BY <2>3, <2>4, <2>5
<1>5. PendingKeys'
  <2> SUFFICES ASSUME NEW o \in ops', o.kind = "launch", o.sid # 0
               PROVE  /\ Unheard(o.sid)' /\ session'[o.sid] # "none"
                      /\ \A p \in ops' : p # o => p.sid # o.sid
    BY DEF PendingKeys
  <2>1. CASE o \in ops
    <3>1. /\ Unheard(o.sid) /\ o.sid \in Key /\ session[o.sid] # "none"
          /\ \A p \in ops : p # o => p.sid # o.sid
      BY <1>1, <2>1 DEF KeyInv, PendingKeys
    <3>2. o.sid # next
      BY <1>0, <1>2, <2>1, <3>1
    <3>3. Unheard(o.sid)' /\ session'[o.sid] # "none"
      BY <1>3, <2>1, <3>1, <3>2 DEF IsTicket, HostStep
    <3>4. ASSUME NEW p \in ops', p # o
          PROVE  p.sid # o.sid
      BY <2>1, <3>1, <3>2, <3>4 DEF OpsStep, Opens, SidsStay
    <3> QED BY <3>3, <3>4
  <2>2. CASE o \notin ops
    <3>1. /\ o.sid = next /\ next' = next + 1
          /\ \A p \in ops' \ ops : p # o => p.sid # o.sid
      BY <2>2 DEF OpsStep, Opens, SidsStay
    <3>2. PICK k \in Key : k = o.sid
      BY OpFields, KeyOrZero DEF Typed, TypeOK
    <3>3. Unheard(k) /\ \A p \in ops : p.sid # k
      BY <1>0, <3>1, <3>2 DEF KeyInv, FreshKeys
    <3>4. ~Listed(k)'
      BY <2>2, <3>1, <3>2, <3>3 DEF ListStep
    <3>5. ~Filed(k)' /\ k \notin tomb' /\ k \notin disk'.removed
      BY <3>3 DEF FileStep
    <3>6. \A p \in ops' : ~Mentions(p, k)
      <4>1. ASSUME NEW p \in ops' \ ops
            PROVE  ~Mentions(p, k)
        BY <1>0, <2>2, <3>1, <3>2, <3>3, <4>1 DEF OpsStep, Opens, IsTicket
      <4> QED BY <3>3, <4>1 DEF Unheard
    <3>7. Unheard(k)'
      BY <3>4, <3>5, <3>6 DEF Unheard, Mentions
    <3>8. session'[o.sid] # "none"
      BY <2>2 DEF OpsStep, Opens, SidsStay
    <3> QED BY <3>1, <3>2, <3>3, <3>7, <3>8
  <2> QED BY <2>1, <2>2
<1>6. CopiesTickets'
  <2> SUFFICES ASSUME NEW k \in Key,
                      \/ disk'.tasks[k].status = "queued"
                      \/ \E o \in ops' : o.tasks[k].status = "queued"
               PROVE  IsTicket(k)'
    BY DEF CopiesTickets
  <2> QED BY <1>0, TicketsStay DEF FileStep, OpsStep, Opens, SidsStay, KeyInv, CopiesTickets
<1>7. SoundOps'
  <2> SUFFICES ASSUME NEW o \in ops'
               PROVE  Sound(o)'
    BY DEF SoundOps
  <2>1. CASE o \notin ops
    BY <2>1 DEF OpsStep, Opens, SidsStay
  <2>2. CASE o \in ops
    <3>1. Sound(o) /\ (o.kind = "launch" /\ o.why # "click" => o.key \in Key)
      BY <2>2, OneOpen, OpFields, KeyOrZero DEF KeyInv, SoundOps, Typed, OpenOp
    <3>2. o.key \in Key => o.key # next
      <4>1. Mentions(o, o.key)
        BY DEF Mentions
      <4> QED BY <1>0, <1>2, <2>2, <4>1
    <3>3. o.key \in Key /\ session[o.key] # "live" => session'[o.key] # "live"
      BY <3>2 DEF HostStep
    <3>4. o.key \in Key /\ IsTicket(o.key) => IsTicket(o.key)'
      BY <1>0, TicketsStay
    <3> QED BY <3>1, <3>3, <3>4 DEF Sound, Shown
  <2> QED BY <2>1, <2>2
<1>8. LiveKeys'
  <2> SUFFICES ASSUME NEW k \in Key, Lives(k)'
               PROVE  /\ k \notin tomb' /\ k \notin disk'.removed
                      /\ \A o \in ops' : k = o.key \/ k \in o.gone => Listed(k)'
                      /\ Listed(k)' \/ Filed(k)' \/ \E o \in ops' : o.sid = k
    BY DEF LiveKeys, Lives
  <2>1. k \notin tomb' /\ k \notin disk'.removed
    BY DEF FileStep
  <2>2. k \notin lost /\ (session[k] = "live" \/ (k = next /\ next' = next + 1))
    BY DEF HostStep, FileStep, Lives
  <2>3. ASSUME NEW o \in ops', k = o.key \/ k \in o.gone
        PROVE  Listed(k)'
    <3>1. CASE o \in ops
      <4>0. Mentions(o, k)
        BY <2>3 DEF Mentions
      <4>1. k # next
        BY <1>0, <1>2, <3>1, <4>0
      <4> QED BY <2>2, <2>3, <3>1, <4>1 DEF KeyInv, LiveKeys, ListStep
    <3>2. CASE o \notin ops
      BY <2>3, <3>2 DEF OpsStep, Opens, SidsStay, ListStep
    <3> QED BY <3>1, <3>2
  <2>4. Listed(k)' \/ Filed(k)' \/ \E o \in ops' : o.sid = k
    <3>1. CASE session[k] # "live"
      BY <3>1 DEF OpsStep, Opens, SidsStay
    <3>2. CASE session[k] = "live"
      <4>1. Listed(k) \/ Filed(k) \/ \E o \in ops : o.sid = k
        BY <2>2, <3>2 DEF KeyInv, LiveKeys
      <4>2. CASE Listed(k) \/ Filed(k)
        BY <4>2 DEF ListStep, FileStep
      <4>3. CASE \E o \in ops : o.sid = k
        <5>1. k # 0
          BY BoundsAreNatural DEF Key
        <5> QED BY <4>3, <5>1 DEF OpsStep, Opens, SidsStay, Lives
      <4> QED BY <4>1, <4>2, <4>3
    <3> QED BY <3>1, <3>2
  <2> QED BY <2>1, <2>3, <2>4
<1> QED BY <1>4, <1>5, <1>6, <1>7, <1>8 DEF KeyInv, ListStep, CountStep

\* A running download is an old one or has the newest key, of which nobody knows.
LEMMA LivesBefore ==
  ASSUME KeyInv, HostStep, lost \subseteq lost', NEW k \in Key, Lives(k)'
  PROVE  /\ k \notin tomb /\ k \notin disk.removed
         /\ \A o \in ops : k = o.key \/ k \in o.gone => Listed(k)
<1>1. CASE session[k] = "live"
  BY <1>1 DEF KeyInv, LiveKeys, Lives
<1>2. CASE session[k] # "live"
  <2>1. k >= next
    BY <1>2, BoundsAreNatural DEF HostStep, Lives, KeyInv, Typed, TypeOK
  <2>2. Unheard(k)
    BY <2>1 DEF KeyInv, FreshKeys
  <2> QED BY <2>2 DEF Unheard, Mentions
<1> QED BY <1>1, <1>2

\* A key that someone has heard of is a ticket only if it was one.
LEMMA TicketsBefore ==
  ASSUME KeyInv, Typed', HostStep, NEW k \in Key, ~Unheard(k), IsTicket(k)'
  PROVE  IsTicket(k)
<1>1. k < next
  BY BoundsAreNatural DEF KeyInv, FreshKeys, Typed, TypeOK, Key
<1> QED BY <1>1 DEF HostStep, IsTicket

\* A start marks its ticket, and no mark goes.
MarkKept(k) ==
  list'[k].launched \/ (list'[k].launched = list[k].launched /\ started'[k] = started[k])

\* The marks after a step: kept, or the key is no ticket, came back or never started.
LEMMA MarksStay ==
  ASSUME KeyInv, Typed', HostStep, reissued \subseteq reissued',
         \A k \in Key : Listed(k)' =>
           \/ Listed(k) /\ MarkKept(k)
           \/ ~IsTicket(k)' \/ k \in reissued' \/ started'[k] = 0
  PROVE  LaunchMarks'
<1> SUFFICES ASSUME NEW k \in Key, Listed(k)', IsTicket(k)', k \notin reissued',
                    started'[k] # 0
             PROVE  list'[k].launched
  BY DEF LaunchMarks
<1>1. Listed(k) /\ MarkKept(k)
  OBVIOUS
<1>2. ~Unheard(k)
  BY <1>1 DEF Unheard
<1>3. IsTicket(k) /\ k \notin reissued
  BY <1>2, TicketsBefore
<1> QED BY <1>1, <1>3 DEF MarkKept, KeyInv, LaunchMarks

\* The list after a step that only changes or drops what is listed.
Trims ==
  /\ \A k \in Key : Listed(k)' => Listed(k)
  /\ \A k \in Key : list'[k].status = "queued" =>
       list[k].status = "queued" /\ (started'[k] = started[k] \/ k \in reissued')
  /\ \A k \in Key : Listed(k)' => MarkKept(k)
  /\ \A k \in Key : Listed(k) /\ ~Listed(k)' => ~Lives(k)'

LEMMA TrimmedList ==
  ASSUME KeyInv, Typed', HostStep, Trims, reissued \subseteq reissued',
         \A k \in tomb' : k \in tomb \/ ~Listed(k)'
  PROVE  ListStep
<1>1. ASSUME NEW k \in Key, list'[k].status = "queued"
      PROVE  IsTicket(k)' /\ (k \in reissued' \/ started'[k] = 0)
  BY <1>1, TicketsStay DEF Trims, KeyInv, ListTickets
<1>2. ListTickets'
  BY <1>1 DEF ListTickets
<1>3. RemovedStays'
  BY DEF RemovedStays, KeyInv, Trims, Listed, Typed, TypeOK
<1>4. LaunchMarks'
  BY MarksStay DEF Trims
<1> QED BY <1>2, <1>3, <1>4 DEF ListStep, Trims, Unheard

LEMMA SameList ==
  ASSUME KeyInv, Typed', HostStep, list' = list, tomb' = tomb, started' = started,
         reissued \subseteq reissued'
  PROVE  ListStep
<1>1. Trims
  BY DEF Trims, Listed, MarkKept
<1>2. \A k \in tomb' : k \in tomb \/ ~Listed(k)'
  OBVIOUS
<1> QED BY <1>1, <1>2, TrimmedList

\* The file stays, and what is removed was listed and does not run on unknown.
LEMMA SameFile ==
  ASSUME KeyInv, Typed', HostStep, disk' = disk, lost \subseteq lost',
         \A k \in tomb' : k \in tomb \/ (~Unheard(k) /\ ~Lives(k)')
  PROVE  FileStep
<1>1. \A k \in Key : Filed(k)' \/ k \in tomb' \/ k \in disk'.removed => ~Unheard(k)
  BY DEF Unheard, Filed
<1>2. \A k \in Key : disk'.tasks[k].status = "queued" => IsTicket(k)'
  BY TicketsStay DEF KeyInv, CopiesTickets
<1>3. ASSUME NEW k \in Key, Lives(k)'
      PROVE  /\ k \notin tomb' /\ k \notin disk'.removed
             /\ Filed(k) => Filed(k)' \/ Listed(k)'
  BY <1>3, LivesBefore DEF Filed
<1> QED BY <1>1, <1>2, <1>3 DEF FileStep

\* Nothing is launched from a ticket.
LEMMA SameCount ==
  ASSUME KeyInv, started' = started, reissued \subseteq reissued'
  PROVE  CountStep
BY DEF KeyInv, TicketOnce, CountStep

\* A launch from a ticket that was not started or is reissued.
LEMMA TicketCounted ==
  ASSUME KeyInv, NEW k \in Key, IsTicket(k), k \in reissued' \/ started[k] = 0,
         started' = [started EXCEPT ![k] = @ + 1], reissued \subseteq reissued'
  PROVE  CountStep
<1>1. started \in [Key -> Nat] /\ next \in Nat /\ Key \subseteq Nat /\ k < next
  BY BoundsAreNatural DEF KeyInv, Typed, TypeOK, IsTicket, Key
<1>2. \A j \in Key : started'[j] = IF j = k THEN started[j] + 1 ELSE started[j]
  BY <1>1
<1>3. \A j \in Key : j >= next => started'[j] = started[j]
  BY <1>1, <1>2
<1>4. TicketOnce'
  BY <1>1, <1>2 DEF KeyInv, TicketOnce
<1> QED BY <1>3, <1>4 DEF CountStep

\* Operations are answered, or one opens that launched nothing.
NoNewSession == \A k \in Key : session'[k] = "live" => session[k] = "live"

LEMMA FewerOps ==
  ASSUME ops' \subseteq ops, SidsStay(ops \ ops'), NoNewSession
  PROVE  OpsStep
<1>1. ops' \ ops = {}
  OBVIOUS
<1> QED BY <1>1 DEF OpsStep, NoNewSession, Lives

LEMMA OneMoreOp ==
  ASSUME NEW o, ops' \subseteq ops \cup {o}, Opens(o), SidsStay(ops \ ops'), NoNewSession
  PROVE  OpsStep
<1>1. \A p \in ops' \ ops : p = o
  OBVIOUS
<1> QED BY <1>1 DEF OpsStep, NoNewSession, Lives

\* An operation about a key that was heard of, which launched nothing.
AboutKey(o, k) ==
  /\ o.kind \in {"kill", "probe", "wait", "confirm"} /\ o.sid = 0 /\ o.gone = {}
  /\ o.key = k
  /\ \A j \in Key : o.tasks[j].status = "absent" /\ o.seen[j] = ""

LEMMA AboutKeyOpens ==
  ASSUME NEW k \in Key, ~Unheard(k), Lives(k)' => Listed(k), NEW o, AboutKey(o, k)
  PROVE  Opens(o) /\ o.sid = 0
<1>1. Sound(o)'
  BY DEF AboutKey, Sound
<1> QED BY <1>1 DEF AboutKey, Opens, Mentions

LEMMA KeyOpOpens ==
  ASSUME NEW kind \in {"kill", "probe", "wait", "confirm"}, NEW why, NEW busy,
         NEW k \in Key, ~Unheard(k), Lives(k)' => Listed(k), NEW o,
         \/ o = [Blank EXCEPT !.kind = kind, !.why = why, !.key = k]
         \/ o = [Blank EXCEPT !.kind = kind, !.key = k]
         \/ o = [Blank EXCEPT !.kind = kind, !.key = k, !.busy = busy]
  PROVE  Opens(o) /\ o.sid = 0
<1>1. CASE o = [Blank EXCEPT !.kind = kind, !.why = why, !.key = k]
  BY <1>1, AboutKeyOpens DEF AboutKey, Blank, Absent
<1>2. CASE o = [Blank EXCEPT !.kind = kind, !.key = k]
  BY <1>2, AboutKeyOpens DEF AboutKey, Blank, Absent
<1>3. CASE o = [Blank EXCEPT !.kind = kind, !.key = k, !.busy = busy]
  BY <1>3, AboutKeyOpens DEF AboutKey, Blank, Absent
<1> QED BY <1>1, <1>2, <1>3

LEMMA WaitOpens ==
  ASSUME NEW k \in Key, ~Unheard(k), Lives(k)' => Listed(k), NEW why
  PROVE  LET o == [Blank EXCEPT !.why = why, !.key = k] IN Opens(o) /\ o.sid = 0
BY AboutKeyOpens DEF AboutKey, Blank, Absent

\* The fields of a launch request.
RequestLike(r, why, key, sid) ==
  /\ r.kind = "launch" /\ r.why = why /\ r.key = key /\ r.sid = sid /\ r.gone = {}
  /\ \A k \in Key : r.tasks[k].status = "absent" /\ r.seen[k] = ""

LEMMA RequestFields ==
  ASSUME NEW why, NEW key, NEW sid
  PROVE  RequestLike(Request(why, key, sid), why, key, sid)
BY DEF RequestLike, Request, Blank, Absent

\* What a launch may be about.
MayLaunch(why, key, sess) ==
  /\ key \in Key =>
       /\ ~Unheard(key) \/ IsTicket(key)
       /\ Lives(key)' => Listed(key)
  /\ why \in {"queue", "again"} => key \in Key /\ IsTicket(key)
  /\ why \in {"retry", "stale"} => key \in Key /\ sess[key] # "live"

LEMMA LaunchOpens ==
  ASSUME KeyInv, Typed', HostStep, NEW why \in Whys, NEW m, NEW key \in 0..MaxKeys,
         NEW rest, \A o \in rest \ ops : Opens(o) /\ o.sid = 0, SidsStay(ops \ rest),
         NEW sess \in [Key -> Statuses], Kills(sess), MayLaunch(why, key, sess),
         LaunchFrom(why, m, key, rest, sess)
  PROVE  OpsStep
<1>0. /\ next \in Nat /\ next # 0 /\ Typed
      /\ \A k \in Key : k >= next => Unheard(k) /\ ~IsTicket(k)
  <2>1. Typed /\ FreshKeys
    BY DEF KeyInv
  <2>2. next \in Nat /\ next # 0 /\ Key \subseteq Nat
    BY <2>1, BoundsAreNatural DEF Typed, TypeOK, Key
  <2> QED BY <2>1, <2>2 DEF FreshKeys, IsTicket
<1>1. key \in Key => key # next
  BY <1>0 DEF MayLaunch
<1>2. PICK sid \in {0, next} :
        /\ ops' = rest \cup {Request(why, key, sid)}
        /\ sid = next => next' = next + 1 /\ session' = [sess EXCEPT ![next] = "live"]
        /\ sid # next => session' = sess
  <2>1. CASE Succeeds(why, m, key, rest, sess)
    BY <2>1 DEF Succeeds
  <2>2. CASE Fails(why, key, rest, sess)
    BY <1>0, <2>2 DEF Fails
  <2> QED BY <2>1, <2>2, LaunchCases
<1> DEFINE r == Request(why, key, sid)
<1>3. /\ r.kind = "launch" /\ r.why = why /\ r.key = key /\ r.sid = sid /\ r.gone = {}
      /\ \A k \in Key : r.tasks[k].status = "absent" /\ r.seen[k] = ""
  <2>1. RequestLike(r, why, key, sid)
    BY RequestFields
  <2> QED BY <2>1 DEF RequestLike
<1>4. ops' = rest \cup {r}
  BY <1>2
<1> HIDE DEF r
<1>5. sid # 0 => sid = next /\ sid \in Key /\ next' = next + 1 /\ session'[sid] # "none"
  <2>1. r \in Op
    BY <1>4 DEF Typed, TypeOK
  <2>2. sid # 0 => sid \in Key
    BY <1>3, <2>1, OpFields, KeyOrZero
  <2> QED BY <1>2, <2>2
<1>6. Sound(r)'
  <2>1. why \in {"queue", "again"} => IsTicket(key)'
    BY <1>0, TicketsStay DEF MayLaunch
  <2>2. why \in {"retry", "stale"} => session'[key] # "live"
    BY <1>1, <1>2 DEF MayLaunch
  <2> QED BY <1>3, <2>1, <2>2 DEF Sound
<1>7. \A k \in Key : Lives(k)' /\ session[k] # "live" => \E o \in ops' : o.sid = k
  <2>1. ASSUME NEW k \in Key, Lives(k)', session[k] # "live"
        PROVE  r.sid = k
    <3>1. sess[k] # "live"
      BY <2>1 DEF Kills
    <3> QED BY <1>2, <1>3, <2>1, <3>1 DEF Lives
  <2> QED BY <1>4, <2>1
<1>8. Opens(r)
  <2>1. \A k \in Key : Mentions(r, k) => k = key
    BY <1>3 DEF Mentions
  <2> QED BY <1>3, <1>5, <1>6, <2>1 DEF Opens, MayLaunch
<1>9. \A o \in ops' \ ops : o = r \/ (Opens(o) /\ o.sid = 0)
  BY <1>4
<1>10. SidsStay(ops \ ops')
  BY <1>4 DEF SidsStay
<1> QED BY <1>7, <1>8, <1>9, <1>10 DEF OpsStep

-----------------------------------------------------------------------------
(* The queue.                                                               *)

AllSteps == ListStep /\ CountStep /\ OpsStep /\ FileStep

\* The same tasks as listed, of which no more wait.
SameTasks(tasks) ==
  \A k \in Key :
    /\ tasks[k].status # "absent" <=> Listed(k)
    /\ tasks[k].status = "queued" => list[k].status = "queued"
    /\ tasks[k].launched = list[k].launched

LEMMA TaskEnds ==
  ASSUME list \in Tasks, NEW k \in Key, Listed(k), NEW s \in {"running", "crashed", "done"}
  PROVE  SameTasks([list EXCEPT ![k].status = s]) /\ [list EXCEPT ![k].status = s] \in Tasks
<1>1. [list EXCEPT ![k].status = s] \in Tasks
  BY StatusWritten DEF AllStatuses, Ended
<1>2. \A j \in Key : /\ [list EXCEPT ![k].status = s][j].status
                          = IF j = k THEN s ELSE list[j].status
                     /\ [list EXCEPT ![k].status = s][j].launched = list[j].launched
  BY DEF Tasks, Task
<1> QED BY <1>1, <1>2 DEF SameTasks, Listed

\* A ticket does not run, now or after the step.
LEMMA TicketsIdle ==
  ASSUME KeyInv, Typed', HostStep, NEW k \in Key, IsTicket(k)
  PROVE  ~Lives(k)' /\ IsTicket(k)'
BY TicketsStay DEF KeyInv, IsTicket, Lives

LEMMA QueueSteps ==
  ASSUME KeyInv, Typed', HostStep, NEW tasks \in Tasks, SameTasks(tasks),
         NEW rest, \A o \in rest \ ops : Opens(o) /\ o.sid = 0, SidsStay(ops \ rest),
         UNCHANGED <<tomb, disk, reissued, lost>>, ProcessQueue(tasks, rest)
  PROVE  AllSteps
<1>1. PICK p \in Pruned(tasks) :
        \/ list' = p /\ NoLaunch(rest)
        \/ \E k \in Having(p, {"queued"}) :
             list' = Flipped(p, k) /\ Launch("queue", of[k], k, rest)
  BY DEF ProcessQueue
<1>2. p \in Tasks /\ \A k \in Key : \/ p[k] = tasks[k]
                                    \/ p[k] = Absent /\ tasks[k].status = "queued"
  BY PrunedTasks
<1>3. \A k \in Key : /\ p[k].status # "absent" => Listed(k)
                     /\ p[k].status = "queued" => list[k].status = "queued"
                     /\ Listed(k) /\ p[k].status = "absent" => ~Lives(k)'
                     /\ p[k].status # "absent" => p[k].launched = list[k].launched
  <2>1. \A k \in Key : tasks[k].status = "queued" => IsTicket(k)
    BY DEF SameTasks, KeyInv, ListTickets
  <2>2. Absent.status = "absent"
    BY DEF Absent
  <2> QED BY <1>2, <2>1, <2>2, TicketsIdle DEF SameTasks
<1>4. FileStep
  BY SameFile
<1>5. CASE list' = p /\ NoLaunch(rest)
  <2>1. started' = started /\ ops' = rest /\ NoNewSession
    BY <1>5 DEF NoLaunch, host, NoNewSession
  <2>2. Trims
    BY <1>3, <1>5, <2>1 DEF Trims, Listed, MarkKept
  <2>3. ListStep /\ CountStep
    BY <2>1, <2>2, TrimmedList, SameCount
  <2>4. OpsStep
    <3>1. \A o \in ops' \ ops : Opens(o) /\ o.sid = 0
      BY <2>1
    <3>2. SidsStay(ops \ ops')
      BY <2>1
    <3>3. \A k \in Key : Lives(k)' => session[k] = "live"
      BY <2>1 DEF NoNewSession, Lives
    <3> QED BY <3>1, <3>2, <3>3 DEF OpsStep
  <2> QED BY <1>4, <2>3, <2>4 DEF AllSteps
<1>6. ASSUME NEW k \in Having(p, {"queued"}), list' = Flipped(p, k),
             Launch("queue", of[k], k, rest)
      PROVE  AllSteps
  <2>1. k \in Key /\ list[k].status = "queued" /\ k \in 0..MaxKeys
    BY <1>3, <1>6, BoundsAreNatural DEF Having, Key
  <2>2. IsTicket(k) /\ (k \in reissued \/ started[k] = 0) /\ ~Lives(k)'
    BY <2>1, TicketsIdle DEF KeyInv, ListTickets
  <2>3. started' = [started EXCEPT ![k] = @ + 1] /\ started \in [Key -> Nat]
    BY <1>6 DEF Launch, LaunchFrom, KeyInv, Typed
  <2>4. CountStep
    BY <2>1, <2>2, <2>3, TicketCounted
  <2>5. \A j \in Key : /\ list'[j].status = IF j = k THEN "running" ELSE p[j].status
                       /\ list'[j].launched = IF j = k THEN TRUE ELSE p[j].launched
    BY <1>2, <1>6, <2>1 DEF Flipped, Tasks, Task
  <2>6. Trims
    BY <1>3, <2>1, <2>3, <2>5 DEF Trims, Listed, MarkKept
  <2>7. ListStep
    BY <2>6, TrimmedList
  <2>8. MayLaunch("queue", k, session)
    BY <2>1, <2>2 DEF MayLaunch
  <2>9. session \in [Key -> Statuses]
    BY DEF KeyInv, Typed, TypeOK, Statuses
  <2>10. OpsStep
    BY <1>6, <2>1, <2>8, <2>9, SomeWhys, NothingKilled, LaunchOpens DEF Launch
  <2> QED BY <1>4, <2>4, <2>7, <2>10 DEF AllSteps
<1> QED BY <1>1, <1>5, <1>6

-----------------------------------------------------------------------------
(* The watchers and the host.                                               *)

\* A step that neither launches nor touches list, removals and file.
LEMMA QuietSteps ==
  ASSUME KeyInv, Typed', HostStep,
         UNCHANGED <<list, tomb, disk, reissued, started>>, lost \subseteq lost', OpsStep
  PROVE  AllSteps
BY SameList, SameCount, SameFile DEF AllSteps

\* Such a step that answers some operations.
LEMMA AnsweringSteps ==
  ASSUME KeyInv, Typed', HostStep,
         UNCHANGED <<list, tomb, disk, reissued, started>>, lost \subseteq lost',
         ops' \subseteq ops, SidsStay(ops \ ops'), NoNewSession
  PROVE  AllSteps
BY FewerOps, QuietSteps

\* A listed task changes its status, and nothing else happens.
LEMMA StatusSteps ==
  ASSUME KeyInv, Typed', HostStep, NEW k \in Key, Listed(k),
         NEW s \in {"running", "crashed", "done"}, list' = [list EXCEPT ![k].status = s],
         UNCHANGED <<tomb, disk, reissued, started, lost>>,
         ops' \subseteq ops, SidsStay(ops \ ops'), NoNewSession
  PROVE  AllSteps
<1>1. SameTasks(list')
  BY TaskEnds DEF KeyInv, Typed, TypeOK, Tasks
<1>2. Trims
  BY <1>1 DEF SameTasks, Trims, Listed, MarkKept
<1>3. ListStep /\ CountStep /\ FileStep
  BY <1>2, TrimmedList, SameCount, SameFile
<1> QED BY <1>3, FewerOps DEF AllSteps

LEMMA Heard == ASSUME NEW k \in Key, Listed(k) PROVE ~Unheard(k)
BY DEF Unheard

LEMMA WatcherSteps ==
  ASSUME KeyInv, Typed', HostStep, NEW k \in Key, Watcher(k)
  PROVE  AllSteps
<1>0. list \in Tasks /\ SameTasks(list) /\ \A o \in ops \ ops : Opens(o) /\ o.sid = 0
  BY DEF KeyInv, Typed, TypeOK, Tasks, SameTasks, Listed
<1>1. Listed(k)
  BY DEF Watcher, SeesDone, SeesFailed, SeesGone, SeesStall, SelfHeal, Watched, Listed, Ended
<1>2. SidsStay(ops \ ops)
  BY DEF SidsStay
<1>3. CASE SeesDone(k)
  <2> DEFINE ended == [list EXCEPT ![k].status = "done"]
  <2>1. SameTasks(ended) /\ ended \in Tasks
    BY <1>0, <1>1, TaskEnds
  <2> HIDE DEF ended
  <2>2. ProcessQueue(ended, ops) /\ UNCHANGED <<tomb, disk, reissued, lost>>
    BY <1>3 DEF SeesDone, ended
  <2> QED BY <1>0, <1>2, <2>1, <2>2, QueueSteps
<1>4. CASE SeesFailed(k)
  <2>1. CASE /\ ops' = ops \cup {[Blank EXCEPT !.kind = "kill", !.why = "auto", !.key = k]}
             /\ UNCHANGED <<list, dirty>>
    <3> DEFINE o == [Blank EXCEPT !.kind = "kill", !.why = "auto", !.key = k]
    <3>1. Opens(o) /\ o.sid = 0
      BY <1>1, Heard, KeyOpOpens
    <3> HIDE DEF o
    <3>2. OpsStep
      BY <1>4, <2>1, <3>1, OneMoreOp DEF SeesFailed, host, NoNewSession, SidsStay, o
    <3> QED BY <1>4, <2>1, <3>2, QuietSteps DEF SeesFailed
  <2>2. CASE list' = [list EXCEPT ![k].status = "crashed"] /\ ops' = ops
    BY <1>1, <1>2, <1>4, <2>2, StatusSteps DEF SeesFailed, host, NoNewSession
  <2> QED BY <1>4, <2>1, <2>2 DEF SeesFailed, Save
<1>5. CASE SeesGone(k)
  <2>0. UNCHANGED <<tomb, disk, reissued, lost>>
    BY <1>5 DEF SeesGone
  <2>1. CASE ProcessQueue(list, ops \cup {[Blank EXCEPT !.kind = "confirm", !.key = k]})
    <3> DEFINE o == [Blank EXCEPT !.kind = "confirm", !.key = k]
    <3>1. Opens(o) /\ o.sid = 0
      BY <1>1, Heard, KeyOpOpens
    <3> HIDE DEF o
    <3>2. ProcessQueue(list, ops \cup {o})
      BY <2>1 DEF o
    <3>3. /\ \A p \in (ops \cup {o}) \ ops : Opens(p) /\ p.sid = 0
          /\ SidsStay(ops \ (ops \cup {o}))
      BY <3>1 DEF SidsStay
    <3> QED BY <1>0, <2>0, <3>2, <3>3, QueueSteps
  <2>2. ASSUME NEW s \in {"done", "crashed"},
               ProcessQueue([list EXCEPT ![k].status = s], ops)
        PROVE  AllSteps
    <3> DEFINE ended == [list EXCEPT ![k].status = s]
    <3>1. SameTasks(ended) /\ ended \in Tasks
      BY <1>0, <1>1, TaskEnds
    <3> HIDE DEF ended
    <3>2. ProcessQueue(ended, ops)
      BY <2>2 DEF ended
    <3> QED BY <1>0, <1>2, <2>0, <3>1, <3>2, QueueSteps
  <2> QED BY <1>5, <2>1, <2>2 DEF SeesGone
<1>6. CASE SeesStall(k)
  <2> DEFINE o == [Blank EXCEPT !.kind = "kill", !.why = "stale", !.key = k]
  <2>1. Opens(o) /\ o.sid = 0
    BY <1>1, Heard, KeyOpOpens
  <2> HIDE DEF o
  <2>2. OpsStep
    BY <1>6, <2>1, OneMoreOp DEF SeesStall, host, NoNewSession, SidsStay, o
  <2> QED BY <1>6, <2>2, QuietSteps DEF SeesStall
<1>7. CASE SelfHeal(k)
  BY <1>1, <1>2, <1>7, StatusSteps DEF SelfHeal, Save, host, NoNewSession
<1> QED BY <1>3, <1>4, <1>5, <1>6, <1>7 DEF Watcher

-----------------------------------------------------------------------------
(* Answers to launches.                                                     *)

\* Only launches and the agent name a session.
LEMMA SidKinds ==
  ASSUME KeyInv, NEW o \in ops, o.kind \notin {"launch", "agent"}
  PROVE  o.sid = 0 /\ SidsStay(ops \ (ops \ {o}))
BY DEF KeyInv, SoundOps, Sound, SidsStay

\* A launch's new key joins the list, others leave that do not run.
LEMMA KeyJoins ==
  ASSUME KeyInv, Typed', HostStep, NEW o \in ops, o.kind = "launch", o.sid # 0,
         ops' = ops \ {o}, UNCHANGED <<tomb, disk, reissued, started, host>>,
         lost \subseteq lost', NEW drop, \A k \in drop \cap Key : ~Lives(k)',
         \A k \in Key : list'[k].status = IF k = o.sid THEN "running"
                          ELSE IF k \in drop THEN "absent" ELSE list[k].status,
         \A k \in Key : k # o.sid /\ k \notin drop => list'[k] = list[k]
  PROVE  AllSteps
<1>1. o.sid \in Key /\ Unheard(o.sid) /\ ~IsTicket(o.sid)'
  BY OneOpen, KeyOrZero DEF KeyInv, PendingKeys, IsTicket, host
<1>2. ListTickets'
  <2>1. \A k \in Key : list'[k].status = "queued" => list[k].status = "queued"
    OBVIOUS
  <2> QED BY <2>1, TicketsStay DEF KeyInv, ListTickets
<1>3. RemovedStays'
  BY <1>1 DEF KeyInv, RemovedStays, Unheard, Typed, TypeOK
<1>4. ListStep
  <2>1. \A k \in Key : Listed(k)' => Listed(k) \/ k = o.sid
    BY DEF Listed
  <2>2. \A k \in Key : Listed(k) /\ Lives(k)' => Listed(k)'
    BY DEF Listed
  <2>3. LaunchMarks'
    <3>1. \A k \in Key : Listed(k)' => k = o.sid \/ (k # o.sid /\ k \notin drop)
      BY DEF Listed
    <3>2. \A k \in Key : Listed(k)' => k = o.sid \/ (Listed(k) /\ MarkKept(k))
      BY <2>1, <3>1 DEF MarkKept
    <3> QED BY <1>1, <3>2, MarksStay
  <2> QED BY <1>2, <1>3, <2>1, <2>2, <2>3, Heard DEF ListStep
<1>5. SidsStay(ops \ ops')
  BY <1>1 DEF SidsStay, Listed
<1>6. OpsStep
  BY <1>5, FewerOps DEF NoNewSession, host
<1> QED BY <1>4, <1>6, SameCount, SameFile DEF AllSteps

LEMMA AnsweredSteps ==
  ASSUME KeyInv, Typed', HostStep, NEW o \in ops, LaunchAnswered(o)
  PROVE  AllSteps
<1>0. /\ o.kind = "launch" /\ ops' = ops \ {o} /\ list \in Tasks /\ NoNewSession
      /\ UNCHANGED <<tomb, disk, reissued, started, host>> /\ lost \subseteq lost'
      /\ o.why # "click" => o.key \in Key
  <2>1. o.key # 0 => o.key \in Key
    BY OneOpen, KeyOrZero DEF KeyInv
  <2> QED BY <2>1, OneOpen DEF LaunchAnswered, Restarted, NoNewSession, host, KeyInv, Typed,
             TypeOK, Tasks, OpenOp
<1>1. Sound(o)
  BY DEF KeyInv, SoundOps
<1>2. o.sid = 0 => SidsStay(ops \ ops')
  BY <1>0 DEF SidsStay
<1>3. CASE o.sid = 0
  <2>1. CASE list' = list
    BY <1>0, <1>2, <1>3, <2>1, AnsweringSteps
  <2>2. CASE /\ o.key \in Key /\ Listed(o.key) /\ lost' = lost
             /\ list' = [list EXCEPT ![o.key].status = "crashed"]
    BY <1>0, <1>2, <1>3, <2>2, StatusSteps
  <2> QED BY <1>0, <1>3, <2>1, <2>2
          DEF LaunchAnswered, QueueStarted, Relaunched, Restarted, Save, Listed
<1>4. CASE o.sid # 0
  <2>0. o.sid \in Key
    BY <1>4, OneOpen, KeyOrZero DEF KeyInv
  <2> DEFINE rivals == {k \in Having(list, {"queued"}) : of[k] = of[o.sid]}
  <2>1. \A k \in rivals : k \in Key /\ ~Lives(k)'
    BY TicketsIdle DEF KeyInv, ListTickets, Having
  <2>2. Absent.status = "absent" /\ Fresh("running").status = "running"
    BY DEF Absent, Fresh
  <2> HIDE DEF rivals
  <2>3. CASE o.why \in {"queue", "again"} /\ QueueStarted(o)
    <3>1. o.key \in Key /\ ~Lives(o.key)'
      BY <1>0, <1>1, <2>3, TicketsIdle DEF Sound
    <3>2. list' = [Without(list, {o.key} \cup rivals) EXCEPT ![o.sid] =
                    [list[o.key] EXCEPT !.status = "running"]]
      BY <1>4, <2>3 DEF QueueStarted, Save, rivals
    <3>3. [list[o.key] EXCEPT !.status = "running"].status = "running"
      BY <1>0, <3>1 DEF Tasks, Task
    <3>4. \A k \in Key : list'[k].status = IF k = o.sid THEN "running"
                           ELSE IF k \in {o.key} \cup rivals THEN "absent" ELSE list[k].status
      BY <2>0, <2>2, <3>2, <3>3 DEF Without
    <3>5. \A k \in ({o.key} \cup rivals) \cap Key : ~Lives(k)'
      BY <2>1, <3>1
    <3>6. \A k \in Key : k # o.sid /\ k \notin {o.key} \cup rivals => list'[k] = list[k]
      BY <3>2 DEF Without
    <3> QED BY <1>0, <1>4, <3>4, <3>5, <3>6, KeyJoins
  <2> DEFINE moved == [list[o.key] EXCEPT !.status = "running", !.ok = FALSE]
  <2>4. CASE /\ o.why \in {"retry", "stale"}
             /\ list' = [Without(list, {o.key}) EXCEPT ![o.sid] = moved]
    <3>1. o.key \in Key /\ ~Lives(o.key)'
      BY <1>0, <1>1, <2>4 DEF Sound, Lives, NoNewSession
    <3>2. moved.status = "running"
      BY <1>0, <3>1 DEF Tasks, Task
    <3> HIDE DEF moved
    <3> DEFINE gone == {o.key}
    <3>3. \A k \in Key : list'[k].status = IF k = o.sid THEN "running"
                           ELSE IF k \in gone THEN "absent" ELSE list[k].status
      BY <2>0, <2>2, <2>4, <3>2 DEF Without
    <3>4. \A k \in Key : k # o.sid /\ k \notin gone => list'[k] = list[k]
      BY <2>4 DEF Without
    <3>5. \A k \in gone \cap Key : ~Lives(k)'
      BY <3>1
    <3> HIDE DEF gone
    <3> QED BY <1>0, <1>4, <3>3, <3>4, <3>5, KeyJoins
  <2>5. CASE list' = Added(list, o.sid, of[o.sid])
    <3>1. list' = [Without(list, rivals) EXCEPT ![o.sid] = Fresh("running")]
      BY <2>5 DEF Added, rivals
    <3>2. \A k \in Key : list'[k].status = IF k = o.sid THEN "running"
                           ELSE IF k \in rivals THEN "absent" ELSE list[k].status
      BY <2>0, <2>2, <3>1 DEF Without
    <3>3. \A k \in Key : k # o.sid /\ k \notin rivals => list'[k] = list[k]
      BY <3>1 DEF Without
    <3> QED BY <1>0, <1>4, <2>1, <3>2, <3>3, KeyJoins
  <2>6. CASE list' = list /\ o.sid \in lost'
    <3>1. SidsStay(ops \ ops')
      BY <1>0, <2>6 DEF SidsStay, Lives
    <3> QED BY <1>0, <2>6, <3>1, AnsweringSteps
  <2> QED BY <1>4, <2>3, <2>4, <2>5, <2>6
          DEF LaunchAnswered, Relaunched, Restarted, Save
<1> QED BY <1>3, <1>4

-----------------------------------------------------------------------------
(* The other answers.                                                       *)

LEMMA ProceedSteps ==
  ASSUME KeyInv, Typed', HostStep, NEW rest \in SUBSET ops, SidsStay(ops \ rest),
         NEW m, NEW busy, UNCHANGED <<tomb, disk, reissued, lost>>, Proceed(m, busy, rest)
  PROVE  AllSteps
<1>0. FileStep
  BY SameFile
<1>1. CASE busy
  <2>1. /\ next <= MaxKeys /\ next' = next + 1 /\ ops' = rest
        /\ UNCHANGED <<session, started>>
        /\ list' = [list EXCEPT ![next] = Fresh("queued")]
    BY <1>1 DEF Proceed, Save
  <2>2. PICK n \in Key : n = next
    BY <2>1, NextKey DEF KeyInv
  <2>3. /\ session[n] = "none" /\ started[n] = 0 /\ Unheard(n)
        /\ next \in Nat /\ Typed
    BY <2>2, BoundsAreNatural DEF KeyInv, FreshKeys, Typed, TypeOK
  <2>4. \A k \in Key : list'[k].status = IF k = n THEN "queued" ELSE list[k].status
    BY <2>1, <2>2 DEF Fresh, Absent, KeyInv, Typed, TypeOK
  <2>5. IsTicket(n)'
    BY <2>1, <2>2, <2>3 DEF IsTicket
  <2>6. ListTickets'
    BY <2>1, <2>3, <2>4, <2>5, TicketsStay DEF KeyInv, ListTickets
  <2>7. RemovedStays'
    BY <2>3, <2>4 DEF KeyInv, RemovedStays, Unheard, Typed, TypeOK
  <2>8. ListStep
    <3>1. \A k \in Key : Listed(k)' => Listed(k) \/ (k = next /\ next' = next + 1 /\ ops' \subseteq ops)
      BY <2>1, <2>2, <2>4 DEF Listed
    <3>2. \A k \in Key : Listed(k) => Listed(k)'
      BY <2>4 DEF Listed
    <3>3. \A k \in Key : Listed(k)' => started'[k] = 0 \/ (Listed(k) /\ MarkKept(k))
      <4>1. \A k \in Key : k # n => list'[k] = list[k]
        BY <2>1, <2>2
      <4> QED BY <2>1, <2>3, <4>1 DEF Listed, MarkKept
    <3>4. LaunchMarks'
      BY <3>3, MarksStay
    <3> QED BY <2>6, <2>7, <3>1, <3>2, <3>4, Heard DEF ListStep
  <2>9. OpsStep
    BY <2>1, FewerOps DEF NoNewSession, SidsStay
  <2> QED BY <1>0, <2>1, <2>8, <2>9, SameCount DEF AllSteps
<1>2. CASE ~busy
  <2>1. Launch("click", m, 0, rest) /\ list' = list
    BY <1>2 DEF Proceed
  <2>2. started' = started
    BY <2>1 DEF Launch, LaunchFrom
  <2>3. 0 \notin Key /\ 0 \in 0..MaxKeys /\ session \in [Key -> Statuses]
    BY BoundsAreNatural DEF Key, KeyInv, Typed, TypeOK, Statuses
  <2>4. MayLaunch("click", 0, session)
    BY <2>3 DEF MayLaunch
  <2>5. \A o \in rest \ ops : Opens(o) /\ o.sid = 0
    OBVIOUS
  <2>6. OpsStep
    BY <2>1, <2>3, <2>4, <2>5, SomeWhys, NothingKilled, LaunchOpens DEF Launch
  <2> QED BY <1>0, <2>1, <2>2, <2>6, SameList, SameCount DEF AllSteps
<1> QED BY <1>1, <1>2

LEMMA ProbedSteps ==
  ASSUME KeyInv, Typed', HostStep, NEW o \in ops, Probed(o)
  PROVE  AllSteps
<1>1. /\ SidsStay(ops \ (ops \ {o})) /\ o.key \in Key
      /\ UNCHANGED <<tomb, disk, reissued, lost>>
  BY SidKinds, OneOpen DEF Probed, KeyInv
<1>2. CASE Alive(o.key)
  <2>1. ops' = ops \ {o} /\ NoNewSession /\ started' = started
    BY <1>2 DEF Probed, NoLaunch, host, NoNewSession
  <2>2. CASE list' = list
    BY <1>1, <2>1, <2>2, AnsweringSteps
  <2>3. CASE Listed(o.key) /\ list' = [list EXCEPT ![o.key].status = "running"]
    BY <1>1, <2>1, <2>3, StatusSteps
  <2> QED BY <1>2, <2>2, <2>3 DEF Probed, Save, Listed
<1>3. CASE ~Alive(o.key)
  BY <1>1, <1>3, ProceedSteps DEF Probed
<1> QED BY <1>2, <1>3

LEMMA ConfirmedSteps ==
  ASSUME KeyInv, Typed', HostStep, NEW o \in ops, Confirmed(o)
  PROVE  AllSteps
<1>1. /\ SidsStay(ops \ (ops \ {o})) /\ o.key \in Key /\ list \in Tasks
      /\ UNCHANGED <<tomb, disk, reissued, lost>>
  BY SidKinds, OneOpen DEF Confirmed, KeyInv, Typed, TypeOK, Tasks
<1>2. CASE NoLaunch(ops \ {o}) /\ \/ list' = list
                                   \/ /\ Listed(o.key)
                                      /\ list' = [list EXCEPT ![o.key].status = "running"]
  <2>1. ops' = ops \ {o} /\ NoNewSession /\ started' = started
    BY <1>2 DEF NoLaunch, host, NoNewSession
  <2> QED BY <1>1, <1>2, <2>1, AnsweringSteps, StatusSteps
<1>3. CASE /\ Listed(o.key)
           /\ ProcessQueue([list EXCEPT ![o.key].status = "done"], ops \ {o})
  <2> DEFINE ended == [list EXCEPT ![o.key].status = "done"]
  <2>1. SameTasks(ended) /\ ended \in Tasks
    BY <1>1, <1>3, TaskEnds
  <2> HIDE DEF ended
  <2>2. ProcessQueue(ended, ops \ {o})
    BY <1>3 DEF ended
  <2> QED BY <1>1, <2>1, <2>2, QueueSteps
<1> QED BY <1>2, <1>3 DEF Confirmed, Save, Listed

LEMMA KilledSteps ==
  ASSUME KeyInv, Typed', HostStep, NEW o \in ops, Killed(o)
  PROVE  AllSteps
<1> DEFINE rest == ops \ {o}
           dead == IF Alive(o.key) THEN [session EXCEPT ![o.key] = "dead"] ELSE session
<1>1. /\ SidsStay(ops \ rest) /\ o.key \in Key /\ list \in Tasks
      /\ disk' = disk /\ reissued' = reissued /\ ~Unheard(o.key)
      /\ o.key \in 0..MaxKeys /\ session \in [Key -> Statuses]
  <2>1. Mentions(o, o.key)
    BY DEF Mentions
  <2> QED BY <2>1, SidKinds, OneOpen
          DEF Killed, KeyInv, Typed, TypeOK, Tasks, Statuses, Unheard
<1>2. /\ Kills(dead) /\ dead \in [Key -> Statuses] /\ dead[o.key] # "live"
      /\ \A k \in Key : dead[k] = "live" => session[k] = "live"
  BY <1>1 DEF Kills, Statuses, Alive
<1>3. CASE o.why \in {"remove", "auto"}
  <2>1. /\ list' = Without(list, {o.key}) /\ tomb' = tomb \cup {o.key}
        /\ ops' = rest \cup (IF o.why = "remove" THEN {}
                               ELSE {[Blank EXCEPT !.why = "auto", !.key = o.key]})
        /\ started' = started /\ lost \subseteq lost'
        /\ \/ session' = dead
           \/ session' = session /\ o.key \in lost'
    BY <1>3 DEF Killed, Save
  <2> HIDE DEF dead
  <2>2. ~Lives(o.key)' /\ NoNewSession
    BY <1>2, <2>1 DEF Lives, NoNewSession
  <2>3. \A k \in Key : list'[k].status = IF k = o.key THEN "absent" ELSE list[k].status
    BY <2>1 DEF Without, Absent
  <2>4. Trims
    <3>1. \A k \in Key : k # o.key => list'[k] = list[k]
      BY <2>1 DEF Without
    <3> QED BY <2>1, <2>2, <2>3, <3>1 DEF Trims, Listed, MarkKept
  <2>5. ListStep
    BY <1>1, <2>1, <2>3, <2>4, TrimmedList DEF Listed
  <2>6. FileStep
    BY <1>1, <2>1, <2>2, SameFile
  <2>7. OpsStep
    <3>1. CASE o.why = "remove"
      BY <1>1, <2>1, <2>2, <3>1, FewerOps
    <3>2. CASE o.why # "remove"
      <4> DEFINE w == [Blank EXCEPT !.why = "auto", !.key = o.key]
      <4>1. Opens(w) /\ w.sid = 0
        BY <1>1, <2>2, WaitOpens
      <4> HIDE DEF w
      <4>2. ops' = rest \cup {w}
        BY <2>1, <3>2 DEF w
      <4>3. SidsStay(ops \ ops')
        BY <1>1, <4>2 DEF SidsStay
      <4> QED BY <2>2, <4>1, <4>2, <4>3, OneMoreOp
    <3> QED BY <3>1, <3>2
  <2> QED BY <1>1, <2>1, <2>5, <2>6, <2>7, SameCount DEF AllSteps
<1>4. CASE o.why \in {"retry", "stale"}
  <2>1. /\ tomb' = tomb /\ lost' = lost
        /\ LaunchFrom(o.why, of[o.key], o.key, rest, dead)
        /\ \/ list' = list
           \/ Listed(o.key) /\ list' = [list EXCEPT ![o.key].status = "running"]
    BY <1>4 DEF Killed, Save, Listed
  <2>2. started' = started
    BY <1>4, <2>1 DEF LaunchFrom
  <2> HIDE DEF rest, dead
  <2>3. Trims
    <3>1. CASE list' = list
      BY <2>2, <3>1 DEF Trims, Listed, MarkKept
    <3>2. CASE Listed(o.key) /\ list' = [list EXCEPT ![o.key].status = "running"]
      <4>1. SameTasks(list')
        BY <1>1, <3>2, TaskEnds
      <4> QED BY <2>2, <4>1 DEF SameTasks, Trims, Listed, MarkKept
    <3> QED BY <2>1, <3>1, <3>2
  <2>4. ListStep /\ FileStep
    BY <1>1, <2>1, <2>3, TrimmedList, SameFile
  <2>5. MayLaunch(o.why, o.key, dead)
    BY <1>1, <1>2, <1>4, <2>1, LivesBefore DEF MayLaunch
  <2>6. \A p \in rest \ ops : Opens(p) /\ p.sid = 0
    BY DEF rest
  <2>7. OpsStep
    BY <1>1, <1>2, <1>4, <2>1, <2>5, <2>6, SomeWhys, LaunchOpens
  <2> QED BY <1>1, <2>2, <2>4, <2>7, SameCount DEF AllSteps
<1> QED BY <1>3, <1>4 DEF Killed

LEMMA RelaunchSteps ==
  ASSUME KeyInv, Typed', HostStep, NEW o \in ops, Relaunch(o)
  PROVE  AllSteps
<1>1. /\ SidsStay(ops \ (ops \ {o})) /\ o.key \in Key /\ ~Unheard(o.key)
      /\ UNCHANGED <<list, tomb, disk, reissued, lost>>
      /\ o.key \in 0..MaxKeys /\ session \in [Key -> Statuses]
  <2>1. Mentions(o, o.key)
    BY DEF Mentions
  <2> QED BY <2>1, SidKinds, OneOpen
          DEF Relaunch, KeyInv, Typed, TypeOK, Statuses, Unheard
<1>2. LaunchFrom("auto", of[o.key], o.key, ops \ {o}, session)
  BY DEF Relaunch, Launch
<1>3. started' = started
  BY <1>2 DEF LaunchFrom
<1>4. MayLaunch("auto", o.key, session)
  BY <1>1, LivesBefore DEF MayLaunch
<1>5. OpsStep
  BY <1>1, <1>2, <1>4, SomeWhys, NothingKilled, LaunchOpens
<1> QED BY <1>1, <1>3, <1>5, QuietSteps

LEMMA ClearSteps ==
  ASSUME KeyInv, Typed', HostStep, NEW o \in ops, ClearConfirmed(o)
  PROVE  AllSteps
<1>1. /\ o.kind = "clear" /\ list' = o.tasks /\ tomb' = tomb \cup o.gone
      /\ reissued' = reissued \cup (Shown(o.tasks) \ Having(list, {"queued"}))
      /\ lost' = lost \cup (Shown(list) \ Shown(o.tasks))
      /\ ops' = ops \ {o} /\ started' = started /\ disk' = disk /\ NoNewSession
  BY DEF ClearConfirmed, Save, host, NoNewSession
<1>2. o.gone \cap Shown(o.tasks) = {} /\ o.gone \subseteq Key
  BY <1>1, OneOpen DEF KeyInv, SoundOps, Sound
<1>3. \A k \in Key : k \in Shown(o.tasks) <=> Listed(k)'
  BY <1>1 DEF Shown, Listed
<1>4. ListTickets'
  <2> SUFFICES ASSUME NEW k \in Key, list'[k].status = "queued"
               PROVE  IsTicket(k)' /\ (k \in reissued' \/ started'[k] = 0)
    BY DEF ListTickets
  <2>1. IsTicket(k)'
    BY <1>1, TicketsStay DEF KeyInv, CopiesTickets
  <2>2. k \in Shown(o.tasks)
    BY <1>1 DEF Shown
  <2> QED BY <1>1, <2>1, <2>2 DEF KeyInv, ListTickets, Having
<1>5. RemovedStays'
  <2> SUFFICES ASSUME NEW k \in tomb', list'[k].status # "absent"
               PROVE  k \in reissued'
    BY DEF RemovedStays
  <2>1. k \in Key /\ k \in Shown(o.tasks)
    BY <1>3 DEF Typed, TypeOK, Listed
  <2>2. k \in tomb
    BY <1>1, <1>2, <2>1
  <2> QED BY <1>1, <2>1, <2>2 DEF KeyInv, RemovedStays, Having
<1>6. ListStep
  <2>1. \A k \in Key : Listed(k)' => ~Unheard(k)
    BY <1>1 DEF Listed, Unheard, Mentions
  <2>2. \A k \in Key : Listed(k) /\ Lives(k)' => Listed(k)'
    <3>1. \A k \in Key : Listed(k) /\ ~Listed(k)' => k \in lost'
      BY <1>1, <1>3 DEF Shown, Listed
    <3> QED BY <3>1 DEF Lives
  <2>3. LaunchMarks'
    <3> SUFFICES ASSUME NEW k \in Key, Listed(k)', k \notin reissued'
                 PROVE  started'[k] = 0
      BY MarksStay, <1>1
    <3> QED BY <1>1, <1>3 DEF KeyInv, ListTickets, Having
  <2> QED BY <1>4, <1>5, <2>1, <2>2, <2>3 DEF ListStep
<1>7. FileStep
  <2>1. ASSUME NEW k \in tomb', k \notin tomb
        PROVE  ~Unheard(k) /\ ~Lives(k)'
    <3>1. k \in o.gone /\ k \in Key
      BY <1>1, <1>2, <2>1
    <3>2. Lives(k)' => Listed(k)
      BY <1>1, <3>1, LivesBefore
    <3>3. Listed(k) => k \in lost'
      BY <1>1, <1>2, <3>1 DEF Shown, Listed
    <3> QED BY <3>1, <3>2, <3>3 DEF Unheard, Mentions, Lives
  <2> QED BY <1>1, <2>1, SameFile
<1>8. OpsStep
  BY <1>1, SidKinds, FewerOps
<1>9. CountStep
  BY <1>1, SameCount
<1> QED BY <1>6, <1>7, <1>8, <1>9 DEF AllSteps

\* Reconciling leaves what is absent or unseen, and settles the rest.
LEMMA ReconciledSame ==
  ASSUME NEW t, NEW seen, t.status = "absent" \/ seen = ""
  PROVE  Reconciled(t, seen) = t
BY DEF Reconciled

LEMMA ReconciledSettled ==
  ASSUME NEW t \in Task, NEW seen, t.status # "absent", seen # ""
  PROVE  Reconciled(t, seen).status \in {"running", "done", "crashed"}
BY DEF Reconciled, Task

LEMMA ReconciledMark ==
  ASSUME NEW t \in Task, NEW seen
  PROVE  Reconciled(t, seen).launched = t.launched
BY DEF Reconciled, Task

LEMMA PollSteps ==
  ASSUME KeyInv, Typed', HostStep, NEW o \in ops, PollAnswered(o)
  PROVE  AllSteps
<1> DEFINE adopts(k) == list[k].status = "absent" /\ o.seen[k] # "" /\ k \notin tomb
           base == [k \in Key |-> IF adopts(k) THEN Fresh("running") ELSE list[k]]
           tasks == [k \in Key |-> Reconciled(base[k], o.seen[k])]
<1>1. /\ o.kind = "status" /\ list' = tasks /\ reissued \subseteq reissued'
      /\ UNCHANGED <<tomb, disk, lost, started>> /\ ops' = ops \ {o} /\ NoNewSession
  BY DEF PollAnswered, Save, host, NoNewSession
<1>2. \A k \in Key :
        /\ adopts(k) => list'[k].status \in {"running", "done", "crashed"}
        /\ ~adopts(k) /\ ~Listed(k) => list'[k].status = "absent"
        /\ Listed(k) => list'[k].status # "absent"
        /\ list'[k].status = "queued" => list[k].status = "queued"
  <2> SUFFICES ASSUME NEW k \in Key
               PROVE  /\ adopts(k) => list'[k].status \in {"running", "done", "crashed"}
                      /\ ~adopts(k) /\ ~Listed(k) => list'[k].status = "absent"
                      /\ Listed(k) => list'[k].status # "absent"
                      /\ list'[k].status = "queued" => list[k].status = "queued"
    OBVIOUS
  <2>1. list'[k] = Reconciled(IF adopts(k) THEN Fresh("running") ELSE list[k], o.seen[k])
    BY <1>1
  <2>2. CASE adopts(k)
    <3>1. list'[k] = Reconciled(Fresh("running"), o.seen[k]) /\ ~Listed(k) /\ o.seen[k] # ""
      BY <2>1, <2>2 DEF Listed
    <3>2. Fresh("running").status = "running"
      BY DEF Fresh, Absent
    <3>3. list'[k].status \in {"running", "done", "crashed"}
      <4>1. Fresh("running").status # "absent"
        BY <3>2
      <4>2. Reconciled(Fresh("running"), o.seen[k]).status \in {"running", "done", "crashed"}
        BY <3>1, <4>1, FreshTyped, ReconciledSettled
      <4> QED BY <3>1, <4>2
    <3> HIDE DEF adopts
    <3> QED BY <2>2, <3>1, <3>3
  <2>3. CASE ~adopts(k)
    <3>1. list'[k] = Reconciled(list[k], o.seen[k])
      BY <2>1, <2>3
    <3> HIDE DEF adopts
    <3>2. \/ list'[k] = list[k]
          \/ Listed(k) /\ list'[k].status \in {"running", "done", "crashed"}
      <4>1. CASE list[k].status = "absent" \/ o.seen[k] = ""
        <5>1. Reconciled(list[k], o.seen[k]) = list[k]
          BY <4>1, ReconciledSame
        <5> QED BY <3>1, <5>1
      <4>2. CASE list[k].status # "absent" /\ o.seen[k] # ""
        <5>1. Reconciled(list[k], o.seen[k]).status \in {"running", "done", "crashed"}
          <6>1. list[k] \in Task
            BY DEF KeyInv, Typed, TypeOK
          <6> QED BY <4>2, <6>1, ReconciledSettled
        <5> QED BY <3>1, <4>2, <5>1 DEF Listed
      <4> QED BY <4>1, <4>2
    <3> QED BY <2>3, <3>2 DEF Listed
  <2> QED BY <2>2, <2>3
<1>3. \A k \in Key : Listed(k)' => Listed(k) \/ adopts(k)
  BY <1>2 DEF Listed
<1>4. \A k \in Key : Listed(k) => Listed(k)'
  BY <1>2 DEF Listed
<1>5. \A k \in Key : adopts(k) => ~Unheard(k) /\ k \notin tomb
  BY DEF Unheard, Mentions
<1>6. ASSUME NEW k \in Key, Listed(k)
      PROVE  MarkKept(k)
  <2>1. list'[k] = Reconciled(list[k], o.seen[k]) /\ list[k] \in Task
    BY <1>1, <1>6 DEF Listed, KeyInv, Typed, TypeOK
  <2> QED BY <1>1, <2>1, ReconciledMark DEF MarkKept
<1>7. reissued' = reissued \cup Returned(list')
  BY <1>1 DEF PollAnswered
<1> HIDE DEF adopts, tasks
<1>8. LaunchMarks'
  <2>1. ASSUME NEW k \in Key, Listed(k)', ~Listed(k), IsTicket(k)', started'[k] # 0
        PROVE  k \in reissued'
    <3>1. IsTicket(k)
      BY <1>3, <1>5, <2>1, TicketsBefore
    <3>2. started[k] > 0
      BY <1>1, <2>1 DEF KeyInv, Typed
    <3> QED BY <1>7, <2>1, <3>1, <3>2 DEF Returned, Shown, Listed
  <2> QED BY <1>1, <1>6, <2>1, MarksStay
<1>9. ListTickets'
  BY <1>1, <1>2, TicketsStay DEF KeyInv, ListTickets
<1>10. RemovedStays'
  BY <1>1, <1>3, <1>5 DEF KeyInv, RemovedStays, Listed, Typed, TypeOK
<1>11. ListStep
  BY <1>3, <1>4, <1>5, <1>8, <1>9, <1>10, Heard DEF ListStep
<1>12. OpsStep
  BY <1>1, SidKinds, FewerOps
<1> QED BY <1>1, <1>11, <1>12, SameCount, SameFile DEF AllSteps

\* What is stored is what is posted or what was on file; what leaves the file
\* unlisted is lost.
LEMMA StoredTasks ==
  ASSUME NEW tasks, NEW removed, NEW k \in Key
  PROVE  /\ \/ Stored(tasks, removed).tasks[k] = Absent
            \/ Stored(tasks, removed).tasks[k] = tasks[k]
            \/ Stored(tasks, removed).tasks[k] = disk.tasks[k]
         /\ k \notin disk.removed \cup removed /\ tasks[k].status # "absent"
              => Stored(tasks, removed).tasks[k] = tasks[k]
         /\ Stored(tasks, removed).removed = disk.removed \cup removed
         /\ Filed(k) /\ k \notin Forgotten(tasks, removed) =>
              Listed(k) \/ Stored(tasks, removed).tasks[k].status # "absent"
<1>1. /\ \/ Stored(tasks, removed).tasks[k] = Absent
         \/ Stored(tasks, removed).tasks[k] = tasks[k]
         \/ Stored(tasks, removed).tasks[k] = disk.tasks[k]
      /\ k \notin disk.removed \cup removed /\ tasks[k].status # "absent"
              => Stored(tasks, removed).tasks[k] = tasks[k]
      /\ Stored(tasks, removed).removed = disk.removed \cup removed
  BY DEF Stored
<1>2. Filed(k) /\ k \notin Forgotten(tasks, removed) =>
              Listed(k) \/ Stored(tasks, removed).tasks[k].status # "absent"
  BY DEF Forgotten, Shown, Filed, Listed
<1> QED BY <1>1, <1>2

\* The file is written with tasks and removals that were heard of.
LEMMA FileWritten ==
  ASSUME KeyInv, Typed', HostStep, NEW tasks, NEW removed \in SUBSET tomb,
         disk' = Stored(tasks, removed), lost' = lost \cup Forgotten(tasks, removed),
         UNCHANGED <<list, tomb>>,
         \A k \in Key : /\ tasks[k].status # "absent" => ~Unheard(k)
                        /\ tasks[k].status = "queued" => IsTicket(k)
  PROVE  FileStep
<1>1. Absent.status = "absent"
  BY DEF Absent
<1>2. \A k \in Key : Filed(k)' \/ k \in tomb' \/ k \in disk'.removed => ~Unheard(k)
  BY <1>1, StoredTasks DEF Filed, Unheard
<1>3. \A k \in Key : disk'.tasks[k].status = "queued" => IsTicket(k)'
  BY <1>1, StoredTasks, TicketsStay DEF KeyInv, CopiesTickets
<1>4. ASSUME NEW k \in Key, Lives(k)'
      PROVE  /\ k \notin tomb' /\ k \notin disk'.removed
             /\ Filed(k) => Filed(k)' \/ Listed(k)'
  <2>1. k \notin tomb /\ k \notin disk.removed
    BY <1>4, LivesBefore
  <2>2. disk'.removed = disk.removed \cup removed
    BY StoredTasks
  <2>3. k \notin Forgotten(tasks, removed)
    BY <1>4 DEF Lives
  <2>4. Filed(k) => Listed(k) \/ Filed(k)'
    BY <2>3, StoredTasks DEF Filed
  <2>5. Listed(k) => Listed(k)'
    BY DEF Listed
  <2> QED BY <2>1, <2>2, <2>4, <2>5
<1> QED BY <1>2, <1>3, <1>4 DEF FileStep

LEMMA RegisterSteps ==
  ASSUME KeyInv, Typed', HostStep, NEW o \in ops, AgentRegisters(o)
  PROVE  AllSteps
<1>1. /\ o.kind = "agent" /\ disk' = Stored(o.tasks, {}) /\ ops' = ops \ {o}
      /\ lost' = lost \cup Forgotten(o.tasks, {})
      /\ UNCHANGED <<list, tomb, started, reissued>> /\ NoNewSession
  BY DEF AgentRegisters, host, NoNewSession
<1>2. FileStep
  <2>1. \A k \in Key : /\ o.tasks[k].status # "absent" => ~Unheard(k)
                       /\ o.tasks[k].status = "queued" => IsTicket(k)
    BY DEF Unheard, Mentions, KeyInv, CopiesTickets
  <2>2. {} \in SUBSET tomb
    OBVIOUS
  <2> QED BY <1>1, <2>1, <2>2, FileWritten
<1>3. SidsStay(ops \ ops')
  <2>1. o.sid # 0 /\ o.tasks[o.sid].status # "absent"
    BY <1>1 DEF KeyInv, SoundOps, Sound
  <2>2. o.sid \in Key
    BY <2>1, OneOpen, KeyOrZero DEF KeyInv
  <2>3. Lives(o.sid)' => o.sid \notin disk.removed
    BY <1>1, <2>2, LivesBefore
  <2>4. Lives(o.sid)' => Filed(o.sid)'
    BY <1>1, <2>1, <2>2, <2>3, StoredTasks DEF Filed
  <2> QED BY <1>1, <2>4 DEF SidsStay
<1>4. OpsStep
  BY <1>1, <1>3, FewerOps
<1> QED BY <1>1, <1>2, <1>4, SameList, SameCount DEF AllSteps

LEMMA AnswerSteps ==
  ASSUME KeyInv, Typed', HostStep, NEW o \in ops, Answer(o)
  PROVE  AllSteps
<1>1. CASE KillRefused(o)
  BY <1>1, SidKinds, AnsweringSteps DEF KillRefused, host, NoNewSession
<1>2. CASE ClearDismissed(o)
  BY <1>2, SidKinds, AnsweringSteps DEF ClearDismissed, host, NoNewSession
<1> QED BY <1>1, <1>2, AnsweredSteps, ProbedSteps, ConfirmedSteps, KilledSteps,
           RelaunchSteps, ClearSteps, PollSteps, RegisterSteps DEF Answer

LEMMA HostSteps ==
  ASSUME KeyInv, Typed', HostStep,
         \/ \E k \in Key : Ends(k) \/ HostLoses(k)
         \/ Push \/ Reload
  PROVE  AllSteps
<1>1. CASE \E k \in Key : Ends(k) \/ HostLoses(k)
  <2>1. NoNewSession
    BY <1>1 DEF Ends, HostLoses, NoNewSession, KeyInv, Typed, TypeOK
  <2>2. SidsStay(ops \ ops)
    BY DEF SidsStay
  <2> QED BY <1>1, <2>1, <2>2, AnsweringSteps DEF Ends, HostLoses, client
<1>2. CASE Push
  <2>1. FileStep
    BY <1>2, FileWritten, Heard DEF Push, Listed, KeyInv, ListTickets
  <2>2. SidsStay(ops \ ops)
    BY DEF SidsStay
  <2>3. OpsStep
    BY <1>2, <2>2, FewerOps DEF Push, host, NoNewSession
  <2> QED BY <1>2, <2>1, <2>3, SameList, SameCount DEF AllSteps, Push
<1>3. CASE Reload
  <2>1. SidsStay(ops \ ops')
    BY <1>3 DEF Reload, SidsStay, Lives
  <2> QED BY <1>3, <2>1, AnsweringSteps DEF Reload, host, NoNewSession
<1> QED BY <1>1, <1>2, <1>3

-----------------------------------------------------------------------------
(* What users, the agent and the timers begin.                              *)

\* Clear finished reads the list.
LEMMA ClearAskedSteps ==
  ASSUME KeyInv, Typed', HostStep, ClearAsked
  PROVE  AllSteps
<1> DEFINE finished == Having(list, Ended)
<1>1. PICK o : o = [Blank EXCEPT !.kind = "clear", !.gone = finished,
                                 !.tasks = Without(list, finished)]
  OBVIOUS
<1>2. /\ ops' = ops \cup {o} /\ NoNewSession
      /\ UNCHANGED <<list, tomb, disk, reissued, started, lost>>
  BY <1>1 DEF ClearAsked, host, NoNewSession
<1>3. /\ o.kind = "clear" /\ o.key = 0 /\ o.sid = 0 /\ o.gone = finished
      /\ o.tasks = Without(list, finished)
      /\ \A k \in Key : o.seen[k] = ""
  BY <1>1 DEF Blank
<1>4. \A k \in Key : /\ k \in finished => Listed(k)
                     /\ Without(list, finished)[k] = IF k \in finished THEN Absent ELSE list[k]
  BY DEF Without, Having, Listed, Ended
<1> HIDE DEF finished
<1>5. \A k \in Key : /\ k \in o.gone => Listed(k) /\ o.tasks[k].status = "absent"
                     /\ o.tasks[k].status # "absent" => Listed(k)
                     /\ o.tasks[k].status = "queued" => list[k].status = "queued"
  <2>1. \A k \in Key : o.tasks[k] = IF k \in o.gone THEN Absent ELSE list[k]
    BY <1>3, <1>4
  <2>2. Absent.status = "absent"
    BY DEF Absent
  <2> QED BY <1>3, <1>4, <2>1, <2>2 DEF Listed
<1>6. o.gone \subseteq Key
  BY <1>3 DEF finished, Having
<1>7. Sound(o)'
  BY <1>3, <1>5, <1>6 DEF Sound, Shown
<1>8. 0 \notin Key
  BY DEF Key
<1>9. Opens(o)
  <2>1. \A k \in Key : o.tasks[k].status = "queued" => IsTicket(k)'
    BY <1>5, TicketsIdle DEF KeyInv, ListTickets
  <2>2. \A k \in Key : Mentions(o, k) => ~Unheard(k)
    BY <1>3, <1>5, <1>8, Heard DEF Mentions
  <2> QED BY <1>3, <1>5, <1>7, <1>8, <2>1, <2>2 DEF Opens
<1>10. SidsStay(ops \ ops')
  BY <1>2 DEF SidsStay
<1> QED BY <1>2, <1>9, <1>10, OneMoreOp, QuietSteps

\* What the page takes over from the file is on file and was not removed.
LEMMA MergedTasks ==
  ASSUME NEW removed, NEW k \in Key
  PROVE  /\ Listed(k) => Merged(list, removed)[k] = list[k]
         /\ k \in removed => Merged(list, removed)[k] = list[k]
         /\ ~Listed(k) /\ k \notin removed => Merged(list, removed)[k] = disk.tasks[k]
BY DEF Merged, Listed

\* A list that took over what is on file.
LEMMA MergedList ==
  ASSUME KeyInv, Typed', HostStep, UNCHANGED <<disk, started>>, lost \subseteq lost',
         reissued' = reissued \cup Returned(list'),
         \A k \in tomb' : k \in tomb \/ ~Listed(k)',
         \A k \in Key : /\ Listed(k) /\ Lives(k)' => Listed(k)'
                        /\ Listed(k)' => \/ list'[k] = list[k]
                                         \/ /\ ~Listed(k) /\ k \notin tomb
                                            /\ list'[k] = disk.tasks[k]
  PROVE  ListStep
<1>1. \A k \in Key : Listed(k)' => Listed(k) \/ Filed(k)
  BY DEF Listed, Filed
<1>2. ListTickets'
  <2> SUFFICES ASSUME NEW k \in Key, list'[k].status = "queued"
               PROVE  IsTicket(k)' /\ (k \in reissued' \/ started'[k] = 0)
    BY DEF ListTickets
  <2>1. CASE list'[k] = list[k]
    BY <2>1, TicketsStay DEF KeyInv, ListTickets
  <2>2. CASE ~Listed(k) /\ list'[k] = disk.tasks[k]
    <3>1. IsTicket(k) /\ IsTicket(k)'
      BY <2>2, TicketsStay DEF KeyInv, CopiesTickets
    <3>2. k \in Shown(list') \ Shown(list)
      BY <2>2 DEF Shown, Listed
    <3>3. started[k] > 0 => k \in reissued'
      BY <3>1, <3>2 DEF Returned
    <3>4. started[k] \in Nat
      BY DEF KeyInv, Typed
    <3> QED BY <3>1, <3>3, <3>4
  <2> QED BY <2>1, <2>2 DEF Listed
<1>3. RemovedStays'
  <2> SUFFICES ASSUME NEW k \in tomb', list'[k].status # "absent"
               PROVE  k \in reissued'
    BY DEF RemovedStays
  <2>1. k \in Key /\ k \in tomb
    BY DEF Typed, TypeOK, Listed
  <2> QED BY <2>1 DEF KeyInv, RemovedStays, Listed
<1>4. LaunchMarks'
  <2>1. ASSUME NEW k \in Key, Listed(k)', IsTicket(k)', started'[k] # 0,
               ~(Listed(k) /\ list'[k] = list[k])
        PROVE  k \in reissued'
    <3>1. ~Listed(k) /\ Filed(k)
      BY <2>1 DEF Listed, Filed
    <3>2. IsTicket(k)
      BY <2>1, <3>1, TicketsBefore DEF Unheard
    <3>3. started[k] > 0
      BY <2>1 DEF KeyInv, Typed
    <3> QED BY <2>1, <3>1, <3>2, <3>3 DEF Returned, Shown, Listed
  <2> QED BY <2>1, MarksStay DEF MarkKept
<1> QED BY <1>1, <1>2, <1>3, <1>4 DEF ListStep, Unheard

LEMMA PullSteps ==
  ASSUME KeyInv, Typed', HostStep, Pull
  PROVE  AllSteps
<1> DEFINE removed == tomb \cup disk.removed
<1>1. /\ list' = Without(Merged(list, removed), removed) /\ tomb' = removed
      /\ reissued' = reissued \cup Returned(list')
      /\ UNCHANGED <<disk, started, lost, ops>> /\ NoNewSession
  BY DEF Pull, host, NoNewSession
<1>2. \A k \in Key : IF k \in removed THEN ~Listed(k)'
                       ELSE list'[k] = Merged(list, removed)[k]
  BY <1>1 DEF Without, Listed, Absent
<1>3. \A k \in tomb' : ~Listed(k)'
  BY <1>1, <1>2 DEF Typed, TypeOK
<1>4. ASSUME NEW k \in Key, Listed(k), Lives(k)'
      PROVE  Listed(k)'
  <2>1. k \notin removed
    BY <1>1, <1>4, LivesBefore
  <2> QED BY <1>2, <1>4, <2>1, MergedTasks DEF Listed
<1>5. ASSUME NEW k \in Key, Listed(k)'
      PROVE  \/ list'[k] = list[k]
             \/ ~Listed(k) /\ k \notin tomb /\ list'[k] = disk.tasks[k]
  BY <1>2, <1>5, MergedTasks
<1>6. ListStep
  BY <1>1, <1>3, <1>4, <1>5, MergedList
<1>7. ASSUME NEW k \in tomb', k \notin tomb
      PROVE  ~Unheard(k) /\ ~Lives(k)'
  <2>1. k \in disk.removed /\ k \in Key
    BY <1>1, <1>7 DEF Typed, TypeOK
  <2> QED BY <1>1, <2>1, LivesBefore DEF Unheard
<1>8. FileStep
  BY <1>1, <1>7, SameFile
<1>9. OpsStep
  BY <1>1, FewerOps DEF SidsStay
<1> QED BY <1>1, <1>6, <1>8, <1>9, SameCount DEF AllSteps

\* A task has a status in the answer to a poll only if it is on file.
LEMMA StatusesFiled ==
  ASSUME NEW k, NEW blind, LiveStatus(k, blind) # ""
  PROVE  Filed(k)
BY DEF LiveStatus, Filed

LEMMA PollAsksSteps ==
  ASSUME KeyInv, Typed', HostStep, PollAsks
  PROVE  AllSteps
<1>1. /\ list' = Merged(list, tomb) /\ reissued' = reissued \cup Returned(list')
      /\ UNCHANGED <<tomb, disk, started, lost>> /\ NoNewSession
  BY DEF PollAsks, host, NoNewSession
<1>2. PICK blind, seen, o :
        /\ seen = [k \in Key |-> LiveStatus(k, blind)]
        /\ o = [Blank EXCEPT !.kind = "status", !.seen = seen]
        /\ ops' = ops \cup {o}
  BY DEF PollAsks
<1>3. \A k \in Key : \/ list'[k] = list[k]
                     \/ ~Listed(k) /\ k \notin tomb /\ list'[k] = disk.tasks[k]
  BY <1>1, MergedTasks
<1>4. \A k \in Key : Listed(k) => Listed(k)'
  BY <1>1, MergedTasks DEF Listed
<1>5. \A k \in tomb' : k \in tomb \/ ~Listed(k)'
  BY <1>1
<1>6. ListStep
  BY <1>1, <1>3, <1>4, <1>5, MergedList
<1>7. FileStep
  BY <1>1, SameFile
<1>8. /\ o.kind = "status" /\ o.key = 0 /\ o.sid = 0 /\ o.gone = {}
      /\ \A k \in Key : o.tasks[k].status = "absent" /\ o.seen[k] = seen[k]
  BY <1>2 DEF Blank, Absent
<1>9. \A k \in Key : seen[k] # "" => Filed(k)
  BY <1>2, StatusesFiled
<1>10. Opens(o)
  <2>1. Sound(o)'
    BY <1>8 DEF Sound
  <2>2. 0 \notin Key
    BY DEF Key
  <2>3. \A k \in Key : Mentions(o, k) => ~Unheard(k)
    BY <1>8, <1>9, <2>2 DEF Mentions, Unheard
  <2> QED BY <1>8, <2>1, <2>2, <2>3 DEF Opens
<1>11. OpsStep
  BY <1>1, <1>2, <1>10, OneMoreOp DEF SidsStay
<1> QED BY <1>1, <1>6, <1>7, <1>11, SameCount DEF AllSteps

\* An operation about a listed task opens.
LEMMA ListedOpens ==
  ASSUME KeyInv, Typed', HostStep, NEW k \in Key, Listed(k), NEW o,
         NEW kind \in {"kill", "probe", "wait", "confirm"}, NEW why, NEW busy,
         \/ o = [Blank EXCEPT !.kind = kind, !.why = why, !.key = k]
         \/ o = [Blank EXCEPT !.kind = kind, !.key = k, !.busy = busy],
         ops' = ops \cup {o}, UNCHANGED <<list, tomb, disk, session, reissued, started, lost>>
  PROVE  AllSteps
<1>1. Opens(o)
  BY Heard, KeyOpOpens
<1>2. SidsStay(ops \ ops') /\ NoNewSession
  BY DEF SidsStay, NoNewSession
<1> QED BY <1>1, <1>2, OneMoreOp, QuietSteps

LEMMA ClickSteps ==
  ASSUME KeyInv, Typed', HostStep, NEW m \in Model, Download(m)
  PROVE  AllSteps
<1> DEFINE mine == {k \in Key : of[k] = m}
           busy == Having(list, {"running", "queued"}) # {}
           zombies == {k \in mine \cap Having(list, Ended) : ~IsTicket(k)}
           probe(z) == [Blank EXCEPT !.kind = "probe", !.key = z, !.busy = busy]
<1>1. UNCHANGED <<tomb, disk, reissued, lost>>
  BY DEF Download
<1>2. CASE Proceed(m, busy, ops)
  BY <1>1, <1>2, ProceedSteps DEF SidsStay
<1>3. CASE \E z \in zombies : NoLaunch(ops \cup {probe(z)}) /\ UNCHANGED list
  <2>1. PICK z \in zombies : NoLaunch(ops \cup {probe(z)}) /\ UNCHANGED list
    BY <1>3
  <2>2. z \in Key /\ Listed(z)
    BY DEF Having, Ended, Listed
  <2> HIDE DEF zombies
  <2>3. PICK b : b = busy
    OBVIOUS
  <2>4. PICK o : o = [Blank EXCEPT !.kind = "probe", !.key = z, !.busy = b]
    OBVIOUS
  <2>5. ops' = ops \cup {o} /\ UNCHANGED <<session, started>>
    BY <2>1, <2>3, <2>4 DEF NoLaunch, host
  <2> QED BY <1>1, <2>1, <2>2, <2>4, <2>5, ListedOpens
<1> QED BY <1>2, <1>3 DEF Download

LEMMA RemoveSteps ==
  ASSUME KeyInv, Typed', HostStep, NEW k \in Key, Remove(k) \/ Restart(k)
  PROVE  AllSteps
<1>1. PICK why : ops' = ops \cup {[Blank EXCEPT !.kind = "kill", !.why = why, !.key = k]}
  BY DEF Remove, Restart
<1>2. PICK o : o = [Blank EXCEPT !.kind = "kill", !.why = why, !.key = k]
  OBVIOUS
<1>3. Listed(k) /\ UNCHANGED <<list, tomb, disk, session, reissued, started, lost>>
  BY DEF Remove, Restart, Shown, Listed, host
<1> QED BY <1>1, <1>2, <1>3, ListedOpens

\* The agent's launch: the new session's key is in the answer it will post.
LEMMA AgentSteps ==
  ASSUME KeyInv, Typed', HostStep, NEW m \in Model, AgentLaunches(m)
  PROVE  AllSteps
<1>1. PICK n \in Key : n = next
  BY NextKey DEF AgentLaunches, KeyInv
<1>2. PICK tasks : tasks = [disk.tasks EXCEPT ![n] = Fresh("running")]
  OBVIOUS
<1>3. PICK o : o = [Blank EXCEPT !.kind = "agent", !.sid = n, !.tasks = tasks]
  OBVIOUS
<1>4. /\ ops' = ops \cup {o} /\ next' = next + 1 /\ session' = [session EXCEPT ![n] = "live"]
      /\ UNCHANGED <<list, tomb, disk, started, reissued, lost>>
  BY <1>1, <1>2, <1>3 DEF AgentLaunches
<1>5. /\ o.kind = "agent" /\ o.sid = n /\ o.key = 0 /\ o.gone = {} /\ o.tasks = tasks
      /\ \A k \in Key : o.seen[k] = ""
  BY <1>3 DEF Blank
<1>6. Fresh("running").status = "running"
  BY DEF Fresh, Absent
<1>7. disk.tasks \in Tasks /\ session \in [Key -> Statuses] /\ next \in Nat /\ n # 0
  BY BoundsAreNatural DEF KeyInv, Typed, TypeOK, Tasks, Statuses, Key
<1>8. \A k \in Key : tasks[k].status = IF k = n THEN "running" ELSE disk.tasks[k].status
  BY <1>2, <1>6, <1>7 DEF Tasks
<1>9. \A k \in Key : session'[k] = IF k = n THEN "live" ELSE session[k]
  BY <1>4, <1>7
<1>10. Opens(o)
  <2>1. Sound(o)'
    BY <1>5, <1>7, <1>8 DEF Sound
  <2>2. \A k \in Key : o.tasks[k].status = "queued" => IsTicket(k)'
    BY <1>5, <1>8, TicketsIdle DEF KeyInv, CopiesTickets
  <2>3. 0 \notin Key
    BY DEF Key
  <2>4. \A k \in Key : Mentions(o, k) => ~Unheard(k) \/ (o.kind = "agent" /\ k = o.sid)
    BY <1>5, <1>8, <2>3 DEF Mentions, Unheard, Filed
  <2>5. session'[o.sid] # "none"
    BY <1>5, <1>9
  <2> QED BY <1>1, <1>4, <1>5, <2>1, <2>2, <2>3, <2>4, <2>5 DEF Opens
<1>11. OpsStep
  <2>1. \A p \in ops' \ ops : p = o
    BY <1>4
  <2>2. SidsStay(ops \ ops')
    BY <1>4 DEF SidsStay
  <2>3. \A k \in Key : Lives(k)' /\ session[k] # "live" => \E p \in ops' : p.sid = k
    <3>1. \A k \in Key : Lives(k)' /\ session[k] # "live" => k = n
      BY <1>9 DEF Lives
    <3>2. o \in ops' /\ o.sid = n
      BY <1>4, <1>5
    <3> QED BY <3>1, <3>2
  <2> QED BY <1>10, <2>1, <2>2, <2>3 DEF OpsStep
<1> QED BY <1>4, <1>11, QuietSteps

\* Start now: on a ticket that waits or lacks the mark, or on one that ended or went.
LEMMA StartSteps ==
  ASSUME KeyInv, Typed', HostStep, NEW k \in Key, StartNow(k)
  PROVE  AllSteps
<1>1. PICK why \in {"queue", "again"} :
        /\ LaunchFrom(why, of[k], k, ops, session)
        /\ why = "queue" <=> list[k].status \in {"queued", "running"}
  BY DEF StartNow, Launch
<1>2. /\ IsTicket(k) /\ UNCHANGED <<tomb, disk, lost, reissued>>
      /\ started' = IF why = "queue" THEN [started EXCEPT ![k] = @ + 1] ELSE started
  BY <1>1 DEF StartNow, LaunchFrom
<1>3. k \in 0..MaxKeys /\ session \in [Key -> Statuses] /\ started \in [Key -> Nat]
      /\ list \in Tasks
  BY BoundsAreNatural DEF Key, KeyInv, Typed, TypeOK, Statuses, Tasks
<1>4. MayLaunch(why, k, session)
  BY <1>1, <1>2, TicketsIdle DEF MayLaunch
<1>5. OpsStep
  BY <1>1, <1>3, <1>4, SomeWhys, NothingKilled, LaunchOpens DEF SidsStay
<1>6. CountStep
  <2>1. CASE why = "queue"
    <3>1. k \in reissued \/ started[k] = 0
      BY <1>1, <1>2, <2>1 DEF StartNow, KeyInv, ListTickets, LaunchMarks, Listed
    <3> QED BY <1>2, <2>1, <3>1, TicketCounted
  <2>2. CASE why = "again"
    BY <1>2, <2>2, SameCount
  <2> QED BY <2>1, <2>2
<1>7. FileStep
  BY <1>2, SameFile
<1>8. Trims
  <2>1. CASE Listed(k)
    <3>1. list' = Flipped(list, k)
      BY <2>1 DEF StartNow, Save, Listed
    <3>2. \A j \in Key : /\ list'[j].status = IF j = k THEN "running" ELSE list[j].status
                         /\ list'[j].launched = IF j = k THEN TRUE ELSE list[j].launched
      BY <1>3, <3>1 DEF Flipped, Tasks, Task
    <3> QED BY <1>2, <1>3, <2>1, <3>2 DEF Trims, Listed, MarkKept
  <2>2. CASE ~Listed(k)
    <3>1. list' = list /\ why # "queue"
      BY <1>1, <2>2 DEF StartNow, Listed
    <3> QED BY <1>2, <3>1 DEF Trims, Listed, MarkKept
  <2> QED BY <2>1, <2>2
<1>9. ListStep
  BY <1>2, <1>8, TrimmedList
<1> QED BY <1>5, <1>6, <1>7, <1>9 DEF AllSteps

LEMMA BeginSteps ==
  ASSUME KeyInv, Typed', HostStep, Begins
  PROVE  AllSteps
<1>1. CASE AMinutePasses
  BY <1>1, AnsweringSteps DEF AMinutePasses, client, host, NoNewSession, SidsStay
<1> QED BY <1>1, ClearAskedSteps, PullSteps, PollAsksSteps, ClickSteps, AgentSteps,
           StartSteps, RemoveSteps DEF Begins

-----------------------------------------------------------------------------
(* The theorems.                                                            *)

LEMMA InitKey == ASSUME Init PROVE KeyInv
<1>1. Typed
  BY InitTyped
<1>2. /\ list = [k \in Key |-> Absent] /\ tomb = {} /\ ops = {} /\ reissued = {}
      /\ disk = [tasks |-> [k \in Key |-> Absent], removed |-> {}]
      /\ session = [k \in Key |-> "none"] /\ started = [k \in Key |-> 0]
  BY DEF Init
<1>3. Absent.status = "absent"
  BY DEF Absent
<1>4. \A k \in Key : list[k].status = "absent" /\ disk.tasks[k].status = "absent"
  BY <1>2, <1>3
<1>5. disk.removed = {}
  BY <1>2
<1>6. FreshKeys
  BY <1>2, <1>4, <1>5 DEF FreshKeys, Unheard, Listed, Filed
<1>7. PendingKeys /\ SoundOps /\ CopiesTickets /\ ListTickets
  BY <1>2, <1>4 DEF PendingKeys, SoundOps, CopiesTickets, ListTickets
<1>8. LaunchMarks /\ TicketOnce /\ RemovedStays /\ LiveKeys
  BY <1>2 DEF LaunchMarks, TicketOnce, RemovedStays, LiveKeys
<1> QED BY <1>1, <1>6, <1>7, <1>8 DEF KeyInv

LEMMA StepKey == ASSUME KeyInv, [Next]_vars PROVE KeyInv'
<1>1. Typed' /\ HostStep
  BY StepTyped, StepHost DEF KeyInv
<1>2. CASE UNCHANGED vars
  <2>1. AllSteps
    BY <1>1, <1>2, AnsweringSteps DEF vars, NoNewSession, SidsStay
  <2> QED BY <1>1, <2>1, StepsKeepKeyInv DEF AllSteps
<1>3. CASE Next
  <2>1. AllSteps
    BY <1>1, <1>3, BeginSteps, WatcherSteps, AnswerSteps, HostSteps DEF Next, Reacts
  <2> QED BY <1>1, <2>1, StepsKeepKeyInv DEF AllSteps
<1> QED BY <1>2, <1>3

LEMMA KeysKept == Spec => []KeyInv
<1>1. Init => KeyInv
  BY InitKey
<1>2. KeyInv /\ [Next]_vars => KeyInv'
  BY StepKey
<1> QED BY <1>1, <1>2, PTL DEF Spec

\* A queue ticket is launched from the queue once: looks at the queue and Start
\* now on a ticket that waits or is being started, with late answers, crossing
\* polls and removals.  Left out are tickets that came back from an old copy, and
\* starts from the card of a ticket that ended or went, which the code repeats.
THEOREM TicketsStartOnce == Spec => []TicketOnce
<1>1. KeyInv => TicketOnce
  BY DEF KeyInv
<1> QED BY <1>1, KeysKept, PTL

\* A removed task is not brought back by the server's file, a poll or an
\* answer under way; only a list replaced by an older copy brings it back.
THEOREM RemovedStayAway == Spec => []RemovedStays
<1>1. KeyInv => RemovedStays
  BY DEF KeyInv
<1> QED BY <1>1, KeysKept, PTL

\* A running download is listed, on file, awaited by an open request, or among
\* the sessions that one of the named steps lost.
THEOREM DownloadsKnown == Spec => []EveryDownloadKnown
<1>1. KeyInv => EveryDownloadKnown
  BY DEF KeyInv, LiveKeys, Listed, Filed, Shown, EveryDownloadKnown
<1> QED BY <1>1, KeysKept, PTL
=============================================================================
