---------------------- MODULE TaskSchedulerRunsProofs ----------------------
(***************************************************************************)
(* What holds of the runs the scheduler has under way: nobody waits for a  *)
(* semaphore that is lost, no mark, row or trigger is left behind.         *)
(***************************************************************************)
EXTENDS TaskSchedulerProofs

-----------------------------------------------------------------------------
(* Sequences without repetition, as the queue of waiters is one. *)

Distinct(q) == \A i, j \in DOMAIN q : q[i] = q[j] => i = j
Has(q, r) == \E i \in DOMAIN q : q[i] = r

\* What leaves with the head of a queue is the head.
LEMMA TailElements ==
    ASSUME NEW q \in Seq(Runs), q # <<>>, Distinct(q)
    PROVE  /\ Distinct(Tail(q))
           /\ Has(q, Head(q))
           /\ \A s : Has(Tail(q), s) <=> Has(q, s) /\ s # Head(q)
<1>1. /\ Len(q) \in Nat /\ DOMAIN q = 1 .. Len(q) /\ Head(q) = q[1]
      /\ Len(q) # 0
  BY LenProperties, EmptySeq
<1>2. /\ Tail(q) \in Seq(Runs) /\ Len(Tail(q)) = Len(q) - 1
      /\ \A i \in 1 .. Len(Tail(q)) : Tail(q)[i] = q[i + 1]
  BY HeadTailProperties
<1>3. DOMAIN Tail(q) = 1 .. Len(q) - 1
  BY <1>2, LenProperties
<1>4. Distinct(Tail(q))
  BY <1>1, <1>2, <1>3 DEF Distinct
<1>5. Has(q, Head(q))
  BY <1>1 DEF Has
<1>6. ASSUME NEW s, Has(Tail(q), s) PROVE Has(q, s) /\ s # Head(q)
  <2>1. PICK i \in 1 .. Len(q) - 1 : q[i + 1] = s
    BY <1>2, <1>3, <1>6 DEF Has
  <2>2. i + 1 \in DOMAIN q /\ 1 \in DOMAIN q /\ i + 1 # 1
    BY <1>1, <2>1
  <2> QED
    BY <1>1, <2>1, <2>2 DEF Has, Distinct
<1>7. ASSUME NEW s, Has(q, s), s # Head(q) PROVE Has(Tail(q), s)
  <2>1. PICK i \in 1 .. Len(q) : q[i] = s
    BY <1>1, <1>7 DEF Has
  <2>2. i - 1 \in 1 .. Len(q) - 1 /\ Tail(q)[i - 1] = s
    BY <1>1, <1>2, <1>7, <2>1
  <2> QED
    BY <1>3, <2>2 DEF Has
<1> QED
  BY <1>4, <1>5, <1>6, <1>7

\* Whoever queues comes last and is there once.
LEMMA AppendElements ==
    ASSUME NEW q \in Seq(Runs), Distinct(q), NEW r \in Runs, ~Has(q, r)
    PROVE  /\ Distinct(Append(q, r))
           /\ \A s : Has(Append(q, r), s) <=> Has(q, s) \/ s = r
<1>1. /\ Len(q) \in Nat /\ DOMAIN q = 1 .. Len(q)
      /\ Append(q, r) \in Seq(Runs) /\ Len(Append(q, r)) = Len(q) + 1
      /\ \A i \in 1 .. Len(q) : Append(q, r)[i] = q[i]
      /\ Append(q, r)[Len(q) + 1] = r
  BY LenProperties, AppendProperties
<1>2. DOMAIN Append(q, r) = 1 .. Len(q) + 1
  BY <1>1, LenProperties
<1>3. \A i \in 1 .. Len(q) + 1 : i \in 1 .. Len(q) \/ i = Len(q) + 1
  BY <1>1
<1>4. \A i \in 1 .. Len(q) : q[i] # r
  BY <1>1 DEF Has
<1>5. Distinct(Append(q, r))
  BY <1>1, <1>2, <1>3, <1>4 DEF Distinct
<1>6. \A s : Has(Append(q, r), s) <=> Has(q, s) \/ s = r
  <2>1. 1 .. Len(q) \subseteq 1 .. Len(q) + 1 /\ Len(q) + 1 \in 1 .. Len(q) + 1
    BY <1>1
  <2> QED
    BY <1>1, <1>2, <1>3, <2>1 DEF Has
<1> QED
  BY <1>5, <1>6

\* A cancelled waiter leaves the queue, and nobody else does.
LEMMA WithoutElements ==
    ASSUME NEW q \in Seq(Runs), Distinct(q), NEW r
    PROVE  /\ Distinct(Without(q, r))
           /\ \A s : Has(Without(q, r), s) <=> Has(q, s) /\ s # r
<1>0. Len(q) \in Nat /\ DOMAIN q = 1 .. Len(q)
  BY LenProperties
<1>1. CASE ~Has(q, r)
  BY <1>1 DEF Without, Has
<1>2. CASE Has(q, r)
  <2>1. PICK n \in DOMAIN q : n = CHOOSE i \in DOMAIN q : q[i] = r
    BY <1>2 DEF Has
  <2>2. q[n] = r /\ n \in 1 .. Len(q)
    BY <1>0, <1>2, <2>1 DEF Has
  <2> DEFINE a == SubSeq(q, 1, n - 1)
             b == SubSeq(q, n + 1, Len(q))
             w == a \o b
  <2>3. Without(q, r) = w
    BY <1>2, <2>1 DEF Without, Has
  <2>4. /\ a \in Seq(Runs) /\ Len(a) = n - 1
        /\ \A i \in 1 .. n - 1 : a[i] = q[i]
    <3>1. \A i \in 1 .. n - 1 : q[i] \in Runs
      BY <1>0, <2>2, ElementOfSeq
    <3> QED
      BY <1>0, <2>2, <3>1, SubSeqProperties
  <2>5. /\ b \in Seq(Runs) /\ Len(b) = Len(q) - n
        /\ \A i \in 1 .. Len(q) - n : b[i] = q[n + i]
    <3>1. \A i \in n + 1 .. Len(q) : q[i] \in Runs
      BY <1>0, <2>2, ElementOfSeq
    <3>2. /\ b \in Seq(Runs)
          /\ Len(b) = IF n + 1 <= Len(q) THEN Len(q) - (n + 1) + 1 ELSE 0
          /\ \A i \in 1 .. Len(q) - (n + 1) + 1 : b[i] = q[n + 1 + i - 1]
      BY <1>0, <2>2, <3>1, SubSeqProperties
    <3> QED
      BY <1>0, <2>2, <3>2
  <2>6. /\ w \in Seq(Runs) /\ Len(w) = Len(q) - 1
        /\ \A i \in 1 .. Len(q) - 1 : w[i] = IF i <= n - 1 THEN a[i] ELSE b[i - (n - 1)]
    <3> HIDE DEF a, b
    <3>1. /\ w \in Seq(Runs) /\ Len(w) = Len(a) + Len(b)
          /\ \A i \in 1 .. Len(a) + Len(b) :
                w[i] = IF i <= Len(a) THEN a[i] ELSE b[i - Len(a)]
      BY <2>4, <2>5, ConcatProperties
    <3> QED
      BY <1>0, <2>2, <2>4, <2>5, <3>1
  <2>7. DOMAIN w = 1 .. Len(q) - 1
    BY <2>6, LenProperties
  <2> HIDE DEF a, b, w
  <2>8. \A i \in 1 .. Len(q) - 1 : w[i] = q[IF i < n THEN i ELSE i + 1]
    <3>1. ASSUME NEW i \in 1 .. Len(q) - 1
          PROVE  w[i] = q[IF i < n THEN i ELSE i + 1]
      <4>1. CASE i < n
        <5>1. i \in 1 .. n - 1 /\ i <= n - 1
          BY <1>0, <2>2, <4>1
        <5> QED
          BY <2>4, <2>6, <4>1, <5>1
      <4>2. CASE ~(i < n)
        <5>1. /\ ~(i <= n - 1) /\ i - (n - 1) \in 1 .. Len(q) - n
              /\ n + (i - (n - 1)) = i + 1
          BY <1>0, <2>2, <4>2
        <5> QED
          BY <2>5, <2>6, <4>2, <5>1
      <4> QED
        BY <4>1, <4>2
    <3> QED
      BY <3>1
  <2>9. Distinct(w)
    <3>1. ASSUME NEW i \in 1 .. Len(q) - 1, NEW j \in 1 .. Len(q) - 1, w[i] = w[j]
          PROVE  i = j
      <4>1. (IF i < n THEN i ELSE i + 1) = (IF j < n THEN j ELSE j + 1)
        <5>1. /\ (IF i < n THEN i ELSE i + 1) \in DOMAIN q
              /\ (IF j < n THEN j ELSE j + 1) \in DOMAIN q
          BY <1>0, <2>2
        <5> QED
          BY <2>8, <3>1, <5>1 DEF Distinct
      <4> QED
        BY <1>0, <2>2, <4>1
    <3> QED
      BY <2>7, <3>1 DEF Distinct
  <2>10. ASSUME NEW s, Has(w, s) PROVE Has(q, s) /\ s # r
    <3>1. PICK i \in 1 .. Len(q) - 1 : w[i] = s
      BY <2>7, <2>10 DEF Has
    <3>2. PICK j \in DOMAIN q : j # n /\ q[j] = s
      <4>1. /\ (IF i < n THEN i ELSE i + 1) \in DOMAIN q
            /\ (IF i < n THEN i ELSE i + 1) # n
        BY <1>0, <2>2
      <4> QED
        BY <2>8, <3>1, <4>1
    <3> QED
      BY <2>2, <3>2 DEF Has, Distinct
  <2>11. ASSUME NEW s, Has(q, s), s # r PROVE Has(w, s)
    <3>1. PICK j \in 1 .. Len(q) : q[j] = s /\ j # n
      BY <1>0, <2>2, <2>11 DEF Has
    <3>2. CASE j < n
      <4>1. j \in 1 .. Len(q) - 1
        BY <1>0, <2>2, <3>2
      <4> QED
        BY <2>7, <2>8, <3>1, <3>2, <4>1 DEF Has
    <3>3. CASE j > n
      <4>1. j - 1 \in 1 .. Len(q) - 1 /\ ~(j - 1 < n) /\ (j - 1) + 1 = j
        BY <1>0, <2>2, <3>3
      <4>2. w[j - 1] = s
        BY <2>8, <3>1, <4>1
      <4> QED
        BY <2>7, <4>1, <4>2 DEF Has
    <3> QED
      BY <1>0, <2>2, <3>1, <3>2, <3>3
  <2> QED
    BY <2>3, <2>9, <2>10, <2>11
<1> QED
  BY <1>1, <1>2

\* A queue is empty when nobody is in it.
LEMMA EmptyQueue ==
    ASSUME NEW q \in Seq(Runs)
    PROVE  q = <<>> <=> \A s \in Runs : ~Has(q, s)
<1>1. Len(q) \in Nat /\ DOMAIN q = 1 .. Len(q)
  BY LenProperties
<1>2. CASE q # <<>>
  <2>1. Len(q) # 0
    BY <1>2, EmptySeq
  <2>2. 1 \in DOMAIN q /\ q[1] \in Runs
    BY <1>1, <2>1, ElementOfSeq
  <2> QED
    BY <1>2, <2>2 DEF Has
<1>3. CASE q = <<>>
  BY <1>1, <1>3, EmptySeq DEF Has
<1> QED
  BY <1>2, <1>3

-----------------------------------------------------------------------------
(* The semaphore and its waiters. *)

Past == {"queued", "gate", "running", "closing"}

\* The waiters are the queued runs that nobody has handed the semaphore, each in
\* the queue once; the holder is somewhere past the queue, or just handed it.
QueueInv ==
    /\ Distinct(waitq)
    /\ \A r \in Runs : Has(waitq, r) => pc[r] = "queued" /\ slot # r
    /\ \A r \in Runs : pc[r] = "queued" => slot = r \/ Has(waitq, r)
    /\ waitq # <<>> => slot # NoRun
    /\ slot # NoRun => pc[slot] \in Past

\* A coroutine that leaves hands on what it holds and waits no longer.
LEMMA LeaveKeepsQueue ==
    ASSUME Typed, QueueInv, NEW r \in Runs, NEW ex, NEW hs, NEW sl,
           sl = slot \/ (slot = NoRun /\ sl = r), Exit(r, ex, hs, sl),
           \A s \in Runs \ {r} : pc'[s] = pc[s] \/ (pc[s] = "done" /\ pc'[s] = "chained"),
           pc'[r] \in {"done", "chained"}
    PROVE  QueueInv'
<1>0. /\ waitq \in Seq(Runs) /\ slot \in Runs \cup {NoRun} /\ NoRun \notin Runs
      /\ \A s \in Runs : Has(waitq, s) => pc[s] = "queued" /\ slot # s
      /\ Distinct(waitq)
  BY TasksAssumption DEF Typed, TypeOK, QueueInv
<1>1. CASE sl = r /\ waitq # <<>>
  <2>1. slot' = Head(waitq) /\ waitq' = Tail(waitq) /\ slot = r
    BY <1>0, <1>1 DEF Exit, QueueInv
  <2>2. /\ Distinct(waitq')
        /\ Has(waitq, slot')
        /\ \A s : Has(waitq', s) <=> Has(waitq, s) /\ s # slot'
        /\ slot' \in Runs /\ waitq' \in Seq(Runs)
    BY <1>0, <1>1, <2>1, TailElements, HeadTailProperties
  <2>3. ~Has(waitq, r)
    BY <1>0, <2>1
  <2>4. slot' # r /\ pc'[slot'] = "queued"
    BY <1>0, <2>2, <2>3
  <2>5. \A s \in Runs : Has(waitq', s) => pc'[s] = "queued" /\ slot' # s
    BY <1>0, <2>2, <2>3
  <2>6. \A s \in Runs : pc'[s] = "queued" => slot' = s \/ Has(waitq', s)
    BY <2>1, <2>2 DEF QueueInv
  <2> QED
    BY <1>0, <2>2, <2>4, <2>5, <2>6 DEF QueueInv, Past
<1>2. CASE sl = r /\ waitq = <<>>
  <2>1. slot' = NoRun /\ waitq' = <<>>
    BY <1>0, <1>2 DEF Exit
  <2>2. \A s \in Runs : ~Has(waitq, s)
    BY <1>0, <1>2, EmptyQueue
  <2>3. \A s \in Runs : pc'[s] # "queued"
    BY <1>0, <1>2, <2>2 DEF QueueInv
  <2> QED
    BY <1>0, <1>2, <2>1, <2>2, <2>3 DEF QueueInv
<1>3. CASE sl # r
  <2>1. slot' = slot /\ waitq' = Without(waitq, r) /\ slot # r
    BY <1>0, <1>3 DEF Exit
  <2>2. /\ Distinct(waitq')
        /\ \A s : Has(waitq', s) <=> Has(waitq, s) /\ s # r
        /\ waitq' \in Seq(Runs)
    BY <1>0, <2>1, WithoutElements, WithoutType
  <2>3. waitq' # <<>> => waitq # <<>>
    BY <1>0, <2>2, EmptyQueue
  <2>4. \A s \in Runs : Has(waitq', s) => pc'[s] = "queued" /\ slot' # s
    BY <1>0, <2>1, <2>2
  <2>5. \A s \in Runs : pc'[s] = "queued" => slot' = s \/ Has(waitq', s)
    BY <2>1, <2>2 DEF QueueInv
  <2>6. slot' # NoRun => pc'[slot'] \in Past
    BY <1>0, <2>1 DEF QueueInv, Past
  <2> QED
    BY <2>1, <2>2, <2>3, <2>4, <2>5, <2>6 DEF QueueInv
<1> QED
  BY <1>1, <1>2, <1>3

\* A coroutine that goes on was not waiting, or wakes up with the semaphore.
LEMMA EnterKeepsQueue ==
    ASSUME Typed, QueueInv, NEW r \in Runs, NEW x \in {"gate", "running", "closing"},
           pc' = [pc EXCEPT ![r] = x], UNCHANGED waitq,
           slot' = slot \/ (slot = NoRun /\ slot' = r),
           pc[r] = "queued" => slot = r
    PROVE  QueueInv'
<1>1. /\ pc \in [Runs -> PCs] /\ NoRun \notin Runs /\ waitq \in Seq(Runs)
      /\ slot \in Runs \cup {NoRun}
  BY TasksAssumption DEF Typed, TypeOK
<1>2. ~Has(waitq, r)
  BY DEF QueueInv
<1>3. slot # slot' => \A s \in Runs : ~Has(waitq, s)
  BY <1>1, EmptyQueue DEF QueueInv
<1>4. \A s \in Runs : Has(waitq, s) => pc'[s] = "queued" /\ slot' # s
  BY <1>1, <1>2, <1>3 DEF QueueInv
<1>5. \A s \in Runs : pc'[s] = "queued" => slot' = s \/ Has(waitq, s)
  BY <1>1, <1>3 DEF QueueInv
<1>6. slot' # NoRun => pc'[slot'] \in Past
  BY <1>1 DEF QueueInv, Past
<1> QED
  BY <1>1, <1>4, <1>5, <1>6 DEF QueueInv

\* So does the stretch before the first await.
LEMMA AdmitKeepsQueue ==
    ASSUME Typed, QueueInv, NEW r \in Runs, NEW t \in Tasks, of[r] = t,
           NEW hs, NEW nw, NEW ex, NEW sl,
           sl = slot \/ (slot = NoRun /\ sl = r),
           pc[r] = "queued" => slot = r,
           Admit(r, t, hs, nw, ex, sl)
    PROVE  QueueInv'
<1>1. CASE Free(r) /\ Exit(r, ex, hs, sl)
  <2>1. pc' = [pc EXCEPT ![r] = "done"] /\ pc \in [Runs -> PCs]
    BY <1>1 DEF Free, Typed, TypeOK
  <2> QED
    BY <1>1, <2>1, LeaveKeepsQueue
<1>2. CASE /\ \E x \in {"gate", "running"} : pc' = [pc EXCEPT ![r] = x]
           /\ slot' = sl /\ UNCHANGED waitq
  BY <1>2, EnterKeepsQueue
<1> QED
  BY <1>1, <1>2 DEF Admit, Begin

\* New coroutines take ids that neither wait nor hold anything.
LEMMA SpawnKeepsQueue ==
    ASSUME Typed, QueueInv, NEW ts, NEW f \in [ts -> Fresh], NEW force,
           Spawn(ts, f, "created", force), UNCHANGED <<slot, waitq>>
    PROVE  QueueInv'
<1>1. \A r \in Runs : \/ pc'[r] = pc[r]
                      \/ pc[r] = "done" /\ pc'[r] = "created"
  BY DEF Spawn, Fresh
<1>2. slot \in Runs \cup {NoRun}
  BY DEF Typed, TypeOK
<1> QED
  BY <1>1, <1>2 DEF QueueInv, Past

\* No step forgets a waiter or leaves the semaphore with a coroutine that ended.
LEMMA QueueStep ==
    ASSUME Typed, QueueInv, [Next]_vars
    PROVE  QueueInv'
<1>1. ASSUME UNCHANGED <<pc, slot, waitq>>
      PROVE  QueueInv'
  BY <1>1 DEF QueueInv
<1>2. ASSUME NEW r \in Runs, Exit(r, executing, handles, slot), Free(r)
      PROVE  QueueInv'
  <2>1. pc' = [pc EXCEPT ![r] = "done"] /\ pc \in [Runs -> PCs]
    BY <1>2 DEF Free, Typed, TypeOK
  <2> QED
    BY <1>2, <2>1, LeaveKeepsQueue
<1>3. ASSUME NEW t, NEW r \in Fresh, NEW b,
             Spawn({t}, [x \in {t} |-> r], "created", b), UNCHANGED <<slot, waitq>>
      PROVE  QueueInv'
  <2> DEFINE f == [x \in {t} |-> r]
  <2>1. f \in [{t} -> Fresh]
    OBVIOUS
  <2> HIDE DEF f
  <2> QED
    BY <1>3, <2>1, SpawnKeepsQueue DEF f
<1>4. CASE CheckDueTasks
  <2>1. CASE UNCHANGED <<runVars, executing>>
    BY <1>1, <1>4, <2>1 DEF CheckDueTasks, runVars
  <2>2. CASE \E f \in Injection(DueTasks, Fresh) : Spawn(DueTasks, f, "created", FALSE)
    <3>1. PICK f \in [DueTasks -> Fresh] : Spawn(DueTasks, f, "created", FALSE)
      BY <2>2 DEF Injection
    <3> QED
      BY <1>4, <3>1, SpawnKeepsQueue DEF CheckDueTasks
  <2> QED
    BY <1>4, <2>1, <2>2 DEF CheckDueTasks
<1>5. ASSUME NEW t \in Tasks, RunTaskNow(t) \/ ForceRun(t) PROVE QueueInv'
  BY <1>3, <1>5 DEF RunTaskNow, ForceRun, loopVars
<1>6. ASSUME NEW t \in Tasks, FireEvent(t) PROVE QueueInv'
  <2>1. CASE UNCHANGED <<runVars, executing>>
    BY <1>1, <1>6, <2>1 DEF FireEvent, runVars
  <2> QED
    BY <1>3, <1>6, <2>1 DEF FireEvent
<1>7. ASSUME NEW r \in Runs, Launch(r) PROVE QueueInv'
  <2> DEFINE t  == of[r]
             hs == [handles EXCEPT ![t] = r]
             nw == [newest EXCEPT ![t] = r]
             ex == executing \cup (IF pc[r] = "chained" THEN {t} ELSE {})
  <2>0. /\ t \in Tasks /\ pc[r] \in {"created", "chained"} /\ pc \in [Runs -> PCs]
        /\ NoRun \notin Runs /\ slot \in Runs \cup {NoRun} /\ waitq \in Seq(Runs)
    BY <1>7, TasksAssumption DEF Launch, Typed, TypeOK, HasTask
  <2>1. slot # r /\ ~Has(waitq, r)
    BY <2>0 DEF QueueInv, Past
  <2>2. CASE Free(r) /\ UNCHANGED loopVars
    <3>1. pc' = [pc EXCEPT ![r] = "done"] /\ UNCHANGED <<slot, waitq>>
      BY <2>2 DEF Free, loopVars
    <3> QED
      BY <2>0, <2>1, <3>1 DEF QueueInv, Past
  <2>3. CASE Admit(r, t, hs, nw, ex, slot)
    <3> HIDE DEF t, hs, nw, ex
    <3> QED
      BY <2>0, <2>3, AdmitKeepsQueue DEF t
  <2>4. CASE slot = NoRun /\ Admit(r, t, hs, nw, ex, r)
    <3> HIDE DEF t, hs, nw, ex
    <3> QED
      BY <2>0, <2>4, AdmitKeepsQueue DEF t
  <2>5. CASE /\ slot # NoRun /\ pc' = [pc EXCEPT ![r] = "queued"]
             /\ waitq' = Append(waitq, r) /\ UNCHANGED slot
    <3>1. /\ Distinct(waitq')
          /\ \A s : Has(waitq', s) <=> Has(waitq, s) \/ s = r
      BY <2>0, <2>1, <2>5, AppendElements DEF QueueInv
    <3>2. \A s \in Runs : Has(waitq', s) => pc'[s] = "queued" /\ slot' # s
      BY <2>0, <2>1, <2>5, <3>1 DEF QueueInv
    <3>3. \A s \in Runs : pc'[s] = "queued" => slot' = s \/ Has(waitq', s)
      BY <2>0, <2>5, <3>1 DEF QueueInv
    <3>4. slot' # NoRun /\ pc'[slot'] \in Past
      BY <2>0, <2>1, <2>5 DEF QueueInv
    <3> QED
      BY <3>1, <3>2, <3>3, <3>4 DEF QueueInv
  <2> QED
    BY <1>7, <2>2, <2>3, <2>4, <2>5 DEF Launch
<1>8. ASSUME NEW r \in Runs, Acquire(r) PROVE QueueInv'
  <2>1. /\ of[r] \in Tasks /\ slot = r
        /\ Admit(r, of[r], handles, newest, executing, slot)
    BY <1>8 DEF Acquire, Typed, HasTask
  <2> QED
    BY <2>1, AdmitKeepsQueue
<1>9. ASSUME NEW r \in Runs, PassGate(r) PROVE QueueInv'
  <2>1. CASE Begin(r, of[r], handles, executing, slot)
    <3>1. /\ pc' = [pc EXCEPT ![r] = "running"] /\ UNCHANGED <<slot, waitq>>
          /\ pc[r] # "queued"
      BY <1>9, <2>1 DEF Begin, PassGate
    <3> QED
      BY <3>1, EnterKeepsQueue
  <2> QED
    BY <1>2, <1>9, <2>1 DEF PassGate
<1>10. ASSUME NEW r \in Runs, NEW res, Conclude(r, res) PROVE QueueInv'
  <2>1. Exit(r, executing, handles, slot)
    BY <1>10 DEF Conclude
  <2>2. CASE Free(r)
    BY <1>2, <2>1, <2>2
  <2>3. CASE ~Free(r)
    <3>1. PICK c \in IF Fresh = {} THEN {r} ELSE Fresh :
             pc' = [pc EXCEPT ![r] = "done", ![c] = "chained"]
      BY <1>10, <2>3 DEF Conclude
    <3>2. c \in Runs /\ (c = r \/ pc[c] = "done") /\ pc \in [Runs -> PCs]
      BY DEF Fresh, Typed, TypeOK
    <3>3. \A s \in Runs \ {r} : \/ pc'[s] = pc[s]
                                \/ pc[s] = "done" /\ pc'[s] = "chained"
      BY <3>1, <3>2
    <3>4. pc'[r] \in {"done", "chained"}
      BY <3>1, <3>2
    <3> QED
      BY <2>1, <3>3, <3>4, LeaveKeepsQueue
  <2> QED
    BY <2>2, <2>3
<1>11. ASSUME NEW r \in Runs, NEW x, NEW m, pc[r] = "running",
              Settle(r, x, m)
       PROVE  QueueInv'
  <2>1. CASE Free(r) /\ Exit(r, executing, handles, slot)
    BY <1>2, <2>1
  <2>2. CASE pc' = [pc EXCEPT ![r] = "closing"] /\ UNCHANGED loopVars
    BY <1>11, <2>2, EnterKeepsQueue DEF loopVars
  <2> QED
    BY <1>11, <2>1, <2>2 DEF Settle
<1>12. ASSUME NEW r \in Runs, Finish(r) \/ Close(r) PROVE QueueInv'
  <2>1. CASE \E res : Conclude(r, res)
    BY <1>10, <2>1
  <2>2. CASE /\ pc[r] = "running" /\ pc' = [pc EXCEPT ![r] = "closing"]
             /\ UNCHANGED <<slot, waitq>>
    BY <2>2, EnterKeepsQueue
  <2>3. CASE \E x, m : pc[r] = "running" /\ Settle(r, x, m)
    BY <1>11, <2>3
  <2> QED
    BY <1>12, <2>1, <2>2, <2>3 DEF Finish, Close, loopVars
<1>13. ASSUME NEW r \in Runs, CancelWaiting(r) \/ CancelRunning(r)
       PROVE  QueueInv'
  BY <1>2, <1>11, <1>13 DEF CancelWaiting, CancelRunning
<1>14. CASE Restart
  <2>1. /\ waitq' = <<>> /\ slot' = NoRun /\ waitq' \in Seq(Runs)
        /\ \A r \in Runs : pc'[r] = "done"
    BY <1>14 DEF Restart
  <2>2. \A r \in Runs : ~Has(waitq', r)
    BY <2>1, EmptyQueue
  <2>3. Distinct(waitq')
    BY <2>1, EmptySeq, LenProperties DEF Distinct
  <2> QED
    BY <2>1, <2>2, <2>3 DEF QueueInv
<1>15. CASE \/ \E t \in Tasks : \/ ClockReaches(t) \/ StopTask(t) \/ Pause(t)
                                \/ Resume(t) \/ Delete(t)
            \/ \E t \in Editable : EditSchedule(t)
            \/ \E r \in Runs : Monitor(r) \/ Reload(r)
            \/ ForegroundRequest \/ Quiet \/ StopBackground \/ UNCHANGED vars
  <2>1. UNCHANGED <<pc, slot, waitq>>
    BY <1>15 DEF ClockReaches, StopTask, Pause, Resume, Delete, EditSchedule, Reload, Monitor,
                 ForegroundRequest, Quiet, StopBackground, vars, runVars, loopVars
  <2> QED
    BY <1>1, <2>1
<1> QED
  BY <1>4, <1>5, <1>6, <1>7, <1>8, <1>9, <1>12, <1>13, <1>14, <1>15
  DEF Next, NextUnstopped, Step

\* Whatever is cancelled, stopped, refused or restarted, the semaphore has a live
\* holder while anybody waits for it, and every waiter is in its queue or holds
\* it already ("async with self._run_semaphore" in _execute_task).
THEOREM NoWaiterForgotten == Spec => []NoForgottenWaiter
<1>1. Init => Typed /\ QueueInv
  <2> SUFFICES ASSUME Init PROVE QueueInv
    BY TypedInit
  <2>1. waitq = <<>> /\ slot = NoRun /\ waitq \in Seq(Runs) /\ \A r \in Runs : pc[r] = "done"
    BY DEF Init
  <2>2. \A r \in Runs : ~Has(waitq, r)
    BY <2>1, EmptyQueue
  <2>3. Distinct(waitq)
    BY <2>1, EmptySeq, LenProperties DEF Distinct
  <2> QED
    BY <2>1, <2>2, <2>3 DEF QueueInv
<1>2. Typed /\ QueueInv /\ [Next]_vars => (Typed /\ QueueInv)'
  BY TypedStep, QueueStep
<1>3. QueueInv => NoForgottenWaiter
  BY DEF QueueInv, NoForgottenWaiter, Live, Past, Has
<1> QED
  BY <1>1, <1>2, <1>3, PTL DEF Spec

-----------------------------------------------------------------------------
(* The rows of the Activity view. *)

\* A row says "queued" or "running" only as long as its coroutine has the end of
\* the run still to write; a deleted task has no such rows.
RowInv == \A r \in Runs :
    /\ row[r] = "queued" => pc[r] \in {"queued", "gate"}
    /\ row[r] = "running" => \/ pc[r] = "running"
                             \/ pc[r] = "closing" /\ result[r] # "settled"
    /\ pc[r] # "done" /\ status[of[r]] = "deleted" => row[r] \notin Unfinished

\* What a step does to the rows that stay unfinished: nothing.
SameRow(r) ==
    /\ row'[r] = row[r] /\ pc'[r] = pc[r] /\ of'[r] = of[r]
    /\ result'[r] = result[r]
    /\ pc[r] # "done" /\ status'[of[r]] = "deleted" => status[of[r]] = "deleted"

LEMMA RowsKept ==
    ASSUME RowInv, \A r \in Runs : row'[r] \notin Unfinished \/ SameRow(r)
    PROVE  RowInv'
BY DEF RowInv, SameRow, Unfinished

\* A coroutine that leaves, of a row that is finished or was never written.
LEMMA LeaveKeepsRows ==
    ASSUME Typed, RowInv, NEW r \in Runs, Free(r),
           result' = [result EXCEPT ![r] = "none"],
           row' = [row EXCEPT ![r] = row'[r]], row'[r] \notin Unfinished,
           \A t \in Tasks : status'[t] = "deleted" => status[t] = "deleted"
    PROVE  RowInv'
<1>1. \A s \in Runs \ {r} : SameRow(s)
  BY DEF Free, SameRow, Typed, TypeOK, HasTask
<1> QED
  BY <1>1, RowsKept

\* The executor starts with a row that says so.
LEMMA BeginKeepsRows ==
    ASSUME Typed, RowInv, NEW r \in Runs, NEW t, of[r] = t,
           status[t] # "deleted", NEW hs, NEW ex, NEW sl, Begin(r, t, hs, ex, sl)
    PROVE  RowInv'
BY DEF Begin, RowInv, Unfinished, Typed, TypeOK, taskVars

\* On each way out of the part before the first await the row tells the truth.
LEMMA AdmitKeepsRows ==
    ASSUME Typed, RowInv, NEW r \in Runs, NEW t \in Tasks, of[r] = t,
           NEW hs, NEW nw, NEW ex, NEW sl, row[r] # "running",
           Admit(r, t, hs, nw, ex, sl)
    PROVE  RowInv'
<1>1. CASE /\ row' = [row EXCEPT ![r] =
                         IF status[t] = "deleted" THEN "absent"
                         ELSE IF @ \in {"absent", "queued"} THEN "skipped" ELSE @]
           /\ Free(r) /\ Exit(r, ex, hs, sl) /\ UNCHANGED taskVars
  <2>1. row'[r] \notin Unfinished /\ row' = [row EXCEPT ![r] = row'[r]]
    BY <1>1 DEF Unfinished, Typed, TypeOK
  <2> QED
    BY <1>1, <2>1, LeaveKeepsRows DEF Exit, taskVars
<1>2. CASE /\ row' = [row EXCEPT ![r] = "error"]
           /\ status' = [status EXCEPT ![t] = "paused"]
           /\ Free(r) /\ Exit(r, ex, hs, sl)
  <2>1. row'[r] \notin Unfinished /\ row' = [row EXCEPT ![r] = row'[r]]
    BY <1>2 DEF Unfinished, Typed, TypeOK
  <2>2. \A u \in Tasks : status'[u] = "deleted" => status[u] = "deleted"
    BY <1>2 DEF Typed, TypeOK
  <2> QED
    BY <1>2, <2>1, <2>2, LeaveKeepsRows DEF Exit
<1>3. CASE /\ status[t] = "active"
           /\ pc' = [pc EXCEPT ![r] = "gate"]
           /\ row' = [row EXCEPT ![r] = IF @ = "absent" THEN "queued" ELSE @]
           /\ UNCHANGED <<taskVars, of, result>>
  BY <1>3 DEF RowInv, Unfinished, Typed, TypeOK, taskVars
<1>4. CASE status[t] = "active" /\ Begin(r, t, hs, ex, sl)
  BY <1>4, BeginKeepsRows
<1> QED
  BY <1>1, <1>2, <1>3, <1>4 DEF Admit

\* An update of a row that may be gone: what is written is the row afterwards.
LEMMA SetRowWrites ==
    ASSUME Typed, NEW r \in Runs, NEW x, x \notin Unfinished, SetRow(r, x)
    PROVE  row' = [row EXCEPT ![r] = row'[r]] /\ row'[r] \notin Unfinished
BY DEF SetRow, Unfinished, Typed, TypeOK

\* The rows of new coroutines are not written yet.
LEMMA SpawnKeepsRows ==
    ASSUME Typed, RowInv, NEW ts, NEW f, NEW where, NEW force,
           Spawn(ts, f, where, force), UNCHANGED status
    PROVE  RowInv'
<1>1. \A r \in Runs : row'[r] \notin Unfinished \/ SameRow(r)
  BY DEF Spawn, SameRow, Unfinished
<1> QED
  BY <1>1, RowsKept

\* The end of a run writes its row, or finds it written.
LEMMA ConcludeKeepsRows ==
    ASSUME Typed, RowInv, NEW r \in Runs, NEW res, Conclude(r, res),
           \/ pc[r] = "running" /\ res # "settled"
           \/ pc[r] = "closing" /\ res = result[r]
    PROVE  RowInv'
<1>1. /\ result' = [result EXCEPT ![r] = "none"]
      /\ \A t \in Tasks : status'[t] = "deleted" => status[t] = "deleted"
  BY DEF Conclude, Exit, Typed, TypeOK
<1>2. row[r] # "queued" /\ (res = "settled" => row[r] \notin Unfinished)
  BY DEF RowInv, Unfinished
<1>3. ASSUME Free(r), row' = [row EXCEPT ![r] = row'[r]], row'[r] \notin Unfinished
      PROVE  RowInv'
  BY <1>1, <1>3, LeaveKeepsRows
<1>4. CASE res \in {"success", "error"} /\ SetRow(r, res) /\ Free(r)
  <2>1. res \notin Unfinished
    BY <1>4 DEF Unfinished
  <2> QED
    BY <1>3, <1>4, <2>1, SetRowWrites
<1>5. CASE res \in {"success", "error"} /\ ~(SetRow(r, res) /\ Free(r))
  <2>1. PICK c \in IF Fresh = {} THEN {r} ELSE Fresh :
           /\ row' = [row EXCEPT ![r] = res, ![c] = "absent"]
           /\ pc' = [pc EXCEPT ![r] = "done", ![c] = "chained"]
           /\ of' = [of EXCEPT ![r] = NoTask, ![c] = ChainTarget(of[r])]
    BY <1>5 DEF Conclude
  <2>2. c \in Runs
    BY DEF Fresh
  <2>3. \A s \in Runs : row'[s] \notin Unfinished \/ SameRow(s)
    BY <1>1, <1>5, <2>1, <2>2 DEF SameRow, Unfinished, Typed, TypeOK, HasTask
  <2> QED
    BY <2>3, RowsKept
<1>6. CASE res = "exception"
  <2>1. Free(r) /\ \E x : x \notin Unfinished /\ SetRow(r, x)
    <3>1. Aborted(r) \notin Unfinished
      BY DEF Aborted, Unfinished
    <3>2. \A late \in BOOLEAN :
             (IF row[r] = "running" \/ late THEN "error" ELSE row[r]) \notin Unfinished
      BY <1>2 DEF Unfinished
    <3> QED
      BY <1>6, <3>1, <3>2 DEF Conclude
  <2> QED
    BY <1>3, <2>1, SetRowWrites
<1>7. CASE res = "settled"
  <2>1. Free(r) /\ UNCHANGED row
    BY <1>7 DEF Conclude
  <2> QED
    BY <1>2, <1>3, <1>7, <2>1 DEF Typed, TypeOK
<1> QED
  BY <1>4, <1>5, <1>6, <1>7 DEF Conclude

\* So does an end that is committed at once.
LEMMA SettleKeepsRows ==
    ASSUME Typed, RowInv, NEW r \in Runs, NEW x, x \notin Unfinished, NEW n, NEW m,
           Settle(r, x, m)
    PROVE  RowInv'
<1>1. row' = [row EXCEPT ![r] = row'[r]] /\ row'[r] \notin Unfinished
  BY SetRowWrites DEF Settle
<1>2. CASE Free(r) /\ Exit(r, executing, handles, slot)
  BY <1>1, <1>2, LeaveKeepsRows DEF Settle, Exit
<1>3. CASE /\ pc' = [pc EXCEPT ![r] = "closing"]
           /\ result' = [result EXCEPT ![r] = "settled"]
           /\ UNCHANGED of
  <2>1. \A s \in Runs : row'[s] \notin Unfinished \/ SameRow(s)
    BY <1>1, <1>3 DEF Settle, SameRow, Typed, TypeOK
  <2> QED
    BY <2>1, RowsKept
<1> QED
  BY <1>2, <1>3 DEF Settle

\* No step leaves a row of a run that is over as queued or running.
LEMMA RowStep ==
    ASSUME Typed, RowInv, [Next]_vars
    PROVE  RowInv'
<1>1. ASSUME UNCHANGED <<pc, of, result>>,
             \A r \in Runs : row'[r] = row[r] \/ row'[r] \notin Unfinished,
             \A t \in Tasks : status'[t] = "deleted" => status[t] = "deleted"
      PROVE  RowInv'
  <2>1. \A r \in Runs : row'[r] \notin Unfinished \/ SameRow(r)
    BY <1>1 DEF SameRow, Typed, HasTask
  <2> QED
    BY <2>1, RowsKept
<1>2. CASE CheckDueTasks
  <2>1. CASE UNCHANGED <<runVars, executing>>
    BY <1>1, <1>2, <2>1 DEF CheckDueTasks, runVars
  <2>2. CASE \E f : Spawn(DueTasks, f, "created", FALSE)
    BY <1>2, <2>2, SpawnKeepsRows DEF CheckDueTasks
  <2> QED
    BY <1>2, <2>1, <2>2 DEF CheckDueTasks
<1>3. ASSUME NEW t \in Tasks, RunTaskNow(t) \/ ForceRun(t) PROVE RowInv'
  BY <1>3, SpawnKeepsRows DEF RunTaskNow, ForceRun, taskVars
<1>4. ASSUME NEW t \in Tasks, FireEvent(t) PROVE RowInv'
  <2>1. CASE UNCHANGED <<runVars, executing>>
    BY <1>1, <1>4, <2>1 DEF FireEvent, runVars
  <2> QED
    BY <1>4, <2>1, SpawnKeepsRows DEF FireEvent
<1>5. ASSUME NEW r \in Runs, Launch(r) PROVE RowInv'
  <2> DEFINE t  == of[r]
             hs == [handles EXCEPT ![t] = r]
             nw == [newest EXCEPT ![t] = r]
             ex == executing \cup (IF pc[r] = "chained" THEN {t} ELSE {})
  <2>1. t \in Tasks /\ row[r] \notin Unfinished
    BY <1>5 DEF Launch, Typed, HasTask, RowInv, Unfinished
  <2>2. CASE Free(r) /\ UNCHANGED <<taskVars, row, result>>
    <3>1. \A s \in Runs : row'[s] \notin Unfinished \/ SameRow(s)
      BY <2>1, <2>2 DEF Free, SameRow, taskVars, Typed, TypeOK
    <3> QED
      BY <3>1, RowsKept
  <2>3. CASE \E sl : Admit(r, t, hs, nw, ex, sl)
    <3>1. row[r] # "running"
      BY <2>1 DEF Unfinished
    <3> HIDE DEF t, hs, nw, ex
    <3> QED
      BY <2>1, <2>3, <3>1, AdmitKeepsRows DEF t
  <2>4. CASE /\ pc' = [pc EXCEPT ![r] = "queued"]
             /\ row' = [row EXCEPT ![r] = IF status[t] = "deleted"
                                          THEN "absent" ELSE "queued"]
             /\ UNCHANGED <<taskVars, of, result>>
    BY <2>4 DEF RowInv, Unfinished, taskVars, Typed, TypeOK
  <2> QED
    BY <1>5, <2>2, <2>3, <2>4 DEF Launch
<1>6. ASSUME NEW r \in Runs, Acquire(r) PROVE RowInv'
  <2>1. /\ of[r] \in Tasks /\ row[r] # "running"
        /\ Admit(r, of[r], handles, newest, executing, slot)
    BY <1>6 DEF Acquire, Typed, HasTask, RowInv
  <2> QED
    BY <2>1, AdmitKeepsRows
<1>7. ASSUME NEW r \in Runs, PassGate(r) PROVE RowInv'
  <2>1. CASE /\ status[of[r]] = "deleted" /\ Free(r)
             /\ Exit(r, executing, handles, slot) /\ UNCHANGED <<taskVars, row>>
    <3>1. row[r] \notin Unfinished
      BY <1>7, <2>1 DEF PassGate, RowInv
    <3>2. row' = [row EXCEPT ![r] = row'[r]] /\ row'[r] \notin Unfinished
      BY <2>1, <3>1 DEF Typed, TypeOK
    <3> QED
      BY <2>1, <3>2, LeaveKeepsRows DEF Exit, taskVars
  <2>2. CASE status[of[r]] # "deleted" /\ Begin(r, of[r], handles, executing, slot)
    BY <2>2, BeginKeepsRows
  <2> QED
    BY <1>7, <2>1, <2>2 DEF PassGate
<1>8. ASSUME NEW r \in Runs, Finish(r) PROVE RowInv'
  <2>1. CASE \E res \in {"success", "error", "exception"} : Conclude(r, res)
    BY <1>8, <2>1, ConcludeKeepsRows DEF Finish
  <2>2. CASE \E res \in {"success", "error", "exception"} :
                /\ pc' = [pc EXCEPT ![r] = "closing"]
                /\ result' = [result EXCEPT ![r] = res]
                /\ UNCHANGED <<taskVars, row, of>>
    BY <1>8, <2>2 DEF Finish, RowInv, taskVars, Typed, TypeOK
  <2>3. CASE \E x \in {"skipped", "absent"} : \E m : Settle(r, x, m)
    BY <2>3, SettleKeepsRows DEF Unfinished
  <2> QED
    BY <1>8, <2>1, <2>2, <2>3 DEF Finish
<1>9. ASSUME NEW r \in Runs, Close(r) PROVE RowInv'
  BY <1>9, ConcludeKeepsRows DEF Close
<1>10. ASSUME NEW r \in Runs, CancelWaiting(r) PROVE RowInv'
  <2>1. Aborted(r) \notin Unfinished /\ SetRow(r, Aborted(r))
    BY <1>10 DEF CancelWaiting, Aborted, Unfinished
  <2>2. row' = [row EXCEPT ![r] = row'[r]] /\ row'[r] \notin Unfinished
    BY <2>1, SetRowWrites
  <2> QED
    BY <1>10, <2>2, LeaveKeepsRows DEF CancelWaiting, Exit
<1>11. ASSUME NEW r \in Runs, CancelRunning(r) PROVE RowInv'
  BY <1>11, SettleKeepsRows DEF CancelRunning, Unfinished
<1>12. ASSUME NEW t \in Tasks, StopTask(t) PROVE RowInv'
  <2>1. \A r \in Runs : row'[r] = row[r] \/ row'[r] \notin Unfinished
    BY <1>12 DEF StopTask, Unfinished, Typed, TypeOK
  <2> QED
    BY <1>1, <1>12, <2>1 DEF StopTask, taskVars
<1>13. CASE StopBackground
  <2>1. \A r \in Runs : row'[r] = row[r] \/ row'[r] \notin Unfinished
    BY <1>13 DEF StopBackground, Unfinished
  <2> QED
    BY <1>1, <1>13, <2>1 DEF StopBackground, taskVars
<1>14. ASSUME NEW t \in Tasks, Pause(t) \/ Resume(t) PROVE RowInv'
  <2>1. \A u \in Tasks : status'[u] = "deleted" => status[u] = "deleted"
    BY <1>14 DEF Pause, Resume, Typed, TypeOK
  <2> QED
    BY <1>1, <1>14, <2>1 DEF Pause, Resume, runVars
<1>15. ASSUME NEW t \in Tasks, Delete(t) PROVE RowInv'
  <2>1. \A r \in Runs : row'[r] \notin Unfinished \/ SameRow(r)
    BY <1>15 DEF Delete, SameRow, Unfinished, Typed, TypeOK
  <2> QED
    BY <2>1, RowsKept
<1>16. CASE Restart
  <2>1. \A r \in Runs : row'[r] \notin Unfinished
    BY <1>16 DEF Restart, Aborted, Unfinished
  <2> QED
    BY <2>1, RowsKept
<1>17. CASE \/ \E t \in Tasks : ClockReaches(t)
            \/ \E t \in Editable : EditSchedule(t)
            \/ \E r \in Runs : Monitor(r) \/ Reload(r)
            \/ ForegroundRequest \/ Quiet \/ UNCHANGED vars
  <2>1. UNCHANGED <<pc, of, result, row, status>>
    BY <1>17 DEF ClockReaches, EditSchedule, Reload, Monitor, ForegroundRequest, Quiet, vars, runVars,
                 taskVars
  <2> QED
    BY <1>1, <2>1
<1> QED
  BY <1>2, <1>3, <1>4, <1>5, <1>6, <1>7, <1>8, <1>9, <1>10, <1>11, <1>12, <1>13,
     <1>14, <1>15, <1>16, <1>17
  DEF Next, NextUnstopped, Step

\* The Activity view never shows a run as queued or running that has no coroutine
\* past its first await, whichever of the many ends it took and whatever was
\* deleted under it (start(): "the UI shows phantoms").
THEOREM NoPhantoms == Spec => []NoPhantomRows
<1>1. Init => Typed /\ RowInv
  BY TypedInit DEF Init, RowInv, Unfinished
<1>2. Typed /\ RowInv /\ [Next]_vars => (Typed /\ RowInv)'
  BY TypedStep, RowStep
<1>3. RowInv => NoPhantomRows
  BY DEF RowInv, NoPhantomRows, Unfinished
<1> QED
  BY <1>1, <1>2, <1>3, PTL DEF Spec

-----------------------------------------------------------------------------
(* The marks of _executing. *)

\* Every mark has a run to remove it; an id that is free again, or that a chain
\* has just created, is nobody's forced run.
MarkInv ==
    /\ NoLeakedMark
    /\ \A r \in Runs : pc[r] \in {"done", "chained"} => ~forced[r]

\* The runs that keep their marks.
StaysMarked(r) == Marked(r) => Marked(r)' /\ of'[r] = of[r]

\* A coroutine that leaves takes its mark with it and nobody else's.
LEMMA LeaveKeepsMarked ==
    ASSUME Typed, MarkInv, NEW r \in Runs, NEW ex, NEW hs, NEW sl,
           ex \subseteq executing \cup {of[r]}, Exit(r, ex, hs, sl),
           ~forced[r] \/ ex = executing,
           \A s \in Runs \ {r} : StaysMarked(s),
           \A s \in Runs : pc'[s] \in {"done", "chained"} => ~forced'[s]
    PROVE  MarkInv'
<1>1. \A t \in executing' : t \in executing /\ (forced[r] \/ t # of[r])
  BY DEF Exit, Unmark
<1>2. ASSUME NEW t \in executing'
      PROVE  \E s \in Runs : Marked(s)' /\ of'[s] = t
  <2>1. PICK s \in Runs : Marked(s) /\ of[s] = t
    BY <1>1, <1>2 DEF MarkInv, NoLeakedMark
  <2>2. s # r
    BY <1>1, <1>2, <2>1 DEF Marked
  <2> QED
    BY <2>1, <2>2 DEF StaysMarked
<1> QED
  BY <1>2 DEF MarkInv, NoLeakedMark

\* A coroutine that goes on keeps its mark, or sets it and is the one to have it.
LEMMA EnterKeepsMarked ==
    ASSUME Typed, MarkInv, NEW r \in Runs, NEW x \in PCs \ {"done", "chained"},
           pc' = [pc EXCEPT ![r] = x], UNCHANGED <<of, forced>>,
           executing' \subseteq executing \cup {of[r]},
           ~forced[r] \/ executing' = executing
    PROVE  MarkInv'
<1>1. \A s \in Runs : StaysMarked(s)
  BY DEF StaysMarked, Marked, Typed, TypeOK
<1>2. ~forced[r] => Marked(r)' /\ of'[r] = of[r]
  BY DEF Marked, Typed, TypeOK
<1>3. \A t \in executing' : \E s \in Runs : Marked(s)' /\ of'[s] = t
  BY <1>1, <1>2 DEF MarkInv, NoLeakedMark, StaysMarked
<1>4. \A s \in Runs : pc'[s] \in {"done", "chained"} => ~forced'[s]
  BY DEF MarkInv, Typed, TypeOK
<1> QED
  BY <1>3, <1>4 DEF MarkInv, NoLeakedMark

\* The stretch before the first await does one or the other.
LEMMA AdmitKeepsMarked ==
    ASSUME Typed, MarkInv, NEW r \in Runs, NEW t \in Tasks, of[r] = t,
           NEW hs, NEW nw, NEW ex, NEW sl, ex \subseteq executing \cup {t},
           ~forced[r] \/ ex = executing, Admit(r, t, hs, nw, ex, sl)
    PROVE  MarkInv'
<1>1. CASE Free(r) /\ Exit(r, ex, hs, sl)
  <2>1. /\ \A s \in Runs \ {r} : StaysMarked(s)
        /\ \A s \in Runs : pc'[s] \in {"done", "chained"} => ~forced'[s]
    BY <1>1 DEF Free, StaysMarked, Marked, MarkInv, Typed, TypeOK
  <2> QED
    BY <1>1, <2>1, LeaveKeepsMarked
<1>2. CASE /\ \E x \in {"gate", "running"} : pc' = [pc EXCEPT ![r] = x]
           /\ UNCHANGED <<of, forced>>
           /\ executing' = ex
  BY <1>2, EnterKeepsMarked DEF PCs
<1> QED
  BY <1>1, <1>2 DEF Admit, Begin

\* New unforced coroutines come with their marks, a forced one has none.
LEMMA SpawnKeepsMarked ==
    ASSUME Typed, MarkInv, NEW ts, NEW f \in [ts -> Fresh], NEW force \in BOOLEAN,
           \A t, u \in ts : f[t] = f[u] => t = u,
           Spawn(ts, f, "created", force),
           executing' = IF force THEN executing ELSE executing \cup ts
    PROVE  MarkInv'
<1>1. \A r \in Runs : StaysMarked(r)
  BY DEF Spawn, StaysMarked, Marked, Fresh
<1>2. ASSUME NEW t \in ts, ~force
      PROVE  Marked(f[t])' /\ of'[f[t]] = t /\ f[t] \in Runs
  <2>1. f[t] \in Runs
    BY DEF Fresh
  <2>2. of'[f[t]] = CHOOSE u \in ts : f[u] = f[t]
    BY <2>1 DEF Spawn
  <2>3. of'[f[t]] = t
    BY <2>2
  <2> QED
    BY <1>2, <2>1, <2>3 DEF Spawn, Marked
<1>3. \A t \in executing' : \E r \in Runs : Marked(r)' /\ of'[r] = t
  BY <1>1, <1>2 DEF MarkInv, NoLeakedMark, StaysMarked
<1>4. \A r \in Runs : pc'[r] \in {"done", "chained"} => ~forced'[r]
  BY DEF Spawn, MarkInv
<1> QED
  BY <1>3, <1>4 DEF MarkInv, NoLeakedMark

\* No step loses the run that will remove a mark.
LEMMA MarkStep ==
    ASSUME Typed, MarkInv, [Next]_vars
    PROVE  MarkInv'
<1>1. ASSUME UNCHANGED <<pc, of, forced>>, executing' \subseteq executing
      PROVE  MarkInv'
  BY <1>1 DEF MarkInv, NoLeakedMark, Marked
<1>2. ASSUME NEW r \in Runs, Exit(r, executing, handles, slot), Free(r)
      PROVE  MarkInv'
  <2>1. /\ \A s \in Runs \ {r} : StaysMarked(s)
        /\ \A s \in Runs : pc'[s] \in {"done", "chained"} => ~forced'[s]
    BY <1>2 DEF Free, StaysMarked, Marked, MarkInv, Typed, TypeOK
  <2> QED
    BY <1>2, <2>1, LeaveKeepsMarked
<1>3. ASSUME NEW r \in Runs, NEW x \in PCs \ {"done", "chained"},
             pc' = [pc EXCEPT ![r] = x], UNCHANGED <<of, forced, executing>>
      PROVE  MarkInv'
  BY <1>3, EnterKeepsMarked
<1>4. ASSUME NEW t, NEW r \in Fresh, NEW b \in BOOLEAN,
             Spawn({t}, [x \in {t} |-> r], "created", b),
             executing' = IF b THEN executing ELSE executing \cup {t}
      PROVE  MarkInv'
  <2> DEFINE f == [x \in {t} |-> r]
  <2>1. f \in [{t} -> Fresh] /\ \A u, v \in {t} : f[u] = f[v] => u = v
    OBVIOUS
  <2> HIDE DEF f
  <2> QED
    BY <1>4, <2>1, SpawnKeepsMarked DEF f
<1>5. CASE CheckDueTasks
  <2>1. CASE UNCHANGED <<runVars, executing>>
    BY <1>1, <2>1 DEF runVars
  <2>2. CASE /\ executing' = executing \cup DueTasks
             /\ \E f \in Injection(DueTasks, Fresh) :
                   Spawn(DueTasks, f, "created", FALSE)
    <3>1. PICK f \in Injection(DueTasks, Fresh) :
             Spawn(DueTasks, f, "created", FALSE)
      BY <2>2
    <3>2. f \in [DueTasks -> Fresh] /\ \A t, u \in DueTasks : f[t] = f[u] => t = u
      BY DEF Injection, IsInjective
    <3> QED
      BY <2>2, <3>1, <3>2, SpawnKeepsMarked
  <2> QED
    BY <1>5, <2>1, <2>2 DEF CheckDueTasks
<1>6. ASSUME NEW t \in Tasks, RunTaskNow(t) PROVE MarkInv'
  BY <1>4, <1>6 DEF RunTaskNow
<1>7. ASSUME NEW t \in Tasks, ForceRun(t) PROVE MarkInv'
  BY <1>4, <1>7 DEF ForceRun, loopVars
<1>8. ASSUME NEW t \in Tasks, FireEvent(t) PROVE MarkInv'
  <2>1. CASE UNCHANGED <<runVars, executing>>
    BY <1>1, <2>1 DEF runVars
  <2> QED
    BY <1>4, <1>8, <2>1 DEF FireEvent
<1>9. ASSUME NEW r \in Runs, Launch(r) PROVE MarkInv'
  <2> DEFINE t  == of[r]
             hs == [handles EXCEPT ![t] = r]
             nw == [newest EXCEPT ![t] = r]
             ex == executing \cup (IF pc[r] = "chained" THEN {t} ELSE {})
  <2>1. /\ t \in Tasks /\ ex \subseteq executing \cup {t}
        /\ ~forced[r] \/ ex = executing
    BY <1>9 DEF Launch, Typed, HasTask, MarkInv
  <2>2. CASE pc[r] = "chained" /\ Free(r) /\ UNCHANGED executing
    BY <2>2 DEF Free, MarkInv, NoLeakedMark, Marked, Typed, TypeOK
  <2>3. CASE \E sl : Admit(r, t, hs, nw, ex, sl)
    <3> HIDE DEF t, hs, nw, ex
    <3> QED
      BY <2>1, <2>3, AdmitKeepsMarked DEF t
  <2>4. CASE /\ pc' = [pc EXCEPT ![r] = "queued"]
             /\ executing' = ex /\ UNCHANGED <<of, forced>>
    <3>1. "queued" \in PCs \ {"done", "chained"}
      BY DEF PCs
    <3> QED
      BY <2>1, <2>4, <3>1, EnterKeepsMarked
  <2> QED
    BY <1>9, <2>2, <2>3, <2>4 DEF Launch, loopVars
<1>10. ASSUME NEW r \in Runs, Acquire(r) PROVE MarkInv'
  <2>1. of[r] \in Tasks /\ Admit(r, of[r], handles, newest, executing, slot)
    BY <1>10 DEF Acquire, Typed, HasTask
  <2> QED
    BY <2>1, AdmitKeepsMarked
<1>11. ASSUME NEW r \in Runs, PassGate(r) PROVE MarkInv'
  BY <1>2, <1>3, <1>11 DEF PassGate, Begin, PCs
<1>12. ASSUME NEW r \in Runs, NEW res, Conclude(r, res) PROVE MarkInv'
  <2>1. Exit(r, executing, handles, slot)
    BY <1>12 DEF Conclude
  <2>2. CASE Free(r)
    BY <1>2, <2>1, <2>2
  <2>3. CASE ~Free(r)
    <3>1. PICK c \in IF Fresh = {} THEN {r} ELSE Fresh :
             /\ pc' = [pc EXCEPT ![r] = "done", ![c] = "chained"]
             /\ of' = [of EXCEPT ![r] = NoTask, ![c] = ChainTarget(of[r])]
             /\ forced' = [forced EXCEPT ![r] = FALSE]
      BY <1>12, <2>3 DEF Conclude
    <3>2. c \in Runs /\ (c = r \/ pc[c] = "done")
      BY DEF Fresh
    <3>3. \A s \in Runs \ {r} : StaysMarked(s)
      BY <3>1, <3>2 DEF StaysMarked, Marked, Typed, TypeOK
    <3>4. \A s \in Runs : pc'[s] \in {"done", "chained"} => ~forced'[s]
      BY <3>1, <3>2 DEF MarkInv, Typed, TypeOK
    <3> QED
      BY <2>1, <3>3, <3>4, LeaveKeepsMarked
  <2> QED
    BY <2>2, <2>3
<1>13. ASSUME NEW r \in Runs, NEW x, NEW m, Settle(r, x, m)
       PROVE  MarkInv'
  BY <1>2, <1>3, <1>13 DEF Settle, loopVars, PCs
<1>14. ASSUME NEW r \in Runs, Finish(r) \/ Close(r) PROVE MarkInv'
  <2>1. CASE \E res : Conclude(r, res)
    BY <1>12, <2>1
  <2>2. CASE /\ pc' = [pc EXCEPT ![r] = "closing"]
             /\ UNCHANGED <<of, forced, executing>>
    BY <1>3, <2>2 DEF PCs
  <2>3. CASE \E x, m : Settle(r, x, m)
    BY <1>13, <2>3
  <2> QED
    BY <1>14, <2>1, <2>2, <2>3 DEF Finish, Close, loopVars
<1>15. ASSUME NEW r \in Runs, CancelWaiting(r) \/ CancelRunning(r)
       PROVE  MarkInv'
  BY <1>2, <1>13, <1>15 DEF CancelWaiting, CancelRunning
<1>16. ASSUME NEW t \in Tasks, StopTask(t) PROVE MarkInv'
  BY <1>1, <1>16 DEF StopTask
<1>17. CASE Restart
  BY <1>17 DEF Restart, MarkInv, NoLeakedMark
<1>18. CASE \/ \E t \in Tasks : ClockReaches(t) \/ Pause(t) \/ Resume(t) \/ Delete(t)
            \/ \E t \in Editable : EditSchedule(t)
            \/ \E r \in Runs : Monitor(r) \/ Reload(r)
            \/ ForegroundRequest \/ Quiet \/ StopBackground \/ UNCHANGED vars
  <2>1. UNCHANGED <<pc, of, forced, executing>>
    BY <1>18 DEF ClockReaches, Pause, Resume, Delete, EditSchedule, Reload, Monitor, ForegroundRequest,
                 Quiet, StopBackground, vars, runVars, loopVars
  <2> QED
    BY <1>1, <2>1
<1> QED
  BY <1>5, <1>6, <1>7, <1>8, <1>9, <1>10, <1>11, <1>14, <1>15, <1>16, <1>17, <1>18
  DEF Next, NextUnstopped, Step

\* A task marked in _executing has a run in flight that will remove the mark, so
\* that no early return, refusal, cancellation or stop keeps it from ever being
\* dispatched again (release_executing and the finally of _execute_task).
THEOREM NoMarkLeaks == Spec => []NoLeakedMark
<1>1. Init => Typed /\ MarkInv
  BY TypedInit DEF Init, MarkInv, NoLeakedMark
<1>2. Typed /\ MarkInv /\ [Next]_vars => (Typed /\ MarkInv)'
  BY TypedStep, MarkStep
<1>3. MarkInv => NoLeakedMark
  BY DEF MarkInv
<1> QED
  BY <1>1, <1>2, <1>3, PTL DEF Spec

-----------------------------------------------------------------------------
(* The triggers no run has answered. *)

\* No step but the end of a run drops a trigger.
LEMMA TriggerStep ==
    ASSUME Typed, [Next]_vars, NEW t \in Tasks, Dropped(t)', ~Dropped(t)
    PROVE  \E r \in Runs : EndsRun(r, t)
<1>0. /\ t \in owed' /\ Trigger[t] = "event"
      /\ status'[t] # "deleted" /\ nextRun'[t] = "none"
      /\ ~(t \in owed /\ status[t] # "deleted" /\ nextRun[t] = "none")
  BY DEF Dropped
<1>1. nextRun \in [Tasks -> NextRuns] /\ status \in [Tasks -> Statuses]
  BY DEF Typed, TypeOK
<1>2. ASSUME UNCHANGED <<status, nextRun>>, owed' \subseteq owed
      PROVE  FALSE
  BY <1>0, <1>2
<1>3. ASSUME NEW u \in Tasks, ClockReaches(u) \/ FireEvent(u)
      PROVE  FALSE
  BY <1>0, <1>1, <1>3 DEF ClockReaches, FireEvent
<1>4. CASE CheckDueTasks
  <2>1. UNCHANGED <<status, owed>>
    BY <1>4 DEF CheckDueTasks
  <2>2. \/ UNCHANGED nextRun
        \/ nextRun' = [u \in Tasks |-> IF u \in DueTasks THEN "later" ELSE nextRun[u]]
    BY <1>4 DEF CheckDueTasks
  <2> QED
    BY <1>0, <2>1, <2>2
<1>5. CASE \E r \in Runs : Launch(r) \/ Acquire(r)
  BY <1>0, <1>1, <1>5, StartWrites DEF taskVars
<1>6. ASSUME NEW r \in Runs, Finish(r) \/ Close(r) \/ CancelRunning(r)
      PROVE  \E s \in Runs : EndsRun(s, t)
  <2>1. WritesDate(r)
    BY <1>0, <1>6, EndWrites DEF taskVars
  <2>2. status[t] # "deleted" /\ t \in owed /\ nextRun[t] # "none"
    BY <1>0, <2>1 DEF WritesDate
  <2>3. t = of[r]
    BY <1>0, <1>1, <2>1, <2>2 DEF WritesDate, SetNextRun
  <2> QED
    BY <2>1, <2>3 DEF WritesDate
<1>7. CASE \E r \in Runs : PassGate(r)
  BY <1>2, <1>7 DEF PassGate, Begin, taskVars
<1>8. CASE \E r \in Runs : CancelWaiting(r)
  BY <1>0, <1>1, <1>8 DEF CancelWaiting, DeferDueTask
<1>9. CASE \E u \in Tasks : Pause(u) \/ Resume(u) \/ Delete(u)
  BY <1>0, <1>1, <1>9 DEF Pause, Resume, Delete
<1>10. CASE \E u \in Editable : EditSchedule(u)
  BY <1>0, <1>1, <1>10, TasksAssumption DEF EditSchedule
<1>11. CASE Restart
  BY <1>0, <1>11 DEF Restart
<1> QED
  BY <1>2, <1>3, <1>4, <1>5, <1>6, <1>7, <1>8, <1>9, <1>10, <1>11, QuietSteps
  DEF Next, NextUnstopped, Step

\* A trigger that no run has answered stays in the task's row through every tick,
\* refusal, cancellation, deferral, pause and restart (_handle_event: "makes the
\* trigger survive reboot").  What may drop it is the end of a run of the task that
\* was already executing, and that one does (task_scheduler.py 1024-1025).
THEOREM TriggersSurvive == Spec => TriggerKept
<1>1. Typed /\ [Next]_vars
      => [\A t \in Tasks : Dropped(t)' =>
            Dropped(t) \/ \E r \in Runs : EndsRun(r, t)]_vars
  BY TriggerStep
<1> QED
  BY TypedInit, TypedStep, <1>1, PTL DEF Spec, TriggerKept
=============================================================================
