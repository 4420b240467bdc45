--------------------------- MODULE AgentRunsProofs ---------------------------
(***************************************************************************)
(* What holds of the detached runs for every number of runs, clients and   *)
(* events, and that they implement EventStream.                            *)
(***************************************************************************)
EXTENDS AgentRuns, TLAPS, SequenceTheorems

Msgs == {Sentinel} \cup Events

\* A queue that the end of its run has closed.
Sealed(q) == q # <<>> /\ q[Len(q)] = Sentinel

\* How many events it holds, besides the sentinel.
Evts(q) == IF Sealed(q) THEN Len(q) - 1 ELSE Len(q)

\* A queue holds the last events of a run that has n, in order.
Tidy(q, n) ==
    /\ q \in Seq(Msgs)
    /\ Evts(q) <= n
    /\ \A i \in 1 .. Evts(q) : q[i] = n - Evts(q) + i

\* A task that has not ended serves a run that is marked running; one that has not
\* begun yet, and will, is the session's.
AliveRuns ==
    \A r \in Runs :
        /\ pc[r] # "ended" => status[r] = "running" /\ count[r] <= MaxEvents
        /\ pc[r] = "created" /\ r \notin cancel => cur = r

\* What a client has been given and what its queue holds overlap or meet.
Client(c) ==
    IF at[c] = NoRun
    THEN /\ queue[c] = <<>> /\ next[c] = 0 /\ got[c] = <<>>
         /\ conn[c] \in {"complete", "gone"}
    ELSE /\ conn[c] \in {"replay", "live", "flush"}
         /\ next[c] <= count[at[c]]
         /\ Tidy(queue[c], count[at[c]])
         /\ Sealed(queue[c]) \/ conn[c] = "flush" => status[at[c]] # "running"
         /\ conn[c] = "live" => count[at[c]] <= next[c] + Evts(queue[c])

AllClients == \A c \in Clients : Client(c)

Inv == TypeOK /\ AliveRuns /\ DrainsOwnRun /\ AllClients /\ InOrderOnce

USE AgentRunsAssumption

-----------------------------------------------------------------------------
(* Sequences. *)

\* A closed queue is as long as its events and the sentinel, an open one as its
\* events.
LEMMA EvtsType ==
    ASSUME NEW q \in Seq(Msgs)
    PROVE  /\ Evts(q) \in 0 .. Len(q) /\ Len(q) \in Nat
           /\ Sealed(q) => Len(q) = Evts(q) + 1
           /\ ~Sealed(q) => Len(q) = Evts(q)
           /\ \A i \in 1 .. Len(q) : q[i] \in Msgs
BY LenProperties, EmptySeq DEF Evts, Sealed

\* The queue of a client that registers.
LEMMA EmptyTidy ==
    ASSUME NEW n \in Nat
    PROVE  Tidy(<<>>, n) /\ Evts(<<>>) = 0 /\ ~Sealed(<<>>)
BY EmptySeq DEF Tidy, Evts, Sealed

\* A published event is the next one.
LEMMA PutEvent ==
    ASSUME NEW n \in Nat, n + 1 \in Events, NEW q, Tidy(q, n), ~Sealed(q)
    PROVE  LET s == q \o <<n + 1>> IN
           Tidy(s, n + 1) /\ ~Sealed(s) /\ Evts(s) = Evts(q) + 1
<1> DEFINE s == q \o <<n + 1>>
<1>1. q \in Seq(Msgs) /\ <<n + 1>> \in Seq(Msgs) /\ Len(<<n + 1>>) = 1
  BY DEF Tidy, Msgs
<1>2. /\ s \in Seq(Msgs) /\ Len(s) = Len(q) + 1
      /\ \A i \in 1 .. Len(q) : s[i] = q[i]
      /\ s[Len(q) + 1] = n + 1
  BY <1>1, ConcatProperties, LenProperties
<1>3. ~Sealed(s) /\ Evts(s) = Evts(q) + 1 /\ Evts(q) = Len(q) /\ Len(q) \in Nat
  BY <1>1, <1>2, LenProperties DEF Sealed, Evts, Sentinel
<1> QED
  BY <1>2, <1>3 DEF Tidy

\* The end of the run closes it.
LEMMA PutSentinel ==
    ASSUME NEW n \in Nat, NEW q, Tidy(q, n), ~Sealed(q)
    PROVE  LET s == q \o <<Sentinel>> IN
           Tidy(s, n) /\ Sealed(s) /\ Evts(s) = Evts(q)
<1> DEFINE s == q \o <<Sentinel>>
<1>1. q \in Seq(Msgs) /\ <<Sentinel>> \in Seq(Msgs) /\ Len(<<Sentinel>>) = 1
  BY DEF Tidy, Msgs
<1>2. /\ s \in Seq(Msgs) /\ Len(s) = Len(q) + 1
      /\ \A i \in 1 .. Len(q) : s[i] = q[i]
      /\ s[Len(q) + 1] = Sentinel
  BY <1>1, ConcatProperties, LenProperties
<1>3. Sealed(s) /\ Evts(s) = Evts(q) /\ Evts(q) = Len(q) /\ Len(q) \in Nat
  BY <1>1, <1>2, LenProperties, EmptySeq DEF Sealed, Evts
<1> QED
  BY <1>2, <1>3 DEF Tidy

\* A failure adds two events and closes it.
LEMMA PutFailure ==
    ASSUME NEW n \in Nat, n + 1 \in Events, n + 2 \in Events,
           NEW q, Tidy(q, n), ~Sealed(q)
    PROVE  LET s == q \o <<n + 1, n + 2, Sentinel>> IN
           Tidy(s, n + 2) /\ Sealed(s) /\ Evts(s) = Evts(q) + 2
<1> DEFINE s == q \o <<n + 1, n + 2, Sentinel>>
<1>1. /\ q \in Seq(Msgs) /\ <<n + 1, n + 2, Sentinel>> \in Seq(Msgs)
      /\ Len(<<n + 1, n + 2, Sentinel>>) = 3
  BY DEF Tidy, Msgs
<1>2. /\ s \in Seq(Msgs) /\ Len(s) = Len(q) + 3
      /\ \A i \in 1 .. Len(q) : s[i] = q[i]
      /\ s[Len(q) + 1] = n + 1 /\ s[Len(q) + 2] = n + 2 /\ s[Len(q) + 3] = Sentinel
  BY <1>1, ConcatProperties, LenProperties
<1>3. Sealed(s) /\ Evts(s) = Evts(q) + 2 /\ Evts(q) = Len(q) /\ Len(q) \in Nat
  BY <1>1, <1>2, LenProperties, EmptySeq DEF Sealed, Evts
<1>4. ASSUME NEW i \in 1 .. Evts(s) PROVE s[i] = (n + 2) - Evts(s) + i
  <2>1. CASE i <= Len(q)
    BY <1>2, <1>3, <2>1 DEF Tidy
  <2>2. CASE i = Len(q) + 1
    BY <1>2, <1>3, <2>2
  <2>3. CASE i = Len(q) + 2
    BY <1>2, <1>3, <2>3
  <2> QED
    BY <1>3, <2>1, <2>2, <2>3
<1>5. Evts(s) <= n + 2
  BY <1>3 DEF Tidy
<1> QED
  BY <1>2, <1>3, <1>4, <1>5 DEF Tidy

\* What is taken from the queue is the oldest of its events.
LEMMA Take ==
    ASSUME NEW n \in Nat, NEW q, Tidy(q, n), q # <<>>
    PROVE  /\ Head(q) \in Msgs
           /\ Head(q) = Sentinel => Sealed(q) /\ Evts(q) = 0
           /\ Head(q) # Sentinel =>
                 /\ Head(q) = n - Evts(q) + 1
                 /\ Tidy(Tail(q), n) /\ Evts(Tail(q)) = Evts(q) - 1
                 /\ Sealed(Tail(q)) => Sealed(q)
<1>1. /\ q \in Seq(Msgs) /\ Len(q) \in Nat \ {0} /\ Head(q) = q[1] /\ Head(q) \in Msgs
      /\ Tail(q) \in Seq(Msgs) /\ Len(Tail(q)) = Len(q) - 1
      /\ \A i \in 1 .. Len(q) - 1 : Tail(q)[i] = q[i + 1]
  BY HeadTailProperties, EmptySeq, LenProperties DEF Tidy
<1>2. /\ Evts(q) \in 0 .. n /\ Evts(q) \in 0 .. Len(q)
      /\ \A i \in 1 .. Evts(q) : q[i] = n - Evts(q) + i /\ q[i] # Sentinel
  BY <1>1, EvtsType DEF Tidy, Sentinel
<1>3. ASSUME Head(q) = Sentinel PROVE Sealed(q) /\ Evts(q) = 0
  BY <1>1, <1>2, <1>3, EvtsType
<1>4. ASSUME Head(q) # Sentinel
      PROVE  /\ Evts(q) >= 1
             /\ Sealed(Tail(q)) <=> Sealed(q)
             /\ Evts(Tail(q)) = Evts(q) - 1
  <2>1. CASE Sealed(q)
    <3>1. Len(q) >= 2
      BY <1>1, <1>4, <2>1 DEF Sealed
    <3>2. Tail(q) # <<>>
      <4>1. Len(Tail(q)) # 0
        BY <1>1, <3>1
      <4>2. Len(<<>>) = 0
        BY EmptySeq
      <4> QED
        BY <4>1, <4>2
    <3>3. Tail(q)[Len(Tail(q))] = q[Len(q)]
      BY <1>1, <3>1
    <3> QED
      BY <1>1, <2>1, <3>1, <3>2, <3>3 DEF Sealed, Evts
  <2>2. CASE ~Sealed(q)
    <3>1. q[Len(q)] # Sentinel
      BY <1>1, <2>2 DEF Sealed
    <3>2. ~Sealed(Tail(q))
      <4>1. CASE Len(q) = 1
        <5>1. Len(Tail(q)) = 0
          BY <1>1, <4>1
        <5> QED
          BY <1>1, <5>1, EmptySeq DEF Sealed
      <4>2. CASE Len(q) # 1
        <5>1. Tail(q)[Len(Tail(q))] = q[Len(q)]
          BY <1>1, <4>2
        <5> QED
          BY <3>1, <5>1 DEF Sealed
      <4> QED
        BY <4>1, <4>2
    <3> QED
      BY <1>1, <2>2, <3>2 DEF Evts
  <2> QED
    BY <2>1, <2>2
<1>5. ASSUME Head(q) # Sentinel PROVE Head(q) = n - Evts(q) + 1 /\ Tidy(Tail(q), n)
  <2>1. ASSUME NEW i \in 1 .. Evts(q) - 1
        PROVE  Tail(q)[i] = n - (Evts(q) - 1) + i
    <3>1. i + 1 \in 1 .. Evts(q) /\ i \in 1 .. Len(q) - 1
      BY <1>1, <1>2
    <3>2. Tail(q)[i] = q[i + 1] /\ q[i + 1] = n - Evts(q) + (i + 1)
      BY <1>1, <1>2, <3>1
    <3> QED
      BY <1>2, <3>2
  <2>2. Head(q) = n - Evts(q) + 1
    BY <1>1, <1>2, <1>4, <1>5
  <2>3. Evts(Tail(q)) <= n
    BY <1>2, <1>4, <1>5
  <2> QED
    BY <1>1, <1>4, <1>5, <2>1, <2>2, <2>3 DEF Tidy
<1> QED
  BY <1>1, <1>3, <1>4, <1>5

\* The two events of a failure and the sentinel.
LEMMA AppendPair ==
    ASSUME NEW a, NEW b, NEW x
    PROVE  Append(<<a, b>>, x) = <<a, b, x>>
<1>1. <<a, b>> \in Seq({a, b, x}) /\ Len(<<a, b>>) = 2
  OBVIOUS
<1>2. <<a, b, x>> \in Seq({a, b, x}) /\ Len(<<a, b, x>>) = 3
  OBVIOUS
<1> DEFINE s == Append(<<a, b>>, x)
<1>3. s \in Seq({a, b, x}) /\ Len(s) = 3 /\ s[1] = a /\ s[2] = b /\ s[3] = x
  BY <1>1, AppendProperties
<1>4. \A i \in 1 .. 3 : s[i] = <<a, b, x>>[i]
  BY <1>3
<1> QED
  BY <1>2, <1>3, <1>4, SeqEqual

\* One more event in order.
LEMMA GiveNext ==
    ASSUME NEW n \in Nat
    PROVE  Append([i \in 1 .. n |-> i], n + 1) = [i \in 1 .. n + 1 |-> i]
<1>1. [i \in 1 .. n |-> i] \in Seq(Nat) /\ Len([i \in 1 .. n |-> i]) = n
  BY Z3
<1> QED
  BY <1>1, AppendProperties, LenProperties

-----------------------------------------------------------------------------
(* The invariant holds at first, and the steps of the runs keep it. *)

LEMMA InitInv == Init => Inv
<1> SUFFICES ASSUME Init PROVE Inv
  OBVIOUS
<1>1. TypeOK
  BY EmptySeq DEF Init, TypeOK
<1>2. AliveRuns /\ DrainsOwnRun /\ AllClients
  BY DEF Init, AliveRuns, DrainsOwnRun, AllClients, Client
<1>3. InOrderOnce
  <2>1. <<>> = [i \in 1 .. 0 |-> i]
    BY Z3
  <2> QED
    BY <2>1 DEF Init, InOrderOnce
<1> QED
  BY <1>1, <1>2, <1>3 DEF Inv

\* Steps that touch no client, buffer or status.
LEMMA SameClients ==
    ASSUME Inv, UNCHANGED <<clientVars, count, status>>
    PROVE  AllClients' /\ InOrderOnce'
BY DEF Inv, AllClients, Client, InOrderOnce, clientVars

\* A new run: nobody reads the object it takes, and what was the session's run is
\* cancelled if it has not begun.
LEMMA StartKeeps ==
    ASSUME Inv, NEW r \in Runs, Start(r)
    PROVE  Inv'
<1>1. /\ pc[r] = "ended" /\ r \notin cancel /\ r # cur
      /\ \A c \in Clients : at[c] # r
  BY DEF Inv, TypeOK, Start, Unused, Subscribers
<1>2. TypeOK'
  BY <1>1 DEF Inv, TypeOK, Start, Superseded, InFlight, clientVars
<1>3. AliveRuns'
  <2> SUFFICES ASSUME NEW s \in Runs
               PROVE  /\ pc'[s] # "ended" => status'[s] = "running" /\ count'[s] <= MaxEvents
                      /\ pc'[s] = "created" /\ s \notin cancel' => cur' = s
    BY DEF AliveRuns
  <2>1. CASE s = r
    BY <2>1 DEF Inv, TypeOK, Start
  <2>2. CASE s # r
    BY <2>2 DEF Inv, TypeOK, AliveRuns, Start, Superseded, InFlight
  <2> QED
    BY <2>1, <2>2
<1>4. DrainsOwnRun'
  BY DEF Inv, TypeOK, DrainsOwnRun, Start
<1>5. AllClients' /\ InOrderOnce'
  <2>1. \A c \in Clients : at[c] # NoRun =>
           count'[at[c]] = count[at[c]] /\ status'[at[c]] = status[at[c]]
    BY <1>1 DEF Inv, TypeOK, Start
  <2> QED
    BY <2>1 DEF Inv, AllClients, Client, InOrderOnce, Start, clientVars
<1> QED
  BY <1>2, <1>3, <1>4, <1>5 DEF Inv

LEMMA StopKeeps ==
    ASSUME Inv, Stop
    PROVE  Inv'
<1>1. TypeOK' /\ AliveRuns' /\ DrainsOwnRun'
  BY DEF Inv, TypeOK, AliveRuns, DrainsOwnRun, Stop, InFlight, clientVars
<1> QED
  BY <1>1, SameClients DEF Inv, Stop

\* The run that a task looks up by the session is its own.
LEMMA BeginKeeps ==
    ASSUME Inv, NEW r \in Runs, Begin(r)
    PROVE  Inv'
<1>1. cur = r
  BY DEF Inv, AliveRuns, Begin
<1>2. TypeOK'
  BY DEF Inv, TypeOK, Begin, clientVars
<1>3. AliveRuns' /\ DrainsOwnRun'
  BY <1>1 DEF Inv, TypeOK, AliveRuns, DrainsOwnRun, Begin
<1> QED
  BY <1>2, <1>3, SameClients DEF Inv, Begin

LEMMA PrevEndedKeeps ==
    ASSUME Inv, NEW r \in Runs, PrevEnded(r)
    PROVE  Inv'
<1>1. TypeOK' /\ AliveRuns' /\ DrainsOwnRun'
  BY DEF Inv, TypeOK, AliveRuns, DrainsOwnRun, PrevEnded, clientVars
<1> QED
  BY <1>1, SameClients DEF Inv, PrevEnded

LEMMA CancelledEarlyKeeps ==
    ASSUME Inv, NEW r \in Runs, CancelledEarly(r)
    PROVE  Inv'
<1>1. TypeOK' /\ AliveRuns' /\ DrainsOwnRun'
  BY DEF Inv, TypeOK, AliveRuns, DrainsOwnRun, CancelledEarly, clientVars
<1> QED
  BY <1>1, SameClients DEF Inv, CancelledEarly

LEMMA EvictKeeps ==
    ASSUME Inv, NEW r \in Runs, Evict(r)
    PROVE  Inv'
<1>1. TypeOK' /\ DrainsOwnRun'
  BY DEF Inv, TypeOK, DrainsOwnRun, Evict, runVars, clientVars
<1>2. AliveRuns'
  BY DEF Inv, TypeOK, AliveRuns, Evict, runVars
<1> QED
  BY <1>1, <1>2, SameClients DEF Inv, Evict, runVars

\* A published event joins the queues of the run's clients.
LEMMA PublishKeeps ==
    ASSUME Inv, NEW r \in Runs, Publish(r)
    PROVE  Inv'
<1>1. /\ into[r] = r /\ status[r] = "running" /\ count[r] \in Nat
      /\ count[r] + 1 \in Events /\ count[r] < MaxEvents
  BY DEF Inv, TypeOK, AliveRuns, DrainsOwnRun, Publish, Events
<1>2. /\ count' = [count EXCEPT ![r] = @ + 1]
      /\ queue' = [c \in Clients |-> IF at[c] = r THEN queue[c] \o <<count[r] + 1>>
                                     ELSE queue[c]]
      /\ UNCHANGED <<cur, status, pc, cancel, prev, into, timer, conn, at, next, got>>
  BY <1>1 DEF Publish, Send
<1>3. ASSUME NEW c \in Clients, at[c] = r
      PROVE  /\ Tidy(queue'[c], count[r] + 1) /\ ~Sealed(queue'[c])
             /\ Evts(queue'[c]) = Evts(queue[c]) + 1
             /\ Evts(queue[c]) \in Nat
  <2>1. Tidy(queue[c], count[r]) /\ ~Sealed(queue[c])
    BY <1>1, <1>3 DEF Inv, AllClients, Client
  <2>2. queue'[c] = queue[c] \o <<count[r] + 1>>
    BY <1>2, <1>3
  <2>3. Evts(queue[c]) \in Nat
    BY <2>1, EvtsType DEF Tidy
  <2> QED
    BY <1>1, <2>1, <2>2, <2>3, PutEvent
<1>4. TypeOK'
  <2>1. \A c \in Clients : queue'[c] \in Seq(Msgs)
    BY <1>2, <1>3 DEF Inv, TypeOK, Tidy, Msgs
  <2>2. queue' \in [Clients -> Seq(Msgs)]
    BY <1>2, <2>1
  <2>3. count' \in [Runs -> 0 .. MaxEvents + 2]
    BY <1>1, <1>2 DEF Inv, TypeOK
  <2> QED
    BY <1>2, <2>2, <2>3 DEF Inv, TypeOK, Msgs
<1>5. AliveRuns' /\ DrainsOwnRun' /\ InOrderOnce'
  BY <1>1, <1>2 DEF Inv, TypeOK, AliveRuns, DrainsOwnRun, InOrderOnce
<1>6. ASSUME NEW c \in Clients PROVE Client(c)'
  <2>1. CASE at[c] = r
    <3>1. next[c] \in Nat /\ at[c] # NoRun /\ count'[r] = count[r] + 1
      BY <1>2, <2>1 DEF Inv, TypeOK
    <3>2. /\ conn[c] \in {"replay", "live"} /\ next[c] <= count[r]
          /\ conn[c] = "live" => count[r] <= next[c] + Evts(queue[c])
      BY <1>1, <2>1, <3>1 DEF Inv, AllClients, Client
    <3>3. conn[c] = "live" => count[r] + 1 <= next[c] + Evts(queue'[c])
      BY <1>1, <1>3, <2>1, <3>1, <3>2
    <3>4. next[c] <= count[r] + 1
      BY <1>1, <3>1, <3>2
    <3> QED
      BY <1>2, <1>3, <2>1, <3>1, <3>2, <3>3, <3>4 DEF Client
  <2>2. CASE at[c] # r
    <3>1. at[c] # NoRun => count'[at[c]] = count[at[c]]
      BY <1>2, <2>2 DEF Inv, TypeOK
    <3> QED
      BY <1>2, <2>2, <3>1 DEF Inv, AllClients, Client
  <2> QED
    BY <2>1, <2>2
<1> QED
  BY <1>4, <1>5, <1>6 DEF Inv, AllClients

\* The end of a run closes the queues of its clients.
LEMMA FinishKeeps ==
    ASSUME Inv, NEW r \in Runs, pc[r] = "draining",
           NEW end \in {"done", "error", "stopped"}, NEW evs,
           \/ evs = <<>>
           \/ evs = <<count[into[r]] + 1, count[into[r]] + 2>>,
           Finish(r, end, evs)
    PROVE  Inv'
<1> DEFINE m == count[r] + Len(evs)
<1>1. /\ into[r] = r /\ status[r] = "running" /\ count[r] \in 0 .. MaxEvents
      /\ m \in 0 .. MaxEvents + 2 /\ count[r] <= m
  <2>1. into[r] = r /\ status[r] = "running" /\ count[r] \in 0 .. MaxEvents
    BY DEF Inv, TypeOK, AliveRuns, DrainsOwnRun
  <2>2. Len(evs) \in {0, 2}
    OBVIOUS
  <2>3. m \in 0 .. MaxEvents + 2 /\ count[r] <= m
    <3>1. CASE Len(evs) = 0
      BY <2>1, <3>1
    <3>2. CASE Len(evs) = 2
      BY <2>1, <3>2
    <3> QED
      BY <2>2, <3>1, <3>2
  <2> QED
    BY <2>1, <2>3
<1>2. /\ pc' = [pc EXCEPT ![r] = "ended"]
      /\ cancel' = cancel \ {r}
      /\ status' = [status EXCEPT ![r] = end]
      /\ count' = [count EXCEPT ![r] = m]
      /\ queue' = [c \in Clients |-> IF at[c] = r THEN queue[c] \o Append(evs, Sentinel)
                                     ELSE queue[c]]
      /\ timer' = Armed(timer)
      /\ UNCHANGED <<cur, prev, into, conn, at, next, got>>
  BY <1>1 DEF Finish, Send, Inv, TypeOK
<1>3. ASSUME NEW c \in Clients, at[c] = r
      PROVE  /\ Tidy(queue'[c], m)
             /\ Evts(queue'[c]) = Evts(queue[c]) + (m - count[r])
             /\ Evts(queue[c]) \in Nat
  <2>1. Tidy(queue[c], count[r]) /\ ~Sealed(queue[c]) /\ Evts(queue[c]) \in Nat
    BY <1>1, <1>3, EvtsType DEF Inv, AllClients, Client, Tidy
  <2>2. queue'[c] = queue[c] \o Append(evs, Sentinel)
    BY <1>2, <1>3
  <2>3. CASE evs = <<>>
    <3>1. Append(evs, Sentinel) = <<Sentinel>> /\ m = count[r]
      BY <1>1, <2>3
    <3> QED
      BY <1>1, <2>1, <2>2, <3>1, PutSentinel
  <2>4. CASE evs = <<count[r] + 1, count[r] + 2>>
    <3>1. /\ Append(evs, Sentinel) = <<count[r] + 1, count[r] + 2, Sentinel>>
          /\ m = count[r] + 2
      <4>1. Append(evs, Sentinel) = <<count[r] + 1, count[r] + 2, Sentinel>>
        BY <2>4, AppendPair
      <4>2. Len(evs) = 2
        BY <2>4
      <4> QED
        BY <4>1, <4>2
    <3>2. count[r] + 1 \in Events /\ count[r] + 2 \in Events
      BY <1>1 DEF Events
    <3> QED
      BY <1>1, <2>1, <2>2, <3>1, <3>2, PutFailure
  <2> QED
    BY <1>1, <2>3, <2>4
<1>4. TypeOK'
  <2>1. \A c \in Clients : queue'[c] \in Seq(Msgs)
    BY <1>2, <1>3 DEF Inv, TypeOK, Tidy, Msgs
  <2> QED
    BY <1>1, <1>2, <2>1 DEF Inv, TypeOK, Armed, Msgs
<1>5. AliveRuns' /\ DrainsOwnRun' /\ InOrderOnce'
  BY <1>1, <1>2 DEF Inv, TypeOK, AliveRuns, DrainsOwnRun, InOrderOnce
<1>6. ASSUME NEW c \in Clients PROVE Client(c)'
  <2>1. CASE at[c] = r
    <3>1. /\ next[c] \in Nat /\ at[c] # NoRun
          /\ count'[r] = m /\ status'[r] = end /\ end # "running"
      BY <1>2, <2>1 DEF Inv, TypeOK
    <3>2. /\ conn[c] \in {"replay", "live"} /\ next[c] <= count[r]
          /\ conn[c] = "live" => count[r] <= next[c] + Evts(queue[c])
      BY <1>1, <2>1, <3>1 DEF Inv, AllClients, Client
    <3>3. conn[c] = "live" => m <= next[c] + Evts(queue'[c])
      BY <1>1, <1>3, <2>1, <3>1, <3>2
    <3>4. next[c] <= m
      BY <1>1, <3>1, <3>2
    <3> QED
      BY <1>2, <1>3, <2>1, <3>1, <3>2, <3>3, <3>4 DEF Client
  <2>2. CASE at[c] # r
    <3>1. at[c] # NoRun =>
             count'[at[c]] = count[at[c]] /\ status'[at[c]] = status[at[c]]
      BY <1>2, <2>2 DEF Inv, TypeOK
    <3> QED
      BY <1>2, <2>2, <3>1 DEF Inv, AllClients, Client
  <2> QED
    BY <2>1, <2>2
<1> QED
  BY <1>4, <1>5, <1>6 DEF Inv, AllClients

LEMMA DrainedKeeps ==
    ASSUME Inv, NEW r \in Runs, Drained(r)
    PROVE  Inv'
BY FinishKeeps DEF Drained

-----------------------------------------------------------------------------
(* The steps of the clients keep it. *)

\* They change nothing of the runs.
LEMMA SameRuns ==
    ASSUME Inv, UNCHANGED <<cur, runVars>>
    PROVE  AliveRuns' /\ DrainsOwnRun'
BY DEF Inv, AliveRuns, DrainsOwnRun, runVars

LEMMA LeaveKeeps ==
    ASSUME Inv, NEW c \in Clients, NEW run, NEW tm \in SUBSET Runs,
           NEW how \in {"complete", "gone"}, Leave(c, run, tm, how),
           UNCHANGED <<cur, runVars>>
    PROVE  Inv'
<1>1. TypeOK'
  BY EmptySeq DEF Inv, TypeOK, Leave, Armed, runVars
<1>2. AllClients'
  BY DEF Inv, TypeOK, AllClients, Client, Leave, runVars
<1>3. InOrderOnce'
  <2>1. <<>> = [i \in 1 .. 0 |-> i]
    BY Z3
  <2> QED
    BY <2>1 DEF Inv, TypeOK, InOrderOnce, Leave
<1> QED
  BY <1>1, <1>2, <1>3, SameRuns DEF Inv

\* A delivery hands out the event after the last one.
LEMMA DeliverKeeps ==
    ASSUME Inv, NEW c \in Clients, NEW run \in Runs, at[c] \in {NoRun, run},
           NEW where \in {"replay", "live", "flush"},
           next[c] + 1 <= count[run], Deliver(c, next[c] + 1, where),
           at' = [at EXCEPT ![c] = run],
           timer' \in SUBSET Runs, queue' \in [Clients -> Seq(Msgs)],
           \A d \in Clients \ {c} : queue'[d] = queue[d],
           Tidy(queue'[c], count[run]),
           Sealed(queue'[c]) \/ where = "flush" => status[run] # "running",
           where = "live" => count[run] <= next[c] + 1 + Evts(queue'[c]),
           UNCHANGED <<cur, runVars>>
    PROVE  Inv'
<1>1. next[c] \in Nat /\ count[run] \in 0 .. MaxEvents + 2 /\ next[c] + 1 \in Events
  BY DEF Inv, TypeOK, Events
<1>2. TypeOK'
  <2>1. Append(got[c], next[c] + 1) \in Seq(Events)
    BY <1>1, AppendProperties DEF Inv, TypeOK
  <2>2. got' \in [Clients -> Seq(Events)] /\ next' \in [Clients -> 0 .. MaxEvents + 2]
    BY <1>1, <2>1 DEF Inv, TypeOK, Deliver
  <2> QED
    BY <2>2 DEF Inv, TypeOK, Deliver, runVars, Msgs
<1>3. ASSUME NEW d \in Clients PROVE Client(d)'
  <2>1. CASE d = c
    BY <1>1, <2>1 DEF Inv, TypeOK, Client, Deliver, runVars
  <2>2. CASE d # c
    BY <2>2 DEF Inv, TypeOK, AllClients, Client, Deliver, runVars
  <2> QED
    BY <2>1, <2>2
<1>4. InOrderOnce'
  BY <1>1, GiveNext DEF Inv, TypeOK, InOrderOnce, Deliver
<1> QED
  BY <1>2, <1>3, <1>4, SameRuns DEF Inv, AllClients

\* What a client that registers, or is already a subscriber, knows of its run.
LEMMA KnowsRun ==
    ASSUME Inv, NEW c \in Clients, NEW run \in Runs, at[c] \in {NoRun, run}
    PROVE  /\ next[c] <= count[run] /\ next[c] \in Nat /\ count[run] \in Nat
           /\ Tidy(queue[c], count[run]) /\ Evts(queue[c]) \in Nat
           /\ Sealed(queue[c]) => status[run] # "running"
<1>1. next[c] \in Nat /\ count[run] \in Nat
  BY DEF Inv, TypeOK
<1>2. CASE at[c] = NoRun
  <2>1. queue[c] = <<>> /\ next[c] = 0
    BY <1>2 DEF Inv, AllClients, Client
  <2> QED
    BY <1>1, <2>1, EmptyTidy
<1>3. CASE at[c] = run
  <2>1. at[c] # NoRun
    BY <1>3
  <2>2. /\ next[c] <= count[run] /\ Tidy(queue[c], count[run])
        /\ Sealed(queue[c]) => status[run] # "running"
    BY <1>3, <2>1 DEF Inv, AllClients, Client
  <2> QED
    BY <1>1, <2>2, EvtsType DEF Tidy
<1> QED
  BY <1>2, <1>3

LEMMA ReplayFromKeeps ==
    ASSUME Inv, NEW c \in Clients, NEW run \in Runs, at[c] \in {NoRun, run},
           NEW tm \in SUBSET Runs, conn[c] # "live" \/ at[c] = NoRun,
           ReplayFrom(c, run, next[c], tm), UNCHANGED <<cur, runVars>>
    PROVE  Inv'
<1> USE KnowsRun
<1>1. CASE /\ next[c] < count[run]
           /\ Deliver(c, next[c] + 1, "replay")
           /\ at' = [at EXCEPT ![c] = run]
           /\ timer' = tm
           /\ UNCHANGED queue
  <2>1. next[c] + 1 <= count[run]
    BY <1>1
  <2>2. queue' \in [Clients -> Seq(Msgs)] /\ timer' \in SUBSET Runs
    BY <1>1 DEF Inv, TypeOK, Msgs
  <2> QED
    BY <1>1, <2>1, <2>2, DeliverKeeps
<1>2. CASE Leave(c, run, tm, "complete")
  BY <1>2, LeaveKeeps
<1>3. CASE /\ next[c] >= count[run] /\ status[run] = "running"
           /\ conn' = [conn EXCEPT ![c] = "live"]
           /\ at' = [at EXCEPT ![c] = run]
           /\ timer' = tm
           /\ UNCHANGED <<queue, next, got>>
  <2>1. TypeOK' /\ InOrderOnce'
    BY <1>3 DEF Inv, TypeOK, InOrderOnce, runVars
  <2>2. ASSUME NEW d \in Clients PROVE Client(d)'
    <3>1. CASE d = c
      <4>1. /\ conn'[c] = "live" /\ at'[c] = run /\ at'[c] # NoRun
            /\ next'[c] = next[c] /\ queue'[c] = queue[c]
            /\ count' = count /\ status' = status
        BY <1>3 DEF Inv, TypeOK, runVars
      <4>2. count[run] <= next[c] + Evts(queue[c])
        BY <1>3
      <4> QED
        BY <1>3, <3>1, <4>1, <4>2 DEF Client
    <3>2. CASE d # c
      BY <1>3, <3>2 DEF Inv, TypeOK, AllClients, Client, runVars
    <3> QED
      BY <3>1, <3>2
  <2> QED
    BY <2>1, <2>2, SameRuns DEF Inv, AllClients
<1> QED
  BY <1>1, <1>2, <1>3 DEF ReplayFrom

LEMMA SubscribeKeeps ==
    ASSUME Inv, NEW c \in Clients, Subscribe(c)
    PROVE  Inv'
<1>1. next[c] = 0 /\ cur \in Runs /\ timer \ {cur} \in SUBSET Runs
  BY DEF Inv, TypeOK, AllClients, Client, Subscribe
<1> QED
  BY <1>1, ReplayFromKeeps DEF Subscribe

LEMMA ReplayKeeps ==
    ASSUME Inv, NEW c \in Clients, Replay(c)
    PROVE  Inv'
<1>1. at[c] \in Runs /\ timer \in SUBSET Runs
  BY DEF Inv, TypeOK, AllClients, Client, Replay
<1> QED
  BY <1>1, ReplayFromKeeps DEF Replay

\* The flush follows the sentinel, a timeout or itself: the run has ended.
LEMMA FlushRestKeeps ==
    ASSUME Inv, NEW c \in Clients, at[c] \in Runs, status[at[c]] # "running",
           FlushRest(c), UNCHANGED <<cur, runVars>>
    PROVE  Inv'
<1> USE KnowsRun
<1>1. CASE /\ next[c] < count[at[c]]
           /\ Deliver(c, next[c] + 1, "flush")
           /\ UNCHANGED <<at, queue, timer>>
  <2>1. next[c] + 1 <= count[at[c]]
    BY <1>1
  <2>2. /\ queue' \in [Clients -> Seq(Msgs)] /\ timer' \in SUBSET Runs
        /\ at' = [at EXCEPT ![c] = at[c]]
    BY <1>1 DEF Inv, TypeOK, Msgs
  <2> QED
    BY <1>1, <2>1, <2>2, DeliverKeeps
<1>2. CASE Leave(c, at[c], timer, "complete")
  BY <1>2, LeaveKeeps DEF Inv, TypeOK
<1> QED
  BY <1>1, <1>2 DEF FlushRest

\* What a live client takes from its queue.
LEMMA TakesNext ==
    ASSUME Inv, NEW c \in Clients, conn[c] = "live", queue[c] # <<>>
    PROVE  /\ at[c] \in Runs
           /\ Head(queue[c]) = Sentinel => status[at[c]] # "running"
           /\ Head(queue[c]) # Sentinel =>
                 /\ Head(queue[c]) \in Nat
                 /\ Head(queue[c]) <= next[c] + 1 /\ Head(queue[c]) <= count[at[c]]
                 /\ Tidy(Tail(queue[c]), count[at[c]])
                 /\ count[at[c]] = Head(queue[c]) + Evts(Tail(queue[c]))
                 /\ Evts(Tail(queue[c])) \in Nat
                 /\ Sealed(Tail(queue[c])) => status[at[c]] # "running"
<1>1. at[c] # NoRun /\ at[c] \in Runs
  BY DEF Inv, TypeOK, AllClients, Client
<1>2. /\ Tidy(queue[c], count[at[c]])
      /\ Sealed(queue[c]) => status[at[c]] # "running"
      /\ count[at[c]] <= next[c] + Evts(queue[c])
  BY <1>1 DEF Inv, AllClients, Client
<1>3. count[at[c]] \in Nat /\ next[c] \in Nat
  BY <1>1 DEF Inv, TypeOK
<1>4. Evts(queue[c]) \in 0 .. count[at[c]]
  BY <1>2, <1>3, EvtsType DEF Tidy
<1>5. CASE Head(queue[c]) = Sentinel
  BY <1>1, <1>2, <1>3, <1>5, Take
<1>6. CASE Head(queue[c]) # Sentinel
  <2>1. /\ Head(queue[c]) = count[at[c]] - Evts(queue[c]) + 1
        /\ Tidy(Tail(queue[c]), count[at[c]])
        /\ Evts(Tail(queue[c])) = Evts(queue[c]) - 1
        /\ Sealed(Tail(queue[c])) => Sealed(queue[c])
    BY <1>2, <1>3, <1>6, Take
  <2>2. Evts(Tail(queue[c])) \in Nat
    <3>1. Tail(queue[c]) \in Seq(Msgs)
      BY <2>1 DEF Tidy
    <3>2. /\ Evts(Tail(queue[c])) \in 0 .. Len(Tail(queue[c]))
          /\ Len(Tail(queue[c])) \in Nat
      BY <3>1, EvtsType
    <3> QED
      BY <3>2
  <2> QED
    BY <1>1, <1>2, <1>3, <1>4, <1>6, <2>1, <2>2
<1> QED
  BY <1>5, <1>6

LEMMA ReceiveKeeps ==
    ASSUME Inv, NEW c \in Clients, Receive(c)
    PROVE  Inv'
<1> DEFINE n == Head(queue[c])
<1>1. conn[c] = "live" /\ queue[c] # <<>> /\ UNCHANGED <<cur, runVars>>
  BY DEF Receive
<1>2. at[c] \in Runs /\ next[c] \in Nat /\ at[c] # NoRun /\ count[at[c]] \in Nat
  BY <1>1, TakesNext DEF Inv, TypeOK
<1>3. CASE n = Sentinel /\ FlushRest(c)
  BY <1>1, <1>2, <1>3, TakesNext, FlushRestKeeps
<1>4. CASE /\ New(c, n)
           /\ Deliver(c, n, "live")
           /\ queue' = [queue EXCEPT ![c] = Tail(@)]
           /\ UNCHANGED <<at, timer>>
  <2>1. n = next[c] + 1 /\ n <= count[at[c]]
    BY <1>1, <1>2, <1>4, TakesNext DEF New
  <2>2. /\ Tidy(Tail(queue[c]), count[at[c]])
        /\ count[at[c]] <= next[c] + 1 + Evts(Tail(queue[c]))
        /\ Sealed(Tail(queue[c])) => status[at[c]] # "running"
    BY <1>1, <1>2, <1>4, <2>1, TakesNext DEF New
  <2>3. /\ queue' \in [Clients -> Seq(Msgs)] /\ queue'[c] = Tail(queue[c])
        /\ timer' \in SUBSET Runs /\ at' = [at EXCEPT ![c] = at[c]]
        /\ \A d \in Clients \ {c} : queue'[d] = queue[d]
    BY <1>4, <2>2 DEF Inv, TypeOK, Tidy, Msgs
  <2> QED
    BY <1>1, <1>2, <1>4, <2>1, <2>2, <2>3, DeliverKeeps
<1>5. CASE /\ n # Sentinel /\ ~New(c, n)
           /\ queue' = [queue EXCEPT ![c] = Tail(@)]
           /\ UNCHANGED <<conn, at, next, got, timer>>
  <2>1. n <= next[c] /\ n \in Nat
    BY <1>1, <1>2, <1>5, TakesNext DEF New
  <2>2. /\ Tidy(Tail(queue[c]), count[at[c]])
        /\ count[at[c]] <= next[c] + Evts(Tail(queue[c]))
        /\ Sealed(Tail(queue[c])) => status[at[c]] # "running"
    BY <1>1, <1>2, <1>5, <2>1, TakesNext
  <2>3. queue' \in [Clients -> Seq(Msgs)] /\ queue'[c] = Tail(queue[c])
    BY <1>5, <2>2 DEF Inv, TypeOK, Tidy, Msgs
  <2>4. TypeOK' /\ InOrderOnce'
    BY <1>1, <1>5, <2>3 DEF Inv, TypeOK, InOrderOnce, runVars, Msgs
  <2>5. ASSUME NEW d \in Clients PROVE Client(d)'
    <3>1. CASE d = c
      <4>1. next[c] <= count[at[c]]
        BY <1>2 DEF Inv, AllClients, Client
      <4> QED
        BY <1>1, <1>2, <1>5, <2>2, <2>3, <3>1, <4>1 DEF Client, runVars
    <3>2. CASE d # c
      BY <1>1, <1>5, <3>2 DEF Inv, TypeOK, AllClients, Client, runVars
    <3> QED
      BY <3>1, <3>2
  <2> QED
    BY <1>1, <2>4, <2>5, SameRuns DEF Inv, AllClients
<1> QED
  BY <1>3, <1>4, <1>5 DEF Receive

LEMMA TimeoutKeeps ==
    ASSUME Inv, NEW c \in Clients, Timeout(c)
    PROVE  Inv'
<1>1. at[c] \in Runs
  BY DEF Inv, TypeOK, AllClients, Client, Timeout
<1> QED
  BY <1>1, FlushRestKeeps DEF Timeout

LEMMA FlushKeeps ==
    ASSUME Inv, NEW c \in Clients, Flush(c)
    PROVE  Inv'
<1>1. at[c] \in Runs /\ status[at[c]] # "running"
  BY DEF Inv, TypeOK, AllClients, Client, Flush
<1> QED
  BY <1>1, FlushRestKeeps DEF Flush

LEMMA DisconnectKeeps ==
    ASSUME Inv, NEW c \in Clients, Disconnect(c)
    PROVE  Inv'
BY LeaveKeeps DEF Inv, TypeOK, Disconnect

\* Every step keeps the invariant.
LEMMA NextKeeps == Inv /\ [Next]_vars => Inv'
<1> SUFFICES ASSUME Inv, [Next]_vars PROVE Inv'
  OBVIOUS
<1>1. CASE Stop
  BY <1>1, StopKeeps
<1>2. CASE \E r \in Runs : Start(r) \/ DrainStep(r) \/ Evict(r)
  BY <1>2, StartKeeps, BeginKeeps, PrevEndedKeeps, CancelledEarlyKeeps,
     PublishKeeps, DrainedKeeps, EvictKeeps DEF DrainStep
<1>3. CASE \E c \in Clients : Subscribe(c) \/ ClientStep(c) \/ Disconnect(c)
  BY <1>3, SubscribeKeeps, ReplayKeeps, ReceiveKeeps, TimeoutKeeps, FlushKeeps,
     DisconnectKeeps DEF ClientStep
<1>4. CASE UNCHANGED vars
  BY <1>4 DEF vars, runVars, clientVars, Inv, TypeOK, AliveRuns, DrainsOwnRun,
     AllClients, Client, InOrderOnce
<1> QED
  BY <1>1, <1>2, <1>3, <1>4 DEF Next

LEMMA InvHolds == Spec => []Inv
BY InitInv, NextKeeps, PTL DEF Spec

\* The variables have their types (AgentRuns' TypeOK), whatever the constants.
THEOREM RunsTyped == Spec => []TypeOK
<1>1. Inv => TypeOK
  BY DEF Inv
<1> QED
  BY <1>1, InvHolds, PTL

\* However replay and live events overlap, a client is given the events from the
\* first one on, each once and in order.
THEOREM EventsInOrderOnce == Spec => []InOrderOnce
<1>1. Inv => InOrderOnce
  BY DEF Inv
<1> QED
  BY <1>1, InvHolds, PTL

\* A drain task publishes to its own run, although it looks it up by the session.
THEOREM OwnRunDrained == Spec => []DrainsOwnRun
<1>1. Inv => DrainsOwnRun
  BY DEF Inv
<1> QED
  BY <1>1, InvHolds, PTL

-----------------------------------------------------------------------------
(* The runs that have ended and that nobody watches. *)

\* No step leaves an ended, unwatched run without its timer.
LEMMA ExpiryKeeps == Inv /\ IdleRunsExpire /\ [Next]_vars => IdleRunsExpire'
<1> SUFFICES ASSUME Inv, IdleRunsExpire, [Next]_vars PROVE IdleRunsExpire'
  OBVIOUS
<1>1. ASSUME NEW r \in Runs, Start(r) PROVE IdleRunsExpire'
  BY <1>1 DEF Inv, TypeOK, IdleRunsExpire, Start
<1>2. ASSUME NEW r \in Runs, DrainStep(r) PROVE IdleRunsExpire'
  <2>1. CASE Begin(r) \/ PrevEnded(r) \/ CancelledEarly(r) \/ Publish(r)
    BY <2>1 DEF IdleRunsExpire, Subscribers, Begin, PrevEnded, CancelledEarly,
       Publish, clientVars
  <2>2. CASE Drained(r)
    BY <2>2 DEF IdleRunsExpire, Subscribers, Drained, Finish, Armed
  <2> QED
    BY <1>2, <2>1, <2>2 DEF DrainStep
<1>3. ASSUME NEW r \in Runs, Evict(r) PROVE IdleRunsExpire'
  BY <1>3 DEF IdleRunsExpire, Subscribers, Evict, runVars, clientVars
<1>4. ASSUME NEW c \in Clients, NEW run, NEW tm, NEW how,
             \/ run = at[c] /\ run # NoRun /\ tm = timer
             \/ run = cur /\ at[c] = NoRun,
             Leave(c, run, tm, how), UNCHANGED <<cur, runVars>>
      PROVE  IdleRunsExpire'
  <2> SUFFICES ASSUME cur # NoRun, status[cur] # "running", Subscribers(cur)' = {}
               PROVE  cur \in timer'
    BY <1>4 DEF IdleRunsExpire, runVars
  <2>1. Subscribers(cur) \ {c} = {}
    BY <1>4 DEF Subscribers, Leave, Inv, TypeOK
  <2>2. CASE run = cur
    BY <1>4, <2>1, <2>2 DEF Leave, Armed
  <2>3. CASE run # cur
    <3>1. Subscribers(cur) = {}
      BY <1>4, <2>1, <2>3 DEF Subscribers
    <3> QED
      BY <1>4, <2>3, <3>1 DEF IdleRunsExpire, Leave, Armed
  <2> QED
    BY <2>2, <2>3
<1>5. ASSUME NEW c \in Clients, NEW run \in Runs, at' = [at EXCEPT ![c] = run],
             timer' = timer \/ run = cur, UNCHANGED <<cur, runVars>>,
             at[c] \in {NoRun, run}
      PROVE  IdleRunsExpire'
  <2> SUFFICES ASSUME cur # NoRun, status[cur] # "running", Subscribers(cur)' = {}
               PROVE  cur \in timer'
    BY <1>5 DEF IdleRunsExpire, runVars
  <2>1. run # cur
    BY <1>5 DEF Subscribers, Inv, TypeOK
  <2>2. Subscribers(cur) = {}
    BY <1>5, <2>1 DEF Subscribers, Inv, TypeOK
  <2> QED
    BY <1>5, <2>1, <2>2 DEF IdleRunsExpire
<1>6. ASSUME NEW c \in Clients, at[c] \in Runs, FlushRest(c), UNCHANGED <<cur, runVars>>
      PROVE  IdleRunsExpire'
  <2>1. CASE Leave(c, at[c], timer, "complete")
    BY <1>4, <1>6, <2>1
  <2>2. CASE UNCHANGED <<at, queue, timer>>
    BY <1>6, <2>2 DEF IdleRunsExpire, Subscribers, runVars
  <2> QED
    BY <1>6, <2>1, <2>2 DEF FlushRest
<1>7. ASSUME NEW c \in Clients, Subscribe(c) PROVE IdleRunsExpire'
  <2>1. cur \in Runs /\ at[c] = NoRun
    BY <1>7 DEF Inv, TypeOK, Subscribe
  <2>2. CASE Leave(c, cur, timer \ {cur}, "complete")
    BY <1>4, <1>7, <2>1, <2>2 DEF Subscribe
  <2>3. CASE at' = [at EXCEPT ![c] = cur]
    BY <1>5, <1>7, <2>1, <2>3 DEF Subscribe
  <2> QED
    BY <1>7, <2>2, <2>3 DEF Subscribe, ReplayFrom
<1>8. ASSUME NEW c \in Clients, ClientStep(c) PROVE IdleRunsExpire'
  <2>1. at[c] \in Runs /\ at[c] # NoRun
    BY <1>8 DEF Inv, TypeOK, AllClients, Client, ClientStep, Replay, Receive, Timeout, Flush
  <2>2. CASE Replay(c)
    <3>1. CASE Leave(c, at[c], timer, "complete")
      BY <1>4, <2>1, <2>2, <3>1 DEF Replay
    <3>2. CASE at' = [at EXCEPT ![c] = at[c]] /\ timer' = timer
      BY <1>5, <2>1, <2>2, <3>2 DEF Replay
    <3> QED
      BY <2>2, <3>1, <3>2 DEF Replay, ReplayFrom
  <2>3. CASE Receive(c) /\ ~FlushRest(c)
    BY <2>3 DEF Receive, IdleRunsExpire, Subscribers, runVars
  <2>4. CASE FlushRest(c) /\ UNCHANGED <<cur, runVars>>
    BY <1>6, <2>1, <2>4
  <2> QED
    BY <1>8, <2>2, <2>3, <2>4 DEF ClientStep, Receive, Timeout, Flush
<1>9. ASSUME NEW c \in Clients, Disconnect(c) PROVE IdleRunsExpire'
  BY <1>4, <1>9 DEF Disconnect
<1>10. CASE Stop \/ UNCHANGED vars
  BY <1>10 DEF IdleRunsExpire, Subscribers, Stop, vars, runVars, clientVars
<1> QED
  BY <1>1, <1>2, <1>3, <1>7, <1>8, <1>9, <1>10 DEF Next

\* A run that has ended and that nobody watches is going to be evicted, whoever
\* comes and goes meanwhile.
THEOREM EndedRunsExpire == Spec => []IdleRunsExpire
<1>1. Init => IdleRunsExpire
  BY DEF Init, IdleRunsExpire
<1> QED
  BY <1>1, ExpiryKeeps, InvHolds, PTL DEF Spec

-----------------------------------------------------------------------------
(* The refinement. *)

open == {r \in Runs : status[r] = "running"}
end == [c \in Clients |-> IF Connected(c) THEN "open" ELSE conn[c]]

\* next_seq counts what the client was given.
LEMMA GivenCount ==
    ASSUME Inv, NEW c \in Clients
    PROVE  next[c] \in Nat /\ Len(got[c]) = next[c]
<1>1. \A n \in Nat : Len([i \in 1 .. n |-> i]) = n
  BY Z3
<1> QED
  BY <1>1 DEF Inv, InOrderOnce, TypeOK

\* A client that leaves by itself has all of an answer that is closed, or came too
\* late for one that was empty.
LEMMA LeaveCompletes ==
    ASSUME Inv, NEW c \in Clients, NEW run \in Runs, at[c] \in {NoRun, run}, NEW tm,
           next[c] >= count[run], status[run] # "running",
           Leave(c, run, tm, "complete"), UNCHANGED <<cur, runVars>>
    PROVE  ES!Complete(c)
<1>1. /\ next[c] <= count[run] /\ next[c] \in Nat /\ count[run] \in Nat
      /\ Len(got[c]) = next[c]
  BY KnowsRun, GivenCount
<1>2. next[c] = count[run]
  BY <1>1
<1>3. \/ at[c] # NoRun /\ at[c] \notin open /\ Len(got[c]) = count[at[c]]
      \/ at[c] = NoRun /\ \E r \in Runs : r \notin open /\ count[r] = 0
  BY <1>1, <1>2 DEF open, Inv, AllClients, Client
<1>4. end' = [end EXCEPT ![c] = "complete"]
  BY DEF end, Connected, Leave, Inv, TypeOK
<1> QED
  BY <1>3, <1>4 DEF ES!Complete, open, end, Leave, runVars

\* A delivery to a subscriber is the abstract one.
LEMMA DeliverGives ==
    ASSUME Inv, NEW c \in Clients, at[c] # NoRun, NEW where,
           next[c] + 1 <= count[at[c]], Deliver(c, next[c] + 1, where),
           at' = at, UNCHANGED <<cur, runVars>>
    PROVE  ES!Give(c)
<1>1. next[c] \in Nat /\ Len(got[c]) = next[c] /\ at[c] \in Runs /\ count[at[c]] \in Nat
  BY GivenCount DEF Inv, TypeOK
<1>2. Len(got[c]) < count[at[c]] /\ got' = [got EXCEPT ![c] = Append(@, Len(@) + 1)]
  BY <1>1 DEF Deliver, Inv, TypeOK
<1>3. end' = end
  BY DEF end, Connected, Deliver, Inv, TypeOK
<1> QED
  BY <1>2, <1>3 DEF ES!Give, open, end, runVars

\* Joining, for an answer that has no event yet or that has.
LEMMA JoinRefines ==
    ASSUME Inv, NEW c \in Clients, Subscribe(c)
    PROVE  ES!Next
<1>1. /\ at[c] = NoRun /\ cur \in Runs /\ next[c] = 0 /\ got[c] = <<>>
      /\ count[cur] \in Nat /\ UNCHANGED <<cur, runVars>>
  BY DEF Inv, TypeOK, AllClients, Client, Subscribe
<1>2. CASE count[cur] <= 0 /\ Leave(c, cur, timer \ {cur}, "complete")
           /\ status[cur] # "running"
  BY <1>1, <1>2, LeaveCompletes DEF ES!Next
<1>3. CASE /\ 0 < count[cur] /\ Deliver(c, 1, "replay")
           /\ at' = [at EXCEPT ![c] = cur]
  <2>1. got' = [got EXCEPT ![c] = <<1>>] /\ count[cur] # 0
    BY <1>1, <1>3 DEF Deliver, Inv, TypeOK
  <2>2. end' = [end EXCEPT ![c] = "open"]
    BY <1>1, <1>3 DEF end, Connected, Deliver, Inv, TypeOK
  <2>3. ES!Join(c)
    BY <1>1, <1>3, <2>1, <2>2 DEF ES!Join, open, end, runVars
  <2> QED
    BY <2>3 DEF ES!Next
<1>4. CASE /\ 0 >= count[cur] /\ conn' = [conn EXCEPT ![c] = "live"]
           /\ at' = [at EXCEPT ![c] = cur] /\ UNCHANGED got
  <2>1. got' = [got EXCEPT ![c] = <<>>] /\ count[cur] = 0
    BY <1>1, <1>4 DEF Inv, TypeOK
  <2>2. end' = [end EXCEPT ![c] = "open"]
    BY <1>1, <1>4 DEF end, Connected, Inv, TypeOK
  <2>3. ES!Join(c)
    BY <1>1, <1>4, <2>1, <2>2 DEF ES!Join, open, end, runVars
  <2> QED
    BY <2>3 DEF ES!Next
<1>5. ReplayFrom(c, cur, 0, timer \ {cur})
  BY DEF Subscribe
<1>6. \/ 0 < count[cur] /\ Deliver(c, 0 + 1, "replay") /\ at' = [at EXCEPT ![c] = cur]
      \/ 0 >= count[cur] /\ status[cur] # "running" /\ Leave(c, cur, timer \ {cur}, "complete")
      \/ /\ 0 >= count[cur] /\ conn' = [conn EXCEPT ![c] = "live"]
         /\ at' = [at EXCEPT ![c] = cur] /\ UNCHANGED got
  BY <1>5 DEF ReplayFrom
<1>7. 0 + 1 = 1
  OBVIOUS
<1> QED
  BY <1>1, <1>2, <1>3, <1>4, <1>6, <1>7

LEMMA ReplayRefines ==
    ASSUME Inv, NEW c \in Clients, Replay(c)
    PROVE  ES!Next \/ UNCHANGED ES!vars
<1>1. /\ at[c] # NoRun /\ at[c] \in Runs /\ conn[c] = "replay"
      /\ next[c] \in Nat /\ count[at[c]] \in Nat /\ UNCHANGED <<cur, runVars>>
  <2>1. conn[c] = "replay" /\ UNCHANGED <<cur, runVars>>
    BY DEF Replay
  <2>2. at[c] # NoRun /\ at[c] \in Runs
    BY <2>1 DEF Inv, TypeOK, AllClients, Client
  <2> QED
    BY <2>1, <2>2 DEF Inv, TypeOK
<1>2. CASE /\ next[c] < count[at[c]] /\ Deliver(c, next[c] + 1, "replay")
           /\ at' = [at EXCEPT ![c] = at[c]]
  <2>1. next[c] + 1 <= count[at[c]] /\ at' = at
    BY <1>1, <1>2 DEF Inv, TypeOK
  <2> QED
    BY <1>1, <1>2, <2>1, DeliverGives DEF ES!Next
<1>3. CASE /\ next[c] >= count[at[c]] /\ status[at[c]] # "running"
           /\ Leave(c, at[c], timer, "complete")
  BY <1>1, <1>3, LeaveCompletes DEF ES!Next
<1>4. CASE /\ conn' = [conn EXCEPT ![c] = "live"]
           /\ at' = [at EXCEPT ![c] = at[c]] /\ UNCHANGED got
  <2>1. at' = at /\ end' = end
    BY <1>1, <1>4 DEF end, Connected, Inv, TypeOK
  <2> QED
    BY <1>1, <1>4, <2>1 DEF ES!vars, end, open, runVars
<1> QED
  BY <1>2, <1>3, <1>4 DEF Replay, ReplayFrom

LEMMA FlushRefines ==
    ASSUME Inv, NEW c \in Clients, at[c] \in Runs, at[c] # NoRun,
           status[at[c]] # "running", FlushRest(c), UNCHANGED <<cur, runVars>>
    PROVE  ES!Next
<1>1. next[c] \in Nat /\ count[at[c]] \in Nat
  BY DEF Inv, TypeOK
<1>2. CASE next[c] < count[at[c]] /\ Deliver(c, next[c] + 1, "flush") /\ at' = at
  <2>1. next[c] + 1 <= count[at[c]]
    BY <1>1, <1>2
  <2> QED
    BY <1>2, <2>1, DeliverGives DEF ES!Next
<1>3. CASE next[c] >= count[at[c]] /\ Leave(c, at[c], timer, "complete")
  BY <1>3, LeaveCompletes DEF ES!Next
<1> QED
  BY <1>2, <1>3 DEF FlushRest

LEMMA ReceiveRefines ==
    ASSUME Inv, NEW c \in Clients, Receive(c)
    PROVE  ES!Next \/ UNCHANGED ES!vars
<1> DEFINE n == Head(queue[c])
<1>1. /\ conn[c] = "live" /\ queue[c] # <<>> /\ UNCHANGED <<cur, runVars>>
      /\ at[c] \in Runs /\ at[c] # NoRun /\ next[c] \in Nat /\ count[at[c]] \in Nat
  BY TakesNext DEF Receive, Inv, TypeOK
<1>2. CASE n = Sentinel /\ FlushRest(c)
  BY <1>1, <1>2, TakesNext, FlushRefines
<1>3. CASE New(c, n) /\ Deliver(c, n, "live") /\ UNCHANGED <<at, timer>>
  <2>1. n = next[c] + 1 /\ n <= count[at[c]]
    BY <1>1, <1>3, TakesNext DEF New
  <2> QED
    BY <1>1, <1>3, <2>1, DeliverGives DEF ES!Next
<1>4. CASE UNCHANGED <<conn, at, next, got, timer>>
  BY <1>1, <1>4 DEF ES!vars, Connected, runVars
<1> QED
  BY <1>2, <1>3, <1>4 DEF Receive

\* A disconnected client leaves.
LEMMA DisconnectRefines ==
    ASSUME Inv, NEW c \in Clients, Disconnect(c)
    PROVE  ES!Next
<1>1. end' = [end EXCEPT ![c] = "gone"]
  BY DEF end, Connected, Disconnect, Leave, Inv, TypeOK
<1>2. ES!Leave(c)
  BY <1>1 DEF ES!Leave, end, open, Disconnect, Leave, runVars
<1> QED
  BY <1>2 DEF ES!Next

\* The steps of a run that the abstract answer knows: it begins, grows, or closes.
LEMMA RunRefines ==
    ASSUME Inv, NEW r \in Runs, Start(r) \/ Publish(r) \/ Drained(r)
    PROVE  ES!Next
<1>1. CASE Start(r)
  <2>1. open' = open \cup {r} /\ \A c \in Clients : at[c] # r
    BY <1>1 DEF open, Start, Unused, Subscribers, Inv, TypeOK
  <2>2. ES!Begin(r)
    BY <1>1, <2>1 DEF ES!Begin, open, end, Start, Connected, clientVars
  <2> QED
    BY <2>2 DEF ES!Next
<1>2. CASE Publish(r)
  <2>1. into[r] = r /\ r \in open
    BY <1>2 DEF open, Publish, Inv, AliveRuns, DrainsOwnRun
  <2>2. ES!Emit(r)
    BY <1>2, <2>1 DEF ES!Emit, open, end, Publish, Connected
  <2> QED
    BY <2>2 DEF ES!Next
<1>3. CASE Drained(r)
  <2>1. PICK s \in {"done", "error", "stopped"},
             evs \in {<<>>, <<count[into[r]] + 1, count[into[r]] + 2>>} :
                Finish(r, s, evs)
    BY <1>3 DEF Drained
  <2>2. into[r] = r /\ r \in open /\ count[r] \in Nat
    BY <1>3 DEF open, Drained, Inv, TypeOK, AliveRuns, DrainsOwnRun
  <2>3. count' = [count EXCEPT ![r] = count'[r]] /\ count'[r] >= count[r]
    <3>1. count' = [count EXCEPT ![r] = count[r] + Len(evs)]
      BY <2>1, <2>2 DEF Finish
    <3>2. Len(evs) \in Nat
      <4>1. Len(<<count[into[r]] + 1, count[into[r]] + 2>>) = 2 /\ Len(<<>>) = 0
        BY EmptySeq
      <4> QED
        BY <4>1
    <3>3. count'[r] = count[r] + Len(evs)
      BY <3>1 DEF Inv, TypeOK
    <3>4. count' = [count EXCEPT ![r] = count'[r]]
      BY <3>1, <3>3, Zenon
    <3>5. count'[r] >= count[r]
      BY <2>2, <3>2, <3>3
    <3> QED
      BY <3>4, <3>5
  <2>4. open' = open \ {r}
    BY <2>1, <2>2 DEF open, Finish, Inv, TypeOK
  <2>5. ES!Close(r)
    BY <2>1, <2>2, <2>3, <2>4 DEF ES!Close, open, end, Finish, Connected
  <2> QED
    BY <2>5 DEF ES!Next
<1> QED
  BY <1>1, <1>2, <1>3

\* Every step is a step of the event stream, or none of its business.
LEMMA NextRefines == Inv /\ [Next]_vars => [ES!Next]_ES!vars
<1> SUFFICES ASSUME Inv, [Next]_vars PROVE ES!Next \/ UNCHANGED ES!vars
  OBVIOUS
<1>1. ASSUME NEW r \in Runs, Begin(r) \/ PrevEnded(r) \/ CancelledEarly(r) \/ Evict(r)
      PROVE  UNCHANGED ES!vars
  BY <1>1 DEF ES!vars, Begin, PrevEnded, CancelledEarly, Evict, Connected,
     runVars, clientVars
<1>2. CASE Stop \/ UNCHANGED vars
  BY <1>2 DEF ES!vars, Stop, Connected, vars, runVars, clientVars
<1>3. CASE \E r \in Runs : Start(r) \/ DrainStep(r) \/ Evict(r)
  BY <1>1, <1>3, RunRefines DEF DrainStep
<1>4. ASSUME NEW c \in Clients, Timeout(c) \/ Flush(c) PROVE ES!Next
  <2>1. at[c] \in Runs /\ at[c] # NoRun /\ status[at[c]] # "running"
    BY <1>4 DEF Inv, TypeOK, AllClients, Client, Timeout, Flush
  <2> QED
    BY <1>4, <2>1, FlushRefines DEF Timeout, Flush
<1>5. CASE \E c \in Clients : Subscribe(c) \/ ClientStep(c) \/ Disconnect(c)
  BY <1>4, <1>5, JoinRefines, ReplayRefines, ReceiveRefines, DisconnectRefines
     DEF ClientStep
<1> QED
  BY <1>2, <1>3, <1>5 DEF Next

LEMMA InitRefines == Init => ES!Init
BY DEF Init, ES!Init, Connected

\* Every behaviour of the runs and their clients is a behaviour of EventStream:
\* one answer, handed out without gap or repetition, complete when it ends.
THEOREM RunsImplementEventStream == Spec => ImplementsEventStream
BY InitRefines, NextRefines, InvHolds, PTL DEF Spec, ES!Spec, ImplementsEventStream
=============================================================================
