------------------------------ MODULE AgentRuns ------------------------------
(***************************************************************************)
(* The detached agent runs of one chat session (src/agent_runs.py, used by *)
(* routes/chat_routes.py): a background task drains the answer's generator *)
(* into a replay buffer, and clients that come and go replay the buffer    *)
(* and then follow it live.                                                *)
(*                                                                         *)
(* A step is the code between two awaits (or yields) of one coroutine.     *)
(* Events are numbered from 1, so that next_seq is the number of events a  *)
(* client has been given.  Heartbeats change no state and are left out.    *)
(***************************************************************************)
EXTENDS Naturals, Sequences, FiniteSets

CONSTANTS
    Runs,       \* _Run objects; one that nothing refers to is used again
    Clients,    \* connected browsers
    NoRun,
    MaxEvents   \* bound: how many events a generator yields

ASSUME AgentRunsAssumption == NoRun \notin Runs /\ MaxEvents \in Nat

VARIABLES
    cur,        \* _RUNS[session_id]
    status,     \* run.status
    pc,         \* where the drain task of the run is suspended
    cancel,     \* drain tasks with a cancellation that has not ended them yet
    prev,       \* prev_task: the run this one waits for
    into,       \* the run object the drain task publishes to
    count,      \* len(run.buffer)
    timer,      \* runs with an armed evict_task
    conn,       \* where the client's subscribe() is suspended, or how it ended
    at,         \* the run the client is a subscriber of
    queue,      \* its asyncio.Queue
    next,       \* its next_seq
    got         \* history: the events it was given, in order

runVars    == <<status, pc, cancel, prev, into, count>>
clientVars == <<conn, at, queue, next, got>>
vars       == <<cur, runVars, timer, clientVars>>

Sentinel == 0
Events == 1 .. MaxEvents + 2        \* a failure adds two events
Subscribers(r) == {c \in Clients : at[c] = r}

TypeOK ==
    /\ cur \in Runs \cup {NoRun}
    /\ status \in [Runs -> {"running", "done", "error", "stopped"}]
    /\ pc \in [Runs -> {"created", "waiting", "draining", "ended"}]
    /\ cancel \subseteq {r \in Runs : pc[r] # "ended"}
    /\ prev \in [Runs -> Runs \cup {NoRun}]
    /\ into \in [Runs -> Runs \cup {NoRun}]
    /\ count \in [Runs -> 0 .. MaxEvents + 2]
    /\ timer \subseteq Runs
    /\ conn \in [Clients -> {"replay", "live", "flush", "complete", "gone"}]
    /\ at \in [Clients -> Runs \cup {NoRun}]
    /\ queue \in [Clients -> Seq({Sentinel} \cup Events)]
    /\ next \in [Clients -> 0 .. MaxEvents + 2]
    /\ got \in [Clients -> Seq(Events)]

Init ==
    /\ cur = NoRun
    /\ status = [r \in Runs |-> "done"]
    /\ pc = [r \in Runs |-> "ended"]
    /\ cancel = {}
    /\ prev = [r \in Runs |-> NoRun]
    /\ into = [r \in Runs |-> NoRun]
    /\ count = [r \in Runs |-> 0]
    /\ timer = {}
    /\ conn = [c \in Clients |-> "gone"]
    /\ at = [c \in Clients |-> NoRun]
    /\ queue = [c \in Clients |-> <<>>]
    /\ next = [c \in Clients |-> 0]
    /\ got = [c \in Clients |-> <<>>]

-----------------------------------------------------------------------------
(* The runs. *)

InFlight == cur # NoRun /\ pc[cur] # "ended"
Unused == {r \in Runs : /\ r # cur /\ pc[r] = "ended" /\ Subscribers(r) = {}
                        /\ \A s \in Runs : prev[s] # r}

\* Mutant: a run that has not begun to drain is not cancelled.
SupersededIfBegun == IF InFlight /\ pc[cur] # "created" THEN {cur} ELSE {}
\* The run that a new one replaces and waits for.
Superseded == IF InFlight THEN {cur} ELSE {}

\* start: cancel the run in flight and its timer, create the new run and its
\* drain task, which will wait for the cancelled one.
Start(r) ==
    /\ r \in Unused
    /\ cur' = r
    /\ status' = [status EXCEPT ![r] = "running"]
    /\ pc' = [pc EXCEPT ![r] = "created"]
    /\ cancel' = cancel \cup Superseded
    /\ prev' = [prev EXCEPT ![r] = IF Superseded = {} THEN NoRun ELSE cur]
    /\ into' = [into EXCEPT ![r] = NoRun]
    /\ count' = [count EXCEPT ![r] = 0]
    /\ timer' = timer \ {cur}
    /\ UNCHANGED clientVars

\* Mutant: a task that is done is cancelled as well.
StopAny ==
    /\ cur # NoRun
    /\ cancel' = cancel \cup {cur}
    /\ UNCHANGED <<cur, status, pc, prev, into, count, timer, clientVars>>
\* stop: cancel the drain task of the session's run.
Stop ==
    /\ InFlight
    /\ cancel' = cancel \cup {cur}
    /\ UNCHANGED <<cur, status, pc, prev, into, count, timer, clientVars>>

\* Mutant: whether the replaced task is done is not looked at.
PrevKnown(r) == prev[r] # NoRun
PrevInFlight(r) == prev[r] # NoRun /\ pc[prev[r]] # "ended"

\* _drain looks its run up by the session; then it drains, or waits for the
\* task of the run it replaced.
Begin(r) ==
    /\ pc[r] = "created" /\ r \notin cancel
    /\ into' = [into EXCEPT ![r] = cur]
    /\ \/ /\ PrevInFlight(r)
          /\ pc' = [pc EXCEPT ![r] = "waiting"]
          /\ UNCHANGED prev
       \/ /\ ~PrevInFlight(r)
          /\ pc' = [pc EXCEPT ![r] = "draining"]
          /\ prev' = [prev EXCEPT ![r] = NoRun]
    /\ UNCHANGED <<cur, status, cancel, count, timer, clientVars>>

PrevEnded(r) ==
    /\ pc[r] = "waiting" /\ ~PrevInFlight(r) /\ r \notin cancel
    /\ pc' = [pc EXCEPT ![r] = "draining"]
    /\ prev' = [prev EXCEPT ![r] = NoRun]
    /\ UNCHANGED <<cur, status, cancel, into, count, timer, clientVars>>

\* CancelledError before the "try": nothing handles it.
CancelledEarly(r) ==
    /\ pc[r] \in {"created", "waiting"} /\ r \in cancel
    /\ pc' = [pc EXCEPT ![r] = "ended"]
    /\ prev' = [prev EXCEPT ![r] = NoRun]
    /\ cancel' = cancel \ {r}
    /\ UNCHANGED <<cur, status, into, count, timer, clientVars>>

Send(run, evs) ==
    queue' = [c \in Clients |-> IF at[c] = run THEN queue[c] \o evs ELSE queue[c]]

\* _publish of an event of the generator.
Publish(r) ==
    LET run == into[r] IN
    /\ pc[r] = "draining" /\ r \notin cancel
    /\ count[run] < MaxEvents
    /\ count' = [count EXCEPT ![run] = @ + 1]
    /\ Send(run, <<count[run] + 1>>)
    /\ UNCHANGED <<cur, status, pc, cancel, prev, into, timer, conn, at, next, got>>

\* _schedule_evict arms the timer of the session's run, whichever that is.
Armed(tm) == IF cur = NoRun THEN tm ELSE tm \cup {cur}

\* Mutant: the end of a run arms no timer.
FinishUnarmed(r, end, evs) ==
    /\ pc' = [pc EXCEPT ![r] = "ended"]
    /\ cancel' = cancel \ {r}
    /\ status' = [status EXCEPT ![into[r]] = end]
    /\ count' = [count EXCEPT ![into[r]] = @ + Len(evs)]
    /\ Send(into[r], Append(evs, Sentinel))
    /\ UNCHANGED <<cur, prev, into, timer, conn, at, next, got>>
\* The except and finally clauses of _drain.
Finish(r, end, evs) ==
    /\ pc' = [pc EXCEPT ![r] = "ended"]
    /\ cancel' = cancel \ {r}
    /\ status' = [status EXCEPT ![into[r]] = end]
    /\ count' = [count EXCEPT ![into[r]] = @ + Len(evs)]
    /\ Send(into[r], Append(evs, Sentinel))
    /\ timer' = Armed(timer)
    /\ UNCHANGED <<cur, prev, into, conn, at, next, got>>

\* The generator is exhausted; it raises; or it has saved the partial answer and
\* lets the cancellation through, as late as its own cleanup allows.
Drained(r) ==
    /\ pc[r] = "draining"
    /\ \/ r \notin cancel /\ Finish(r, "done", <<>>)
       \/ r \in cancel /\ Finish(r, "stopped", <<>>)
       \/ Finish(r, "error", <<count[into[r]] + 1, count[into[r]] + 2>>)

\* The grace period of a run is over.
Evict(r) ==
    /\ r \in timer
    /\ timer' = timer \ {r}
    /\ cur' = IF cur = r /\ status[r] # "running" /\ Subscribers(r) = {}
              THEN NoRun ELSE cur
    /\ UNCHANGED <<runVars, clientVars>>

-----------------------------------------------------------------------------
(* The clients. *)

\* The finally clause of subscribe; tm is what timer has become by then.
Leave(c, run, tm, how) ==
    /\ conn' = [conn EXCEPT ![c] = how]
    /\ at' = [at EXCEPT ![c] = NoRun]
    /\ queue' = [queue EXCEPT ![c] = <<>>]
    /\ next' = [next EXCEPT ![c] = 0]
    /\ got' = [got EXCEPT ![c] = <<>>]
    /\ timer' = IF Subscribers(run) \ {c} = {} /\ status[run] # "running"
                THEN Armed(tm) ELSE tm

\* The client is given event n and the generator is suspended at its yield.
Deliver(c, n, where) ==
    /\ conn' = [conn EXCEPT ![c] = where]
    /\ next' = [next EXCEPT ![c] = n]
    /\ got' = [got EXCEPT ![c] = Append(@, n)]

\* The replay from event n + 1 on, up to the next yield or to q.get().
ReplayFrom(c, run, n, tm) ==
    \/ /\ n < count[run]
       /\ Deliver(c, n + 1, "replay")
       /\ at' = [at EXCEPT ![c] = run]
       /\ timer' = tm
       /\ UNCHANGED queue
    \/ /\ n >= count[run] /\ status[run] # "running"
       /\ Leave(c, run, tm, "complete")
    \/ /\ n >= count[run] /\ status[run] = "running"
       /\ conn' = [conn EXCEPT ![c] = "live"]
       /\ at' = [at EXCEPT ![c] = run]
       /\ timer' = tm
       /\ UNCHANGED <<queue, next, got>>

\* subscribe, for a new answer or after a reload: register, disarm, replay.
Subscribe(c) ==
    /\ at[c] = NoRun /\ cur # NoRun
    /\ ReplayFrom(c, cur, 0, timer \ {cur})
    /\ UNCHANGED <<cur, runVars>>

Replay(c) ==
    /\ conn[c] = "replay"
    /\ ReplayFrom(c, at[c], next[c], timer)
    /\ UNCHANGED <<cur, runVars>>

\* Mutant: the stream ends at the sentinel.
NoFlush(c) == Leave(c, at[c], timer, "complete")
\* What is left of the buffer once the run has ended.
FlushRest(c) ==
    \/ /\ next[c] < count[at[c]]
       /\ Deliver(c, next[c] + 1, "flush")
       /\ UNCHANGED <<at, queue, timer>>
    \/ /\ next[c] >= count[at[c]]
       /\ Leave(c, at[c], timer, "complete")

\* Mutant: events that were replayed come again from the queue.
NewAny(c, n) == n # Sentinel
New(c, n) == n # Sentinel /\ n > next[c]

\* q.get() returns.
Receive(c) ==
    LET n == Head(queue[c]) IN
    /\ conn[c] = "live" /\ queue[c] # <<>>
    /\ \/ /\ n = Sentinel
          /\ FlushRest(c)
       \/ /\ New(c, n)
          /\ Deliver(c, n, "live")
          /\ queue' = [queue EXCEPT ![c] = Tail(@)]
          /\ UNCHANGED <<at, timer>>
       \/ /\ n # Sentinel /\ ~New(c, n)
          /\ queue' = [queue EXCEPT ![c] = Tail(@)]
          /\ UNCHANGED <<conn, at, next, got, timer>>
    /\ UNCHANGED <<cur, runVars>>

\* q.get() times out when the run has ended; what the queue holds is dropped.
Timeout(c) ==
    /\ conn[c] = "live" /\ status[at[c]] # "running"
    /\ FlushRest(c)
    /\ UNCHANGED <<cur, runVars>>

Flush(c) ==
    /\ conn[c] = "flush"
    /\ FlushRest(c)
    /\ UNCHANGED <<cur, runVars>>

\* The client closes the connection, wherever its stream is suspended.
Disconnect(c) ==
    /\ at[c] # NoRun
    /\ Leave(c, at[c], timer, "gone")
    /\ UNCHANGED <<cur, runVars>>

-----------------------------------------------------------------------------
DrainStep(r) ==
    Begin(r) \/ PrevEnded(r) \/ CancelledEarly(r) \/ Publish(r) \/ Drained(r)
ClientStep(c) == Replay(c) \/ Receive(c) \/ Timeout(c) \/ Flush(c)

Next ==
    \/ \E r \in Runs : Start(r) \/ DrainStep(r) \/ Evict(r)
    \/ \E c \in Clients : Subscribe(c) \/ ClientStep(c) \/ Disconnect(c)
    \/ Stop

\* The loop resumes what is ready, generators end, and a client reads on.
Fairness ==
    /\ \A r \in Runs : WF_vars(DrainStep(r))
    /\ \A c \in Clients : WF_vars(ClientStep(c))

Spec == Init /\ [][Next]_vars
FairSpec == Spec /\ Fairness

-----------------------------------------------------------------------------
(* Properties. *)

Connected(c) == at[c] # NoRun

\* Whenever it joins, however replay and live events overlap, a client is given
\* the events from the first one on, each once and in order ("register BEFORE
\* replaying so nothing is missed", "skip events already replayed").
InOrderOnce == \A c \in Clients : got[c] = [i \in 1 .. next[c] |-> i]

\* A drain task publishes to its own run, although it looks it up by the session
\* after other requests may have replaced it (_drain).
DrainsOwnRun == \A r \in Runs : pc[r] \in {"waiting", "draining"} => into[r] = r

\* A run that has ended and that nobody watches is going to be evicted
\* ("eventually freed even if nobody ever reconnects").
IdleRunsExpire ==
    cur # NoRun /\ status[cur] # "running" /\ Subscribers(cur) = {} =>
        cur \in timer

\* A run whose task was cancelled before it began to drain.
Stuck(r) == r # NoRun /\ pc[r] = "ended" /\ status[r] = "running"

\* Every stream ends, unless its run is stuck.
StreamsEndUnlessStuck ==
    \A c \in Clients : Connected(c) ~> (~Connected(c) \/ Stuck(at[c]))

\* The clients see an EventStream, whatever tasks, buffers and timers do.
ES == INSTANCE EventStream WITH
        log   <- count,
        open  <- {r \in Runs : status[r] = "running"},
        reads <- at,
        given <- got,
        end   <- [c \in Clients |-> IF Connected(c) THEN "open" ELSE conn[c]]

\* Every step of runs and clients is a step of the abstract stream or none of
\* its business: an answer only grows while its run is marked running, joining,
\* replay, the live queue and the flush hand out one sequence without gap or
\* repetition, and a stream that ends by itself has given a closed answer whole.
ImplementsEventStream == ES!Spec
=============================================================================
