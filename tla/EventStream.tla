---------------------------- MODULE EventStream ----------------------------
(***************************************************************************)
(* What the detached runs of src/agent_runs.py promise a browser: the      *)
(* answer is one growing sequence of events, and whoever reads it - from   *)
(* the start, after a reload, or late - is given its events in order, none *)
(* missing and none twice, up to the end of an answer that is complete.    *)
(* Nothing is said of tasks, cancellation, queues, buffers or timers.      *)
(***************************************************************************)
EXTENDS Naturals, Sequences

CONSTANTS
    Runs,       \* answers
    Clients,    \* browsers
    NoRun

VARIABLES
    log,        \* how many events each answer has so far
    open,       \* answers that may still grow
    reads,      \* the answer each client reads
    given,      \* the events it was given
    end         \* how its last stream ended

vars == <<log, open, reads, given, end>>

Init ==
    /\ log = [r \in Runs |-> 0]
    /\ open = {}
    /\ reads = [c \in Clients |-> NoRun]
    /\ given = [c \in Clients |-> <<>>]
    /\ end = [c \in Clients |-> "gone"]

\* A new answer; nobody reads what it takes the place of.
Begin(r) ==
    /\ \A c \in Clients : reads[c] # r
    /\ log' = [log EXCEPT ![r] = 0]
    /\ open' = open \cup {r}
    /\ UNCHANGED <<reads, given, end>>

\* The answer goes on.
Emit(r) ==
    /\ r \in open
    /\ log' = [log EXCEPT ![r] = @ + 1]
    /\ UNCHANGED <<open, reads, given, end>>

\* It ends, perhaps with some last events.
Close(r) ==
    /\ r \in open
    /\ log' = [log EXCEPT ![r] = log'[r]] /\ log'[r] >= log[r]
    /\ open' = open \ {r}
    /\ UNCHANGED <<reads, given, end>>

\* A client joins, and is given the first event if there is one.
Join(c) ==
    /\ reads[c] = NoRun
    /\ \E r \in Runs :
          /\ reads' = [reads EXCEPT ![c] = r]
          /\ given' = [given EXCEPT ![c] = IF log[r] = 0 THEN <<>> ELSE <<1>>]
    /\ end' = [end EXCEPT ![c] = "open"]
    /\ UNCHANGED <<log, open>>

\* The client is given the next event.
Give(c) ==
    /\ reads[c] # NoRun
    /\ Len(given[c]) < log[reads[c]]
    /\ given' = [given EXCEPT ![c] = Append(@, Len(@) + 1)]
    /\ UNCHANGED <<log, open, reads, end>>

\* Its stream ends by itself: the answer is closed, and the client has all of it.
Complete(c) ==
    /\ \/ /\ reads[c] # NoRun
          /\ reads[c] \notin open /\ Len(given[c]) = log[reads[c]]
       \/ /\ reads[c] = NoRun
          /\ \E r \in Runs : r \notin open /\ log[r] = 0
    /\ reads' = [reads EXCEPT ![c] = NoRun]
    /\ given' = [given EXCEPT ![c] = <<>>]
    /\ end' = [end EXCEPT ![c] = "complete"]
    /\ UNCHANGED <<log, open>>

\* The client goes away.
Leave(c) ==
    /\ reads[c] # NoRun
    /\ reads' = [reads EXCEPT ![c] = NoRun]
    /\ given' = [given EXCEPT ![c] = <<>>]
    /\ end' = [end EXCEPT ![c] = "gone"]
    /\ UNCHANGED <<log, open>>

Next ==
    \/ \E r \in Runs : Begin(r) \/ Emit(r) \/ Close(r)
    \/ \E c \in Clients : Join(c) \/ Give(c) \/ Complete(c) \/ Leave(c)

Spec == Init /\ [][Next]_vars
=============================================================================
