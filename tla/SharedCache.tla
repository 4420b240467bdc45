---------------------------- MODULE SharedCache ----------------------------
(***************************************************************************)
(* The shared TTL cache of the scheduler's check-in tasks (_cached in      *)
(* src/task_scheduler.py), for one key: the first caller fetches, callers  *)
(* that arrive meanwhile await its future.  Callers are runs of tasks, and *)
(* any of them can be cancelled by the foreground monitor or a stop.       *)
(*                                                                         *)
(* The bodies of "async with _shared_cache_lock" hold no await, so the     *)
(* lock is never contended and a step is the code between two other awaits *)
(***************************************************************************)
EXTENDS FiniteSets

CONSTANTS
    Callers,
    Futures,    \* asyncio futures; one that nobody refers to is used again
    NoFuture

ASSUME CacheAssumption == NoFuture \notin Futures

VARIABLES
    entry,      \* _shared_cache[key]: missing, fresh or expired
    pending,    \* _shared_cache_pending[key]
    fut,        \* the state of each future
    pc,         \* what each caller does, or how its call has ended
    on,         \* the future it owns or awaits
    hit,        \* callers that were cancelled in their present call
    disturbed   \* history: some caller was cancelled

vars == <<entry, pending, fut, pc, on, hit, disturbed>>

Busy == {"fetching", "waiting"}
Ended == {"idle", "returned", "raised", "cancelled"}

TypeOK ==
    /\ entry \in {"missing", "fresh", "expired"}
    /\ pending \in Futures \cup {NoFuture}
    /\ fut \in [Futures -> {"pending", "result", "exception", "cancelled"}]
    /\ pc \in [Callers -> Busy \cup Ended]
    /\ on \in [Callers -> Futures \cup {NoFuture}]
    /\ \A c \in Callers : on[c] # NoFuture <=> pc[c] \in Busy
    /\ hit \subseteq Callers
    /\ disturbed \in BOOLEAN

Init ==
    /\ entry = "missing"
    /\ pending = NoFuture
    /\ fut = [f \in Futures |-> "cancelled"]
    /\ pc = [c \in Callers |-> "idle"]
    /\ on = [c \in Callers |-> NoFuture]
    /\ hit = {}
    /\ disturbed = FALSE

Unused == {f \in Futures : pending # f /\ \A c \in Callers : on[c] # f}

\* Mutant: the pending future is not looked up.
LookupNothing == NoFuture
Lookup == pending

\* _cached up to its first await: a fresh entry, somebody else's fetch, or ours.
Call(c) ==
    /\ pc[c] \in Ended
    /\ hit' = hit \ {c}
    /\ \/ /\ entry = "fresh"
          /\ pc' = [pc EXCEPT ![c] = "returned"]
          /\ UNCHANGED <<pending, fut, on>>
       \/ /\ entry # "fresh" /\ Lookup # NoFuture
          /\ pc' = [pc EXCEPT ![c] = "waiting"]
          /\ on' = [on EXCEPT ![c] = pending]
          /\ UNCHANGED <<pending, fut>>
       \/ /\ entry # "fresh" /\ Lookup = NoFuture
          /\ pc' = [pc EXCEPT ![c] = "fetching"]
          /\ Unused # {}
          /\ LET f == CHOOSE f \in Unused : TRUE IN
                /\ fut' = [fut EXCEPT ![f] = "pending"]
                /\ pending' = f
                /\ on' = [on EXCEPT ![c] = f]
    /\ UNCHANGED <<entry, disturbed>>

\* Mutant: a caller that has ended keeps its future.
EndKeeping(c, how) ==
    /\ pc' = [pc EXCEPT ![c] = how]
    /\ UNCHANGED on
End(c, how) ==
    /\ pc' = [pc EXCEPT ![c] = how]
    /\ on' = [on EXCEPT ![c] = NoFuture]

\* fetch() returns.  The entry is stored in any case; a future that a waiter's
\* cancellation has cancelled cannot take the value, and the call raises.
FetchReturns(c) ==
    /\ pc[c] = "fetching" /\ c \notin hit
    /\ entry' = "fresh"
    /\ pending' = NoFuture
    /\ \/ /\ fut[on[c]] = "pending"
          /\ fut' = [fut EXCEPT ![on[c]] = "result"]
          /\ End(c, "returned")
       \/ /\ fut[on[c]] = "cancelled"
          /\ End(c, "raised")
          /\ UNCHANGED fut
    /\ UNCHANGED <<hit, disturbed>>

\* Mutant: the exception path leaves the future registered.
FetchRaisesKeeping(c) ==
    /\ pc[c] = "fetching" /\ c \notin hit
    /\ End(c, "raised")
    /\ UNCHANGED <<entry, pending, fut, hit, disturbed>>
\* fetch() raises an Exception, which every waiter gets.
FetchRaises(c) ==
    /\ pc[c] = "fetching" /\ c \notin hit
    /\ pending' = NoFuture
    /\ fut' = [fut EXCEPT ![on[c]] = IF @ = "pending" THEN "exception" ELSE @]
    /\ End(c, "raised")
    /\ UNCHANGED <<entry, hit, disturbed>>

\* The future a caller awaits is done.
Wake(c) ==
    /\ pc[c] = "waiting" /\ fut[on[c]] # "pending"
    /\ End(c, CASE fut[on[c]] = "cancelled" \/ c \in hit -> "cancelled"
                [] fut[on[c]] = "exception" -> "raised"
                [] OTHER -> "returned")
    /\ UNCHANGED <<entry, pending, fut, hit, disturbed>>

\* Task.cancel of a caller.  It cancels what the caller awaits: for a waiter that
\* is the shared future itself.
Cancel(c) ==
    /\ pc[c] \in Busy
    /\ hit' = hit \cup {c}
    /\ disturbed' = TRUE
    /\ fut' = IF pc[c] = "waiting" /\ fut[on[c]] = "pending"
              THEN [fut EXCEPT ![on[c]] = "cancelled"] ELSE fut
    /\ UNCHANGED <<entry, pending, pc, on>>

\* CancelledError leaves fetch().  It is no Exception: neither handler runs, and
\* the future stays registered, unsettled.
FetchCancelled(c) ==
    /\ pc[c] = "fetching" /\ c \in hit
    /\ End(c, "cancelled")
    /\ UNCHANGED <<entry, pending, fut, hit, disturbed>>

\* The TTL of the entry runs out.
Expire ==
    /\ entry = "fresh"
    /\ entry' = "expired"
    /\ UNCHANGED <<pending, fut, pc, on, hit, disturbed>>

FetchEnds(c) == FetchReturns(c) \/ FetchRaises(c) \/ FetchCancelled(c)

Next ==
    \/ \E c \in Callers : Call(c) \/ FetchEnds(c) \/ Wake(c) \/ Cancel(c)
    \/ Expire

\* Fetches end (the HTTP client and the MCP calls have timeouts) and the loop
\* resumes a coroutine whose future is done.
Fairness == \A c \in Callers : WF_vars(FetchEnds(c)) /\ WF_vars(Wake(c))

Spec == Init /\ [][Next]_vars /\ Fairness

-----------------------------------------------------------------------------
\* However calls overlap, fail and are cancelled, the key is fetched by one caller
\* at a time ("Concurrent callers for the same missing key share one fetch()").
SingleFetch ==
    \A c, d \in Callers : pc[c] = "fetching" /\ pc[d] = "fetching" => c = d

\* As long as nobody has been cancelled, every call ends: a failed fetch settles
\* its waiters and leaves the key free for the next caller.
CallsEnd ==
    \A c \in Callers : pc[c] \in Busy ~> (pc[c] \in Ended \/ disturbed)
=============================================================================
