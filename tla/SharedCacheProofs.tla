-------------------------- MODULE SharedCacheProofs --------------------------
(***************************************************************************)
(* The shared fetch cache for every number of callers and futures.         *)
(***************************************************************************)
EXTENDS SharedCache, TLAPS

\* Whoever fetches owns the registered future: that is what the callers after it
\* find.  (The converse fails: a cancelled fetch leaves its future registered.)
FetcherRegistered ==
    \A c \in Callers : pc[c] = "fetching" => pending # NoFuture /\ on[c] = pending

Inv == TypeOK /\ FetcherRegistered /\ SingleFetch

USE CacheAssumption

LEMMA InitInv == Init => Inv
BY DEF Init, Inv, TypeOK, FetcherRegistered, SingleFetch, Busy, Ended

\* A caller fetches only when no future is registered, so nobody else fetches.
LEMMA CallKeeps ==
    ASSUME Inv, NEW c \in Callers, Call(c)
    PROVE  Inv'
<1>1. CASE entry = "fresh" /\ pc' = [pc EXCEPT ![c] = "returned"]
           /\ UNCHANGED <<pending, fut, on>>
  BY <1>1 DEF Inv, TypeOK, FetcherRegistered, SingleFetch, Call, Busy, Ended
<1>2. CASE /\ Lookup # NoFuture
           /\ pc' = [pc EXCEPT ![c] = "waiting"]
           /\ on' = [on EXCEPT ![c] = pending]
           /\ UNCHANGED <<pending, fut>>
  BY <1>2 DEF Inv, TypeOK, FetcherRegistered, SingleFetch, Call, Lookup, Busy, Ended
<1>3. CASE /\ Lookup = NoFuture
           /\ pc' = [pc EXCEPT ![c] = "fetching"]
           /\ Unused # {}
           /\ LET f == CHOOSE f \in Unused : TRUE IN
                 /\ fut' = [fut EXCEPT ![f] = "pending"]
                 /\ pending' = f
                 /\ on' = [on EXCEPT ![c] = f]
  <2>1. PICK f \in Unused : /\ fut' = [fut EXCEPT ![f] = "pending"]
                            /\ pending' = f
                            /\ on' = [on EXCEPT ![c] = f]
    BY <1>3
  <2>2. f \in Futures /\ f # NoFuture
    BY <2>1 DEF Unused
  <2>3. \A d \in Callers : pc[d] # "fetching"
    BY <1>3 DEF Inv, FetcherRegistered, Lookup
  <2>4. TypeOK'
    <3>1. \A d \in Callers : on'[d] # NoFuture <=> pc'[d] \in Busy
      BY <1>3, <2>1, <2>2 DEF Inv, TypeOK, Busy
    <3>2. /\ fut' \in [Futures -> {"pending", "result", "exception", "cancelled"}]
          /\ pc' \in [Callers -> Busy \cup Ended]
          /\ on' \in [Callers -> Futures \cup {NoFuture}]
          /\ pending' \in Futures \cup {NoFuture}
      <4>1. fut' \in [Futures -> {"pending", "result", "exception", "cancelled"}]
        BY <2>1, <2>2 DEF Inv, TypeOK
      <4>2. pc' \in [Callers -> Busy \cup Ended]
        BY <1>3 DEF Inv, TypeOK, Busy
      <4>3. on' \in [Callers -> Futures \cup {NoFuture}]
        BY <2>1, <2>2 DEF Inv, TypeOK
      <4> QED
        BY <2>1, <2>2, <4>1, <4>2, <4>3
    <3> QED
      BY <3>1, <3>2 DEF Inv, TypeOK, Call
  <2>5. FetcherRegistered' /\ SingleFetch'
    BY <1>3, <2>1, <2>2, <2>3 DEF Inv, TypeOK, FetcherRegistered, SingleFetch
  <2> QED
    BY <2>4, <2>5 DEF Inv
<1> QED
  BY <1>1, <1>2, <1>3 DEF Call

\* The fetch ends, one way or the other; it was the only one.
LEMMA FetchEndsKeeps ==
    ASSUME Inv, NEW c \in Callers, FetchEnds(c)
    PROVE  Inv'
<1>1. \A d \in Callers : pc[d] = "fetching" => d = c
  BY DEF Inv, SingleFetch, FetchEnds, FetchReturns, FetchRaises, FetchCancelled
<1>2. PICK how \in {"returned", "raised", "cancelled"} : End(c, how)
  BY DEF FetchEnds, FetchReturns, FetchRaises, FetchCancelled
<1>3. \A d \in Callers : pc'[d] # "fetching"
  BY <1>1, <1>2 DEF End, Inv, TypeOK
<1>4. TypeOK'
  BY <1>2 DEF Inv, TypeOK, End, FetchEnds, FetchReturns, FetchRaises, FetchCancelled,
     Busy, Ended
<1> QED
  BY <1>3, <1>4 DEF Inv, FetcherRegistered, SingleFetch

LEMMA NextKeeps == Inv /\ [Next]_vars => Inv'
<1> SUFFICES ASSUME Inv, [Next]_vars PROVE Inv'
  OBVIOUS
<1>1. ASSUME NEW c \in Callers, Wake(c) PROVE Inv'
  <2>1. PICK how \in {"returned", "raised", "cancelled"} : End(c, how)
    BY <1>1 DEF Wake
  <2> QED
    BY <1>1, <2>1 DEF Inv, TypeOK, FetcherRegistered, SingleFetch, Wake, End, Busy, Ended
<1>2. ASSUME NEW c \in Callers, Cancel(c) PROVE Inv'
  BY <1>2 DEF Inv, TypeOK, FetcherRegistered, SingleFetch, Cancel, Busy, Ended
<1>3. CASE Expire
  BY <1>3 DEF Inv, TypeOK, FetcherRegistered, SingleFetch, Expire
<1>4. CASE UNCHANGED vars
  BY <1>4 DEF Inv, TypeOK, FetcherRegistered, SingleFetch, vars
<1> QED
  BY <1>1, <1>2, <1>3, <1>4, CallKeeps, FetchEndsKeeps DEF Next

LEMMA InvHolds == Spec => []Inv
BY InitInv, NextKeeps, PTL DEF Spec

\* The variables of the cache have their types (SharedCache's TypeOK).
THEOREM CacheTyped == Spec => []TypeOK
<1>1. Inv => TypeOK
  BY DEF Inv
<1> QED
  BY <1>1, InvHolds, PTL

\* However many callers overlap, fail and are cancelled, one fetches at a time.
THEOREM OneFetch == Spec => []SingleFetch
<1>1. Inv => SingleFetch
  BY DEF Inv
<1> QED
  BY <1>1, InvHolds, PTL
=============================================================================
