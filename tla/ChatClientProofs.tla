-------------------------- MODULE ChatClientProofs --------------------------
(***************************************************************************)
(* Proofs about ChatClient, for every set of conversations and every       *)
(* number of submissions, steps, faults and queued requests.               *)
(***************************************************************************)
EXTENDS ChatClient, TLAPS

-----------------------------------------------------------------------------
(* What an action does to the submissions.                                  *)

Submission == [pc : PCs, typed : Session, sess : Session \cup {NoSession},
               aborted : BOOLEAN, left : BOOLEAN, unseen : BOOLEAN]
Subs == [Ids -> Submission]

\* One submission changes; what it is afterwards.
Becomes(i, pc, sess, left, unseen) ==
  /\ sub' \in Subs
  /\ \A j \in Ids \ {i} : sub'[j] = sub[j]
  /\ sub'[i].pc = pc /\ sub'[i].sess = sess /\ sub'[i].left = left /\ sub'[i].unseen = unseen

LEMMA OneChanges ==
  ASSUME sub \in Subs, NEW i \in Ids, NEW t \in Submission, sub' = [sub EXCEPT ![i] = t]
  PROVE  Becomes(i, t.pc, t.sess, t.left, t.unseen)
BY DEF Becomes, Subs

LEMMA Moved ==
  ASSUME sub \in Subs, NEW i \in Ids, NEW p \in PCs, sub' = [sub EXCEPT ![i].pc = p]
  PROVE  Becomes(i, p, sub[i].sess, sub[i].left, sub[i].unseen)
<1> DEFINE t == [sub[i] EXCEPT !.pc = p]
<1>1. /\ t \in Submission /\ t.pc = p /\ t.sess = sub[i].sess /\ t.left = sub[i].left
      /\ t.unseen = sub[i].unseen
  BY DEF Subs, Submission
<1>2. sub' = [sub EXCEPT ![i] = t]
  OBVIOUS
<1> HIDE DEF t
<1> QED BY <1>1, <1>2, OneChanges

LEMMA MovedUnseen ==
  ASSUME sub \in Subs, NEW i \in Ids, NEW p \in PCs, NEW u \in BOOLEAN, NEW l \in BOOLEAN,
         sub' = [sub EXCEPT ![i].pc = p, ![i].unseen = u, ![i].left = l]
  PROVE  Becomes(i, p, sub[i].sess, l, u)
<1> DEFINE t == [sub[i] EXCEPT !.pc = p, !.unseen = u, !.left = l]
<1>1. /\ t \in Submission /\ t.pc = p /\ t.sess = sub[i].sess /\ t.left = l
      /\ t.unseen = u
  BY DEF Subs, Submission
<1>2. sub' = [sub EXCEPT ![i] = t]
  BY DEF Subs, Submission
<1> HIDE DEF t
<1> QED BY <1>1, <1>2, OneChanges

LEMMA MovedLeft ==
  ASSUME sub \in Subs, NEW i \in Ids, NEW p \in PCs, NEW l \in BOOLEAN,
         sub' = [sub EXCEPT ![i].pc = p, ![i].left = l]
  PROVE  Becomes(i, p, sub[i].sess, l, sub[i].unseen)
<1> DEFINE t == [sub[i] EXCEPT !.pc = p, !.left = l]
<1>1. /\ t \in Submission /\ t.pc = p /\ t.sess = sub[i].sess /\ t.left = l
      /\ t.unseen = sub[i].unseen
  BY DEF Subs, Submission
<1>2. sub' = [sub EXCEPT ![i] = t]
  BY DEF Subs, Submission
<1> HIDE DEF t
<1> QED BY <1>1, <1>2, OneChanges

LEMMA Marked ==
  ASSUME sub \in Subs, NEW i \in Ids, NEW u \in BOOLEAN,
         sub' = [sub EXCEPT ![i].unseen = u]
  PROVE  Becomes(i, sub[i].pc, sub[i].sess, sub[i].left, u)
<1> DEFINE t == [sub[i] EXCEPT !.unseen = u]
<1>1. /\ t \in Submission /\ t.pc = sub[i].pc /\ t.sess = sub[i].sess /\ t.left = sub[i].left
      /\ t.unseen = u
  BY DEF Subs, Submission
<1>2. sub' = [sub EXCEPT ![i] = t]
  OBVIOUS
<1> HIDE DEF t
<1> QED BY <1>1, <1>2, OneChanges

LEMMA Captured ==
  ASSUME sub \in Subs, NEW i \in Ids, NEW s \in Session,
         sub' = [sub EXCEPT ![i].pc = Bound, ![i].sess = s]
  PROVE  Becomes(i, Bound, s, sub[i].left, sub[i].unseen)
<1> DEFINE t == [sub[i] EXCEPT !.pc = Bound, !.sess = s]
<1>1. /\ t \in Submission /\ t.pc = Bound /\ t.sess = s /\ t.left = sub[i].left
      /\ t.unseen = sub[i].unseen
  BY DEF Subs, Submission, PCs
<1>2. sub' = [sub EXCEPT ![i] = t]
  BY DEF Subs, Submission
<1> HIDE DEF t
<1> QED BY <1>1, <1>2, OneChanges

\* What the invariants look at is as it was.
Kept(i) ==
  /\ sub'[i].pc = sub[i].pc /\ sub'[i].sess = sub[i].sess
  /\ sub'[i].left = sub[i].left /\ sub'[i].unseen = sub[i].unseen
AllKept == sub' \in Subs /\ \A i \in Ids : Kept(i)

LEMMA AbortKeeps ==
  ASSUME sub \in Subs, NEW i, sub' = [sub EXCEPT ![i].aborted = TRUE]
  PROVE  AllKept
<1>1. CASE i \in Ids
  <2> DEFINE t == [sub[i] EXCEPT !.aborted = TRUE]
  <2>1. /\ t \in Submission /\ t.pc = sub[i].pc /\ t.sess = sub[i].sess
        /\ t.left = sub[i].left /\ t.unseen = sub[i].unseen
    BY <1>1 DEF Subs, Submission
  <2>2. sub' = [sub EXCEPT ![i] = t]
    OBVIOUS
  <2> HIDE DEF t
  <2>3. Becomes(i, sub[i].pc, sub[i].sess, sub[i].left, sub[i].unseen)
    BY <1>1, <2>1, <2>2, OneChanges
  <2> QED BY <2>3 DEF Becomes, AllKept, Kept
<1>2. CASE i \notin Ids
  <2>1. sub' = sub
    BY <1>2 DEF Subs
  <2> QED BY <2>1 DEF AllKept, Kept
<1> QED BY <1>1, <1>2

LEMMA UnchangedKeeps == ASSUME sub \in Subs, sub' = sub PROVE AllKept
BY DEF AllKept, Kept

LEMMA AbortingKeeps ==
  ASSUME sub \in Subs, NEW i, sub' = Aborting(i)
  PROVE  AllKept
BY AbortKeeps, UnchangedKeeps DEF Aborting

\* A submission begins.
LEMMA Begun ==
  ASSUME sub \in Subs, NEW i \in Ids, NEW s \in Session,
         sub' = [sub EXCEPT ![i] = [Fresh(s) EXCEPT !.pc = Sending]]
  PROVE  Becomes(i, Sending, NoSession, FALSE, FALSE)
<1>1. /\ Fresh(s) \in Submission /\ Fresh(s).sess = NoSession
      /\ Fresh(s).left = FALSE /\ Fresh(s).unseen = FALSE
  BY DEF Fresh, Submission, PCs
<1>2. PICK f \in Submission : f = Fresh(s)
  BY <1>1
<1> DEFINE t == [f EXCEPT !.pc = Sending]
<1>3. /\ t \in Submission /\ t.pc = Sending /\ t.sess = f.sess /\ t.left = f.left
      /\ t.unseen = f.unseen
  BY DEF Submission, PCs
<1>4. sub' = [sub EXCEPT ![i] = t]
  BY <1>2
<1> HIDE DEF t
<1>5. Becomes(i, t.pc, t.sess, t.left, t.unseen)
  BY <1>3, <1>4, OneChanges
<1>6. t.pc = Sending /\ t.sess = NoSession /\ t.left = FALSE /\ t.unseen = FALSE
  BY <1>1, <1>2, <1>3
<1> QED BY <1>5, <1>6

-----------------------------------------------------------------------------
(* Types.                                                                   *)

Marks == {"none", "running", "completed", "error"}
Navs == SUBSET Openings
Timers == [drain : BOOLEAN, send : Session \cup {NoSession}]

ViewTyped ==
  /\ current \in Session /\ navs \in Navs /\ box \in Boxes
  /\ resuming \in [Session -> 0..MaxSubmissions] /\ checks \subseteq Session
  /\ polls \subseteq Session \X {"local", "server"}
StreamTyped ==
  /\ active \in [Session -> 0..MaxSubmissions] /\ bg \in [Session -> Marks]
  /\ streamSid \in Session \cup {NoSession}
  /\ isStreaming \in BOOLEAN /\ sendInFlight \in BOOLEAN
RunTyped == run \in [Ids -> {"none", "running", "done", "dead"}]
QueueTyped == queue \in Seq(Session) /\ Len(queue) <= MaxQueue /\ timers \in Timers
BoundsTyped == steps \in 0..MaxSteps /\ faults \in 0..MaxFaults

LEMMA TypesSplit ==
  TypeOK <=> /\ sub \in Subs /\ ViewTyped /\ StreamTyped /\ RunTyped /\ QueueTyped
             /\ BoundsTyped /\ ActiveReads
BY DEF TypeOK, Subs, Submission, ViewTyped, Navs, StreamTyped, Marks, RunTyped, QueueTyped,
       Timers, BoundsTyped

\* What stays as it was keeps its type.
LEMMA SameTypes ==
  ASSUME TypeOK
  PROVE  /\ sub' = sub => sub' \in Subs
         /\ UNCHANGED <<view, resuming, checks, polls>> => ViewTyped'
         /\ UNCHANGED <<active, bg, streamSid, composer>> => StreamTyped'
         /\ UNCHANGED run => RunTyped'
         /\ UNCHANGED <<queue, timers>> => QueueTyped'
         /\ UNCHANGED bounds => BoundsTyped'
BY TypesSplit DEF view, composer, bounds, ViewTyped, StreamTyped, RunTyped, QueueTyped,
       BoundsTyped

LEMMA InitTyped == ASSUME Init PROVE TypeOK
<1>1. 0 \in 0..MaxSubmissions /\ 0 \in 0..MaxSteps /\ 0 \in 0..MaxFaults
  BY BoundsAssumption
<1>2. sub \in Subs
  <2>1. Fresh(current) \in Submission
    BY DEF Init, Fresh, Submission, PCs
  <2> QED BY <2>1 DEF Init, Subs
<1>3. ViewTyped
  <2>1. box \in Boxes
    BY DEF Init, Boxes, Clean, OldMessages
  <2> QED BY <1>1, <2>1 DEF Init, ViewTyped, Navs, None
<1>4. StreamTyped /\ RunTyped
  BY <1>1 DEF Init, StreamTyped, RunTyped, Marks, None
<1>5. QueueTyped
  BY BoundsAssumption DEF Init, QueueTyped, Timers
<1>6. BoundsTyped /\ ActiveReads
  BY <1>1 DEF Init, BoundsTyped, ActiveReads
<1> QED BY <1>2, <1>3, <1>4, <1>5, <1>6, TypesSplit

\* Looking at the queue and ending a stream keep the types.
LEMMA DrainTyped ==
  ASSUME QueueTyped, NEW streaming, NEW sending, queue' = queue,
         timers' = Draining(streaming, sending)
  PROVE  QueueTyped'
BY DEF QueueTyped, Draining, Timers

LEMMA FinallyTyped ==
  ASSUME StreamTyped, NEW i, NEW b \in [Session -> Marks], NEW sending \in BOOLEAN,
         Finally(i, b, sending)
  PROVE  StreamTyped'
<1>1. None \in 0..MaxSubmissions
  BY BoundsAssumption DEF None
<1> QED BY <1>1 DEF StreamTyped, Finally, Foreground

LEMMA SelectTyped ==
  ASSUME ViewTyped, StreamTyped, sub \in Subs, NEW x \in Boxes, NEW s \in Session,
         NEW b \in [Session -> Marks], SelectSession(x, s, b)
  PROVE  /\ current' \in Session /\ navs' \in Navs /\ box' \in Boxes /\ AllKept
         /\ bg' \in [Session -> Marks] /\ streamSid' \in Session \cup {NoSession}
         /\ isStreaming' \in BOOLEAN
<1>1. navs' \in Navs
  <2> DEFINE new == [sess |-> s, latest |-> TRUE, fetched |-> FALSE, again |-> s = current,
                     empty |-> FALSE, hist |-> {}]
             older == {[n EXCEPT !.latest = FALSE] : n \in navs}
  <2>1. {new} \in Navs
    BY DEF Navs, Openings
  <2>2. older \in Navs
    BY DEF ViewTyped, Navs, Openings
  <2>3. navs' = older \cup {new}
    BY DEF SelectSession
  <2> HIDE DEF new, older
  <2> QED BY <2>1, <2>2, <2>3 DEF Navs
<1>2. box' \in Boxes
  BY DEF SelectSession, Boxes
<1>3. AllKept
  BY AbortingKeeps, UnchangedKeeps DEF SelectSession
<1> QED BY <1>1, <1>2, <1>3 DEF SelectSession, ViewTyped, StreamTyped, Marks

-----------------------------------------------------------------------------
(* The invariant.                                                           *)

Unbound == {"free", Sending, Starting}

\* A submission is bound to a conversation when it is captured, its run begins
\* when it is posted and has ended when its [DONE] was read.
Phases ==
  \A i \in Ids :
    /\ sub[i].pc \in Unbound => sub[i].sess = NoSession
    /\ sub[i].pc \in {Bound} \cup Registered => sub[i].sess # NoSession
    /\ sub[i].pc \in Unbound \cup {Bound, Posting} => run[i] = "none"
    /\ sub[i].pc = Closing => run[i] = "done"

BoundStream ==
  streamSid # NoSession =>
    \E i \in Ids : sub[i].sess = streamSid /\ sub[i].pc \in {Bound} \cup Registered
SendUnderWay == sendInFlight => \E i \in Ids : sub[i].pc = Sending

\* The latest navigation is the only one, of the current conversation; what was
\* answered after its history was read is marked unseen.
NavsOpen ==
  \A n \in navs :
    /\ n.latest => n.sess = current /\ \A m \in navs : m.latest => m = n
    /\ \A i \in n.hist : sub[i].sess = n.sess
    /\ n.latest /\ n.fetched => \A i \in History(n.sess) : i \in n.hist \/ sub[i].unseen
ResumedRuns == \A s \in Session : resuming[s] # None => sub[resuming[s]].sess = s

\* What is marked as a background stream on screen is polled, unless the guard of
\* the latest opening left the page as it was.
Elsewhere == Opening \/ box.broken
MarksPolled ==
  bg[current] # "none" => Elsewhere \/ box.kept \/ <<current, "local">> \in polls

\* "Loading chat" is only painted while a conversation is opened or after that failed.
TimerOpening == box.timer => Elsewhere

\* On a page left as it was a stream that has read its [DONE] is a foreground one.
KeptClosing ==
  box.kept /\ ~Elsewhere =>
    \A i \in Ids : sub[i].sess = current /\ Alone(i) /\ sub[i].pc = Closing =>
      bg[current] = "none"

\* Something still shows the answer of a run that has ended, or that runs.
Reported(i) ==
  sub[i].unseen \/ resuming[current] = i
    \/ <<current, "local">> \in polls \/ <<current, "server">> \in polls
AnswersFound ==
  \A i \in Ids : sub[i].sess = current /\ Alone(i) /\ ~Elsewhere =>
    /\ run[i] = "done" => Reported(i) \/ i \in box.seen \/ sub[i].pc \in {Reading, Closing}
    /\ run[i] = "running" => Reported(i) \/ sub[i].pc = Reading \/ current \in checks

StreamInv ==
  /\ TypeOK /\ Phases /\ BoundStream /\ SendUnderWay
  /\ StopMeansStream /\ BackgroundHasReader /\ QueueHasDrain
ViewInv ==
  /\ NavsOpen /\ ResumedRuns /\ TimerOpening /\ MarksPolled /\ KeptClosing
  /\ AnswersFound /\ ShowsCurrentOnly
ChatInv == StreamInv /\ ViewInv

-----------------------------------------------------------------------------
(* What a step does to the streams.                                         *)

NextTyped ==
  sub' \in Subs /\ ViewTyped' /\ StreamTyped' /\ RunTyped' /\ QueueTyped'

SameSess(i) == sub'[i].sess = sub[i].sess
Moves(i) ==
  \/ sub'[i].pc = sub[i].pc /\ SameSess(i)
  \/ sub[i].pc = "free" /\ sub'[i].pc = Sending /\ sub'[i].sess = NoSession
  \/ sub[i].pc = Sending /\ sub'[i].pc \in {Starting, "over"} /\ SameSess(i)
  \/ sub[i].pc = Starting /\ sub'[i].pc = Bound /\ sub'[i].sess = current
  \/ sub[i].pc = Bound /\ sub'[i].pc = Posting /\ SameSess(i)
  \/ sub[i].pc = Posting /\ sub'[i].pc = Reading /\ SameSess(i)
  \/ sub[i].pc = Reading /\ sub'[i].pc = Closing /\ SameSess(i) /\ run[i] = "done"
  \/ /\ sub[i].pc \in {Bound} \cup Registered /\ sub'[i].pc = "over" /\ SameSess(i)
     /\ active'[sub[i].sess] = None /\ streamSid' # sub[i].sess
RunMoves(i) ==
  \/ run'[i] = run[i]
  \/ run[i] = "running" /\ run'[i] \in {"done", "dead"}
  \/ sub[i].pc = Posting /\ sub'[i].pc = Reading /\ run'[i] = "running"
LifeStep ==
  /\ \A i \in Ids : Moves(i) /\ RunMoves(i)
  /\ \A s \in Session :
       \/ active'[s] = active[s] \/ active'[s] = None
       \/ \E i \in Ids : active'[s] = i /\ sub'[i].pc = Posting /\ sub'[i].sess = s
  /\ \/ streamSid' = streamSid \/ streamSid' = NoSession
     \/ \E i \in Ids : sub'[i].pc = Bound /\ sub'[i].sess = streamSid'

\* The composer is busy for a reason that the step gives or does not take away.
StreamingStep ==
  isStreaming' =>
    \/ active'[current'] # None \/ \E i \in Ids : sub'[i].pc = Starting
    \/ /\ isStreaming /\ (active[current] # None => active'[current'] # None)
       /\ \A i \in Ids : sub[i].pc = Bound => sub'[i].pc = Bound
SendingStep ==
  sendInFlight' =>
    \/ \E i \in Ids : sub'[i].pc = Sending
    \/ sendInFlight /\ \A i \in Ids : sub[i].pc = Sending => sub'[i].pc = Sending
Reads(i) == sub[i].pc \in Registered \/ sub[i].left
MarkStep ==
  \A s \in Session : bg'[s] = "running" =>
    /\ \A i \in Ids : sub[i].sess = s /\ Reads(i) => sub'[i].sess = s /\ Reads(i)'
    /\ bg[s] = "running" \/ \E i \in Ids : sub[i].sess = s /\ Reads(i)
NoEnds == \A i \in Ids : sub[i].pc \in {Bound} \cup Registered => sub'[i].pc # "over"
QueueStep ==
  queue' # <<>> =>
    \/ timers'.drain \/ timers'.send # NoSession \/ isStreaming' \/ sendInFlight'
    \/ /\ NoEnds
       /\ \/ isStreaming \/ sendInFlight
          \/ /\ queue # <<>>
             /\ timers.drain => timers'.drain
             /\ timers.send # NoSession => timers'.send # NoSession
StreamStep == LifeStep /\ StreamingStep /\ SendingStep /\ MarkStep /\ QueueStep

LEMMA ActiveIds ==
  ASSUME TypeOK, NEW s \in Session, active[s] # None
  PROVE  active[s] \in Ids
BY BoundsAssumption DEF TypeOK, None, Ids

LEMMA PcsDiffer ==
  /\ Sending \notin {Starting, Bound, "over"} \cup Registered
  /\ Starting \notin {Bound, "over"} \cup Registered
  /\ Bound \notin {"over"} \cup Registered
  /\ "free" \notin InFlight /\ "over" \notin InFlight
  /\ Posting # Reading /\ Posting # Closing /\ Reading # Closing
BY DEF Sending, Starting, Bound, Registered, Posting, Reading, Closing, InFlight

LEMMA LifeKept ==
  ASSUME StreamInv, NextTyped, LifeStep
  PROVE  Phases' /\ ActiveReads' /\ BoundStream'
<1>0. /\ Phases /\ ActiveReads /\ BoundStream /\ TypeOK /\ current # NoSession
      /\ \A i \in Ids : Moves(i) /\ RunMoves(i)
  BY TypesSplit, SessionAssumption DEF StreamInv, LifeStep, NoSession, ViewTyped
<1>1. Phases'
  <2> SUFFICES ASSUME NEW i \in Ids
               PROVE  /\ sub'[i].pc \in Unbound => sub'[i].sess = NoSession
                      /\ sub'[i].pc \in {Bound} \cup Registered => sub'[i].sess # NoSession
                      /\ sub'[i].pc \in Unbound \cup {Bound, Posting} => run'[i] = "none"
                      /\ sub'[i].pc = Closing => run'[i] = "done"
    BY DEF Phases
  <2>1. Moves(i) /\ RunMoves(i)
    BY <1>0
  <2> QED BY <1>0, <2>1 DEF Phases, Moves, RunMoves, SameSess, Unbound, Registered,
             Sending, Starting, Bound, Posting, Reading, Closing
<1>2. ActiveReads'
  <2> SUFFICES ASSUME NEW s \in Session, active'[s] # None
               PROVE  sub'[active'[s]].sess = s /\ sub'[active'[s]].pc \in Registered
    BY DEF ActiveReads
  <2>1. CASE active'[s] = active[s]
    <3>1. PICK i \in Ids : i = active[s]
      BY <1>0, <2>1, ActiveIds
    <3>2. sub[i].sess = s /\ sub[i].pc \in Registered /\ Moves(i)
      BY <1>0, <2>1, <3>1 DEF ActiveReads
    <3> QED BY <2>1, <3>1, <3>2 DEF Moves, SameSess, Registered, Sending, Starting, Bound,
               Posting, Reading, Closing
  <2>2. CASE \E i \in Ids : active'[s] = i /\ sub'[i].pc = Posting /\ sub'[i].sess = s
    BY <2>2 DEF Registered
  <2> QED BY <2>1, <2>2 DEF LifeStep
<1>3. BoundStream'
  <2> SUFFICES ASSUME streamSid' # NoSession
               PROVE  \E i \in Ids : /\ sub'[i].sess = streamSid'
                                     /\ sub'[i].pc \in {Bound} \cup Registered
    BY DEF BoundStream
  <2>1. CASE streamSid' = streamSid
    <3>1. PICK i \in Ids : sub[i].sess = streamSid /\ sub[i].pc \in {Bound} \cup Registered
      BY <1>0, <2>1 DEF BoundStream
    <3>2. Moves(i)
      BY <1>0
    <3> QED BY <2>1, <3>1, <3>2 DEF Moves, SameSess, Registered, Sending, Starting, Bound,
               Posting, Reading, Closing
  <2> QED BY <2>1 DEF LifeStep
<1> QED BY <1>1, <1>2, <1>3

LEMMA StreamKept ==
  ASSUME StreamInv, TypeOK', NextTyped, StreamStep
  PROVE  StreamInv'
<1>1. /\ LifeStep /\ Phases' /\ ActiveReads' /\ BoundStream'
  BY LifeKept DEF StreamStep
<1>2. /\ TypeOK /\ Phases /\ SendUnderWay /\ StopMeansStream /\ BackgroundHasReader
      /\ QueueHasDrain /\ ActiveReads /\ \A i \in Ids : Moves(i)
  BY <1>1, TypesSplit DEF StreamInv, LifeStep
<1>3. SendUnderWay'
  BY <1>2 DEF SendUnderWay, StreamStep, SendingStep
<1>4. StopMeansStream'
  <2> SUFFICES ASSUME isStreaming', active'[current'] = None
               PROVE  \E i \in Ids : sub'[i].pc \in {Starting, Bound}
    BY DEF StopMeansStream
  <2>1. CASE \E i \in Ids : sub'[i].pc = Starting
    BY <2>1
  <2>2. CASE /\ isStreaming /\ active[current] = None
             /\ \A i \in Ids : sub[i].pc = Bound => sub'[i].pc = Bound
    <3>1. PICK i \in Ids : sub[i].pc \in {Starting, Bound}
      BY <1>2, <2>2 DEF StopMeansStream
    <3>2. Moves(i)
      BY <1>2
    <3> QED BY <2>2, <3>1, <3>2 DEF Moves, Sending, Starting, Bound, Registered, Posting,
               Reading, Closing
  <2> QED BY <2>1, <2>2 DEF StreamStep, StreamingStep
<1>5. BackgroundHasReader'
  <2> SUFFICES ASSUME NEW s \in Session, bg'[s] = "running"
               PROVE  \E i \in Ids : sub'[i].sess = s /\ Reads(i)'
    BY DEF BackgroundHasReader, Reads
  <2>1. \E i \in Ids : sub[i].sess = s /\ Reads(i)
    BY <1>2 DEF StreamStep, MarkStep, BackgroundHasReader, Reads
  <2> QED BY <2>1 DEF StreamStep, MarkStep
<1>6. QueueHasDrain'
  <2> SUFFICES ASSUME queue' # <<>>, ~timers'.drain, timers'.send = NoSession
               PROVE  \E i \in Ids : sub'[i].pc \in InFlight \/ GivenUp(i)'
    BY DEF QueueHasDrain
  <2>1. CASE isStreaming'
    <3>1. CASE active'[current'] # None
      <4>1. PICK i \in Ids : i = active'[current']
        BY <3>1, BoundsAssumption DEF TypeOK, None, Ids
      <4>2. sub'[i].pc \in Registered
        BY <1>1, <3>1, <4>1 DEF ActiveReads, TypeOK
      <4> QED BY <4>2 DEF InFlight
    <3> QED BY <1>4, <2>1, <3>1 DEF StopMeansStream, InFlight
  <2>2. CASE sendInFlight'
    BY <1>3, <2>2 DEF SendUnderWay, InFlight
  <2>3. CASE NoEnds /\ \E i \in Ids : sub[i].pc \in InFlight \/ GivenUp(i)
    <3>1. PICK i \in Ids : sub[i].pc \in InFlight \/ GivenUp(i)
      BY <2>3
    <3>2. Moves(i) /\ (sub[i].pc = Sending => sub[i].sess = NoSession)
      BY <1>2 DEF Phases, Unbound
    <3> QED BY <2>3, <3>1, <3>2 DEF NoEnds, Moves, SameSess, GivenUp, InFlight, Registered,
               Sending, Starting, Bound, Posting, Reading, Closing
  <2>4. isStreaming => \E i \in Ids : sub[i].pc \in InFlight
    <3>1. ASSUME active[current] # None
          PROVE  \E i \in Ids : sub[i].pc \in InFlight
      BY <1>2, <3>1, ActiveIds DEF ActiveReads, InFlight, TypeOK
    <3> QED BY <1>2, <3>1 DEF StopMeansStream, InFlight
  <2>5. sendInFlight => \E i \in Ids : sub[i].pc \in InFlight
    BY <1>2 DEF SendUnderWay, InFlight
  <2>6. queue # <<>> /\ ~timers.drain /\ timers.send = NoSession =>
          \E i \in Ids : sub[i].pc \in InFlight \/ GivenUp(i)
    BY <1>2 DEF QueueHasDrain
  <2> QED BY <2>1, <2>2, <2>3, <2>4, <2>5, <2>6 DEF StreamStep, QueueStep
<1> QED BY <1>1, <1>3, <1>4, <1>5, <1>6 DEF StreamInv

-----------------------------------------------------------------------------
(* What a step does to the page.                                            *)

\* A step that opens nothing, resumes nothing and polls nothing: an answer that
\* stops being read is marked unseen, polled or shown.
Covered(i) ==
  sub[i].pc \in {Reading, Closing} /\ sub[i].sess = current /\ Alone(i) /\ ~Elsewhere =>
    \/ sub'[i].pc \in {Reading, Closing} \/ sub'[i].unseen
    \/ <<current, "local">> \in polls
    \/ i \in box'.seen /\ run'[i] = "done"
Answered(i) ==
  /\ run'[i] = "done" /\ run[i] # "done"
  /\ sub[i].sess \in checks \/ \E n \in navs : n.fetched /\ n.sess = sub[i].sess
  => sub'[i].unseen
ClosesShown(i) ==
  sub'[i].pc = Closing /\ sub'[i].sess = current => sub[i].pc = Closing \/ bg'[current] = "none"
SameBox == /\ box'.owner = box.owner /\ box'.broken = box.broken /\ box'.kept = box.kept
           /\ box'.timer = box.timer
StillStep ==
  /\ UNCHANGED <<current, navs, resuming, checks, polls>>
  /\ SameBox /\ box.seen \subseteq box'.seen
  /\ \A i \in box'.seen : i \in box.seen \/ sub[i].sess = current
  /\ bg'[current] # "none" => bg[current] # "none"
  /\ \A i \in Ids : /\ sub[i].sess # NoSession /\ sub[i].unseen => sub'[i].unseen
                    /\ Covered(i) /\ Answered(i) /\ ClosesShown(i)

LEMMA SessKept ==
  ASSUME Phases, NEW i \in Ids, Moves(i), sub[i].sess # NoSession \/ run[i] # "none"
  PROVE  sub'[i].sess = sub[i].sess
BY DEF Phases, Moves, SameSess, Unbound

LEMMA AloneBefore ==
  ASSUME Phases, LifeStep, NEW i \in Ids, sub'[i].sess = sub[i].sess, sub[i].sess # NoSession,
         Alone(i)'
  PROVE  Alone(i)
<1> SUFFICES ASSUME NEW j \in Ids \ {i}, sub[j].sess = sub[i].sess PROVE FALSE
  BY DEF Alone
<1>1. sub'[j].sess = sub[j].sess
  BY SessKept DEF LifeStep
<1> QED BY <1>1 DEF Alone

LEMMA ViewStill ==
  ASSUME ChatInv, NextTyped, LifeStep, StillStep
  PROVE  ViewInv'
<1>1. /\ TypeOK /\ Phases /\ NavsOpen /\ ResumedRuns /\ TimerOpening /\ MarksPolled
      /\ KeptClosing /\ AnswersFound /\ ShowsCurrentOnly /\ \A i \in Ids : Moves(i) /\ RunMoves(i)
  BY DEF ChatInv, StreamInv, ViewInv, LifeStep
<1>2. /\ current \in Session /\ current # NoSession /\ \A n \in navs : n.sess \in Session
      /\ \A n \in navs : n.sess # NoSession /\ n.hist \subseteq Ids
      /\ box.seen \subseteq Ids /\ box'.seen \subseteq Ids
  <2>1. ViewTyped /\ ViewTyped'
    BY <1>1, TypesSplit DEF NextTyped
  <2>2. \A n \in navs : n.sess \in Session /\ n.hist \subseteq Ids
    BY <2>1 DEF ViewTyped, Navs, Openings
  <2>3. box.seen \subseteq Ids /\ box'.seen \subseteq Ids
    BY <2>1 DEF ViewTyped, Boxes
  <2> QED BY <2>1, <2>2, <2>3, SessionAssumption DEF NoSession, ViewTyped
<1>3. Elsewhere' <=> Elsewhere
  BY DEF StillStep, SameBox, Elsewhere, Opening
<1>4. \A i \in Ids : sub[i].sess # NoSession \/ run[i] # "none" => sub'[i].sess = sub[i].sess
  BY <1>1, SessKept
<1>5. \A i \in Ids : run'[i] = "done" => run[i] \in {"done", "running"}
  BY <1>1 DEF RunMoves
<1>6. NavsOpen'
  <2> SUFFICES ASSUME NEW n \in navs
               PROVE  /\ n.latest => n.sess = current /\ \A m \in navs : m.latest => m = n
                      /\ \A i \in n.hist : sub'[i].sess = n.sess
                      /\ n.latest /\ n.fetched =>
                           \A i \in History(n.sess)' : i \in n.hist \/ sub'[i].unseen
    BY DEF NavsOpen, StillStep
  <2>1. n.latest => n.sess = current /\ \A m \in navs : m.latest => m = n
    BY <1>1 DEF NavsOpen
  <2>2. \A i \in n.hist : sub'[i].sess = n.sess
    BY <1>1, <1>2, <1>4 DEF NavsOpen
  <2>3. ASSUME n.latest, n.fetched, NEW i \in Ids, sub'[i].sess = n.sess, run'[i] = "done"
        PROVE  i \in n.hist \/ sub'[i].unseen
    <3>1. sub[i].sess = n.sess
      BY <1>4, <1>5, <2>3
    <3>2. CASE run[i] = "done"
      BY <1>1, <1>2, <2>3, <3>1, <3>2 DEF NavsOpen, History, StillStep
    <3>3. CASE run[i] # "done"
      BY <2>3, <3>1, <3>3 DEF StillStep, Answered
    <3> QED BY <3>2, <3>3
  <2> QED BY <2>1, <2>2, <2>3 DEF History
<1>7. ResumedRuns'
  <2> SUFFICES ASSUME NEW s \in Session, resuming[s] # None
               PROVE  sub'[resuming[s]].sess = s
    BY DEF ResumedRuns, StillStep
  <2>1. resuming[s] \in Ids
    BY <1>1, BoundsAssumption DEF TypeOK, None, Ids
  <2>2. sub[resuming[s]].sess = s /\ s # NoSession
    BY <1>1, SessionAssumption DEF ResumedRuns, NoSession
  <2> QED BY <1>4, <2>1, <2>2
<1>8. MarksPolled' /\ TimerOpening'
  BY <1>1, <1>3 DEF MarksPolled, TimerOpening, StillStep, SameBox
<1>9. AnswersFound'
  <2> SUFFICES ASSUME NEW i \in Ids, sub'[i].sess = current, Alone(i)', ~Elsewhere
               PROVE  /\ run'[i] = "done" =>
                           Reported(i)' \/ i \in box'.seen \/ sub'[i].pc \in {Reading, Closing}
                      /\ run'[i] = "running" =>
                           Reported(i)' \/ sub'[i].pc = Reading \/ current \in checks
    BY <1>3 DEF AnswersFound, StillStep
  <2>1. ASSUME run[i] # "none"
        PROVE  sub[i].sess = current /\ Alone(i)
    <3>1. sub[i].sess = current
      BY <1>4, <2>1
    <3> QED BY <1>1, <1>2, <3>1, AloneBefore
  <2>2. ASSUME run[i] # "none", Reported(i)
        PROVE  Reported(i)'
    BY <2>1, <2>2, <1>2 DEF Reported, StillStep
  <2>3. ASSUME run[i] # "none", sub[i].pc \in {Reading, Closing}
        PROVE  \/ sub'[i].pc \in {Reading, Closing} \/ Reported(i)'
               \/ i \in box'.seen /\ run'[i] = "done"
    BY <2>1, <2>3 DEF StillStep, Covered, Reported
  <2>4. ASSUME run[i] = "done"
        PROVE  Reported(i) \/ i \in box.seen \/ sub[i].pc \in {Reading, Closing}
    BY <1>1, <2>1, <2>4 DEF AnswersFound
  <2>5. ASSUME run[i] = "running"
        PROVE  Reported(i) \/ sub[i].pc = Reading \/ current \in checks
    BY <1>1, <2>1, <2>5 DEF AnswersFound
  <2>6. CASE run'[i] = "done"
    <3>1. CASE run[i] = "done"
      BY <2>2, <2>3, <2>4, <2>6, <3>1 DEF StillStep
    <3>2. CASE run[i] = "running" /\ current \in checks
      <4>1. sub'[i].unseen
        BY <2>1, <2>6, <3>2 DEF StillStep, Answered
      <4> QED BY <2>6, <4>1 DEF Reported
    <3>3. CASE run[i] = "running" /\ current \notin checks
      BY <2>2, <2>3, <2>5, <2>6, <3>3
    <3> QED BY <1>5, <2>6, <3>1, <3>2, <3>3
  <2>7. CASE run'[i] = "running"
    <3>1. CASE run[i] = "running"
      <4>1. sub'[i].pc = Closing => sub[i].pc = Closing \/ run[i] = "done"
        BY <1>1, PcsDiffer DEF Moves, Sending, Starting, Bound, Closing, Posting, Reading
      <4>2. sub[i].pc # Closing
        BY <1>1, <3>1 DEF Phases
      <4> QED BY <2>2, <2>3, <2>5, <2>7, <3>1, <4>1, <4>2
    <3>2. CASE run[i] # "running"
      BY <1>1, <2>7, <3>2 DEF RunMoves
    <3> QED BY <3>1, <3>2
  <2> QED BY <2>6, <2>7
<1>10. ShowsCurrentOnly'
  <2> SUFFICES ASSUME ~Elsewhere, ~box.kept
               PROVE  box'.owner = current /\ \A i \in box'.seen : sub'[i].sess = current
    BY <1>3 DEF ShowsCurrentOnly, Elsewhere, StillStep, SameBox
  <2>1. box.owner = current /\ \A i \in box.seen : sub[i].sess = current
    BY <1>1 DEF ShowsCurrentOnly, Elsewhere
  <2> QED BY <1>2, <1>4, <2>1 DEF StillStep, SameBox
<1>11. KeptClosing'
  <2> SUFFICES ASSUME box.kept, ~Elsewhere, NEW i \in Ids, sub'[i].sess = current, Alone(i)',
                      sub'[i].pc = Closing
               PROVE  bg'[current] = "none"
    BY <1>3 DEF KeptClosing, StillStep, SameBox
  <2>1. CASE sub[i].pc = Closing
    <3>1. run[i] = "done" /\ sub[i].sess = current
      BY <1>1, <1>4, <2>1 DEF Phases
    <3>2. Alone(i)
      BY <1>1, <1>2, <3>1, AloneBefore
    <3> QED BY <1>1, <2>1, <3>1, <3>2 DEF KeptClosing, StillStep
  <2> QED BY <2>1 DEF StillStep, ClosesShown
<1> QED BY <1>6, <1>7, <1>8, <1>9, <1>10, <1>11 DEF ViewInv

-----------------------------------------------------------------------------
(* Steps that touch no submission.                                          *)

\* The table of background streams only gains conversations with a stream.
MarksKept == \A s \in Session : bg'[s] = "running" => bg[s] = "running" \/ active[s] # None

LEMMA QuietStream ==
  ASSUME StreamInv, AllKept, UNCHANGED <<run, active, sendInFlight, queue, timers>>,
         streamSid' = streamSid \/ streamSid' = NoSession, MarksKept,
         isStreaming' => isStreaming /\ (current' = current \/ active[current] = None)
  PROVE  StreamStep
<1>1. LifeStep
  BY DEF LifeStep, Moves, RunMoves, SameSess, AllKept, Kept
<1>2. StreamingStep
  BY DEF StreamingStep, AllKept, Kept
<1>3. SendingStep
  BY DEF SendingStep, AllKept, Kept
<1>4. MarkStep
  <2> SUFFICES ASSUME NEW s \in Session, bg'[s] = "running"
               PROVE  /\ \A i \in Ids : sub[i].sess = s /\ Reads(i) => sub'[i].sess = s /\ Reads(i)'
                      /\ bg[s] = "running" \/ \E i \in Ids : sub[i].sess = s /\ Reads(i)
    BY DEF MarkStep
  <2>1. ASSUME active[s] # None
        PROVE  \E i \in Ids : sub[i].sess = s /\ Reads(i)
    <3>1. active[s] \in Ids /\ ActiveReads
      BY <2>1, ActiveIds, TypesSplit DEF StreamInv
    <3> QED BY <2>1, <3>1 DEF ActiveReads, Reads
  <2> QED BY <2>1 DEF MarksKept, AllKept, Kept, Reads
<1>5. QueueStep
  <2>1. NoEnds
    BY DEF NoEnds, AllKept, Kept, Bound, Registered, Posting, Reading, Closing
  <2> QED BY <2>1 DEF QueueStep
<1> QED BY <1>1, <1>2, <1>3, <1>4, <1>5 DEF StreamStep

\* selectSession opens the conversation: whatever the page still shows is
\* replaced once the history is there.
LEMMA Opened ==
  ASSUME ChatInv, NextTyped, NEW x \in Boxes, NEW s \in Session, NEW b, SelectSession(x, s, b),
         b \in [Session -> Marks], \A t \in Session : b[t] = "running" => bg[t] = "running",
         \A t \in Session : resuming'[t] # None => resuming'[t] = resuming[t],
         UNCHANGED <<run, active, sendInFlight, queue, timers>>
  PROVE  StreamStep /\ ViewInv'
<1>1. /\ TypeOK /\ StreamInv /\ ViewTyped /\ StreamTyped /\ sub \in Subs
  BY TypesSplit DEF ChatInv, StreamInv
<1>2. AllKept /\ current \in Session
  BY <1>1, SelectTyped DEF ViewTyped
<1>3. StreamStep
  <2>1. MarksKept
    BY <1>2 DEF MarksKept, SelectSession
  <2>2. /\ streamSid' = streamSid \/ streamSid' = NoSession
        /\ isStreaming' => isStreaming /\ active[current] = None
    BY DEF SelectSession
  <2> QED BY <1>1, <1>2, <2>1, <2>2, QuietStream
<1> DEFINE new == [sess |-> s, latest |-> TRUE, fetched |-> FALSE, again |-> s = current,
                   empty |-> FALSE, hist |-> {}]
           older == {[n EXCEPT !.latest = FALSE] : n \in navs}
<1>4. /\ current' = s /\ navs' = older \cup {new}
  BY DEF SelectSession
<1>5. /\ new.sess = s /\ new.latest /\ ~new.fetched /\ new.hist = {}
      /\ \A m \in older : ~m.latest /\ \E n \in navs : m.sess = n.sess /\ m.hist = n.hist
  BY <1>1 DEF ViewTyped, Navs, Openings
<1> HIDE DEF new, older
<1>6. Elsewhere'
  BY <1>4, <1>5 DEF Elsewhere, Opening
<1>7. NavsOpen'
  <2> SUFFICES ASSUME NEW n \in navs'
               PROVE  /\ n.latest => n.sess = current' /\ \A m \in navs' : m.latest => m = n
                      /\ \A i \in n.hist : sub'[i].sess = n.sess
                      /\ n.latest => ~n.fetched
    BY DEF NavsOpen
  <2>1. CASE n = new
    BY <1>4, <1>5, <2>1
  <2>2. CASE n \in older
    <3>1. PICK m \in navs : n.sess = m.sess /\ n.hist = m.hist
      BY <1>5, <2>2
    <3>2. m.hist \subseteq Ids /\ \A i \in m.hist : sub[i].sess = m.sess
      BY <1>1 DEF ViewTyped, Navs, Openings, ChatInv, ViewInv, NavsOpen
    <3> QED BY <1>2, <1>5, <2>2, <3>1, <3>2 DEF AllKept, Kept
  <2> QED BY <1>4, <2>1, <2>2
<1>8. ResumedRuns'
  <2> SUFFICES ASSUME NEW t \in Session, resuming'[t] # None
               PROVE  sub'[resuming'[t]].sess = t
    BY DEF ResumedRuns
  <2>1. resuming'[t] = resuming[t]
    OBVIOUS
  <2>2. resuming[t] \in Ids
    BY <1>1, <2>1, BoundsAssumption DEF ViewTyped, None, Ids
  <2> QED BY <1>2, <2>1, <2>2 DEF ChatInv, ViewInv, ResumedRuns, AllKept, Kept
<1>9. TimerOpening' /\ MarksPolled' /\ KeptClosing' /\ AnswersFound' /\ ShowsCurrentOnly'
  BY <1>6 DEF TimerOpening, MarksPolled, KeptClosing, AnswersFound, ShowsCurrentOnly, Elsewhere
<1> QED BY <1>3, <1>7, <1>8, <1>9 DEF ViewInv

LEMMA OpenedTyped ==
  ASSUME TypeOK, NEW x \in Boxes, NEW s \in Session, NEW b \in [Session -> Marks],
         SelectSession(x, s, b),
         resuming' \in [Session -> 0..MaxSubmissions], checks' \subseteq Session,
         polls' \subseteq Session \X {"local", "server"},
         UNCHANGED <<run, active, sendInFlight, queue, timers>>
  PROVE  NextTyped
<1>1. /\ ViewTyped /\ StreamTyped /\ sub \in Subs
  BY TypesSplit
<1>2. /\ current' \in Session /\ navs' \in Navs /\ box' \in Boxes /\ AllKept
      /\ bg' \in [Session -> Marks] /\ streamSid' \in Session \cup {NoSession}
      /\ isStreaming' \in BOOLEAN
  BY <1>1, SelectTyped
<1>3. ViewTyped' /\ StreamTyped' /\ sub' \in Subs
  BY <1>1, <1>2 DEF ViewTyped, StreamTyped, AllKept
<1>4. RunTyped' /\ QueueTyped'
  BY SameTypes
<1> QED BY <1>3, <1>4 DEF NextTyped

LEMMA ClickStep ==
  ASSUME ChatInv, NEW s \in Session, Click(s)
  PROVE  NextTyped /\ StreamStep /\ ViewInv'
<1>1. /\ TypeOK /\ ViewTyped /\ bg \in [Session -> Marks] /\ box \in Boxes
  BY TypesSplit DEF ChatInv, StreamInv, StreamTyped, ViewTyped
<1>2. NextTyped
  BY <1>1, OpenedTyped DEF Click, ViewTyped
<1> QED BY <1>1, <1>2, Opened DEF Click

LEMMA ResumeLostStep ==
  ASSUME ChatInv, NEW s \in Session, ResumeLost(s)
  PROVE  NextTyped /\ StreamStep /\ ViewInv'
<1>1. /\ TypeOK /\ ViewTyped /\ bg \in [Session -> Marks] /\ box \in Boxes
  BY TypesSplit DEF ChatInv, StreamInv, StreamTyped, ViewTyped
<1>2. /\ resuming' \in [Session -> 0..MaxSubmissions]
      /\ \A t \in Session : resuming'[t] # None => resuming'[t] = resuming[t]
  BY <1>1, BoundsAssumption DEF ResumeLost, ViewTyped, None
<1>3. NextTyped
  BY <1>1, <1>2, OpenedTyped DEF ResumeLost, ViewTyped
<1> QED BY <1>1, <1>2, <1>3, Opened DEF ResumeLost

\* Nothing but the page, the marks and what looks for answers changes.
LEMMA PageOnly ==
  ASSUME StreamInv, ViewTyped', bg' \in [Session -> Marks],
         \A s \in Session : bg'[s] = "running" => bg[s] = "running",
         current' = current, sub' = sub,
         UNCHANGED <<run, active, streamSid, composer, queue, timers>>
  PROVE  NextTyped /\ StreamStep
<1>1. TypeOK /\ StreamTyped /\ sub \in Subs
  BY TypesSplit DEF StreamInv
<1>2. AllKept /\ MarksKept
  BY <1>1, UnchangedKeeps DEF MarksKept
<1>3. StreamStep
  BY <1>2, QuietStream DEF composer
<1>4. StreamTyped'
  BY <1>1 DEF StreamTyped, composer
<1>5. RunTyped' /\ QueueTyped'
  BY <1>1, SameTypes
<1> QED BY <1>1, <1>3, <1>4, <1>5 DEF NextTyped

\* Only the calls of selectSession and the page change, and either a conversation
\* is being opened afterwards or the page is as it was.
LEMMA NavsOnly ==
  ASSUME ChatInv, NavsOpen',
         UNCHANGED <<current, sub, run, bg, resuming, checks, polls>>,
         Elsewhere' \/ (~Elsewhere /\ SameBox /\ box'.seen = box.seen)
  PROVE  ViewInv'
<1>1. ViewInv
  BY DEF ChatInv
<1>2. ResumedRuns'
  BY <1>1 DEF ViewInv, ResumedRuns
<1>3. CASE Elsewhere'
  BY <1>2, <1>3 DEF ViewInv, TimerOpening, MarksPolled, KeptClosing, AnswersFound,
     ShowsCurrentOnly, Elsewhere
<1>4. CASE ~Elsewhere' /\ ~Elsewhere /\ SameBox /\ box'.seen = box.seen
  <2>1. \A i \in Ids : (Alone(i) <=> Alone(i)') /\ (Reported(i) <=> Reported(i)')
    BY DEF Alone, Reported
  <2>2. TimerOpening' /\ MarksPolled' /\ KeptClosing' /\ AnswersFound'
    BY <1>1, <1>4, <2>1 DEF ViewInv, TimerOpening, MarksPolled, KeptClosing, AnswersFound, SameBox
  <2>3. ShowsCurrentOnly'
    BY <1>1, <1>4 DEF ViewInv, ShowsCurrentOnly, Elsewhere, SameBox
  <2> QED BY <1>2, <2>2, <2>3 DEF ViewInv
<1> QED BY <1>3, <1>4

LEMMA NavTyped ==
  ASSUME ViewTyped, NEW n \in navs
  PROVE  /\ n.sess \in Session /\ n.latest \in BOOLEAN /\ n.hist \subseteq Ids
         /\ n.again \in BOOLEAN /\ n.empty \in BOOLEAN
BY DEF ViewTyped, Navs, Openings

\* Taking a call away leaves the others as they are.
LEMMA NavGone ==
  ASSUME ChatInv, NEW n \in navs, navs' = navs \ {n}, UNCHANGED <<current, sub, run>>
  PROVE  NavsOpen' /\ (~n.latest => (Opening' <=> Opening))
BY DEF ChatInv, ViewInv, NavsOpen, Opening, History

LEMMA HistoryArrivesStep ==
  ASSUME ChatInv, NEW n \in navs, HistoryArrives(n)
  PROVE  NextTyped /\ StreamStep /\ ViewInv'
<1>1. /\ TypeOK /\ StreamInv /\ ViewTyped /\ StreamTyped /\ NavsOpen /\ ViewInv /\ Phases
      /\ box \in Boxes
  BY TypesSplit DEF ChatInv, StreamInv, ViewInv, ViewTyped
<1>2. n.sess \in Session /\ n.latest \in BOOLEAN
  BY <1>1, NavTyped
<1>3. UNCHANGED <<current, sub, run, active, bg, resuming, checks, streamSid, composer, queue,
                  timers, polls>>
  BY DEF HistoryArrives
<1>4. ASSUME navs' \in Navs, box' \in Boxes
      PROVE  NextTyped /\ StreamStep
  <2>1. ViewTyped'
    BY <1>1, <1>3, <1>4 DEF ViewTyped
  <2> QED BY <1>1, <1>3, <2>1, PageOnly DEF StreamTyped
<1>5. CASE ~IsCurrent(n) /\ navs' = navs \ {n} /\ box' = box
  <2>1. NavsOpen' /\ (Opening' <=> Opening)
    BY <1>3, <1>5, NavGone DEF IsCurrent
  <2>2. ViewInv'
    BY <1>3, <1>5, <2>1, NavsOnly DEF Elsewhere, SameBox
  <2> QED BY <1>1, <1>4, <1>5, <2>2 DEF ViewTyped, Navs
<1>6. CASE /\ IsCurrent(n) /\ WouldWipe(n) /\ navs' = navs \ {n}
           /\ box' = [box EXCEPT !.timer = FALSE, !.kept = TRUE]
  <2>1. box' \in Boxes /\ box'.timer = FALSE /\ box'.kept = TRUE
    BY <1>1, <1>6 DEF Boxes
  <2>2. NavsOpen' /\ ResumedRuns'
    BY <1>1, <1>3, <1>6, NavGone DEF ViewInv, ResumedRuns
  <2>3. \A i \in Ids : sub[i].sess = current => run[i] = "none"
    BY <1>1, <1>6 DEF NavsOpen, IsCurrent, WouldWipe, HistoryEmpty
  <2>4. KeptClosing' /\ AnswersFound'
    BY <1>1, <1>3, <2>3 DEF KeptClosing, AnswersFound, Phases
  <2>5. TimerOpening' /\ MarksPolled' /\ ShowsCurrentOnly'
    BY <2>1 DEF TimerOpening, MarksPolled, ShowsCurrentOnly
  <2> QED BY <1>1, <1>4, <1>6, <2>1, <2>2, <2>4, <2>5 DEF ViewInv, ViewTyped, Navs
<1>7. CASE /\ IsCurrent(n) /\ box' = [box EXCEPT !.timer = FALSE]
           /\ navs' = (navs \ {n}) \cup
                {[n EXCEPT !.fetched = TRUE, !.empty = HistoryEmpty(n.sess),
                           !.hist = History(n.sess)]}
  <2> DEFINE got == [n EXCEPT !.fetched = TRUE, !.empty = HistoryEmpty(n.sess),
                              !.hist = History(n.sess)]
  <2>1. /\ got.sess = n.sess /\ got.latest /\ got.fetched /\ got.hist = History(n.sess)
        /\ {got} \in Navs
    <3>1. HistoryEmpty(n.sess) \in BOOLEAN /\ History(n.sess) \in SUBSET Ids /\ n \in Openings
      BY <1>1 DEF HistoryEmpty, History, ViewTyped, Navs
    <3> HIDE DEF HistoryEmpty, History
    <3> QED BY <1>7, <3>1 DEF Navs, Openings, IsCurrent
  <2> HIDE DEF got
  <2>2. navs' = (navs \ {n}) \cup {got}
    BY <1>7 DEF got
  <2>3. box' \in Boxes /\ n.latest
    BY <1>1, <1>7 DEF Boxes, IsCurrent
  <2>4. NavsOpen'
    <3> SUFFICES ASSUME NEW m \in navs'
                 PROVE  /\ m.latest => m.sess = current /\ \A o \in navs' : o.latest => o = m
                        /\ \A i \in m.hist : sub[i].sess = m.sess
                        /\ m.latest /\ m.fetched =>
                             \A i \in History(m.sess) : i \in m.hist \/ sub[i].unseen
      BY <1>3 DEF NavsOpen, History
    <3>1. CASE m \in navs \ {n}
      BY <1>1, <2>1, <2>2, <2>3, <3>1 DEF NavsOpen
    <3>2. CASE m = got
      <4>1. m.sess = current /\ \A o \in navs' : o.latest => o = m
        BY <1>1, <2>1, <2>2, <2>3, <3>2 DEF NavsOpen
      <4>2. \A i \in m.hist : sub[i].sess = m.sess
        BY <2>1, <3>2 DEF History
      <4> QED BY <2>1, <3>2, <4>1, <4>2
    <3> QED BY <2>2, <3>1, <3>2
  <2>5. Elsewhere'
    BY <2>1, <2>2 DEF Elsewhere, Opening
  <2>6. navs' \in Navs
    BY <1>1, <2>1, <2>2 DEF ViewTyped, Navs
  <2> QED BY <1>3, <1>4, <2>3, <2>4, <2>5, <2>6, NavsOnly
<1> QED BY <1>5, <1>6, <1>7 DEF HistoryArrives

\* The page may go blank while a conversation is opened, or after that failed.
LEMMA LoadingPaintedStep ==
  ASSUME ChatInv, LoadingPainted
  PROVE  NextTyped /\ StreamStep /\ ViewInv'
<1>1. /\ TypeOK /\ StreamInv /\ ViewTyped /\ StreamTyped /\ ViewInv
  BY TypesSplit DEF ChatInv, StreamInv
<1>2. /\ UNCHANGED <<current, navs, sub, run, active, bg, resuming, checks, streamSid, composer,
                     queue, timers, polls>>
      /\ box' = [Clean(current, {}) EXCEPT !.loader = TRUE, !.broken = box.broken]
  BY DEF LoadingPainted
<1>3. box' \in Boxes /\ box'.broken = box.broken
  BY <1>1, <1>2 DEF ViewTyped, Boxes, Clean
<1>4. NextTyped /\ StreamStep
  <2>1. ViewTyped'
    BY <1>1, <1>2, <1>3 DEF ViewTyped
  <2> QED BY <1>1, <1>2, <2>1, PageOnly DEF StreamTyped
<1>5. NavsOpen'
  BY <1>1, <1>2 DEF ViewInv, NavsOpen, History
<1>6. Elsewhere'
  BY <1>1, <1>2, <1>3 DEF ViewInv, TimerOpening, LoadingPainted, Elsewhere, Opening
<1> QED BY <1>2, <1>4, <1>5, <1>6, NavsOnly

LEMMA HistoryFailsStep ==
  ASSUME ChatInv, NEW n \in navs, HistoryFails(n)
  PROVE  NextTyped /\ StreamStep /\ ViewInv'
<1>1. /\ TypeOK /\ StreamInv /\ ViewTyped /\ StreamTyped /\ ViewInv /\ n.latest \in BOOLEAN
      /\ box \in Boxes
  BY TypesSplit, NavTyped DEF ChatInv, StreamInv, ViewTyped
<1> DEFINE x == IF box.loader
                THEN [Clean(box.owner, {"notice"}) EXCEPT !.timer = box.timer, !.kept = box.kept]
                ELSE box
<1>2. /\ navs' = navs \ {n} /\ box' = [x EXCEPT !.broken = box.broken \/ n.latest \/ box.loader]
      /\ UNCHANGED <<current, sub, run, active, bg, resuming, checks, streamSid, composer,
                     queue, timers, polls>>
  BY DEF HistoryFails
<1>3. x \in Boxes /\ (~box.loader => x = box)
  BY <1>1 DEF Boxes, Clean
<1> HIDE DEF x
<1>4. /\ box' \in Boxes /\ box'.broken = (box.broken \/ n.latest \/ box.loader)
      /\ ~box'.broken => SameBox /\ box'.seen = box.seen
  BY <1>1, <1>2, <1>3 DEF Boxes, SameBox
<1>5. NextTyped /\ StreamStep
  <2>1. ViewTyped'
    BY <1>1, <1>2, <1>4 DEF ViewTyped, Navs
  <2> QED BY <1>1, <1>2, <2>1, PageOnly DEF StreamTyped
<1>6. NavsOpen' /\ (~n.latest => (Opening' <=> Opening))
  BY <1>2, NavGone
<1>7. Elsewhere' \/ (~Elsewhere /\ SameBox /\ box'.seen = box.seen)
  BY <1>4, <1>6 DEF Elsewhere
<1> QED BY <1>2, <1>5, <1>6, <1>7, NavsOnly

\* The history of the conversation is shown: an answer that is not in it is
\* marked unseen, is being read, or is looked for from now on.
LEMMA HistoryRenderedStep ==
  ASSUME ChatInv, NEW n \in navs, HistoryRendered(n)
  PROVE  NextTyped /\ StreamStep /\ ViewInv'
<1>1. /\ TypeOK /\ StreamInv /\ ViewTyped /\ StreamTyped /\ NavsOpen /\ ViewInv
      /\ Phases /\ ActiveReads /\ BoundStream
  BY TypesSplit DEF ChatInv, StreamInv, ViewInv
<1>2. /\ n.latest \in BOOLEAN /\ n.sess \in Session /\ n.hist \subseteq Ids /\ n.fetched
      /\ n.sess # NoSession /\ n.empty \in BOOLEAN
  BY <1>1, NavTyped, SessionAssumption DEF HistoryRendered, NoSession
<1>3. /\ navs' = navs \ {n} /\ current' = current /\ run' = run /\ sub' = sub /\ resuming' = resuming
      /\ active' = active /\ streamSid' = streamSid
  BY DEF HistoryRendered
<1>4. NavsOpen' /\ ResumedRuns'
  BY <1>1, <1>3 DEF ViewInv, NavsOpen, ResumedRuns, History
<1>5. CASE ~n.latest
  <2>1. UNCHANGED <<box, bg, polls, checks>>
    BY <1>5 DEF HistoryRendered, IsCurrent
  <2>2. ViewTyped'
    BY <1>1, <1>3, <2>1 DEF ViewTyped, Navs
  <2>3. NextTyped /\ StreamStep
    BY <1>1, <2>1, <2>2, PageOnly DEF HistoryRendered, StreamTyped
  <2>4. Elsewhere' <=> Elsewhere
    BY <1>3, <1>5, <2>1 DEF Elsewhere, Opening
  <2> QED BY <1>3, <1>4, <2>1, <2>3, <2>4, NavsOnly DEF SameBox
<1>6. CASE n.latest
  <2> DEFINE s == n.sess
  <2>1. s = current /\ (\A i \in n.hist : sub[i].sess = s)
        /\ \A i \in History(s) : i \in n.hist \/ sub[i].unseen
    BY <1>1, <1>2, <1>6 DEF NavsOpen
  <2> DEFINE msgs == OldMessages(n.empty) \cup NoticeOf(s)
  <2>2. /\ box' = [Clean(s, msgs) EXCEPT !.seen = n.hist]
        /\ bg' = [bg EXCEPT ![s] = IF bg[s] = "running" THEN bg[s] ELSE "none"]
        /\ polls' = polls \cup LocalPolls(s)
        /\ checks' = IF \/ active[s] # None \/ streamSid = s \/ bg[s] = "running"
                        \/ resuming[s] # None
                     THEN checks ELSE checks \cup {s}
    BY <1>6 DEF HistoryRendered, IsCurrent
  <2>3. ViewTyped'
    <3>1. box' \in Boxes
      <4>1. msgs \subseteq {"history", "notice", "spinner"}
        BY DEF OldMessages, NoticeOf
      <4> HIDE DEF msgs
      <4> QED BY <1>2, <2>2, <4>1 DEF Boxes, Clean
    <3>2. polls' \subseteq Session \X {"local", "server"}
      BY <1>1, <1>2, <2>2 DEF ViewTyped, LocalPolls
    <3> QED BY <1>1, <1>2, <1>3, <2>2, <3>1, <3>2 DEF ViewTyped, Navs
  <2>4. NextTyped /\ StreamStep
    <3>1. /\ bg' \in [Session -> Marks]
          /\ \A t \in Session : bg'[t] = "running" => bg[t] = "running"
      BY <1>1, <1>2, <2>2 DEF StreamTyped, Marks
    <3> QED BY <1>1, <1>3, <2>3, <3>1, PageOnly DEF HistoryRendered
  <2>5. bg[s] = "running" => <<s, "local">> \in polls'
    BY <2>2 DEF LocalPolls
  <2>6. MarksPolled'
    BY <1>1, <1>2, <1>3, <2>1, <2>2, <2>5 DEF MarksPolled, StreamTyped
  <2> HIDE DEF msgs
  <2>7. /\ box'.owner = s /\ box'.seen = n.hist /\ ~box'.timer /\ ~box'.kept
        /\ TimerOpening' /\ KeptClosing' /\ ShowsCurrentOnly'
    BY <1>3, <2>1, <2>2 DEF Clean, TimerOpening, KeptClosing, ShowsCurrentOnly
  <2>8. AnswersFound'
    <3> SUFFICES ASSUME NEW i \in Ids, sub[i].sess = s, Alone(i)
                 PROVE  /\ run[i] = "done" => sub[i].unseen \/ i \in box'.seen
                        /\ run[i] = "running" =>
                             \/ resuming[s] = i \/ <<s, "local">> \in polls'
                             \/ sub[i].pc = Reading \/ s \in checks'
      BY <1>3, <2>1 DEF AnswersFound, Reported, Alone
    <3>1. run[i] = "done" => sub[i].unseen \/ i \in box'.seen
      BY <2>1, <2>7 DEF History
    <3>2. ASSUME run[i] = "running", s \notin checks', bg[s] # "running"
          PROVE  resuming[s] = i \/ sub[i].pc = Reading
      <4>1. \A j \in Ids : sub[j].sess = s => j = i
        BY DEF Alone
      <4>2. CASE active[s] # None
        BY <1>1, <1>2, <3>2, <4>1, <4>2, ActiveIds DEF ActiveReads, Phases, Registered
      <4>3. CASE streamSid = s
        BY <1>1, <1>2, <3>2, <4>1, <4>3 DEF BoundStream, Phases, Registered
      <4>4. CASE resuming[s] # None
        <5>1. resuming[s] \in Ids
          BY <1>1, <1>2, <4>4, BoundsAssumption DEF ViewTyped, None, Ids
        <5> QED BY <1>1, <1>2, <4>1, <4>4, <5>1 DEF ViewInv, ResumedRuns
      <4> QED BY <2>2, <3>2, <4>2, <4>3, <4>4
    <3> QED BY <2>5, <3>1, <3>2
  <2> QED BY <1>4, <2>4, <2>6, <2>7, <2>8 DEF ViewInv
<1> QED BY <1>2, <1>5, <1>6

\* The server's answer: no run, or one that is resumed or polled.
LEMMA ServerCheckedStep ==
  ASSUME ChatInv, NEW s \in Session, ServerChecked(s)
  PROVE  NextTyped /\ StreamStep /\ ViewInv'
<1>1. /\ TypeOK /\ StreamInv /\ ViewTyped /\ StreamTyped /\ ViewInv /\ RunTyped
  BY TypesSplit DEF ChatInv, StreamInv
<1>2. /\ UNCHANGED <<current, navs, box, sub, run, active, bg, streamSid>>
      /\ checks' = checks \ {s}
  BY DEF ServerChecked, view
<1>3. polls \subseteq polls' /\ polls' \subseteq Session \X {"local", "server"}
  BY <1>1 DEF ServerChecked, ViewTyped
<1>4. /\ resuming' \in [Session -> 0..MaxSubmissions]
      /\ \A t \in Session : \/ resuming'[t] = resuming[t]
                            \/ t = s /\ resuming[t] = None /\ resuming'[t] \in RunsOf(t)
  BY <1>1, BoundsAssumption DEF ServerChecked, ViewTyped, HasActiveStream, RunsOf, Ids
<1>5. NextTyped /\ StreamStep
  <2>1. ViewTyped'
    BY <1>1, <1>2, <1>3, <1>4 DEF ViewTyped
  <2> QED BY <1>1, <1>2, <2>1, PageOnly DEF ServerChecked, StreamTyped
<1>6. NavsOpen' /\ TimerOpening' /\ MarksPolled' /\ KeptClosing' /\ ShowsCurrentOnly'
  BY <1>1, <1>2, <1>3 DEF ViewInv, NavsOpen, History, TimerOpening, MarksPolled, KeptClosing,
     Alone, Elsewhere, Opening, ShowsCurrentOnly
<1>7. ResumedRuns'
  BY <1>1, <1>2, <1>4 DEF ViewInv, ResumedRuns, RunsOf
<1>8. AnswersFound'
  <2> SUFFICES ASSUME NEW i \in Ids, sub[i].sess = current, Alone(i), ~Elsewhere
               PROVE  /\ run[i] = "done" =>
                           Reported(i)' \/ i \in box.seen \/ sub[i].pc \in {Reading, Closing}
                      /\ run[i] = "running" =>
                           Reported(i)' \/ sub[i].pc = Reading \/ current \in checks'
    BY <1>2 DEF AnswersFound, Elsewhere, Opening, Alone
  <2>1. Reported(i) => Reported(i)'
    <3>1. current \in Session /\ i # None
      BY <1>1 DEF ViewTyped, None, Ids
    <3> QED BY <1>2, <1>3, <1>4, <3>1 DEF Reported
  <2>2. ASSUME run[i] = "running", current = s
        PROVE  Reported(i)'
    <3>1. i \in RunsOf(s) /\ \A j \in RunsOf(s) : j = i
      BY <2>2 DEF RunsOf, Alone
    <3>2. CASE \E j \in RunsOf(s) : resuming' = [resuming EXCEPT ![s] = j]
      BY <1>1, <1>2, <2>2, <3>1, <3>2 DEF ViewTyped, Reported
    <3>3. CASE polls' = polls \cup {<<s, "server">>}
      BY <1>2, <2>2, <3>3 DEF Reported
    <3> QED BY <3>1, <3>2, <3>3 DEF ServerChecked
  <2>3. current # s => (current \in checks => current \in checks')
    BY <1>2
  <2> QED BY <1>1, <2>1, <2>2, <2>3 DEF ViewInv, AnswersFound
<1> QED BY <1>5, <1>6, <1>7, <1>8 DEF ViewInv

LEMMA ResumeEndsStep ==
  ASSUME ChatInv, NEW s \in Session, ResumeEnds(s)
  PROVE  NextTyped /\ StreamStep /\ ViewInv'
<1> DEFINE r == resuming[s]
<1>1. /\ TypeOK /\ StreamInv /\ ViewTyped /\ StreamTyped /\ ViewInv /\ bg \in [Session -> Marks]
  BY TypesSplit DEF ChatInv, StreamInv, StreamTyped
<1>2. /\ resuming' = [resuming EXCEPT ![s] = None] /\ r \in Ids
      /\ UNCHANGED <<run, active, checks, sendInFlight, queue, timers, polls>>
  BY <1>1, BoundsAssumption DEF ResumeEnds, ViewTyped, None, Ids
<1>3. /\ resuming' \in [Session -> 0..MaxSubmissions]
      /\ \A t \in Session : resuming'[t] # None => resuming'[t] = resuming[t]
      /\ \A t \in Session : t # s => resuming'[t] = resuming[t]
  BY <1>1, <1>2, BoundsAssumption DEF ViewTyped, None
<1>4. CASE SelectSession(box, s, bg)
  BY <1>1, <1>2, <1>3, <1>4, Opened, OpenedTyped DEF ViewTyped
<1>5. ASSUME UNCHANGED <<current, navs, sub, bg, streamSid, isStreaming>>, box' \in Boxes,
             SameBox, box.seen \subseteq box'.seen,
             \A i \in box'.seen : i \in box.seen \/ sub[i].sess = current,
             s = current => run[r] # "running" /\ (run[r] = "done" => r \in box'.seen)
      PROVE  NextTyped /\ StreamStep /\ ViewInv'
  <2>1. ViewTyped'
    BY <1>1, <1>2, <1>3, <1>5 DEF ViewTyped
  <2>2. NextTyped /\ StreamStep
    BY <1>1, <1>2, <1>5, <2>1, PageOnly DEF composer
  <2>3. NavsOpen' /\ TimerOpening' /\ MarksPolled' /\ KeptClosing' /\ (Elsewhere' <=> Elsewhere)
    BY <1>1, <1>2, <1>5 DEF ViewInv, NavsOpen, History, TimerOpening, MarksPolled, KeptClosing,
       Alone, Elsewhere, Opening, SameBox
  <2>6. ShowsCurrentOnly'
    BY <1>1, <1>5, <2>3 DEF ViewInv, ShowsCurrentOnly, Elsewhere, SameBox
  <2>4. ResumedRuns'
    BY <1>1, <1>3, <1>5 DEF ViewInv, ResumedRuns
  <2>5. AnswersFound'
    <3> SUFFICES ASSUME NEW i \in Ids, sub[i].sess = current, Alone(i), ~Elsewhere
                 PROVE  /\ run[i] = "done" =>
                             Reported(i)' \/ i \in box'.seen \/ sub[i].pc \in {Reading, Closing}
                        /\ run[i] = "running" =>
                             Reported(i)' \/ sub[i].pc = Reading \/ current \in checks
      BY <1>2, <1>5, <2>3 DEF AnswersFound, Alone
    <3>1. current \in Session
      BY <1>1 DEF ViewTyped
    <3>2. Reported(i) => Reported(i)' \/ (s = current /\ i = r)
      BY <1>2, <1>3, <1>5, <3>1 DEF Reported
    <3> QED BY <1>1, <1>5, <3>2 DEF ViewInv, AnswersFound
  <2> QED BY <2>2, <2>3, <2>4, <2>5, <2>6 DEF ViewInv
<1>6. CASE current # s /\ UNCHANGED <<view, sub, bg, streamSid, isStreaming>>
  BY <1>1, <1>5, <1>6 DEF view, ViewTyped, SameBox
<1>7. CASE /\ current = s /\ run[r] # "running"
           /\ box' = [box EXCEPT !.seen = @ \cup (History(s) \cap {r})]
           /\ UNCHANGED <<current, navs, sub, bg, streamSid, isStreaming>>
  <2>1. box' \in Boxes /\ SameBox /\ box'.seen = box.seen \cup (History(s) \cap {r})
    BY <1>1, <1>2, <1>7 DEF ViewTyped, Boxes, SameBox
  <2>2. sub[r].sess = s
    BY <1>1, <1>2 DEF ViewInv, ResumedRuns, ResumeEnds
  <2>3. run[r] = "done" => r \in History(s)
    BY <1>2, <2>2 DEF History
  <2> QED BY <1>5, <1>7, <2>1, <2>2, <2>3
<1> QED BY <1>4, <1>6, <1>7 DEF ResumeEnds

LEMMA PollStep ==
  ASSUME ChatInv, NEW p \in polls, Poll(p)
  PROVE  NextTyped /\ StreamStep /\ ViewInv'
<1>1. /\ TypeOK /\ StreamInv /\ ViewTyped /\ StreamTyped /\ ViewInv /\ bg \in [Session -> Marks]
      /\ p[1] \in Session
  BY TypesSplit DEF ChatInv, StreamInv, StreamTyped, ViewTyped
<1>2. /\ polls' = polls \ {p}
      /\ UNCHANGED <<run, active, resuming, checks, sendInFlight, queue, timers>>
  BY DEF Poll
<1> DEFINE x == Unspun(box, p[1])
<1>3. x \in Boxes
  BY <1>1 DEF Unspun, ViewTyped, Boxes
<1>4. x.owner = box.owner /\ x.broken = box.broken /\ x.kept = box.kept /\ x.timer = box.timer
      /\ x.seen = box.seen
  BY <1>1 DEF Unspun, ViewTyped, Boxes
<1> HIDE DEF x
<1>5. CASE /\ current # p[1] /\ box' = x
           /\ UNCHANGED <<current, navs, sub, bg, streamSid, isStreaming>>
  <2>1. ViewTyped' /\ SameBox /\ box'.seen = box.seen
    BY <1>1, <1>2, <1>5, <1>3, <1>4 DEF ViewTyped, SameBox
  <2>2. NextTyped /\ StreamStep
    BY <1>1, <1>2, <1>5, <2>1, PageOnly DEF composer
  <2>3. \A w : <<current, w>> \in polls => <<current, w>> \in polls'
    BY <1>2, <1>5
  <2>4. UNCHANGED <<current, navs, sub, run, bg, resuming, checks>>
    BY <1>2, <1>5
  <2>5. NavsOpen' /\ ResumedRuns' /\ (Elsewhere' <=> Elsewhere)
    BY <1>1, <2>1, <2>4 DEF ViewInv, NavsOpen, ResumedRuns, History, Elsewhere, Opening, SameBox
  <2>6. TimerOpening' /\ MarksPolled' /\ KeptClosing'
    BY <1>1, <2>1, <2>3, <2>4, <2>5 DEF ViewInv, TimerOpening, MarksPolled, KeptClosing, Alone,
       SameBox
  <2>9. ShowsCurrentOnly'
    BY <1>1, <2>1, <2>4, <2>5 DEF ViewInv, ShowsCurrentOnly, Elsewhere, SameBox
  <2>7. \A i \in Ids : (Reported(i) => Reported(i)') /\ (Alone(i) <=> Alone(i)')
    BY <2>3, <2>4 DEF Reported, Alone
  <2>8. AnswersFound'
    BY <1>1, <2>1, <2>4, <2>5, <2>7 DEF ViewInv, AnswersFound
  <2> QED BY <2>2, <2>5, <2>6, <2>8, <2>9 DEF ViewInv
<1>6. CASE SelectSession(x, p[1], IF p[2] = "local" THEN [bg EXCEPT ![p[1]] = "none"] ELSE bg)
  <2> DEFINE b == IF p[2] = "local" THEN [bg EXCEPT ![p[1]] = "none"] ELSE bg
  <2>1. b \in [Session -> Marks] /\ \A t \in Session : b[t] = "running" => bg[t] = "running"
    BY <1>1 DEF Marks
  <2>2. SelectSession(x, p[1], b)
    BY <1>6
  <2> HIDE DEF b
  <2>3. /\ resuming' \in [Session -> 0..MaxSubmissions] /\ checks' \subseteq Session
        /\ polls' \subseteq Session \X {"local", "server"}
        /\ \A t \in Session : resuming'[t] # None => resuming'[t] = resuming[t]
    BY <1>1, <1>2 DEF ViewTyped
  <2>4. NextTyped
    BY <1>1, <1>2, <1>3, <2>1, <2>2, <2>3, OpenedTyped
  <2> QED BY <1>1, <1>2, <1>3, <2>1, <2>2, <2>3, <2>4, Opened
<1> QED BY <1>5, <1>6 DEF Poll, x

-----------------------------------------------------------------------------
(* Steps of one submission.                                                 *)

LEMMA TypesOf ==
  ASSUME ChatInv
  PROVE  /\ TypeOK /\ StreamInv /\ ViewInv /\ Phases /\ ActiveReads /\ current # NoSession
         /\ sub \in Subs /\ ViewTyped /\ StreamTyped /\ RunTyped /\ QueueTyped
<1>1. TypeOK /\ StreamInv /\ ViewInv /\ Phases
  BY DEF ChatInv, StreamInv
<1> QED BY <1>1, TypesSplit, SessionAssumption DEF ViewTyped, NoSession

LEMMA OneLife ==
  ASSUME NEW i \in Ids, NEW p, NEW s, NEW l, NEW u, Becomes(i, p, s, l, u),
         Moves(i), \A j \in Ids : RunMoves(j),
         \A t \in Session : \/ active'[t] = active[t]
                            \/ active'[t] = None
                            \/ active'[t] = i /\ p = Posting /\ s = t,
         \/ streamSid' = streamSid
         \/ streamSid' = NoSession
         \/ p = Bound /\ s = streamSid'
  PROVE  LifeStep
<1>1. \A j \in Ids : Moves(j)
  BY DEF Becomes, Moves, SameSess
<1> QED BY <1>1 DEF LifeStep, Becomes

LEMMA OneStill ==
  ASSUME NEW i \in Ids, NEW p, NEW s, NEW l, NEW u, Becomes(i, p, s, l, u),
         UNCHANGED <<current, navs, resuming, checks, polls>>,
         SameBox, box'.seen = box.seen,
         bg'[current] # "none" => bg[current] # "none",
         p = Closing => sub[i].pc = Closing \/ s # current \/ bg'[current] = "none",
         sub[i].sess # NoSession /\ sub[i].unseen => u, Covered(i),
         \A j \in Ids : Answered(j)
  PROVE  StillStep
<1>1. \A j \in Ids \ {i} : Covered(j)
  BY DEF Covered, Becomes
<1>2. \A j \in Ids : ClosesShown(j)
  BY DEF ClosesShown, Becomes
<1> QED BY <1>1, <1>2 DEF StillStep, Becomes

LEMMA StepKeeps ==
  ASSUME ChatInv, NextTyped, LifeStep, StreamingStep, SendingStep, MarkStep, QueueStep, StillStep
  PROVE  NextTyped /\ StreamStep /\ ViewInv'
BY ViewStill DEF StreamStep

LEMMA RunsKept ==
  ASSUME UNCHANGED run
  PROVE  \A j \in Ids : RunMoves(j) /\ Answered(j)
BY DEF RunMoves, Answered

LEMMA QueueKept ==
  ASSUME NEW i \in Ids, NEW p, NEW s, NEW l, NEW u, Becomes(i, p, s, l, u),
         p # "over" \/ sub[i].pc \notin {Bound} \cup Registered, UNCHANGED <<queue, timers>>
  PROVE  QueueStep
<1>1. NoEnds
  BY DEF NoEnds, Becomes, Bound, Registered, Posting, Reading, Closing
<1> QED BY <1>1 DEF QueueStep

\* _releaseSendFlag.
LEMMA SendAbandonedStep ==
  ASSUME ChatInv, NEW i \in Ids, SendAbandoned(i)
  PROVE  NextTyped /\ StreamStep /\ ViewInv'
<1>1. /\ TypeOK /\ StreamInv /\ Phases /\ sub \in Subs /\ StreamTyped /\ ViewTyped
  BY TypesOf
<1>2. "over" \in PCs
  BY DEF PCs
<1>3. Becomes(i, "over", sub[i].sess, sub[i].left, sub[i].unseen)
  BY <1>1, <1>2, Moved DEF SendAbandoned
<1>4. sub[i].pc = Sending /\ sub[i].sess = NoSession
  BY <1>1 DEF SendAbandoned, Phases, Unbound
<1>5. UNCHANGED <<current, navs, box, run, active, bg, resuming, checks, streamSid, queue, timers, polls>>
  BY DEF SendAbandoned, view
<1>6. NextTyped
  <2>1. ViewTyped' /\ RunTyped' /\ QueueTyped'
    BY <1>1, <1>5, SameTypes DEF view
  <2>2. StreamTyped'
    BY <1>1, <1>5 DEF StreamTyped, SendAbandoned, Foreground
  <2> QED BY <1>3, <2>1, <2>2 DEF NextTyped, Becomes
<1>7. LifeStep
  <2>1. Moves(i)
    BY <1>3, <1>4 DEF Moves, SameSess, Becomes
  <2> QED BY <1>3, <1>5, <2>1, RunsKept, OneLife
<1>8. StreamingStep /\ SendingStep
  BY <1>5 DEF StreamingStep, SendingStep, SendAbandoned, Foreground
<1>9. MarkStep
  BY <1>1, <1>3, <1>4, <1>5, SessionAssumption DEF MarkStep, Becomes, Reads, NoSession
<1>10. QueueStep
  BY <1>3, <1>4, <1>5, PcsDiffer, QueueKept
<1>11. StillStep
  <2>1. Covered(i)
    BY <1>4, PcsDiffer DEF Covered, Registered
  <2> QED BY <1>3, <1>5, <2>1, RunsKept, OneStill DEF SameBox, Closing
<1> QED BY <1>6, <1>7, <1>8, <1>9, <1>10, <1>11, StepKeeps

LEMMA HandOverStep ==
  ASSUME ChatInv, NEW i \in Ids, HandOver(i)
  PROVE  NextTyped /\ StreamStep /\ ViewInv'
<1>1. /\ TypeOK /\ StreamInv /\ Phases /\ sub \in Subs /\ StreamTyped /\ ViewTyped
  BY TypesOf
<1>2. Starting \in PCs
  BY DEF PCs
<1>3. Becomes(i, Starting, sub[i].sess, sub[i].left, sub[i].unseen)
  BY <1>1, <1>2, Moved DEF HandOver
<1>4. sub[i].pc = Sending /\ sub[i].sess = NoSession
  BY <1>1 DEF HandOver, Phases, Unbound
<1>5. UNCHANGED <<current, navs, box, run, active, bg, resuming, checks, streamSid, queue, timers, polls>>
  BY DEF HandOver, view
<1>6. NextTyped
  <2>1. ViewTyped' /\ RunTyped' /\ QueueTyped'
    BY <1>1, <1>5, SameTypes DEF view
  <2>2. StreamTyped'
    BY <1>1, <1>5 DEF StreamTyped, HandOver
  <2> QED BY <1>3, <2>1, <2>2 DEF NextTyped, Becomes
<1>7. LifeStep
  <2>1. Moves(i)
    BY <1>3, <1>4 DEF Moves, SameSess, Becomes
  <2> QED BY <1>3, <1>5, <2>1, RunsKept, OneLife
<1>8. StreamingStep /\ SendingStep /\ QueueStep
  BY <1>3 DEF StreamingStep, SendingStep, QueueStep, HandOver, Becomes
<1>9. MarkStep
  BY <1>1, <1>3, <1>4, <1>5, SessionAssumption DEF MarkStep, Becomes, Reads, NoSession
<1>10. StillStep
  <2>1. Covered(i)
    BY <1>4, PcsDiffer DEF Covered, Registered
  <2> QED BY <1>3, <1>5, <2>1, RunsKept, OneStill
         DEF SameBox, Closing, Starting
<1> QED BY <1>6, <1>7, <1>8, <1>9, <1>10, StepKeeps

LEMMA CaptureStep ==
  ASSUME ChatInv, NEW i \in Ids, Capture(i)
  PROVE  NextTyped /\ StreamStep /\ ViewInv'
<1>1. /\ TypeOK /\ StreamInv /\ Phases /\ sub \in Subs /\ StreamTyped /\ ViewTyped
  BY TypesOf
<1>2. current \in Session
  BY <1>1 DEF ViewTyped
<1>3. Becomes(i, Bound, current, sub[i].left, sub[i].unseen)
  BY <1>1, <1>2, Captured DEF Capture
<1>4. sub[i].pc = Starting /\ sub[i].sess = NoSession
  BY <1>1 DEF Capture, Phases, Unbound
<1>5. UNCHANGED <<current, navs, run, active, bg, resuming, checks, isStreaming, sendInFlight,
                  queue, timers, polls>>
  BY DEF Capture, composer
<1>12. box' \in Boxes /\ SameBox /\ box'.seen = box.seen
  BY <1>1 DEF Capture, ViewTyped, Boxes, SameBox
<1>6. NextTyped
  <2>1. RunTyped' /\ QueueTyped'
    BY <1>1, <1>5, SameTypes
  <2>2. StreamTyped' /\ ViewTyped'
    BY <1>1, <1>2, <1>5, <1>12 DEF StreamTyped, ViewTyped, Capture
  <2> QED BY <1>3, <2>1, <2>2 DEF NextTyped, Becomes
<1>7. LifeStep
  <2>1. Moves(i)
    BY <1>3, <1>4 DEF Moves, SameSess, Becomes
  <2> QED BY <1>3, <1>5, <2>1, RunsKept, OneLife DEF Capture
<1>8. StreamingStep /\ SendingStep
  BY <1>3, <1>4, <1>5, PcsDiffer DEF StreamingStep, SendingStep, Becomes
<1>9. MarkStep
  BY <1>1, <1>3, <1>4, <1>5, SessionAssumption DEF MarkStep, Becomes, Reads, NoSession
<1>10. QueueStep
  BY <1>3, <1>4, <1>5, PcsDiffer, QueueKept
<1>11. StillStep
  <2>1. Covered(i)
    BY <1>4, PcsDiffer DEF Covered, Registered
  <2> QED BY <1>3, <1>4, <1>5, <1>12, <2>1, RunsKept, OneStill DEF Closing, Bound
<1> QED BY <1>6, <1>7, <1>8, <1>9, <1>10, <1>11, StepKeeps

LEMMA RegisterStep ==
  ASSUME ChatInv, NEW i \in Ids, Register(i)
  PROVE  NextTyped /\ StreamStep /\ ViewInv'
<1> DEFINE s == sub[i].sess
<1>1. /\ TypeOK /\ StreamInv /\ Phases /\ sub \in Subs /\ StreamTyped /\ ViewTyped
  BY TypesOf
<1>2. Posting \in PCs
  BY DEF PCs
<1>3. Becomes(i, Posting, s, sub[i].left, sub[i].unseen)
  BY <1>1, <1>2, Moved DEF Register
<1>4. sub[i].pc = Bound /\ s # NoSession /\ s \in Session
  BY <1>1 DEF Register, Phases, Subs, Submission
<1>5. UNCHANGED <<current, navs, run, bg, resuming, checks, streamSid, sendInFlight, queue, timers,
                  polls>>
  BY DEF Register
<1>6. /\ active' = [active EXCEPT ![s] = i] /\ isStreaming' = (active'[current] # None)
      /\ box' = [box EXCEPT !.live = box.live \cup {i}]
  BY DEF Register, Foreground
<1>7. NextTyped
  <2>1. RunTyped' /\ QueueTyped'
    BY <1>1, <1>5, SameTypes
  <2>2. StreamTyped'
    <3>1. i \in 0..MaxSubmissions
      BY BoundsAssumption DEF Ids
    <3>2. active' \in [Session -> 0..MaxSubmissions]
      BY <1>1, <1>6, <3>1 DEF StreamTyped
    <3> QED BY <1>1, <1>5, <1>6, <3>2 DEF StreamTyped
  <2>3. box' \in Boxes
    BY <1>1, <1>6 DEF ViewTyped, Boxes
  <2>4. ViewTyped'
    BY <1>1, <1>5, <2>3 DEF ViewTyped
  <2> QED BY <1>3, <2>1, <2>2, <2>4 DEF NextTyped, Becomes
<1>8. LifeStep
  <2>1. Moves(i)
    BY <1>3, <1>4 DEF Moves, SameSess, Becomes
  <2>2. \A t \in Session : active'[t] = active[t] \/ (active'[t] = i /\ s = t)
    BY <1>1, <1>4, <1>6 DEF StreamTyped
  <2> QED BY <1>3, <1>5, <2>1, <2>2, RunsKept, OneLife
<1>9. StreamingStep /\ SendingStep
  BY <1>3, <1>4, <1>5, <1>6, PcsDiffer DEF StreamingStep, SendingStep, Becomes
<1>10. MarkStep
  BY <1>3, <1>5 DEF MarkStep, Becomes, Reads, Registered
<1>11. QueueStep
  BY <1>3, <1>5, QueueKept DEF Posting
<1>12. StillStep
  <2>1. Covered(i)
    BY <1>4, PcsDiffer DEF Covered, Registered
  <2>2. SameBox /\ box'.seen = box.seen
    BY <1>1, <1>6 DEF ViewTyped, Boxes, SameBox
  <2> QED BY <1>3, <1>5, <2>1, <2>2, RunsKept, OneStill DEF Closing, Posting
<1> QED BY <1>7, <1>8, <1>9, <1>10, <1>11, <1>12, StepKeeps

LEMMA PostedStep ==
  ASSUME ChatInv, NEW i \in Ids, Posted(i)
  PROVE  NextTyped /\ StreamStep /\ ViewInv'
<1>1. /\ TypeOK /\ StreamInv /\ Phases /\ sub \in Subs /\ StreamTyped /\ ViewTyped /\ RunTyped
  BY TypesOf
<1>2. Reading \in PCs
  BY DEF PCs
<1>3. Becomes(i, Reading, sub[i].sess, sub[i].left, sub[i].unseen)
  BY <1>1, <1>2, Moved DEF Posted
<1>4. sub[i].pc = Posting
  BY DEF Posted
<1>5. UNCHANGED <<current, navs, box, active, bg, resuming, checks, streamSid, isStreaming,
                  sendInFlight, queue, timers, polls>>
  BY DEF Posted, view, composer
<1>6. /\ run' \in [Ids -> {"none", "running", "done", "dead"}] /\ run'[i] = "running"
      /\ \A j \in Ids \ {i} : run'[j] = run[j] \/ (run[j] = "running" /\ run'[j] = "dead")
  BY <1>1 DEF Posted, Killed, RunsOf, RunTyped
<1>7. NextTyped
  <2>1. ViewTyped' /\ StreamTyped' /\ QueueTyped'
    BY <1>1, <1>5, SameTypes DEF view, composer
  <2> QED BY <1>3, <1>6, <2>1 DEF NextTyped, Becomes, RunTyped
<1>8. LifeStep
  <2>1. Moves(i)
    BY <1>3, <1>4 DEF Moves, SameSess, Becomes
  <2>2. \A j \in Ids : RunMoves(j)
    BY <1>3, <1>4, <1>6 DEF RunMoves, Becomes
  <2> QED BY <1>3, <1>5, <2>1, <2>2, OneLife
<1>9. StreamingStep /\ SendingStep
  BY <1>3, <1>4, <1>5, PcsDiffer DEF StreamingStep, SendingStep, Becomes, Sending, Bound, Posting
<1>10. MarkStep
  BY <1>3, <1>5 DEF MarkStep, Becomes, Reads, Registered
<1>11. QueueStep
  BY <1>3, <1>5, QueueKept DEF Reading
<1>12. StillStep
  <2>1. Covered(i) /\ \A j \in Ids : Answered(j)
    BY <1>4, <1>6, PcsDiffer DEF Covered, Answered
  <2> QED BY <1>3, <1>5, <2>1, OneStill DEF SameBox, Closing, Reading
<1> QED BY <1>7, <1>8, <1>9, <1>10, <1>11, <1>12, StepKeeps

LEMMA ReadDoneStep ==
  ASSUME ChatInv, NEW i \in Ids, ReadDone(i)
  PROVE  NextTyped /\ StreamStep /\ ViewInv'
<1> DEFINE s == sub[i].sess
<1>1. /\ TypeOK /\ StreamInv /\ Phases /\ sub \in Subs /\ StreamTyped /\ ViewTyped
  BY TypesOf
<1>2. Closing \in PCs
  BY DEF PCs
<1>3. Becomes(i, Closing, s, sub[i].left, sub[i].unseen)
  BY <1>1, <1>2, Moved DEF ReadDone
<1>4. sub[i].pc = Reading /\ s \in Session /\ run[i] = "done"
  BY <1>1 DEF ReadDone, Phases, Subs, Submission, Registered
<1>5. UNCHANGED <<current, navs, box, run, active, resuming, checks, streamSid, isStreaming,
                  sendInFlight, queue, timers, polls>>
  BY DEF ReadDone, view, composer
<1>6. /\ bg' \in [Session -> Marks] /\ bg'[s] # "running" /\ (s = current => bg'[s] = "none")
      /\ \A t \in Session \ {s} : bg'[t] = bg[t]
  BY <1>1, <1>4 DEF ReadDone, Away, StreamTyped, Marks
<1>7. NextTyped
  <2>1. ViewTyped' /\ RunTyped' /\ QueueTyped'
    BY <1>1, <1>5, SameTypes DEF view
  <2>2. StreamTyped'
    BY <1>1, <1>5, <1>6 DEF StreamTyped
  <2> QED BY <1>3, <2>1, <2>2 DEF NextTyped, Becomes
<1>8. LifeStep
  <2>1. Moves(i)
    BY <1>3, <1>4 DEF Moves, SameSess, Becomes
  <2> QED BY <1>3, <1>5, <2>1, RunsKept, OneLife
<1>9. StreamingStep /\ SendingStep
  BY <1>3, <1>4, <1>5, PcsDiffer DEF StreamingStep, SendingStep, Becomes, Sending, Bound, Reading
<1>10. MarkStep
  BY <1>3, <1>5, <1>6 DEF MarkStep, Becomes, Reads, Registered
<1>11. QueueStep
  BY <1>3, <1>5, QueueKept DEF Closing
<1>12. StillStep
  <2>1. Covered(i)
    BY <1>3 DEF Covered, Becomes
  <2>2. bg'[current] # "none" => bg[current] # "none"
    BY <1>1, <1>6 DEF ViewTyped
  <2> QED BY <1>3, <1>5, <2>1, <2>2, <1>6, RunsKept, OneStill DEF SameBox
<1> QED BY <1>7, <1>8, <1>9, <1>10, <1>11, <1>12, StepKeeps

\* The server: the answer is saved while nobody, the page or a stream reads it.
LEMMA RunEndsStep ==
  ASSUME ChatInv, NEW i \in Ids, RunEnds(i)
  PROVE  NextTyped /\ StreamStep /\ ViewInv'
<1>1. /\ TypeOK /\ StreamInv /\ Phases /\ sub \in Subs /\ StreamTyped /\ ViewTyped /\ RunTyped
  BY TypesOf
<1> DEFINE u == sub[i].unseen \/ sub[i].sess \in checks \/
                \E n \in navs : n.fetched /\ n.sess = sub[i].sess
<1>2. u \in BOOLEAN /\ sub' = [sub EXCEPT ![i].unseen = u]
  BY <1>1 DEF RunEnds
<1> HIDE DEF u
<1>3. Becomes(i, sub[i].pc, sub[i].sess, sub[i].left, u)
  BY <1>1, <1>2, Marked
<1>4. UNCHANGED <<current, navs, box, active, bg, resuming, checks, streamSid, isStreaming,
                  sendInFlight, queue, timers, polls>>
  BY DEF RunEnds, view, composer
<1>5. /\ run' \in [Ids -> {"none", "running", "done", "dead"}] /\ run[i] = "running"
      /\ run'[i] = "done" /\ \A j \in Ids \ {i} : run'[j] = run[j]
  BY <1>1 DEF RunEnds, RunTyped
<1>6. NextTyped
  <2>1. ViewTyped' /\ StreamTyped' /\ QueueTyped'
    BY <1>1, <1>4, SameTypes DEF view, composer
  <2> QED BY <1>3, <1>5, <2>1 DEF NextTyped, Becomes, RunTyped
<1>7. LifeStep
  <2>1. Moves(i) /\ \A j \in Ids : RunMoves(j)
    BY <1>3, <1>5 DEF Moves, SameSess, RunMoves, Becomes
  <2> QED BY <1>3, <1>4, <2>1, OneLife
<1>8. StreamingStep /\ SendingStep /\ MarkStep
  BY <1>3, <1>4 DEF StreamingStep, SendingStep, MarkStep, Becomes, Reads
<1>9. QueueStep
  <2>1. sub[i].pc # "over" \/ sub[i].pc \notin {Bound} \cup Registered
    BY DEF Bound, Registered, Posting, Reading, Closing
  <2> QED BY <1>3, <1>4, <2>1, QueueKept
<1>10. StillStep
  <2>1. Covered(i)
    BY <1>3 DEF Covered, Becomes
  <2>2. \A j \in Ids : Answered(j)
    BY <1>3, <1>5 DEF Answered, Becomes, u
  <2>3. sub[i].unseen => u
    BY DEF u
  <2> QED BY <1>3, <1>4, <2>1, <2>2, <2>3, OneStill DEF SameBox
<1> QED BY <1>6, <1>7, <1>8, <1>9, <1>10, StepKeeps

-----------------------------------------------------------------------------
(* Steps that move no submission: stopping, queueing and the timers.        *)

LEMMA KeptStep ==
  ASSUME ChatInv, NextTyped, AllKept, UNCHANGED <<view, resuming, checks, polls, streamSid>>,
         \A j \in Ids : RunMoves(j) /\ (run'[j] = "done" => run[j] = "done"),
         \A t \in Session : active'[t] = active[t] \/ active'[t] = None,
         \A t \in Session : bg'[t] = "running" =>
           bg[t] = "running" \/ \E j \in Ids : sub[j].sess = t /\ Reads(j),
         bg'[current] # "none" => bg[current] # "none",
         isStreaming' => isStreaming /\ active' = active, sendInFlight' => sendInFlight,
         queue' # <<>> => \/ timers'.drain \/ timers'.send # NoSession
                          \/ isStreaming \/ sendInFlight
                          \/ /\ queue # <<>>
                             /\ timers.drain => timers'.drain
                             /\ timers.send # NoSession => timers'.send # NoSession
  PROVE  NextTyped /\ StreamStep /\ ViewInv'
<1>1. LifeStep
  BY DEF LifeStep, Moves, SameSess, AllKept, Kept
<1>2. StreamingStep /\ SendingStep /\ MarkStep
  BY DEF StreamingStep, SendingStep, MarkStep, AllKept, Kept, Reads, view
<1>3. QueueStep
  <2>1. NoEnds
    BY DEF NoEnds, AllKept, Kept, Bound, Registered, Posting, Reading, Closing
  <2> QED BY <2>1 DEF QueueStep
<1>4. StillStep
  BY DEF StillStep, SameBox, ClosesShown, Covered, Answered, AllKept, Kept, view
<1> QED BY <1>1, <1>2, <1>3, <1>4, StepKeeps

LEMMA KilledRuns ==
  ASSUME RunTyped, NEW s, run' = Killed(s)
  PROVE  RunTyped' /\ \A j \in Ids : RunMoves(j) /\ (run'[j] = "done" => run[j] = "done")
BY DEF RunTyped, Killed, RunsOf, RunMoves

LEMMA RunsStay ==
  ASSUME run' = run
  PROVE  \A j \in Ids : RunMoves(j) /\ (run'[j] = "done" => run[j] = "done")
BY DEF RunMoves

LEMMA FirstBackgroundEventStep ==
  ASSUME ChatInv, NEW i \in Ids, FirstBackgroundEvent(i)
  PROVE  NextTyped /\ StreamStep /\ ViewInv'
<1>1. /\ TypeOK /\ StreamInv /\ sub \in Subs /\ StreamTyped
  BY TypesOf
<1>2. /\ sub[i].sess # current /\ bg' = [bg EXCEPT ![sub[i].sess] = "running"]
      /\ Reads(i)
      /\ UNCHANGED <<view, sub, run, active, resuming, checks, streamSid, composer, queue, timers,
                     polls>>
  BY DEF FirstBackgroundEvent, Away, Reads, Registered
<1>3. AllKept
  BY <1>1, <1>2, UnchangedKeeps
<1>4. bg' \in [Session -> Marks]
  BY <1>1, <1>2 DEF StreamTyped, Marks
<1>5. NextTyped
  <2>1. ViewTyped' /\ RunTyped' /\ QueueTyped'
    BY <1>1, <1>2, SameTypes
  <2>2. StreamTyped'
    BY <1>1, <1>2, <1>4 DEF StreamTyped, composer
  <2> QED BY <1>3, <2>1, <2>2 DEF NextTyped, AllKept
<1>6. /\ \A t \in Session : bg'[t] = "running" => bg[t] = "running" \/ t = sub[i].sess
      /\ bg'[current] # "none" => bg[current] # "none"
  BY <1>1, <1>2 DEF StreamTyped
<1> QED BY <1>2, <1>3, <1>5, <1>6, RunsStay, KeptStep DEF composer

LEMMA ResponseTimeoutStep ==
  ASSUME ChatInv, NEW i \in Ids, ResponseTimeout(i)
  PROVE  NextTyped /\ StreamStep /\ ViewInv'
<1>1. /\ TypeOK /\ StreamInv /\ sub \in Subs /\ RunTyped
  BY TypesOf
<1>2. /\ run' = Killed(sub[i].sess)
      /\ UNCHANGED <<view, active, bg, resuming, checks, streamSid, composer, queue, timers,
                     polls>>
  BY DEF ResponseTimeout
<1>3. AllKept
  BY <1>1, AbortKeeps DEF ResponseTimeout
<1>4. RunTyped' /\ \A j \in Ids : RunMoves(j) /\ (run'[j] = "done" => run[j] = "done")
  BY <1>1, <1>2, KilledRuns
<1>5. NextTyped
  <2>1. ViewTyped' /\ StreamTyped' /\ QueueTyped'
    BY <1>1, <1>2, SameTypes
  <2> QED BY <1>3, <1>4, <2>1 DEF NextTyped, AllKept
<1> QED BY <1>2, <1>3, <1>4, <1>5, KeptStep DEF composer

LEMMA QueueRequestStep ==
  ASSUME ChatInv, QueueRequest
  PROVE  NextTyped /\ StreamStep /\ ViewInv'
<1>1. /\ TypeOK /\ StreamInv /\ sub \in Subs /\ QueueTyped /\ ViewTyped
  BY TypesOf
<1>2. /\ isStreaming /\ Len(queue) < MaxQueue /\ queue' = Append(queue, current)
      /\ UNCHANGED <<view, sub, run, active, bg, resuming, checks, streamSid, composer, timers,
                     polls>>
  BY DEF QueueRequest
<1>3. AllKept
  BY <1>1, <1>2, UnchangedKeeps
<1>4. QueueTyped'
  <2>1. /\ queue \in Seq(Session) /\ current \in Session /\ Len(queue) \in Nat
    BY <1>1 DEF QueueTyped, ViewTyped
  <2>2. Append(queue, current) \in Seq(Session) /\ Len(Append(queue, current)) = Len(queue) + 1
    BY <2>1
  <2> QED BY <1>1, <1>2, <2>1, <2>2, BoundsAssumption DEF QueueTyped
<1>5. NextTyped
  <2>1. ViewTyped' /\ StreamTyped' /\ RunTyped'
    BY <1>1, <1>2, SameTypes
  <2> QED BY <1>3, <1>4, <2>1 DEF NextTyped, AllKept
<1> QED BY <1>2, <1>3, <1>5, RunsStay, KeptStep DEF composer

LEMMA StopStreamStep ==
  ASSUME ChatInv, StopStream, UNCHANGED queue, timers' \in Timers
  PROVE  NextTyped /\ StreamStep /\ ViewInv'
<1>1. /\ TypeOK /\ StreamInv /\ sub \in Subs /\ QueueTyped /\ StreamTyped /\ RunTyped
  BY TypesOf
<1>2. /\ isStreaming /\ isStreaming' = FALSE /\ sendInFlight' = sendInFlight
      /\ UNCHANGED <<view, active, bg, resuming, checks, streamSid, polls>>
      /\ run' = Killed(current)
  BY DEF StopStream
<1>3. AllKept
  BY <1>1, AbortingKeeps DEF StopStream
<1>4. RunTyped' /\ \A j \in Ids : RunMoves(j) /\ (run'[j] = "done" => run[j] = "done")
  BY <1>1, <1>2, KilledRuns
<1>5. NextTyped
  <2>1. ViewTyped'
    BY <1>1, <1>2, SameTypes
  <2>2. StreamTyped'
    BY <1>1, <1>2 DEF StreamTyped
  <2>3. QueueTyped'
    BY <1>1 DEF QueueTyped
  <2> QED BY <1>3, <1>4, <2>1, <2>2, <2>3 DEF NextTyped, AllKept
<1> QED BY <1>2, <1>3, <1>4, <1>5, KeptStep

LEMMA UserStopsStep ==
  ASSUME ChatInv, UserStops
  PROVE  NextTyped /\ StreamStep /\ ViewInv'
<1>1. QueueTyped /\ queue' = queue /\ StopStream
  BY TypesOf DEF UserStops, StopStream
<1>2. timers' \in Timers
  BY <1>1, DrainTyped DEF UserStops, QueueTyped
<1> QED BY <1>1, <1>2, StopStreamStep

LEMMA StaleProbeStep ==
  ASSUME ChatInv, StaleProbe
  PROVE  NextTyped /\ StreamStep /\ ViewInv'
<1>1. /\ TypeOK /\ StreamInv /\ sub \in Subs /\ StreamTyped /\ QueueTyped
  BY TypesOf
<1>2. /\ active' = [active EXCEPT ![current] = None] /\ isStreaming' = FALSE
      /\ sendInFlight' = FALSE /\ timers' = Draining(FALSE, FALSE)
      /\ UNCHANGED <<view, run, bg, resuming, checks, streamSid, queue, polls>>
      /\ sub' = Aborting(active[current])
  BY DEF StaleProbe
<1>3. AllKept
  BY <1>1, <1>2, AbortingKeeps
<1>4. NextTyped
  <2>1. ViewTyped' /\ RunTyped'
    BY <1>1, <1>2, SameTypes
  <2>2. StreamTyped'
    <3>1. None \in 0..MaxSubmissions
      BY BoundsAssumption DEF None
    <3>2. active' \in [Session -> 0..MaxSubmissions]
      BY <1>1, <1>2, <3>1 DEF StreamTyped
    <3> QED BY <1>1, <1>2, <3>2 DEF StreamTyped
  <2>3. QueueTyped'
    BY <1>1, <1>2, DrainTyped
  <2> QED BY <1>3, <2>1, <2>2, <2>3 DEF NextTyped, AllKept
<1>5. \A t \in Session : active'[t] = active[t] \/ active'[t] = None
  BY <1>1, <1>2 DEF StreamTyped
<1>6. queue' # <<>> => timers'.drain
  BY <1>1, <1>2 DEF Draining, QueueTyped, Timers
<1> QED BY <1>2, <1>3, <1>4, <1>5, <1>6, RunsStay, KeptStep

\* A timer that fires while nothing of the streams changes.
LEMMA TimerStep ==
  ASSUME ChatInv, queue' \in Seq(Session), Len(queue') <= MaxQueue, timers' \in Timers,
         UNCHANGED <<view, sub, run, active, bg, resuming, checks, streamSid, composer, polls>>,
         queue' # <<>> => \/ timers'.drain \/ timers'.send # NoSession
                          \/ isStreaming \/ sendInFlight
                          \/ /\ queue # <<>>
                             /\ timers.drain => timers'.drain
                             /\ timers.send # NoSession => timers'.send # NoSession
  PROVE  NextTyped /\ StreamStep /\ ViewInv'
<1>1. /\ TypeOK /\ StreamInv /\ sub \in Subs
  BY TypesOf
<1>2. AllKept
  BY <1>1, UnchangedKeeps
<1>3. NextTyped
  <2>1. ViewTyped' /\ StreamTyped' /\ RunTyped'
    BY <1>1, SameTypes
  <2> QED BY <1>2, <2>1 DEF NextTyped, AllKept, QueueTyped
<1> QED BY <1>2, <1>3, RunsStay, KeptStep DEF composer

LEMMA DrainFiresStep ==
  ASSUME ChatInv, DrainFires
  PROVE  NextTyped /\ StreamStep /\ ViewInv'
<1>1. /\ TypeOK /\ QueueTyped
  BY TypesOf
<1>2. UNCHANGED <<view, sub, run, active, bg, resuming, checks, streamSid, composer, polls>>
  BY DEF DrainFires
<1>3. CASE /\ isStreaming \/ sendInFlight \/ queue = <<>>
           /\ timers' = [timers EXCEPT !.drain = FALSE] /\ queue' = queue
  <2>1. timers' \in Timers
    BY <1>1, <1>3 DEF QueueTyped, Timers
  <2> QED BY <1>1, <1>2, <1>3, <2>1, TimerStep DEF QueueTyped
<1>4. CASE /\ queue # <<>> /\ queue' = Tail(queue)
           /\ timers' = [timers EXCEPT !.drain = FALSE, !.send = Head(queue)]
  <2>1. queue \in Seq(Session) /\ Len(queue) \in Nat
    BY <1>1 DEF QueueTyped
  <2>2. Head(queue) \in Session /\ Tail(queue) \in Seq(Session) /\ Len(Tail(queue)) = Len(queue) - 1
    BY <1>4, <2>1
  <2>3. timers' \in Timers /\ timers'.send # NoSession
    BY <1>1, <1>4, <2>2, SessionAssumption DEF QueueTyped, Timers, NoSession
  <2>4. Len(queue') <= MaxQueue
    BY <1>1, <1>4, <2>1, <2>2, BoundsAssumption DEF QueueTyped
  <2> QED BY <1>2, <1>4, <2>2, <2>3, <2>4, TimerStep
<1> QED BY <1>3, <1>4 DEF DrainFires

-----------------------------------------------------------------------------
(* A send begins, from the composer or from a timer.                        *)

LEMMA SubmitStep ==
  ASSUME ChatInv, NEW typed \in Session, Submit(typed), timers' \in Timers
  PROVE  NextTyped /\ StreamStep /\ ViewInv'
<1>1. /\ TypeOK /\ StreamInv /\ Phases /\ sub \in Subs /\ StreamTyped /\ QueueTyped
  BY TypesOf
<1>2. /\ ~isStreaming /\ isStreaming' = isStreaming /\ sendInFlight' = TRUE
      /\ UNCHANGED <<current, navs, box, run, active, bg, resuming, checks, streamSid, queue, polls>>
  BY DEF Submit, view
<1>3. PICK i \in NextIds :
        sub' = [sub EXCEPT ![i] = [Fresh(typed) EXCEPT !.pc = Sending]]
  BY DEF Submit
<1>4. i \in Ids /\ sub[i].pc = "free" /\ sub[i].sess = NoSession
  BY <1>1 DEF NextIds, Free, Phases, Unbound
<1>5. Becomes(i, Sending, NoSession, FALSE, FALSE)
  BY <1>1, <1>3, <1>4, Begun
<1>6. NextTyped
  <2>1. ViewTyped' /\ RunTyped'
    BY <1>1, <1>2, SameTypes DEF view
  <2>2. StreamTyped' /\ QueueTyped'
    BY <1>1, <1>2 DEF StreamTyped, QueueTyped
  <2> QED BY <1>5, <2>1, <2>2 DEF NextTyped, Becomes
<1>7. LifeStep
  <2>1. Moves(i)
    BY <1>4, <1>5 DEF Moves, Becomes
  <2> QED BY <1>2, <1>4, <1>5, <2>1, RunsKept, OneLife
<1>8. StreamingStep /\ SendingStep /\ QueueStep
  BY <1>2, <1>4, <1>5 DEF StreamingStep, SendingStep, QueueStep, Becomes
<1>9. MarkStep
  BY <1>2, <1>4, <1>5, SessionAssumption DEF MarkStep, Becomes, Reads, NoSession
<1>10. StillStep
  <2>1. Covered(i)
    BY <1>4 DEF Covered, Reading, Closing
  <2> QED BY <1>2, <1>4, <1>5, <2>1, RunsKept, OneStill
         DEF SameBox, Closing, Sending
<1> QED BY <1>6, <1>7, <1>8, <1>9, <1>10, StepKeeps

LEMMA UserSendsStep ==
  ASSUME ChatInv, UserSends
  PROVE  NextTyped /\ StreamStep /\ ViewInv'
<1>1. current \in Session /\ timers \in Timers
  BY TypesOf DEF ViewTyped, QueueTyped
<1> QED BY <1>1, SubmitStep DEF UserSends

LEMMA QueuedSendFiresStep ==
  ASSUME ChatInv, QueuedSendFires
  PROVE  NextTyped /\ StreamStep /\ ViewInv'
<1>1. /\ QueueTyped /\ timers.send \in Session /\ timers \in Timers /\ TypeOK
  BY TypesOf DEF QueuedSendFires, QueueTyped, Timers
<1>2. timers' \in Timers /\ timers'.drain = timers.drain
  BY <1>1 DEF QueuedSendFires, Timers
<1>3. CASE StopStream
  BY <1>2, <1>3, StopStreamStep DEF StopStream
<1>4. CASE Submit(timers.send)
  BY <1>1, <1>2, <1>4, SubmitStep
<1>5. CASE /\ sendInFlight
           /\ UNCHANGED <<view, sub, run, active, bg, resuming, checks, streamSid, composer, queue,
                          polls>>
  BY <1>1, <1>2, <1>5, TimerStep DEF QueueTyped
<1> QED BY <1>3, <1>4, <1>5 DEF QueuedSendFires

-----------------------------------------------------------------------------
(* The endings of a stream.                                                 *)

LEMMA Ended ==
  ASSUME ChatInv, NEW i \in Ids, sub[i].pc \in {Bound} \cup Registered,
         NEW b \in [Session -> Marks], NEW sending \in BOOLEAN, NEW l, NEW u,
         Finally(i, b, sending), sending => sendInFlight,
         Becomes(i, "over", sub[i].sess, l, u), sub[i].unseen => u,
         \A t \in Session : b[t] = "running" => bg[t] = "running",
         b[sub[i].sess] = "running" /\ Reads(i) => l,
         b[current] # "none" => bg[current] # "none",
         UNCHANGED <<current, navs, run, resuming, checks, polls, queue>>,
         timers' \in Timers,
         queue # <<>> => timers'.drain \/ isStreaming' \/ sending,
         box' \in Boxes, SameBox, box.seen \subseteq box'.seen,
         \A j \in box'.seen : j \in box.seen \/ sub[j].sess = current, Covered(i)
  PROVE  NextTyped /\ StreamStep /\ ViewInv'
<1> DEFINE s == sub[i].sess
<1>1. /\ TypeOK /\ StreamInv /\ Phases /\ sub \in Subs /\ StreamTyped /\ QueueTyped /\ ViewTyped
  BY TypesOf
<1>2. s \in Session /\ s # NoSession
  BY <1>1 DEF Phases, Subs, Submission
<1>3. /\ active' = [active EXCEPT ![s] = None] /\ bg' = b
      /\ streamSid' = (IF streamSid = s THEN NoSession ELSE streamSid)
      /\ isStreaming' = (active'[current] # None) /\ sendInFlight' = sending
  BY DEF Finally, Foreground
<1>4. NextTyped
  <2>1. ViewTyped' /\ QueueTyped'
    BY <1>1 DEF ViewTyped, QueueTyped
  <2>2. StreamTyped'
    BY <1>1, FinallyTyped
  <2>3. RunTyped'
    BY <1>1, SameTypes
  <2> QED BY <2>1, <2>2, <2>3 DEF NextTyped, Becomes
<1>5. LifeStep
  <2>1. \A t \in Session : active'[t] = active[t] \/ active'[t] = None
    BY <1>1, <1>3 DEF StreamTyped
  <2>2. Moves(i)
    <3>1. active'[s] = None /\ streamSid' # s
      BY <1>1, <1>2, <1>3 DEF StreamTyped
    <3> QED BY <3>1 DEF Moves, SameSess, Becomes
  <2> QED BY <1>3, <2>1, <2>2, RunsKept, OneLife
<1>6. StreamingStep
  BY <1>3 DEF StreamingStep
<1>7. SendingStep
  BY <1>3 DEF SendingStep, Becomes, Sending, Bound, Registered, Posting, Reading, Closing
<1>8. MarkStep
  BY <1>3 DEF MarkStep, Becomes, Reads
<1>9. QueueStep
  BY <1>3 DEF QueueStep
<1>10. StillStep
  <2>1. \A j \in Ids : Answered(j)
    BY RunsKept
  <2>2. \A j \in Ids \ {i} : Covered(j)
    BY DEF Covered, Becomes
  <2>3. \A j \in Ids : ClosesShown(j)
    BY DEF ClosesShown, Becomes, Closing
  <2> QED BY <1>3, <2>1, <2>2, <2>3 DEF StillStep, Becomes
<1> QED BY <1>4, <1>5, <1>6, <1>7, <1>8, <1>9, <1>10, StepKeeps

\* The queue looks for its drain.
LEMMA Drained ==
  ASSUME QueueTyped, NEW streaming, NEW sending
  PROVE  /\ Draining(streaming, sending) \in Timers
         /\ queue # <<>> => Draining(streaming, sending).drain \/ streaming \/ sending
BY DEF QueueTyped, Draining, Timers

LEMMA UploadFailsStep ==
  ASSUME ChatInv, NEW i \in Ids, UploadFails(i)
  PROVE  NextTyped /\ StreamStep /\ ViewInv'
<1>1. /\ TypeOK /\ StreamInv /\ sub \in Subs /\ StreamTyped /\ QueueTyped /\ ViewTyped
  BY TypesOf
<1>2. /\ sub[i].pc = Bound /\ Finally(i, bg, FALSE) /\ timers' = Draining(isStreaming', FALSE)
      /\ UNCHANGED <<current, navs, run, resuming, checks, queue, polls>>
  BY DEF UploadFails
<1>3. Becomes(i, "over", sub[i].sess, sub[i].left, sub[i].unseen)
  <2>1. "over" \in PCs
    BY DEF PCs
  <2> QED BY <1>1, <2>1, Moved DEF UploadFails
<1>4. box' \in Boxes /\ SameBox /\ box'.seen = box.seen
  BY <1>1 DEF UploadFails, ViewTyped, Boxes, SameBox
<1>5. timers' \in Timers /\ (queue # <<>> => timers'.drain \/ isStreaming' \/ FALSE)
  BY <1>1, <1>2 DEF Draining, QueueTyped, Timers
<1>6. Covered(i) /\ (Reads(i) => sub[i].left)
  BY <1>2, PcsDiffer DEF Covered, Reads, Registered
<1>7. bg \in [Session -> Marks]
  BY <1>1 DEF StreamTyped
<1> QED BY <1>2, <1>3, <1>4, <1>5, <1>6, <1>7, Ended

LEMMA RefusedStep ==
  ASSUME ChatInv, NEW i \in Ids, Refused(i)
  PROVE  NextTyped /\ StreamStep /\ ViewInv'
<1>1. /\ TypeOK /\ StreamInv /\ sub \in Subs /\ StreamTyped /\ QueueTyped /\ ViewTyped
  BY TypesOf
<1> DEFINE l == bg[sub[i].sess] = "running"
<1>2. /\ sub[i].pc = Posting /\ Finally(i, bg, sendInFlight)
      /\ timers' = Draining(isStreaming', sendInFlight)
      /\ UNCHANGED <<current, navs, box, run, resuming, checks, queue, polls>>
      /\ sub' = [sub EXCEPT ![i].pc = "over", ![i].left = l]
  BY DEF Refused, view
<1>3. Becomes(i, "over", sub[i].sess, l, sub[i].unseen)
  <2>1. "over" \in PCs /\ l \in BOOLEAN
    BY DEF PCs
  <2> HIDE DEF l
  <2> QED BY <1>1, <1>2, <2>1, MovedLeft
<1>4. SameBox
  BY <1>2 DEF SameBox
<1>5. timers' \in Timers /\ (queue # <<>> => timers'.drain \/ isStreaming' \/ sendInFlight)
  BY <1>1, <1>2, Drained
<1>6. Covered(i)
  BY <1>2, PcsDiffer DEF Covered
<1>7. bg \in [Session -> Marks] /\ box \in Boxes /\ sendInFlight \in BOOLEAN
  BY <1>1 DEF StreamTyped, ViewTyped
<1>8. sub[i].pc \in {Bound} \cup Registered
  BY <1>2 DEF Registered
<1> QED BY <1>2, <1>3, <1>4, <1>5, <1>6, <1>7, <1>8, Ended

\* A background stream of the conversation on screen is polled, unless the page was
\* left as it was.
LEMMA MarkPolled ==
  ASSUME ChatInv, NEW i \in Ids, sub[i].sess = current, ~Elsewhere, InBackground(i)
  PROVE  box.kept \/ <<current, "local">> \in polls
BY DEF ChatInv, ViewInv, MarksPolled, InBackground, Away

LEMMA CloseStep ==
  ASSUME ChatInv, NEW i \in Ids, Close(i)
  PROVE  NextTyped /\ StreamStep /\ ViewInv'
<1>1. /\ TypeOK /\ StreamInv /\ sub \in Subs /\ StreamTyped /\ QueueTyped /\ ViewTyped /\ Phases
     
  BY TypesOf
<1> DEFINE shown == ~InBackground(i)
           l == bg[sub[i].sess] = "running"
           u == sub[i].unseen \/ (shown /\ i \notin box.live)
<1>2. /\ sub[i].pc = Closing /\ Finally(i, bg, sendInFlight)
      /\ timers' = Draining(isStreaming', sendInFlight)
      /\ UNCHANGED <<current, navs, run, resuming, checks, queue, polls>>
      /\ box' = [box EXCEPT !.seen = IF shown THEN box.seen \cup (box.live \cap {i}) ELSE box.seen]
  BY DEF Close
<1>3. Becomes(i, "over", sub[i].sess, l, u)
  <2>1. "over" \in PCs /\ l \in BOOLEAN /\ u \in BOOLEAN
    BY <1>1 DEF PCs, Subs, Submission
  <2>2. sub' = [sub EXCEPT ![i].pc = "over", ![i].unseen = u, ![i].left = l]
    BY <1>1 DEF Close, Subs, Submission
  <2> HIDE DEF l, u
  <2> QED BY <1>1, <2>1, <2>2, MovedUnseen
<1>5. timers' \in Timers /\ (queue # <<>> => timers'.drain \/ isStreaming' \/ sendInFlight)
  BY <1>1, <1>2, Drained
<1>6. /\ box' \in Boxes /\ SameBox
      /\ box'.seen = IF shown THEN box.seen \cup (box.live \cap {i}) ELSE box.seen
  BY <1>1, <1>2 DEF ViewTyped, Boxes, SameBox
<1>7. run[i] = "done"
  BY <1>1, <1>2 DEF Phases
<1>8. Covered(i)
  <2> SUFFICES ASSUME sub[i].sess = current, Alone(i), ~Elsewhere
               PROVE  u \/ <<current, "local">> \in polls \/ i \in box'.seen
    BY <1>2, <1>3, <1>7 DEF Covered, Becomes
  <2>1. CASE shown
    BY <1>6, <2>1
  <2>2. CASE ~shown
    <3>1. box.kept => bg[current] = "none"
      BY <1>2 DEF ChatInv, ViewInv, KeptClosing
    <3> QED BY <2>2, <3>1, MarkPolled DEF InBackground, Away
  <2> QED BY <2>1, <2>2
<1>9. shown => sub[i].sess = current
  BY DEF InBackground, Away
<1>10. bg \in [Session -> Marks] /\ sendInFlight \in BOOLEAN
  BY <1>1 DEF StreamTyped
<1>11. sub[i].pc \in {Bound} \cup Registered
  BY <1>2 DEF Registered
<1>12. sub[i].unseen => u
  OBVIOUS
<1>13. \A j \in box'.seen : j \in box.seen \/ sub[j].sess = current
  BY <1>6, <1>9
<1>14. box.seen \subseteq box'.seen /\ (bg[sub[i].sess] = "running" => l)
  BY <1>6
<1> HIDE DEF u, l, shown
<1> QED BY <1>2, <1>3, <1>5, <1>6, <1>8, <1>10, <1>11, <1>12, <1>13, <1>14, Ended

LEMMA ThrowsStep ==
  ASSUME ChatInv, NEW i \in Ids, Throws(i)
  PROVE  NextTyped /\ StreamStep /\ ViewInv'
<1>1. /\ TypeOK /\ StreamInv /\ sub \in Subs /\ StreamTyped /\ QueueTyped /\ ViewTyped /\ Phases
     
  BY TypesOf
<1> DEFINE s == sub[i].sess
           u == sub[i].unseen \/ ~InBackground(i) \/ (~Away(i) /\ box.kept)
           b == [bg EXCEPT ![s] = FailedMark(bg[s])]
<1>2. /\ sub[i].pc \in Registered /\ Finally(i, b, sendInFlight)
      /\ timers' = Draining(isStreaming', sendInFlight)
      /\ UNCHANGED <<current, navs, box, run, resuming, checks, queue, polls>>
  BY DEF Throws, view
<1>3. s \in Session
  BY <1>1, <1>2 DEF Phases, Subs, Submission
<1>4. Becomes(i, "over", s, sub[i].left, u)
  <2>1. "over" \in PCs /\ sub[i].left \in BOOLEAN /\ u \in BOOLEAN
    BY <1>1 DEF PCs, Subs, Submission, ViewTyped, Boxes
  <2>2. sub' = [sub EXCEPT ![i].pc = "over", ![i].unseen = u, ![i].left = sub[i].left]
    BY <1>1 DEF Throws, Subs, Submission
  <2> HIDE DEF u
  <2> QED BY <1>1, <2>1, <2>2, MovedUnseen
<1>5. SameBox
  BY <1>2 DEF SameBox
<1>6. timers' \in Timers /\ (queue # <<>> => timers'.drain \/ isStreaming' \/ sendInFlight)
  BY <1>1, <1>2, Drained
<1>7. /\ b \in [Session -> Marks] /\ b[s] # "running"
      /\ \A t \in Session : b[t] = "running" => bg[t] = "running"
      /\ b[current] # "none" => bg[current] # "none"
  BY <1>1, <1>3 DEF StreamTyped, ViewTyped, FailedMark, Marks
<1>8. Covered(i)
  BY <1>4, MarkPolled DEF Covered, Becomes, Away
<1>9. sendInFlight \in BOOLEAN /\ box \in Boxes /\ sub[i].pc \in {Bound} \cup Registered
  BY <1>1, <1>2 DEF StreamTyped, ViewTyped
<1>10. sub[i].unseen => u
  OBVIOUS
<1> HIDE DEF b, u
<1> QED BY <1>2, <1>4, <1>5, <1>6, <1>7, <1>8, <1>9, <1>10, Ended

-----------------------------------------------------------------------------
(* The invariant is one.                                                    *)

LEMMA InitChat == ASSUME Init PROVE ChatInv
<1>1. TypeOK
  BY InitTyped
<1>2. /\ \A i \in Ids : sub[i].pc = "free" /\ sub[i].sess = NoSession /\ run[i] = "none"
      /\ \A s \in Session : active[s] = None /\ bg[s] = "none" /\ resuming[s] = None
      /\ streamSid = NoSession /\ ~sendInFlight /\ ~isStreaming /\ queue = <<>> /\ navs = {}
      /\ box.owner = current /\ box.seen = {} /\ ~box.timer /\ ~box.kept /\ current \in Session
  BY DEF Init, Fresh, Clean
<1>3. StreamInv
  BY <1>1, <1>2 DEF StreamInv, Phases, BoundStream, SendUnderWay, StopMeansStream,
     BackgroundHasReader, QueueHasDrain, Registered, Bound, Posting, Reading, Closing
<1>4. ViewInv
  BY <1>2, SessionAssumption DEF ViewInv, NavsOpen, ResumedRuns, TimerOpening, MarksPolled,
     KeptClosing, AnswersFound, ShowsCurrentOnly, NoSession
<1> QED BY <1>3, <1>4 DEF ChatInv

LEMMA TypesJoin == ASSUME NextTyped, BoundsTyped', ActiveReads' PROVE TypeOK'
BY DEF NextTyped, TypeOK, Subs, Submission, ViewTyped, Navs, StreamTyped, Marks, RunTyped,
       QueueTyped, Timers, BoundsTyped

LEMMA StepChat == ASSUME ChatInv, [Next]_vars PROVE ChatInv'
<1>1. ASSUME BoundsTyped', NextTyped /\ StreamStep /\ ViewInv'
      PROVE  ChatInv'
  <2>1. ActiveReads'
    BY <1>1, LifeKept DEF ChatInv, StreamStep
  <2>2. TypeOK'
    BY <1>1, <2>1, TypesJoin
  <2> QED BY <1>1, <2>2, StreamKept DEF ChatInv
<1>2. BoundsTyped
  BY TypesSplit DEF ChatInv, StreamInv
<1>3. CASE UserStep
  <2>1. BoundsTyped'
    BY <1>2, <1>3, BoundsAssumption DEF BoundsTyped, UserStep
  <2>2. NextTyped /\ StreamStep /\ ViewInv'
    BY <1>3, ClickStep, UserSendsStep, QueueRequestStep, UserStopsStep, SendAbandonedStep
       DEF UserStep
  <2> QED BY <1>1, <2>1, <2>2
<1>4. CASE FaultStep
  <2>1. BoundsTyped'
    BY <1>2, <1>4, BoundsAssumption DEF BoundsTyped, FaultStep
  <2>2. NextTyped /\ StreamStep /\ ViewInv'
    BY <1>4, HistoryFailsStep, ResumeLostStep, UploadFailsStep, RefusedStep, ThrowsStep,
       ResponseTimeoutStep DEF FaultStep, ConnectionLost
  <2> QED BY <1>1, <2>1, <2>2
<1>5. CASE PageStep
  <2>1. BoundsTyped'
    BY <1>2, <1>5 DEF BoundsTyped, PageStep, bounds
  <2>2. CASE \E n \in navs : HistoryArrives(n) \/ HistoryRendered(n)
    BY <1>1, <2>1, <2>2, HistoryArrivesStep, HistoryRenderedStep
  <2>3. CASE \E s \in Session : ServerChecked(s) \/ ResumeEnds(s)
    BY <1>1, <2>1, <2>3, ServerCheckedStep, ResumeEndsStep
  <2>4. CASE \E p \in polls : Poll(p)
    BY <1>1, <2>1, <2>4, PollStep
  <2>5. CASE \E i \in Ids : HandOver(i) \/ Capture(i) \/ Register(i) \/ Posted(i)
    BY <1>1, <2>1, <2>5, HandOverStep, CaptureStep, RegisterStep, PostedStep
  <2>6. CASE \E i \in Ids : FirstBackgroundEvent(i) \/ ReadDone(i) \/ Close(i) \/ ReaderEnds(i)
    BY <1>1, <2>1, <2>6, FirstBackgroundEventStep, ReadDoneStep, CloseStep, ThrowsStep
       DEF ReaderEnds
  <2>7. CASE LoadingPainted \/ DrainFires \/ QueuedSendFires \/ StaleProbe
    BY <1>1, <2>1, <2>7, LoadingPaintedStep, DrainFiresStep, QueuedSendFiresStep, StaleProbeStep
  <2>8. CASE \E i \in Ids : RunEnds(i)
    BY <1>1, <2>1, <2>8, RunEndsStep
  <2> QED BY <1>5, <2>2, <2>3, <2>4, <2>5, <2>6, <2>7, <2>8 DEF PageStep
<1>6. CASE UNCHANGED vars
  <2>1. UNCHANGED <<steps, faults, current, navs, box, sub, run, active, bg, resuming, checks,
                    streamSid, isStreaming, sendInFlight, queue, timers, polls>>
    BY <1>6 DEF vars, composer
  <2>2. BoundsTyped'
    BY <1>2, <2>1 DEF BoundsTyped
  <2>3. QueueTyped
    BY TypesOf
  <2>4. NextTyped /\ StreamStep /\ ViewInv'
    BY <2>1, <2>3, TimerStep DEF QueueTyped, view, composer
  <2> QED BY <1>1, <2>2, <2>4
<1> QED BY <1>3, <1>4, <1>5, <1>6 DEF Next

THEOREM ChatKept == Spec => []ChatInv
BY InitChat, StepChat, PTL DEF Spec

\* Every variable of the page keeps its type, and a stream in the table of active
\* ones belongs to that conversation and has a reader that is alive, also when the
\* user is elsewhere while it ends.
THEOREM ChatTyped == Spec => []TypeOK
<1>1. ChatInv => TypeOK
  BY DEF ChatInv, StreamInv
<1> QED BY <1>1, ChatKept, PTL

\* selectSession and the streams: outside an opening, a failed opening and one whose
\* guard left the page as it was, the page shows the current conversation only,
\* however late a history arrives and whatever is streamed.
THEOREM CurrentOnlyShown == Spec => []ShowsCurrentOnly
<1>1. ChatInv => ShowsCurrentOnly
  BY DEF ChatInv, ViewInv
<1> QED BY <1>1, ChatKept, PTL

\* checkBackgroundStream, _checkServerStream and resumeStream between them: at
\* rest, the saved answer of the conversation on screen is shown or marked.
THEOREM AnswersReachScreen == Spec => []AnswersShown
<1>1. ChatInv => AnswersShown
  <2> SUFFICES ASSUME ChatInv, Quiet, ~box.broken, NEW i \in History(current), Alone(i)
               PROVE  i \in box.seen \/ sub[i].unseen
    BY DEF AnswersShown
  <2>1. ~Elsewhere /\ resuming[current] # i /\ sub[i].pc \notin {Reading, Closing}
        /\ i \in Ids /\ sub[i].sess = current /\ run[i] = "done"
    BY TypesOf DEF Elsewhere, Opening, Quiet, ViewTyped, History, Ids, None, Reading, Closing
  <2>2. Reported(i) \/ i \in box.seen
    BY <2>1 DEF ChatInv, ViewInv, AnswersFound
  <2> QED BY <2>1, <2>2 DEF Reported, Quiet
<1> QED BY <1>1, ChatKept, PTL

\* handleChatSubmit and its finally block: the composer says "stop" only while
\* there is something to stop, so it is never locked.
THEOREM StopIsStream == Spec => []StopMeansStream
<1>1. ChatInv => StopMeansStream
  BY DEF ChatInv, StreamInv
<1> QED BY <1>1, ChatKept, PTL

\* detachCurrentStream and the readers: what is kept as streaming in the
\* background has a reader, or one that ended without looking at the table.
THEOREM BackgroundRead == Spec => []BackgroundHasReader
<1>1. ChatInv => BackgroundHasReader
  BY DEF ChatInv, StreamInv
<1> QED BY <1>1, ChatKept, PTL

\* _drainQueuedAgentRequests: a queued request has a timer or a submission left
\* that leads to its being sent, except after a send given up half way.
THEOREM QueueDrained == Spec => []QueueHasDrain
<1>1. ChatInv => QueueHasDrain
  BY DEF ChatInv, StreamInv
<1> QED BY <1>1, ChatKept, PTL
=============================================================================
