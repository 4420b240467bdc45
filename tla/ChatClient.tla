------------------------------ MODULE ChatClient ------------------------------
(***************************************************************************)
(* The chat page of the browser front end: static/js/chat.js (sending,     *)
(* reading the event stream, queueing, stopping, detaching)                *)
(* and the navigation of static/js/sessions.js (selectSession).            *)
(*                                                                         *)
(* A submission is one call of handleChatSubmit that got past the re-click *)
(* guard.  JavaScript runs one callback at a time, so an action is the     *)
(* code between two awaits; the user, the network and the timers act in    *)
(* between.  Of the DOM only #chat-history is modelled: whose history it   *)
(* was rendered from, which answers it shows, which bubbles of requests    *)
(* and replies of live streams are still in it, and whether anything is.   *)
(* A stream that dies in the foreground is never recovered: the catch      *)
(* block refers to constants of the try block, so that it ends in a        *)
(* ReferenceError before it gets to _tryAutoRecover.                       *)
(***************************************************************************)
EXTENDS Naturals, Sequences, FiniteSets

CONSTANTS Session,        \* the conversations in the sidebar
          Blank,          \* those without a message when the page is opened
          MaxSubmissions, \* calls of handleChatSubmit that send something
          MaxSteps,       \* things the user does
          MaxFaults,      \* requests and connections that fail
          MaxQueue        \* requests queued at the same time

ASSUME SessionAssumption == Session # {} /\ "none" \notin Session /\ Blank \subseteq Session
ASSUME BoundsAssumption ==
  MaxSubmissions \in Nat \ {0} /\ MaxSteps \in Nat /\ MaxFaults \in Nat /\ MaxQueue \in Nat

VARIABLES
  current,      \* currentSessionId
  steps, faults, \* so far
  navs,         \* calls of selectSession that await history or the fade
  box,          \* #chat-history
  sub,          \* the submissions
  run,          \* their runs on the server
  active,       \* _activeStreams
  bg,           \* _backgroundStreams
  resuming,     \* _resumingStreams: the run each resumeStream reader replays
  checks,       \* conversations _checkServerStream asks the server about
  streamSid,    \* _streamSessionId
  isStreaming, sendInFlight,
  queue,        \* _queuedAgentRequests: the conversation each was typed in
  timers,       \* armed timers
  polls         \* spinners that wait for a local stream or for the server's run

vars == <<steps, faults, current, navs, box, sub, run, active, bg, resuming, checks, streamSid,
          isStreaming, sendInFlight, queue, timers, polls>>
view == <<current, navs, box>>
bounds == <<steps, faults>>
composer == <<isStreaming, sendInFlight>>

Ids == 1..MaxSubmissions
None == 0            \* no submission; submissions are numbered from 1
NoSession == "none"  \* a submission that is not bound to a conversation yet

\* The program counter of a submission: which await it is at.
Sending  == "sending"   \* awaits before the composer is handed over
Starting == "starting"  \* await of a pending model switch
Bound    == "bound"     \* conversation captured; uploads and document save
Posting  == "posting"   \* registered; POST /api/chat_stream
Reading  == "reading"   \* reader.read()
Closing  == "closing"   \* [DONE] seen, next reader.read()
PCs == {"free", Sending, Starting, Bound, Posting, Reading, Closing, "over"}
Registered == {Posting, Reading, Closing}
InFlight == {Sending, Starting, Bound} \cup Registered

\* A call of selectSession: whether a later one has begun, whether its history has
\* come, and whether it reopens the conversation that was current.
Openings == [sess : Session, latest : BOOLEAN, fetched : BOOLEAN, again : BOOLEAN,
             empty : BOOLEAN, hist : SUBSET Ids]

\* #chat-history: whose it is, the answers it shows, the reply and the user
\* bubbles put there by submissions, and what else is a message in it.
Boxes == [owner : Session, seen : SUBSET Ids, live : SUBSET Ids, asked : SUBSET Ids,
          msgs : SUBSET {"history", "notice", "spinner"},
          timer : BOOLEAN,  \* the latest opening may still paint "Loading chat"
          loader : BOOLEAN, \* it is painted
          broken : BOOLEAN, \* the latest opening has failed, or an older one late
          kept : BOOLEAN]   \* the latest opening left what was there

\* A registered stream is one of its conversation, and its reader is alive.
ActiveReads ==
  \A s \in Session : active[s] # None =>
    sub[active[s]].sess = s /\ sub[active[s]].pc \in Registered

TypeOK ==
  /\ current \in Session /\ steps \in 0..MaxSteps /\ faults \in 0..MaxFaults
  /\ navs \subseteq Openings /\ box \in Boxes
  /\ sub \in [Ids -> [pc : PCs, typed : Session, sess : Session \cup {NoSession},
                      aborted : BOOLEAN, left : BOOLEAN, unseen : BOOLEAN]]
  /\ run \in [Ids -> {"none", "running", "done", "dead"}]
  /\ active \in [Session -> 0..MaxSubmissions]
  /\ bg \in [Session -> {"none", "running", "completed", "error"}]
  /\ resuming \in [Session -> 0..MaxSubmissions] /\ checks \subseteq Session
  /\ polls \subseteq Session \X {"local", "server"}
  /\ streamSid \in Session \cup {NoSession}
  /\ isStreaming \in BOOLEAN /\ sendInFlight \in BOOLEAN
  /\ queue \in Seq(Session) /\ Len(queue) <= MaxQueue
  /\ timers \in [drain : BOOLEAN, send : Session \cup {NoSession}]
  /\ ActiveReads

Fresh(s) == [pc |-> "free", typed |-> s, sess |-> NoSession,
             aborted |-> FALSE, left |-> FALSE, unseen |-> FALSE]

\* #chat-history emptied for s; msgs is what is put there instead.
Clean(s, msgs) ==
  [owner |-> s, seen |-> {}, live |-> {}, asked |-> {}, msgs |-> msgs, timer |-> FALSE,
   loader |-> FALSE, broken |-> FALSE, kept |-> FALSE]
OldMessages(empty) == IF empty THEN {} ELSE {"history"}

Init ==
  /\ current \in Session /\ steps = 0 /\ faults = 0 /\ navs = {}
  /\ box = Clean(current, OldMessages(current \in Blank))
  /\ sub = [i \in Ids |-> Fresh(current)]
  /\ run = [i \in Ids |-> "none"]
  /\ active = [s \in Session |-> None] /\ bg = [s \in Session |-> "none"]
  /\ resuming = [s \in Session |-> None] /\ checks = {} /\ polls = {} /\ streamSid = NoSession
  /\ isStreaming = FALSE /\ sendInFlight = FALSE
  /\ queue = <<>>
  /\ timers = [drain |-> FALSE, send |-> NoSession]

-----------------------------------------------------------------------------
(* The server, as far as the page can tell: one run per conversation, a     *)
(* newer request replaces the older, and the answer is saved before [DONE]  *)
(* is sent (module AgentRuns).                                              *)

History(s) == {i \in Ids : sub[i].sess = s /\ run[i] = "done"}
\* The user's message is saved when the request arrives.
HistoryEmpty(s) == s \in Blank /\ \A i \in Ids : sub[i].sess = s => run[i] = "none"
RunsOf(s) == {i \in Ids : sub[i].sess = s /\ run[i] = "running"}
Killed(s) == [i \in Ids |-> IF i \in RunsOf(s) THEN "dead" ELSE run[i]]

RunEnds(i) ==
  /\ run[i] = "running"
  /\ run' = [run EXCEPT ![i] = "done"]
  /\ sub' = [sub EXCEPT ![i].unseen = @ \/ sub[i].sess \in checks \/
                                     \E n \in navs : n.fetched /\ n.sess = sub[i].sess]
  /\ UNCHANGED <<view, active, bg, resuming, checks, streamSid, composer, queue, timers,
                 polls>>

-----------------------------------------------------------------------------
(* Helpers of chat.js.                                                      *)

HasActiveStream(s) == active[s] # None \/ streamSid = s \/ bg[s] # "none" \/ resuming[s] # None

\* abortCurrentRequest(): the stream of the conversation that is current now.
Aborting(i) == IF i = None THEN sub ELSE [sub EXCEPT ![i].aborted = TRUE]

\* _syncForegroundStreamGlobals: isStreaming with the active streams as act.
StaleForeground(act) == isStreaming
Foreground(act) == act[current] # None

\* _drainQueuedAgentRequests, given what the step makes of the composer.
DrainingBefore(streaming, sending) ==
  IF isStreaming \/ sending \/ queue = <<>> THEN timers ELSE [timers EXCEPT !.drain = TRUE]
Draining(streaming, sending) ==
  IF streaming \/ sending \/ queue = <<>> THEN timers ELSE [timers EXCEPT !.drain = TRUE]

\* selectSession up to its first await, with #chat-history as x and the table of
\* background streams as b.  The previous conversation's stream is detached only after current
\* has changed: without one, detachCurrentStream falls through to
\* abortCurrentRequest, which looks at the conversation that is current now.
SelectSession(x, s, b) ==
  LET prev == current
  IN /\ current' = s
     /\ navs' = {[n EXCEPT !.latest = FALSE] : n \in navs}
                  \cup {[sess |-> s, latest |-> TRUE, fetched |-> FALSE, again |-> s = prev,
                         empty |-> FALSE, hist |-> {}]}
     /\ box' = [x EXCEPT !.broken = FALSE, !.kept = FALSE, !.timer = s # prev]
     /\ \/ /\ active[prev] # None
           /\ bg' = [b EXCEPT ![prev] = "running"]
           /\ streamSid' = IF streamSid = prev THEN NoSession ELSE streamSid
           /\ isStreaming' = FALSE
           /\ UNCHANGED sub
        \/ /\ active[prev] = None
           /\ sub' = Aborting(active[s])
           /\ bg' = b
           /\ UNCHANGED <<streamSid, isStreaming>>

-----------------------------------------------------------------------------
(* Opening a conversation.                                                  *)

Click(s) ==
  /\ SelectSession(box, s, bg)
  /\ UNCHANGED <<run, active, resuming, checks, sendInFlight, queue, timers, polls>>

\* navToken === _sessionNavToken.
AnyIsCurrent(n) == TRUE
IsCurrent(n) == n.latest

\* The guard wouldWipe: an empty history of the conversation that was current
\* already, with messages in #chat-history, is taken for one that was not saved.
HasMessages == box.msgs # {} \/ box.asked # {} \/ box.live # {}
WouldWipe(n) == n.again /\ HasMessages /\ HistoryEmpty(n.sess)

\* GET /api/history answers; a stale call returns here, and so does one that
\* would wipe, without a look at the streams of the conversation.
HistoryArrives(n) ==
  /\ ~n.fetched
  /\ \/ /\ ~IsCurrent(n)
        /\ navs' = navs \ {n} /\ UNCHANGED box
     \/ /\ IsCurrent(n) /\ WouldWipe(n)
        /\ navs' = navs \ {n}
        /\ box' = [box EXCEPT !.timer = FALSE, !.kept = TRUE]
     \/ /\ IsCurrent(n) /\ ~WouldWipe(n)
        /\ navs' = (navs \ {n}) \cup
             {[n EXCEPT !.fetched = TRUE, !.empty = HistoryEmpty(n.sess), !.hist = History(n.sess)]}
        /\ box' = [box EXCEPT !.timer = FALSE]
  /\ UNCHANGED <<current, sub, run, active, bg, resuming, checks, streamSid, composer,
                 queue, timers, polls>>

\* The history takes long: "Loading chat" replaces what is there.  A request that
\* failed does not stop this timer.
LoadingPainted ==
  /\ box.timer
  /\ box' = [Clean(current, {}) EXCEPT !.loader = TRUE, !.broken = box.broken]
  /\ UNCHANGED <<current, navs, sub, run, active, bg, resuming, checks, streamSid, composer,
                 queue, timers, polls>>

\* Whichever call fails, a painted "Loading chat" gives way to the notice.
HistoryFails(n) ==
  /\ ~n.fetched
  /\ navs' = navs \ {n}
  /\ box' = [IF box.loader
             THEN [Clean(box.owner, {"notice"}) EXCEPT !.timer = box.timer, !.kept = box.kept]
             ELSE box EXCEPT !.broken = box.broken \/ n.latest \/ box.loader]
  /\ UNCHANGED <<current, sub, run, active, bg, resuming, checks, streamSid, composer,
                 queue, timers, polls>>

\* checkBackgroundStream: a running stream gets a spinner that polls the table.
NoLocalPolls(s) == {}
LocalPolls(s) == IF bg[s] = "running" THEN {<<s, "local">>} ELSE {}

NoticeOf(s) == CASE bg[s] = "running" -> {"spinner"}
                 [] bg[s] = "error" -> {"notice"}
                 [] OTHER -> {}

\* The old history is replaced, then checkBackgroundStream and _checkServerStream.
HistoryRendered(n) ==
  LET s == n.sess
  IN /\ n.fetched
     /\ navs' = navs \ {n}
     /\ IF IsCurrent(n)
        THEN /\ box' = [Clean(s, OldMessages(n.empty) \cup NoticeOf(s)) EXCEPT !.seen = n.hist]
             /\ bg' = [bg EXCEPT ![s] = IF @ = "running" THEN @ ELSE "none"]
             /\ polls' = polls \cup LocalPolls(s)
             /\ checks' = IF \/ active[s] # None \/ streamSid = s \/ bg[s] = "running"
                             \/ resuming[s] # None
                          THEN checks ELSE checks \cup {s}
        ELSE UNCHANGED <<box, bg, polls, checks>>
     /\ UNCHANGED <<current, sub, run, active, resuming, streamSid, composer, queue,
                    timers>>

\* Nothing runs; or resumeStream attaches to the run; or it does not and a
\* spinner polls the server.
ServerChecked(s) ==
  /\ s \in checks
  /\ checks' = checks \ {s}
  /\ \/ /\ RunsOf(s) = {}
        /\ UNCHANGED <<resuming, polls>>
     \/ /\ ~HasActiveStream(s)
        /\ \E i \in RunsOf(s) : resuming' = [resuming EXCEPT ![s] = i]
        /\ UNCHANGED polls
     \/ /\ RunsOf(s) # {}
        /\ polls' = polls \cup {<<s, "server">>}
        /\ UNCHANGED resuming
  /\ UNCHANGED <<view, sub, run, active, bg, streamSid, composer, queue, timers>>

\* The reader of resumeStream notices that the user has left, or its run has
\* ended: a plain answer is put in place, a rich one reloads the conversation.
ResumeEnds(s) ==
  LET i == resuming[s]
  IN /\ i # None
     /\ resuming' = [resuming EXCEPT ![s] = None]
     /\ \/ /\ current # s
           /\ UNCHANGED <<view, sub, bg, streamSid, isStreaming>>
        \/ /\ current = s /\ run[i] # "running"
           /\ box' = [box EXCEPT !.seen = @ \cup (History(s) \cap {i})]
           /\ UNCHANGED <<current, navs, sub, bg, streamSid, isStreaming>>
        \/ /\ current = s /\ run[i] # "running"
           /\ SelectSession(box, s, bg)
     /\ UNCHANGED <<run, active, checks, sendInFlight, queue, timers, polls>>

ResumeLost(s) ==
  /\ resuming[s] # None /\ current = s
  /\ resuming' = [resuming EXCEPT ![s] = None]
  /\ SelectSession(box, s, bg)
  /\ UNCHANGED <<run, active, checks, sendInFlight, queue, timers, polls>>

Finished(p) ==
  IF p[2] = "local" THEN bg[p[1]] # "running" ELSE RunsOf(p[1]) = {}

\* The spinner goes; selectSession still finds what it replaced.
Unspun(b, s) == IF b.owner = s THEN [b EXCEPT !.msgs = @ \ {"spinner"}] ELSE b

Poll(p) ==
  /\ p \in polls
  /\ polls' = polls \ {p}
  /\ \/ /\ current # p[1]
        /\ box' = Unspun(box, p[1])
        /\ UNCHANGED <<current, navs, sub, bg, streamSid, isStreaming>>
     \/ /\ current = p[1] /\ Finished(p)
        /\ SelectSession(Unspun(box, p[1]), p[1],
                         IF p[2] = "local" THEN [bg EXCEPT ![p[1]] = "none"] ELSE bg)
     /\ UNCHANGED <<run, active, resuming, checks, sendInFlight, queue, timers>>

-----------------------------------------------------------------------------
(* Sending: handleChatSubmit.                                               *)

Free == {i \in Ids : sub[i].pc = "free"}
NextIds == {i \in Free : \A j \in Free : i <= j}   \* none once all are used (bound)

\* From the click to the first await: the re-click guard is set.
Submit(typed) ==
  /\ ~isStreaming /\ ~sendInFlight
  /\ \E i \in NextIds :
       sub' = [sub EXCEPT ![i] = [Fresh(typed) EXCEPT !.pc = Sending]]
  /\ sendInFlight' = TRUE
  /\ UNCHANGED <<view, run, active, bg, resuming, checks, streamSid, isStreaming, queue,
                 polls>>

UserSends == Submit(current) /\ UNCHANGED timers

\* _releaseSendFlag: a confirmation is declined, a command was run instead.
SendAbandoned(i) ==
  /\ sub[i].pc = Sending
  /\ sub' = [sub EXCEPT ![i].pc = "over"]
  /\ sendInFlight' = FALSE
  /\ isStreaming' = Foreground(active)
  /\ UNCHANGED <<view, run, active, bg, resuming, checks, streamSid, queue, timers, polls>>

\* The composer is handed over; a model switch may still be pending.
HandOver(i) ==
  /\ sub[i].pc = Sending
  /\ sub' = [sub EXCEPT ![i].pc = Starting]
  /\ isStreaming' = TRUE /\ sendInFlight' = FALSE
  /\ UNCHANGED <<view, run, active, bg, resuming, checks, streamSid, queue, timers, polls>>

\* The conversation is captured and the user's bubble put on the page.
Capture(i) ==
  /\ sub[i].pc = Starting
  /\ sub' = [sub EXCEPT ![i].pc = Bound, ![i].sess = current]
  /\ streamSid' = current
  /\ box' = [box EXCEPT !.asked = @ \cup {i}]
  /\ UNCHANGED <<current, navs, run, active, bg, resuming, checks, composer, queue, timers,
                 polls>>

\* The uploads are done: the stream is registered and its bubble appended to
\* whatever #chat-history shows by now.
Register(i) ==
  LET act == [active EXCEPT ![sub[i].sess] = i]
  IN /\ sub[i].pc = Bound
     /\ sub' = [sub EXCEPT ![i].pc = Posting]
     /\ active' = act
     /\ isStreaming' = Foreground(act)
     /\ box' = [box EXCEPT !.live = @ \cup {i}]
     /\ UNCHANGED <<current, navs, run, bg, resuming, checks, streamSid, sendInFlight,
                    queue, timers, polls>>

\* Mutant: only a conversation on screen is cleaned up.
FinallyOnScreen(i, b, sending) ==
  LET s == sub[i].sess
      act == IF current = s THEN [active EXCEPT ![s] = None] ELSE active
  IN /\ active' = act
     /\ bg' = b
     /\ streamSid' = IF streamSid = s THEN NoSession ELSE streamSid
     /\ isStreaming' = Foreground(act)
     /\ sendInFlight' = sending
\* The finally block, with the table of background streams as b.
Finally(i, b, sending) ==
  LET s == sub[i].sess
      act == [active EXCEPT ![s] = None]
  IN /\ active' = act
     /\ bg' = b
     /\ streamSid' = IF streamSid = s THEN NoSession ELSE streamSid
     /\ isStreaming' = Foreground(act)
     /\ sendInFlight' = sending

UploadFails(i) ==
  /\ sub[i].pc = Bound
  /\ Finally(i, bg, FALSE)
  /\ sub' = [sub EXCEPT ![i].pc = "over"]
  /\ box' = [box EXCEPT !.asked = @ \ {i}]
  /\ timers' = Draining(isStreaming', FALSE)
  /\ UNCHANGED <<current, navs, run, resuming, checks, queue, polls>>

\* The request reaches the server: its run replaces the conversation's older one.
Posted(i) ==
  /\ sub[i].pc = Posting
  /\ sub' = [sub EXCEPT ![i].pc = Reading]
  /\ run' = [Killed(sub[i].sess) EXCEPT ![i] = "running"]
  /\ UNCHANGED <<view, active, bg, resuming, checks, streamSid, composer, queue, timers, polls>>

\* The answer is not OK: the function returns, whatever became of the user.
Refused(i) ==
  /\ sub[i].pc = Posting /\ ~sub[i].aborted
  /\ Finally(i, bg, sendInFlight)
  /\ sub' = [sub EXCEPT ![i].pc = "over", ![i].left = (bg[sub[i].sess] = "running")]
  /\ timers' = Draining(isStreaming', sendInFlight)
  /\ UNCHANGED <<view, run, resuming, checks, queue, polls>>

-----------------------------------------------------------------------------
(* Reading the event stream.                                                *)

Away(i) == current # sub[i].sess

InBackground(i) == Away(i) \/ bg[sub[i].sess] # "none"

\* The first event that arrives while the user is elsewhere.
FirstBackgroundEvent(i) ==
  /\ sub[i].pc = Reading /\ ~sub[i].aborted /\ run[i] \in {"running", "done"}
  /\ Away(i) /\ bg[sub[i].sess] = "none"
  /\ bg' = [bg EXCEPT ![sub[i].sess] = "running"]
  /\ UNCHANGED <<view, sub, run, active, resuming, checks, streamSid, composer, queue, timers,
                 polls>>

\* [DONE]: a background stream is marked, one the user came back to is not.
ReadDone(i) ==
  /\ sub[i].pc = Reading /\ ~sub[i].aborted /\ run[i] = "done"
  /\ sub' = [sub EXCEPT ![i].pc = Closing]
  /\ bg' = [bg EXCEPT ![sub[i].sess] = IF Away(i) THEN "completed" ELSE "none"]
  /\ UNCHANGED <<view, run, active, resuming, checks, streamSid, composer, queue, timers,
                 polls>>

\* The reader is done: final render in the foreground, then finally.
Close(i) ==
  LET shown == ~InBackground(i)
  IN /\ sub[i].pc = Closing /\ ~sub[i].aborted
     /\ Finally(i, bg, sendInFlight)
     /\ sub' = [sub EXCEPT ![i].pc = "over", ![i].unseen = @ \/ (shown /\ i \notin box.live),
                                ![i].left = (bg[sub[i].sess] = "running")]
     /\ box' = [box EXCEPT !.seen = IF shown THEN @ \cup (box.live \cap {i}) ELSE @]
     /\ timers' = Draining(isStreaming', sendInFlight)
     /\ UNCHANGED <<current, navs, run, resuming, checks, queue, polls>>

\* What becomes of the entry of a stream that broke in the background.
KeptMark(mark) == mark
FailedMark(mark) == IF mark = "running" THEN "error" ELSE mark

\* The reader throws: aborted, the connection lost, or closed before [DONE].  In
\* the foreground the catch block throws in its turn; the finally block runs.
Throws(i) ==
  LET s == sub[i].sess
  IN /\ sub[i].pc \in Registered
     /\ Finally(i, [bg EXCEPT ![s] = FailedMark(@)], sendInFlight)
     /\ sub' = [sub EXCEPT ![i].pc = "over",
                           ![i].unseen = @ \/ ~InBackground(i) \/ (~Away(i) /\ box.kept)]
     /\ timers' = Draining(isStreaming', sendInFlight)
     /\ UNCHANGED <<view, run, resuming, checks, queue, polls>>

ReaderEnds(i) == (sub[i].aborted \/ run[i] = "dead") /\ Throws(i)
ConnectionLost(i) == ~sub[i].aborted /\ run[i] # "dead" /\ Throws(i)

\* No visible event within the response timeout: stop the run and abort.
ResponseTimeout(i) ==
  /\ sub[i].pc \in {Posting, Reading} /\ ~sub[i].aborted
  /\ sub' = [sub EXCEPT ![i].aborted = TRUE]
  /\ run' = Killed(sub[i].sess)
  /\ UNCHANGED <<view, active, bg, resuming, checks, streamSid, composer, queue, timers,
                 polls>>

-----------------------------------------------------------------------------
(* The composer while a stream is in the foreground.                        *)

QueueRequest ==
  /\ isStreaming /\ Len(queue) < MaxQueue
  /\ queue' = Append(queue, current)
  /\ UNCHANGED <<view, sub, run, active, bg, resuming, checks, streamSid, composer, timers,
                 polls>>

\* handleChatSubmit with isStreaming set and nothing to queue: the stream of
\* the conversation on screen and its run are stopped.  An empty answer drains
\* the queue at once.
StopStream ==
  /\ isStreaming
  /\ sub' = Aborting(active[current])
  /\ run' = Killed(current)
  /\ isStreaming' = FALSE
  /\ UNCHANGED <<view, active, bg, resuming, checks, streamSid, sendInFlight, queue, polls>>

UserStops ==
  /\ StopStream
  /\ \/ UNCHANGED timers
     \/ active[current] # None /\ timers' = Draining(FALSE, sendInFlight)

\* The timer of _drainQueuedAgentRequests takes the first request and hands it
\* to the composer, which sends it in a callback of its own.
DrainFires ==
  /\ timers.drain
  /\ IF isStreaming \/ sendInFlight \/ queue = <<>>
     THEN timers' = [timers EXCEPT !.drain = FALSE] /\ UNCHANGED queue
     ELSE /\ timers' = [timers EXCEPT !.drain = FALSE, !.send = Head(queue)]
          /\ queue' = Tail(queue)
  /\ UNCHANGED <<view, sub, run, active, bg, resuming, checks, streamSid, composer, polls>>

QueuedSendFires ==
  /\ timers.send # NoSession
  /\ timers' = [timers EXCEPT !.send = NoSession]
  /\ \/ StopStream
     \/ Submit(timers.send)
     \/ /\ ~isStreaming /\ sendInFlight
        /\ UNCHANGED <<view, sub, run, active, bg, resuming, checks, streamSid, composer, queue,
                       polls>>

\* _probeStaleLocalStream: quiet for a while, and the server knows no run.
StaleProbe ==
  LET i == active[current]
  IN /\ i # None /\ bg[current] = "none" /\ RunsOf(current) = {}
     /\ sub' = Aborting(i)
     /\ active' = [active EXCEPT ![current] = None]
     /\ isStreaming' = FALSE /\ sendInFlight' = FALSE
     /\ timers' = Draining(FALSE, FALSE)
     /\ UNCHANGED <<view, run, bg, resuming, checks, streamSid, queue, polls>>

-----------------------------------------------------------------------------
UserStep ==
  /\ steps < MaxSteps /\ steps' = steps + 1 /\ UNCHANGED faults
  /\ \/ \E s \in Session : Click(s)
     \/ UserSends \/ QueueRequest \/ UserStops
     \/ \E i \in Ids : SendAbandoned(i)

FaultStep ==
  /\ faults < MaxFaults /\ faults' = faults + 1 /\ UNCHANGED steps
  /\ \/ \E n \in navs : HistoryFails(n)
     \/ \E s \in Session : ResumeLost(s)
     \/ \E i \in Ids : UploadFails(i) \/ Refused(i) \/ ConnectionLost(i) \/ ResponseTimeout(i)

PageStep ==
  /\ UNCHANGED bounds
  /\ \/ \E n \in navs : HistoryArrives(n) \/ HistoryRendered(n)
     \/ \E s \in Session : ServerChecked(s) \/ ResumeEnds(s)
     \/ \E p \in polls : Poll(p)
     \/ \E i \in Ids : HandOver(i) \/ Capture(i) \/ Register(i) \/ Posted(i)
     \/ \E i \in Ids : FirstBackgroundEvent(i) \/ ReadDone(i) \/ Close(i) \/ ReaderEnds(i)
     \/ LoadingPainted \/ DrainFires \/ QueuedSendFires \/ StaleProbe
     \/ \E i \in Ids : RunEnds(i)

Next == UserStep \/ FaultStep \/ PageStep

Spec == Init /\ [][Next]_vars

\* Callbacks are run, requests are answered and runs end.
FairSpec ==
  /\ Spec
  /\ \A i \in Ids : WF_vars(UNCHANGED bounds /\ (HandOver(i) \/ Capture(i) \/ Register(i)
                       \/ Posted(i) \/ ReadDone(i) \/ Close(i) \/ ReaderEnds(i) \/ RunEnds(i)))

-----------------------------------------------------------------------------
Opening == \E n \in navs : n.latest
Quiet == /\ navs = {} /\ checks = {} /\ polls = {} /\ \A s \in Session : resuming[s] = None
         /\ \A i \in Ids : sub[i].pc \in {"free", "over"} /\ run[i] # "running"

\* Outside a call of selectSession the page shows the conversation that is
\* current, and no answer of another one: neither a slow history nor a stream
\* that goes on in the background gets there.  The holes: the latest opening
\* failed, or its guard left what was there: the messages of another conversation
\* when an empty one is opened twice.
ShowsCurrentOnly ==
  Opening \/ box.broken \/ box.kept \/
    (box.owner = current /\ \A i \in box.seen : sub[i].sess = current)

\* Once everything has come to rest the saved answer of the conversation on
\* screen is on screen: what went on in the background is found by the reload,
\* the poll or the resumed stream.  The holes are an answer that was saved while
\* the conversation was being opened, after its history had been read, and one
\* whose reader ended on screen without it: cut off there, or with a bubble that
\* opening the conversation had already taken off the page.  (Two
\* requests in one conversation hide one another's runs, too.)
Alone(i) == \A j \in Ids \ {i} : sub[j].sess # sub[i].sess
AnswersShown ==
  Quiet /\ ~box.broken =>
    \A i \in History(current) : Alone(i) => i \in box.seen \/ sub[i].unseen

\* The button says "stop" only while a submission or a registered stream of the
\* conversation on screen is under way: the composer is never locked.
StopMeansStream ==
  isStreaming => active[current] # None \/ \E i \in Ids : sub[i].pc \in {Starting, Bound}

\* A conversation is only kept as streaming in the background while a reader of
\* it is alive.  The holes: the two endings that do not look at the table, a
\* request that is not answered OK and a stream that closes after its [DONE] was
\* read, when the user leaves in between.
BackgroundHasReader ==
  \A s \in Session : bg[s] = "running" =>
    \E i \in Ids : sub[i].sess = s /\ (sub[i].pc \in Registered \/ sub[i].left)

\* A queued request has something left that will send it: the drain timer, a
\* request taken from the queue and about to be sent, or a submission whose end
\* drains.  The hole: the drain timer fires while a later send is in its first
\* awaits, and that send is given up there, which arms no timer again.
GivenUp(i) == sub[i].pc = "over" /\ sub[i].sess = NoSession
QueueHasDrain ==
  queue # <<>> =>
    \/ timers.drain \/ timers.send # NoSession
    \/ \E i \in Ids : sub[i].pc \in InFlight \/ GivenUp(i)

\* The composer is free again some time after every send.
ComposerFreed == isStreaming ~> ~isStreaming

\* Opening a conversation detaches the streams on the page instead of aborting
\* one.  The code aborts: see SelectSession.
SwitchKeepsStreams ==
  [][current' # current => \A i \in Ids : sub'[i].aborted => sub[i].aborted]_vars
=============================================================================
