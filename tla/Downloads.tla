------------------------------ MODULE Downloads ------------------------------
(***************************************************************************)
(* The download side of the Cookbook window (static/js/cookbookRunning.js  *)
(* and cookbookDownload.js) for one host: the task list that every tab of  *)
(* a browser keeps in localStorage, its copy in the server's state file    *)
(* (routes/cookbook_routes.py), the tmux sessions that do the downloading, *)
(* and the requests, timers and dialogs that are still open.               *)
(*                                                                         *)
(* A task's key is its sessionId.  A download that must wait gets a queue  *)
(* ticket, a key with no session; starting it replaces the ticket by the   *)
(* key of the session the server created.  Keys are numbered as they are   *)
(* handed out and never used again.  The server's answer to a launch is    *)
(* decided when the request leaves: nobody looks at the session earlier    *)
(* than the answer arrives.  Order within the list only decides which of   *)
(* several tickets starts first and is left to chance.                     *)
(***************************************************************************)
EXTENDS Naturals, FiniteSets

CONSTANTS Model,      \* the model repositories
          NoModel,    \* what a key not handed out yet downloads
          MaxAutoRetry, \* _DL_MAX_AUTO_RETRY
          MaxKeys,    \* task keys handed out (bound)
          MaxOps,     \* requests, timers and dialogs open at a time (bound)
          MaxSteps    \* what users, the agent and the poll timer begin, and
                      \* failed requests, lost sessions, reloads (bound)

ASSUME BoundsAreNatural ==
  MaxKeys \in Nat /\ MaxAutoRetry \in Nat /\ MaxOps \in Nat /\ MaxSteps \in Nat

VARIABLES list,       \* localStorage: task by key
          tomb,       \* localStorage: removed keys (cookbook-removed-tasks)
          dirty,      \* the debounced _syncToServer timer is armed
          retries,    \* _dlRetryCount: automatic retries by model
          ops,        \* what is still open: requests, timers, dialogs
          disk,       \* the server's state file: tasks and removedTasks
          old,        \* keys whose task is older than the race window
          session,    \* the tmux session of a key
          of,         \* the model a key downloads
          next,       \* the next key to hand out
          clicks,     \* what was begun so far
          faults,     \* faults so far
          started,    \* history: launches made from a ticket in the queue
          reissued,   \* history: tickets that came back from an old copy
          lost        \* history: sessions nobody will hear of again

client == <<list, tomb, dirty, retries, ops>>
host == <<session, of, next>>
vars == <<list, tomb, dirty, retries, ops, disk, old, session, of, next,
          clicks, faults, started, reissued, lost>>

Key == 1..MaxKeys
Ended == {"done", "crashed"}
Task == [status : {"absent", "queued", "running"} \cup Ended,
         ok : BOOLEAN,         \* its output shows DOWNLOAD_OK
         launched : BOOLEAN]   \* _startLaunched
Absent == [status |-> "absent", ok |-> FALSE, launched |-> FALSE]
Fresh(s) == [Absent EXCEPT !.status = s]

Shown(tasks) == {k \in Key : tasks[k].status # "absent"}
Having(tasks, statuses) == {k \in Key : tasks[k].status \in statuses}
Same(k) == {j \in Key : of[j] = of[k]}
Without(tasks, keys) == [k \in Key |-> IF k \in keys THEN Absent ELSE tasks[k]]
IsTicket(k) == k < next /\ session[k] = "none"
Alive(k) == session[k] \in {"live", "ok", "failed"}   \* the shell outlives the download

Op == [kind : {"launch", "kill", "probe", "wait", "confirm", "clear", "status", "agent"},
       why : {"", "click", "queue", "again", "retry", "auto", "stale", "remove"},
       key : 0..MaxKeys, sid : 0..MaxKeys, busy : BOOLEAN,
       tasks : [Key -> Task], gone : SUBSET Key,
       seen : [Key -> {"", "running", "completed", "stopped"}]]
Blank == [kind |-> "wait", why |-> "", key |-> 0, sid |-> 0, busy |-> FALSE,
          tasks |-> [k \in Key |-> Absent], gone |-> {}, seen |-> [k \in Key |-> ""]]

Save(tasks) == list' = tasks /\ dirty' = TRUE
CanBegin == clicks + faults < MaxSteps
Fault == CanBegin /\ faults' = faults + 1

Init ==
  /\ list = [k \in Key |-> Absent] /\ tomb = {} /\ dirty = FALSE
  /\ retries = [m \in Model |-> 0] /\ ops = {}
  /\ disk = [tasks |-> [k \in Key |-> Absent], removed |-> {}] /\ old = {}
  /\ session = [k \in Key |-> "none"] /\ of = [k \in Key |-> NoModel]
  /\ next = 1 /\ clicks = 0 /\ faults = 0
  /\ started = [k \in Key |-> 0] /\ reissued = {} /\ lost = {}

-----------------------------------------------------------------------------
(* Launching: POST /api/model/download creates a session, or fails.         *)

\* Sends a launch for model m; the open operations become rest plus the
\* request, the sessions are sess plus the new one.
LaunchFrom(why, m, key, rest, sess) ==
  LET request == [Blank EXCEPT !.kind = "launch", !.why = why, !.key = key] IN
  /\ started' = IF why = "queue" THEN [started EXCEPT ![key] = @ + 1] ELSE started
  /\ \/ /\ next <= MaxKeys
        /\ session' = [sess EXCEPT ![next] = "live"]
        /\ of' = [of EXCEPT ![next] = m]
        /\ next' = next + 1
        /\ ops' = rest \cup {[request EXCEPT !.sid = next]}
        /\ UNCHANGED faults
     \/ /\ Fault
        /\ session' = sess
        /\ ops' = rest \cup {request}
        /\ UNCHANGED <<of, next>>
Launch(why, m, key, rest) == LaunchFrom(why, m, key, rest, session)

NoLaunch(rest) == ops' = rest /\ UNCHANGED <<host, faults, started>>

\* _pruneQueuedDownloadDuplicates: a ticket goes when its model was launched;
\* of several tickets for one model one stays.
Pruned(tasks) ==
  {Without(tasks, drop) : drop \in {d \in SUBSET Having(tasks, {"queued"}) :
     \A k \in Having(tasks, {"queued"}) :
        LET rivals == Having(tasks, {"queued"}) \cap Same(k)
            launchedToo == Shown(tasks) \cap Same(k) # rivals
        IN  IF launchedToo THEN k \in d ELSE Cardinality(rivals \ d) = 1}}

\* A ticket is flipped before its launch is sent, so that no other look at the
\* queue takes it (mutant: only the answer flips it).
FlippedLater(tasks, k) == tasks
Flipped(tasks, k) == [tasks EXCEPT ![k].status = "running", ![k].launched = TRUE]

\* _processQueue on the given list: starts one ticket unless a download runs.
ProcessQueue(tasks, rest) ==
  \E p \in Pruned(tasks) :
    LET waiting == Having(p, {"queued"}) IN
    \/ /\ (Having(p, {"running"}) # {} \/ waiting = {})
       /\ list' = p
       /\ NoLaunch(rest)
    \/ /\ Having(p, {"running"}) = {}
       /\ \E k \in waiting :
            /\ list' = Flipped(p, k)
            /\ Launch("queue", of[k], k, rest)

\* _startQueuedDownload from a card's Start now.  The card offers it by the
\* ticket as it was when the card was drawn, and cards of other tabs may show
\* tickets that are gone; only a ticket that is being started is refused.  A
\* start of a ticket that ended or went is told apart ("again").
StartNow(k) ==
  /\ IsTicket(k)
  /\ ~(list[k].status = "running" /\ list[k].launched)
  /\ IF list[k].status = "absent" THEN UNCHANGED <<list, dirty>> ELSE Save(Flipped(list, k))
  /\ Launch(IF list[k].status \in {"queued", "running"} THEN "queue" ELSE "again",
            of[k], k, ops)
  /\ UNCHANGED <<tomb, retries, disk, old, reissued, lost>>

\* The answer to a launch from the queue: the ticket becomes the session's
\* task, also when the ticket is gone (mutant: then the answer is ignored).
QueueStartedListed(o) ==
  IF list[o.key].status = "absent" \/ o.sid = 0 THEN UNCHANGED <<list, dirty>>
    ELSE Save([Without(list, {o.key}) EXCEPT ![o.sid] = Fresh("running")])
QueueStarted(o) ==
  IF o.sid = 0
    THEN Save(IF list[o.key].status = "absent" THEN list
                ELSE [list EXCEPT ![o.key].status = "crashed"])
    ELSE LET rivals == {k \in Having(list, {"queued"}) : of[k] = of[o.sid]}
             kept == Without(list, {o.key} \cup rivals)
         IN  Save([kept EXCEPT ![o.sid] =
                    [list[o.key] EXCEPT !.status = "running"]])

\* _addTask for a download: it also drops the tickets of the same model.
Added(tasks, sid, m) ==
  [Without(tasks, {k \in Having(tasks, {"queued"}) : of[k] = m})
     EXCEPT ![sid] = Fresh("running")]

\* The answer to a click or to a retry: the retried task takes the new key.
Relaunched(o) ==
  LET replaces == o.why = "retry" /\ list[o.key].status # "absent" IN
  IF o.sid = 0
    THEN Save(IF replaces THEN [list EXCEPT ![o.key].status = "crashed"] ELSE list)
    ELSE Save(IF replaces
                THEN [Without(list, {o.key}) EXCEPT
                        ![o.sid] = [list[o.key] EXCEPT !.status = "running", !.ok = FALSE]]
                ELSE Added(list, o.sid, of[o.sid]))

\* The answer to the restart of a stalled download only renames a task that
\* is still listed: if the user removed it meanwhile the new session is lost.
Restarted(o) ==
  /\ IF o.sid = 0 \/ list[o.key].status = "absent"
       THEN UNCHANGED <<list, dirty>>
       ELSE Save([Without(list, {o.key}) EXCEPT
                    ![o.sid] = [list[o.key] EXCEPT !.status = "running", !.ok = FALSE]])
  /\ lost' = IF list[o.key].status = "absent" THEN lost \cup ({o.sid} \ {0}) ELSE lost

LaunchAnswered(o) ==
  /\ o.kind = "launch"
  /\ \/ o.why \in {"queue", "again"} /\ QueueStarted(o) /\ UNCHANGED lost
     \/ o.why \in {"click", "retry", "auto"} /\ Relaunched(o) /\ UNCHANGED lost
     \/ o.why = "stale" /\ Restarted(o)
  /\ ops' = ops \ {o}
  /\ UNCHANGED <<tomb, retries, disk, old, host, faults, started, reissued>>

-----------------------------------------------------------------------------
(* The download button (_runModelDownload).                                 *)

\* Nothing else downloads or waits: launch; otherwise take a ticket.
Proceed(m, busy, rest) ==
  IF busy
    THEN /\ next <= MaxKeys
         /\ Save([list EXCEPT ![next] = Fresh("queued")])
         /\ of' = [of EXCEPT ![next] = m]
         /\ next' = next + 1
         /\ ops' = rest
         /\ UNCHANGED <<session, faults, started>>
    ELSE /\ Launch("click", m, 0, rest)
         /\ UNCHANGED <<list, dirty>>

Download(m) ==
  LET mine == {k \in Key : of[k] = m}
      busy == Having(list, {"running", "queued"}) # {}
      zombies == {k \in mine \cap Having(list, Ended) : ~IsTicket(k)}
  IN  /\ mine \cap Having(list, {"running", "queued"}) = {}
      /\ IF zombies = {}
           THEN Proceed(m, busy, ops)
           ELSE /\ \E z \in zombies : NoLaunch(ops \cup
                     {[Blank EXCEPT !.kind = "probe", !.key = z, !.busy = busy]})
                /\ UNCHANGED <<list, dirty>>
      /\ UNCHANGED <<tomb, retries, disk, old, reissued, lost>>

\* The probe of a task marked ended: a session that still lives is revived,
\* otherwise the click goes on with the list as it was before the probe.
Probed(o) ==
  /\ o.kind = "probe"
  /\ IF Alive(o.key)
       THEN /\ IF list[o.key].status = "absent" THEN UNCHANGED <<list, dirty>>
                 ELSE Save([list EXCEPT ![o.key].status = "running"])
            /\ NoLaunch(ops \ {o})
       ELSE Proceed(of[o.key], o.busy, ops \ {o})
  /\ UNCHANGED <<tomb, retries, disk, old, reissued, lost>>

-----------------------------------------------------------------------------
(* The open card's watcher (_reconnectTask), and self-healing.              *)

Watched(k) == list[k].status \in {"queued", "running", "crashed"}

\* DOWNLOAD_OK: done, and the queue moves on.  (The idle session is killed
\* without waiting; that it lingers has no other effect.)
SeesDone(k) ==
  /\ Watched(k) /\ session[k] = "ok"
  /\ ProcessQueue([list EXCEPT ![k].status = "done"], ops)
  /\ dirty' = TRUE
  /\ retries' = [retries EXCEPT ![of[k]] = 0]
  /\ UNCHANGED <<tomb, disk, old, reissued, lost>>

\* The automatic retries of a model are counted (mutant: and not looked at).
MayRetryAlways(k) == list[k].status # "absent"
MayRetry(k) == retries[of[k]] < MaxAutoRetry

\* DOWNLOAD_FAILED: kill and relaunch, twice at most, or show the error.
SeesFailed(k) ==
  /\ Watched(k) /\ session[k] = "failed"
  /\ \/ /\ MayRetry(k)
        /\ retries' = [retries EXCEPT ![of[k]] = @ + 1]
        /\ ops' = ops \cup {[Blank EXCEPT !.kind = "kill", !.why = "auto", !.key = k]}
        /\ UNCHANGED <<list, dirty>>
     \/ /\ list[k].status # "crashed"
        /\ Save([list EXCEPT ![k].status = "crashed"])
        /\ UNCHANGED <<ops, retries>>
  /\ UNCHANGED <<tomb, disk, old, host, faults, started, reissued, lost>>

\* The session is gone: done on the runner's own marker, crashed without any,
\* and with an ambiguous one a second look after 30 seconds.
SeesGone(k) ==
  /\ Watched(k) /\ ~Alive(k)
  /\ \E s \in {"done", "crashed", "later"} :
       /\ s = "done" <=> list[k].ok
       /\ s = "later" => session[k] = "dead"
       /\ IF s = "later"
            THEN ProcessQueue(list, ops \cup
                   {[Blank EXCEPT !.kind = "confirm", !.key = k]})
            ELSE ProcessQueue([list EXCEPT ![k].status = s], ops)
  /\ dirty' = TRUE
  /\ UNCHANGED <<tomb, retries, disk, old, reissued, lost>>

Confirmed(o) ==
  /\ o.kind = "confirm"
  /\ \/ list[o.key].status = "absent" /\ NoLaunch(ops \ {o}) /\ UNCHANGED <<list, dirty>>
     \/ /\ list[o.key].status # "absent" /\ Alive(o.key)
        /\ Save([list EXCEPT ![o.key].status = "running"])
        /\ NoLaunch(ops \ {o})
     \/ /\ list[o.key].status # "absent" /\ ~Alive(o.key)
        /\ ProcessQueue([list EXCEPT ![o.key].status = "done"], ops \ {o})
        /\ dirty' = TRUE
  /\ UNCHANGED <<tomb, retries, disk, old, reissued, lost>>

\* No progress for minutes: kill and relaunch in place.
SeesStall(k) ==
  /\ list[k].status = "running" /\ session[k] = "live" /\ Fault
  /\ ops' = ops \cup {[Blank EXCEPT !.kind = "kill", !.why = "stale", !.key = k]}
  /\ dirty' = TRUE
  /\ UNCHANGED <<list, tomb, retries, disk, old, host, started, reissued, lost>>

\* _selfHealStaleTasks: an ended task whose session lives runs again.
SelfHeal(k) ==
  /\ list[k].status \in Ended /\ Alive(k)
  /\ ~(list[k].status = "done" /\ list[k].ok)
  /\ Save([list EXCEPT ![k].status = "running"])
  /\ UNCHANGED <<tomb, retries, ops, disk, old, host, faults, started, reissued, lost>>

-----------------------------------------------------------------------------
(* Stop, Kill, Restart and Clear finished.                                  *)

\* Stop, Kill or Restart first ask for the session to be killed.
Remove(k) ==
  /\ k \in Shown(list)
  /\ ops' = ops \cup {[Blank EXCEPT !.kind = "kill", !.why = "remove", !.key = k]}
  /\ UNCHANGED <<list, tomb, dirty, retries, disk, old, host, faults, started, reissued, lost>>

Restart(k) ==
  /\ k \in Shown(list)
  /\ ops' = ops \cup {[Blank EXCEPT !.kind = "kill", !.why = "retry", !.key = k]}
  /\ UNCHANGED <<list, tomb, dirty, retries, disk, old, host, faults, started, reissued, lost>>

\* Stop, Restart and the retries go on whether or not the kill worked.
Killed(o) ==
  LET rest == ops \ {o}
      dead == IF Alive(o.key) THEN [session EXCEPT ![o.key] = "dead"] ELSE session
      gone == o.why \in {"remove", "auto"}
  IN
  /\ o.kind = "kill"
  /\ CASE gone -> Save(Without(list, {o.key}))
       [] o.why = "retry" /\ list[o.key].status # "absent" ->
            Save([list EXCEPT ![o.key].status = "running"])
       [] OTHER -> UNCHANGED <<list, dirty>>
  /\ tomb' = IF gone THEN tomb \cup {o.key} ELSE tomb
  /\ \/ o.why \in {"retry", "stale"} /\ LaunchFrom(o.why, of[o.key], o.key, rest, dead)
        /\ UNCHANGED lost
     \/ /\ gone
        /\ ops' = rest \cup (IF o.why = "remove" THEN {}
                               ELSE {[Blank EXCEPT !.why = "auto", !.key = o.key]})
        /\ \/ session' = dead /\ UNCHANGED <<faults, lost>>
           \/ Fault /\ lost' = lost \cup {o.key} /\ UNCHANGED session
        /\ UNCHANGED <<of, next, started>>
  /\ UNCHANGED <<retries, disk, old, reissued>>

\* Kill leaves the card when the request fails.
KillRefused(o) ==
  /\ o.kind = "kill" /\ o.why = "remove" /\ Fault
  /\ ops' = ops \ {o}
  /\ UNCHANGED <<list, tomb, dirty, retries, disk, old, host, started, reissued, lost>>

\* An automatic retry launches after eight seconds.
Relaunch(o) ==
  /\ o.kind = "wait"
  /\ Launch("auto", of[o.key], o.key, ops \ {o})
  /\ UNCHANGED <<list, tomb, dirty, retries, disk, old, reissued, lost>>

\* Clear finished: the list is read before the dialog opens ...
ClearAsked ==
  /\ Having(list, Ended) # {}
  /\ \A o \in ops : o.kind # "clear"
  /\ ops' = ops \cup {[Blank EXCEPT !.kind = "clear", !.gone = Having(list, Ended),
                                    !.tasks = Without(list, Having(list, Ended))]}
  /\ UNCHANGED <<list, tomb, dirty, retries, disk, old, host, faults, started, reissued, lost>>

\* ... and what was left of it replaces the list when the user confirms.
ClearConfirmed(o) ==
  /\ o.kind = "clear"
  /\ tomb' = tomb \cup o.gone
  /\ Save(o.tasks)
  /\ reissued' = reissued \cup (Shown(o.tasks) \ Having(list, {"queued"}))
  /\ lost' = lost \cup (Shown(list) \ Shown(o.tasks))
  /\ ops' = ops \ {o}
  /\ UNCHANGED <<retries, disk, old, host, faults, started>>

ClearDismissed(o) ==
  /\ o.kind = "clear" /\ ops' = ops \ {o}
  /\ UNCHANGED <<list, tomb, dirty, retries, disk, old, host, faults, started, reissued, lost>>

-----------------------------------------------------------------------------
(* The server's copy: pulling, pushing, and the background poll.            *)

\* Tasks of the file that are neither listed nor removed join the list (mutant:
\* removed ones join it too).
MergedAll(tasks, removed) ==
  [k \in Key |-> IF tasks[k].status = "absent" THEN disk.tasks[k] ELSE tasks[k]]
Merged(tasks, removed) ==
  [k \in Key |-> IF tasks[k].status = "absent" /\ k \notin removed
                   THEN disk.tasks[k] ELSE tasks[k]]
Returned(tasks) == {k \in Key : IsTicket(k) /\ started[k] > 0} \cap (Shown(tasks) \ Shown(list))

\* _syncFromServer, on opening the window: takes over removals as well.
Pull ==
  LET removed == tomb \cup disk.removed
      tasks == Without(Merged(list, removed), removed)
  IN  /\ tasks # list \/ removed # tomb
      /\ list' = tasks /\ tomb' = removed
      /\ reissued' = reissued \cup Returned(tasks)
      /\ UNCHANGED <<dirty, retries, ops, disk, old, host, faults, started, lost>>

\* GET /api/cookbook/tasks/status: ended tasks are judged by their output, the
\* others by their session (blind: it could not be reached in time).
Fetched(m) == /\ \E k \in Key : of[k] = m /\ session[k] = "ok"
              /\ \A k \in Key : of[k] = m => session[k] # "live"
LiveStatus(k, blind) ==
  LET task == disk.tasks[k]
      reached == task.status \notin Ended /\ Alive(k) /\ k \notin blind
      completed == Fetched(of[k]) \/ (task.status \in Ended /\ task.ok)
      told == [live |-> "running", ok |-> "completed", failed |-> "stopped"]
  IN  IF task.status = "absent" THEN ""
      ELSE IF reached THEN told[session[k]]
      ELSE IF completed THEN "completed" ELSE "stopped"

\* _pollBackgroundStatus, first half: merge, then ask for the statuses.
PollAsks ==
  /\ \A o \in ops : o.kind # "status"
  /\ list' = Merged(list, tomb)
  /\ reissued' = reissued \cup Returned(list')
  /\ \E blind \in {{}} \cup {{k} : k \in {j \in Key : session[j] = "live"}} :
       /\ IF blind = {} THEN UNCHANGED faults ELSE Fault
       /\ LET seen == [k \in Key |-> LiveStatus(k, blind)] IN
          /\ \E k \in Key : seen[k] # ""
          /\ ops' = ops \cup {[Blank EXCEPT !.kind = "status", !.seen = seen]}
  /\ UNCHANGED <<tomb, dirty, retries, disk, old, host, started, lost>>

\* The status a listed task takes from the server's answer.
Reconciled(t, seen) ==
  IF t.status = "absent" \/ seen = "" THEN t
  ELSE LET ok == t.ok \/ seen = "completed" IN
       [t EXCEPT !.ok = ok, !.status = IF ok THEN "done"
                              ELSE IF seen = "running" THEN "running" ELSE "crashed"]

\* Second half: reconcile; a task the list lacks is adopted unless removed.
PollAnswered(o) ==
  LET base == [k \in Key |->
                 IF list[k].status = "absent" /\ o.seen[k] # "" /\ k \notin tomb
                   THEN Fresh("running") ELSE list[k]]
      tasks == [k \in Key |-> Reconciled(base[k], o.seen[k])]
  IN  /\ o.kind = "status"
      /\ IF tasks = list THEN UNCHANGED <<list, dirty>> ELSE Save(tasks)
      /\ reissued' = reissued \cup Returned(tasks)
      /\ ops' = ops \ {o}
      /\ UNCHANGED <<tomb, retries, disk, old, host, faults, started, lost>>

\* POST /api/cookbook/state: removed tasks go, tasks the body lacks stay while
\* they are younger than the race window, for the rest the body wins.
Stored(tasks, removed) ==
  LET gone == disk.removed \cup removed IN
  [tasks |-> [k \in Key |->
     CASE k \in gone -> Absent
       [] k \notin gone /\ tasks[k].status # "absent" -> tasks[k]
       [] OTHER -> IF k \in old THEN Absent ELSE disk.tasks[k]],
   removed |-> gone]
\* Sessions whose last trace was in the file when it is overwritten.
Forgotten(tasks, removed) ==
  Shown(disk.tasks) \ (Shown(Stored(tasks, removed).tasks) \cup Shown(list))

\* _syncToServer, when its timer fires.
Push ==
  /\ dirty /\ dirty' = FALSE
  /\ disk' = Stored(list, tomb)
  /\ lost' = lost \cup Forgotten(list, tomb)
  /\ UNCHANGED <<list, tomb, retries, ops, old, host, faults, started, reissued>>

\* The agent's download_model tool launches, reads the file, adds its task ...
AgentLaunches(m) ==
  /\ next <= MaxKeys
  /\ session' = [session EXCEPT ![next] = "live"]
  /\ of' = [of EXCEPT ![next] = m] /\ next' = next + 1
  /\ ops' = ops \cup {[Blank EXCEPT !.kind = "agent", !.sid = next,
                         !.tasks = [disk.tasks EXCEPT ![next] = Fresh("running")]]}
  /\ UNCHANGED <<list, tomb, dirty, retries, disk, old, faults, started, reissued, lost>>

\* ... and posts what it read, like any other client.
AgentRegisters(o) ==
  /\ o.kind = "agent"
  /\ disk' = Stored(o.tasks, {})
  /\ lost' = lost \cup Forgotten(o.tasks, {})
  /\ ops' = ops \ {o}
  /\ UNCHANGED <<list, tomb, dirty, retries, old, host, faults, started, reissued>>

-----------------------------------------------------------------------------
(* The host, time and the page.                                             *)

Ends(k) ==
  /\ session[k] = "live"
  /\ \E s \in {"ok", "failed"} : session' = [session EXCEPT ![k] = s]
  /\ UNCHANGED <<client, disk, old, of, next, faults, started, reissued, lost>>

HostLoses(k) ==
  /\ Alive(k) /\ Fault
  /\ session' = [session EXCEPT ![k] = "dead"]
  /\ UNCHANGED <<client, disk, old, of, next, started, reissued, lost>>

AMinutePasses ==
  /\ old # 1..(next - 1) /\ old' = 1..(next - 1)
  /\ UNCHANGED <<client, disk, host, faults, started, reissued, lost>>

\* Reloading the page drops every open request, timer and dialog of the client.
Reload ==
  /\ Fault
  /\ ops' = {o \in ops : o.kind = "agent"}
  /\ dirty' = FALSE /\ retries' = [m \in Model |-> 0]
  /\ lost' = lost \cup ({o.sid : o \in ops \ ops'} \ {0})
  /\ UNCHANGED <<list, tomb, disk, old, host, started, reissued>>

Begins == \/ AMinutePasses \/ ClearAsked \/ Pull \/ PollAsks
          \/ \E m \in Model : Download(m) \/ AgentLaunches(m)
          \/ \E k \in Key : StartNow(k) \/ Remove(k) \/ Restart(k)
Watcher(k) == SeesDone(k) \/ SeesFailed(k) \/ SeesGone(k) \/ SeesStall(k) \/ SelfHeal(k)
Answer(o) == \/ LaunchAnswered(o) \/ Probed(o) \/ Confirmed(o) \/ Killed(o) \/ KillRefused(o)
             \/ Relaunch(o) \/ ClearConfirmed(o) \/ ClearDismissed(o)
             \/ PollAnswered(o) \/ AgentRegisters(o)
Reacts == \/ \E k \in Key : Watcher(k) \/ Ends(k) \/ HostLoses(k)
          \/ \E o \in ops : Answer(o)
          \/ Push \/ Reload

Next ==
  /\ \/ Begins /\ CanBegin /\ clicks' = clicks + 1
     \/ Reacts /\ UNCHANGED clicks
  /\ Cardinality(ops') <= MaxOps

Spec == Init /\ [][Next]_vars

-----------------------------------------------------------------------------
(* Properties.                                                              *)

TypeOK ==
  /\ list \in [Key -> Task] /\ tomb \subseteq Key /\ dirty \in BOOLEAN
  /\ retries \in [Model -> 0..MaxAutoRetry] /\ ops \subseteq Op
  /\ disk \in [tasks : [Key -> Task], removed : SUBSET Key] /\ old \subseteq Key
  /\ session \in [Key -> {"none", "live", "ok", "failed", "dead"}]
  /\ of \in [Key -> Model \cup {NoModel}] /\ next \in 1..(MaxKeys + 1)
  /\ clicks \in 0..MaxSteps /\ faults \in 0..MaxSteps
  /\ reissued \subseteq Key /\ lost \subseteq Key

\* A queue ticket starts one download, however often the queue is looked at
\* and Start now is pressed while it waits or is being started.  Starts from the
\* card of a ticket that ended or went are not counted: the code lets a card
\* start such a ticket again, also when it crashed while its POST is under way.
TicketOnce == \A k \in Key \ reissued : started[k] <= 1

\* A task the user removed does not come back from the server, a poll or an
\* answer that was under way.
RemovedStays == \A k \in tomb : list[k].status = "absent" \/ k \in reissued

\* A download that runs is listed, on file, or awaited by an open request.
EveryDownloadKnown ==
  \A k \in Key : session[k] = "live" =>
    \/ k \in Shown(list) \cup Shown(disk.tasks) \cup lost
    \/ \E o \in ops : k \in {o.sid, o.key}

\* A ticket leaves the queue by being started or taken out, never by failing.
TicketsWait == [][\A k \in Key : list[k].status = "queued" =>
                    list'[k].status \in {"queued", "running", "absent"}]_vars
=============================================================================
