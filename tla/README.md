# Verification of the ARKEA / Odysseus server

TLA+ models of the server under `src/source-tree` (the `arkea_ai_desktop_odysseus_overlay`
directory is a copy of parts of it), TLC configurations that check them on small
instances, and TLAPS proofs for all instances.

The server is a Python/asyncio application: one event loop, many coroutines, a
SQLite database that survives restarts, and in-memory tables that do not. Its hard
behaviour is what coroutines do to each other between two awaits, what a
cancellation interrupts, and what is left after a restart. The browser front end is the
same kind of program in JavaScript: one thread, callbacks, timers and requests that
answer late, with module-level tables that speak of "the current" conversation, document
or card. That is what is modelled, on both sides.

## 1. Inventory

| Component | State | Operations | Talks to | What is hard | What makes it correct |
|---|---|---|---|---|---|
| Task scheduler, `src/task_scheduler.py` | rows of `scheduled_tasks`, `task_runs`; `_executing`, `_task_handles`, `_run_semaphore` | tick, run now, force, chain, execute, stop, stop for foreground, start | event bus, gate, routes, executors | cancellation at every await, three different cancellers, marks removed by several parties, restart | one model run at a time, no double dispatch, no lost date or trigger, no stuck mark or row, every due task served |
| Event bus, `src/event_bus.py` | `trigger_counter`, `next_run` | fire, handle | scheduler | crash between counter and run | no event lost |
| Foreground gate, `src/interactive_gate.py` | request counter, time stamps, chat streams | track, heartbeat, wait for quiet | scheduler, agent runs | starvation, stale chat streams | background work waits, and goes on afterwards |
| Shared cache, `_cached` | entries, pending futures | call, fetch, expire | check-in tasks | shared futures and cancellation | one fetch per key, every call ends |
| Agent runs, `src/agent_runs.py` | `_RUNS`, buffers, subscribers, timers | start, drain, stop, subscribe, evict | chat routes, gate, background monitor | replacement, replay against live, end against time-out | complete ordered streams, runs end and are freed |
| Background jobs, `src/bg_jobs.py`, `src/bg_monitor.py` | JSON store, exit files, processes | launch, refresh, kill, follow up | agent runs, sessions | exit file against process against time-out, kill against a list under way, crash between message and mark | verdicts true and final, every job heard of, none twice |
| Scheduled model servers, `src/cookbook_serve_lifecycle.py` | `cookbook_state.json` | stop when due | cookbook routes | read, stop, re-read, merge | user edits are kept, due servers stop |
| Rate limiter, `src/rate_limiter.py` | time stamps per key | check, purge | routes | window edges | never more than the limit in a window |
| Atomic files, `core/atomic_io.py` | file, temporary file | write | stores | crash in a write | old or new content |
| Sessions, history, compaction | session rows, messages | add, edit, compact, save | chat, follow-ups | concurrent writers of one session | no message lost |
| Agent loop, tools, LLM client | conversation, host health | rounds, tool calls | providers | streams that fail half way | - |
| Research, MCP manager, webhooks, mail, calendar | task tables, connections | start, cancel, reconnect, retry | external servers | late results, retries | - |
| Accounts, tokens, device login | users, tokens | login, refresh | providers | concurrent refresh | - |
| ARKEA core backend, `backend/arkea_core` | SQLite tables | conversations, MCP, routing | Ollama, OmniRoute | two-statement updates, process time-outs | one active conversation, no orphan process |
| Desktop shell, `desktop/main.js` | side processes | start, stop, bootstrap | backend | restarts, late exits | no duplicate side process |
| Chat page, `static/js/chat.js`, `sessions.js` | current conversation, streams by conversation, send flags, queue, timers | send, queue, stop, read the stream, switch, detach, resume | chat routes and agent runs, documents | one global flag for many conversations, switches between two awaits, streams that end in the background | the page shows the current conversation only, answers get there, composer and queue never lock up |
| Document panel, `static/js/document.js` | tabs, active tab, one textarea, review, timers | type, save, switch, close, minimise, review, stream | document routes, chat page | one textarea for all tabs, saves and timers bound to "the active document" | a document gets its own text, the user's words are not lost |
| Cookbook downloads, `static/js/cookbookRunning.js`, `cookbookDownload.js` | task list and removals in localStorage, copy in `cookbook_state.json`, tmux sessions | queue, launch, watch, retry, stop, clear, synchronise, poll | cookbook routes, agent tools | two owners of one list, answers for tasks that changed key or are gone | one launch per ticket, removed tasks stay away, no download unknown |
| Rest of the front end, services, MCP servers, scripts | - | - | - | I/O and DOM | not modelled |

`PROJECT.json` lists the hazards at their lines with the properties that watch them.

## 2. Modules

| module | models | uses |
|---|---|---|
| `TaskScheduler`, `MCTaskScheduler` | scheduler, task routes, events, gate | |
| `SharedCache` | `_cached` | |
| `EventStream` | what the detached runs promise a browser | |
| `AgentRuns` | `src/agent_runs.py` | implements `EventStream` |
| `BgJobs` | job store, wrapper, monitor | live turns as `AgentRuns` shows them to `is_active` |
| `ChatClient` | chat page | server runs as `AgentRuns` keeps them: one per conversation, replaced by the next |
| `Documents`, `MCDocuments` | document panel and store | |
| `Downloads`, `MCDownloads` | Cookbook downloads, their file and sessions | |
| `TaskSchedulerProofs`, `TaskSchedulerRunsProofs` | theorems about `TaskScheduler` | the second rests on the first |
| `SharedCacheProofs`, `AgentRunsProofs`, `BgJobsProofs`, `ChatClientProofs`, `DocumentsProofs`, `DownloadsProofs` | theorems about the module of that name | |

The order was that of what a user would miss first: work that silently stops or doubles,
answers that never end, then answers, words and downloads that get lost in the page.
What could come next: `InteractiveGate` (the scheduler's `foreground` flag as its
abstraction), the edits of a task that are not of its schedule, serve tasks beside downloads, and a joint
model of page and server for one conversation, in which the run that `ChatClient` takes as
a status is the one of `AgentRuns`.

## 3. How the models relate to the code

**A step is the code between two awaits of one coroutine.** `async with lock` around
code without an await never suspends, so those locks are not modelled; the semaphore is,
with its queue. `PROJECT.json` "map" gives the lines of every definition. Definitions
commented `Mutant:` are the plausible bugs the properties are tested against; they are
used by no specification.

### TaskScheduler

| TLA+ | code |
|---|---|
| `status`, `nextRun`, `counter` | `scheduled_tasks`; dates are none, later or due |
| `dated` | the tasks whose schedule gives a next date: recurring ones whose time or cron expression can be read, one-offs whose date is ahead |
| `row` | `task_runs.status` (`absent`: no row) |
| `pc`, `of`, `forced`, `cancel`, `result` | the coroutine of a run: where it is suspended, and the cancellation under way |
| `loaded` | the task as the run's ORM session last read it: whether it had a date and a good schedule |
| `executing`, `handles`, `slot`, `waitq` | `_executing`, `_task_handles`, `_run_semaphore` |
| `newest` | the row that `order_by(started_at.desc())` finds first |
| `foreground`, `stopPending` | `has_foreground_activity()`, and the coroutine a request schedules to stop background work |
| `owed` | history: event tasks with a trigger since which no run has begun |

`Launch`, `Acquire`, `PassGate`, `Finish`, `Close`, `CancelWaiting` and `CancelRunning`
are the pieces of `_execute_task` and `_execute_task_locked`; `Admit` is the stretch
before the gate, shared by `Launch` and `Acquire`. `Exit` is the `finally` blocks and
the release of the semaphore.

Decisions worth knowing:

* A run's ORM objects are written at the commit; the model writes the net change. Where
  a stop has already written `aborted` and the executor then fails, whether the ORM
  writes over it depends on what was flushed: `Conclude` leaves both open.
* `compute_next_run` answers `None` for a time that is missing or malformed, a cron
  expression that fails and an unknown schedule. Which recurring tasks have such a schedule
  is left open at the start (`create_task` stores them as completed; so is which tasks exist)
  and changes with `EditSchedule`, which is `update_task` with a new schedule.
* The end of a run computes the next date from the schedule its session has *loaded*
  (`NextAfterRun`); a commit of the executor in that session makes it read the row again
  (`Reload`, not for the actions of `_SILENT_ACTIONS`). The session emits no UPDATE for an
  attribute set to the value it was loaded with (`SaveNextRun`).
* An UPDATE of a deleted row changes nothing; runs of a deleted task lose their rows
  (foreign keys cascade) while their coroutines go on.
* A failing commit is modelled on the exception path, where the code handles it; other
  database errors are not.
* The default gate settings are assumed: enabled, no maximal wait.
* Run ids are used again once a coroutine has ended, so two ids stand for any number
  of successive runs; what is bounded is how many exist at the same time.
* `next_run` between now and now is not distinguished: deferral by 60 s, 15 or 20
  minutes is "later", and `ClockReaches` makes any date due at any time.

Things seen while modelling that are not properties: the comment "exactly one task runs
at a time" (lines 346-349) is older than `_task_needs_model_slot`, so housekeeping tasks
run beside model-backed ones; a task that is paused while its run waits at the gate
starts all the same, since its status is not read again.

### SharedCache

One key. `Call` is `_cached` up to its first await, `FetchReturns`, `FetchRaises` and
`FetchCancelled` are how the owner's fetch ends, `Wake` resumes a waiter. `Cancel` acts as
asyncio does: cancelling a waiter cancels the future it awaits, which all waiters share.
The model shows that other waiters are then cancelled without being asked; no comment
promises otherwise, so this is noted here only.

### AgentRuns

One chat session. `pc` is where `_drain` is suspended; `cancel` holds from `Task.cancel`
until the task ends, which covers the time the generator takes to clean up and to save
the partial answer. `into` is the run object that `_drain` finds in `_RUNS`. `conn`, `at`,
`queue` and `next` are a client's `subscribe` generator; `got` is a history of what it
received. Heartbeats change nothing and are left out. The generator is external: it
yields up to `MaxEvents` events, ends, raises, or passes a cancellation on, as the
generators of `chat_routes.py` do. A server restart empties all of this state.

`EventStream` is the abstract specification: answers that grow, are open or closed, and
readers that are given the next event, go away, or end with everything. It knows no task,
queue, buffer, time-out or timer. The mapping takes the length of a run's buffer for the
log, `status = "running"` for open, and what a client received for what it was given; a
client that joins is given the first event in the same step, because the replay loop
reaches its first `yield` before it awaits.

### BgJobs

| TLA+ | code |
|---|---|
| `proc`, `file` | the detached process and its exit file; `closing`/`empty`: the shell has opened the file and not yet written the code |
| `rec` | the record in the store; `why` stands for `timed_out`, `died`, `killed` or an exit code |
| `turn` | the live run of the session as `agent_runs.is_active` sees it; `stuck` is the run that never ends of section 6 |
| `at`, `todo` | the job the monitor follows up, and the rest of the list it took from `pending_followups` |
| `told` | answers about the job in the database |

Each function of `bg_jobs.py` is synchronous and called on the event loop, so it is one
step; `Look` is `get` and `list_for_session`, which refresh. The follow-up is in
`FollowUpEnds` and `FollowUpFails` (the model call fails, the save fails, the session is
gone) and lasts between two steps; turns start and end meanwhile. A process may survive its SIGTERM and write its
exit file after the verdict.

### ChatClient

A submission is one call of `handleChatSubmit` past the re-click guard; its `pc` is the
await it is at. `Blank` are conversations without saved messages. `SelectSession` is `selectSession` up to its first await, `HistoryArrives`
and `HistoryRendered` the rest. Of the DOM only `#chat-history` is kept: whose history it
shows, which answers, and which live bubbles are still in it. `ReadDone`, `Close`,
`Refused`, `ConnectionLost`, `ResponseTimeout` and `ReaderEnds` are the ways out of the
reader loop with their `catch` and `finally` blocks. Timers are armed or not; one that is
armed may fire at any time. `WouldWipe` is the guard of `selectSession` that returns
when the history of the conversation that was already current comes back empty while
messages are on the page; `box.kept` says that the latest opening ended there. The automatic recovery of a dropped stream is
not modelled, since no execution reaches it (section 6), nor are incognito conversations.

### Documents

All tabs share a textarea, and only `activeDocId` says whose text it holds. So a text is a
pair: the document it was written for, and a number. Every function of the panel is an
operator from `page` to `page`, composed as the code calls them. Half an animation, a
stream so far and a partly decided review are the one text `Mixture`. The store keeps the
last text that arrived; saves overtake one another. A review is the four module variables of
the diff, not the pane that draws it: it outlives a closed panel, as `closePanel` leaves them.
While it is on, the textarea holds old and new lines mixed, which a save stores as it is.
A closing panel calls `_finishClose` at the end of its animation and again after 200 ms:
`closes` counts the second calls that are to come. A new document belongs to the
conversation that was current before its POST (`sess`), which need not be the one on screen at the
reply. A failed load opens the panel or an empty editor (`LoadFails`, `EmptyEditor`).

### Downloads

One host, downloads only. A task's key is its session id; a queue ticket is a key without
a session. The list of all tabs of a browser is one (`localStorage`), the agent is a second
client of the server's file. `old` is the race window of the file (60 s). The answer to a
launch is decided when the request leaves; a reload drops what the page awaits. Which of
several tickets starts first is left open. `StartNow` is refused only for a ticket that is running with
`launched` (`_startLaunched`): the card's menu asks the status the card was drawn with, so it also
starts a ticket that has crashed, ended or gone, a second time; such a launch is told
apart (`again`). Histories: `started` counts the launches of a
ticket that waits or is being started, `reissued` are tickets that came back from an old copy, and
`lost` the sessions that the named holes (a failed kill, a stale list written back, a
reload between launch and answer) leave to themselves; the properties are about all the
others. The server's check that a
download posted as done is really complete is not modelled.

## 4. Runs

| run | instance | shows |
|---|---|---|
| `scheduler_safety` | 2 recurring tasks, or one that is edited and at times refused to its owner, or one event task with threshold 2; all model-backed, 2 simultaneous runs | `ModelRunsExclude`, `NoForgottenWaiter`, `NoLeakedMark`, `NoPhantomRows`, `RecurringStaysScheduled`, `TriggerKept` with every action, stop and restart included |
| `scheduler_live` | event task chained to a one-off, both model-backed | `EveryRunEnds`, `DueIsServed`, `NoDoubleDispatch` |
| `shared_cache` | 3 callers, 3 futures | `SingleFetch`, `CallsEnd` |
| `agent_runs` | 2 runs, 2 clients, 2 events (4 with a failure's) | `InOrderOnce`, `IdleRunsExpire`, `DrainsOwnRun`, `StreamsEndUnlessStuck`, and the refinement `ImplementsEventStream` |
| `bg_jobs` | 2 jobs of a session, 1 fault | `NoFalseSuccess`, `StoppedStaysStopped`, `ToldOnce`, `VerdictFinal`, `EveryJobHeard` |
| `chat_client` | 2 conversations, one of them empty, 2 submissions, 3 user steps, 2 faults, 2 queued requests | `ShowsCurrentOnly`, `AnswersShown`, `StopMeansStream`, `BackgroundHasReader`, `QueueHasDrain`, `ComposerFreed` |
| `documents` | 2 documents, 2 conversations, 2 texts, 4 steps | `OwnTextKept`, `NothingLost` |
| `downloads` | 2 models, 3 keys, 2 open operations, 3 steps or faults, 1 automatic retry | `TicketOnce`, `RemovedStays`, `EveryDownloadKnown` |
| `chat_switch_aborts` | as `chat_client`, 1 fault, 1 queued request | opening a conversation can abort its stream |
| `review_stays_home` | as `documents` | opening a conversation in a review overwrites its document |
| `marked_when_told` | as `bg_jobs`, no fault | a failed model call is marked as told |
| `tickets_wait` | as `downloads` | a waiting download crashes |

Most of the `TypeOK`s bound something the code must bound: the counter by the threshold, the
retries by their cap, decided chunks by the review's, the reader of a run
by its end.

**Why the bounds are enough.** The scheduler's conflicts are pairwise: two runs of one
task, or of two tasks that compete for the semaphore, plus whoever cancels them. Two
simultaneous runs and two tasks give all of these; dates and triggers concern one task and
its runs, so the edited task and the event task are looked at one at a time (`Scopes`: the others have no row). A threshold of two is the least at which
an event may only be counted. The third party that matters, a run dispatched while two exist, needs an
id to be free, which reuse provides. Three callers give an owner and two waiters of one
future. Two runs and two clients give replacement and several subscribers; run objects are
used again, so chains of replacements of any length occur. Two events are the least for
which replay and live delivery can overlap. Two jobs of one session are enough for the monitor to work on one
while the other is killed, and one fault for the repetition `ToldOnce` allows. In the page a conflict is between what is on
screen and one other thing, so there are two conversations, documents and models. Three
user steps send in two conversations and go back, or send, leave, and return; together
with two faults (a stream and the one that replaces it, or a stream and a history) background streams, resuming and
failed openings all occur. The empty conversation is one of the two, so that the guard in `selectSession` is met. Four steps in the
document panel type into one document, open a review, switch, and come back; they begin with an open
panel over stored documents, or in a conversation that has none yet (`InitStored`). Three keys
are a ticket, the session it becomes and another download; the automatic retry is bounded
by 1 instead of the code's 2, which only the count depends on. Users, faults and open requests are bounded by
counters in the guards (`MaxSteps`, `MaxFaults`, `MaxOps` and so on, named in the modules).
Where a bound is what ends a behaviour, deadlock is not checked: in the page a user who has done all his
steps, with no request open, leaves nothing to happen.

**Fairness.** The event loop resumes every coroutine that is ready (weak fairness of each
run's steps, of each client's steps, of the ticks and of the coroutine that stops
background work), and the browser runs every callback whose request is answered and every
timer. Executors, fetches, generators and runs end: their HTTP, MCP and subprocess
calls have time-outs. Nothing is assumed about the user; the scheduler's liveness
properties speak of behaviours in which he eventually stays away (`<>[]~foreground`), and
`scheduler_live` leaves manual runs, stops and restarts out, which could go on for ever.
`bg_jobs` assumes that the server is started again after a crash, that a live turn ends
unless it is stuck, and strong fairness of the monitor meeting a session idle: turns may
come and go, but not so that one is live at every tick. `documents` and `downloads` check
no liveness: what a page does next is up to its user.

## 5. Proofs

`TaskSchedulerProofs` proves, for every finite or infinite set of tasks and runs, every
assignment of triggers, chains and thresholds allowed by `TasksAssumption`:

* `TypeCorrect`: `Spec => []TypeOK`. The counter's bound needs the threshold test, and
  the type of `of` the fact (`HasTask`) that a run in flight has a task: `Typed` is
  `TypeOK` with this, and is inductive.
* `OneModelRun`: `Spec => []ModelRunsExclude`. Exclusion is not inductive; `SlotHeld`
  says that an unforced model-backed run beyond the queue *is* the run in `slot`. Every
  action that lets a run past the queue either requires `slot = r` or takes a free slot,
  and only `Exit` of the holder or a restart changes the slot.
* `OneRunPerTask`: `SpecUnstopped => []NoDoubleDispatch`. `OneDispatch` adds that the task
  of every unforced run in flight is in `executing`: the tick and `run_task_now` look
  only there, so a mark that outlives its run is harmless here but a run that outlives its
  mark is not. `Exit` takes one mark away, and the exclusion itself shows that no other
  run relied on it. A stop breaks this (section 6), so the theorem is about the
  behaviours without one.
* `RecurringKeepsDate`: `Spec => RecurringStaysScheduled`, an action property. No
  invariant carries it: an active recurring task *without* a good schedule has no date, and
  rightly. `DateStep` looks at each step from a typed state: who writes a task's date is one of
  admission (`AdmitWrites`), start (`StartWrites`), the end of a run (`EndWrites`) or a route,
  and each of them leaves a date where the schedule gives one or takes the task out of
  `active`, except the end of a run that had loaded an older, broken schedule. This exception
  is stated in the property.

`TaskSchedulerRunsProofs` proves the other three invariants of the scheduler, each with an
invariant of its own over the typed state, and the action property of the triggers:

* `NoWaiterForgotten` (`NoForgottenWaiter`). `QueueInv` says what the semaphore's queue is:
  every waiter is in it once, is suspended at the semaphore and is not the one it was
  handed to; whoever holds it is alive. The lemma `LeaveKeepsQueue` is the hand-over in
  `Exit`, which all ways out of a run share.
* `NoPhantoms` (`NoPhantomRows`). `RowInv` adds to it that a row of a deleted task is gone
  and that a run that is closing has its result still to write. A step either leaves an
  unfinished row and its coroutine alone, or the row is not unfinished afterwards.
* `NoMarkLeaks` (`NoLeakedMark`). `MarkInv` adds that an id that is free, or that a chain has
  just made, is nobody's forced run: such a run would begin without a mark to return.
* `TriggersSurvive` (`Spec => TriggerKept`). `TriggerStep` shows, action by action, that the
  date of an event task with an unanswered trigger is kept, also while the task is *paused*:
  otherwise resuming it would lose the trigger. The end of a run of the same task is the
  exception, and a real one (section 6).

`SharedCacheProofs` proves, for every number of callers and futures, `CacheTyped`
(`TypeOK`) and `OneFetch` (`SingleFetch`). The invariant adds `FetcherRegistered`: whoever
fetches owns the registered future, so a caller who finds none registered is alone. The
converse fails (a cancelled fetch leaves its future behind) and is not needed.

`AgentRunsProofs` proves, for every number of runs, clients and events, `RunsTyped`
(`TypeOK`), `OwnRunDrained` (`DrainsOwnRun`), `EventsInOrderOnce` (`InOrderOnce`),
`EndedRunsExpire` (`IdleRunsExpire`) and `RunsImplementEventStream`
(`Spec => ImplementsEventStream`). `InOrderOnce` alone is not inductive, because it says
nothing about what still lies in a client's queue. `Client` does: the queue holds the *last*
events of the run in order (`Tidy`), closed by the sentinel only when the run has ended;
the next event wanted by a live client is at or before the first one in the queue. From this
replay, live delivery and flush can repeat (and skip what they repeat) but leave no gap.
`AliveRuns` says that a task that has not ended serves a run marked running, and that one
that has not begun, and will, is the session's: hence each drain task finds its own run. The
refinement then maps each action to an abstract step: a publish is `Emit`, an end `Close`,
a delivery `Give`, and registration, cancellation, eviction and heartbeats are none.

`BgJobsProofs` proves, for every number of jobs, sessions and faults, `JobsTyped`,
`SuccessIsTrue`, `StoppedIsNotFollowed`, `ToldAtMostOncePerFault` and `VerdictIsFinal`
(`TypeOK`, `NoFalseSuccess`, `StoppedStaysStopped`, `ToldOnce`, `VerdictFinal`). The
invariant is one statement about each job (`Job`: what record, process and exit file say
of one another, and that a job on the monitor's list is finished and unmarked), one about
the count (`Tally`: each answer that was not followed by a mark cost a fault), and
`at \notin todo`.

`DownloadsProofs` proves, for every number of models, keys, open requests, steps and
retries, `DownloadsTyped` (`TypeOK`), `TicketsStartOnce` (`TicketOnce`), `RemovedStayAway`
(`RemovedStays`) and `DownloadsKnown` (`EveryDownloadKnown`). None of the last three is
inductive, because each speaks of the list of the page only and a list comes back from
copies: the file, the answer of a poll, the snapshot of a dialog. `KeyInv` says what the copies can
hold: a key not handed out is unknown to all of them (`FreshKeys`), a session named in an
answer under way is unknown to all but that answer (`PendingKeys`), only tickets are ever
waiting (`ListTickets`, `CopiesTickets`), a listed ticket that was started says so (`LaunchMarks`), each open operation still is about what it was about when it
began (`SoundOps`), and a running download that is not lost has not been removed (`LiveKeys`). A step is
summarised as what it does to sessions, list, counts, operations and file (`HostStep`,
`ListStep`, `CountStep`, `OpsStep`, `FileStep`); each summary preserves one part of `KeyInv`.

`ChatClientProofs` proves, for every number of conversations, submissions, user steps,
faults and queued requests, `ChatTyped` (`TypeOK`), `CurrentOnlyShown` (`ShowsCurrentOnly`),
`AnswersReachScreen` (`AnswersShown`), `StopIsStream` (`StopMeansStream`), `BackgroundRead`
(`BackgroundHasReader`) and `QueueDrained` (`QueueHasDrain`). The invariant has two halves. `StreamInv` is about
the life of a submission: what its phase says of its conversation and its run (`Phases`), that a registered
stream has a living reader of that conversation (`ActiveReads`, `BoundStream`), and that the re-click guard is held by a
submission that will free it (`SendUnderWay`). `ViewInv` is about the page: the latest
navigation is the only one and is of the current conversation (`NavsOpen`); a resumed run is
the conversation's (`ResumedRuns`); "Loading chat" is painted only during an opening or after a failed one (`TimerOpening`); a background stream on screen is polled (`MarksPolled`),
unless the guard left the page as it was, where a stream about to close is a foreground one (`KeptClosing`);
and, the invariant behind `AnswersShown`, somebody is left who will show an answer that is
not on screen, while it runs and after it ended (`AnswersFound`). The proof also tested
`QueueHasDrain`: its first form, a drain timer or *any* submission in flight, is false once two
requests can be queued, since the drain timer can fire in the first awaits of a later send
that is then given up, and nothing arms it again. The property now names this hole, and the
run queues two requests.

`DocumentsProofs` proves, for every number of documents, conversations, texts and steps,
`DocumentsTyped` (`TypeOK`), `TextsStayOwn` (`Spec => OwnTextKept`) and `WordsNotLost`
(`Spec => NothingLost`), the last two action properties. They need only a small invariant,
`DocInv`: texts that nobody wrote are in the places where they can be, the chunks of a review add
up, an open panel is in the page and has no chip, the active document is a tab unless the
chip of a closed panel was closed (`Panel`), and the store has no text of a document it does not know
(`AbsentBlank`). Since the functions of the panel are operators from page to page, the
lemmas are about those operators, as they call one another: what each does to a page (`...Does`), that it
leaves every document its own text (`...Own`) and keeps the user's words (`...Words`). An action
is a composition of functions, and its lemma (`...Fine`) a composition of theirs.
The proof refuted an earlier `NothingLost` without its exception for a review that outlived
its pane. The counterexample takes thirteen steps (an agent's edit opened as a review, the panel
closed, its conversation reopened, a new document begun by typing, Escape), with more user
steps than the run allows; TLC confirmed it when it was told to follow those steps. Section 6 lists the behaviour.

Every inductive step has one case per action. None needs fairness, and apart from the
stop in `OneRunPerTask` nothing is assumed about who cancels. The theorems rest on the
named assumptions of the modules only: that the "no ..." constants are not members of the
sets, that bounds are natural numbers, and `TasksAssumption`.

So every invariant and every action property of the passing runs, and the refinement, is a
theorem for all values of the constants; `NoDoubleDispatch` for behaviours without a stop.
Only model-checked are the liveness properties (`EveryRunEnds`, `DueIsServed`, `CallsEnd`,
`StreamsEndUnlessStuck`, `EveryJobHeard`, `ComposerFreed`): liveness under fairness needs
`ENABLED`, which is out of the proof system's reach, as is induction over data (`ChainFrom` is a
function, and the proofs only use its range). The four runs of section 6 end in a counterexample,
which needs no proof.

## 6. Divergences between comments and code

Four runs end in a counterexample; each quotes the line it contradicts in
`PROJECT.json` "findings".

* `chat_switch_aborts`: opening conversation B from a conversation without a stream aborts
  B's own stream, because B is current before the old one is detached.
* `review_stays_home`: opening a conversation in the middle of a review saves the reviewed
  document's text into the other conversation's document (the fault of issue #2467 on a
  path its fix does not cover).
* `marked_when_told`: a follow-up whose model call fails is saved empty and marked.
* `tickets_wait`: the status poll, or the ticket's own open card, turns a waiting download
  into a crashed one.

Others were met while modelling and are stated here only; where one touches a property,
the property names it as an exception and shows that nothing else does it. `src/` is short for
`src/source-tree/src/`, and so on.

Scheduler, cache and runs:

* `stop_task` removes the mark of a run that is still ending, so the task can be dispatched
  a second time beside it (`src/task_scheduler.py:2235`, against the comment at 339-342).
* `stop_background_tasks_for_foreground` is taken for a stop by the user: an interrupted
  one-off loses its date (963, against the docstring at 2246-2249).
* An event task whose executor raises keeps its past date and is dispatched by every tick
  (1110, against the comment at 1107-1108).
* An event that reaches its threshold while its task executes resets the counter and sets
  the date to now; `run_task_now` declines a task that is executing, and the end of that run
  clears the date (1024-1025): the trigger is lost, against "makes the trigger survive" in
  `src/event_bus.py:104-108`. The exception of `TriggerKept`.
* A schedule edited during a run can be overwritten: the end of the run computes the next
  date from the schedule its session loaded before (1015-1020). A one-off given a new date
  during its run is completed all the same.
* A cancelled fetching caller leaves an unsettled future registered; every later caller of
  the key waits for ever (94, against the docstring at 68).
* A chat run cancelled before it drains stays "running" and sends no sentinel
  (`src/agent_runs.py:99`): its clients get heartbeats for ever, the gate stays shut, and
  follow-ups of the session are deferred for ever. Three quick sends let two runs write at
  the same time (149).

Background jobs:

* The follow-up of a deleted session is retried for ever: `get_session` raises `KeyError`,
  so the branch for a missing session (`src/bg_monitor.py:86-90`) is never reached.
* A turn that starts during a follow-up writes the same history. An exit file that is read
  while it is empty counts as code 1: a successful job may be reported failed. A crash
  between `Popen` and `_save` loses the record.

Chat page (`static/js/chat.js`):

* With conversation A on the page, opening the empty conversation B twice leaves A's messages
  there under B: the guard against wiping unsaved messages (`static/js/sessions.js:1984-1991`)
  compares B with the conversation that was *current*, which the first click has made B, and not
  with the one whose messages are on the page ("we're already showing the right content",
  1988). The exception `box.kept` of `ShowsCurrentOnly`.
* A dropped stream is never recovered: the `catch` block (3764) uses constants declared
  inside its `try` block (`streamingTTS` 1900, `abortCtrl` 1719, `_isAgent` 1724), so it ends in a
  `ReferenceError` before `_tryAutoRecover` (3910), its only caller, against the comments at
  3904-3909 and 4058.
* The queue belongs to no conversation: a queued request is sent in the one open at that
  moment. A second "send next" clears the timer of the first (909-920).
* Stop before the stream is registered does nothing. The `finally` block removes the
  conversation's entry in `_activeStreams` even if a later stream has taken it (3927).
* A bubble may be appended to the history of another conversation (1815).

Document panel (`static/js/document.js`):

* Closing a tab that is not active saves the active one; its own last text is dropped with
  the tab (4611-4620). `loadSessionDocs` drops tabs without saving (7329-7331), and answers
  of two calls may come in either order.
* The chip's restore builds an empty pane and switches to the document it already holds
  active, saving the empty text; closing that tab then deletes it (6880-6889).
* Closing the panel does not leave a review: `closePanel` (6894) lets the diff state
  stand, and the next Escape, switch or update in the reopened panel puts the reviewed text
  into the editor and saves it into the document shown by then (8853-8917, 5893).
* The second call of `_finishClose`, 200 ms after a close, clears the active document of a
  panel that was opened again meanwhile and then minimised or closed once more (6940-6975).
* A new document is given to the conversation that was current before its POST
  (7015-7017), also when another one is on screen at the reply.
* A save's reply overwrites the tab with the text of the request (9444-9446).
* The 300 ms timer that ends a review does not know which review it was armed for (8801);
  animation frames of an AI edit go on after a switch (10302).
* `createDocument` and `_autoCreateFromInput` test the textarea before, and use the answer
  after, an await. `handleDocUpdate` captures the textarea before it opens the panel (10711).
* A save of a temporary document that is not yet stored is answered 404 and drops the tab.
  `restoreVersion` and `previewVersion` use the active document after an await.

Cookbook (`static/js/cookbookRunning.js`):

* "Clear finished" writes back the list it read before its dialog (2239-2256).
* "Start now" launches a ticket a second time once it has crashed, ended or gone, also while
  its first POST is under way: the card's watcher (3135) or the poll (4214) has called it crashed, the
  menu asks the older status the card was drawn with (2619-2623), and `_startQueuedDownload`
  refuses only a running one (691), against its comment (683-686). `TicketOnce` does not count
  such launches.
* Stop removes the card although the kill failed (2888-2903); the answer of a stalled
  download's restart is lost if its card was removed (3412).
* Two clicks on Download launch twice (`cookbookDownload.js:557-638`), and the probe of a
  finished task goes on with the list as it was before the probe (608).
* The queue is not looked at when a download's end is noticed by the poll only.
* A task the agent registers can be dropped by a synchronisation after 60 s
  (`routes/cookbook_routes.py:3443-3462`), and a ticket that was renamed meanwhile is kept
  there and merged back.

## 7. Not modelled

What executors, providers, agents and tools compute; notifications; wording, rendering and
layout; time zones and cron expressions (only whether a next date exists); several owners;
several events handled in one batch; serve tasks, dependency installs and Windows hosts of
the Cookbook; version history, e-mail and PDF documents of the panel; and the components
marked so in section 1 and in `PROJECT.json`.

Most of the repository's lines are JavaScript, about 141,000, and most of those are windows
that render what the server answers and post forms: mail, notes, settings, galleries,
themes. They have no state between two requests that a model could say something about.
The models of the front end stand for about 4,100 of these lines: the parts of `chat.js`,
`sessions.js`, `document.js`, `cookbookRunning.js` and `cookbookDownload.js` that decide
something. A model check covers these decisions, not the lines around them that draw.
