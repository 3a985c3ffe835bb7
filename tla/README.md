# FatRat: specification, model checking and proofs

FatRat is a download manager: transfers sit in queues, a queue manager starts and
stops them within each queue's limits, and they are driven from a desktop window, a
REST interface with a web page, a scheduler, watch folders, RSS feeds and Python
plugins.  This directory specifies the life of transfers and queues, the threads and
locks around them and the file they are kept in; the questions plugins ask the user;
the loading and unloading of plugins; and the web page, whose requests and pushed
messages race with each other and with other clients.

| file | what it is |
|---|---|
| `TransferQueue.tla` | states of transfers, `Transfer::setState()`, `QueueMgr::doWork()`, every command that changes a state, a place or a limit |
| `QueueStore.tla` | the list of queues, `g_queuesLock`, REST requests and their calls to the main thread, saves of `queues.xml`, the end of the process |
| `Custody.tla` | abstract: where a transfer may be, and where it may go from there; `TransferQueue` and `QueueStore` implement it |
| `Lease.tla` | abstract: what the users of something that others delete rely on; `QueueStore` and `PluginRegistry` implement it |
| `Question.tla` | abstract: a question put to the user has one outcome |
| `PluginTask.tla` | a plugin's task, its threads, questions, timers and pushes; implements `Question` |
| `TaskPage.tla` | a web page that follows and answers the task over a socket that drops; extends `PluginTask` |
| `WebClient.tla` | a web page that shows queues and transfers and deletes them |
| `PropertiesDialog.tla` | the dialog on that page that edits transfers; extends `WebClient` |
| `PluginRegistry.tla` | a plugin that is installed, loaded, replaced and removed while transfers use it |
| `MC*.tla`, `MC*.cfg` | small instances for TLC |
| `*Proofs.tla` | theorems for every value of the constants |
| `PROJECT.json` | components, runs, hazards, findings, and the source lines of each definition |

Operators whose name ends in `Mutant` (and `HasSlotOneMore`, `HasSlotLastFirst`) are
variants of a definition with a plausible bug.  No specification uses them; each
property is shown to fail when one of them takes the place of the definition after it.

*On line counts.*  The files named `.ts` are of two kinds: about 6,900 lines of TypeScript
(the web interface, beside 9,200 of its tests) and about 112,000 lines of Qt Linguist catalogues in
`src/locale`, XML without behaviour.  The program proper is C++.  A share of covered
lines taken over all `.ts` files is therefore below 6 percent, whatever is modelled.

## Inventory

Paths are relative to `src/src/`.

### Transfers (`Transfer.cpp`, `RetryPolicy.h`)
*State*: `m_state` (Waiting, Active, ForcedActive, Paused, Failed, Completed),
`m_lastState`, `m_mode`, `m_bWorking`, `m_nRetryCount`, and whether the engine runs.
*Operations*: `setState()`, `setMode()`, `retry()`, `load()`, `replaceItself()`.
*Interactions*: `setState()` calls the engine's `changeActive()`, which may call
`setState()` again before it returns, and emits `stateChanged` synchronously to
`QueueMgr`; a failure queues `retry()` on the main thread.
*Hard*: re-entrance, flags that are read after an inner call has changed them,
retries that run after the user has done something else.
*Correct when*: the engine runs exactly while the state is active; saved or queued
state is never applied to a transfer that has moved on.

### Queues and the queue manager (`Queue.cpp`, `QueueMgr.cpp`)
*State*: `g_queues` under `g_queuesLock`; per queue `m_transfers` under its own lock,
transfer and speed limits, `m_bUpAsDown`; in `QueueMgr` the map `m_paused`.
*Operations*: `doWork()` once a second; pause/unpause all, start/stop all, stop/resume
all (scheduler), reordering, add, take, remove; `saveQueues()`,
`saveQueuesAsync()`, `loadQueues()`, `stopQueues()`, `unloadQueues()`.
*Hard*: limits counted over a mix of states, modes and lanes; background saves beside
changes and beside the shutdown; a walk over all queues that locks one at a time.
*Correct when*: limits and the order of the queue decide who runs, forced and paused
transfers are left alone, no waiting transfer starves, `queues.xml` has each transfer
where it belongs and ends as the process ends.

### Calls between threads (`TransferFactory.cpp`, `TransferAdder.cpp`)
Transfers live on the main thread.  Worker threads create and initialise them with
blocking calls to it and post state changes with a raw pointer.
*Hard*: a blocking call made with a lock held, or when the event loop has ended; a
pointer that outlives its object.
*Correct when*: no posted call meets a deleted transfer, which the roll-back of a request
with several links violates (see Findings); every request is answered.

### REST requests and the HTTP server (`remote/`)
Requests run on the server's threads.  A `QueueGuard` or `TransferGuard` holds
`g_queuesLock` for read; creating and deleting queues take it for write; moving is a
take and an add; deleting runs `setState()` on the worker.  `~HttpService()` joins the
threads.  *Hard*: two requests on one transfer, a queue deleted under a request, a
shutdown that waits for a worker that waits for it.

### Shutdown and restart (`fatrat.cpp`)
A signal ends the event loop; the server is joined, engines are stopped, the queues
are saved and (except on restart, which calls `execvp()`) unloaded.

### Plugin tasks and transfer actions (`plugins/Task.cpp`, `plugins/TaskManager.cpp`, `remote/RestTasks.cpp`, `remote/TaskPush.cpp`)
*State*: a task per plugin action: state, progress, whether it is cancelled, the open
question and who waits for the answer (`m_waiters`); the
list of tasks; per task what was pushed last and whether a push is held back.
*Operations*: `ask()`, `askBlocking()`, `answer()`, `dismissPrompt()`, `cancel()`, `finish()`,
`setProgress()`; creating, dismissing and retiring tasks; REST requests; pushes.
*Interactions*: worker threads of the plugin call the task and block; what needs the main
thread is queued on it; front ends answer through it.
*Hard*: cancel, finish, answer, timeout and ask at once; a check under a mutex that is acted
upon after it; messages about changes from two threads.
*Correct when*: every question has one outcome, nobody waits for ever, the answer that was
accepted reaches who asked, and what front ends were told last is true.

### Plugin leases and registry (`python/PluginLease.cpp`, `PluginRegistry.cpp`, `PluginRepository.cpp`, `remote/RestPlugins.cpp`)
*State*: installed files, the "enabled" setting, what is loaded, whether it drains and what
is to follow (`reloadAfter`, `uninstallAfter`), leases of transfers.
*Operations*: enable, disable, install, reload, uninstall, from clients and the
desktop; the check when the last lease ends.
*Interactions*: closures run on the main thread while the caller waits; `PluginRepository`
has a mutex that such a closure may wait for.
*Hard*: what is deferred until transfers end, in any order; steps of two clients;
a mutex against the main thread.
*Correct when*: what transfers use stays loaded, draining ends, requests are answered, and what is
loaded in the end is what is installed and enabled.

### Web interface (`../webui/src/app`)
*State*: stores for queues, transfers and tasks, the selection, dialogs, and every
request under way.  *Operations*: polling, selecting, deleting, editing, answering questions, plugin requests.
*Hard*: answers that overtake each other, changes by other clients between a question
to the user and what follows from the answer, dialogs closed and opened again while their
requests are under way, a socket that drops.
*Correct when*: commands reach what the user sees and has chosen, tables do not go back to
older answers, and after the last change the page shows what there is.

### Watch folders (`watch/`)
On the main thread, after a change notice, a follow-up timer or once a minute, a scan takes
the files that have not changed for two seconds, adds what is in them to the queue and renames
them to `.added` or `.failed`.  *Hard*: a file that changes while it is read or added, a failed rename, a
queue deleted by a request during the scan, an end of the process between adding and renaming.

### Scheduler (`Scheduler.cpp`)
Recurring and one-time actions on queues, checked by a timer.  *Hard*: missed
times, an action edited while it is due.

### Engines (`engines/`)
`CurlDownload` and its poller thread (segments, failing URLs, a file that is written by
several segments), `TorrentDownload` (libtorrent), `MetalinkDownload` (replaces itself by
other transfers), Python engines (behaviour in plugins outside the repository).

### The rest
RSS, captchas, event pollers, settings and log, D-Bus and notifications, the terminal
interface (a REST client) and the desktop windows hold little state the above depends
on; `PROJECT.json` says why each is left out.  Python code under `data/` and `examples/`
is plugins and their development kit; `autotests/` and `doc/` were read as
statements about the code.

## What the modules model

### TransferQueue

A step is a handler of the main thread (a timer tick for one queue, an engine's signal,
a desktop or scheduler command, the oldest posted event) or one locked operation of a
REST worker.  That is the grain at which the program interleaves: the event loop runs
one handler at a time, and workers touch `m_transfers` only under the queue's lock.
`doWork()` lets go of one queue before it locks the next, so it is one step per queue
(`TickQueue(q)`, with `tick` for where it is), and workers come in between.

`AfterSetState` is a whole `setState()` with what happens inside it: `outcome` says how
the engine's start ends (it runs, fails, fails once per segment, or has all its
data), `Started` computes what that leaves in `m_state`, `m_lastState` and
`m_bWorking`, `PostsRetry` and `Forgets` what `QueueMgr`'s slot does.  `SetStates` is the
call on several transfers in order, so that retries are posted in that order.

| variable | code |
|---|---|
| `queue`, `limit` | `Queue::m_transfers`, `m_nDownTransferLimit`/`m_nUpTransferLimit` |
| `transfer` | the members of `Transfer` named above; `forced` is "`m_lastState` is ForcedActive", all `retry()` asks of it |
| `life` | whether the object exists: created by a worker, in use, deleted, or deleted by the worker that created it |
| `handover` | a transfer a worker has created or taken and not yet added |
| `posted` | Qt's event queue of the main thread: `retry()`, `setStateSlot()`, deferred deletes |
| `paused` | `QueueMgr::m_paused` |

Simplifications: a transfer's speed is one bit, chosen freely at each tick;
`fireCompleted()`, logs, graphs and the moving of finished data are left out; REST
deletions run as one step though they call `changeActive()` on a worker (see the
hazards); `RetryCount + 1` stands for every greater count, which `shouldRetry()` cannot
tell apart.

A request with several links creates and sets one transfer after the other (`CreateTransfer`), and
adds them all at the end (`HandOver`); if a link fails, the worker deletes those it has (`RollBack`).
Which transfers belong to one request is left out: the model also has requests that add some
and discard others.  A `setState()` posted for a discarded transfer meets a deleted object
(`RunDanglingSet`).  That is undefined behaviour, of which the model has every outcome the other properties could
tell apart: nothing happens, or another transfer at that address is set.  A crash ends the
behaviour, as it may end at any step.

### QueueStore

Here a step is what a thread does between two points where it may have to wait: for
`g_queuesLock` (readers and writers; a waiting writer keeps new readers out),
`s_saveMutex`, an answer from the main thread, or another thread's end.  `pc[th]` is that
point.  A thread waiting for the main thread is served only when `pc[Main] = "loop"`, so
deadlocks of the real program are deadlocks of the model.

| variable | code |
|---|---|
| `queues`, `known`, `doomed`, `freed` | `g_queues`; transfers created; queues posted to `deleteLater()`; deleted ones |
| `readers` | holders of `g_queuesLock` for read (writers hold it within one step) |
| `saving`, `doc`, `tmp`, `file` | `s_saveMutex`, the document of a save, `queues.xml.new`, `queues.xml` |
| `loaded`, `stage` | `m_bLoaded`; whether the process is up, exiting or restarting |

A save truncates `queues.xml.new`, walks the list a queue at a time, writes (perhaps less than all:
`Torn`) and renames, which may fail.  The process may be killed between any two steps: what is then on
disk is `file`, so that an invariant on `file` is one about crashes.

`dragged` is a history variable: the transfers the desktop has dragged to another queue (`Drag`) since a
save was last asked for.  `dropMimeData()` asks for none, so that until the periodic save
`queues.xml` has them where they were, and `SettledFile` is about the others.

Simplifications: the list of queues has no order; which lines of a handler of the main
thread work on the queues is summed up in `Handler`/`EndHandler`; each caller has one
saver and asks for no further save until that is gone; states and limits of transfers are
in `TransferQueue` only.

### Custody and Lease

`Custody` says where a transfer may be (unborn, in a queue, new or taken and with somebody who will
add it to a given queue, removed, deleted) and which ways lead from one to another; only who
has created a transfer may give it up.  Each of the two
models above maps its state to that place with `PlaceOf`.  In `TransferQueue` the queues are
sequences, the hands `handover`, and `removed` a posted delete; in `QueueStore` the hands are
`hand` and `dest` of a thread, and the queues themselves are deleted, merged and unloaded meanwhile,
at the grain of `g_queuesLock`.  The mapping falls apart where a transfer is in two places, so
that the implementation is about that too.

`Lease` is what two unrelated parts rely on in the same way: a request on the queue it has found
(`Found`), and a transfer on the version of the plugin it was created from (`Leases`).

### PluginTask and Question

A step is a handler of the main thread (a request of a front end, a timer, the oldest
queued event), or what a worker thread does under one hold of `Task`'s mutex.  Where the
code checks under the mutex, lets go and acts, there are two steps: `BeginAnswer`/`EndAnswer`,
`BeginDismiss`/`EndDismiss` and `FinishSet`/`FinishTell`.

| variable | code |
|---|---|
| `state`, `progress`, `cancel`, `prompt`, `closed`, `waiters` | `m_state`, `m_progress`, `m_cancelRequested`, `m_prompt`, `m_closedPrompts`, `m_waiters` |
| `outcome` | `Wait::result` of a thread, or what the callback got |
| `thread`, `main` | where each thread is: blocked on a question, within `finish()`, within `answer()` or `dismissPrompt()` |
| `posted` | what the task has queued on the main thread |
| `listed`, `removal`, `alive` | `TaskManager::m_tasks`, the retention timer, the object |
| `told`, `held` | `TaskPush`'s last message, and whether a change is held back |

`Question` says what `Task.h` promises the plugin: each question that is put gets the user's
values, or nothing, once.  `OneOutcome` is `Question` with `outcome` for its variable, a property
of `TaskSpec`: several threads, timers and queued calls implement steps that are one at a
time.  One task is modelled, since tasks do not act on each other.

### TaskPage

`PluginTask` with one web page (`shown`, `handled`), its socket (`open`, `registered`,
`wire`), its requests (`loads`, `reply`), and two history variables: `dismissed`, and `overtaken`,
which says that the list and the pushes have crossed in one of the ways the code has no guard
against.  Every step of the task pushes what `Announce` says it does to the socket, if
registered; a drop loses what is on the wire; a request fails before or after the
server has done it.

### WebClient and PropertiesDialog

Each handler of the page (a click, a tick, an answer, an effect) is a step, and so is what
the server does for a request or for another client.  Requests are variables (`gets`,
`fetch`, `deletion`, `count`, `removal`) that hold the answer once they have one, so they
overtake each other freely.  `PropertiesDialog` adds the dialog's fields (`form`), its
`loads` and `saves`, and the history `opened` and `edited`; its `Next` is the page's steps
(with the dialog closed or open as the code allows) and its own, and the page's theorems carry over
through `DialogIsWebStep`.  Transfers have neither order nor state here: that is `TransferQueue`.

### PluginRegistry

One plugin.  A step is a closure of the main thread (`runOnMain()`), a change of
the installed files under the mutex of `PluginRepository`, or the beginning or answer of a request.  A
worker that needs the main thread waits until it is in its event loop and no closure
waits for the mutex (`CanRun`); the desktop's page runs its requests on the main thread itself.

| variable | code |
|---|---|
| `files`, `enabled` | the directory of the plugin; its setting |
| `plugin` | its elements of `s_loaded` and `s_side`: version, whether it works, draining, what follows |
| `uses`, `checks` | leases of transfers; calls of `finishDrains()` that they posted |
| `pc`, `message`, `removing` | each thread's place in its request; what its client shows; the closure that waits to remove files |
| `stayed` | history: a removal has left the files untold, and no request has looked at what is loaded since |

Removing files may fail.  A worker then answers with an error (`RemovalFails`), unless what stays is a link,
whose removal nobody checks (`RemoveFiles`); a removal that was deferred has been answered long before and
its failure is only logged (`RemoveUnloaded`).  `SettledMatches` leaves out the states in which
such files have `stayed`: the plugin is then installed and enabled, and not loaded.

Simplifications: an upgrade is an install of any version; pip, git and import appear as
the ways they end; a page keeps its last message until its next request.

## Runs

| run | what it shows | instance |
|---|---|---|
| `queue_core` | engines follow states, `m_paused` is forgotten when it must be, `doWork()` keeps limits and order and leaves other transfers alone, no transfer is in two places, or set after its deletion unless its creator discarded it | 2 transfers, 2 queues with limits of one, autoremove; either one queue in use and every command and odd REST state, or both and no transfer forced or paused; 0.9 M states |
| `queue_live` | waiting transfers with room start, completed ones are removed; transfers go only where `Custody` says | a torrent and a download, limits that change; 0.1 M |
| `queue_unpause` | undoing "Pause all" does **not** restore every transfer | 2 transfers |
| `queue_pause` | a paused transfer does **not** stay paused if its retry is queued | 1 transfer |
| `store` | no queue is deleted under a request, no saver outlives the queues, saves do not mix, the file settles but for what was dragged, the last save is the one that stays | 2 queues, 1 transfer, 3 savers; either 2 workers and a good disk, or 1 worker with every request, the restart and a disk that fails at any point; 5.2 M |
| `store_live` | every request and the shutdown end, if no request calls the main thread | 1 worker; 0.1 M |
| `store_quit` | the shutdown does **not** always end with requests that do call it | 1 worker, options |
| `store_add` | an add request does **not** always end while the process is up | 2 workers, add and createQueue |
| `tasks` | `PluginTask` implements `Question`, nobody waits for ever, answers arrive, and the page shows what there is | 2 threads, 2 questions; or 1 and 1 with a page; 0.6 M |
| `web` | what is selected is shown, nothing unasked is deleted, the dialog edits and shows what it was opened for, the table never goes back, the page settles | 2 queues, 2 transfers, 2 openings and saves; 0.5 M |
| `plugins` | what transfers use stays loaded, drains end, requests are answered, one page gets what its answers said, unless a removal failed untold | 2 transfers, 2 versions; a page, or with it the desktop, or another client; 0.15 M |
| `plugins_reinstall` | a plugin removed and installed again while in use does **not** take over | 1 transfer, one page |

Two runs are bounded by a `CONSTRAINT` (`Bounds`): TLC checks every state it reaches, and
goes on from those within the bounds.  Neither checks liveness.
- `queue_core` (`MCTransferQueue`): the second queue unused, with every command and every
  state a REST client may ask for (`SecondUnused`); or transfers added, moved and removed between the two, none
  of which is forced or paused (`NonePaused`).
- `store` (`MCQueueStore`): the first worker alone, with every request, the desktop's drag, the restart
  and a disk that fails at any save; or both, as the first adds or moves while the second creates, deletes or
  moves, the disk being good, the application not restarted and nothing dragged since a save was asked for.  A second worker adds nothing to a
  failing disk, since saves come from the savers.

Three runs hold several instances, told apart by `visit`, a variable that is chosen at the
start and never changes: what one visit is not about is held small there (`Small`, `Bound`).
- `tasks` (`MCTaskPage`): `none`, the task alone, two threads and two questions; `watch`, a
  page whose socket drops and whose lists overlap; `answer`, a page whose user answers.  With a page there is one
  question: it can be answered here and elsewhere, expire, and be hidden, which is all a page tells apart.
- `web` (`MCWeb`): `browse` (two changes by others, a failure, two polls), `delete`, `remove`
  (a queue), `edit`.  `Settles` is really exercised in `browse`; in the others the page
  has less to catch up with.
- `plugins` (`MCPluginRegistry`): `page`, `desktop`, `clients`.

The next-state relation of such a run is the module's own, with the visit's bounds; each of
the module's actions was seen to be taken in one visit or another.

*Why these bounds are enough to be of use.*  Limits and order need two contenders for one
place.  A move needs a source and a target.  A race of two requests needs two workers, and
a save racing a save needs two savers; the main thread has one of its own as well.
`MaxPosted = 1` bounds when a new event may be posted from outside, not the length
of the queue: handlers that the event loop runs may post more on top (a tick that
fails every transfer posts a retry for each), and removing one posts its delete.
`RetryCount = 0` with `RetryWorking` reaches both answers of `shouldRetry()`.  The values of
limits seen are none (< 0), 0 and 1.  Two questions show that one asked after another's
end does not get its answer; two lists and two messages on the wire can cross in every order; two polls can
overtake each other; two openings are needed for an earlier save to meet a later one.
Two versions and two transfers let an old version drain while a new one waits; `MaxChecks = 1`
bounds the posted checks, each of which does what one would.  The theorems below
have no bounds on transfers, queues, threads, questions, clients or counts.

*Deadlock* is checked for TransferQueue, where a timer always ticks again, and for PluginRegistry.
It is not for the others: a process that has ended takes no step (`down`, `gone`), a task and the
application end, the bounds on a page's changes and failures are used up; the program's own deadlocks are
the violated runs of QueueStore, stated as liveness.

*Fairness.*  TransferQueue: weak fairness of a tick (a repeating timer), of running the oldest
posted event (the event loop) and of a worker finishing a hand-over it has begun, or giving it up.
Users, clients and engines owe nothing.  QueueStore: a thread that can go on does;
strong fairness for each thread, since a lock that is taken and released
again and again is not enabled all the time, and `QReadWriteLock` and mutexes pass over a thread for ever only in an endless
stream of overlapping requests; the event loop gets to every call posted to it.  Clients and
users owe nothing, nor does the timer.  PluginTask (`TaskFairness`): the event loop runs what is posted, timers fire,
a thread that has been woken or is in `finish()` goes on; the user never has to answer.
WebClient (`WebFairness`): the poll ticks, an effect runs, requests are answered and
the answers arrive, strongly for the transfers' fetch, as a tick cancels the one
before it: a server that always takes longer than the interval would starve it, and is
excluded so.  PluginRegistry: strong fairness of the event loop's checks, of a closure
that waits for the mutex, and of each thread that serves a request, for the reason given for locks;
neither clients nor transfers owe anything.

## Findings

1. *Undoing "Pause all transfers"* (`QueueMgr.cpp:331`, run `queue_unpause`).  The
   `setState()` of the first transfer restored makes `transferStateChanged()` clear
   `m_paused`; the others stay Paused.  The manual says they are put back.
2. *A retry starts a paused transfer* (`Transfer.cpp:506`, run `queue_pause`).  `retry()`
   is queued at the failure and does not look at the state it finds.
3. *Shutdown can hang* (`HttpService.cpp:128`, run `store_quit`).  The main thread joins
   workers that may be blocked in a call to its event loop, which has ended; nothing
   is saved then.
4. *Adding a link can deadlock* (`RestResources.cpp:762`, run `store_add`).  The worker
   holds `g_queuesLock` for read while it waits for the main thread, which waits for that
   lock for write, or for read behind a waiting writer.
5. *A plugin installed again is removed* (`PluginRegistry.cpp:576`, run `plugins_reinstall`).  Removing a
   plugin in use is deferred; installing it again copies the new files and defers the
   reload, and the page says that "the new one takes over".  Nothing withdraws the
   removal, which comes first in `unloadNow()` and deletes the new files.

The models also contain these, of which no document says otherwise, so that the
properties name them as exceptions or allow for them:
- a request with several links that fails at a later one deletes the transfers of the earlier ones on
  the worker (`TransferAdder.cpp:111`), while `setStateSlot(Transfer*)` is posted for each
  (`TransferFactory.cpp:73`): the main thread then calls a deleted object (`NoDanglingEvents`);
- transfers dragged to another queue on the desktop are saved only by the periodic save
  (`QueueView.cpp:48`; `SettledFile`), and the result of `rename()` is not looked at (`Queue.cpp:306`);
- a deferred removal of a plugin that fails is only logged, and a link that cannot be removed goes
  unnoticed, though the client was told that it is done (`PluginRegistry.cpp:580`, `PluginRepository.cpp:848`;
  `SettledMatches`);
- a queue counted as full is deleted with what others have added since the user was asked;
- a properties dialog whose transfers are all gone closes as if it had saved;
- the task list computed before a push and arriving after it stays on the page until the next
  change (`PageCurrent`), and so may a wrong progress, since GET /tasks does not go through `TaskPush`;
- a failure of the transfers' list is never cleared once the last queue is gone: "Connection
  lost" stays (`UpToDate`);
- an older answer to GET /queues overwrites a newer one until the next tick;
- a count that arrives late replaces the question shown by then;
- an earlier save's PATCH may reach the server after a later one's;
- DELETE of several transfers ends half-way if one of them is gone by then;
- a failed upgrade has removed the files of the version that still runs, and the
  last step of `uninstall()` may remove what another client has installed meanwhile (`SettledMatches`).

Smaller hazards seen while reading and not followed: `resumeAll()` starts transfers beyond the limits until
the next `doWork()`; bulk reordering at the ends of a queue; division of speed limits; a segment
that fails to start clears `m_master` while the loop goes on (`CurlDownload.cpp:254`); a Metalink
leaves its queue before its next file (`MetalinkDownload.cpp:413`); what `Task::finish()` does after it lets go
of its mutex may meet a task that was dismissed and deleted meanwhile (`Task.cpp:157`; `FinishTell` goes on
unnoticed); closures that wait for the
repository's mutex hold up the main thread for as long as pip runs.

## Proofs

Assumed are only the named assumptions on the constants: `QueueAssumption`, `StoreAssumption`,
`TaskAssumption`, `PageAssumption`, `WebAssumption`, `DialogAssumption` and `RegistryAssumption`.  They say types,
that transfers and queues are finitely many, that threads have different names, that there is one saver per caller, and that the
queues loaded at the start have no transfer twice (`loadQueues()` makes an object of every
element it reads).

**TransferQueue** (`TransferQueueProofs`).  `Inv` is `TypeOK`, `EngineMatchesState` and `SavedArePaused`; it is
inductive, and the three theorems (`TypeCorrect`, `EnginesFollowStates`,
`OnlyPausedAreSaved`) are its parts.  The work is in `SetStatesEffect`: whatever a call on
several transfers, with any outcome of each start, leaves behind has the right type, has
each engine as its state says, and posts only retries.  `SavedStayPaused` then says that
`PausedAfter` forgets enough.  There is one step lemma per group of actions.

**Places and ticks** (`TransferPlaceProofs`).  `PlaceInv` adds `NeverTwice`, that transfers in a
worker's hand exist, and `Fit`: a posted `setState()` has no delete before it, only what has no place is
deleted, once, and a discarded transfer has one `setState()` posted at most (`SetFits`).  `NoDanglingEvents` alone is not
inductive, as it does not say that a transfer which is still to be set has not been removed yet.
`OnePlaceEach` and `EventsMeetLiveTransfers` follow.  The action properties
`TicksKeepLimits`, `TicksKeepOrder` and `TicksLeaveOthers` rest on `NeverTwice` too: a transfer
twice in a queue would be counted once and started twice.  The limits are an induction on the
place in the queue, done with the least counterexample.

`TransfersInCustody` is the refinement of `Custody`.  `Located` reads the place of a transfer off `PlaceInv`:
each of the conditions of `PlaceOf` excludes the others.  A step then changes the place of one
transfer (`OneGoes`), of all those a tick sweeps (`SomeRemoved`), or of none; `Stays` is what
makes a transfer stay.  `Doomed(posted)`, whom a posted delete waits for, follows the event queue
through `DoomedTail` and `DoomedAnd`.  `NoTransferLost` says the converse of "in one place at most": what exists is
somewhere, so nothing leaks between a take and an add.

**QueueStore** (`QueueStoreProofs`).  `QueuesStay`, `OwnDocument`, `SaversDone` and `ShutdownSaves` are not inductive:
they rely on who holds which lock.  `Inv` adds
- `Placed`: which thread can be at which point;
- `Ready`: a caller that will ask for a save has its saver free;
- `LocksHeld`: `readers` and `saving` are what the points of the threads say, at most one
  thread saves, and whoever points at a queue holds the lock for read;
- `Alone`: once the main thread has joined the workers they are idle for good, and
  once it has drained the savers there are none;
- `Documents`: from the last save on, every document being built is a part of the queues
  as they are, and after it the file is the queues.

The last three hold until `execvp()` ends every thread at once, locks held.  A lemma per conjunct
shows that each action keeps it; theorems `StoreTypes`, `QueuesOutliveRequests`,
`SavesOwnDocument`, `UnloadWaitsForSavers` and `LastSaveStays` follow.  `LastSaveStays` is the
one a reviewer would doubt: background savers may still be running beside the last save, and it holds
because any document they build from then on is of the same, final queues.

**The file settles** (`QueueStoreProofs`, last part).  `SettleInv` says, while the process is up, that a copy of
the queues (a document, the file) disagrees with them only while a save is still to begin (`Coming`) or
under way, or about a transfer that was dragged: `DocsAgree`, `FileAgrees`.  `HandsFull` and `KnownOnly` are needed so that a
transfer in a worker's hand is in no queue, and a new one in no copy.  `FileSettles` is the
case in which everything is quiet.

**Leases, custody and circles** (`QueueStoreProofs`).  `RequestsLeaseQueues` follows from `QueuesStay` and
`LocksHeld`: `DestStep` shows that a step changes what at most one thread holds, and takes only
from the list.  `StoreKeepsCustody` needs `HomeInv`: `Home(t)`, for each transfer, says that it is
in one queue, or in one thread's hands, or in neither; `Handling`, at which points of a request a
worker's hands are full and it has a queue to put into.  Each action is a step of one of four kinds for each
transfer: it stays, leaves, joins a queue or is taken (`StayingOn`, `Leaving`, `Joining`,
`Taking`); deleting or merging a queue is one of them for all it holds.  `HandsFull` and `KnownOnly`
above speak of the time the process is up; this is about all of it, shutdown and restart included.

`CirclesNeedCalls` is the safety side of the deadlocks found: the runs `store_add` and `store_quit` end in a
circle of threads that wait for each other, and `NoCircle` says there is none.  `CallInv` says who
can be in a call to the main thread if nobody adds; `ChainsEnd` then orders the waits: who reads the list
or writes the file waits for nobody, a writer for readers, a reader for writers, the mutex and a call for these,
and a join comes last, so that no circle closes.  That threads which can go on then do is
liveness (`RequestsEnd`), and stays with TLC.

**PluginTask** (`PluginTaskProofs`).  `TaskImplementsQuestion` needs `TypeOK` only: each step changes
the outcomes as a step of `Question` or not at all.  For the rest, `Inv` adds `OneFinishes` (one
thread at most is within `finish()`), `Gone` and `Retired` (what is left of a task that is being
deleted), `Reachable` (who waits is in `m_waiters` or has the open question), `Ended` (after
a cancellation nothing is open; after `finish()` at most a prompt that a posted event closes),
`PromptAsked` and `AskedOnce` (the queued call of a blocking question runs once, before its question
opens).  Theorems: `NobodyWaitsAfterTheEnd`, `AnswersReachAskers`, `FrontEndsHearTheTruth`.

**TaskPage** (`TaskPageProofs`).  `TaskPart`: whatever the page does is, for the task, a step that other front
ends may take, or none; so `Inv` holds with the page, and `TaskKeepsItsWord` and `PageImplementsQuestion` follow.
`PageShowsTheTruth` rests on
- `ToldInv`: only progress is ever held back, so what was told last has the open question, and the state of
  a task that goes on;
- `FeedInv`: the last message on the wire is what was told last; while nothing was overtaken and the wire is
  empty, the page, or every answer on its way to it, `Matches` the task, that is up
  to a state `TaskPush` has yet to announce.  When the page has settled, `FrontEndsKnow` says there is none.

`OpenQuestionsStayShown` rests on `SeenInv` (no question on the page, on the wire or in a request is
still to open, so one that is closed stays closed) and `ReplyInv` (an answer the server works on keeps the
main thread, and one it has dealt with leaves the question closed).

**WebClient** (`WebClientProofs`) and **PropertiesDialog** (`PropertiesDialogProofs`).  `Inv` is
types, `SelectionIsShown`, `NothingUnasked`, `FetchIsNew` (one fetch at most, of the poll's
queue and not older than the table: why `NeverBack` holds) and `AsAsked` (a queue is deleted in the way the
user was asked about).  It is shown for `WebStep`, a step of the page or a fetch that another
part of it starts, so that the dialog, whose saves refetch, composes: `FormInv` adds `OpenedFor`, `LoadsOwn` and `SavesOwn`
(answers that may still act on the form are of this opening) and the three properties of the dialog, and
`PageKeepsItsWord` and `DialogTableGoesForward` say that the page's theorems hold with it.

**PluginRegistry** (`PluginRegistryProofs`).  `RegistryTypes` and `UsedStaysLoaded` are one
inductive invariant, for any number of clients.  `OneClientSettles` is about a single thread that sends requests
(`SoloSpec(w)`); `SoloInv(w)` says, for each point of a request, what the closures run so far
have made of the plugin: it agrees with what is installed and enabled, drains for a reason, waits to be removed,
or its files have stayed.
`OnePageSettles` carries it over to the specification that TLC runs, in the visit with one page.
`TransfersLeaseVersions` is the refinement of `Lease`.  `NoneWaitInCircle` needs `WaitInv`, on whose closure can be
waiting for the mutex: whoever holds it waits for nobody, the main thread only for that one, and the others for these two.

**Only model-checked**: liveness (`WaitingStarts`, `CompletedAreRemoved`, `RequestsEnd`,
`ShutdownEnds`, `AskersReturn`, `Settles`, `DrainsEnd`, `CallsReturn`), which is out of the prover's reach.
Every invariant and action property of the passing runs is stated by a theorem.

## Not modelled

Network protocols, libtorrent, libcurl and the code of plugins (only how their calls can end);
the content of files and documents, parsing and JSON; speed limits and statistics; values typed into
forms; layout; settings other than those the queues and plugins read; translations.  Of the
components in the inventory, watch folders, the scheduler, RSS, captchas and the engines act on the
rest only through what `TransferQueue` already takes from outside (adds, commands, starts that end
in any way); what could go wrong inside them is mostly in the file system, dates, libraries or
single inputs.  A module of the watch folders would be the next to write: a file whose transfers were added is
added again if the process ends before it is renamed.  `replaceItself()`, the lock of each queue and the engines' own
threads are left out of the modules that would hold them, since the largest runs are at their limit of states.
Components and reasons are listed in `PROJECT.json`, with a note for each hazard that no property covers.
