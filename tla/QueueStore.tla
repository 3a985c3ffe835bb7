----------------------------- MODULE QueueStore -----------------------------
(***************************************************************************)
(* The list of queues, the locks around it, and the file it is saved in:   *)
(* g_queues, g_queuesLock, saveQueues(), saveQueuesAsync(), stopQueues()   *)
(* and unloadQueues() of src/src/Queue.cpp, the REST requests that change  *)
(* the queues (src/src/remote/RestResources.cpp), the calls a worker makes *)
(* on the main thread and waits for (src/src/TransferFactory.cpp), and the *)
(* end of main() in src/src/fatrat.cpp.                                    *)
(*                                                                         *)
(* Threads.  The main thread runs its event loop, then shuts down.  Each   *)
(* worker of the HTTP server serves one request at a time.  Each           *)
(* saveQueuesAsync() starts a BackgroundSaver thread.  A thread that waits *)
(* for a lock, for an answer or for another thread does nothing else: the  *)
(* main thread's event loop does not run while it waits.                   *)
(*                                                                         *)
(* A process that is killed stops between two of these steps; what it      *)
(* leaves is `file', so an invariant about `file' covers every crash.      *)
(***************************************************************************)
EXTENDS Naturals, FiniteSets

CONSTANTS
  Main,        \* the main thread
  Workers,     \* the threads of the HTTP server
  Savers,      \* the BackgroundSaver threads
  Saver,       \* Saver[c]: the saver that caller c's next save runs in; a
               \*   caller's saver must be gone before it asks for another save
  Queues,      \* every queue that may ever exist
  Transfers,   \* every transfer that may ever exist
  Loaded,      \* the queues read at startup, each with its transfers
  Requests,    \* the kinds of request REST clients send
  DiskFails,   \* whether opening, writing and renaming files may fail
  NoQueue, NoTransfer, Torn

Callers == {Main} \cup Workers
Threads == Callers \cup Savers

Kinds == {"add", "move", "remove", "createQueue", "deleteQueue", "options"}

\* A list of queues and what each holds.  The order within it is left out.
Lists == UNION {[S -> SUBSET Transfers] : S \in SUBSET Queues}

ASSUME StoreAssumption ==
  /\ Main \notin Workers /\ Savers \cap Callers = {}
  /\ Saver \in [Callers -> Savers]
  /\ \A c, d \in Callers : Saver[c] = Saver[d] => c = d
  /\ Loaded \in Lists
  /\ \A p, q \in DOMAIN Loaded : p # q => Loaded[p] \cap Loaded[q] = {}
  /\ Requests \subseteq Kinds
  /\ DiskFails \in BOOLEAN
  /\ NoQueue \notin Queues /\ NoTransfer \notin Transfers /\ Torn \notin Lists

VARIABLES
  pc,       \* pc[th]: what thread th does, or waits for, next
  req,      \* req[c]: the request or handler that caller c is in
  dest,     \* dest[c]: the Queue* that caller c holds
  hand,     \* hand[c]: the transfer that caller c is putting into a queue
  stage,    \* "up" until the main thread leaves its event loop
  queues,   \* g_queues
  dragged,  \* (history) the transfers the desktop has moved to another queue
            \*   since a save was last asked for
  known,    \* the transfers created so far
  doomed,   \* queues whose deleteLater() the main thread has yet to run
  freed,    \* deleted queues
  loaded,   \* Queue::m_bLoaded
  readers,  \* the threads that hold g_queuesLock for read
  saving,   \* the thread that holds s_saveMutex, if any
  doc,      \* doc[th]: the document a save has built so far
  tmp,      \* queues.xml.new: a list, or Torn
  file,     \* queues.xml: a list, or Torn
  failed    \* the last save failed

vars == <<pc, req, dest, hand, stage, queues, dragged, known, doomed, freed,
          loaded, readers, saving, doc, tmp, file, failed>>

callers == <<req, dest, hand, stage>>
lists == <<queues, dragged, known, doomed, freed, loaded>>
files == <<saving, doc, tmp, file, failed>>

NoList == [q \in {} |-> {}]
With(l, q, S) == [p \in DOMAIN l \cup {q} |-> IF p = q THEN S ELSE l[p]]
Without(l, q) == [p \in DOMAIN l \ {q} |-> l[p]]
Taken(l, t) == [p \in DOMAIN l |-> l[p] \ {t}]
Holds(l, t) == \E q \in DOMAIN l : t \in l[q]

Goto(th, p) == [pc EXCEPT ![th] = p]

\* unloadQueues() has set s_saversClosed.
Closed == pc[Main] \in {"drain", "unlist", "unload", "down"}

\* saveQueuesAsync() called by c, which goes on at p.
GotoSaving(c, p) ==
  IF Closed THEN Goto(c, p) ELSE [pc EXCEPT ![c] = p, ![Saver[c]] = "wantMutex"]

MaySave(c) == pc[Saver[c]] = "none"

-----------------------------------------------------------------------------
(* g_queuesLock: a waiting writer keeps new readers out.                   *)

CanRead == ~ \E th \in Threads : pc[th] \in {"wantWrite", "unload"}

\* Mutant: a writer does not wait for the readers.
CanWriteMutant == TRUE

\* Whoever writes does so in one step, so that no writer is ever seen holding it.
CanWrite == readers = {}

\* A worker's guards find the queue and the transfer they look for, or unlock
\* and answer 404; doWork() and stopQueues() need none.
LockRead(c) ==
  /\ pc[c] = "wantRead" /\ CanRead
  /\ \E q \in IF req[c] \in {"add", "move"} THEN DOMAIN queues ELSE {NoQueue} :
       dest' = [dest EXCEPT ![c] = q]
  /\ readers' = readers \cup {c}
  /\ pc' = Goto(c, "reading")
  /\ UNCHANGED <<req, hand, stage, lists, files>>

\* Mutant: the lock is kept when the queue is not found.
MissMutant(w) ==
  /\ pc[w] = "wantRead" /\ CanRead
  /\ readers' = readers \cup {w}
  /\ pc' = Goto(w, "idle")
  /\ UNCHANGED <<callers, lists, files>>

Miss(w) ==
  /\ pc[w] = "wantRead" /\ CanRead
  /\ pc' = Goto(w, "idle")
  /\ UNCHANGED <<callers, lists, readers, files>>

Release(c) ==
  /\ readers' = readers \ {c}
  /\ dest' = [dest EXCEPT ![c] = NoQueue]
  /\ hand' = [hand EXCEPT ![c] = NoTransfer]

-----------------------------------------------------------------------------
(* Queue::saveQueues(), in a saver or at shutdown on the main thread       *)

\* Where a thread goes on after a save.
Saved(th) == IF th # Main THEN "finished" ELSE IF stage = "exit" THEN "seal" ELSE "exec"

\* Mutant: a save does not wait for the one under way.
BeginSaveMutant(th) ==
  /\ pc[th] = "wantMutex"
  /\ \/ ~loaded /\ pc' = Goto(th, Saved(th)) /\ UNCHANGED <<saving, tmp, failed>>
     \/ loaded /\ pc' = Goto(th, "wantList") /\ saving' = {th} /\ tmp' = Torn /\ UNCHANGED failed
  /\ UNCHANGED <<callers, lists, readers, doc, file>>

\* Takes s_saveMutex and truncates queues.xml.new.
BeginSave(th) ==
  /\ pc[th] = "wantMutex" /\ saving = {}
  /\ \/ ~loaded /\ pc' = Goto(th, Saved(th)) /\ UNCHANGED <<saving, tmp, failed>>
     \/ /\ loaded /\ DiskFails
        /\ pc' = Goto(th, Saved(th)) /\ failed' = TRUE
        /\ UNCHANGED <<saving, tmp>>
     \/ /\ loaded
        /\ pc' = Goto(th, "wantList")
        /\ saving' = {th} /\ tmp' = Torn
        /\ UNCHANGED failed
  /\ UNCHANGED <<callers, lists, readers, doc, file>>

ListLock(th) ==
  /\ pc[th] = "wantList" /\ CanRead
  /\ readers' = readers \cup {th}
  /\ pc' = Goto(th, "walk")
  /\ UNCHANGED <<callers, lists, files>>

\* saveQueue() locks one queue at a time.
Walk(th) ==
  /\ pc[th] = "walk"
  /\ \E q \in DOMAIN queues \ DOMAIN doc[th] :
       doc' = [doc EXCEPT ![th] = With(@, q, queues[q])]
  /\ UNCHANGED <<pc, callers, lists, readers, saving, tmp, file, failed>>

\* Mutant: g_queuesLock stays locked.
EndWalkMutant(th) ==
  /\ pc[th] = "walk" /\ DOMAIN doc[th] = DOMAIN queues
  /\ pc' = Goto(th, "write")
  /\ UNCHANGED <<callers, lists, readers, files>>

EndWalk(th) ==
  /\ pc[th] = "walk" /\ DOMAIN doc[th] = DOMAIN queues
  /\ readers' = readers \ {th}
  /\ pc' = Goto(th, "write")
  /\ UNCHANGED <<callers, lists, files>>

\* QFile::write() of a large document may also write less than all of it,
\* which is not -1.
Write(th) ==
  /\ pc[th] = "write"
  /\ \/ tmp' = doc[th]
     \/ DiskFails /\ tmp' = Torn
  /\ pc' = Goto(th, "rename")
  /\ UNCHANGED <<callers, lists, readers, saving, doc, file, failed>>

WriteFails(th) ==
  /\ pc[th] = "write" /\ DiskFails
  /\ tmp' = Torn /\ failed' = TRUE
  /\ saving' = {} /\ doc' = [doc EXCEPT ![th] = NoList]
  /\ pc' = Goto(th, Saved(th))
  /\ UNCHANGED <<callers, lists, readers, file>>

\* The result of rename() is not looked at.
Rename(th) ==
  /\ pc[th] = "rename"
  /\ \/ file' = tmp /\ failed' = (tmp = Torn)
     \/ DiskFails /\ failed' = TRUE /\ UNCHANGED file
  /\ saving' = {} /\ doc' = [doc EXCEPT ![th] = NoList]
  /\ pc' = Goto(th, Saved(th))
  /\ UNCHANGED <<callers, lists, readers, tmp>>

-----------------------------------------------------------------------------
(* REST workers                                                            *)

\* A client sends a request.  Its saver slot must be free (a bound).
Ask(w) ==
  /\ pc[w] = "idle" /\ stage = "up" /\ MaySave(w)
  /\ \E k \in Requests :
       /\ req' = [req EXCEPT ![w] = k]
       /\ pc' = Goto(w, CASE k = "options" -> "calling"
                          [] k \in {"createQueue", "deleteQueue"} -> "wantWrite"
                          [] OTHER -> "wantRead")
  /\ UNCHANGED <<dest, hand, stage, lists, readers, files>>

\* POST /queues/:queue/transfers, one source: TransferFactory::createInstance()
\* and then init() are called on the main thread, the queue guarded throughout.
CallCreate(w) ==
  /\ pc[w] = "reading" /\ req[w] = "add"
  /\ pc' = Goto(w, "calling")
  /\ UNCHANGED <<callers, lists, readers, files>>

CallInit(w) ==
  /\ pc[w] = "answered" /\ req[w] = "add" /\ hand[w] # NoTransfer
  /\ req' = [req EXCEPT ![w] = "init"]
  /\ pc' = Goto(w, "calling")
  /\ UNCHANGED <<dest, hand, stage, lists, readers, files>>

\* The transfer joins the queue; no save is asked for.
EndAdd(w) ==
  /\ pc[w] = "answered" /\ req[w] = "init"
  /\ queues' = [queues EXCEPT ![dest[w]] = @ \cup {hand[w]}]
  /\ Release(w)
  /\ pc' = Goto(w, "idle")
  /\ UNCHANGED <<req, stage, dragged, known, doomed, freed, loaded, files>>

\* Mutant: what createInstance() gave is queued without a look at it.
FailAddMutant(w) ==
  /\ pc[w] = "answered"
  /\ req[w] = "init" \/ (req[w] = "add" /\ hand[w] = NoTransfer)
  /\ queues' = [queues EXCEPT ![dest[w]] = @ \cup {hand[w]}]
  /\ Release(w)
  /\ pc' = Goto(w, "idle")
  /\ UNCHANGED <<req, stage, dragged, known, doomed, freed, loaded, files>>

\* createInstance() gave nothing, or init() threw.
FailAdd(w) ==
  /\ pc[w] = "answered"
  /\ req[w] = "init" \/ (req[w] = "add" /\ hand[w] = NoTransfer)
  /\ Release(w)
  /\ pc' = Goto(w, "idle")
  /\ UNCHANGED <<req, stage, lists, files>>

\* PATCH /transfers/:transfer/options: the main thread's handler has returned.
EndOptions(w) ==
  /\ pc[w] = "answered" /\ req[w] = "options"
  /\ pc' = GotoSaving(w, "idle") /\ dragged' = {}
  /\ UNCHANGED <<callers, queues, known, doomed, freed, loaded, readers, files>>

\* moveTransfersToQueue(): take() the transfer, if it is still there ...
MoveTake(w) ==
  /\ pc[w] = "reading" /\ req[w] = "move"
  /\ \E t \in Transfers \cup {NoTransfer} :
       /\ t = NoTransfer \/ Holds(queues, t)
       /\ queues' = Taken(queues, t)
       /\ hand' = [hand EXCEPT ![w] = t]
  /\ pc' = Goto(w, "moving")
  /\ UNCHANGED <<req, dest, stage, dragged, known, doomed, freed, loaded, readers, files>>

\* Mutant: no save is asked for after the move.
MoveAddMutant(w) ==
  /\ pc[w] = "moving"
  /\ queues' = [queues EXCEPT ![dest[w]] = @ \cup ({hand[w]} \ {NoTransfer})]
  /\ Release(w)
  /\ pc' = Goto(w, "idle")
  /\ UNCHANGED <<req, stage, dragged, known, doomed, freed, loaded, files>>

\* ... and add() it to the other queue.
MoveAdd(w) ==
  /\ pc[w] = "moving"
  /\ queues' = [queues EXCEPT ![dest[w]] = @ \cup ({hand[w]} \ {NoTransfer})]
  /\ Release(w)
  /\ pc' = GotoSaving(w, "idle") /\ dragged' = {}
  /\ UNCHANGED <<req, stage, known, doomed, freed, loaded, files>>

\* DELETE /transfers: no save is asked for.  The transfer may be gone by now.
RemoveTransfer(w) ==
  /\ pc[w] = "reading" /\ req[w] = "remove"
  /\ \E t \in Transfers \cup {NoTransfer} : queues' = Taken(queues, t)
  /\ Release(w)
  /\ pc' = Goto(w, "idle")
  /\ UNCHANGED <<req, stage, dragged, known, doomed, freed, loaded, files>>

Unborn == Queues \ (DOMAIN queues \cup doomed \cup freed)

\* POST /queues: no save is asked for.
CreateQueue(w) ==
  /\ pc[w] = "wantWrite" /\ req[w] = "createQueue" /\ CanWrite
  /\ \E q \in Unborn : queues' = With(queues, q, {})
  /\ pc' = Goto(w, "idle")
  /\ UNCHANGED <<callers, dragged, known, doomed, freed, loaded, readers, files>>

\* DELETE /queues/:queue with moveTo or deleteTransfers (or the queue is empty).
\* The main thread deletes the object.
DeleteQueue(w) ==
  /\ pc[w] = "wantWrite" /\ req[w] = "deleteQueue" /\ CanWrite
  /\ \E q \in DOMAIN queues :
       /\ \/ queues' = Without(queues, q)
          \/ \E p \in DOMAIN queues \ {q} :
               queues' = With(Without(queues, q), p, queues[p] \cup queues[q])
       /\ doomed' = doomed \cup {q}
  /\ pc' = GotoSaving(w, "idle") /\ dragged' = {}
  /\ UNCHANGED <<callers, known, freed, loaded, readers, files>>

\* The queue is not found, or is not empty.
RefuseWrite(w) ==
  /\ pc[w] = "wantWrite" /\ CanWrite
  /\ pc' = Goto(w, "idle")
  /\ UNCHANGED <<callers, lists, readers, files>>

-----------------------------------------------------------------------------
(* The main thread's event loop                                            *)

\* doWork(), or any other handler that works on the queues under the read lock.
Handler ==
  /\ pc[Main] = "loop"
  /\ req' = [req EXCEPT ![Main] = "handler"]
  /\ pc' = Goto(Main, "wantRead")
  /\ UNCHANGED <<dest, hand, stage, lists, readers, files>>

\* It may remove a transfer ("autoremove") or add one (from the desktop or a
\* watch folder), and may end with saveQueuesAsync().
EndHandler ==
  /\ pc[Main] = "reading" /\ req[Main] = "handler"
  /\ \/ UNCHANGED <<queues, known>>
     \/ /\ \E t \in Transfers : Holds(queues, t) /\ queues' = Taken(queues, t)
        /\ UNCHANGED known
     \/ \E t \in Transfers \ known, q \in DOMAIN queues :
          /\ queues' = [queues EXCEPT ![q] = @ \cup {t}]
          /\ known' = known \cup {t}
  /\ Release(Main)
  /\ \/ pc' = Goto(Main, "loop") /\ UNCHANGED dragged
     \/ MaySave(Main) /\ pc' = GotoSaving(Main, "loop") /\ dragged' = {}
  /\ UNCHANGED <<req, stage, doomed, freed, loaded, files>>

\* QueueView::dropMimeData(): transfers dragged from one queue to another are taken
\* and added one queue at a time, but nobody else can tell when; no save is asked for.
Drag ==
  /\ pc[Main] = "reading" /\ req[Main] = "handler"
  /\ \E p, q \in DOMAIN queues : \E S \in SUBSET queues[p] :
       /\ p # q
       /\ queues' = [queues EXCEPT ![p] = @ \ S, ![q] = @ \cup S]
       /\ dragged' = dragged \cup S
  /\ Release(Main)
  /\ pc' = Goto(Main, "loop")
  /\ UNCHANGED <<req, stage, known, doomed, freed, loaded, files>>

\* MainWindow::newQueue() and deleteQueue().
Edit ==
  /\ pc[Main] = "loop" /\ MaySave(Main)
  /\ pc' = Goto(Main, "wantWrite")
  /\ UNCHANGED <<callers, lists, readers, files>>

EndEdit ==
  /\ pc[Main] = "wantWrite" /\ CanWrite
  /\ \/ /\ \E q \in Unborn : queues' = With(queues, q, {})
        /\ UNCHANGED freed
     \/ \E q \in DOMAIN queues :
          /\ queues' = Without(queues, q)
          /\ freed' = freed \cup {q}
     \/ UNCHANGED <<queues, freed>>
  /\ pc' = GotoSaving(Main, "loop") /\ dragged' = {}
  /\ UNCHANGED <<callers, known, doomed, loaded, readers, files>>

\* The event loop runs the call worker w is blocked in.
ServeCreate(w) ==
  /\ pc[Main] = "loop" /\ pc[w] = "calling" /\ req[w] = "add"
  /\ \/ \E t \in Transfers \ known :
          hand' = [hand EXCEPT ![w] = t] /\ known' = known \cup {t}
     \/ UNCHANGED <<hand, known>>
  /\ pc' = Goto(w, "answered")
  /\ UNCHANGED <<req, dest, stage, queues, dragged, doomed, freed, loaded, readers, files>>

ServeInit(w) ==
  /\ pc[Main] = "loop" /\ pc[w] = "calling" /\ req[w] = "init"
  /\ pc' = Goto(w, "answered")
  /\ UNCHANGED <<callers, lists, readers, files>>

\* The handler of onMainThread() takes the read lock itself.
ServeOptions(w) ==
  /\ pc[Main] = "loop" /\ pc[w] = "calling" /\ req[w] = "options"
  /\ req' = [req EXCEPT ![Main] = "options"]
  /\ pc' = [pc EXCEPT ![Main] = "wantRead", ![w] = "served"]
  /\ UNCHANGED <<dest, hand, stage, lists, readers, files>>

EndServe(w) ==
  /\ pc[Main] = "reading" /\ req[Main] = "options" /\ pc[w] = "served"
  /\ Release(Main)
  /\ pc' = [pc EXCEPT ![Main] = "loop", ![w] = "answered"]
  /\ UNCHANGED <<req, stage, lists, files>>

\* deleteLater() of a queue, and of a saver that has finished.
DeleteDoomed ==
  /\ pc[Main] = "loop"
  /\ \E q \in doomed : doomed' = doomed \ {q} /\ freed' = freed \cup {q}
  /\ UNCHANGED <<pc, callers, queues, dragged, known, loaded, readers, files>>

DeleteSaver(b) ==
  /\ pc[Main] = "loop" /\ pc[b] = "finished"
  /\ pc' = Goto(b, "none")
  /\ UNCHANGED <<callers, lists, readers, files>>

-----------------------------------------------------------------------------
(* The end of main(), and restartApplication()                             *)

\* SIGTERM or SIGINT ends the event loop; the user may ask for a restart.
\* The server stops taking requests a moment later; workers need nothing of the
\* main thread for what they do in between, so it might as well come first.
Quit ==
  /\ pc[Main] = "loop"
  /\ stage' \in {"exit", "restart"}
  /\ pc' = Goto(Main, "join")
  /\ UNCHANGED <<req, dest, hand, lists, readers, files>>

\* ~HttpService() stops the server and joins its threads.
Join ==
  /\ pc[Main] = "join" /\ \A w \in Workers : pc[w] = "idle"
  /\ req' = [req EXCEPT ![Main] = "stop"]
  /\ pc' = Goto(Main, "wantRead")
  /\ UNCHANGED <<dest, hand, stage, lists, readers, files>>

\* Mutant: no last save.
StopQueuesMutant ==
  /\ pc[Main] = "reading" /\ req[Main] = "stop"
  /\ Release(Main)
  /\ pc' = Goto(Main, Saved(Main))
  /\ UNCHANGED <<req, stage, lists, files>>

\* stopQueues() has stopped the engines; saveQueues() is next.
StopQueues ==
  /\ pc[Main] = "reading" /\ req[Main] = "stop"
  /\ Release(Main)
  /\ pc' = Goto(Main, "wantMutex")
  /\ UNCHANGED <<req, stage, lists, files>>

\* unloadQueues() closes the door to new savers ...
Seal ==
  /\ pc[Main] = "seal"
  /\ pc' = Goto(Main, "drain")
  /\ UNCHANGED <<callers, lists, readers, files>>

\* Mutant: it does not wait for the savers.
DrainMutant ==
  /\ pc[Main] = "drain"
  /\ pc' = Goto(Main, "unlist")
  /\ UNCHANGED <<callers, lists, readers, files>>

\* ... waits for those there are ...
Drain ==
  /\ pc[Main] = "drain" /\ \A b \in Savers : pc[b] \in {"none", "finished"}
  /\ pc' = Goto(Main, "unlist")
  /\ UNCHANGED <<callers, lists, readers, files>>

\* ... and takes the queues out of the list under both locks to delete them.
Unlist ==
  /\ pc[Main] = "unlist" /\ saving = {}
  /\ saving' = {Main}
  /\ pc' = Goto(Main, "unload")
  /\ UNCHANGED <<callers, lists, readers, doc, tmp, file, failed>>

Unload ==
  /\ pc[Main] = "unload" /\ CanWrite
  /\ loaded' = FALSE /\ queues' = NoList /\ freed' = freed \cup DOMAIN queues
  /\ saving' = {}
  /\ pc' = Goto(Main, "down")
  /\ UNCHANGED <<callers, dragged, known, doomed, readers, doc, tmp, file, failed>>

\* execvp() ends every thread.
Exec ==
  /\ pc[Main] = "exec"
  /\ pc' = [th \in Threads |-> "gone"]
  /\ UNCHANGED <<callers, lists, readers, files>>

-----------------------------------------------------------------------------

Init ==
  /\ pc = [th \in Threads |->
             IF th = Main THEN "loop" ELSE IF th \in Workers THEN "idle" ELSE "none"]
  /\ req = [c \in Callers |-> "none"]
  /\ dest = [c \in Callers |-> NoQueue]
  /\ hand = [c \in Callers |-> NoTransfer]
  /\ stage = "up"
  /\ queues = Loaded /\ file = Loaded
  /\ known = {t \in Transfers : Holds(Loaded, t)} /\ dragged = {}
  /\ doomed = {} /\ freed = {} /\ loaded = TRUE
  /\ readers = {} /\ saving = {}
  /\ doc = [th \in Threads |-> NoList]
  /\ tmp = Torn /\ failed = FALSE

\* What a worker does on its own once it has a request, locks apart.
Proceed(w) ==
  \/ CallCreate(w) \/ CallInit(w) \/ EndAdd(w) \/ FailAdd(w) \/ EndOptions(w)
  \/ MoveTake(w) \/ MoveAdd(w) \/ RemoveTransfer(w)

TakeWrite(w) == CreateQueue(w) \/ DeleteQueue(w) \/ RefuseWrite(w)

SaveStep(th) == Walk(th) \/ EndWalk(th) \/ Write(th) \/ WriteFails(th) \/ Rename(th)

Serve(w) == ServeCreate(w) \/ ServeInit(w) \/ ServeOptions(w) \/ EndServe(w)

ShutDown ==
  Join \/ StopQueues \/ Seal \/ Drain \/ Unlist \/ Unload \/ Exec

Next ==
  \/ \E w \in Workers :
       Ask(w) \/ Miss(w) \/ Proceed(w) \/ TakeWrite(w) \/ Serve(w)
  \/ \E c \in Callers : LockRead(c)
  \/ \E th \in Savers \cup {Main} : BeginSave(th) \/ ListLock(th) \/ SaveStep(th)
  \/ Handler \/ EndHandler \/ Drag \/ Edit \/ EndEdit \/ DeleteDoomed
  \/ \E b \in Savers : DeleteSaver(b)
  \/ Quit \/ ShutDown

\* What the main thread does once it has begun a handler or its shutdown.
MainStep ==
  \/ LockRead(Main) \/ EndHandler \/ Drag \/ EndEdit \/ ShutDown
  \/ BeginSave(Main) \/ ListLock(Main) \/ SaveStep(Main)

\* A thread that can go on does.  The locks are starvation-free: passing one
\* thread over for ever would take an endless stream of overlapping requests.
\* The event loop gets to every call posted to it.  Clients, users and the
\* timer owe nothing.
Fairness ==
  /\ SF_vars(MainStep)
  /\ \A w \in Workers :
       /\ SF_vars(LockRead(w) \/ Miss(w) \/ Proceed(w) \/ TakeWrite(w))
       /\ SF_vars(Serve(w))
  /\ \A b \in Savers : SF_vars(BeginSave(b) \/ ListLock(b) \/ SaveStep(b))

Spec == Init /\ [][Next]_vars /\ Fairness

-----------------------------------------------------------------------------
(* Properties                                                              *)

Places ==
  {"loop", "idle", "none", "wantRead", "reading", "wantWrite", "calling", "served",
   "answered", "moving", "wantMutex", "wantList", "walk", "write", "rename",
   "finished", "join", "seal", "drain", "unlist", "unload", "down", "exec", "gone"}

TypeOK ==
  /\ pc \in [Threads -> Places]
  /\ req \in [Callers -> Kinds \cup {"none", "init", "handler", "stop"}]
  /\ dest \in [Callers -> Queues \cup {NoQueue}]
  /\ hand \in [Callers -> Transfers \cup {NoTransfer}]
  /\ stage \in {"up", "exit", "restart"}
  /\ queues \in Lists
  /\ known \in SUBSET Transfers /\ dragged \in SUBSET Transfers
  /\ doomed \in SUBSET Queues /\ freed \in SUBSET Queues
  /\ loaded \in BOOLEAN /\ failed \in BOOLEAN
  /\ readers \in SUBSET Threads /\ saving \in SUBSET Threads
  /\ doc \in [Threads -> Lists]
  /\ tmp \in Lists \cup {Torn} /\ file \in Lists \cup {Torn}

\* Whatever another thread deletes, a queue that a request works on stays in
\* the list, undeleted, as long as the request holds it, across the calls it makes
\* on the main thread too; and the list holds no deleted queue.
QueuesStay ==
  /\ DOMAIN queues \cap (doomed \cup freed) = {}
  /\ \A c \in Callers : dest[c] # NoQueue => dest[c] \in DOMAIN queues

\* A queue a request has found is its own to use until it unlocks the list: nobody
\* deletes it, and the request never goes on with another.
Found == INSTANCE Lease WITH
  Holders <- Callers, Resources <- Queues, None <- NoQueue,
  there <- DOMAIN queues, open <- DOMAIN queues, held <- dest

Moves(c) == req[c] = "move"

\* Where a transfer is: in a queue, in the hands of a caller that will put it into
\* one, or created and in neither any more.
PlaceOf(t) ==
  IF Holds(queues, t) THEN <<"queue", CHOOSE q \in DOMAIN queues : t \in queues[q]>>
  ELSE IF \E c \in Callers : hand[c] = t
    THEN LET c == CHOOSE d \in Callers : hand[d] = t
         IN  <<IF Moves(c) THEN "hands" ELSE "new", dest[c]>>
  ELSE IF t \in known THEN <<"removed", NoQueue>>
  ELSE <<"unborn", NoQueue>>

\* Requests that move transfers, and others that delete the queues they come from
\* or go to, lose none: each one goes from place to place as Custody says.
Kept == INSTANCE Custody WITH place <- [t \in Transfers |-> PlaceOf(t)]

\* A save renames the document it has built itself, or what a short write left
\* of it: no other save has queues.xml.new open at the time.
OwnDocument ==
  \A th \in Threads : pc[th] = "rename" => tmp \in {doc[th], Torn}

\* A walk that overlaps a move writes the transfer twice or not at all, but that
\* does not last: once no save or request is under way and the last save was good,
\* queues.xml has no transfer twice, nor one in a queue it has left for another; but
\* for what the desktop has dragged since, which waits for the periodic save.
SettledFile ==
  (/\ \A th \in Threads : pc[th] \in {"loop", "idle", "none", "finished"}
   /\ ~failed) =>
    \A q \in DOMAIN file, t \in Transfers \ dragged :
      t \in file[q] /\ Holds(queues, t) => q \in DOMAIN queues /\ t \in queues[q]

\* No saver runs once the queues are unloaded, when the settings it reads go too.
SaversDone ==
  pc[Main] = "down" => \A b \in Savers : pc[b] \in {"none", "finished"}

\* The queues the process ends with are those in queues.xml, unless the last
\* write failed, and no late save replaces them: whatever requests and saves were
\* under way, whether the process exits or starts itself anew.
ShutdownSaves ==
  [][/\ Unload \/ Exec => failed \/ file = queues
     /\ ~loaded => file' = file]_vars

\* The threads without whose next steps th does not go on: for g_queuesLock who
\* waits to write or who reads, for s_saveMutex who saves, for an answer the main
\* thread, and for the end of other threads those.
WaitsFor(th) ==
  {u \in Threads :
     \/ pc[th] \in {"wantRead", "wantList"} /\ pc[u] \in {"wantWrite", "unload"}
     \/ pc[th] \in {"wantWrite", "unload"} /\ u \in readers
     \/ pc[th] \in {"wantMutex", "unlist"} /\ u \in saving
     \/ pc[th] \in {"calling", "served"} /\ u = Main /\ pc[Main] # "loop"
     \/ pc[th] = "join" /\ u \in Workers /\ pc[u] # "idle"
     \/ pc[th] = "drain" /\ u \in Savers /\ pc[u] \notin {"none", "finished"}}

\* No threads wait for each other in a circle.
NoCircle == ~ \E S \in SUBSET Threads :
  S # {} /\ \A th \in S : WaitsFor(th) \cap S # {}

\* What it takes for a circle (the runs that find AddsEnd and ShutdownEnds violated
\* end in one each): a request that waits for the main thread with the queues
\* locked, or one that waits for it when it has left its event loop to join the
\* workers.
OnlyCallsCircle ==
  "add" \notin Requests /\ (stage = "up" \/ "options" \notin Requests) => NoCircle

\* A request gets its answer.
RequestsEnd == \A w \in Workers : pc[w] # "idle" ~> pc[w] \in {"idle", "gone"}

\* doc/server/index.html:56: "FatRat stops cleanly and saves its queues when it
\* gets SIGTERM or SIGINT".
ShutdownEnds == pc[Main] = "join" ~> pc[Main] \in {"down", "gone"}

\* doc/rest/index.html:81, of sending links to a queue: "The answer has status
\* 201 and lists the UUIDs of the new transfers."
AddsEnd ==
  [](stage = "up") =>
    \A w \in Workers : pc[w] # "idle" /\ req[w] = "add" ~> pc[w] = "idle"
=============================================================================
