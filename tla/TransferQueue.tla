--------------------------- MODULE TransferQueue ---------------------------
(***************************************************************************)
(* The transfers, the queues that hold them and the queue manager that     *)
(* starts and stops them: src/src/Transfer.cpp (setState, retry),          *)
(* src/src/QueueMgr.cpp, the operations of src/src/Queue.cpp, and the      *)
(* desktop, REST and scheduler commands that change a transfer's state.    *)
(*                                                                         *)
(* Threads.  Transfers live on the main thread, whose event loop runs one  *)
(* handler at a time: a timer tick, an engine's signal, a desktop command  *)
(* or the oldest event of `posted'.  HTTP worker threads run REST requests *)
(* at any time; they change the queues themselves (under the queue's write *)
(* lock), but a state change is only posted to the main thread.            *)
(*                                                                         *)
(* setState() emits its signals synchronously, so a whole call, with what  *)
(* QueueMgr does in its slots and with an engine that fails or finishes    *)
(* while it is being started, is one step here.                            *)
(***************************************************************************)
EXTENDS Integers, Sequences, FiniteSets

CONSTANTS
  Transfers,     \* every transfer that may ever exist
  QueueCount,    \* the queues are g_queues[0 .. QueueCount-1], numbered from 1
  Loaded,        \* Loaded[q]: the transfers of queue q read at startup
  Torrents,      \* the downloads that go on as uploads once complete
  LimitChoices,  \* the [down, up] transfer limits a user may set; < 0: no limit
  UpAsDown,      \* the queues' m_bUpAsDown: uploads count as downloads
  AutoRemove,    \* setting "autoremove"
  RetryWorking,  \* setting "retryworking"
  RetryCount,    \* setting "retrycount"
  DropForced,    \* setting "drop_forced_on_upload"
  RestStates,    \* the states REST clients ask for
  MaxPosted      \* bound on the length of `posted'

States == {"Waiting", "Active", "ForcedActive", "Paused", "Failed", "Completed"}
Modes == {"Download", "Upload"}
Queues == 1 .. QueueCount
NotSaved == "none"
NoQueue == 0

\* How an engine's changeActive(true) may end before it returns: it runs, it
\* calls setState(Failed) once or once per segment, or it finds all data there.
Outcomes == {"runs", "failed", "failedTwice", "completed"}

\* No transfer is in two of the places of the queues qs.
Once(qs) ==
  \A p, q \in Queues : \A i \in DOMAIN qs[p], j \in DOMAIN qs[q] :
     qs[p][i] = qs[q][j] => p = q /\ i = j

ASSUME QueueAssumption ==
  /\ IsFiniteSet(Transfers)
  /\ QueueCount \in Nat \ {0}
  /\ Loaded \in [Queues -> Seq(Transfers)]
  /\ Once(Loaded)                 \* every element read becomes an object
  /\ Torrents \subseteq Transfers
  /\ LimitChoices \subseteq [down : Int, up : Int] /\ LimitChoices # {}
  /\ UpAsDown \in BOOLEAN /\ AutoRemove \in BOOLEAN
  /\ RetryWorking \in BOOLEAN /\ DropForced \in BOOLEAN
  /\ RetryCount \in Nat
  /\ RestStates \subseteq States
  /\ MaxPosted \in Nat

VARIABLES
  queue,      \* queue[q]: Queue::m_transfers, first to last
  limit,      \* limit[q]: the transfer limits of queue q
  transfer,   \* transfer[t]: the members of Transfer used here, see Records
  life,       \* life[t]: how far transfer t has come, see Lives
  handover,   \* the queue a REST worker is about to add t to, or NoQueue
  posted,     \* the main thread's event queue, oldest first
  paused,     \* QueueMgr::m_paused: paused[t] is a saved state or NotSaved
  tick        \* queues QueueMgr::doWork() has handled; 0 when it is not running

vars == <<queue, limit, transfer, life, handover, posted, paused, tick>>

\* m_state, whether m_lastState is ForcedActive (all that is ever asked of it),
\* m_mode, m_bWorking, m_nRetryCount (up to one above RetryCount: shouldRetry()
\* cannot tell more apart), and whether the engine runs.
Records == [state : States, forced : BOOLEAN, mode : Modes, working : BOOLEAN,
            retries : 0 .. RetryCount + 1, engine : BOOLEAN]

Events == [kind : {"retry", "delete"}, t : Transfers]
            \cup [kind : {"set"}, t : Transfers, state : States]

\* "new" once a REST worker has created it, "alive" once it has been in a queue,
\* "gone" after the deferred delete, "discarded" when the worker has deleted it.
Lives == {"none", "new", "alive", "gone", "discarded"}

Retry(t) == [kind |-> "retry", t |-> t]
Delete(t) == [kind |-> "delete", t |-> t]
Set(t, s) == [kind |-> "set", t |-> t, state |-> s]

Fresh == [state |-> "Paused", forced |-> FALSE, mode |-> "Download",
          working |-> FALSE, retries |-> 0, engine |-> FALSE]

Exists(t) == life[t] \in {"new", "alive"}

Members(q) == {queue[q][i] : i \in DOMAIN queue[q]}
Queued == UNION {Members(q) : q \in Queues}

\* A handler of the main thread other than a posted event may start: doWork()
\* is not running, and the event loop has drained `posted' down to its bound.
MainIdle == tick = 0 /\ Len(posted) <= MaxPosted

-----------------------------------------------------------------------------
(* Transfer::setState()                                                    *)

IsActive(s) == s \in {"Active", "ForcedActive"}

ShouldRetry(r) == (RetryWorking /\ r.working) \/ r.retries < RetryCount

\* Mutant: an engine that fails while it is being started is left running.
StartedMutant(r, o) ==
  [r EXCEPT !.forced = (o # "runs" /\ r.state = "ForcedActive"),
            !.state = IF o = "runs" THEN @ ELSE "Failed",
            !.engine = TRUE, !.working = FALSE]

\* changeActive(true) ends with outcome o, then setState() resets m_bWorking.
Started(r, o) ==
  [r EXCEPT !.forced = CASE o = "runs" -> @
                         [] o = "failedTwice" -> FALSE
                         [] OTHER -> r.state = "ForcedActive",
            !.state = CASE o = "runs" -> @
                        [] o = "completed" -> "Completed"
                        [] OTHER -> "Failed",
            !.engine = (o = "runs"), !.working = FALSE]

\* The transfer after setState(s).  m_lastState is assigned even when nothing
\* changes.
AfterSetState(r, s, o) ==
  LET entered == [r EXCEPT !.forced = (r.state = "ForcedActive"), !.state = s]
  IN  CASE IsActive(s) /\ ~IsActive(r.state) -> Started(entered, o)
        [] ~IsActive(s) /\ IsActive(r.state) -> [entered EXCEPT !.engine = FALSE]
        [] OTHER -> entered

\* Does a state change make QueueMgr::transferStateChanged() post a retry?  A
\* failure inside changeActive(true) is judged by the m_bWorking of an earlier run.
PostsRetry(r, s, o) ==
  /\ s # r.state
  /\ s = "Failed" \/ (IsActive(s) /\ ~IsActive(r.state) /\ o \in {"failed", "failedTwice"})
  /\ ShouldRetry(r)

\* S as the sequence in which its members appear in seq.
InOrder(S, seq) ==
  {e \in [1 .. Cardinality(S) -> S] :
     \A i, j \in 1 .. Cardinality(S) :
        i < j => \E a, b \in DOMAIN seq : a < b /\ seq[a] = e[i] /\ seq[b] = e[j]}

\* setState(target[t]) on every t of DOMAIN target, in the order of seq, from
\* the records `base'; `before' is what was posted earlier in the same step.
SetStates(base, target, seq, before) ==
  LET T == DOMAIN target
      starting == {t \in T : IsActive(target[t]) /\ ~IsActive(base[t].state)}
  IN  \E outcome \in [starting -> Outcomes] :
        LET how(t) == IF t \in starting THEN outcome[t] ELSE "runs"
            retried == {t \in T : PostsRetry(base[t], target[t], how(t))}
        IN  /\ transfer' = [t \in Transfers |->
                  IF t \in T THEN AfterSetState(base[t], target[t], how(t)) ELSE base[t]]
            /\ \E e \in InOrder(retried, seq) :
                  posted' = before \o [i \in 1 .. Cardinality(retried) |-> Retry(e[i])]

\* QueueMgr::transferStateChanged() forgets the saved states on any change to a
\* state other than Paused; with "autoremove", Completed is another exception.
Forgets(target) ==
  \E t \in DOMAIN target :
    /\ target[t] # transfer[t].state
    /\ target[t] # "Paused" /\ ~(AutoRemove /\ target[t] = "Completed")

NothingSaved == [t \in Transfers |-> NotSaved]

\* Mutant: transferStateChanged() without m_paused.clear().
PausedAfterMutant(target) == paused

PausedAfter(target) == IF Forgets(target) THEN NothingSaved ELSE paused

ChangeStates(target, seq, before) ==
  /\ SetStates(transfer, target, seq, before)
  /\ paused' = PausedAfter(target)

ChangeState(t, s, before) == ChangeStates([x \in {t} |-> s], <<t>>, before)

-----------------------------------------------------------------------------
(* QueueMgr::doWork()                                                      *)

Lane(t) == IF transfer[t].mode = "Download" \/ UpAsDown THEN "down" ELSE "up"

\* Mutant: forced transfers compete as well.
ContendersMutant(q) ==
  {i \in DOMAIN queue[q] :
     transfer[queue[q][i]].state \in {"Waiting", "Active", "ForcedActive"}}

\* Positions of the transfers that compete for the limits.
Contenders(q) ==
  {i \in DOMAIN queue[q] : transfer[queue[q][i]].state \in {"Waiting", "Active"}}

\* Mutants: one place too many; the last of the queue goes first.
HasSlotOneMore(q, i) ==
  LET t == queue[q][i]
      ahead == {j \in Contenders(q) : j < i /\ Lane(queue[q][j]) = Lane(t)}
  IN  limit[q][Lane(t)] < 0 \/ Cardinality(ahead) <= limit[q][Lane(t)]

HasSlotLastFirst(q, i) ==
  LET t == queue[q][i]
      behind == {j \in Contenders(q) : j > i /\ Lane(queue[q][j]) = Lane(t)}
  IN  limit[q][Lane(t)] < 0 \/ Cardinality(behind) < limit[q][Lane(t)]

\* The contender at position i gets one of the places its lane still has.
HasSlot(q, i) ==
  LET t == queue[q][i]
      ahead == {j \in Contenders(q) : j < i /\ Lane(queue[q][j]) = Lane(t)}
  IN  limit[q][Lane(t)] < 0 \/ Cardinality(ahead) < limit[q][Lane(t)]

\* Mutant: waiting transfers go to neither list.
TickTargetMutant(q) ==
  [t \in {queue[q][i] : i \in {j \in Contenders(q) : ~HasSlot(q, j)}} |-> "Waiting"]

\* resumeList -> Active, stopList -> Waiting.
TickTarget(q) ==
  LET resumed == {queue[q][i] : i \in {j \in Contenders(q) : HasSlot(q, j)}}
  IN  [t \in {queue[q][i] : i \in Contenders(q)} |->
         IF t \in resumed THEN "Active" ELSE "Waiting"]

\* Mutant: "autoremove" is read the wrong way round.
SweptMutant(q) ==
  IF AutoRemove THEN {} ELSE {t \in Members(q) : transfer[t].state = "Completed"}

Swept(q) ==
  IF AutoRemove THEN {t \in Members(q) : transfer[t].state = "Completed"} ELSE {}

\* One queue of a pass over all queues: note which transfers move data at
\* 1 KiB/s, remove the completed ones, apply the limits.
TickQueue(q) ==
  /\ tick = q - 1
  /\ q = 1 => MainIdle
  /\ tick' = q % QueueCount
  /\ \E fast \in SUBSET {t \in Members(q) : transfer[t].engine},
        gone \in InOrder(Swept(q), queue[q]),
        kept \in InOrder(Members(q) \ Swept(q), queue[q]) :
       LET noted == [t \in Transfers |->
             IF t \in fast THEN [transfer[t] EXCEPT !.working = TRUE]
                           ELSE transfer[t]]
           deletes == [i \in 1 .. Cardinality(Swept(q)) |-> Delete(gone[i])]
       IN  /\ SetStates(noted, TickTarget(q), queue[q], posted \o deletes)
           /\ queue' = [queue EXCEPT ![q] = kept]
  /\ paused' = PausedAfter(TickTarget(q))
  /\ UNCHANGED <<limit, life, handover>>

-----------------------------------------------------------------------------
(* Events posted to the main thread                                        *)

HeadIs(kind) == tick = 0 /\ posted # <<>> /\ Head(posted).kind = kind

Min(a, b) == IF a < b THEN a ELSE b

\* Transfer::retry(), queued when the transfer failed.
RunRetry ==
  /\ HeadIs("retry") /\ Exists(Head(posted).t)
  /\ LET t == Head(posted).t
         counted == [transfer EXCEPT ![t].retries = Min(@ + 1, RetryCount + 1)]
         s == IF transfer[t].forced THEN "ForcedActive" ELSE "Waiting"
         target == [x \in {t} |-> s]
     IN  /\ SetStates(counted, target, <<t>>, Tail(posted))
         /\ paused' = PausedAfter(target)
  /\ UNCHANGED <<queue, limit, life, handover, tick>>

\* Qt drops a call queued on an object that has been deleted.
DropRetry ==
  /\ HeadIs("retry") /\ ~Exists(Head(posted).t)
  /\ posted' = Tail(posted)
  /\ UNCHANGED <<queue, limit, transfer, life, handover, paused, tick>>

\* TransferFactory::setStateSlot(), queued by a worker thread.
RunSet ==
  /\ HeadIs("set") /\ Exists(Head(posted).t)
  /\ ChangeState(Head(posted).t, Head(posted).state, Tail(posted))
  /\ UNCHANGED <<queue, limit, life, handover, tick>>

\* The same with a pointer to a deleted transfer, which is undefined: the call hits
\* no transfer, or another that is in its place by now (any one here, whenever it was
\* created).  It may also crash, and with the program ends what is said here.
RunDanglingSet ==
  /\ HeadIs("set") /\ ~Exists(Head(posted).t)
  /\ \/ /\ posted' = Tail(posted)
        /\ UNCHANGED <<transfer, paused>>
     \/ \E t \in Transfers :
          Exists(t) /\ ChangeState(t, Head(posted).state, Tail(posted))
  /\ UNCHANGED <<queue, limit, life, handover, tick>>

\* The deferred delete of a removed transfer, whose destructor stops the engine.
RunDelete ==
  /\ HeadIs("delete")
  /\ LET t == Head(posted).t
     IN  /\ life' = [life EXCEPT ![t] = "gone"]
         /\ transfer' = [transfer EXCEPT ![t] = Fresh]
  /\ posted' = Tail(posted)
  /\ UNCHANGED <<queue, limit, handover, paused, tick>>

-----------------------------------------------------------------------------
(* Engines (external)                                                      *)

EngineFails(t) ==
  /\ MainIdle /\ transfer[t].engine
  /\ ChangeState(t, "Failed", posted)
  /\ UNCHANGED <<queue, limit, life, handover, tick>>

EngineCompletes(t) ==
  /\ MainIdle /\ transfer[t].engine
  /\ ChangeState(t, "Completed", posted)
  /\ UNCHANGED <<queue, limit, life, handover, tick>>

\* A torrent has all its data and seeds: setMode(Upload).  Its modeChanged
\* signal drops a forced transfer back to Active when that is configured.
TorrentSeeds(t) ==
  /\ MainIdle /\ t \in Torrents
  /\ transfer[t].engine /\ transfer[t].mode = "Download"
  /\ LET dropped == transfer[t].state = "ForcedActive" /\ DropForced
         r == IF dropped THEN AfterSetState(transfer[t], "Active", "runs") ELSE transfer[t]
     IN  /\ transfer' = [transfer EXCEPT ![t] = [r EXCEPT !.mode = "Upload"]]
         /\ paused' = IF dropped THEN NothingSaved ELSE paused
  /\ UNCHANGED <<queue, limit, life, handover, posted, tick>>

-----------------------------------------------------------------------------
(* Commands on the main thread: desktop menus and the scheduler            *)

Command(t, s) ==
  /\ MainIdle /\ t \in Queued
  /\ ChangeState(t, s, posted)
  /\ UNCHANGED <<queue, limit, life, handover, tick>>

Start(t) ==
  /\ transfer[t].state # "Active"
  /\ Command(t, IF transfer[t].state = "ForcedActive" THEN "Active" ELSE "Waiting")

ForceStart(t) == Command(t, "ForcedActive")

Pause(t) == Command(t, "Paused")

\* One setState(s) on every transfer of queue q that is in one of the states S.
CommandQueue(q, S, s) ==
  /\ MainIdle
  /\ ChangeStates([t \in {u \in Members(q) : transfer[u].state \in S} |-> s],
                  queue[q], posted)
  /\ UNCHANGED <<queue, limit, life, handover, tick>>

StartAll(q) == CommandQueue(q, {"Paused", "Failed"}, "Waiting")
PauseQueue(q) == CommandQueue(q, States \ {"Completed"}, "Paused")
ResumeAll(q) == CommandQueue(q, {"Paused", "Failed"}, "Active")
StopAll(q) == CommandQueue(q, {"Active", "ForcedActive"}, "Paused")

\* Mutant: failed transfers are paused and saved too.
PauseAllTransfersMutant ==
  /\ MainIdle
  /\ LET stopped == {t \in Queued : transfer[t].state \notin {"Paused", "Completed"}}
     IN  /\ SetStates(transfer, [t \in stopped |-> "Paused"], <<>>, posted)
         /\ paused' = [t \in Transfers |->
                         IF t \in stopped THEN transfer[t].state ELSE NotSaved]
  /\ UNCHANGED <<queue, limit, life, handover, tick>>

\* QueueMgr::pauseAllTransfers()
PauseAllTransfers ==
  /\ MainIdle
  /\ LET stopped == {t \in Queued : transfer[t].state \in {"Waiting", "Active", "ForcedActive"}}
     IN  /\ SetStates(transfer, [t \in stopped |-> "Paused"], <<>>, posted)
         /\ paused' = [t \in Transfers |->
                         IF t \in stopped THEN transfer[t].state ELSE NotSaved]
  /\ UNCHANGED <<queue, limit, life, handover, tick>>

\* The places of the transfers whose state can be restored, and their order.
Restorable ==
  {p \in Queues \X (1 .. Cardinality(Transfers)) :
     /\ p[2] \in DOMAIN queue[p[1]]
     /\ paused[queue[p[1]][p[2]]] # NotSaved
     /\ transfer[queue[p[1]][p[2]]].state = "Paused"}

Before(p, r) == p[1] < r[1] \/ (p[1] = r[1] /\ p[2] < r[2])

\* QueueMgr::unpauseAllTransfers().  The setState() of the first transfer it
\* restores makes transferStateChanged() clear m_paused, so that
\* m_paused.contains() holds for no later one.
UnpauseAllTransfers ==
  /\ MainIdle
  /\ \/ /\ Restorable = {}
        /\ UNCHANGED <<transfer, posted>>
     \/ \E p \in Restorable :
          /\ \A r \in Restorable \ {p} : Before(p, r)
          /\ LET t == queue[p[1]][p[2]]
             IN  SetStates(transfer, [x \in {t} |-> paused[t]], <<t>>, posted)
  /\ paused' = NothingSaved
  /\ UNCHANGED <<queue, limit, life, handover, tick>>

-----------------------------------------------------------------------------
(* Changing the queues                                                     *)

Without(t, seq) == InOrder({seq[i] : i \in DOMAIN seq} \ {t}, seq)

\* MainWindow::addTransfer(): created, started and queued in one handler.
AddTransfer(t, q, s) ==
  /\ MainIdle /\ life[t] = "none" /\ s \in {"Waiting", "Paused"}
  /\ ChangeState(t, s, posted)
  /\ life' = [life EXCEPT ![t] = "alive"]
  /\ queue' = [queue EXCEPT ![q] = Append(@, t)]
  /\ UNCHANGED <<limit, handover, tick>>

\* Mutant: delete instead of deleteLater().
RemoveMutant(t) ==
  /\ \E q \in Queues :
       /\ t \in Members(q)
       /\ \E rest \in Without(t, queue[q]) : queue' = [queue EXCEPT ![q] = rest]
  /\ transfer' = [transfer EXCEPT ![t] = Fresh]
  /\ life' = [life EXCEPT ![t] = "gone"]
  /\ UNCHANGED <<limit, handover, posted, paused, tick>>

\* Queue::remove(), on the main thread or a REST worker's: an active transfer
\* is paused; the object is deleted once the events before it have run.
Remove(t) ==
  /\ Len(posted) <= MaxPosted
  /\ \E q \in Queues :
       /\ t \in Members(q)
       /\ \E rest \in Without(t, queue[q]) : queue' = [queue EXCEPT ![q] = rest]
  /\ transfer' = [transfer EXCEPT ![t] =
                    IF IsActive(@.state) THEN AfterSetState(@, "Paused", "runs") ELSE @]
  /\ posted' = Append(posted, Delete(t))
  /\ UNCHANGED <<limit, life, handover, paused, tick>>

\* Queue::moveToPos() and its special cases moveUp(), moveDown(), moveToTop()
\* and moveToBottom(): the transfer at i ends up at j.
Move(q, i, j) ==
  /\ i # j
  /\ queue' = [queue EXCEPT ![q] =
       [k \in DOMAIN @ |-> CASE k = j -> @[i]
                             [] i < j /\ k \in i .. j - 1 -> @[k + 1]
                             [] j < i /\ k \in j + 1 .. i -> @[k - 1]
                             [] OTHER -> @[k]]]
  /\ UNCHANGED <<limit, transfer, life, handover, posted, paused, tick>>

SetTransferLimits(q, l) ==
  /\ limit[q] # l
  /\ limit' = [limit EXCEPT ![q] = l]
  /\ UNCHANGED <<queue, transfer, life, handover, posted, paused, tick>>

-----------------------------------------------------------------------------
(* REST workers                                                            *)

\* PATCH /transfers: the new state is posted while the worker holds the lock
\* of the transfer's queue.
PostState(t, s) ==
  /\ Len(posted) < MaxPosted /\ t \in Queued
  /\ posted' = Append(posted, Set(t, s))
  /\ UNCHANGED <<queue, limit, transfer, life, handover, paused, tick>>

\* TransferAdder::add(), the pass over the links: the transfer of one of them is
\* created, and its state posted before it is in a queue.
CreateTransfer(t, q, s) ==
  /\ Len(posted) < MaxPosted /\ life[t] = "none" /\ s \in {"Waiting", "Paused"}
  /\ life' = [life EXCEPT ![t] = "new"]
  /\ posted' = Append(posted, Set(t, s))
  /\ handover' = [handover EXCEPT ![t] = q]
  /\ UNCHANGED <<queue, limit, transfer, paused, tick>>

\* A later link of the request fails: the worker deletes at once what it has
\* created for the earlier ones, and leaves the state it posted for them.
RollBack(t) ==
  /\ life[t] = "new"
  /\ life' = [life EXCEPT ![t] = "discarded"]
  /\ transfer' = [transfer EXCEPT ![t] = Fresh]
  /\ handover' = [handover EXCEPT ![t] = NoQueue]
  /\ UNCHANGED <<queue, limit, posted, paused, tick>>

\* Mutant: at() instead of take().
TakeTransferMutant(t, q) ==
  /\ t \in Queued
  /\ handover' = [handover EXCEPT ![t] = q]
  /\ UNCHANGED <<queue, limit, transfer, life, posted, paused, tick>>

\* moveTransfersToQueue(): the transfer is taken out of its queue first (with
\* HandOver() at once after it, the desktop's drag from queue to queue) ...
TakeTransfer(t, q) ==
  /\ \E p \in Queues :
       /\ t \in Members(p)
       /\ \E rest \in Without(t, queue[p]) : queue' = [queue EXCEPT ![p] = rest]
  /\ handover' = [handover EXCEPT ![t] = q]
  /\ UNCHANGED <<limit, transfer, life, posted, paused, tick>>

\* Mutant: a worker lets go of the transfer and adds it to no queue.
HandOverMutant(t) ==
  /\ handover[t] # NoQueue
  /\ life' = [life EXCEPT ![t] = "alive"]
  /\ handover' = [handover EXCEPT ![t] = NoQueue]
  /\ UNCHANGED <<queue, limit, transfer, posted, paused, tick>>

\* ... and it, or one that has been created, is added to the queue it is for
\* later, by itself a locked operation.
HandOver(t) ==
  /\ handover[t] # NoQueue
  /\ queue' = [queue EXCEPT ![handover[t]] = Append(@, t)]
  /\ life' = [life EXCEPT ![t] = "alive"]
  /\ handover' = [handover EXCEPT ![t] = NoQueue]
  /\ UNCHANGED <<limit, transfer, posted, paused, tick>>

-----------------------------------------------------------------------------

\* Transfer::load() sets the saved state, before there is a QueueMgr to notice.
Init ==
  /\ queue = Loaded
  /\ limit \in [Queues -> LimitChoices]
  /\ \E saved \in [Queued -> States], outcome \in [Queued -> Outcomes] :
       transfer = [t \in Transfers |->
         IF t \in Queued THEN AfterSetState(Fresh, saved[t], outcome[t]) ELSE Fresh]
  /\ life = [t \in Transfers |-> IF t \in Queued THEN "alive" ELSE "none"]
  /\ handover = [t \in Transfers |-> NoQueue]
  /\ posted = <<>>
  /\ paused = NothingSaved
  /\ tick = 0

Posted == RunRetry \/ DropRetry \/ RunSet \/ RunDanglingSet \/ RunDelete

Engine(t) == EngineFails(t) \/ EngineCompletes(t) \/ TorrentSeeds(t)

TransferCommand(t) == Start(t) \/ ForceStart(t) \/ Pause(t) \/ Remove(t)

QueueCommand(q) ==
  \/ StartAll(q) \/ PauseQueue(q) \/ ResumeAll(q) \/ StopAll(q)
  \/ \E i, j \in DOMAIN queue[q] : Move(q, i, j)
  \/ \E l \in LimitChoices : SetTransferLimits(q, l)

Worker(t) ==
  \/ \E s \in RestStates : PostState(t, s)
  \/ HandOver(t) \/ RollBack(t)
  \/ \E q \in Queues : TakeTransfer(t, q)

Adding(t, q) ==
  \E s \in {"Waiting", "Paused"} : AddTransfer(t, q, s) \/ CreateTransfer(t, q, s)

Next ==
  \/ \E q \in Queues : TickQueue(q) \/ QueueCommand(q)
  \/ Posted \/ PauseAllTransfers \/ UnpauseAllTransfers
  \/ \E t \in Transfers : Engine(t) \/ TransferCommand(t) \/ Worker(t)
  \/ \E t \in Transfers, q \in Queues : Adding(t, q)

\* The timer fires again and again and the event loop runs what is posted; a
\* worker finishes a request it has begun.  Users and engines owe nothing.
Fairness ==
  /\ \A q \in Queues : WF_vars(TickQueue(q))
  /\ WF_vars(Posted)
  /\ \A t \in Transfers : WF_vars(HandOver(t) \/ RollBack(t))

Spec == Init /\ [][Next]_vars /\ Fairness

-----------------------------------------------------------------------------
(* Properties                                                              *)

TypeOK ==
  /\ queue \in [Queues -> Seq(Transfers)]
  /\ limit \in [Queues -> LimitChoices]
  /\ transfer \in [Transfers -> Records]
  /\ life \in [Transfers -> Lives]
  /\ handover \in [Transfers -> Queues \cup {NoQueue}]
  /\ posted \in Seq(Events)
  /\ paused \in [Transfers -> {"Waiting", "Active", "ForcedActive", NotSaved}]
  /\ tick \in 0 .. QueueCount - 1

\* Nested setState() calls (an engine that fails while it is being started) keep
\* the engine and the state together: changeActive() has started the engine of
\* exactly the transfers whose state is Active or ForcedActive.
EngineMatchesState ==
  \A t \in Transfers : transfer[t].engine <=> IsActive(transfer[t].state)

\* A state "Pause all transfers" saved is never applied to a transfer that has
\* been started or failed since, nor to one that has completed and stays: whatever
\* QueueMgr remembers is of a transfer that is still Paused, or (a REST client can
\* declare it Completed) of one that "autoremove" is about to remove.
SavedArePaused ==
  \A t \in Transfers :
    paused[t] # NotSaved =>
      transfer[t].state = "Paused" \/ (AutoRemove /\ transfer[t].state = "Completed")

\* However REST workers move transfers between queues while the main thread
\* works on them, a transfer is never in two places: it occurs once in one
\* queue, or a worker holds it, or it is in neither.
NeverTwice ==
  /\ Once(queue)
  /\ \A t \in Queued : life[t] = "alive" /\ handover[t] = NoQueue

\* Where a transfer is: in a queue, in the hands of a worker, or on its way to the
\* destructor; "lost" if it is alive and nobody knows of it any more.
PlaceOf(t) ==
  IF t \in Queued THEN <<"queue", CHOOSE q \in Queues : t \in Members(q)>>
  ELSE IF handover[t] # NoQueue
    THEN <<IF life[t] = "new" THEN "new" ELSE "hands", handover[t]>>
  ELSE IF life[t] = "none" THEN <<"unborn", NoQueue>>
  ELSE IF ~Exists(t) THEN <<"deleted", NoQueue>>
  ELSE IF \E i \in DOMAIN posted : posted[i] = Delete(t) THEN <<"removed", NoQueue>>
  ELSE <<"lost", NoQueue>>

\* However the main thread and REST workers interleave, no transfer is lost or
\* deleted from under its queue or its worker: each one goes from place to place as Custody says.
Kept == INSTANCE Custody WITH place <- [t \in Transfers |-> PlaceOf(t)]
InCustody == Kept!Spec

SetAt(i) == posted[i].kind = "set"

\* setStateSlot() gets a raw Transfer*, which Qt does not track: however states are
\* posted and transfers removed, no such event is left for a transfer that has been,
\* or by then will have been, deleted.  But for one: a worker that discards what it
\* has created (RollBack) leaves the state it posted at creation, and that alone.
NoDanglingEvents ==
  \A i \in DOMAIN posted :
    SetAt(i) =>
      \/ /\ Exists(posted[i].t)
         /\ \A j \in 1 .. i - 1 : posted[j] # Delete(posted[i].t)
      \/ /\ life[posted[i].t] = "discarded"
         /\ \A j \in DOMAIN posted : SetAt(j) /\ posted[j].t = posted[i].t => j = i

ActiveIn(q, lane) ==
  {t \in Members(q) : transfer[t].state = "Active" /\ Lane(t) = lane}

\* After doWork() has handled a queue, no more of its transfers are Active than
\* the queue's limits allow, whatever made them Active before.
TickKeepsLimits ==
  [][\A q \in Queues : TickQueue(q) =>
       \A lane \in {"down", "up"} :
         limit[q][lane] >= 0 => Cardinality(ActiveIn(q, lane)') <= limit[q][lane]]_vars

\* The order of the queue decides who runs: after doWork() no transfer waits
\* while one behind it that competes for the same places is Active.
TickKeepsOrder ==
  [][\A q \in Queues : TickQueue(q) =>
       \A i, j \in DOMAIN queue'[q] :
         ~ /\ i < j
           /\ Lane(queue'[q][i]) = Lane(queue'[q][j])
           /\ transfer'[queue'[q][i]].state = "Waiting"
           /\ transfer'[queue'[q][j]].state = "Active"]_vars

\* doWork() decides only over Waiting and Active transfers: it never stops one
\* the user has forced, and starts none that is paused, failed or completed.
TickLeavesOthers ==
  [][\A q \in Queues : TickQueue(q) =>
       \A t \in Transfers :
         transfer[t].state \notin {"Waiting", "Active"}
           => transfer'[t].state = transfer[t].state]_vars

\* A transfer that stays Waiting among the first of its queue, with room for it,
\* is started: no interleaving of commands and events starves it for ever.
WaitingStarts ==
  \A t \in Transfers :
    ~ <>[] \E q \in Queues : \E i \in Contenders(q) :
             queue[q][i] = t /\ HasSlot(q, i) /\ transfer[t].state = "Waiting"

\* A removed transfer does not linger, whatever was queued for it before, and a
\* completed one is removed if it stays completed and "autoremove" is set.
CompletedAreRemoved ==
  AutoRemove =>
    \A t \in Transfers : ~ <>[] (t \in Queued /\ transfer[t].state = "Completed")

\* ---- statements of the documentation ----

\* doc/transfers/index.html:134, of "Pause all transfers": "Choose it again to
\* put them back in the state they were in."  Every saved state is restored,
\* unless the engine failed or completed while it was being started.
UnpauseRestoresAll ==
  [][UnpauseAllTransfers =>
       \A t \in Queued : paused[t] # NotSaved => transfer'[t].state # "Paused"]_vars

\* doc/transfers/index.html:129, of Pause: "Stops the transfer and makes it
\* Paused."  A paused transfer is not started by an automatic retry.
RetryLeavesPaused ==
  [][RunRetry => \A t \in Transfers :
       transfer[t].state = "Paused" => transfer'[t].state = "Paused"]_vars
=============================================================================
