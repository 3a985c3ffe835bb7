----------------------------- MODULE WebClient -----------------------------
(***************************************************************************)
(* A page of the web interface (src/webui/src/app) that shows queues and   *)
(* transfers and deletes them, while other clients change them on the      *)
(* server: QueuesStore, TransfersStore, activeGatedPoll, ConnectionHealth, *)
(* TransferActionsService, QueueActionsService and the shell's dialogs.    *)
(*                                                                         *)
(* The page is single threaded; what interleaves is the user, the timer    *)
(* and the answers of its requests.  Requests reach the server and their   *)
(* answers the page in any order, and may fail.  Each handler is one step; *)
(* the transfers' poll follows the selected queue with a delay, as         *)
(* toObservable() tells it through an effect.                              *)
(*                                                                         *)
(* Left out: the order of transfers and what moves them, their states and  *)
(* properties, and adding transfers and queues from this page, which is as *)
(* when others add them.                                                   *)
(***************************************************************************)
EXTENDS Integers, Sequences, FiniteSets, SequencesExt

CONSTANTS
  Queues,       \* queues there may be: numbered, the server lists them in order
  Transfers,    \* transfers there may be
  MaxChanges,   \* bound on the changes other clients begin
  MaxFailures,  \* bound on the requests that fail on their way
  MaxGets       \* bound on the requests for the queue list under way

ASSUME WebAssumption ==
  /\ Queues \subseteq Nat \ {0} /\ IsFiniteSet(Queues)
  /\ MaxChanges \in Nat /\ MaxFailures \in Nat /\ MaxGets \in Nat \ {0}

None == 0     \* no queue
Unborn == -1  \* home of a transfer not yet added
Gone == -2    \* ... and of a deleted one

VARIABLES
  exists,         \* server: the queues, and ...
  born,           \* ... those that have ever been
  home,           \* server: home[t] is the queue that holds t
  version,        \* history: changes made on the server
  queues,         \* QueuesStore.queues
  selectedQueue,  \* QueuesStore.selectedQueueUuid
  gets,           \* GET /queues under way
  pollQueue,      \* the queue activeGatedPoll() is at
  fetch,          \* its GET of the queue's transfers, if one is under way
  transfers,      \* TransfersStore.transfers
  seen,           \* history: `version' when the server listed these
  selected,       \* TransfersStore.selectedUuids
  failing,        \* ConnectionHealth.failing
  failures,       \* requests that failed on their way
  confirm,        \* the ConfirmationService's question
  deletion,       \* DELETE /transfers
  count,          \* countTransfers()
  queueDialog,    \* DeleteQueueDialog
  removal,        \* DELETE /queues/:queue
  unasked         \* history: transfers deleted with a queue said to be empty

serverVars == <<exists, born, home, version>>
viewVars == <<queues, selectedQueue, gets, pollQueue, fetch, transfers, seen,
              selected, failing>>
deleteVars == <<confirm, deletion, count, queueDialog, removal>>
webVars == <<serverVars, viewVars, failures, deleteVars, unasked>>

Sources == {"queues", "transfers"}
Content(q) == {t \in Transfers : home[t] = q}

\* Mutant: queues[0] of an empty list.
FirstMutant(S) == IF S = {} THEN Unborn ELSE CHOOSE q \in S : \A r \in S : q <= r

First(S) == IF S = {} THEN None ELSE CHOOSE q \in S : \A r \in S : q <= r

Asking(q) == [answered |-> FALSE, queue |-> q, ok |-> FALSE, list |-> {}, at |-> 0]

NoConfirm == [kind |-> "no", uuids |-> {}, clear |-> FALSE, queue |-> None]
Idle == [phase |-> "idle", uuids |-> {}, clear |-> FALSE]
NoCount == [phase |-> "idle", queue |-> None, empty |-> FALSE]
Closed == [open |-> FALSE, queue |-> None]
NoRemoval == [phase |-> "idle", queue |-> None, asked |-> "empty", mode |-> "empty",
              to |-> None]

-----------------------------------------------------------------------------
(* The server, and other clients that change it                            *)

Change(newHome, newExists) ==
  /\ home' = newHome /\ exists' = newExists
  /\ version' = version + 1

\* What a queue's transfers become when it is deleted.
Dissolved(q, mode, to) ==
  [t \in Transfers |-> IF home[t] # q THEN home[t]
                       ELSE IF mode = "move" THEN to ELSE Gone]

OthersDo ==
  \/ \E t \in Transfers, q \in exists :
       /\ home[t] \in (exists \cup {Unborn}) \ {q}
       /\ Change([home EXCEPT ![t] = q], exists) /\ UNCHANGED born
  \/ \E t \in Transfers :
       /\ home[t] \in exists
       /\ Change([home EXCEPT ![t] = Gone], exists) /\ UNCHANGED born
  \/ \E q \in Queues \ born :
       /\ Change(home, exists \cup {q}) /\ born' = born \cup {q}
  \/ \E q \in exists :
       /\ Change(Dissolved(q, "delete", None), exists \ {q}) /\ UNCHANGED born

Others ==
  /\ version < MaxChanges
  /\ OthersDo
  /\ UNCHANGED <<viewVars, failures, deleteVars, unasked>>

-----------------------------------------------------------------------------
(* QueuesStore                                                             *)

AskQueues == gets' = Append(gets, [answered |-> FALSE, list |-> {}])

AnswerQueues(i) ==
  /\ ~gets[i].answered
  /\ gets' = [gets EXCEPT ![i] = [answered |-> TRUE, list |-> exists]]
  /\ UNCHANGED <<serverVars, queues, selectedQueue, pollQueue, fetch, transfers, seen, selected, failing, failures, deleteVars, unasked>>

\* The selected queue if it still exists, or else the first one.
SelectionIn(list) == IF selectedQueue \in list THEN selectedQueue ELSE First(list)

\* refresh()'s next handler.  Nothing keeps an older answer from coming last.
QueuesArrive(i) ==
  /\ gets[i].answered
  /\ queues' = gets[i].list
  /\ selectedQueue' = SelectionIn(gets[i].list)
  /\ gets' = RemoveAt(gets, i)
  /\ failing' = failing \ {"queues"}
  /\ UNCHANGED <<serverVars, pollQueue, fetch, transfers, seen, selected,
                 failures, deleteVars, unasked>>

Fail == failures < MaxFailures /\ failures' = failures + 1

QueuesFail(i) ==
  /\ Fail
  /\ gets' = RemoveAt(gets, i)
  /\ failing' = failing \cup {"queues"}
  /\ UNCHANGED <<serverVars, queues, selectedQueue, pollQueue, fetch, transfers, seen, selected, deleteVars, unasked>>

-----------------------------------------------------------------------------
(* TransfersStore and activeGatedPoll                                      *)

\* Mutant: mergeMap for switchMap.
RefetchMutant == fetch' = IF pollQueue = None THEN <<>> ELSE Append(fetch, Asking(pollQueue))

\* A tick or refreshNow(): switchMap drops the request under way for a new one.
Refetch == fetch' = IF pollQueue = None THEN <<>> ELSE <<Asking(pollQueue)>>

\* The poll learns of the selected queue; of(null) empties the table at once.
Follow ==
  /\ pollQueue # selectedQueue
  /\ pollQueue' = selectedQueue
  /\ IF selectedQueue = None
     THEN fetch' = <<>> /\ transfers' = {} /\ selected' = {}
     ELSE fetch' = <<Asking(selectedQueue)>> /\ UNCHANGED <<transfers, selected>>
  /\ UNCHANGED <<serverVars, queues, selectedQueue, gets, seen, failing, failures,
                 deleteVars, unasked>>

\* listQueueTransfers(): 404 if the queue is gone.
AnswerFetch(i) ==
  /\ ~fetch[i].answered
  /\ fetch' = [fetch EXCEPT ![i].answered = TRUE, ![i].ok = fetch[i].queue \in exists,
                            ![i].list = Content(fetch[i].queue), ![i].at = version]
  /\ UNCHANGED <<serverVars, queues, selectedQueue, gets, pollQueue, transfers, seen, selected, failing, failures, deleteVars, unasked>>

\* Mutant: the selection is left alone.
StillThereMutant(list) == selected

StillThere(list) == selected \cap list

\* Mutant: a source that has failed is not taken off the set again.
RecoverMutant(source) == failing

Recover(source) == failing \ {source}

\* apply(), or the failure that keeps the last known transfers.
FetchArrives(i) ==
  /\ fetch[i].answered
  /\ fetch' = RemoveAt(fetch, i)
  /\ IF fetch[i].ok
     THEN /\ transfers' = fetch[i].list /\ seen' = fetch[i].at
          /\ selected' = StillThere(fetch[i].list)
          /\ failing' = Recover("transfers")
     ELSE /\ failing' = failing \cup {"transfers"}
          /\ UNCHANGED <<transfers, seen, selected>>
  /\ UNCHANGED <<serverVars, queues, selectedQueue, gets, pollQueue, failures,
                 deleteVars, unasked>>

FetchFails(i) ==
  /\ Fail
  /\ fetch' = RemoveAt(fetch, i)
  /\ failing' = failing \cup {"transfers"}
  /\ UNCHANGED <<serverVars, queues, selectedQueue, gets, pollQueue, transfers, seen, selected, deleteVars, unasked>>

\* PollingService's tick, which both stores hear.
Tick ==
  /\ Len(gets) < MaxGets
  /\ AskQueues /\ Refetch
  /\ UNCHANGED <<serverVars, queues, selectedQueue, pollQueue, transfers, seen, selected, failing, failures, deleteVars, unasked>>

-----------------------------------------------------------------------------
(* The user                                                                *)

\* A modal question or dialog keeps the user from the rest of the page.
Modal == confirm # NoConfirm \/ queueDialog.open

SelectQueue(q) ==
  /\ ~Modal /\ q \in queues \ {selectedQueue}
  /\ selectedQueue' = q
  /\ UNCHANGED <<serverVars, queues, gets, pollQueue, fetch, transfers, seen,
                 selected, failing, failures, deleteVars, unasked>>

\* Clicks and keys select any of the rows there are.
Select(S) ==
  /\ ~Modal /\ selected # S
  /\ selected' = S
  /\ UNCHANGED <<serverVars, queues, selectedQueue, gets, pollQueue, fetch, transfers, seen, failing, failures, deleteVars, unasked>>

\* deleteSelected(), or deleteCompleted() of those rows that are Completed: the
\* question is about the transfers of this moment.
AskDelete(uuids, clear) ==
  /\ ~Modal /\ uuids # {}
  /\ confirm' = [kind |-> "transfers", uuids |-> uuids, clear |-> clear, queue |-> None]
  /\ UNCHANGED <<serverVars, viewVars, failures, deletion, count, queueDialog, removal,
                 unasked>>

\* requestDeleteQueue(): the server counts the queue's transfers first.
RequestDeleteQueue ==
  /\ ~Modal /\ selectedQueue \in queues /\ count = NoCount
  /\ count' = [phase |-> "sent", queue |-> selectedQueue, empty |-> FALSE]
  /\ UNCHANGED <<serverVars, viewVars, failures, confirm, deletion, queueDialog, removal,
                 unasked>>

\* Mutant: an empty queue is deleted with whatever is in it.
EmptyOptionsMutant == "delete"

\* confirmDeleteEmptyQueue() sends no options: the server refuses if it is not empty.
EmptyOptions == "empty"

Accept ==
  /\ \/ /\ confirm.kind = "transfers" /\ deletion = Idle
        /\ deletion' = [phase |-> "sent", uuids |-> confirm.uuids, clear |-> confirm.clear]
        /\ UNCHANGED removal
     \/ /\ confirm.kind = "queue" /\ removal = NoRemoval
        /\ removal' = [phase |-> "sent", queue |-> confirm.queue, asked |-> "empty",
                       mode |-> EmptyOptions, to |-> None]
        /\ UNCHANGED deletion
  /\ confirm' = NoConfirm
  /\ UNCHANGED <<serverVars, viewVars, failures, count, queueDialog, unasked>>

\* onDelete() of the dialog: the transfers go with the queue or move to another one.
Confirm(mode, to) ==
  /\ queueDialog.open /\ removal = NoRemoval
  /\ removal' = [phase |-> "sent", queue |-> queueDialog.queue, asked |-> mode,
                 mode |-> mode, to |-> to]
  /\ queueDialog' = Closed
  /\ UNCHANGED <<serverVars, viewVars, failures, confirm, deletion, count, unasked>>

Cancel ==
  /\ Modal
  /\ confirm' = NoConfirm /\ queueDialog' = Closed
  /\ UNCHANGED <<serverVars, viewVars, failures, deletion, count, removal, unasked>>

-----------------------------------------------------------------------------
(* DELETE /transfers                                                       *)

\* deleteTransfers() checks all of them ...
CheckDeletion ==
  /\ deletion.phase = "sent"
  /\ deletion' = [deletion EXCEPT !.phase =
                    IF \A t \in deletion.uuids : home[t] \in exists
                    THEN "running" ELSE "failed"]
  /\ UNCHANGED <<serverVars, viewVars, failures, confirm, count, queueDialog, removal,
                 unasked>>

\* ... and removes one after the other; one that has gone meanwhile ends it.
DeleteOne(t) ==
  /\ deletion.phase = "running" /\ t \in deletion.uuids
  /\ IF home[t] \in exists
     THEN /\ Change([home EXCEPT ![t] = Gone], exists)
          /\ deletion' = [deletion EXCEPT !.uuids = @ \ {t},
                            !.phase = IF deletion.uuids = {t} THEN "ok" ELSE "running"]
     ELSE /\ deletion' = [deletion EXCEPT !.phase = "failed"]
          /\ UNCHANGED <<home, exists, version>>
  /\ UNCHANGED <<born, viewVars, failures, confirm, count, queueDialog, removal, unasked>>

DeletionArrives ==
  /\ deletion.phase \in {"ok", "failed"}
  /\ IF deletion.phase = "ok"
     THEN /\ selected' = IF deletion.clear THEN {} ELSE selected
          /\ Refetch
     ELSE UNCHANGED <<selected, fetch>>
  /\ deletion' = Idle
  /\ UNCHANGED <<serverVars, queues, selectedQueue, gets, pollQueue, transfers, seen, failing, failures, confirm, count, queueDialog, removal,
                 unasked>>

\* Before the server has done it, or after.
DeletionFails ==
  /\ deletion.phase \in {"sent", "ok"}
  /\ Fail
  /\ deletion' = [deletion EXCEPT !.phase = "failed"]
  /\ UNCHANGED <<serverVars, viewVars, confirm, count, queueDialog, removal, unasked>>

-----------------------------------------------------------------------------
(* DELETE /queues/:queue                                                   *)

AnswerCount ==
  /\ count.phase = "sent"
  /\ count' = IF count.queue \in exists
              THEN [count EXCEPT !.phase = "answered", !.empty = Content(count.queue) = {}]
              ELSE NoCount
  /\ UNCHANGED <<serverVars, viewVars, failures, confirm, deletion, queueDialog, removal,
                 unasked>>

\* The question comes whatever the user is doing by then, and takes the place of
\* another one.
CountArrives ==
  /\ count.phase = "answered"
  /\ count' = NoCount
  /\ IF count.empty
     THEN /\ confirm' = [kind |-> "queue", uuids |-> {}, clear |-> FALSE,
                         queue |-> count.queue]
          /\ UNCHANGED queueDialog
     ELSE /\ queueDialog' = [open |-> TRUE, queue |-> count.queue]
          /\ UNCHANGED confirm
  /\ UNCHANGED <<serverVars, viewVars, failures, deletion, removal, unasked>>

\* 404 for a queue that is gone, 409 for one that is not empty with no options.
Refused ==
  \/ removal.queue \notin exists
  \/ removal.mode = "move" /\ removal.to \notin exists
  \/ removal.mode = "empty" /\ Content(removal.queue) # {}

RemoveQueue ==
  /\ removal.phase = "sent"
  /\ IF Refused
     THEN /\ removal' = [removal EXCEPT !.phase = "failed"]
          /\ UNCHANGED <<home, exists, version, unasked>>
     ELSE /\ removal' = [removal EXCEPT !.phase = "ok"]
          /\ Change(Dissolved(removal.queue, removal.mode, removal.to),
                    exists \ {removal.queue})
          /\ unasked' = IF removal.mode # "move" /\ removal.asked # "delete"
                        THEN unasked \cup Content(removal.queue) ELSE unasked
  /\ UNCHANGED <<born, viewVars, failures, confirm, deletion, count, queueDialog>>

RemovalArrives ==
  /\ removal.phase \in {"ok", "failed"}
  /\ IF removal.phase = "ok"
     THEN Len(gets) < MaxGets /\ AskQueues /\ Refetch
     ELSE UNCHANGED <<gets, fetch>>
  /\ removal' = NoRemoval
  /\ UNCHANGED <<serverVars, queues, selectedQueue, pollQueue, transfers, seen,
                 selected, failing, failures, confirm, deletion, count, queueDialog,
                 unasked>>

RemovalFails ==
  /\ removal.phase \in {"sent", "ok"}
  /\ Fail
  /\ removal' = [removal EXCEPT !.phase = "failed"]
  /\ UNCHANGED <<serverVars, viewVars, confirm, deletion, count, queueDialog, unasked>>

-----------------------------------------------------------------------------

\* The server holds any queues and transfers; both stores begin to fetch.
Init ==
  /\ exists \in SUBSET Queues /\ born = exists
  /\ home \in [Transfers -> exists \cup {Unborn}]
  /\ version = 0
  /\ queues = {} /\ selectedQueue = None /\ gets = <<[answered |-> FALSE, list |-> {}]>>
  /\ pollQueue = None /\ fetch = <<>>
  /\ transfers = {} /\ seen = 0 /\ selected = {}
  /\ failing = {} /\ failures = 0
  /\ confirm = NoConfirm /\ deletion = Idle /\ count = NoCount
  /\ queueDialog = Closed /\ removal = NoRemoval
  /\ unasked = {}

Refreshes ==
  \/ \E i \in DOMAIN gets : AnswerQueues(i) \/ QueuesArrive(i) \/ QueuesFail(i)
  \/ \E i \in DOMAIN fetch : AnswerFetch(i) \/ FetchArrives(i) \/ FetchFails(i)
  \/ Follow \/ Tick

Deletes ==
  \/ CheckDeletion \/ (\E t \in Transfers : DeleteOne(t)) \/ DeletionArrives
  \/ DeletionFails
  \/ AnswerCount \/ CountArrives \/ RemoveQueue \/ RemovalArrives \/ RemovalFails

User ==
  \/ \E q \in Queues : SelectQueue(q)
  \/ \E S \in SUBSET transfers : Select(S) \/ AskDelete(S, FALSE)
  \/ AskDelete(selected, TRUE) \/ RequestDeleteQueue \/ Accept \/ Cancel
  \/ Confirm("delete", None)
  \/ \E to \in queues \ {queueDialog.queue} : Confirm("move", to)

Next == Others \/ Refreshes \/ Deletes \/ User

\* The timer ticks, effects run, and requests end.  A tick cancels the fetch under
\* way, so that the server must now and then be quicker than the timer.
WebFairness ==
  /\ WF_webVars(Tick) /\ WF_webVars(Follow)
  /\ WF_webVars(\E i \in DOMAIN gets : AnswerQueues(i))
  /\ WF_webVars(\E i \in DOMAIN gets : QueuesArrive(i))
  /\ SF_webVars(\E i \in DOMAIN fetch : AnswerFetch(i))
  /\ SF_webVars(\E i \in DOMAIN fetch : FetchArrives(i))

Spec == Init /\ [][Next]_webVars /\ WebFairness

-----------------------------------------------------------------------------
(* Properties                                                              *)

ServerTypes ==
  /\ exists \subseteq born /\ born \subseteq Queues
  /\ home \in [Transfers -> exists \cup {Unborn, Gone}] /\ version \in Nat
  /\ unasked \subseteq Transfers

Gets == [answered : BOOLEAN, list : SUBSET Queues]
Fetches == [answered : BOOLEAN, queue : Queues, ok : BOOLEAN, list : SUBSET Transfers,
            at : Nat]

ViewTypes ==
  /\ queues \subseteq Queues /\ selectedQueue \in Queues \cup {None}
  /\ gets \in Seq(Gets) /\ Len(gets) <= MaxGets
  /\ pollQueue \in Queues \cup {None} /\ fetch \in Seq(Fetches)
  /\ transfers \subseteq Transfers /\ seen \in Nat
  /\ selected \subseteq Transfers
  /\ failing \subseteq Sources /\ failures \in 0 .. MaxFailures

DeleteTypes ==
  /\ confirm \in [kind : {"no", "transfers", "queue"}, uuids : SUBSET Transfers,
                  clear : BOOLEAN, queue : Queues \cup {None}]
  /\ deletion \in [phase : {"idle", "sent", "running", "ok", "failed"},
                   uuids : SUBSET Transfers, clear : BOOLEAN]
  /\ count \in [phase : {"idle", "sent", "answered"}, queue : Queues \cup {None},
                empty : BOOLEAN]
  /\ queueDialog \in [open : BOOLEAN, queue : Queues \cup {None}]
  /\ removal \in [phase : {"idle", "sent", "ok", "failed"}, queue : Queues \cup {None},
                  asked : {"empty", "move", "delete"}, mode : {"empty", "move", "delete"},
                  to : Queues \cup {None}]

WebTypeOK == ServerTypes /\ ViewTypes /\ DeleteTypes

\* Whatever other clients delete and however the answers come, what is selected is
\* on the screen: the queue is in the list and the transfers are in the table.
SelectionIsShown ==
  /\ selectedQueue \in queues \/ (selectedQueue = None /\ queues = {})
  /\ selected \subseteq transfers

\* activeGatedPoll: "the 'stale response overwrites current state' bug class" is
\* "structurally impossible here".  The table never goes back to an older state of
\* the server, and is only ever given the transfers of the queue the poll is at.
NeverBack ==
  [][/\ seen' >= seen
     /\ transfers' \notin {transfers, {}} =>
          \E i \in DOMAIN fetch : fetch[i].queue = pollQueue /\ fetch[i].list = transfers'
    ]_webVars

\* Between the count of a queue's transfers and its deletion others may fill it: a queue
\* the user was told is empty takes no transfer with it.
NothingUnasked == unasked = {}

\* The page is as the server is.
UpToDate ==
  /\ queues = exists
  /\ transfers = Content(selectedQueue)
  /\ selectedQueue # None => failing = {}

\* After the last change the page shows what there is, and that the connection works,
\* unless the user switches queues for ever.  With no queue left nothing clears a
\* failure of the transfers' list any more.
Settles ==
  \/ []<><<\E q \in Queues : SelectQueue(q)>>_webVars
  \/ <>[]UpToDate
=============================================================================
