-------------------------- MODULE WebClientProofs --------------------------
(***************************************************************************)
(* Proofs about WebClient for any queues and transfers, any number of      *)
(* changes by others, of failures and of requests under way: what is       *)
(* selected is shown, the table never goes back, and a queue said to be    *)
(* empty takes nothing with it.                                            *)
(***************************************************************************)
EXTENDS WebClient, WellFoundedInduction, TLAPS

\* The poll has one fetch at most, for the queue it is at, and its answer is not
\* older than what is shown.
FetchIsNew ==
  /\ seen <= version /\ Len(fetch) <= 1
  /\ \A i \in DOMAIN fetch :
       /\ fetch[i].queue = pollQueue
       /\ fetch[i].answered => seen <= fetch[i].at /\ fetch[i].at <= version

\* A queue is deleted in the way the user was asked about, and its transfers move to
\* another one.
AsAsked ==
  /\ removal.asked = removal.mode
  /\ removal.mode = "move" => removal.to # removal.queue

\* A step of the page, or a fetch that another part of it starts.
JustRefetch ==
  /\ Refetch
  /\ UNCHANGED <<serverVars, queues, selectedQueue, gets, pollQueue, transfers, seen,
                 selected, failing, failures, deleteVars, unasked>>

WebStep == [Next]_webVars \/ JustRefetch

Inv == WebTypeOK /\ SelectionIsShown /\ FetchIsNew /\ AsAsked /\ NothingUnasked

-----------------------------------------------------------------------------
(* Lemmas                                                                  *)

\* The first queue of a list is in it.
LEMMA FirstInList ==
  ASSUME WebAssumption, NEW S \in SUBSET Queues
  PROVE  IF S = {} THEN First(S) = None ELSE First(S) \in S
<1>1. CASE S = {}
  BY <1>1 DEF First
<1>2. CASE S # {}
  <2>1. S \subseteq Nat
    BY DEF WebAssumption
  <2>2. IsWellFoundedOn(OpToRel(<, Nat), Nat)
    BY NatLessThanWellFounded
  <2>3. \E x \in S : \A y \in S : ~ (<<y, x>> \in OpToRel(<, Nat))
    BY <1>2, <2>1, <2>2, WFMin
  <2>4. \E x \in S : \A y \in S : x <= y
    <3>1. \A x, y \in Nat : y < x => <<y, x>> \in OpToRel(<, Nat)
      BY DEF OpToRel
    <3>2. PICK x \in S : \A y \in S : ~ (<<y, x>> \in OpToRel(<, Nat))
      BY <2>3
    <3>3. \A y \in S : ~ (y < x)
      BY <2>1, <3>1, <3>2
    <3>4. QED
      BY <2>1, <3>3
  <2>5. QED
    BY <1>2, <2>4 DEF First
<1>3. QED
  BY <1>1, <1>2

\* Taking an answer out of the requests under way.
LEMMA Removed ==
  ASSUME NEW T, NEW s \in Seq(T), NEW i \in DOMAIN s
  PROVE  /\ RemoveAt(s, i) \in Seq(T)
         /\ Len(RemoveAt(s, i)) = Len(s) - 1
         /\ Len(s) <= 1 => RemoveAt(s, i) = <<>>
<1>1. i \in 1 .. Len(s) /\ Len(s) \in Nat
  OBVIOUS
<1>2. SubSeq(s, 1, i - 1) \in Seq(T) /\ Len(SubSeq(s, 1, i - 1)) = i - 1
  BY <1>1
<1>3. SubSeq(s, i + 1, Len(s)) \in Seq(T) /\ Len(SubSeq(s, i + 1, Len(s))) = Len(s) - i
  BY <1>1
<1>4. RemoveAt(s, i) \in Seq(T) /\ Len(RemoveAt(s, i)) = Len(s) - 1
  <2>1. \A a, b \in Seq(T) : a \o b \in Seq(T) /\ Len(a \o b) = Len(a) + Len(b)
    OBVIOUS
  <2> DEFINE a == SubSeq(s, 1, i - 1)
             b == SubSeq(s, i + 1, Len(s))
  <2>2. a \in Seq(T) /\ Len(a) = i - 1 /\ b \in Seq(T) /\ Len(b) = Len(s) - i
    BY <1>2, <1>3
  <2>3. RemoveAt(s, i) = a \o b
    BY DEF RemoveAt
  <2> HIDE DEF a, b
  <2>4. QED
    BY <1>1, <2>1, <2>2, <2>3
<1>5. QED
  BY <1>1, <1>4

\* The server's state after a change.
LEMMA Changes ==
  ASSUME ServerTypes, NEW newExists \in SUBSET Queues,
         NEW newHome \in [Transfers -> newExists \cup {Unborn, Gone}],
         Change(newHome, newExists), newExists \subseteq born', born' \subseteq Queues,
         unasked' \subseteq Transfers
  PROVE  ServerTypes' /\ version' = version + 1 /\ version \in Nat
BY DEF ServerTypes, Change

\* Where a deleted queue leaves its transfers.
LEMMA DissolvedType ==
  ASSUME ServerTypes, NEW q, NEW mode, NEW to,
         mode = "move" => to \in exists \ {q}
  PROVE  Dissolved(q, mode, to) \in [Transfers -> (exists \ {q}) \cup {Unborn, Gone}]
BY DEF Dissolved, ServerTypes

\* What does not concern the server leaves it alone.
LEMMA ServerKept ==
  ASSUME WebStep, ~Others, ~(\E t \in Transfers : DeleteOne(t)), ~RemoveQueue
  PROVE  UNCHANGED <<exists, born, home, version, unasked>>
<1> USE DEF serverVars
<1>1. CASE Refreshes
  BY <1>1 DEF Refreshes, AnswerQueues, QueuesArrive, QueuesFail, AnswerFetch, FetchArrives,
              FetchFails, Follow, Tick
<1>2. CASE CheckDeletion \/ DeletionArrives \/ DeletionFails \/ AnswerCount \/ CountArrives
           \/ RemovalArrives \/ RemovalFails
  BY <1>2 DEF CheckDeletion, DeletionArrives, DeletionFails, AnswerCount, CountArrives,
              RemovalArrives, RemovalFails
<1>3. CASE User
  BY <1>3 DEF User, SelectQueue, Select, AskDelete, RequestDeleteQueue, Accept, Cancel,
              Confirm
<1>4. CASE JustRefetch \/ UNCHANGED webVars
  BY <1>4 DEF JustRefetch, webVars
<1>5. QED
  BY <1>1, <1>2, <1>3, <1>4, Zenon DEF WebStep, Next, Deletes

\* Every step keeps the types of the server's state.
LEMMA ServerStep ==
  ASSUME WebTypeOK, AsAsked, WebStep
  PROVE  ServerTypes' /\ version' >= version
<1> USE DEF WebTypeOK
<1>0. exists \subseteq born /\ born \subseteq Queues /\ version \in Nat
      /\ home \in [Transfers -> exists \cup {Unborn, Gone}] /\ unasked \subseteq Transfers
  BY DEF ServerTypes
<1>1. ASSUME Others
      PROVE  ServerTypes' /\ version' >= version
  <2>1. OthersDo /\ unasked' = unasked
    BY <1>1 DEF Others
  <2>2. ASSUME NEW t \in Transfers, NEW q \in exists,
               Change([home EXCEPT ![t] = q], exists), UNCHANGED born
        PROVE  ServerTypes' /\ version' >= version
    BY <1>0, <2>1, <2>2 DEF Change, ServerTypes
  <2>3. ASSUME NEW t \in Transfers,
               Change([home EXCEPT ![t] = Gone], exists), UNCHANGED born
        PROVE  ServerTypes' /\ version' >= version
    BY <1>0, <2>1, <2>3 DEF Change, ServerTypes
  <2>4. ASSUME NEW q \in Queues \ born,
               Change(home, exists \cup {q}) /\ born' = born \cup {q}
        PROVE  ServerTypes' /\ version' >= version
    BY <1>0, <2>1, <2>4 DEF Change, ServerTypes
  <2>5. ASSUME NEW q \in exists,
               Change(Dissolved(q, "delete", None), exists \ {q}), UNCHANGED born
        PROVE  ServerTypes' /\ version' >= version
    <3>1. Dissolved(q, "delete", None) \in [Transfers -> (exists \ {q}) \cup {Unborn, Gone}]
      BY DissolvedType
    <3>2. QED
      BY <1>0, <2>1, <2>5, <3>1, Changes
  <2>6. QED
    BY <2>1, <2>2, <2>3, <2>4, <2>5 DEF OthersDo
<1>2. ASSUME NEW t \in Transfers, DeleteOne(t)
      PROVE  ServerTypes' /\ version' >= version
  <2>1. UNCHANGED <<born, unasked>>
    BY <1>2 DEF DeleteOne
  <2>2. CASE home[t] \in exists
    BY <1>0, <1>2, <2>1, <2>2 DEF DeleteOne, Change, ServerTypes
  <2>3. CASE home[t] \notin exists
    BY <1>0, <1>2, <2>1, <2>3 DEF DeleteOne, ServerTypes
  <2>4. QED
    BY <2>2, <2>3
<1>3. ASSUME RemoveQueue
      PROVE  ServerTypes' /\ version' >= version
  <2>1. born' = born /\ unasked' \subseteq Transfers
    BY <1>0, <1>3 DEF RemoveQueue, Content
  <2>2. CASE Refused
    BY <1>0, <1>3, <2>1, <2>2 DEF RemoveQueue, ServerTypes
  <2>3. CASE ~Refused
    <3>1. Dissolved(removal.queue, removal.mode, removal.to)
            \in [Transfers -> (exists \ {removal.queue}) \cup {Unborn, Gone}]
      BY <2>3, DissolvedType DEF Refused, AsAsked
    <3>2. QED
      BY <1>0, <1>3, <2>1, <2>3, <3>1, Changes DEF RemoveQueue
  <2>4. QED
    BY <2>2, <2>3
<1>4. ASSUME UNCHANGED <<exists, born, home, version, unasked>>
      PROVE  ServerTypes' /\ version' >= version
  BY <1>0, <1>4 DEF ServerTypes
<1>5. QED
  BY <1>1, <1>2, <1>3, <1>4, ServerKept

\* A request under way changes when it is answered.
LEMMA Replaced ==
  ASSUME NEW T, NEW s \in Seq(T), NEW i \in DOMAIN s, NEW x \in T
  PROVE  /\ [s EXCEPT ![i] = x] \in Seq(T)
         /\ Len([s EXCEPT ![i] = x]) = Len(s)
OBVIOUS

\* A new fetch is for the queue the poll is at and has no answer yet.
LEMMA Refetched ==
  ASSUME ViewTypes, WebAssumption, Refetch
  PROVE  /\ fetch' \in Seq(Fetches) /\ Len(fetch') <= 1
         /\ \A i \in DOMAIN fetch' : fetch'[i].queue = pollQueue /\ ~fetch'[i].answered
<1>1. CASE pollQueue = None
  BY <1>1 DEF Refetch
<1>2. CASE pollQueue # None
  <2>1. Asking(pollQueue) \in Fetches
    BY <1>2 DEF Asking, Fetches, ViewTypes
  <2>2. fetch' = <<Asking(pollQueue)>>
    BY <1>2 DEF Refetch
  <2>3. QED
    BY <2>1, <2>2 DEF Asking
<1>3. QED
  BY <1>1, <1>2

\* The answer to a fetch.
LEMMA FetchAnswered ==
  ASSUME WebTypeOK, NEW i \in DOMAIN fetch, AnswerFetch(i)
  PROVE  /\ fetch' \in Seq(Fetches) /\ Len(fetch') = Len(fetch)
         /\ \A j \in DOMAIN fetch' : j \in DOMAIN fetch /\ fetch'[j].queue = fetch[j].queue
         /\ fetch'[i].at = version
         /\ \A j \in DOMAIN fetch' \ {i} : fetch'[j] = fetch[j]
<1> DEFINE r == [fetch[i] EXCEPT !.answered = TRUE, !.ok = fetch[i].queue \in exists,
                                 !.list = Content(fetch[i].queue), !.at = version]
<1>1. fetch \in Seq(Fetches) /\ fetch[i] \in Fetches /\ version \in Nat
  BY DEF WebTypeOK, ViewTypes, ServerTypes
<1>2. Content(fetch[i].queue) \in SUBSET Transfers
  BY DEF Content
<1>3. r \in Fetches /\ r.queue = fetch[i].queue /\ r.at = version
  <2>1. CASE fetch[i].queue \in exists
    <3>1. r = [fetch[i] EXCEPT !.answered = TRUE, !.ok = TRUE,
                               !.list = Content(fetch[i].queue), !.at = version]
      BY <2>1, Zenon
    <3> HIDE DEF r
    <3>2. QED
      BY <1>1, <1>2, <3>1 DEF Fetches
  <2>2. CASE fetch[i].queue \notin exists
    <3>1. (fetch[i].queue \in exists) = FALSE
      BY <2>2
    <3>2. r = [fetch[i] EXCEPT !.answered = TRUE, !.ok = FALSE,
                               !.list = Content(fetch[i].queue), !.at = version]
      BY <3>1, Zenon
    <3> HIDE DEF r
    <3>3. QED
      BY <1>1, <1>2, <3>2 DEF Fetches
  <2>3. QED
    BY <2>1, <2>2
<1>4. fetch' = [fetch EXCEPT ![i] = r]
  BY <1>1 DEF AnswerFetch, Fetches
<1> HIDE DEF r
<1>5. QED
  BY <1>1, <1>3, <1>4, Replaced

\* Every step keeps the types of what the page shows.
LEMMA ViewStep ==
  ASSUME WebAssumption, WebTypeOK, WebStep
  PROVE  ViewTypes'
<1> USE DEF WebTypeOK
<1>0. /\ queues \subseteq Queues /\ selectedQueue \in Queues \cup {None}
      /\ gets \in Seq(Gets) /\ Len(gets) <= MaxGets
      /\ pollQueue \in Queues \cup {None} /\ fetch \in Seq(Fetches)
      /\ transfers \subseteq Transfers /\ seen \in Nat /\ selected \subseteq Transfers
      /\ failing \subseteq Sources /\ failures \in 0 .. MaxFailures
      /\ MaxFailures \in Nat /\ MaxGets \in Nat
  BY DEF ViewTypes, WebAssumption
<1>1. ASSUME NEW i \in DOMAIN gets, AnswerQueues(i)
      PROVE  ViewTypes'
  <2>1. [answered |-> TRUE, list |-> exists] \in Gets
    BY DEF Gets, ServerTypes
  <2>2. gets' \in Seq(Gets) /\ Len(gets') = Len(gets)
    BY <1>0, <1>1, <2>1, Replaced DEF AnswerQueues
  <2>3. QED
    BY <1>0, <1>1, <2>2 DEF AnswerQueues, ViewTypes
<1>2. ASSUME NEW i \in DOMAIN gets, QueuesArrive(i) \/ QueuesFail(i)
      PROVE  ViewTypes'
  <2>1. gets[i].list \in SUBSET Queues
    <3>1. gets[i] \in Gets
      BY <1>0
    <3>2. QED
      BY <3>1 DEF Gets
  <2>2. gets' \in Seq(Gets) /\ Len(gets') <= MaxGets
    <3>1. gets' = RemoveAt(gets, i)
      BY <1>2 DEF QueuesArrive, QueuesFail
    <3>2. QED
      BY <1>0, <3>1, Removed
  <2>3. SelectionIn(gets[i].list) \in Queues \cup {None}
    BY <1>0, <2>1, FirstInList DEF SelectionIn
  <2>4. CASE QueuesArrive(i)
    BY <1>0, <2>1, <2>2, <2>3, <2>4 DEF QueuesArrive, ViewTypes
  <2>5. CASE QueuesFail(i)
    <3>1. failures' \in 0 .. MaxFailures
      BY <1>0, <2>5 DEF QueuesFail, Fail
    <3>2. QED
      BY <1>0, <2>2, <2>5, <3>1 DEF QueuesFail, ViewTypes, Sources
  <2>6. QED
    BY <1>2, <2>4, <2>5
<1>3. ASSUME NEW i \in DOMAIN fetch, AnswerFetch(i)
      PROVE  ViewTypes'
  BY <1>0, <1>3, FetchAnswered DEF AnswerFetch, ViewTypes
<1>4. ASSUME NEW i \in DOMAIN fetch, FetchArrives(i) \/ FetchFails(i)
      PROVE  ViewTypes'
  <2>1. fetch[i].list \in SUBSET Transfers /\ fetch[i].at \in Nat
    <3>1. fetch[i] \in Fetches
      BY <1>0
    <3>2. QED
      BY <3>1 DEF Fetches
  <2>2. fetch' \in Seq(Fetches)
    BY <1>0, <1>4, Removed DEF FetchArrives, FetchFails
  <2>3. CASE FetchArrives(i)
    BY <1>0, <2>1, <2>2, <2>3 DEF FetchArrives, StillThere, Recover, ViewTypes, Sources
  <2>4. CASE FetchFails(i)
    <3>1. failures' \in 0 .. MaxFailures
      BY <1>0, <2>4 DEF FetchFails, Fail
    <3>2. QED
      BY <1>0, <2>2, <2>4, <3>1 DEF FetchFails, ViewTypes, Sources
  <2>5. QED
    BY <1>4, <2>3, <2>4
<1>5. CASE Follow
  <2>1. fetch' \in Seq(Fetches)
    <3>1. CASE selectedQueue = None
      BY <1>5, <3>1 DEF Follow
    <3>2. CASE selectedQueue # None
      <4>1. Asking(selectedQueue) \in Fetches
        BY <1>0, <3>2 DEF Asking, Fetches
      <4>2. fetch' = <<Asking(selectedQueue)>>
        BY <1>5, <3>2 DEF Follow
      <4>3. QED
        BY <4>1, <4>2
    <3>3. QED
      BY <3>1, <3>2
  <2>2. QED
    BY <1>0, <1>5, <2>1 DEF Follow, ViewTypes
<1>6. ASSUME Refetch, \/ gets' = gets
                      \/ Len(gets) < MaxGets /\ AskQueues,
             UNCHANGED <<queues, selectedQueue, pollQueue, transfers, seen, failing, failures>>,
             selected' \in {selected, {}}
      PROVE  ViewTypes'
  <2>1. fetch' \in Seq(Fetches)
    BY <1>6, Refetched
  <2>2. gets' \in Seq(Gets) /\ Len(gets') <= MaxGets
    <3>1. [answered |-> FALSE, list |-> {}] \in Gets
      BY DEF Gets
    <3>2. QED
      BY <1>0, <1>6, <3>1 DEF AskQueues
  <2>3. QED
    BY <1>0, <1>6, <2>1, <2>2 DEF ViewTypes
<1>7. CASE Tick \/ JustRefetch
  BY <1>6, <1>7 DEF Tick, JustRefetch
<1>8. ASSUME UNCHANGED viewVars, failures' = failures \/ Fail
      PROVE  ViewTypes'
  BY <1>0, <1>8 DEF viewVars, Fail, ViewTypes
<1>9. CASE DeletionArrives
  <2>1. CASE deletion.phase = "ok"
    BY <1>6, <1>9, <2>1 DEF DeletionArrives
  <2>2. CASE deletion.phase # "ok"
    BY <1>8, <1>9, <2>2 DEF DeletionArrives, viewVars
  <2>3. QED
    BY <2>1, <2>2
<1>10. CASE RemovalArrives
  <2>1. CASE removal.phase = "ok"
    BY <1>6, <1>10, <2>1 DEF RemovalArrives
  <2>2. CASE removal.phase # "ok"
    BY <1>8, <1>10, <2>2 DEF RemovalArrives, viewVars
  <2>3. QED
    BY <2>1, <2>2
<1>11. CASE Others \/ CheckDeletion \/ (\E t \in Transfers : DeleteOne(t)) \/ DeletionFails
            \/ AnswerCount \/ CountArrives \/ RemoveQueue \/ RemovalFails
  BY <1>8, <1>11 DEF Others, CheckDeletion, DeleteOne, DeletionFails, AnswerCount,
                     CountArrives, RemoveQueue, RemovalFails
<1>12. CASE User
  <2>1. ASSUME NEW q \in Queues, SelectQueue(q)
        PROVE  ViewTypes'
    BY <1>0, <2>1 DEF SelectQueue, ViewTypes
  <2>2. ASSUME NEW S \in SUBSET transfers, Select(S)
        PROVE  ViewTypes'
    BY <1>0, <2>2 DEF Select, ViewTypes
  <2>3. CASE ~(\E q \in Queues : SelectQueue(q)) /\ ~(\E S \in SUBSET transfers : Select(S))
    BY <1>8, <1>12, <2>3 DEF User, AskDelete, RequestDeleteQueue, Accept, Cancel, Confirm
  <2>4. QED
    BY <2>1, <2>2, <2>3
<1>13. CASE UNCHANGED webVars
  BY <1>8, <1>13 DEF webVars
<1>14. QED
  BY <1>1, <1>2, <1>3, <1>4, <1>5, <1>7, <1>9, <1>10, <1>11, <1>12, <1>13, Zenon
     DEF WebStep, Next, Refreshes, Deletes

\* What does not concern the dialogs and deletions leaves them alone.
LEMMA DeletesKept ==
  ASSUME WebStep, ~Deletes, ~User
  PROVE  UNCHANGED deleteVars
<1>1. CASE Refreshes
  BY <1>1 DEF Refreshes, AnswerQueues, QueuesArrive, QueuesFail, AnswerFetch, FetchArrives,
              FetchFails, Follow, Tick
<1>2. CASE Others \/ JustRefetch \/ UNCHANGED webVars
  BY <1>2 DEF Others, JustRefetch, webVars
<1>3. QED
  BY <1>1, <1>2, Zenon DEF WebStep, Next

\* Every step keeps the types of dialogs and deletions.
LEMMA DeleteStep ==
  ASSUME WebTypeOK, SelectionIsShown, WebStep
  PROVE  DeleteTypes'
<1> USE DEF DeleteTypes
<1>0. DeleteTypes /\ transfers \subseteq Transfers /\ selected \subseteq Transfers
      /\ selectedQueue \in Queues \cup {None} /\ queues \subseteq Queues
  BY DEF WebTypeOK, ViewTypes
<1>1. CASE CheckDeletion
  BY <1>0, <1>1 DEF CheckDeletion
<1>2. ASSUME NEW t \in Transfers, DeleteOne(t)
      PROVE  DeleteTypes'
  <2>1. deletion' \in [phase : {"idle", "sent", "running", "ok", "failed"},
                       uuids : SUBSET Transfers, clear : BOOLEAN]
    <3>1. \/ deletion' = [deletion EXCEPT !.uuids = deletion.uuids \ {t}, !.phase = "ok"]
          \/ deletion' = [deletion EXCEPT !.uuids = deletion.uuids \ {t}, !.phase = "running"]
          \/ deletion' = [deletion EXCEPT !.phase = "failed"]
      <4>1. CASE home[t] \in exists /\ deletion.uuids = {t}
        BY <1>0, <1>2, <4>1 DEF DeleteOne
      <4>2. CASE home[t] \in exists /\ deletion.uuids # {t}
        BY <1>0, <1>2, <4>2 DEF DeleteOne
      <4>3. CASE home[t] \notin exists
        BY <1>2, <4>3 DEF DeleteOne
      <4>4. QED
        BY <4>1, <4>2, <4>3
    <3>2. deletion \in [phase : {"idle", "sent", "running", "ok", "failed"},
                        uuids : SUBSET Transfers, clear : BOOLEAN]
      BY <1>0
    <3>3. QED
      BY <3>1, <3>2
  <2>2. QED
    BY <1>0, <1>2, <2>1 DEF DeleteOne
<1>3. CASE DeletionArrives
  BY <1>0, <1>3 DEF DeletionArrives, Idle
<1>4. CASE DeletionFails
  BY <1>0, <1>4 DEF DeletionFails
<1>5. CASE AnswerCount
  <2>1. count' \in [phase : {"idle", "sent", "answered"}, queue : Queues \cup {None},
                    empty : BOOLEAN]
    <3>1. CASE count.queue \notin exists
      BY <1>5, <3>1 DEF AnswerCount, NoCount
    <3>2. CASE count.queue \in exists /\ Content(count.queue) = {}
      BY <1>0, <1>5, <3>2 DEF AnswerCount
    <3>3. CASE count.queue \in exists /\ Content(count.queue) # {}
      <4>1. (Content(count.queue) = {}) = FALSE
        BY <3>3
      <4>2. count' = [count EXCEPT !.phase = "answered", !.empty = FALSE]
        BY <1>5, <3>3, <4>1, Zenon DEF AnswerCount
      <4>3. QED
        BY <1>0, <4>2
    <3>4. QED
      BY <3>1, <3>2, <3>3
  <2>2. QED
    BY <1>0, <1>5, <2>1 DEF AnswerCount
<1>6. CASE CountArrives
  <2>1. /\ confirm' \in {confirm, [kind |-> "queue", uuids |-> {}, clear |-> FALSE,
                                   queue |-> count.queue]}
        /\ queueDialog' \in {queueDialog, [open |-> TRUE, queue |-> count.queue]}
    BY <1>6, Zenon DEF CountArrives
  <2>2. count.queue \in Queues \cup {None}
    BY <1>0
  <2>3. confirm' \in [kind : {"no", "transfers", "queue"}, uuids : SUBSET Transfers,
                      clear : BOOLEAN, queue : Queues \cup {None}]
    <3>1. [kind |-> "queue", uuids |-> {}, clear |-> FALSE, queue |-> count.queue]
            \in [kind : {"no", "transfers", "queue"}, uuids : SUBSET Transfers,
                 clear : BOOLEAN, queue : Queues \cup {None}]
      BY <2>2
    <3>2. QED
      BY <1>0, <2>1, <3>1, Zenon
  <2>4. queueDialog' \in [open : BOOLEAN, queue : Queues \cup {None}]
    <3>1. [open |-> TRUE, queue |-> count.queue] \in [open : BOOLEAN, queue : Queues \cup {None}]
      BY <2>2
    <3>2. QED
      BY <1>0, <2>1, <3>1, Zenon
  <2>5. QED
    BY <1>0, <1>6, <2>3, <2>4 DEF CountArrives, NoCount
<1>7. CASE RemoveQueue \/ RemovalArrives \/ RemovalFails
  <2>1. removal' \in [phase : {"idle", "sent", "ok", "failed"}, queue : Queues \cup {None},
                      asked : {"empty", "move", "delete"},
                      mode : {"empty", "move", "delete"}, to : Queues \cup {None}]
    BY <1>0, <1>7 DEF RemoveQueue, RemovalArrives, RemovalFails, NoRemoval
  <2>2. QED
    BY <1>0, <1>7, <2>1 DEF RemoveQueue, RemovalArrives, RemovalFails
<1>8. ASSUME NEW S \in SUBSET Transfers, NEW clear \in BOOLEAN, AskDelete(S, clear)
      PROVE  DeleteTypes'
  BY <1>0, <1>8 DEF AskDelete
<1>9. CASE RequestDeleteQueue
  BY <1>0, <1>9 DEF RequestDeleteQueue
<1>10. CASE Accept
  BY <1>0, <1>10 DEF Accept, EmptyOptions, NoConfirm
<1>11. CASE Cancel
  BY <1>0, <1>11 DEF Cancel, NoConfirm, Closed
<1>12. ASSUME NEW mode \in {"move", "delete"}, NEW to \in Queues \cup {None},
              Confirm(mode, to)
       PROVE  DeleteTypes'
  BY <1>0, <1>12 DEF Confirm, Closed
<1>13. CASE User
  <2>1. CASE (\E q \in Queues : SelectQueue(q)) \/ (\E S \in SUBSET transfers : Select(S))
    BY <1>0, <2>1 DEF SelectQueue, Select, deleteVars
  <2>2. QED
    BY <1>0, <1>8, <1>9, <1>10, <1>11, <1>12, <1>13, <2>1 DEF User
<1>14. CASE UNCHANGED deleteVars
  BY <1>0, <1>14 DEF deleteVars
<1>15. QED
  BY <1>1, <1>2, <1>3, <1>4, <1>5, <1>6, <1>7, <1>13, <1>14, DeletesKept, Zenon
     DEF Deletes

\* A queue is deleted as asked, until the request has ended.
LEMMA AsAskedStep ==
  ASSUME WebTypeOK, AsAsked, WebStep
  PROVE  AsAsked'
<1> USE DEF AsAsked
<1>0. DeleteTypes
  BY DEF WebTypeOK
<1>1. CASE RemoveQueue \/ RemovalArrives \/ RemovalFails
  BY <1>0, <1>1 DEF RemoveQueue, RemovalArrives, RemovalFails, NoRemoval, DeleteTypes
<1>2. CASE Accept
  BY <1>0, <1>2 DEF Accept, EmptyOptions
<1>3. ASSUME NEW mode, NEW to, Confirm(mode, to), mode = "move" => to # queueDialog.queue
      PROVE  AsAsked'
  BY <1>3 DEF Confirm
<1>4. ASSUME removal' = removal
      PROVE  AsAsked'
  BY <1>4
<1>5. CASE User
  BY <1>2, <1>3, <1>4, <1>5
     DEF User, SelectQueue, Select, AskDelete, RequestDeleteQueue, Cancel, deleteVars
<1>6. CASE CheckDeletion \/ (\E t \in Transfers : DeleteOne(t)) \/ DeletionArrives
           \/ DeletionFails \/ AnswerCount \/ CountArrives
  BY <1>4, <1>6 DEF CheckDeletion, DeleteOne, DeletionArrives, DeletionFails, AnswerCount,
                    CountArrives
<1>7. CASE UNCHANGED deleteVars
  BY <1>4, <1>7 DEF deleteVars
<1>8. QED
  BY <1>1, <1>5, <1>6, <1>7, DeletesKept, Zenon DEF Deletes

\* Only the deletion of a queue could take transfers with it that it was not asked to.
LEMMA UnaskedStep ==
  ASSUME WebTypeOK, AsAsked, NothingUnasked, WebStep
  PROVE  NothingUnasked'
<1>1. CASE RemoveQueue
  <2>1. CASE Refused
    BY <1>1, <2>1 DEF RemoveQueue, NothingUnasked
  <2>2. CASE ~Refused
    <3>1. removal.mode = "empty" => Content(removal.queue) = {}
      BY <2>2 DEF Refused
    <3>2. CASE removal.mode # "move" /\ removal.asked # "delete"
      <4>1. removal.mode = "empty"
        BY <3>2 DEF AsAsked, WebTypeOK, DeleteTypes
      <4>2. unasked' = unasked \cup Content(removal.queue)
        BY <1>1, <2>2, <3>2 DEF RemoveQueue
      <4>3. QED
        BY <3>1, <4>1, <4>2 DEF NothingUnasked
    <3>3. QED
      BY <1>1, <2>2, <3>2 DEF RemoveQueue, NothingUnasked
  <2>3. QED
    BY <2>1, <2>2
<1>2. CASE Others \/ \E t \in Transfers : DeleteOne(t)
  BY <1>2 DEF Others, DeleteOne, NothingUnasked
<1>3. QED
  BY <1>1, <1>2, ServerKept DEF NothingUnasked

\* What a step does to the poll and the table.
LEMMA PollCases ==
  ASSUME WebStep
  PROVE  \/ UNCHANGED <<fetch, pollQueue, transfers, seen>>
         \/ Refetch /\ UNCHANGED <<pollQueue, transfers, seen>>
         \/ \E i \in DOMAIN fetch : AnswerFetch(i) \/ FetchArrives(i) \/ FetchFails(i)
         \/ Follow
<1> USE DEF viewVars
<1>1. CASE \E i \in DOMAIN gets : AnswerQueues(i) \/ QueuesArrive(i) \/ QueuesFail(i)
  BY <1>1 DEF AnswerQueues, QueuesArrive, QueuesFail
<1>2. CASE Tick \/ JustRefetch
  BY <1>2 DEF Tick, JustRefetch
<1>3. CASE DeletionArrives \/ RemovalArrives
  BY <1>3 DEF DeletionArrives, RemovalArrives
<1>4. CASE Others \/ CheckDeletion \/ (\E t \in Transfers : DeleteOne(t)) \/ DeletionFails
           \/ AnswerCount \/ CountArrives \/ RemoveQueue \/ RemovalFails
  BY <1>4 DEF Others, CheckDeletion, DeleteOne, DeletionFails, AnswerCount, CountArrives,
              RemoveQueue, RemovalFails
<1>5. CASE User
  BY <1>5 DEF User, SelectQueue, Select, AskDelete, RequestDeleteQueue, Accept, Cancel,
              Confirm
<1>6. CASE UNCHANGED webVars
  BY <1>6 DEF webVars
<1>7. QED
  BY <1>1, <1>2, <1>3, <1>4, <1>5, <1>6, Zenon DEF WebStep, Next, Refreshes, Deletes

\* Every step keeps the poll at one queue, with answers that are new.
LEMMA FetchStep ==
  ASSUME WebAssumption, WebTypeOK, AsAsked, FetchIsNew, WebStep
  PROVE  FetchIsNew'
<1> USE DEF FetchIsNew
<1>0. /\ version \in Nat /\ version' \in Nat /\ version' >= version /\ seen \in Nat
      /\ fetch \in Seq(Fetches) /\ \A i \in DOMAIN fetch : fetch[i].at \in Nat
  <2>1. version \in Nat /\ seen \in Nat /\ fetch \in Seq(Fetches)
    BY DEF WebTypeOK, ServerTypes, ViewTypes
  <2>2. version' \in Nat /\ version' >= version
    BY ServerStep DEF ServerTypes
  <2>3. ASSUME NEW i \in DOMAIN fetch
        PROVE  fetch[i].at \in Nat
    <3>1. fetch[i] \in Fetches
      BY <2>1
    <3>2. QED
      BY <3>1 DEF Fetches
  <2>4. QED
    BY <2>1, <2>2, <2>3
<1>1. CASE UNCHANGED <<fetch, pollQueue, transfers, seen>>
  BY <1>0, <1>1
<1>2. CASE Refetch /\ UNCHANGED <<pollQueue, transfers, seen>>
  <2>1. /\ Len(fetch') <= 1
        /\ \A i \in DOMAIN fetch' : fetch'[i].queue = pollQueue /\ ~fetch'[i].answered
    BY <1>2, Refetched DEF WebTypeOK
  <2>2. QED
    BY <1>0, <1>2, <2>1
<1>3. ASSUME NEW i \in DOMAIN fetch, AnswerFetch(i)
      PROVE  FetchIsNew'
  <2>1. UNCHANGED <<pollQueue, seen, version>>
    BY <1>3 DEF AnswerFetch, serverVars
  <2>2. QED
    BY <1>0, <1>3, <2>1, FetchAnswered
<1>4. ASSUME NEW i \in DOMAIN fetch, FetchArrives(i) \/ FetchFails(i)
      PROVE  FetchIsNew'
  <2>1. fetch' = <<>> /\ UNCHANGED <<pollQueue, version>>
    BY <1>0, <1>4, Removed DEF FetchArrives, FetchFails, serverVars
  <2>2. seen' <= version'
    BY <1>0, <1>4, <2>1 DEF FetchArrives, FetchFails
  <2>3. QED
    BY <2>1, <2>2
<1>5. CASE Follow
  <2>1. UNCHANGED <<seen, version>> /\ pollQueue' = selectedQueue
    BY <1>5 DEF Follow, serverVars
  <2>2. fetch' = <<>> \/ fetch' = <<Asking(selectedQueue)>>
    BY <1>5 DEF Follow
  <2>3. Asking(selectedQueue).queue = selectedQueue /\ ~Asking(selectedQueue).answered
    BY DEF Asking
  <2>4. Len(fetch') <= 1
        /\ \A i \in DOMAIN fetch' : fetch'[i].queue = selectedQueue /\ ~fetch'[i].answered
    <3>1. CASE fetch' = <<>>
      BY <3>1
    <3>2. CASE fetch' = <<Asking(selectedQueue)>>
      <4>1. Len(fetch') = 1 /\ DOMAIN fetch' = {1} /\ fetch'[1] = Asking(selectedQueue)
        BY <3>2
      <4>2. QED
        BY <2>3, <4>1
    <3>3. QED
      BY <2>2, <3>1, <3>2
  <2>5. QED
    BY <1>0, <2>1, <2>4
<1>6. QED
  BY <1>1, <1>2, <1>3, <1>4, <1>5, PollCases

\* What a step may do to the table.
TableStep ==
  /\ seen' >= seen
  /\ transfers' \notin {transfers, {}} =>
       \E i \in DOMAIN fetch : fetch[i].queue = pollQueue /\ fetch[i].list = transfers'

LEMMA TableNeverBack ==
  ASSUME WebTypeOK, FetchIsNew, WebStep
  PROVE  TableStep
<1> USE DEF TableStep
<1>0. seen \in Nat
  BY DEF WebTypeOK, ViewTypes
<1>1. CASE UNCHANGED <<pollQueue, transfers, seen>>
  BY <1>0, <1>1
<1>2. ASSUME NEW i \in DOMAIN fetch, FetchArrives(i)
      PROVE  TableStep
  <2>1. fetch[i].answered /\ fetch[i].queue = pollQueue /\ seen <= fetch[i].at
    BY <1>2 DEF FetchArrives, FetchIsNew
  <2>2. fetch[i].at \in Nat
    <3>1. fetch[i] \in Fetches
      BY DEF WebTypeOK, ViewTypes
    <3>2. QED
      BY <3>1 DEF Fetches
  <2>3. CASE fetch[i].ok
    BY <1>0, <1>2, <2>1, <2>2, <2>3 DEF FetchArrives
  <2>4. CASE ~fetch[i].ok
    BY <1>0, <1>2, <2>4 DEF FetchArrives
  <2>5. QED
    BY <2>3, <2>4
<1>3. CASE \E i \in DOMAIN fetch : AnswerFetch(i) \/ FetchFails(i)
  BY <1>0, <1>3 DEF AnswerFetch, FetchFails
<1>4. CASE Follow
  BY <1>0, <1>4 DEF Follow
<1>5. QED
  BY <1>1, <1>2, <1>3, <1>4, PollCases

\* What is selected stays on the screen.
LEMMA SelectionStep ==
  ASSUME WebAssumption, WebTypeOK, SelectionIsShown, WebStep
  PROVE  SelectionIsShown'
<1> USE DEF SelectionIsShown
<1>1. ASSUME NEW i \in DOMAIN gets, QueuesArrive(i)
      PROVE  SelectionIsShown'
  <2>1. gets[i].list \in SUBSET Queues
    <3>1. gets[i] \in Gets
      BY DEF WebTypeOK, ViewTypes
    <3>2. QED
      BY <3>1 DEF Gets
  <2>2. \/ SelectionIn(gets[i].list) \in gets[i].list
        \/ SelectionIn(gets[i].list) = None /\ gets[i].list = {}
    BY <2>1, FirstInList DEF SelectionIn
  <2>3. QED
    BY <1>1, <2>2 DEF QueuesArrive
<1>2. ASSUME NEW i \in DOMAIN fetch, FetchArrives(i)
      PROVE  SelectionIsShown'
  BY <1>2 DEF FetchArrives, StillThere
<1>3. CASE Follow
  BY <1>3 DEF Follow
<1>4. ASSUME NEW q \in Queues, SelectQueue(q)
      PROVE  SelectionIsShown'
  BY <1>4 DEF SelectQueue
<1>5. ASSUME NEW S \in SUBSET transfers, Select(S)
      PROVE  SelectionIsShown'
  BY <1>5 DEF Select
<1>6. CASE DeletionArrives
  BY <1>6 DEF DeletionArrives
<1>7. ASSUME UNCHANGED <<queues, selectedQueue, transfers, selected>>
      PROVE  SelectionIsShown'
  BY <1>7
<1>8. CASE (\E i \in DOMAIN gets : AnswerQueues(i) \/ QueuesFail(i))
           \/ (\E i \in DOMAIN fetch : AnswerFetch(i) \/ FetchFails(i))
           \/ Tick \/ JustRefetch \/ RemovalArrives
  BY <1>7, <1>8 DEF AnswerQueues, QueuesFail, AnswerFetch, FetchFails, Tick, JustRefetch,
                    RemovalArrives
<1>9. CASE Others \/ CheckDeletion \/ (\E t \in Transfers : DeleteOne(t)) \/ DeletionFails
           \/ AnswerCount \/ CountArrives \/ RemoveQueue \/ RemovalFails
  BY <1>7, <1>9 DEF Others, CheckDeletion, DeleteOne, DeletionFails, AnswerCount,
                    CountArrives, RemoveQueue, RemovalFails, viewVars
<1>10. CASE User
  BY <1>4, <1>5, <1>7, <1>10
     DEF User, AskDelete, RequestDeleteQueue, Accept, Cancel, Confirm, viewVars
<1>11. CASE UNCHANGED webVars
  BY <1>7, <1>11 DEF webVars, viewVars
<1>12. QED
  BY <1>1, <1>2, <1>3, <1>6, <1>8, <1>9, <1>10, <1>11, Zenon
     DEF WebStep, Next, Refreshes, Deletes

\* The invariant holds of a page that begins to load ...
LEMMA InvInit ==
  ASSUME WebAssumption, Init
  PROVE  Inv
<1>1. ServerTypes
  BY DEF Init, ServerTypes
<1>2. ViewTypes
  <2>1. gets \in Seq(Gets) /\ Len(gets) <= MaxGets
    <3>1. [answered |-> FALSE, list |-> {}] \in Gets
      BY DEF Gets
    <3>2. gets = <<[answered |-> FALSE, list |-> {}]>> /\ MaxGets \in Nat \ {0}
      BY DEF Init, WebAssumption
    <3>3. QED
      BY <3>1, <3>2
  <2>2. fetch \in Seq(Fetches)
    BY DEF Init
  <2>3. failures \in 0 .. MaxFailures
    BY DEF Init, WebAssumption
  <2>4. QED
    BY <2>1, <2>2, <2>3 DEF Init, ViewTypes
<1>3. DeleteTypes
  BY DEF Init, DeleteTypes, NoConfirm, Idle, NoCount, Closed, NoRemoval
<1>4. SelectionIsShown /\ FetchIsNew /\ NothingUnasked
  BY DEF Init, SelectionIsShown, FetchIsNew, NothingUnasked
<1>5. AsAsked
  BY DEF Init, AsAsked, NoRemoval
<1>6. QED
  BY <1>1, <1>2, <1>3, <1>4, <1>5 DEF Inv, WebTypeOK

\* ... and every step keeps it.
LEMMA InvStep ==
  ASSUME WebAssumption, Inv, WebStep
  PROVE  Inv'
BY ServerStep, ViewStep, DeleteStep, SelectionStep, FetchStep, AsAskedStep, UnaskedStep
   DEF Inv, WebTypeOK

-----------------------------------------------------------------------------
(* Theorems                                                                *)

\* The invariant that the theorems below are parts of.
THEOREM PageInvariant == Spec => []Inv
<1>1. Init => Inv
  BY InvInit, WebAssumption
<1>2. Inv /\ [Next]_webVars => Inv'
  BY InvStep, WebAssumption DEF WebStep
<1>3. QED
  BY <1>1, <1>2, PTL DEF Spec

\* The stores, the dialogs and the server keep the types of their state.
THEOREM PageTypes == Spec => []WebTypeOK
<1>1. Inv => WebTypeOK
  BY DEF Inv
<1>2. QED
  BY <1>1, PageInvariant, PTL

\* The selected queue is in the list and the selected transfers in the table, in
\* whatever order answers come and whatever others delete.
THEOREM SelectionStaysShown == Spec => []SelectionIsShown
<1>1. Inv => SelectionIsShown
  BY DEF Inv
<1>2. QED
  BY <1>1, PageInvariant, PTL

\* A queue the user was told is empty takes no transfer with it.
THEOREM EmptyQueuesOnly == Spec => []NothingUnasked
<1>1. Inv => NothingUnasked
  BY DEF Inv
<1>2. QED
  BY <1>1, PageInvariant, PTL

\* No answer takes the table back to an older state of the server or fills it for
\* another queue than the poll is at.
THEOREM TableGoesForward == Spec => NeverBack
<1>1. Inv /\ [Next]_webVars => [TableStep]_webVars
  BY TableNeverBack DEF Inv, WebStep
<1>2. QED
  BY <1>1, PageInvariant, PTL DEF Spec, NeverBack, TableStep
=============================================================================
