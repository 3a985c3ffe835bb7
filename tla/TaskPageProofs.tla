--------------------------- MODULE TaskPageProofs ---------------------------
(***************************************************************************)
(* Proofs about TaskPage for any number of worker threads, questions,      *)
(* messages on the wire and list requests: the page is right when nothing  *)
(* is on its way to it, a question is hidden only once it needs no answer, *)
(* and what PluginTaskProofs shows of the task holds with the page too.    *)
(***************************************************************************)
EXTENDS TaskPage, PluginTaskProofs

List == [answered : BOOLEAN, tasks : Lists]

\* PageTypeOK without what PluginTask has, in the words of Sequences.
PageTypes ==
  /\ shown \in Lists /\ handled \subseteq Questions
  /\ open \in BOOLEAN /\ registered \in BOOLEAN
  /\ wire \in Seq(Lists) /\ Len(wire) <= MaxWire
  /\ loads \in Seq(List) /\ Len(loads) <= MaxLoads
  /\ reply \in [q : Questions \cup {NoQuestion},
                phase : {"idle", "sent", "running", "over"}]
  /\ dismissed \subseteq Questions /\ overtaken \in BOOLEAN

\* TaskPush holds back only progress of a task that is listed: it has told the
\* question, and the state of a task that goes on.
ToldInv ==
  /\ held => listed
  /\ listed => told.prompt = prompt /\ (~Finished => told.state = Snapshot.state)

\* The last message on the wire is what TaskPush announced last.
Expected == IF listed THEN {told} ELSE {}

\* The list L is right but for a state that TaskPush has yet to announce.
Matches(L) ==
  /\ L = {} <=> ~listed
  /\ \A s \in L : s.prompt = prompt /\ s.state \in {told.state, Snapshot.state}

\* What makes the page right: the wire ends in the truth, and as long as nothing
\* was overtaken any list that is still to arrive is right if no push is on the wire.
FeedInv ==
  /\ ~registered => wire = <<>>
  /\ wire # <<>> => wire[Len(wire)] = Expected
  /\ open /\ ~overtaken /\ wire = <<>> =>
       /\ loads = <<>> => Matches(shown)
       /\ \A i \in DOMAIN loads : loads[i].answered => Matches(loads[i].tasks)

\* The questions that have been asked on the main thread: they will not open again.
Seen ==
  {NoQuestion} \cup {q \in Questions : outcome[q] # "unasked" /\ ~IsPosted(AskEvent(q))}

\* Lists whose questions were.
SeenLists == {L \in Lists : \A s \in L : s.prompt \in Seen}

\* Nothing on the page or on its way there has a question that is still to open.
SeenInv ==
  /\ told.prompt \in Seen /\ reply.q \in Seen /\ handled \subseteq Seen
  /\ shown \in SeenLists
  /\ \A i \in DOMAIN wire : wire[i] \in SeenLists
  /\ \A i \in DOMAIN loads : loads[i].tasks \in SeenLists

\* An answer the server works on keeps the main thread, and one it has dealt with
\* leaves the question closed.
ReplyInv ==
  /\ reply.phase = "idle" => reply.q = NoQuestion
  /\ reply.phase # "idle" => reply.q \in Questions
  /\ reply.phase = "running" => main = "answering"
  /\ reply.phase = "over" => Finished \/ prompt # reply.q

PageInv ==
  /\ Inv /\ PageTypes /\ ToldInv /\ FeedInv /\ SeenInv /\ ReplyInv /\ HiddenOnlyWhenGone

-----------------------------------------------------------------------------
(* Sequences                                                               *)

\* Taking an answer out of the requests under way.
LEMMA Removed ==
  ASSUME NEW T, NEW s \in Seq(T), NEW i \in DOMAIN s
  PROVE  /\ RemoveAt(s, i) \in Seq(T)
         /\ Len(RemoveAt(s, i)) = Len(s) - 1
         /\ \A j \in DOMAIN RemoveAt(s, i) : \E k \in DOMAIN s : RemoveAt(s, i)[j] = s[k]
<1> DEFINE a == SubSeq(s, 1, i - 1)
           b == SubSeq(s, i + 1, Len(s))
<1>1. i \in 1 .. Len(s) /\ Len(s) \in Nat
  OBVIOUS
<1>2. /\ a \in Seq(T) /\ Len(a) = i - 1
      /\ \A j \in 1 .. Len(a) : a[j] = s[j]
  BY <1>1
<1>3. /\ b \in Seq(T) /\ Len(b) = Len(s) - i
      /\ \A j \in 1 .. Len(b) : b[j] = s[i + j]
  BY <1>1
<1>4. RemoveAt(s, i) = a \o b
  BY DEF RemoveAt
<1> HIDE DEF a, b
<1>5. /\ a \o b \in Seq(T) /\ Len(a \o b) = Len(s) - 1
      /\ \A j \in 1 .. Len(a \o b) :
           (a \o b)[j] = IF j <= Len(a) THEN a[j] ELSE b[j - Len(a)]
  BY <1>1, <1>2, <1>3
<1>6. ASSUME NEW j \in DOMAIN (a \o b)
      PROVE  \E k \in DOMAIN s : (a \o b)[j] = s[k]
  <2>1. j \in 1 .. Len(s) - 1
    BY <1>5
  <2>2. CASE j <= Len(a)
    BY <1>1, <1>2, <1>5, <2>1, <2>2
  <2>3. CASE ~(j <= Len(a))
    <3>1. j - Len(a) \in 1 .. Len(b) /\ i + (j - Len(a)) \in DOMAIN s
      BY <1>1, <1>2, <1>3, <2>1, <2>3
    <3>2. QED
      BY <1>2, <1>3, <1>5, <2>1, <2>3, <3>1
  <2>4. QED
    BY <2>2, <2>3
<1>7. QED
  BY <1>4, <1>5, <1>6

\* A message that arrives leaves the others.
LEMMA Received ==
  ASSUME NEW T, NEW s \in Seq(T), s # <<>>
  PROVE  /\ Head(s) \in T /\ Tail(s) \in Seq(T) /\ Len(Tail(s)) = Len(s) - 1
         /\ Head(s) = s[1] /\ 1 \in DOMAIN s
         /\ \A i \in DOMAIN Tail(s) : i + 1 \in DOMAIN s /\ Tail(s)[i] = s[i + 1]
         /\ Tail(s) = <<>> => Head(s) = s[Len(s)]
         /\ Tail(s) # <<>> => Tail(s)[Len(Tail(s))] = s[Len(s)]
OBVIOUS

\* A message or a request more is the last.
LEMMA Grown ==
  ASSUME NEW T, NEW s \in Seq(T), NEW d \in T
  PROVE  /\ Append(s, d) \in Seq(T) /\ s \o <<d>> = Append(s, d)
         /\ Len(Append(s, d)) = Len(s) + 1
         /\ Append(s, d) # <<>> /\ Append(s, d)[Len(Append(s, d))] = d
         /\ \A i \in DOMAIN Append(s, d) :
              (i \in DOMAIN s /\ Append(s, d)[i] = s[i]) \/ Append(s, d)[i] = d
OBVIOUS

-----------------------------------------------------------------------------
(* What the page relies on of the task                                     *)

\* The page acts on the task as other front ends may.
LEMMA TaskPart ==
  ASSUME TypeOK, [PageNext]_vars
  PROVE  [TaskNext]_taskVars
<1>1. ASSUME BeginAnswer(reply.q)
      PROVE  TaskNext
  <2>1. reply.q \in Questions
    BY <1>1 DEF BeginAnswer, BeginClose, TypeOK
  <2>2. QED
    BY <1>1, <2>1 DEF TaskNext, FrontEnd
<1>2. CASE ServerStep
  BY <1>2 DEF ServerStep
<1>3. CASE AnswerPrompt
  BY <1>1, <1>3 DEF AnswerPrompt
<1>4. CASE \/ Register \/ Opened \/ Drop \/ Receive
           \/ \E i \in DOMAIN loads : AnswerList(i) \/ ListArrives(i) \/ ListFails(i)
           \/ \E q \in Questions : Submit(q) \/ Dismiss(q)
           \/ ReplyArrives \/ StopAnswered \/ UNCHANGED vars
  BY <1>4 DEF Register, Opened, Drop, Receive, AnswerList, ListArrives, ListFails, Submit,
              Dismiss, ReplyArrives, StopAnswered, vars
<1>5. QED
  BY <1>2, <1>3, <1>4 DEF PageNext

\* What is told goes with the list, and the end of a task is final.
LEMMA ToldStep ==
  ASSUME TypeOK, Gone, Retired, ToldInv, [TaskNext]_taskVars
  PROVE  /\ ToldInv'
         /\ told' # told => listed /\ listed' /\ told' = Snapshot'
         /\ listed' => listed
         /\ Finished => state' = state
<1> DEFINE Goal == /\ ToldInv'
                   /\ told' # told => listed /\ listed' /\ told' = Snapshot'
                   /\ listed' => listed
                   /\ Finished => state' = state
<1>1. ASSUME Changed, listed' = listed, Finished => state' = state
      PROVE  Goal
  <2>1. CASE listed
    <3>1. \/ told' = Snapshot'
          \/ /\ told' = told /\ told.state = Snapshot'.state
             /\ told.prompt = Snapshot'.prompt
      BY <1>1, <2>1 DEF Changed, Announce, OnlyProgress
    <3>2. told'.prompt = prompt' /\ told'.state = Snapshot'.state
      BY <3>1 DEF Snapshot
    <3>3. told' # told => told' = Snapshot'
      BY <3>1
    <3>4. ToldInv'
      BY <1>1, <2>1, <3>2 DEF ToldInv
    <3>5. QED
      BY <1>1, <2>1, <3>3, <3>4
  <2>2. CASE ~listed
    BY <1>1, <2>2 DEF Changed, ToldInv
  <2>3. QED
    BY <2>1, <2>2
<1>2. ASSUME UNCHANGED <<told, held, listed, prompt>>,
             state' = state \/ (~Finished /\ Finished')
      PROVE  Goal
  BY <1>2 DEF ToldInv, Snapshot, Finished
<1>3. ASSUME NEW th \in Threads, Worker(th)
      PROVE  Goal
  <2>1. ASSUME NEW ok \in BOOLEAN, FinishSet(th, ok)
        PROVE  Goal
    <3>1. ~Finished /\ Finished'
      BY <2>1 DEF FinishSet, FinalState, Finished
    <3>2. QED
      BY <1>2, <2>1, <3>1 DEF FinishSet
  <2>2. CASE \/ \E p \in 0 .. MaxProgress : SetProgress(th, p)
             \/ \E q \in Questions : AskBlocking(th, q)
             \/ Return(th) \/ FinishTell(th)
    BY <1>2, <2>2 DEF SetProgress, AskBlocking, Return, FinishTell
  <2>3. QED
    BY <1>3, <2>1, <2>2 DEF Worker
<1>4. ASSUME NEW q, Ask(q), UNCHANGED <<state, listed>>
      PROVE  Goal
  <2>1. Changed \/ (prompt' = prompt /\ Unchanged)
    BY <1>4 DEF Ask
  <2>2. QED
    BY <1>1, <1>2, <1>4, <2>1 DEF Unchanged
<1>5. CASE RunAsk
  <2>1. UNCHANGED <<state, listed>>
    BY <1>5 DEF RunAsk
  <2>2. Ask(Head(posted).q) \/ (UNCHANGED <<prompt, outcome, waiters>> /\ Unchanged)
    BY <1>5 DEF RunAsk
  <2>3. QED
    BY <1>2, <1>4, <2>1, <2>2 DEF Unchanged
<1>6. CASE \E q \in Questions : AskMain(q)
  BY <1>4, <1>6 DEF AskMain
<1>7. CASE \/ \E ok \in BOOLEAN : FinishMain(ok)
           \/ RunClose \/ RunChanged \/ EndAnswer \/ EndDismiss \/ RequestCancel \/ Expire
  BY <1>1, <1>7 DEF FinishMain, RunClose, RunChanged, EndAnswer, EndDismiss,
                    RequestCancel, Cancel, Expire
<1>8. CASE RunDelete
  <2>1. /\ posted \in Seq(Events) /\ posted # <<>>
        /\ Head(posted) \in Events /\ Head(posted).kind = "delete"
    BY <1>8 DEF RunDelete, HeadIs, TypeOK
  <2>2. IsPosted(Head(posted)) /\ Head(posted) = Event("delete")
    BY <2>1, EventsDiffer, Taken, Zenon DEF IsPosted
  <2>3. ~listed
    BY <2>2 DEF Gone
  <2>4. QED
    BY <1>8, <2>3 DEF RunDelete, Unchanged, ToldInv
<1>9. CASE DismissTask \/ Retire
  BY <1>9 DEF DismissTask, Retire, RemoveTask, ToldInv
<1>10. CASE SendHeld
  <2>1. listed /\ listed' = listed /\ state' = state /\ prompt' = prompt
    BY <1>10 DEF SendHeld, ToldInv
  <2>2. told' = Snapshot' /\ held' = FALSE
    BY <1>10 DEF SendHeld, Snapshot
  <2>3. told'.prompt = prompt' /\ told'.state = Snapshot'.state
    BY <2>2 DEF Snapshot
  <2>4. QED
    BY <2>1, <2>2, <2>3 DEF ToldInv
<1>11. CASE \/ \E q \in Questions : BeginAnswer(q) \/ BeginDismiss(q)
            \/ UNCHANGED taskVars
  BY <1>2, <1>11 DEF BeginAnswer, BeginDismiss, BeginClose, taskVars
<1>12. CASE Quit
  <2>1. UNCHANGED <<state, listed>>
    BY <1>12 DEF Quit
  <2>2. Changed \/ (prompt' = prompt /\ Unchanged)
    BY <1>12 DEF Quit, Cancel
  <2>3. QED
    BY <1>1, <1>2, <2>1, <2>2 DEF Unchanged
<1>13. QED
  BY <1>3, <1>5, <1>6, <1>7, <1>8, <1>9, <1>10, <1>11, <1>12, Zenon
     DEF TaskNext, MainPlugin, Posted, FrontEnd

\* The open question has been asked on the main thread.
LEMMA PromptSeen ==
  ASSUME Inv
  PROVE  prompt \in Seen
BY DEF Inv, TypeOK, PromptAsked, AskedOnce, Seen

\* A question that was asked there stays so, and does not open again.
LEMMA SeenStays ==
  ASSUME TaskAssumption, TypeOK, [TaskNext]_taskVars,
         NEW q \in Seen
  PROVE  q \in Seen' /\ (q # NoQuestion /\ prompt' = q => prompt = q)
<1>1. CASE q = NoQuestion
  BY <1>1 DEF Seen
<1>2. CASE q # NoQuestion
  <2>1. q \in Questions /\ outcome[q] # "unasked" /\ ~IsPosted(AskEvent(q))
    BY <1>2 DEF Seen
  <2>2. outcome'[q] # "unasked"
    BY <2>1, AskedStays
  <2>3. ~IsPosted(AskEvent(q))'
    <3> DEFINE e == AskEvent(q)
    <3>1. e \in Events /\ e \notin {Event("close"), Event("changed"), Event("delete")}
          /\ \A p : e = AskEvent(p) => p = q
      BY <2>1, EventTypes, EventsDiffer
    <3>2. ASSUME NEW d \in Events, d # e, posted' = Append(posted, d)
          PROVE  ~IsPosted(e)'
      BY <2>1, <3>2, StaysPosted
    <3>3. ASSUME posted' = posted \o <<Event("close"), Event("changed")>>
          PROVE  ~IsPosted(e)'
      BY <2>1, <3>1, <3>3, FinishPosts
    <3>4. ASSUME posted # <<>> /\ posted' = Tail(posted)
          PROVE  ~IsPosted(e)'
      BY <2>1, <3>4, PostedUntilRun
    <3>5. ASSUME posted' = posted \/ posted' = <<>>
          PROVE  ~IsPosted(e)'
      BY <2>1, <3>5 DEF IsPosted
    <3>6. QED
      BY <2>1, <3>1, <3>2, <3>3, <3>4, <3>5, PostedStep, EventTypes
  <2>4. ASSUME prompt' = q
        PROVE  prompt = q
    <3>1. ASSUME posted # <<>>, Head(posted) = AskEvent(q)
          PROVE  FALSE
      <4>1. posted \in Seq(Events)
        BY DEF TypeOK
      <4>2. IsPosted(Head(posted))
        BY <3>1, <4>1, Taken, Zenon DEF IsPosted
      <4>3. QED
        BY <2>1, <3>1, <4>2
    <3>2. QED
      BY <1>2, <2>1, <2>4, <3>1, Opens
  <2>5. QED
    BY <1>2, <2>2, <2>3, <2>4 DEF Seen
<1>3. QED
  BY <1>1, <1>2

\* What a step sends: nothing, or the truth.
LEMMA Pushed ==
  ASSUME told' # told => listed /\ listed' /\ told' = Snapshot',
         listed' => listed, listed \in BOOLEAN, listed' \in BOOLEAN
  PROVE  \/ Pushes = <<>> /\ told' = told /\ listed' = listed
         \/ Pushes = <<Expected'>>
<1>1. CASE told' # told
  BY <1>1 DEF Pushes, Expected
<1>2. CASE told' = told /\ listed /\ ~listed'
  BY <1>2 DEF Pushes, Expected
<1>3. CASE told' = told /\ listed' = listed
  BY <1>3 DEF Pushes
<1>4. QED
  BY <1>1, <1>2, <1>3

-----------------------------------------------------------------------------
(* The page                                                                *)

\* The lists a page may have, and those it asks for.
LEMMA ListTypes ==
  /\ {} \in Lists /\ \A s \in Snapshots : {s} \in Lists
  /\ \A L \in Lists : L \subseteq Snapshots
  /\ Sent \in List /\ \A L \in Lists : [answered |-> TRUE, tasks |-> L] \in List
  /\ \A r \in List : r.tasks \in Lists /\ r.answered \in BOOLEAN
  /\ Sent.tasks = {} /\ Sent.answered = FALSE
BY DEF Lists, List, Sent

\* What a list has, and what was announced, is a list.
LEMMA TruthTypes ==
  ASSUME TypeOK
  PROVE  Snapshot \in Snapshots /\ Expected \in Lists
BY DEF TypeOK, Snapshot, Snapshots, States, Expected, Lists

\* A push adds one message to the wire, unless the page is not connected, or lags
\* too far behind and loses the connection.
LEMMA PushStep ==
  ASSUME TypeOK, TypeOK', PageTypes, Push,
         told' # told => listed /\ listed' /\ told' = Snapshot', listed' => listed
  PROVE  /\ wire' \in Seq(Lists) /\ Len(wire') <= MaxWire
         /\ open' \in BOOLEAN /\ registered' \in BOOLEAN /\ overtaken' \in BOOLEAN
         /\ \/ open' = FALSE /\ registered' = FALSE /\ wire' = <<>>
            \/ /\ UNCHANGED <<open, registered, wire>>
               /\ \/ UNCHANGED <<told, listed, overtaken>>
                  \/ ~registered /\ (open => overtaken')
            \/ /\ registered /\ UNCHANGED <<open, registered, overtaken>>
               /\ wire' = Append(wire, Expected')
<1>1. MaxWire \in Nat /\ wire \in Seq(Lists) /\ Expected' \in Lists
  <2>1. Expected' \in Lists
    BY DEF TypeOK, Snapshots, Expected, Lists
  <2>2. QED
    BY <2>1, PageAssumption DEF PageAssumption, PageTypes
<1>2. /\ overtaken' = (overtaken \/ (open /\ ~registered /\ Pushes # <<>>))
      /\ IF ~registered THEN UNCHANGED <<open, registered, wire>>
         ELSE IF Len(wire \o Pushes) > MaxWire THEN HangUp
         ELSE wire' = wire \o Pushes /\ UNCHANGED <<open, registered>>
  BY DEF Push
<1>3. open \in BOOLEAN /\ registered \in BOOLEAN /\ overtaken \in BOOLEAN
      /\ Len(wire) <= MaxWire
  BY DEF PageTypes
<1>4. CASE Pushes = <<>> /\ told' = told /\ listed' = listed
  <2>1. wire \o Pushes = wire
    BY <1>1, <1>4
  <2>2. ~(Len(wire) > MaxWire)
    BY <1>1, <1>3
  <2>3. UNCHANGED <<open, registered, wire>>
    BY <1>2, <2>1, <2>2
  <2>4. overtaken' = overtaken
    BY <1>2, <1>3, <1>4
  <2>5. QED
    BY <1>1, <1>3, <1>4, <2>3, <2>4
<1>5. CASE Pushes = <<Expected'>>
  <2>1. /\ wire \o Pushes = Append(wire, Expected')
        /\ Append(wire, Expected') \in Seq(Lists)
        /\ Len(Append(wire, Expected')) \in Nat
    BY <1>1, <1>5, Grown
  <2>2. overtaken' = (overtaken \/ (open /\ ~registered))
    BY <1>2, <1>5
  <2>3. CASE ~registered
    BY <1>1, <1>2, <1>3, <2>2, <2>3
  <2>4. CASE registered /\ Len(wire \o Pushes) > MaxWire
    <3>1. HangUp
      BY <1>2, <2>4
    <3>2. open' = FALSE /\ registered' = FALSE /\ wire' = <<>>
      BY <3>1 DEF HangUp
    <3>3. wire' \in Seq(Lists) /\ Len(wire') <= MaxWire
      BY <1>1, <3>2
    <3>4. QED
      BY <1>3, <2>2, <3>2, <3>3
  <2>5. CASE registered /\ ~(Len(wire \o Pushes) > MaxWire)
    <3>1. wire' = Append(wire, Expected') /\ UNCHANGED <<open, registered>>
      BY <1>2, <2>1, <2>5
    <3>2. overtaken' = overtaken
      BY <1>3, <2>2, <2>5
    <3>3. Len(wire') <= MaxWire
      BY <1>1, <2>1, <2>5, <3>1
    <3>4. QED
      BY <1>3, <2>1, <2>5, <3>1, <3>2, <3>3
  <2>6. QED
    BY <2>3, <2>4, <2>5
<1>6. QED
  BY <1>4, <1>5, Pushed DEF TypeOK

\* A request answered, and the answers still to come.
LEMMA Answered ==
  ASSUME TypeOK, PageTypes, NEW i \in DOMAIN loads, AnswerList(i)
  PROVE  /\ loads' \in Seq(List) /\ Len(loads') = Len(loads)
         /\ DOMAIN loads' = DOMAIN loads
         /\ \A j \in DOMAIN loads : j # i => loads'[j] = loads[j]
         /\ loads'[i].tasks = IF listed THEN {Snapshot} ELSE {}
<1>1. loads \in Seq(List)
  BY DEF PageTypes
<1> DEFINE r == [answered |-> TRUE, tasks |-> IF listed THEN {Snapshot} ELSE {}]
<1>2. r \in List
  BY ListTypes, TruthTypes
<1>3. loads' = [loads EXCEPT ![i] = r]
  BY DEF AnswerList
<1>4. r.tasks = IF listed THEN {Snapshot} ELSE {}
  OBVIOUS
<1> HIDE DEF r
<1>5. QED
  BY <1>1, <1>2, <1>3, <1>4

\* Every step keeps the types.
LEMMA PageTypeStep ==
  ASSUME TypeOK, TypeOK', Gone, Retired, ToldInv, PageTypes, ReplyInv, [PageNext]_vars
  PROVE  PageTypes'
<1> USE DEF PageTypes
<1>1. MaxWire \in Nat /\ MaxLoads \in Nat
  BY PageAssumption DEF PageAssumption
<1>2. CASE ServerStep
  <2>1. Push /\ [TaskNext]_taskVars /\ UNCHANGED <<shown, handled, loads, dismissed>>
    BY <1>2 DEF ServerStep
  <2>2. /\ wire' \in Seq(Lists) /\ Len(wire') <= MaxWire
        /\ open' \in BOOLEAN /\ registered' \in BOOLEAN /\ overtaken' \in BOOLEAN
    BY <2>1, ToldStep, PushStep
  <2>3. reply' \in [q : Questions \cup {NoQuestion},
                    phase : {"idle", "sent", "running", "over"}]
    BY <1>2 DEF ServerStep
  <2>4. QED
    BY <2>1, <2>2, <2>3
<1>3. CASE Register
  BY <1>3 DEF Register
<1>4. CASE Opened
  <2>1. loads' = Append(loads, Sent) /\ Len(loads) < MaxLoads
    BY <1>4 DEF Opened, Reload
  <2>2. loads' \in Seq(List) /\ Len(loads') = Len(loads) + 1
    BY <2>1, Grown, ListTypes
  <2>3. Len(loads') <= MaxLoads
    BY <1>1, <2>1, <2>2
  <2>4. QED
    BY <1>4, <2>2, <2>3 DEF Opened
<1>5. CASE Drop
  <2>1. wire' = <<>> /\ open' = FALSE /\ registered' = FALSE
    BY <1>5 DEF Drop, HangUp
  <2>2. wire' \in Seq(Lists) /\ Len(wire') <= MaxWire
    BY <1>1, <2>1
  <2>3. QED
    BY <1>5, <2>1, <2>2 DEF Drop
<1>6. CASE Receive
  <2>1. shown' \in Lists /\ wire' \in Seq(Lists) /\ Len(wire') = Len(wire) - 1
    BY <1>6, Received DEF Receive, Apply
  <2>2. Len(wire') <= MaxWire
    BY <1>1, <2>1
  <2>3. overtaken' \in BOOLEAN
    BY <1>6 DEF Receive
  <2>4. QED
    BY <1>6, <2>1, <2>2, <2>3 DEF Receive
<1>7. ASSUME NEW i \in DOMAIN loads, AnswerList(i)
      PROVE  PageTypes'
  <2>1. loads' \in Seq(List) /\ Len(loads') <= MaxLoads
    BY <1>7, Answered
  <2>2. QED
    BY <1>7, <2>1 DEF AnswerList
<1>8. ASSUME NEW i \in DOMAIN loads, ListArrives(i) \/ ListFails(i)
      PROVE  PageTypes'
  <2>1. loads' = RemoveAt(loads, i)
    BY <1>8 DEF ListArrives, ListFails
  <2>2. loads' \in Seq(List) /\ Len(loads') = Len(loads) - 1
    BY <2>1, Removed
  <2>3. Len(loads') <= MaxLoads
    BY <1>1, <2>2
  <2>4. shown' = shown \/ shown' = loads[i].tasks
    BY <1>8 DEF ListArrives, ListFails
  <2>5. loads[i] \in List
    OBVIOUS
  <2>6. shown' \in Lists
    BY <2>4, <2>5, ListTypes
  <2>7. QED
    BY <1>8, <2>2, <2>3, <2>6 DEF ListArrives, ListFails
<1>9. ASSUME NEW q \in Questions, Submit(q) \/ Dismiss(q)
      PROVE  PageTypes'
  BY <1>9 DEF Submit, Dismiss
<1>10. CASE AnswerPrompt
  BY <1>10 DEF AnswerPrompt
<1>11. CASE ReplyArrives
  <2>1. handled' \subseteq Questions
    BY <1>11 DEF ReplyArrives, Hide, ReplyInv
  <2>2. QED
    BY <1>11, <2>1 DEF ReplyArrives, NoReply
<1>12. CASE StopAnswered
  BY <1>12, ListTypes DEF StopAnswered
<1>13. CASE UNCHANGED vars
  BY <1>13 DEF vars, pageVars
<1>14. QED
  BY <1>2, <1>3, <1>4, <1>5, <1>6, <1>7, <1>8, <1>9, <1>10, <1>11, <1>12, <1>13
     DEF PageNext


\* The page right, the truth on the wire or a list on its way: as a step of the task
\* leaves it.
LEMMA FeedServer ==
  ASSUME TypeOK, TypeOK', Gone, Retired, ToldInv, PageTypes, FeedInv, ServerStep
  PROVE  FeedInv'
<1>1. Push /\ [TaskNext]_taskVars /\ shown' = shown /\ loads' = loads
  BY DEF ServerStep
<1>2. /\ ToldInv'
      /\ told' # told => listed /\ listed' /\ told' = Snapshot'
      /\ listed' => listed
      /\ Finished => state' = state
  BY <1>1, ToldStep
<1>3. ASSUME UNCHANGED <<told, listed>>, NEW L \in Lists, Matches(L)
      PROVE  Matches(L)'
  <2>1. listed => told.prompt = prompt /\ prompt' = prompt
    BY <1>2, <1>3 DEF ToldInv
  <2>2. listed => told.state = Snapshot.state \/ Snapshot'.state = Snapshot.state
    BY <1>2 DEF ToldInv, Snapshot, Finished
  <2>3. QED
    BY <1>3, <2>1, <2>2 DEF Matches
<1>4. CASE open' = FALSE /\ registered' = FALSE /\ wire' = <<>>
  BY <1>4 DEF FeedInv
<1>5. CASE UNCHANGED <<open, registered, wire, told, listed, overtaken>>
  <2>1. Expected' = Expected
    BY <1>5 DEF Expected
  <2>2. shown \in Lists /\ \A i \in DOMAIN loads : loads[i].tasks \in Lists
    BY ListTypes DEF PageTypes
  <2>3. Matches(shown) => Matches(shown)'
    BY <1>1, <1>3, <1>5, <2>2 DEF Matches
  <2>4. \A i \in DOMAIN loads : Matches(loads[i].tasks) => Matches(loads[i].tasks)'
    BY <1>1, <1>3, <1>5, <2>2 DEF Matches
  <2>5. QED
    BY <1>1, <1>5, <2>1, <2>3, <2>4 DEF FeedInv
<1>6. CASE ~registered /\ UNCHANGED <<open, registered, wire>> /\ (open => overtaken')
  BY <1>6 DEF FeedInv
<1>7. CASE /\ registered /\ UNCHANGED <<open, registered, overtaken>>
           /\ wire' = Append(wire, Expected')
  <2>1. wire \in Seq(Lists) /\ Expected' \in Lists
    BY TruthTypes DEF PageTypes, TypeOK, Expected, Lists
  <2>2. wire' # <<>> /\ wire'[Len(wire')] = Expected'
    BY <1>7, <2>1, Grown
  <2>3. QED
    BY <1>1, <1>7, <2>2 DEF FeedInv
<1>8. QED
  BY <1>1, <1>2, <1>4, <1>5, <1>6, <1>7, PushStep

\* ... and as the rest leaves it.
LEMMA FeedStep ==
  ASSUME TypeOK, TypeOK', Gone, Retired, ToldInv, PageTypes, PageTypes', FeedInv,
         [PageNext]_vars
  PROVE  FeedInv'
<1>1. CASE ServerStep
  BY <1>1, FeedServer
<1>2. ASSUME UNCHANGED taskVars, UNCHANGED <<shown, wire, loads>>,
             registered' = registered \/ registered',
             open' = open, overtaken' = overtaken
      PROVE  FeedInv'
  <2>1. /\ Expected' = Expected /\ (Matches(shown) => Matches(shown)')
        /\ \A i \in DOMAIN loads : Matches(loads[i].tasks) => Matches(loads[i].tasks)'
    BY <1>2 DEF taskVars, Matches, Expected, Snapshot
  <2>2. QED
    BY <1>2, <2>1 DEF FeedInv
<1>3. CASE Register
  BY <1>2, <1>3 DEF Register
<1>4. CASE Opened
  <2>1. /\ loads' = Append(loads, Sent) /\ loads \in Seq(List)
        /\ overtaken' = \E i \in DOMAIN loads : loads[i].answered
        /\ UNCHANGED <<taskVars, shown, wire, registered>>
    BY <1>4 DEF Opened, Reload, PageTypes
  <2>2. Expected' = Expected
    BY <2>1 DEF taskVars, Expected
  <2>3. /\ loads' # <<>>
        /\ \A i \in DOMAIN loads' : (i \in DOMAIN loads /\ loads'[i] = loads[i]) \/ loads'[i] = Sent
    BY <2>1, Grown, ListTypes
  <2>4. ~overtaken' => \A i \in DOMAIN loads' : ~loads'[i].answered
    BY <2>1, <2>3, ListTypes
  <2>5. QED
    BY <2>1, <2>2, <2>3, <2>4 DEF FeedInv
<1>5. CASE Drop
  BY <1>5 DEF Drop, HangUp, FeedInv
<1>6. CASE Receive
  <2>1. /\ wire \in Seq(Lists) /\ wire # <<>> /\ wire' = Tail(wire)
        /\ shown' = Head(wire) /\ loads' = loads /\ open' = open
        /\ registered' = registered /\ UNCHANGED taskVars
        /\ overtaken' = (overtaken \/ \E i \in DOMAIN loads : loads[i].answered)
    BY <1>6 DEF Receive, Apply, PageTypes
  <2>2. Expected' = Expected /\ wire[Len(wire)] = Expected
    BY <2>1 DEF taskVars, Expected, FeedInv
  <2>3. wire' # <<>> => wire'[Len(wire')] = Expected'
    BY <2>1, <2>2, Received
  <2>4. wire' = <<>> => Matches(shown)'
    <3>1. wire' = <<>> => shown' = Expected
      BY <2>1, <2>2, Received
    <3>2. Matches(Expected)
      BY DEF Matches, Expected, ToldInv
    <3>3. QED
      BY <2>1, <3>1, <3>2 DEF taskVars, Matches, Snapshot
  <2>5. QED
    BY <2>1, <2>3, <2>4 DEF FeedInv
<1>7. ASSUME NEW i \in DOMAIN loads, AnswerList(i)
      PROVE  FeedInv'
  <2>1. /\ Len(loads') = Len(loads) /\ DOMAIN loads' = DOMAIN loads
        /\ \A j \in DOMAIN loads : j # i => loads'[j] = loads[j]
        /\ loads'[i].tasks = IF listed THEN {Snapshot} ELSE {}
    BY <1>7, Answered
  <2>2. UNCHANGED <<taskVars, shown, open, registered, wire, overtaken>>
    BY <1>7 DEF AnswerList
  <2>3. Matches(loads'[i].tasks)
    <3>1. Snapshot.prompt = prompt
      BY DEF Snapshot
    <3>2. CASE listed
      <4>1. loads'[i].tasks = {Snapshot}
        BY <2>1, <3>2
      <4>2. QED
        BY <3>1, <3>2, <4>1, Zenon DEF Matches
    <3>3. CASE ~listed
      <4>1. loads'[i].tasks = {}
        BY <2>1, <3>3
      <4>2. QED
        BY <3>3, <4>1, Zenon DEF Matches
    <3>4. QED
      BY <3>2, <3>3
  <2>4. /\ Expected' = Expected
        /\ \A j \in DOMAIN loads : Matches(loads'[j].tasks) => Matches(loads[j].tasks)'
    BY <2>2 DEF taskVars, Matches, Expected, Snapshot
  <2>5. loads' = <<>> <=> loads = <<>>
    BY <1>7, <2>1 DEF PageTypes
  <2>6. QED
    BY <1>7, <2>1, <2>2, <2>3, <2>4, <2>5 DEF FeedInv
<1>8. ASSUME NEW i \in DOMAIN loads, ListArrives(i)
      PROVE  FeedInv'
  <2>1. /\ loads' = RemoveAt(loads, i) /\ shown' = loads[i].tasks /\ loads[i].answered
        /\ UNCHANGED <<taskVars, open, registered, wire, overtaken>>
    BY <1>8 DEF ListArrives
  <2>2. \A j \in DOMAIN loads' : \E k \in DOMAIN loads : loads'[j] = loads[k]
    BY <2>1, Removed DEF PageTypes
  <2>3. Expected' = Expected
    BY <2>1 DEF taskVars, Expected
  <2>4. ASSUME open, ~overtaken, wire = <<>>
        PROVE  /\ Matches(shown)'
               /\ \A j \in DOMAIN loads' : loads'[j].answered => Matches(loads[j].tasks)'
    <3>1. \A k \in DOMAIN loads : loads[k].answered => Matches(loads[k].tasks)
      BY <2>4 DEF FeedInv
    <3>2. \A j \in DOMAIN loads' : loads'[j].answered => Matches(loads'[j].tasks)
      BY <2>2, <3>1
    <3>3. QED
      BY <1>8, <2>1, <3>1, <3>2 DEF taskVars, Matches, Snapshot
  <2>5. QED
    BY <2>1, <2>3, <2>4 DEF FeedInv
<1>9. ASSUME NEW i \in DOMAIN loads, ListFails(i)
      PROVE  FeedInv'
  BY <1>9 DEF ListFails, FeedInv, taskVars, Expected
<1>10. CASE StopAnswered
  <2>1. /\ ~listed /\ shown' = {}
        /\ UNCHANGED <<taskVars, open, registered, wire, loads, overtaken>>
    BY <1>10 DEF StopAnswered
  <2>2. /\ Expected' = Expected /\ Matches(shown)'
        /\ \A i \in DOMAIN loads : Matches(loads[i].tasks) => Matches(loads[i].tasks)'
    BY <2>1 DEF taskVars, Matches, Expected, Snapshot
  <2>3. QED
    BY <2>1, <2>2 DEF FeedInv
<1>11. CASE \/ \E q \in Questions : Submit(q) \/ Dismiss(q)
            \/ ReplyArrives \/ UNCHANGED vars
  BY <1>2, <1>11 DEF Submit, Dismiss, ReplyArrives, vars, pageVars
<1>12. CASE AnswerPrompt
  <2>1. /\ UNCHANGED <<shown, open, registered, wire, loads, overtaken>>
        /\ UNCHANGED <<told, listed, prompt, state>>
    BY <1>12 DEF AnswerPrompt, BeginAnswer, BeginClose, taskVars
  <2>2. /\ Expected' = Expected /\ (Matches(shown) => Matches(shown)')
        /\ \A i \in DOMAIN loads : Matches(loads[i].tasks) => Matches(loads[i].tasks)'
    BY <2>1 DEF Matches, Expected, Snapshot
  <2>3. QED
    BY <2>1, <2>2 DEF FeedInv
<1>13. QED
  BY <1>1, <1>3, <1>4, <1>5, <1>6, <1>7, <1>8, <1>9, <1>10, <1>11, <1>12 DEF PageNext


\* What the page gets to know was asked before.
LEMMA SeenStep ==
  ASSUME TaskAssumption, Inv, Inv', ToldInv, PageTypes, PageTypes', SeenInv,
         [PageNext]_vars
  PROVE  SeenInv'
<1>1. TypeOK /\ TypeOK' /\ [TaskNext]_taskVars
  BY TaskPart DEF Inv
<1>2. prompt \in Seen /\ prompt' \in Seen'
  BY PromptSeen DEF Inv, TypeOK, PromptAsked, AskedOnce, Seen
<1>3. Seen \subseteq Seen'
  BY <1>1, SeenStays
<1>4. SeenLists \subseteq SeenLists'
  BY <1>3 DEF SeenLists
<1>5. told'.prompt \in Seen'
  <2>1. told' = told \/ told' = Snapshot'
    BY <1>1, ToldStep DEF Inv
  <2>2. Snapshot'.prompt = prompt'
    BY DEF Snapshot
  <2>3. QED
    BY <1>2, <1>3, <2>1, <2>2 DEF SeenInv
<1>6. {} \in SeenLists' /\ {told'} \in SeenLists' /\ {Snapshot} \in SeenLists
  <2>1. {} \in Lists /\ {told'} \in Lists /\ {Snapshot} \in Lists
    BY <1>1, ListTypes, TruthTypes DEF TypeOK
  <2>2. Snapshot.prompt = prompt
    BY DEF Snapshot
  <2>3. QED
    BY <1>2, <1>5, <2>1, <2>2 DEF SeenLists
<1>7. /\ reply.q \in Seen' /\ handled \subseteq Seen' /\ shown \in SeenLists'
      /\ \A i \in DOMAIN wire : wire[i] \in SeenLists'
      /\ \A i \in DOMAIN loads : loads[i].tasks \in SeenLists'
  BY <1>3, <1>4 DEF SeenInv
<1>8. reply'.q \in Seen'
  <2>1. ASSUME NEW q \in Questions, Submit(q)
        PROVE  reply'.q \in Seen'
    <3>1. \E s \in shown : q = s.prompt
      BY <2>1 DEF Submit, OpenPrompts
    <3>2. reply'.q = q
      BY <2>1 DEF Submit
    <3>3. QED
      BY <1>7, <3>1, <3>2 DEF SeenLists
  <2>2. CASE ReplyArrives
    BY <2>2 DEF ReplyArrives, NoReply, Seen
  <2>3. CASE ServerStep \/ AnswerPrompt
    <3>1. reply'.q = reply.q
      BY <2>3 DEF ServerStep, AnswerPrompt, PageTypes
    <3>2. QED
      BY <1>7, <3>1
  <2>4. CASE reply' = reply
    BY <1>7, <2>4
  <2>5. CASE \/ Register \/ Opened \/ Drop \/ Receive
             \/ \E i \in DOMAIN loads : AnswerList(i) \/ ListArrives(i) \/ ListFails(i)
             \/ \E q \in Questions : Dismiss(q)
             \/ StopAnswered \/ UNCHANGED vars
    BY <2>4, <2>5 DEF Register, Opened, Drop, Receive, AnswerList, ListArrives, ListFails,
                      Dismiss, StopAnswered, vars, pageVars
  <2>6. QED
    BY <2>1, <2>2, <2>3, <2>5 DEF PageNext
<1>9. handled' \subseteq Seen'
  <2>1. ASSUME NEW q \in Questions, Dismiss(q)
        PROVE  handled' \subseteq Seen'
    <3>1. \E s \in shown : q = s.prompt
      BY <2>1 DEF Dismiss, OpenPrompts
    <3>2. QED
      BY <1>7, <2>1, <3>1 DEF Dismiss, SeenLists
  <2>2. CASE ReplyArrives
    BY <1>7, <2>2 DEF ReplyArrives, Hide
  <2>3. CASE handled' = handled
    BY <1>7, <2>3
  <2>4. CASE \/ ServerStep \/ AnswerPrompt \/ Register \/ Opened \/ Drop \/ Receive
             \/ \E i \in DOMAIN loads : AnswerList(i) \/ ListArrives(i) \/ ListFails(i)
             \/ \E q \in Questions : Submit(q)
             \/ StopAnswered \/ UNCHANGED vars
    BY <2>3, <2>4 DEF ServerStep, AnswerPrompt, Register, Opened, Drop, Receive,
                      AnswerList, ListArrives, ListFails, Submit, StopAnswered, vars,
                      pageVars
  <2>5. QED
    BY <2>1, <2>2, <2>4 DEF PageNext
<1>10. shown' \in SeenLists'
  <2>1. CASE Receive
    <3>1. shown' = wire[1] /\ 1 \in DOMAIN wire
      BY <2>1, Received DEF Receive, Apply, PageTypes
    <3>2. QED
      BY <1>7, <3>1
  <2>2. ASSUME NEW i \in DOMAIN loads, ListArrives(i)
        PROVE  shown' \in SeenLists'
    BY <1>7, <2>2 DEF ListArrives
  <2>3. CASE StopAnswered
    BY <1>6, <2>3 DEF StopAnswered
  <2>4. CASE shown' = shown
    BY <1>7, <2>4
  <2>5. CASE \/ ServerStep \/ AnswerPrompt \/ Register \/ Opened \/ Drop
             \/ \E i \in DOMAIN loads : AnswerList(i) \/ ListFails(i)
             \/ \E q \in Questions : Submit(q) \/ Dismiss(q)
             \/ ReplyArrives \/ UNCHANGED vars
    BY <2>4, <2>5 DEF ServerStep, AnswerPrompt, Register, Opened, Drop, AnswerList,
                      ListFails, Submit, Dismiss, ReplyArrives, vars, pageVars
  <2>6. QED
    BY <2>1, <2>2, <2>3, <2>5 DEF PageNext
<1>11. \A i \in DOMAIN wire' : wire'[i] \in SeenLists'
  <2>1. CASE ServerStep
    <3>1. wire' = <<>> \/ wire' = wire \/ wire' = Append(wire, Expected')
      BY <1>1, <2>1, ToldStep, PushStep DEF ServerStep, Inv
    <3>2. Expected' \in SeenLists' /\ Expected' \in Lists
      BY <1>6 DEF Expected, SeenLists
    <3>3. CASE wire' = Append(wire, Expected')
      <4>1. wire \in Seq(Lists)
        BY DEF PageTypes
      <4>2. \A i \in DOMAIN wire' : (i \in DOMAIN wire /\ wire'[i] = wire[i])
                                      \/ wire'[i] = Expected'
        BY <3>2, <3>3, <4>1, Grown
      <4>3. QED
        BY <1>7, <3>2, <4>2
    <3>4. QED
      BY <1>7, <3>1, <3>3
  <2>2. CASE Receive
    <3>1. \A i \in DOMAIN wire' : i + 1 \in DOMAIN wire /\ wire'[i] = wire[i + 1]
      BY <2>2, Received DEF Receive, PageTypes
    <3>2. QED
      BY <1>7, <3>1
  <2>3. CASE Drop
    BY <2>3 DEF Drop, HangUp
  <2>4. CASE wire' = wire
    BY <1>7, <2>4
  <2>5. CASE \/ AnswerPrompt \/ Register \/ Opened
             \/ \E i \in DOMAIN loads : AnswerList(i) \/ ListArrives(i) \/ ListFails(i)
             \/ \E q \in Questions : Submit(q) \/ Dismiss(q)
             \/ ReplyArrives \/ StopAnswered \/ UNCHANGED vars
    BY <2>4, <2>5 DEF AnswerPrompt, Register, Opened, AnswerList, ListArrives, ListFails,
                      Submit, Dismiss, ReplyArrives, StopAnswered, vars, pageVars
  <2>6. QED
    BY <2>1, <2>2, <2>3, <2>5 DEF PageNext
<1>12. \A i \in DOMAIN loads' : loads'[i].tasks \in SeenLists'
  <2>1. CASE Opened
    <3>1. loads' = Append(loads, Sent) /\ loads \in Seq(List)
      BY <2>1 DEF Opened, Reload, PageTypes
    <3>2. \A i \in DOMAIN loads' : (i \in DOMAIN loads /\ loads'[i] = loads[i])
                                     \/ loads'[i] = Sent
      BY <3>1, Grown, ListTypes
    <3>3. Sent.tasks = {}
      BY ListTypes
    <3>4. QED
      BY <1>6, <1>7, <3>2, <3>3
  <2>2. ASSUME NEW i \in DOMAIN loads, AnswerList(i)
        PROVE  \A j \in DOMAIN loads' : loads'[j].tasks \in SeenLists'
    BY <1>1, <1>4, <1>6, <1>7, <2>2, Answered
  <2>3. ASSUME NEW i \in DOMAIN loads, ListArrives(i) \/ ListFails(i)
        PROVE  \A j \in DOMAIN loads' : loads'[j].tasks \in SeenLists'
    <3>1. loads' = RemoveAt(loads, i) /\ loads \in Seq(List)
      BY <2>3 DEF ListArrives, ListFails, PageTypes
    <3>2. \A j \in DOMAIN loads' : \E k \in DOMAIN loads : loads'[j] = loads[k]
      BY <3>1, Removed
    <3>3. QED
      BY <1>7, <3>2
  <2>4. CASE loads' = loads
    BY <1>7, <2>4
  <2>5. CASE \/ ServerStep \/ AnswerPrompt \/ Register \/ Drop \/ Receive
             \/ \E q \in Questions : Submit(q) \/ Dismiss(q)
             \/ ReplyArrives \/ StopAnswered \/ UNCHANGED vars
    BY <2>4, <2>5 DEF ServerStep, AnswerPrompt, Register, Drop, Receive, Submit, Dismiss,
                      ReplyArrives, StopAnswered, vars, pageVars
  <2>6. QED
    BY <2>1, <2>2, <2>3, <2>5 DEF PageNext
<1>13. QED
  BY <1>5, <1>8, <1>9, <1>10, <1>11, <1>12 DEF SeenInv

\* A closed question does not open again.
LEMMA StaysClosed ==
  ASSUME TaskAssumption, TypeOK, [TaskNext]_taskVars, NEW q \in Questions, q \in Seen,
         Finished \/ prompt # q
  PROVE  Finished' \/ prompt' # q
BY SeenStays, EndStays, ThreadKinds

\* The server has closed a question before it says that it needs no answer.
LEMMA ReplyStep ==
  ASSUME TaskAssumption, Inv, PageTypes, SeenInv, ReplyInv, [PageNext]_vars
  PROVE  ReplyInv'
<1>1. TypeOK /\ [TaskNext]_taskVars
  BY TaskPart DEF Inv
<1>2. CASE ServerStep
  <2>1. reply'.q = reply.q /\ reply.phase \in {"idle", "sent", "running", "over"}
    BY <1>2 DEF ServerStep, PageTypes
  <2>2. CASE reply.phase = "running" /\ main' = "free"
    <3>1. main = "answering" /\ reply.q \in Questions
      BY <2>2 DEF ReplyInv
    <3>2. prompt' = NoQuestion
      <4>1. ASSUME NEW th \in Threads, Worker(th)
            PROVE  main' = main
        BY <4>1 DEF Worker, SetProgress, AskBlocking, Return, FinishSet, FinishTell
      <4>2. EndAnswer
        BY <1>2, <2>2, <3>1, <4>1
           DEF ServerStep, TaskNext, MainPlugin, Posted, FrontEnd, AskMain, FinishMain,
               RunAsk, RunClose, RunChanged, RunDelete, HeadIs, BeginAnswer, BeginDismiss,
               BeginClose, EndDismiss, RequestCancel, DismissTask, Expire, SendHeld, Retire,
               Quit
      <4>3. QED
        BY <4>2 DEF EndAnswer, ClosePrompt
    <3>3. reply'.phase = "over"
      BY <1>2, <2>2 DEF ServerStep, PageTypes
    <3>4. QED
      BY <2>1, <3>1, <3>2, <3>3, ThreadKinds DEF ReplyInv
  <2>3. CASE ~(reply.phase = "running" /\ main' = "free")
    <3>1. reply' = reply
      BY <1>2, <2>3 DEF ServerStep
    <3>2. reply.phase = "running" => main' = "answering"
      <4>1. ASSUME NEW th \in Threads, Worker(th)
            PROVE  main' = main
        BY <4>1 DEF Worker, SetProgress, AskBlocking, Return, FinishSet, FinishTell
      <4>2. main = "answering" => main' = "answering" \/ main' = "free"
        BY <1>2, <4>1
           DEF ServerStep, TaskNext, MainPlugin, Posted, FrontEnd, AskMain, FinishMain,
               RunAsk, RunClose, RunChanged, RunDelete, HeadIs, BeginAnswer, BeginDismiss,
               BeginClose, EndAnswer, EndDismiss, RequestCancel, DismissTask, Expire,
               SendHeld, Retire, RemoveTask, Quit
      <4>3. QED
        BY <2>3, <4>2 DEF ReplyInv
    <3>3. reply.phase = "over" => Finished' \/ prompt' # reply.q
      BY <1>1, StaysClosed DEF ReplyInv, SeenInv
    <3>4. QED
      BY <3>1, <3>2, <3>3 DEF ReplyInv
  <2>4. QED
    BY <2>2, <2>3
<1>3. CASE AnswerPrompt
  <2>1. reply.phase = "sent" /\ reply'.q = reply.q /\ reply.q \in Questions
    BY <1>3 DEF AnswerPrompt, PageTypes, ReplyInv
  <2>2. CASE BeginAnswer(reply.q) /\ reply' = [reply EXCEPT !.phase = "running"]
    <3>1. main' = "answering" /\ reply'.phase = "running"
      BY <2>2 DEF BeginAnswer, BeginClose, PageTypes
    <3>2. QED
      BY <2>1, <3>1 DEF ReplyInv
  <2>3. CASE /\ ~listed \/ prompt # reply.q \/ Finished
             /\ reply' = [reply EXCEPT !.phase = "over"] /\ UNCHANGED taskVars
    <3>1. reply'.phase = "over"
      BY <2>3 DEF PageTypes
    <3>2. Finished' \/ prompt' # reply.q
      BY <2>3 DEF Inv, Retired, Finished, taskVars
    <3>3. QED
      BY <2>1, <3>1, <3>2 DEF ReplyInv
  <2>4. QED
    BY <1>3, <2>2, <2>3 DEF AnswerPrompt
<1>4. ASSUME NEW q \in Questions, Submit(q)
      PROVE  ReplyInv'
  <2>1. reply'.phase = "sent" /\ reply'.q \in Questions
    BY <1>4 DEF Submit
  <2>2. QED
    BY <2>1 DEF ReplyInv
<1>5. CASE ReplyArrives
  <2>1. reply'.phase = "idle" /\ reply'.q = NoQuestion
    BY <1>5 DEF ReplyArrives, NoReply
  <2>2. QED
    BY <2>1 DEF ReplyInv
<1>6. CASE UNCHANGED <<reply, main, state, prompt>>
  BY <1>6 DEF ReplyInv, Finished
<1>7. CASE \/ Register \/ Opened \/ Drop \/ Receive
           \/ \E i \in DOMAIN loads : AnswerList(i) \/ ListArrives(i) \/ ListFails(i)
           \/ \E q \in Questions : Dismiss(q)
           \/ StopAnswered \/ UNCHANGED vars
  BY <1>6, <1>7 DEF Register, Opened, Drop, Receive, AnswerList, ListArrives, ListFails,
                    Dismiss, StopAnswered, vars, pageVars, taskVars
<1>8. QED
  BY <1>2, <1>3, <1>4, <1>5, <1>7 DEF PageNext

\* Only a closed question, or one the user closes, gets hidden.
LEMMA HiddenStep ==
  ASSUME TaskAssumption, Inv, PageTypes, SeenInv, ReplyInv, HiddenOnlyWhenGone,
         [PageNext]_vars
  PROVE  HiddenOnlyWhenGone'
<1>1. TypeOK /\ [TaskNext]_taskVars
  BY TaskPart DEF Inv
<1>2. ASSUME NEW q \in handled \ dismissed
      PROVE  prompt' = q => Finished'
  BY <1>1, <1>2, StaysClosed DEF HiddenOnlyWhenGone, PageTypes, SeenInv
<1>3. CASE handled' = handled /\ dismissed' = dismissed
  BY <1>2, <1>3 DEF HiddenOnlyWhenGone
<1>4. ASSUME NEW q \in Questions, Dismiss(q)
      PROVE  HiddenOnlyWhenGone'
  BY <1>2, <1>4 DEF Dismiss, HiddenOnlyWhenGone
<1>5. CASE ReplyArrives
  <2>1. CASE handled' = handled
    BY <1>3, <1>5, <2>1 DEF ReplyArrives
  <2>2. CASE reply.phase = "over" /\ handled' = handled \cup {reply.q}
    <3>1. prompt' = reply.q => Finished'
      BY <1>5, <2>2 DEF ReplyInv, ReplyArrives, taskVars, Finished
    <3>2. dismissed' = dismissed
      BY <1>5 DEF ReplyArrives
    <3>3. QED
      BY <1>2, <2>2, <3>1, <3>2 DEF HiddenOnlyWhenGone
  <2>3. QED
    BY <1>5, <2>1, <2>2 DEF ReplyArrives, Hide
<1>6. CASE \/ ServerStep \/ AnswerPrompt \/ Register \/ Opened \/ Drop \/ Receive
           \/ \E i \in DOMAIN loads : AnswerList(i) \/ ListArrives(i) \/ ListFails(i)
           \/ \E q \in Questions : Submit(q)
           \/ StopAnswered \/ UNCHANGED vars
  BY <1>3, <1>6 DEF ServerStep, AnswerPrompt, Register, Opened, Drop, Receive, AnswerList,
                    ListArrives, ListFails, Submit, StopAnswered, vars, pageVars
<1>7. QED
  BY <1>4, <1>5, <1>6 DEF PageNext

-----------------------------------------------------------------------------
(* Theorems                                                                *)

\* A page that has just been opened asks for its first list ...
LEMMA PageInvInit ==
  ASSUME TaskAssumption, PageInit
  PROVE  PageInv
<1>1. Inv
  BY InvInit DEF PageInit
<1>2. /\ shown = {} /\ handled = {} /\ open = FALSE /\ registered = FALSE /\ wire = <<>>
      /\ loads = <<Sent>> /\ reply = NoReply /\ dismissed = {} /\ overtaken = FALSE
  BY DEF PageInit
<1>3. PageTypes
  <2>1. MaxWire \in Nat /\ MaxLoads \in Nat \ {0}
    BY PageAssumption DEF PageAssumption
  <2>2. wire \in Seq(Lists) /\ Len(wire) <= MaxWire
    BY <1>2, <2>1
  <2>3. loads \in Seq(List) /\ Len(loads) <= MaxLoads
    BY <1>2, <2>1, ListTypes
  <2>4. QED
    BY <1>2, <2>2, <2>3, ListTypes DEF PageTypes, NoReply
<1>4. prompt = NoQuestion /\ told = Snapshot /\ held = FALSE
  BY DEF PageInit, Init
<1>5. Snapshot.prompt = prompt
  BY DEF Snapshot
<1>6. ToldInv
  BY <1>4, <1>5 DEF ToldInv
<1>7. FeedInv
  BY <1>2 DEF FeedInv
<1>8. SeenInv
  <2>1. /\ \A i \in DOMAIN wire : FALSE
        /\ \A i \in DOMAIN loads : loads[i].tasks = {}
    BY <1>2, ListTypes
  <2>2. {} \in SeenLists /\ NoQuestion \in Seen
    BY ListTypes DEF SeenLists, Seen
  <2>3. told.prompt = NoQuestion /\ reply.q = NoQuestion
    BY <1>2, <1>4, <1>5 DEF NoReply
  <2>4. QED
    BY <1>2, <2>1, <2>2, <2>3 DEF SeenInv
<1>9. ReplyInv /\ HiddenOnlyWhenGone
  BY <1>2 DEF ReplyInv, HiddenOnlyWhenGone, NoReply
<1>10. QED
  BY <1>1, <1>3, <1>6, <1>7, <1>8, <1>9 DEF PageInv

\* ... and every step keeps the invariant.
LEMMA PageInvStep ==
  ASSUME TaskAssumption, PageInv, [PageNext]_vars
  PROVE  PageInv'
<1>1. TypeOK /\ Gone /\ Retired /\ [TaskNext]_taskVars
  BY TaskPart DEF PageInv, Inv
<1>2. Inv'
  BY <1>1, InvStep DEF PageInv
<1>3. TypeOK'
  BY <1>2 DEF Inv
<1>4. ToldInv'
  BY <1>1, ToldStep DEF PageInv
<1>5. PageTypes'
  BY <1>1, <1>3, PageTypeStep DEF PageInv
<1>6. FeedInv'
  BY <1>1, <1>3, <1>5, FeedStep DEF PageInv
<1>7. SeenInv'
  BY <1>2, <1>5, SeenStep DEF PageInv
<1>8. ReplyInv' /\ HiddenOnlyWhenGone'
  BY ReplyStep, HiddenStep DEF PageInv
<1>9. QED
  BY <1>2, <1>4, <1>5, <1>6, <1>7, <1>8 DEF PageInv

\* The invariant that the theorems below are parts of.
THEOREM TaskPageInvariant == PageSpec => []PageInv
<1>1. PageInit => PageInv
  BY PageInvInit, TaskAssumption
<1>2. PageInv /\ [PageNext]_vars => PageInv'
  BY PageInvStep, TaskAssumption
<1>3. QED
  BY <1>1, <1>2, PTL DEF PageSpec

\* TasksStore, its socket and its requests keep the types of their state, and the
\* task behind them those of its own.
THEOREM TaskPageTypes == PageSpec => []PageTypeOK
<1>1. ASSUME PageInv
      PROVE  PageTypeOK
  <2>1. ASSUME NEW T, NEW s \in Seq(T), NEW n \in Nat, Len(s) <= n
        PROVE  s \in BoundedSeq(T, n)
    <3>1. Len(s) \in 0 .. n /\ s \in [1 .. Len(s) -> T]
      BY <2>1
    <3>2. QED
      BY <3>1, Zenon DEF BoundedSeq, SeqOf
  <2>2. MaxWire \in Nat /\ MaxLoads \in Nat
    BY PageAssumption DEF PageAssumption
  <2>3. wire \in BoundedSeq(Lists, MaxWire)
    BY <1>1, <2>1, <2>2 DEF PageInv, PageTypes
  <2>4. loads \in BoundedSeq([answered : BOOLEAN, tasks : Lists], MaxLoads)
    BY <1>1, <2>1, <2>2 DEF PageInv, PageTypes, List
  <2>5. QED
    BY <1>1, <2>3, <2>4 DEF PageInv, Inv, PageTypes, PageTypeOK
<1>2. QED
  BY <1>1, TaskPageInvariant, PTL

\* A page that nothing is on its way to shows the task as it is, after any number of
\* reconnections, lists, pushes and failures, unless a push was overtaken.
THEOREM PageShowsTheTruth == PageSpec => []PageCurrent
<1>1. ASSUME PageInv
      PROVE  PageCurrent
  <2>1. SUFFICES ASSUME Settled, ~overtaken
                 PROVE  /\ shown = {} <=> ~listed
                        /\ \A s \in shown : s.state = Snapshot.state /\ s.prompt = prompt
    BY DEF PageCurrent
  <2>2. Matches(shown)
    BY <1>1, <2>1 DEF Settled, PageInv, FeedInv
  <2>3. ~listed \/ told = Snapshot
    BY <1>1, <2>1 DEF Settled, PageInv, Inv, FrontEndsKnow
  <2>4. QED
    BY <2>2, <2>3 DEF Matches
<1>2. QED
  BY <1>1, TaskPageInvariant, PTL

\* However answers, failures of the connection and other front ends overtake each
\* other, a question the user has not dismissed stays open to answer.
THEOREM OpenQuestionsStayShown == PageSpec => []HiddenOnlyWhenGone
<1>1. PageInv => HiddenOnlyWhenGone
  BY DEF PageInv
<1>2. QED
  BY <1>1, TaskPageInvariant, PTL

\* With the page's requests among the front ends', nobody waits for an answer after
\* the end, answers reach who asked and the front ends hear the truth.
THEOREM TaskKeepsItsWord ==
  PageSpec => [](NobodyLeftWaiting /\ AnswerReachesAsker /\ FrontEndsKnow)
<1>1. PageInv => NobodyLeftWaiting /\ AnswerReachesAsker /\ FrontEndsKnow
  BY ThreadKinds, TaskAssumption
     DEF PageInv, Inv, Reachable, Ended, NobodyLeftWaiting
<1>2. QED
  BY <1>1, TaskPageInvariant, PTL

\* The task that a page follows and answers still gives every question one outcome.
THEOREM PageImplementsQuestion == PageSpec => OneOutcome
<1>1. PageInit => Promise!Init
  BY DEF PageInit, Init, Promise!Init
<1>2. PageInv /\ [PageNext]_vars => [Promise!Next]_outcome
  <2>1. PageInv => TypeOK
    BY DEF PageInv, Inv
  <2>2. QED
    BY <2>1, TaskPart, OutcomeStep
<1>3. QED
  BY <1>1, <1>2, TaskPageInvariant, PTL DEF PageSpec, OneOutcome, Promise!Spec
=============================================================================
