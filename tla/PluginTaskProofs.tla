-------------------------- MODULE PluginTaskProofs --------------------------
(***************************************************************************)
(* Proofs about PluginTask for any number of worker threads, questions and *)
(* posted events: its variables keep their types, it implements Question,  *)
(* nobody is left waiting, answers reach who asked, and the front ends     *)
(* know the truth.                                                         *)
(***************************************************************************)
EXTENDS PluginTask, TLAPS

\* At most one thread is in finish(), and only of a task that has ended.
OneFinishes ==
  \A th \in Threads : thread[th] = Finishing =>
    Finished /\ \A other \in Threads : thread[other] = Finishing => other = th

\* A task that is to be deleted is not listed, and of a deleted one nothing is left.
Gone ==
  /\ IsPosted(Event("delete")) => ~listed
  /\ ~alive => ~listed /\ posted = <<>> /\ waiters = {} /\ prompt = NoQuestion

\* Only a task that has ended is retired or taken out of the list.
Retired == removal \/ ~listed => Finished

\* Whoever waits for an answer can be reached: through m_waiters or the open prompt.
Reachable ==
  \A q \in Questions : outcome[q] = "asked" => q \in waiters \/ q = prompt

\* Nothing is open or waited for after a cancellation, and once finish() has
\* returned only a prompt that a posted event will close.
Ended ==
  /\ cancel => waiters = {} /\ prompt = NoQuestion
  /\ Finished /\ ~SomeoneFinishing =>
       waiters = {} /\ (prompt # NoQuestion => IsPosted(Event("close")))

\* The open prompt was asked, and its asker waits until the task ends.
PromptAsked ==
  prompt # NoQuestion =>
    /\ outcome[prompt] # "unasked"
    /\ ~Finished /\ ~cancel => outcome[prompt] = "asked"

\* The call of a blocking question is posted once, before the question opens.
AskedOnce ==
  \A q \in Questions :
    /\ IsPosted(AskEvent(q)) => outcome[q] # "unasked" /\ q # prompt
    /\ \A i, j \in DOMAIN posted :
         posted[i] = AskEvent(q) /\ posted[j] = AskEvent(q) => i = j

Inv ==
  /\ TypeOK /\ OneFinishes /\ Gone /\ Retired /\ Reachable /\ Ended /\ PromptAsked /\ AskedOnce
  /\ AnswerReachesAsker /\ FrontEndsKnow

-----------------------------------------------------------------------------
(* Types                                                                   *)

\* Sequences.
LEMMA SeqTypes ==
  ASSUME NEW S
  PROVE  /\ <<>> \in Seq(S)
         /\ \A a, b \in Seq(S) : a \o b \in Seq(S)
OBVIOUS

\* The events.
LEMMA EventTypes ==
  /\ \A q \in Questions : AskEvent(q) \in Events
  /\ Event("close") \in Events /\ Event("changed") \in Events
  /\ Event("delete") \in Events
BY DEF AskEvent, Event, Events

\* What is announced or held back, and the retention flag, keep their types.
LEMMA ChangedType ==
  ASSUME TypeOK, Changed \/ Unchanged,
         state' \in States, prompt' \in Questions \cup {NoQuestion},
         progress' \in 0 .. MaxProgress
  PROVE  told' \in Snapshots /\ held' \in BOOLEAN /\ removal' \in BOOLEAN
<1>1. Snapshot' \in Snapshots
  BY DEF Snapshot, Snapshots, States
<1>2. CASE Changed
  <2>1. CASE ~listed
    BY <1>2, <2>1 DEF Changed, TypeOK
  <2>2. CASE listed
    <3>1. Announce /\ removal' = (removal \/ Finished')
      BY <1>2, <2>2 DEF Changed
    <3>2. told' \in Snapshots /\ held' \in BOOLEAN
      BY <1>1, <3>1 DEF Announce, TypeOK
    <3>3. removal' \in BOOLEAN
      BY <3>1 DEF TypeOK
    <3>4. QED
      BY <3>2, <3>3
  <2>3. QED
    BY <2>1, <2>2
<1>3. CASE Unchanged
  BY <1>3 DEF Unchanged, TypeOK
<1>4. QED
  BY <1>2, <1>3

\* A question that is asked or refused.
LEMMA AskType ==
  ASSUME TypeOK, NEW q \in Questions, Ask(q),
         state' = state, progress' = progress
  PROVE  /\ prompt' \in Questions \cup {NoQuestion}
         /\ waiters' \subseteq Questions
         /\ outcome' \in [Questions -> {"unasked", "asked", "values", "none"}]
         /\ told' \in Snapshots /\ held' \in BOOLEAN /\ removal' \in BOOLEAN
<1>1. /\ prompt' \in Questions \cup {NoQuestion}
      /\ waiters' \subseteq Questions
      /\ outcome' \in [Questions -> {"unasked", "asked", "values", "none"}]
  BY DEF Ask, TypeOK
<1>2. Changed \/ Unchanged
  BY DEF Ask
<1>3. QED
  BY <1>1, <1>2, ChangedType DEF TypeOK

\* A question that is closed, with what the slots of changed() do about it.
LEMMA ClosePromptType ==
  ASSUME TypeOK, NEW reason \in Reasons, NEW r \in {"values", "none"},
         NEW woken \in SUBSET waiters, ClosePrompt(reason, r, woken),
         Changed \/ Unchanged,
         state' \in States, progress' \in 0 .. MaxProgress
  PROVE  /\ prompt' \in Questions \cup {NoQuestion}
         /\ waiters' \subseteq Questions
         /\ closed' \in [Questions -> Reasons \cup {"no"}]
         /\ outcome' \in [Questions -> {"unasked", "asked", "values", "none"}]
         /\ told' \in Snapshots /\ held' \in BOOLEAN /\ removal' \in BOOLEAN
<1>1. /\ prompt' \in Questions \cup {NoQuestion}
      /\ waiters' \subseteq Questions
      /\ closed' \in [Questions -> Reasons \cup {"no"}]
  BY DEF ClosePrompt, TypeOK
<1>2. outcome' \in [Questions -> {"unasked", "asked", "values", "none"}]
  BY DEF ClosePrompt, Complete, TypeOK
<1>3. QED
  BY <1>1, <1>2, ChangedType

\* Every step keeps the types.
LEMMA TypeStep ==
  ASSUME TaskAssumption, TypeOK, [TaskNext]_taskVars
  PROVE  TypeOK'
<1> USE DEF TypeOK
<1>1. ASSUME NEW th \in Threads, Worker(th)
      PROVE  TypeOK'
  <2>1. ASSUME NEW p \in 0 .. MaxProgress, SetProgress(th, p)
        PROVE  TypeOK'
    BY <2>1 DEF SetProgress, Event, Events
  <2>2. ASSUME NEW q \in Questions, AskBlocking(th, q)
        PROVE  TypeOK'
    <3>1. CASE Finished \/ cancel
      BY <2>2, <3>1 DEF AskBlocking
    <3>2. CASE ~(Finished \/ cancel)
      <4>1. posted' \in Seq(Events)
        BY <2>2, <3>2, EventTypes DEF AskBlocking
      <4>2. QED
        BY <2>2, <3>2, <4>1 DEF AskBlocking
    <3>3. QED
      BY <3>1, <3>2
  <2>3. CASE Return(th)
    BY <2>3 DEF Return
  <2>4. ASSUME NEW ok \in BOOLEAN, FinishSet(th, ok)
        PROVE  TypeOK'
    BY <2>4, TaskAssumption DEF FinishSet, FinalState, States, TaskAssumption
  <2>5. CASE FinishTell(th)
    <3>1. outcome' \in [Questions -> {"unasked", "asked", "values", "none"}]
      BY <2>5 DEF FinishTell, Complete
    <3>2. posted' \in Seq(Events)
      <4>1. <<Event("close"), Event("changed")>> \in Seq(Events)
        BY EventTypes
      <4>2. posted \o <<Event("close"), Event("changed")>> \in Seq(Events)
        BY <4>1, SeqTypes, Zenon
      <4>3. QED
        BY <2>5, <4>2, SeqTypes, ZenonT(30) DEF FinishTell, TypeOK
    <3>3. QED
      BY <2>5, <3>1, <3>2 DEF FinishTell
  <2>6. QED
    BY <1>1, <2>1, <2>2, <2>3, <2>4, <2>5 DEF Worker
<1>2. ASSUME NEW q \in Questions, AskMain(q)
      PROVE  TypeOK'
  BY <1>2, AskType DEF AskMain
<1>3. ASSUME NEW ok \in BOOLEAN, FinishMain(ok)
      PROVE  TypeOK'
  <2>1. state' \in States /\ progress' \in 0 .. MaxProgress
    BY <1>3, TaskAssumption DEF FinishMain, FinalState, States, TaskAssumption
  <2>2. QED
    BY <1>3, <2>1, ClosePromptType DEF FinishMain, Reasons
<1>4. CASE RunAsk
  <2>1. posted' \in Seq(Events) /\ Head(posted).q \in Questions
    BY <1>4 DEF RunAsk, HeadIs, Events
  <2>2. QED
    BY <1>4, <2>1, AskType DEF RunAsk, Unchanged
<1>5. CASE RunClose
  <2>1. posted' \in Seq(Events)
    BY <1>5 DEF RunClose, HeadIs
  <2>2. QED
    BY <1>5, <2>1, ClosePromptType DEF RunClose, Reasons
<1>6. CASE RunChanged
  <2>1. posted' \in Seq(Events)
    BY <1>6 DEF RunChanged, HeadIs
  <2>2. QED
    BY <1>6, <2>1, ChangedType DEF RunChanged
<1>7. CASE RunDelete
  <2>1. posted' \in Seq(Events) /\ alive' \in BOOLEAN
    BY <1>7, SeqTypes, Zenon DEF RunDelete
  <2>2. QED
    BY <1>7, <2>1, ClosePromptType DEF RunDelete, Reasons
<1>8. ASSUME NEW q \in Questions, BeginAnswer(q) \/ BeginDismiss(q)
      PROVE  TypeOK'
  BY <1>8 DEF BeginAnswer, BeginDismiss, BeginClose
<1>9. CASE EndAnswer
  BY <1>9, ClosePromptType DEF EndAnswer, Reasons
<1>10. CASE EndDismiss
  BY <1>10, ClosePromptType DEF EndDismiss, Reasons
<1>11. CASE RequestCancel
  BY <1>11, ClosePromptType DEF RequestCancel, Cancel, Reasons
<1>12. CASE DismissTask \/ Retire
  <2>1. posted' \in Seq(Events)
    BY <1>12, EventTypes DEF DismissTask, Retire, RemoveTask
  <2>2. QED
    BY <1>12, <2>1 DEF DismissTask, Retire, RemoveTask
<1>13. CASE Expire
  BY <1>13, ClosePromptType DEF Expire, Reasons
<1>14. CASE SendHeld
  BY <1>14 DEF SendHeld, Snapshot, Snapshots, States
<1>15. CASE Quit
  <2>1. CASE listed /\ Cancel
    BY <1>15, <2>1, ClosePromptType DEF Quit, Cancel, Reasons
  <2>2. CASE UNCHANGED <<cancel, prompt, closed, waiters, outcome>> /\ Unchanged
    BY <1>15, <2>2 DEF Quit, Unchanged
  <2>3. QED
    BY <1>15, <2>1, <2>2 DEF Quit
<1>16. CASE UNCHANGED taskVars
  BY <1>16 DEF taskVars
<1>17. QED
  BY <1>1, <1>2, <1>3, <1>4, <1>5, <1>6, <1>7, <1>8, <1>9, <1>10, <1>11, <1>12,
     <1>13, <1>14, <1>15, <1>16
     DEF TaskNext, MainPlugin, Posted, FrontEnd

\* TypeOK holds of the program as it starts a task.
LEMMA TypeInit == ASSUME TaskAssumption, Init PROVE TypeOK
<1>1. Snapshot \in Snapshots
  BY TaskAssumption DEF Init, Snapshot, Snapshots, States, TaskAssumption
<1>2. posted \in Seq(Events) /\ told \in Snapshots
  BY <1>1, SeqTypes, Zenon DEF Init
<1>3. state \in States /\ progress \in 0 .. MaxProgress
  BY TaskAssumption DEF Init, States, TaskAssumption
<1>4. /\ closed \in [Questions -> Reasons \cup {"no"}]
      /\ outcome \in [Questions -> {"unasked", "asked", "values", "none"}]
      /\ thread \in [Threads -> Questions \cup {Free, Finishing}]
  BY DEF Init
<1>5. QED
  BY <1>2, <1>3, <1>4, Zenon DEF Init, TypeOK

\* Task, TaskManager and TaskPush keep the types of their state.
THEOREM TaskTypes == TaskSpec => []TypeOK
<1>1. Init => TypeOK
  BY TypeInit, TaskAssumption
<1>2. TypeOK /\ [TaskNext]_taskVars => TypeOK'
  BY TypeStep, TaskAssumption
<1>3. QED
  BY <1>1, <1>2, PTL DEF TaskSpec

-----------------------------------------------------------------------------
(* Refinement                                                              *)

\* A step that gives the askers of some questions nothing.
LEMMA GivingUp ==
  ASSUME TypeOK, NEW S,
         outcome' = [q \in Questions |->
                       IF q \in S THEN Complete(q, "none") ELSE outcome[q]]
  PROVE  [Promise!Next]_outcome
<1> DEFINE Open == {q \in Questions : q \in S /\ outcome[q] = "asked"}
<1>1. outcome' = [q \in Questions |-> IF q \in Open THEN "none" ELSE outcome[q]]
  BY DEF Complete, TypeOK
<1>2. CASE Open = {}
  BY <1>1, <1>2 DEF TypeOK
<1>3. CASE Open # {}
  <2>1. Promise!GiveUp(Open)
    BY <1>1, <1>3 DEF Promise!GiveUp
  <2>2. QED
    BY <2>1 DEF Promise!Next
<1>4. QED
  BY <1>2, <1>3

\* closePrompt() without values, and whoever is woken before it.
LEMMA ClosingGivesUp ==
  ASSUME TypeOK, NEW reason, NEW woken, ClosePrompt(reason, "none", woken)
  PROVE  [Promise!Next]_outcome
<1>1. outcome' = [q \in Questions |->
        IF q \in woken \cup {prompt} THEN Complete(q, "none") ELSE outcome[q]]
  BY DEF ClosePrompt
<1>2. QED
  BY <1>1, GivingUp

\* ask(): the question was unasked, or is put at last on the main thread.
LEMMA Asking ==
  ASSUME TypeOK, NEW q \in Questions, Ask(q), outcome[q] \in {"unasked", "asked"}
  PROVE  [Promise!Next]_outcome
<1>1. outcome' \in {[outcome EXCEPT ![q] = "asked"], [outcome EXCEPT ![q] = "none"]}
  BY DEF Ask
<1>2. CASE outcome[q] = "unasked"
  <2>1. Promise!Ask(q) \/ Promise!Refuse(q)
    BY <1>1, <1>2 DEF Promise!Ask, Promise!Refuse, Promise!Become
  <2>2. QED
    BY <2>1 DEF Promise!Next
<1>3. CASE outcome[q] = "asked"
  <2>1. CASE outcome' = [outcome EXCEPT ![q] = "asked"]
    BY <1>3, <2>1 DEF TypeOK
  <2>2. CASE outcome' = [outcome EXCEPT ![q] = "none"]
    <3>1. outcome' = [p \in Questions |->
            IF p \in {q} THEN Complete(p, "none") ELSE outcome[p]]
      BY <1>3, <2>2 DEF Complete, TypeOK
    <3>2. QED
      BY <3>1, GivingUp
  <2>3. QED
    BY <1>1, <2>1, <2>2
<1>4. QED
  BY <1>2, <1>3

\* Every step is a step of Question or leaves the outcomes alone.
LEMMA OutcomeStep ==
  ASSUME TypeOK, [TaskNext]_taskVars
  PROVE  [Promise!Next]_outcome
<1>1. ASSUME NEW th \in Threads, Worker(th)
      PROVE  [Promise!Next]_outcome
  <2>1. ASSUME NEW q \in Questions, AskBlocking(th, q)
        PROVE  [Promise!Next]_outcome
    <3>1. Promise!Ask(q) \/ Promise!Refuse(q)
      BY <2>1 DEF AskBlocking, Unasked, Promise!Ask, Promise!Refuse, Promise!Become
    <3>2. QED
      BY <3>1 DEF Promise!Next
  <2>2. CASE FinishTell(th)
    BY <2>2, GivingUp DEF FinishTell
  <2>3. CASE \/ \E p \in 0 .. MaxProgress : SetProgress(th, p)
             \/ Return(th) \/ \E ok \in BOOLEAN : FinishSet(th, ok)
    BY <2>3 DEF SetProgress, Return, FinishSet
  <2>4. QED
    BY <1>1, <2>1, <2>2, <2>3 DEF Worker
<1>2. ASSUME NEW q \in Questions, AskMain(q)
      PROVE  [Promise!Next]_outcome
  BY <1>2, Asking DEF AskMain, Unasked
<1>3. CASE RunAsk
  <2>1. Head(posted).q \in Questions
    BY <1>3 DEF RunAsk, HeadIs, Events, TypeOK
  <2>2. QED
    BY <1>3, <2>1, Asking DEF RunAsk
<1>4. ASSUME NEW reason, NEW woken, ClosePrompt(reason, "none", woken)
      PROVE  [Promise!Next]_outcome
  BY <1>4, ClosingGivesUp
<1>5. CASE \/ \E ok \in BOOLEAN : FinishMain(ok)
           \/ RunClose \/ RunDelete \/ EndDismiss \/ RequestCancel \/ Expire
  BY <1>4, <1>5 DEF FinishMain, RunClose, RunDelete, EndDismiss, RequestCancel, Cancel,
                    Expire
<1>6. CASE Quit
  BY <1>4, <1>6 DEF Quit, Cancel
<1>7. CASE EndAnswer
  <2>1. outcome' = [q \in Questions |->
          IF q = prompt THEN Complete(q, "values") ELSE outcome[q]]
    BY <1>7 DEF EndAnswer, ClosePrompt
  <2>2. CASE prompt \in Questions /\ outcome[prompt] = "asked"
    <3>1. Promise!Answer(prompt)
      BY <2>1, <2>2 DEF Complete, Promise!Answer, Promise!Become, TypeOK
    <3>2. QED
      BY <2>2, <3>1 DEF Promise!Next
  <2>3. CASE ~(prompt \in Questions /\ outcome[prompt] = "asked")
    BY <2>1, <2>3 DEF Complete, TypeOK
  <2>4. QED
    BY <2>2, <2>3
<1>8. CASE \/ RunChanged \/ DismissTask \/ Retire \/ SendHeld
           \/ \E q \in Questions : BeginAnswer(q) \/ BeginDismiss(q)
  BY <1>8 DEF RunChanged, DismissTask, Retire, RemoveTask, SendHeld, BeginAnswer,
              BeginDismiss, BeginClose
<1>9. CASE UNCHANGED taskVars
  BY <1>9 DEF taskVars
<1>10. QED
  BY <1>1, <1>2, <1>3, <1>5, <1>6, <1>7, <1>8, <1>9
     DEF TaskNext, MainPlugin, Posted, FrontEnd

\* Whatever threads, timers, front ends and the end of the task do at once, every
\* question has one outcome, and it stands: Task implements Question.
THEOREM TaskImplementsQuestion == TaskSpec => OneOutcome
<1>1. Init => Promise!Init
  BY DEF Init, Promise!Init
<1>2. TypeOK /\ [TaskNext]_taskVars => [Promise!Next]_outcome
  BY OutcomeStep
<1>3. QED
  BY <1>1, <1>2, TaskTypes, PTL DEF TaskSpec, OneOutcome, Promise!Spec

-----------------------------------------------------------------------------
(* Invariants                                                              *)

\* What has become of the events: appending adds the new ones ...
LEMMA Appended ==
  ASSUME NEW s \in Seq(Events), NEW d \in Events
  PROVE  /\ \A i \in DOMAIN s : i \in DOMAIN Append(s, d) /\ Append(s, d)[i] = s[i]
         /\ \A i \in DOMAIN Append(s, d) :
              (i \in DOMAIN s /\ Append(s, d)[i] = s[i])
                \/ (i = Len(s) + 1 /\ Append(s, d)[i] = d)
         /\ Len(s) + 1 \in DOMAIN Append(s, d) /\ Append(s, d)[Len(s) + 1] = d
         /\ Len(s) + 1 \notin DOMAIN s
OBVIOUS

\* ... and taking the oldest moves the others.
LEMMA Taken ==
  ASSUME NEW s \in Seq(Events), s # <<>>
  PROVE  /\ \A i \in DOMAIN Tail(s) : i + 1 \in DOMAIN s /\ Tail(s)[i] = s[i + 1]
         /\ \A i \in DOMAIN s : i = 1 \/ (i - 1 \in DOMAIN Tail(s) /\ Tail(s)[i - 1] = s[i])
         /\ 1 \in DOMAIN s /\ s[1] = Head(s)
         /\ DOMAIN s \subseteq Int /\ DOMAIN Tail(s) \subseteq Int
OBVIOUS

\* An event stays while others come ...
LEMMA StaysPosted ==
  ASSUME TypeOK, NEW d \in Events, posted' = Append(posted, d), NEW e
  PROVE  /\ IsPosted(e) => IsPosted(e)'
         /\ IsPosted(e)' => IsPosted(e) \/ e = d
         /\ IsPosted(d)'
BY Appended DEF IsPosted, TypeOK

\* ... and until it is the oldest.
LEMMA PostedUntilRun ==
  ASSUME TypeOK, posted # <<>>, posted' = Tail(posted), NEW e
  PROVE  /\ IsPosted(e) /\ Head(posted) # e => IsPosted(e)'
         /\ IsPosted(e)' => IsPosted(e)
         /\ IsPosted(Head(posted))
<1>1. posted \in Seq(Events)
  BY DEF TypeOK
<1>2. IsPosted(Head(posted))
  BY <1>1, Taken, Zenon DEF IsPosted
<1>3. IsPosted(e)' => IsPosted(e)
  BY <1>1, Taken DEF IsPosted
<1>4. ASSUME IsPosted(e), Head(posted) # e
      PROVE  IsPosted(e)'
  BY <1>1, <1>4, Taken DEF IsPosted
<1>5. QED
  BY <1>2, <1>3, <1>4

\* finish() posts two.
LEMMA FinishPosts ==
  ASSUME TypeOK, posted' = posted \o <<Event("close"), Event("changed")>>, NEW e
  PROVE  /\ IsPosted(e) => IsPosted(e)'
         /\ IsPosted(e)' => IsPosted(e) \/ e = Event("close") \/ e = Event("changed")
         /\ IsPosted(Event("close"))' /\ IsPosted(Event("changed"))'
<1> DEFINE half == Append(posted, Event("close"))
           last == Event("changed")
<1>1. posted' = Append(half, last)
  BY DEF TypeOK
<1>2. posted \in Seq(Events) /\ half \in Seq(Events)
  BY EventTypes DEF TypeOK
<1>3. /\ \A i \in DOMAIN posted : i \in DOMAIN half /\ half[i] = posted[i]
      /\ \A i \in DOMAIN half :
           (i \in DOMAIN posted /\ half[i] = posted[i]) \/ half[i] = Event("close")
      /\ \E i \in DOMAIN half : half[i] = Event("close")
  BY <1>2, Appended, EventTypes
<1>4. last \in Events
  BY EventTypes
<1> HIDE DEF half, last
<1>5. /\ \A i \in DOMAIN half : i \in DOMAIN posted' /\ posted'[i] = half[i]
      /\ \A i \in DOMAIN posted' :
           (i \in DOMAIN half /\ posted'[i] = half[i]) \/ posted'[i] = last
      /\ \E i \in DOMAIN posted' : posted'[i] = last
  <2>1. /\ \A i \in DOMAIN half : i \in DOMAIN Append(half, last)
                                     /\ Append(half, last)[i] = half[i]
        /\ \A i \in DOMAIN Append(half, last) :
             (i \in DOMAIN half /\ Append(half, last)[i] = half[i])
               \/ Append(half, last)[i] = last
        /\ \E i \in DOMAIN Append(half, last) : Append(half, last)[i] = last
    <3>1. Len(half) + 1 \in DOMAIN Append(half, last) /\ Append(half, last)[Len(half) + 1] = last
      BY <1>2, <1>4, Appended
    <3>2. QED
      BY <1>2, <1>4, <3>1, Appended, Zenon
  <2>2. QED
    BY <1>1, <2>1, Zenon
<1>6. QED
  BY <1>3, <1>5, Zenon DEF IsPosted, last

\* The three kinds of events differ.
LEMMA EventsDiffer ==
  /\ Event("close") # Event("changed") /\ Event("close") # Event("delete")
  /\ Event("changed") # Event("delete")
  /\ \A q : AskEvent(q) \notin {Event("close"), Event("changed"), Event("delete")}
  /\ \A q, p : AskEvent(q) = AskEvent(p) => q = p
  /\ \A e \in Events : /\ e.kind = "ask" => e.q \in Questions /\ e = AskEvent(e.q)
                       /\ e.kind # "ask" => e = Event(e.kind)
BY DEF AskEvent, Event, Events

\* A thread is blocked or finishing, never both.
LEMMA ThreadKinds ==
  ASSUME TaskAssumption
  PROVE  Finishing \notin Questions /\ Free \notin Questions /\ NoQuestion \notin Questions
         /\ Finishing # Free
BY DEF TaskAssumption, Finishing, Free, NoQuestion, Questions

\* finish() runs once.
LEMMA FinishStep ==
  ASSUME TaskAssumption, TypeOK, OneFinishes, [TaskNext]_taskVars
  PROVE  OneFinishes'
<1> USE ThreadKinds DEF OneFinishes, Finished
<1>1. ASSUME NEW th \in Threads, Worker(th)
      PROVE  OneFinishes'
  <2>1. ASSUME NEW q \in Questions, AskBlocking(th, q)
        PROVE  OneFinishes'
    BY <2>1 DEF AskBlocking, TypeOK
  <2>2. ASSUME NEW ok \in BOOLEAN, FinishSet(th, ok)
        PROVE  OneFinishes'
    BY <2>2 DEF FinishSet, FinalState, TypeOK
  <2>3. CASE Return(th) \/ FinishTell(th)
    BY <2>3 DEF Return, FinishTell, TypeOK
  <2>4. CASE \E p \in 0 .. MaxProgress : SetProgress(th, p)
    BY <2>4 DEF SetProgress
  <2>5. QED
    BY <1>1, <2>1, <2>2, <2>3, <2>4 DEF Worker
<1>2. CASE \E ok \in BOOLEAN : FinishMain(ok)
  BY <1>2 DEF FinishMain, FinalState
<1>3. CASE \/ \E q \in Questions : AskMain(q) \/ BeginAnswer(q) \/ BeginDismiss(q)
           \/ Posted
  BY <1>3 DEF AskMain, BeginAnswer, BeginDismiss, BeginClose, Posted, RunAsk, RunClose,
              RunChanged, RunDelete
<1>4. CASE EndAnswer \/ EndDismiss \/ RequestCancel \/ DismissTask \/ Expire \/ SendHeld
           \/ Retire \/ Quit
  BY <1>4 DEF EndAnswer, EndDismiss, RequestCancel, DismissTask, Expire, SendHeld,
              Retire, RemoveTask, Quit
<1>5. CASE UNCHANGED taskVars
  BY <1>5 DEF taskVars
<1>6. QED
  BY <1>1, <1>2, <1>3, <1>4, <1>5 DEF TaskNext, MainPlugin, FrontEnd

\* What is open or waited for after closePrompt(): nothing more than before, not
\* the prompt, and none of those woken.
LEMMA Closing ==
  ASSUME TypeOK, NEW reason \in Reasons, NEW r \in {"values", "none"},
         NEW woken \in SUBSET waiters, ClosePrompt(reason, r, woken)
  PROVE  /\ prompt' = NoQuestion
         /\ waiters' = (waiters \ woken) \ {prompt}
         /\ \A q \in Questions :
              /\ outcome'[q] = "asked" =>
                   outcome[q] = "asked" /\ q # prompt /\ q \notin woken
              /\ outcome'[q] = "unasked" => outcome[q] = "unasked"
              /\ outcome[q] = "values" => outcome'[q] = "values"
              /\ outcome[q] # "asked" => outcome'[q] = outcome[q]
         /\ closed' = [q \in Questions |-> IF q = prompt THEN reason ELSE closed[q]]
BY DEF ClosePrompt, Complete, TypeOK

\* A question that is asked or refused.
LEMMA AskedOrRefused ==
  ASSUME TypeOK, NEW q \in Questions, Ask(q)
  PROVE  \/ /\ MayAsk /\ prompt' = q /\ waiters' = waiters
            /\ outcome' = [outcome EXCEPT ![q] = "asked"]
         \/ /\ prompt' = prompt /\ waiters' = waiters \ {q}
            /\ outcome' = [outcome EXCEPT ![q] = "none"]
BY DEF Ask

\* Which handlers close the prompt, as the lemma Closing needs it.
LEMMA Closers ==
  ASSUME \/ \E ok \in BOOLEAN : FinishMain(ok)
         \/ RunClose \/ RunDelete \/ EndAnswer \/ EndDismiss \/ RequestCancel \/ Expire
         \/ Quit /\ Cancel
  PROVE  \E reason \in Reasons, r \in {"values", "none"}, woken \in SUBSET waiters :
           /\ ClosePrompt(reason, r, woken)
           /\ (\E ok \in BOOLEAN : FinishMain(ok)) \/ RunDelete \/ Cancel
                => woken = waiters
           /\ reason = "Answered" => EndAnswer /\ r = "values" /\ woken = {}
BY DEF FinishMain, RunClose, RunDelete, EndAnswer, EndDismiss, RequestCancel, Expire,
       Cancel, Reasons

\* A task that is to be deleted stays out of the list, and deletion leaves nothing.
LEMMA GoneStep ==
  ASSUME TypeOK, Gone, [TaskNext]_taskVars
  PROVE  Gone'
<1> USE EventsDiffer DEF Gone
<1>1. ASSUME NEW th \in Threads, Worker(th)
      PROVE  Gone'
  <2>1. ASSUME NEW p \in 0 .. MaxProgress, SetProgress(th, p)
        PROVE  Gone'
    BY <2>1, StaysPosted, EventTypes DEF SetProgress
  <2>2. ASSUME NEW q \in Questions, AskBlocking(th, q)
        PROVE  Gone'
    <3>1. CASE posted' = Append(posted, AskEvent(q))
      BY <2>2, <3>1, StaysPosted, EventTypes DEF AskBlocking
    <3>2. CASE UNCHANGED <<waiters, thread, posted>>
      BY <2>2, <3>2 DEF AskBlocking, IsPosted
    <3>3. QED
      BY <2>2, <3>1, <3>2 DEF AskBlocking
  <2>3. CASE FinishTell(th)
    <3>1. CASE alive
      BY <2>3, <3>1, FinishPosts DEF FinishTell
    <3>2. CASE ~alive
      BY <2>3, <3>2 DEF FinishTell, IsPosted
    <3>3. QED
      BY <3>1, <3>2
  <2>4. CASE Return(th) \/ \E ok \in BOOLEAN : FinishSet(th, ok)
    BY <2>4 DEF Return, FinishSet, IsPosted
  <2>5. QED
    BY <1>1, <2>1, <2>2, <2>3, <2>4 DEF Worker
<1>2. CASE RunAsk \/ RunClose \/ RunChanged
  <2>1. posted # <<>> /\ posted' = Tail(posted) /\ alive /\ alive' = alive /\ listed' = listed
    BY <1>2 DEF RunAsk, RunClose, RunChanged, HeadIs
  <2>2. QED
    BY <2>1, PostedUntilRun
<1>3. CASE RunDelete
  <2>1. IsPosted(Event("delete"))
    <3>1. posted # <<>> /\ Head(posted) \in Events /\ Head(posted).kind = "delete"
      BY <1>3 DEF RunDelete, HeadIs, TypeOK
    <3>2. posted \in Seq(Events) /\ Head(posted) = Event("delete")
      BY <3>1, EventsDiffer DEF TypeOK
    <3>3. QED
      BY <3>1, <3>2, Taken, Zenon DEF IsPosted
  <2>2. ~IsPosted(Event("delete"))'
    BY <1>3 DEF RunDelete, IsPosted
  <2>3. waiters' = {} /\ prompt' = NoQuestion /\ posted' = <<>> /\ ~listed'
    BY <1>3, <2>1 DEF RunDelete, ClosePrompt
  <2>4. QED
    BY <2>2, <2>3
<1>4. CASE DismissTask \/ Retire
  BY <1>4, StaysPosted, EventTypes DEF DismissTask, Retire, RemoveTask
<1>5. ASSUME NEW q \in Questions, AskMain(q)
      PROVE  Gone'
  BY <1>5 DEF AskMain, IsPosted
<1>6. CASE \/ \E ok \in BOOLEAN : FinishMain(ok)
           \/ EndAnswer \/ EndDismiss \/ RequestCancel \/ Expire
  <2>1. UNCHANGED <<posted, listed, alive>>
    BY <1>6 DEF FinishMain, EndAnswer, EndDismiss, RequestCancel, Expire
  <2>2. prompt' = NoQuestion /\ waiters' \subseteq waiters
    BY <1>6 DEF FinishMain, EndAnswer, EndDismiss, RequestCancel, Expire, Cancel,
                ClosePrompt
  <2>3. QED
    BY <2>1, <2>2 DEF IsPosted
<1>7. CASE \/ \E q \in Questions : BeginAnswer(q) \/ BeginDismiss(q)
           \/ SendHeld
  BY <1>7 DEF BeginAnswer, BeginDismiss, BeginClose, SendHeld, IsPosted
<1>8. CASE Quit
  BY <1>8 DEF Quit, Cancel, ClosePrompt, IsPosted
<1>9. CASE UNCHANGED taskVars
  BY <1>9 DEF taskVars, IsPosted
<1>10. QED
  BY <1>1, <1>2, <1>3, <1>4, <1>5, <1>6, <1>7, <1>8, <1>9, Zenon
     DEF TaskNext, MainPlugin, Posted, FrontEnd

\* Nobody waits out of reach.
LEMMA ReachableStep ==
  ASSUME TaskAssumption, TypeOK, Reachable, [TaskNext]_taskVars
  PROVE  Reachable'
<1> USE DEF Reachable
<1>1. ASSUME NEW th \in Threads, Worker(th)
      PROVE  Reachable'
  <2>1. ASSUME NEW q \in Questions, AskBlocking(th, q)
        PROVE  Reachable'
    BY <2>1 DEF AskBlocking, TypeOK
  <2>2. CASE FinishTell(th)
    BY <2>2 DEF FinishTell, Complete, TypeOK
  <2>3. CASE \/ \E p \in 0 .. MaxProgress : SetProgress(th, p)
             \/ Return(th) \/ \E ok \in BOOLEAN : FinishSet(th, ok)
    BY <2>3 DEF SetProgress, Return, FinishSet
  <2>4. QED
    BY <1>1, <2>1, <2>2, <2>3 DEF Worker
<1>2. ASSUME NEW q \in Questions, Ask(q)
      PROVE  Reachable'
  BY <1>2, AskedOrRefused, ThreadKinds DEF MayAsk, TypeOK
<1>3. CASE RunAsk
  <2>1. Head(posted).q \in Questions
    BY <1>3 DEF RunAsk, HeadIs, Events, TypeOK
  <2>2. QED
    BY <1>2, <1>3, <2>1 DEF RunAsk
<1>4. CASE \/ \E ok \in BOOLEAN : FinishMain(ok)
           \/ RunClose \/ RunDelete \/ EndAnswer \/ EndDismiss \/ RequestCancel \/ Expire
           \/ Quit /\ Cancel
  <2>1. PICK reason \in Reasons, r \in {"values", "none"}, woken \in SUBSET waiters :
          ClosePrompt(reason, r, woken)
    BY <1>4, Closers
  <2>2. QED
    BY <2>1, Closing
<1>5. CASE \/ \E q \in Questions : BeginAnswer(q) \/ BeginDismiss(q)
           \/ RunChanged \/ DismissTask \/ SendHeld \/ Retire
  BY <1>5 DEF BeginAnswer, BeginDismiss, BeginClose, RunChanged, DismissTask, SendHeld,
              Retire, RemoveTask
<1>6. CASE Quit
  BY <1>4, <1>6 DEF Quit
<1>7. CASE UNCHANGED taskVars
  BY <1>7 DEF taskVars
<1>8. QED
  BY <1>1, <1>2, <1>3, <1>4, <1>5, <1>6, <1>7, Zenon
     DEF TaskNext, MainPlugin, Posted, FrontEnd, AskMain

\* The event that closes a prompt is not lost.
LEMMA CloseStays ==
  ASSUME TypeOK, [TaskNext]_taskVars, IsPosted(Event("close"))
  PROVE  IsPosted(Event("close"))' \/ prompt' = NoQuestion
<1> USE EventsDiffer
<1>1. ASSUME NEW th \in Threads, Worker(th)
      PROVE  IsPosted(Event("close"))'
  <2>1. ASSUME NEW d \in Events, posted' = Append(posted, d)
        PROVE  IsPosted(Event("close"))'
    BY <2>1, StaysPosted
  <2>2. ASSUME posted' = posted \o <<Event("close"), Event("changed")>>
        PROVE  IsPosted(Event("close"))'
    BY <2>2, FinishPosts
  <2>3. ASSUME posted' = posted
        PROVE  IsPosted(Event("close"))'
    BY <2>3 DEF IsPosted
  <2>4. \/ posted' = posted \/ \E d \in Events : posted' = Append(posted, d)
        \/ posted' = posted \o <<Event("close"), Event("changed")>>
    BY <1>1, EventTypes DEF Worker, SetProgress, AskBlocking, Return, FinishSet, FinishTell
  <2>5. QED
    BY <2>1, <2>2, <2>3, <2>4
<1>2. CASE RunAsk \/ RunChanged
  <2>1. posted # <<>> /\ posted' = Tail(posted) /\ Head(posted) # Event("close")
    BY <1>2 DEF RunAsk, RunChanged, HeadIs, Event
  <2>2. QED
    BY <2>1, PostedUntilRun
<1>3. CASE RunClose \/ RunDelete
  BY <1>3 DEF RunClose, RunDelete, ClosePrompt
<1>4. CASE DismissTask \/ Retire
  BY <1>4, StaysPosted, EventTypes DEF DismissTask, Retire, RemoveTask
<1>5. CASE \/ \E q \in Questions : AskMain(q) \/ BeginAnswer(q) \/ BeginDismiss(q)
           \/ \E ok \in BOOLEAN : FinishMain(ok)
           \/ EndAnswer \/ EndDismiss \/ RequestCancel \/ Expire \/ SendHeld \/ Quit
  BY <1>5 DEF AskMain, BeginAnswer, BeginDismiss, BeginClose, FinishMain, EndAnswer,
              EndDismiss, RequestCancel, Expire, SendHeld, Quit, IsPosted
<1>6. CASE UNCHANGED taskVars
  BY <1>6 DEF taskVars, IsPosted
<1>7. QED
  BY <1>1, <1>2, <1>3, <1>4, <1>5, <1>6, Zenon
     DEF TaskNext, MainPlugin, Posted, FrontEnd

\* After a cancellation, or the end, nothing opens and nobody begins to wait.
LEMMA EndedStep ==
  ASSUME TypeOK, OneFinishes, Gone, Ended, [TaskNext]_taskVars
  PROVE  Ended'
<1>1. ASSUME NEW th \in Threads, Worker(th)
      PROVE  Ended'
  <2>1. ASSUME NEW q \in Questions, AskBlocking(th, q)
        PROVE  Ended'
    <3>1. UNCHANGED <<cancel, state, prompt>> /\ (Finished \/ cancel => waiters' = waiters)
      BY <2>1 DEF AskBlocking
    <3>2. SomeoneFinishing' <=> SomeoneFinishing
      BY <2>1, ThreadKinds, TaskAssumption DEF AskBlocking, SomeoneFinishing, TypeOK
    <3>3. QED
      BY <3>1, <3>2, CloseStays DEF Ended, Finished
  <2>2. ASSUME NEW ok \in BOOLEAN, FinishSet(th, ok)
        PROVE  Ended'
    BY <2>2 DEF FinishSet, SomeoneFinishing, Ended, TypeOK
  <2>3. CASE FinishTell(th)
    <3>1. UNCHANGED <<cancel, state, prompt>> /\ waiters' = {}
      BY <2>3 DEF FinishTell, Gone
    <3>2. IsPosted(Event("close"))' \/ prompt = NoQuestion
      BY <2>3, FinishPosts DEF FinishTell, Gone
    <3>3. QED
      BY <3>1, <3>2 DEF Ended
  <2>4. CASE \/ \E p \in 0 .. MaxProgress : SetProgress(th, p)
             \/ Return(th)
    <3>1. UNCHANGED <<cancel, state, prompt, waiters>>
      BY <2>4 DEF SetProgress, Return
    <3>2. SomeoneFinishing' <=> SomeoneFinishing
      BY <2>4, ThreadKinds, TaskAssumption
         DEF SetProgress, Return, Blocked, SomeoneFinishing, TypeOK
    <3>3. QED
      BY <3>1, <3>2, CloseStays DEF Ended, Finished
  <2>5. QED
    BY <1>1, <2>1, <2>2, <2>3, <2>4 DEF Worker
<1>2. ASSUME NEW q \in Questions, Ask(q), UNCHANGED <<cancel, state, thread>>
      PROVE  Ended'
  <2>1. Finished \/ cancel => prompt' = prompt /\ waiters' \subseteq waiters
    BY <1>2, AskedOrRefused DEF MayAsk
  <2>2. QED
    BY <1>2, <2>1, CloseStays DEF Ended, Finished, SomeoneFinishing
<1>3. CASE RunAsk
  <2>1. Head(posted).q \in Questions
    BY <1>3 DEF RunAsk, HeadIs, Events, TypeOK
  <2>2. CASE Ask(Head(posted).q)
    BY <1>2, <1>3, <2>1, <2>2 DEF RunAsk
  <2>3. CASE UNCHANGED <<prompt, outcome, waiters>>
    BY <1>3, <2>3, CloseStays DEF RunAsk, Ended, Finished, SomeoneFinishing
  <2>4. QED
    BY <1>3, <2>2, <2>3 DEF RunAsk
<1>4. CASE \/ \E ok \in BOOLEAN : FinishMain(ok)
           \/ RunClose \/ RunDelete \/ EndAnswer \/ EndDismiss \/ RequestCancel \/ Expire
           \/ Quit /\ Cancel
  <2>1. PICK reason \in Reasons, r \in {"values", "none"}, woken \in SUBSET waiters :
          /\ ClosePrompt(reason, r, woken)
          /\ (\E ok \in BOOLEAN : FinishMain(ok)) \/ RunDelete \/ Cancel => woken = waiters
    BY <1>4, Closers
  <2>2. prompt' = NoQuestion /\ waiters' \subseteq waiters
    BY <2>1, Closing
  <2>3. CASE (\E ok \in BOOLEAN : FinishMain(ok)) \/ RunDelete \/ Cancel
    BY <2>1, <2>2, <2>3, Closing DEF Ended
  <2>4. CASE RunClose \/ EndAnswer \/ EndDismiss \/ Expire
    BY <2>2, <2>4 DEF RunClose, EndAnswer, EndDismiss, Expire, Ended, Finished,
                      SomeoneFinishing
  <2>5. QED
    BY <1>4, <2>3, <2>4 DEF RequestCancel
<1>5. CASE \/ \E q \in Questions : BeginAnswer(q) \/ BeginDismiss(q)
           \/ RunChanged \/ DismissTask \/ SendHeld \/ Retire
  <2>1. UNCHANGED <<cancel, state, prompt, waiters, thread>>
    BY <1>5 DEF BeginAnswer, BeginDismiss, BeginClose, RunChanged, DismissTask, SendHeld,
                Retire, RemoveTask
  <2>2. QED
    BY <2>1, CloseStays DEF Ended, Finished, SomeoneFinishing
<1>6. CASE Quit
  <2>1. CASE UNCHANGED <<cancel, prompt, closed, waiters, outcome>>
    BY <1>6, <2>1, CloseStays DEF Quit, Ended, Finished, SomeoneFinishing
  <2>2. QED
    BY <1>4, <1>6, <2>1 DEF Quit
<1>7. CASE UNCHANGED taskVars
  BY <1>7 DEF taskVars, Ended, Finished, SomeoneFinishing, IsPosted
<1>8. QED
  BY <1>1, <1>2, <1>3, <1>4, <1>5, <1>6, <1>7, Zenon
     DEF TaskNext, MainPlugin, Posted, FrontEnd, AskMain

\* A question that has been asked stays asked.
LEMMA AskedStays ==
  ASSUME TypeOK, [TaskNext]_taskVars, NEW q \in Questions, outcome[q] # "unasked"
  PROVE  outcome'[q] # "unasked"
BY OutcomeStep
   DEF Promise!Next, Promise!Ask, Promise!Answer, Promise!Refuse, Promise!GiveUp,
       Promise!Become, TypeOK

\* A prompt opens for a question asked on the main thread, or for the oldest call
\* of a blocking one.
LEMMA Opens ==
  ASSUME TypeOK, [TaskNext]_taskVars
  PROVE  \/ prompt' = prompt \/ prompt' = NoQuestion
         \/ \E q \in Questions :
              /\ prompt' = q /\ outcome' = [outcome EXCEPT ![q] = "asked"]
              /\ \/ outcome[q] = "unasked" /\ posted' = posted
                 \/ /\ posted # <<>> /\ posted' = Tail(posted)
                    /\ Head(posted) = AskEvent(q) /\ outcome[q] = "asked"
<1> DEFINE Goal ==
        \/ prompt' = prompt \/ prompt' = NoQuestion
        \/ \E q \in Questions :
             /\ prompt' = q /\ outcome' = [outcome EXCEPT ![q] = "asked"]
             /\ \/ outcome[q] = "unasked" /\ posted' = posted
                \/ /\ posted # <<>> /\ posted' = Tail(posted)
                   /\ Head(posted) = AskEvent(q) /\ outcome[q] = "asked"
<1>1. ASSUME NEW q \in Questions, AskMain(q)
      PROVE  Goal
  BY <1>1, AskedOrRefused DEF AskMain, Unasked
<1>2. CASE RunAsk
  <2>1. /\ posted # <<>> /\ posted' = Tail(posted)
        /\ Head(posted) \in Events /\ Head(posted).kind = "ask"
    BY <1>2 DEF RunAsk, HeadIs, TypeOK
  <2>2. Head(posted).q \in Questions /\ Head(posted) = AskEvent(Head(posted).q)
    BY <2>1, EventsDiffer
  <2>3. QED
    BY <1>2, <2>1, <2>2, AskedOrRefused DEF RunAsk
<1>3. ASSUME NEW th \in Threads, Worker(th)
      PROVE  prompt' = prompt
  BY <1>3 DEF Worker, SetProgress, AskBlocking, Return, FinishSet, FinishTell
<1>4. CASE \/ \E ok \in BOOLEAN : FinishMain(ok)
           \/ RunClose \/ RunDelete \/ EndAnswer \/ EndDismiss \/ RequestCancel \/ Expire
  BY <1>4, Zenon DEF FinishMain, RunClose, RunDelete, EndAnswer, EndDismiss,
                     RequestCancel, Cancel, Expire, ClosePrompt
<1>5. CASE \/ \E q \in Questions : BeginAnswer(q) \/ BeginDismiss(q)
           \/ RunChanged \/ DismissTask \/ SendHeld \/ Retire \/ UNCHANGED taskVars
  BY <1>5 DEF BeginAnswer, BeginDismiss, BeginClose, RunChanged, DismissTask, SendHeld,
              Retire, RemoveTask, taskVars
<1>6. CASE Quit
  BY <1>6 DEF Quit, Cancel, ClosePrompt
<1>7. QED
  BY <1>1, <1>2, <1>3, <1>4, <1>5, <1>6, Zenon
     DEF TaskNext, MainPlugin, Posted, FrontEnd

\* How a step changes the posted events.
LEMMA PostedStep ==
  ASSUME TypeOK, [TaskNext]_taskVars
  PROVE  \/ posted' = posted \/ posted' = <<>>
         \/ posted # <<>> /\ posted' = Tail(posted)
         \/ posted' = posted \o <<Event("close"), Event("changed")>>
         \/ posted' = Append(posted, Event("changed"))
         \/ posted' = Append(posted, Event("delete"))
         \/ \E q \in Questions :
              /\ outcome[q] = "unasked" /\ prompt' = prompt
              /\ outcome' = [outcome EXCEPT ![q] = "asked"]
              /\ posted' = Append(posted, AskEvent(q))
<1>1. ASSUME NEW th \in Threads, Worker(th)
      PROVE  \/ posted' = posted
             \/ posted' = posted \o <<Event("close"), Event("changed")>>
             \/ posted' = Append(posted, Event("changed"))
             \/ \E q \in Questions :
                  /\ outcome[q] = "unasked" /\ prompt' = prompt
                  /\ outcome' = [outcome EXCEPT ![q] = "asked"]
                  /\ posted' = Append(posted, AskEvent(q))
  BY <1>1 DEF Worker, SetProgress, AskBlocking, Unasked, Return, FinishSet, FinishTell
<1>2. CASE RunAsk \/ RunClose \/ RunChanged \/ RunDelete
  BY <1>2 DEF RunAsk, RunClose, RunChanged, RunDelete, HeadIs
<1>3. CASE DismissTask \/ Retire
  BY <1>3 DEF DismissTask, Retire, RemoveTask
<1>4. CASE \/ \E q \in Questions : AskMain(q) \/ BeginAnswer(q) \/ BeginDismiss(q)
           \/ \E ok \in BOOLEAN : FinishMain(ok)
           \/ EndAnswer \/ EndDismiss \/ RequestCancel \/ Expire \/ SendHeld \/ Quit
           \/ UNCHANGED taskVars
  BY <1>4 DEF AskMain, BeginAnswer, BeginDismiss, BeginClose, FinishMain, EndAnswer,
              EndDismiss, RequestCancel, Expire, SendHeld, Quit, taskVars
<1>5. QED
  BY <1>1, <1>2, <1>3, <1>4, Zenon DEF TaskNext, MainPlugin, Posted, FrontEnd

\* No second call of a question is posted, and none for an open prompt.
LEMMA AskedOnceStep ==
  ASSUME TaskAssumption, TypeOK, PromptAsked, AskedOnce, [TaskNext]_taskVars
  PROVE  AskedOnce'
<1> SUFFICES ASSUME NEW q \in Questions
             PROVE  /\ IsPosted(AskEvent(q))' => outcome'[q] # "unasked" /\ q # prompt'
                    /\ \A i, j \in DOMAIN posted' :
                         posted'[i] = AskEvent(q) /\ posted'[j] = AskEvent(q) => i = j
  BY DEF AskedOnce
<1> DEFINE e == AskEvent(q)
<1>1. e \in Events /\ e \notin {Event("close"), Event("changed"), Event("delete")}
      /\ \A p : e = AskEvent(p) => p = q
  BY EventTypes, EventsDiffer
<1>2. \A i, j \in DOMAIN posted : posted[i] = e /\ posted[j] = e => i = j
  BY DEF AskedOnce
<1>3. IsPosted(e)' => IsPosted(e) \/ (outcome[q] = "unasked" /\ outcome'[q] # "unasked"
                                        /\ prompt' = prompt)
  <2>1. ASSUME NEW d \in Events, d # e, posted' = Append(posted, d)
        PROVE  IsPosted(e)' => IsPosted(e)
    BY <2>1, StaysPosted
  <2>2. ASSUME NEW p \in Questions, outcome[p] = "unasked", prompt' = prompt,
               outcome' = [outcome EXCEPT ![p] = "asked"],
               posted' = Append(posted, AskEvent(p))
        PROVE  IsPosted(e)' => IsPosted(e) \/ (outcome[q] = "unasked"
                                    /\ outcome'[q] # "unasked" /\ prompt' = prompt)
    BY <1>1, <2>2, StaysPosted, EventTypes DEF TypeOK
  <2>3. ASSUME posted' = posted \o <<Event("close"), Event("changed")>>
        PROVE  IsPosted(e)' => IsPosted(e)
    BY <1>1, <2>3, FinishPosts
  <2>4. ASSUME posted # <<>> /\ posted' = Tail(posted)
        PROVE  IsPosted(e)' => IsPosted(e)
    BY <2>4, PostedUntilRun
  <2>5. ASSUME posted' = posted \/ posted' = <<>>
        PROVE  IsPosted(e)' => IsPosted(e)
    BY <2>5 DEF IsPosted
  <2>6. QED
    BY <1>1, <2>1, <2>2, <2>3, <2>4, <2>5, PostedStep, EventTypes
<1>4. IsPosted(e)' => outcome'[q] # "unasked"
  BY <1>3, AskedStays DEF AskedOnce
<1>5. IsPosted(e)' => q # prompt'
  <2>1. CASE prompt' = prompt \/ prompt' = NoQuestion
    BY <1>3, <2>1, ThreadKinds DEF AskedOnce, PromptAsked
  <2>2. ASSUME NEW p \in Questions, prompt' = p, outcome[p] = "unasked", posted' = posted
        PROVE  IsPosted(e)' => q # p
    BY <2>2 DEF AskedOnce, IsPosted
  <2>3. ASSUME NEW p \in Questions, prompt' = p, posted # <<>>, posted' = Tail(posted),
               Head(posted) = AskEvent(p)
        PROVE  IsPosted(e)' => q # p
    <3>1. posted \in Seq(Events)
      BY DEF TypeOK
    <3>2. ASSUME NEW i \in DOMAIN Tail(posted), Tail(posted)[i] = e, q = p
          PROVE  FALSE
      <4>1. i + 1 \in DOMAIN posted /\ posted[i + 1] = e /\ i \in DOMAIN posted
            /\ 1 \in DOMAIN posted /\ posted[1] = e
        BY <2>3, <3>1, <3>2, Taken
      <4>2. i + 1 = 1
        BY <1>2, <4>1
      <4>3. QED
        BY <2>3, <3>1, <3>2, <4>2
    <3>3. QED
      BY <2>3, <3>2 DEF IsPosted
  <2>4. QED
    BY <2>1, <2>2, <2>3, Opens
<1>6. \A i, j \in DOMAIN posted' : posted'[i] = e /\ posted'[j] = e => i = j
  <2>1. ASSUME NEW d \in Events, d # e, posted' = Append(posted, d)
        PROVE  \A i, j \in DOMAIN posted' : posted'[i] = e /\ posted'[j] = e => i = j
    BY <1>2, <2>1, Appended DEF TypeOK
  <2>2. ASSUME outcome[q] = "unasked", posted' = Append(posted, e)
        PROVE  \A i, j \in DOMAIN posted' : posted'[i] = e /\ posted'[j] = e => i = j
    <3>1. ~IsPosted(e)
      BY <2>2 DEF AskedOnce
    <3>2. QED
      BY <1>1, <2>2, <3>1, Appended DEF IsPosted, TypeOK
  <2>3. ASSUME posted' = posted \o <<Event("close"), Event("changed")>>
        PROVE  \A i, j \in DOMAIN posted' : posted'[i] = e /\ posted'[j] = e => i = j
    <3>1. \A i \in DOMAIN posted' :
             \/ i \in DOMAIN posted /\ posted'[i] = posted[i]
             \/ posted'[i] = Event("close") \/ posted'[i] = Event("changed")
      BY <2>3 DEF TypeOK
    <3>2. QED
      BY <1>1, <1>2, <3>1
  <2>4. ASSUME posted # <<>> /\ posted' = Tail(posted)
        PROVE  \A i, j \in DOMAIN posted' : posted'[i] = e /\ posted'[j] = e => i = j
    BY <1>2, <2>4, Taken DEF TypeOK
  <2>5. ASSUME posted' = posted \/ posted' = <<>>
        PROVE  \A i, j \in DOMAIN posted' : posted'[i] = e /\ posted'[j] = e => i = j
    BY <1>2, <2>5
  <2>6. QED
    BY <1>1, <2>1, <2>2, <2>3, <2>4, <2>5, PostedStep, EventTypes
<1>7. QED
  BY <1>4, <1>5, <1>6

\* A step undoes neither the end nor the cancellation.
LEMMA EndStays ==
  ASSUME TypeOK, [TaskNext]_taskVars
  PROVE  (Finished => Finished') /\ (cancel => cancel')
<1>1. ASSUME NEW th \in Threads, Worker(th)
      PROVE  (Finished => Finished') /\ (cancel => cancel')
  BY <1>1 DEF Worker, SetProgress, AskBlocking, Return, FinishSet, FinishTell, Finished
<1>2. CASE \/ \E q \in Questions : AskMain(q) \/ BeginAnswer(q) \/ BeginDismiss(q)
           \/ \E ok \in BOOLEAN : FinishMain(ok)
           \/ RunAsk \/ RunClose \/ RunChanged \/ RunDelete
  BY <1>2 DEF AskMain, BeginAnswer, BeginDismiss, BeginClose, FinishMain, RunAsk,
              RunClose, RunChanged, RunDelete, Finished
<1>3. CASE EndAnswer \/ EndDismiss \/ RequestCancel \/ DismissTask \/ Expire \/ SendHeld
           \/ Retire \/ UNCHANGED taskVars
  BY <1>3 DEF EndAnswer, EndDismiss, RequestCancel, Cancel, DismissTask, Expire, SendHeld,
              Retire, RemoveTask, Finished, taskVars
<1>4. CASE Quit
  BY <1>4 DEF Quit, Cancel, Finished
<1>5. QED
  BY <1>1, <1>2, <1>3, <1>4, Zenon DEF TaskNext, MainPlugin, Posted, FrontEnd

\* Tasks that go on are kept.
LEMMA RetiredStep ==
  ASSUME TypeOK, Retired, [TaskNext]_taskVars
  PROVE  Retired'
<1>1. Finished => Finished'
  BY EndStays
<1>2. ASSUME Changed \/ Unchanged, listed' = listed
      PROVE  Retired'
  BY <1>1, <1>2, Zenon DEF Changed, Unchanged, Retired
<1>3. ASSUME NEW th \in Threads, Worker(th)
      PROVE  Retired'
  <2>1. UNCHANGED <<removal, listed>>
    BY <1>3 DEF Worker, SetProgress, AskBlocking, Return, FinishSet, FinishTell
  <2>2. QED
    BY <1>1, <2>1 DEF Retired
<1>4. CASE \/ \E q \in Questions : AskMain(q)
           \/ \E ok \in BOOLEAN : FinishMain(ok)
           \/ RunAsk \/ RunClose \/ RunChanged \/ RunDelete
           \/ EndAnswer \/ EndDismiss \/ RequestCancel \/ Expire
  <2>1. (Changed \/ Unchanged) /\ listed' = listed
    BY <1>4 DEF AskMain, Ask, FinishMain, RunAsk, RunClose, RunChanged, RunDelete,
                EndAnswer, EndDismiss, RequestCancel, Cancel, Expire
  <2>2. QED
    BY <1>2, <2>1
<1>5. CASE DismissTask \/ Retire
  BY <1>1, <1>5 DEF DismissTask, Retire, RemoveTask, Retired
<1>6. CASE \/ \E q \in Questions : BeginAnswer(q) \/ BeginDismiss(q)
           \/ SendHeld \/ UNCHANGED taskVars
  <2>1. UNCHANGED <<removal, listed>>
    BY <1>6 DEF BeginAnswer, BeginDismiss, BeginClose, SendHeld, taskVars
  <2>2. QED
    BY <1>1, <2>1 DEF Retired
<1>7. CASE Quit
  <2>1. (Changed \/ Unchanged) /\ listed' = listed
    BY <1>7 DEF Quit, Cancel
  <2>2. QED
    BY <1>2, <2>1
<1>8. QED
  BY <1>3, <1>4, <1>5, <1>6, <1>7, Zenon DEF TaskNext, MainPlugin, Posted, FrontEnd

\* While the task goes on, an asked question changes only when it is closed, or when
\* its own call is run and refused.
LEMMA OutcomeKept ==
  ASSUME TypeOK, OneFinishes, Gone, Retired, [TaskNext]_taskVars, ~Finished', ~cancel',
         NEW q \in Questions, outcome[q] # "unasked"
  PROVE  \/ outcome'[q] = outcome[q]
         \/ q = prompt /\ prompt' = NoQuestion /\ outcome[q] = "asked"
         \/ IsPosted(AskEvent(q)) /\ outcome[q] = "asked"
<1>1. ~Finished /\ ~cancel
  BY EndStays
<1>2. ASSUME NEW th \in Threads, Worker(th)
      PROVE  outcome'[q] = outcome[q]
  <2>1. ASSUME NEW p \in Questions, AskBlocking(th, p)
        PROVE  outcome'[q] = outcome[q]
    BY <2>1 DEF AskBlocking, Unasked, TypeOK
  <2>2. CASE FinishTell(th)
    BY <1>1, <2>2 DEF FinishTell, OneFinishes
  <2>3. CASE \/ \E p \in 0 .. MaxProgress : SetProgress(th, p)
             \/ Return(th) \/ \E ok \in BOOLEAN : FinishSet(th, ok)
    BY <2>3 DEF SetProgress, Return, FinishSet
  <2>4. QED
    BY <1>2, <2>1, <2>2, <2>3 DEF Worker
<1>3. ASSUME NEW p \in Questions, AskMain(p)
      PROVE  outcome'[q] = outcome[q]
  BY <1>3 DEF AskMain, Ask, Unasked, TypeOK
<1>4. CASE RunAsk
  <2>1. /\ posted \in Seq(Events) /\ posted # <<>>
        /\ Head(posted) \in Events /\ Head(posted).kind = "ask"
    BY <1>4 DEF RunAsk, HeadIs, TypeOK
  <2>2. Head(posted).q \in Questions /\ Head(posted) = AskEvent(Head(posted).q)
    BY <2>1, EventsDiffer
  <2>3. IsPosted(AskEvent(Head(posted).q))
    BY <2>1, <2>2, Taken, Zenon DEF IsPosted
  <2>4. QED
    BY <1>4, <2>2, <2>3 DEF RunAsk, Ask, TypeOK
<1>5. CASE \/ \E ok \in BOOLEAN : FinishMain(ok)
           \/ RunDelete \/ RequestCancel
           \/ RunClose \/ EndAnswer \/ EndDismiss \/ Expire
  <2>1. CASE RunClose \/ EndAnswer \/ EndDismiss \/ Expire
    BY <2>1 DEF RunClose, EndAnswer, EndDismiss, Expire, ClosePrompt, Complete, TypeOK
  <2>2. CASE (\E ok \in BOOLEAN : FinishMain(ok)) \/ RequestCancel
    BY <1>1, <2>2 DEF FinishMain, FinalState, RequestCancel, Cancel, Finished
  <2>3. CASE RunDelete
    <3>1. /\ posted \in Seq(Events) /\ posted # <<>>
          /\ Head(posted) \in Events /\ Head(posted).kind = "delete"
      BY <2>3 DEF RunDelete, HeadIs, TypeOK
    <3>2. IsPosted(Head(posted)) /\ Head(posted) = Event("delete")
      BY <3>1, EventsDiffer, Taken, Zenon DEF IsPosted
    <3>3. QED
      BY <1>1, <3>2 DEF Gone, Retired
  <2>4. QED
    BY <1>5, <2>1, <2>2, <2>3
<1>6. CASE \/ \E p \in Questions : BeginAnswer(p) \/ BeginDismiss(p)
           \/ RunChanged \/ DismissTask \/ SendHeld \/ Retire \/ UNCHANGED taskVars
  BY <1>6 DEF BeginAnswer, BeginDismiss, BeginClose, RunChanged, DismissTask, SendHeld,
              Retire, RemoveTask, taskVars
<1>7. CASE Quit
  BY <1>7 DEF Quit, Cancel
<1>8. QED
  BY <1>2, <1>3, <1>4, <1>5, <1>6, <1>7, Zenon
     DEF TaskNext, MainPlugin, Posted, FrontEnd

\* The open prompt keeps its asker.
LEMMA PromptAskedStep ==
  ASSUME TaskAssumption, TypeOK, OneFinishes, Gone, Retired, PromptAsked, AskedOnce,
         [TaskNext]_taskVars
  PROVE  PromptAsked'
<1>1. CASE prompt' = prompt
  <2>1. SUFFICES ASSUME prompt # NoQuestion
                 PROVE  /\ outcome'[prompt] # "unasked"
                        /\ ~Finished' /\ ~cancel' => outcome'[prompt] = "asked"
    BY <1>1 DEF PromptAsked, Finished
  <2>2. prompt \in Questions /\ outcome[prompt] # "unasked"
    BY <2>1 DEF PromptAsked, TypeOK
  <2>3. outcome'[prompt] # "unasked"
    BY <2>2, AskedStays
  <2>4. ASSUME ~Finished', ~cancel'
        PROVE  outcome'[prompt] = "asked"
    <3>1. ~IsPosted(AskEvent(prompt))
      BY <2>2 DEF AskedOnce
    <3>2. outcome[prompt] = "asked"
      BY <2>1, <2>4, EndStays DEF PromptAsked
    <3>3. QED
      BY <1>1, <2>1, <2>2, <2>4, <3>1, <3>2, OutcomeKept
  <2>5. QED
    BY <2>3, <2>4
<1>2. CASE prompt' = NoQuestion
  BY <1>2 DEF PromptAsked
<1>3. ASSUME NEW q \in Questions, prompt' = q, outcome' = [outcome EXCEPT ![q] = "asked"]
      PROVE  PromptAsked'
  BY <1>3 DEF PromptAsked, TypeOK
<1>4. QED
  BY <1>1, <1>2, <1>3, Opens

\* Only an answer closes a question as answered.
LEMMA AnsweredBy ==
  ASSUME TypeOK, [TaskNext]_taskVars, NEW q \in Questions,
         closed'[q] = "Answered", closed[q] # "Answered"
  PROVE  /\ EndAnswer /\ q = prompt
         /\ outcome'[q] = Complete(q, "values")
<1>1. ASSUME NEW reason, NEW r, NEW woken, ClosePrompt(reason, r, woken),
             reason # "Answered"
      PROVE  FALSE
  BY <1>1 DEF ClosePrompt, TypeOK
<1>2. ASSUME NEW th \in Threads, Worker(th)
      PROVE  closed' = closed
  BY <1>2 DEF Worker, SetProgress, AskBlocking, Return, FinishSet, FinishTell
<1>3. ~(\/ \E ok \in BOOLEAN : FinishMain(ok)
        \/ RunClose \/ RunDelete \/ EndDismiss \/ RequestCancel \/ Expire)
  BY <1>1 DEF FinishMain, RunClose, RunDelete, EndDismiss, RequestCancel, Cancel, Expire
<1>4. ~Quit
  BY <1>1 DEF Quit, Cancel
<1>5. ASSUME \/ \E p \in Questions : AskMain(p) \/ BeginAnswer(p) \/ BeginDismiss(p)
             \/ RunAsk \/ RunChanged \/ DismissTask \/ SendHeld \/ Retire
             \/ UNCHANGED taskVars
      PROVE  closed' = closed
  BY <1>5 DEF AskMain, BeginAnswer, BeginDismiss, BeginClose, RunAsk, RunChanged,
              DismissTask, SendHeld, Retire, RemoveTask, taskVars
<1>6. EndAnswer
  BY <1>2, <1>3, <1>4, <1>5, Zenon DEF TaskNext, MainPlugin, Posted, FrontEnd
<1>7. q = prompt /\ outcome'[q] = Complete(q, "values")
  BY <1>6 DEF EndAnswer, ClosePrompt, TypeOK
<1>8. QED
  BY <1>6, <1>7

\* An answer that was taken reaches who asked.
LEMMA AnswerStep ==
  ASSUME TypeOK, OneFinishes, Gone, Retired, PromptAsked, AnswerReachesAsker,
         [TaskNext]_taskVars
  PROVE  AnswerReachesAsker'
<1> SUFFICES ASSUME NEW q \in Questions, closed'[q] = "Answered", ~Finished', ~cancel'
             PROVE  outcome'[q] = "values"
  BY DEF AnswerReachesAsker
<1>1. ~Finished /\ ~cancel
  BY EndStays
<1>2. CASE closed[q] = "Answered"
  <2>1. outcome[q] = "values"
    BY <1>1, <1>2 DEF AnswerReachesAsker
  <2>2. QED
    BY <2>1, OutcomeKept
<1>3. CASE closed[q] # "Answered"
  <2>1. q = prompt /\ outcome'[q] = Complete(q, "values")
    BY <1>3, AnsweredBy
  <2>2. outcome[q] = "asked"
    BY <1>1, <2>1, ThreadKinds, TaskAssumption DEF PromptAsked
  <2>3. QED
    BY <2>1, <2>2 DEF Complete
<1>4. QED
  BY <1>2, <1>3

\* What the slots of changed() leave is told or held back.
LEMMA Told ==
  ASSUME listed, Changed
  PROVE  held' \/ told' = Snapshot'
BY DEF Changed, Announce

\* The front ends learn of each change, or an event that tells them is due.
LEMMA FrontEndsStep ==
  ASSUME TypeOK, Gone, OneFinishes, FrontEndsKnow, [TaskNext]_taskVars
  PROVE  FrontEndsKnow'
<1> DEFINE Due == IsPosted(Event("changed")) \/ IsPosted(Event("close"))
<1> USE EventsDiffer
<1>1. ASSUME Changed, listed' = listed
      PROVE  FrontEndsKnow'
  BY <1>1, Told DEF FrontEndsKnow
<1>2. ASSUME NEW th \in Threads, Worker(th)
      PROVE  FrontEndsKnow'
  <2>1. ASSUME NEW p \in 0 .. MaxProgress, SetProgress(th, p)
        PROVE  FrontEndsKnow'
    BY <2>1, StaysPosted, EventTypes DEF SetProgress, FrontEndsKnow
  <2>2. CASE Return(th) \/ \E q \in Questions : AskBlocking(th, q)
    <3>1. /\ UNCHANGED <<listed, held, told, state, prompt, progress>>
          /\ SomeoneFinishing' <=> SomeoneFinishing
      BY <2>2, ThreadKinds, TaskAssumption
         DEF Return, AskBlocking, Blocked, SomeoneFinishing, TypeOK
    <3>2. Due => Due'
      <4>1. posted' = posted \/ \E d \in Events : posted' = Append(posted, d)
        BY <2>2, EventTypes DEF Return, AskBlocking
      <4>2. CASE posted' = posted
        BY <4>2 DEF IsPosted
      <4>3. ASSUME NEW d \in Events, posted' = Append(posted, d)
            PROVE  Due => Due'
        BY <4>3, StaysPosted
      <4>4. QED
        BY <4>1, <4>2, <4>3
    <3>3. QED
      BY <3>1, <3>2 DEF FrontEndsKnow, Snapshot
  <2>3. ASSUME NEW ok \in BOOLEAN, FinishSet(th, ok)
        PROVE  FrontEndsKnow'
    BY <2>3 DEF FinishSet, FrontEndsKnow, SomeoneFinishing, TypeOK
  <2>4. CASE FinishTell(th)
    <3>1. CASE alive
      BY <2>4, <3>1, FinishPosts DEF FinishTell, FrontEndsKnow
    <3>2. CASE ~alive
      BY <2>4, <3>2 DEF FinishTell, Gone, FrontEndsKnow
    <3>3. QED
      BY <3>1, <3>2
  <2>5. QED
    BY <1>2, <2>1, <2>2, <2>3, <2>4 DEF Worker
<1>3. ASSUME NEW q \in Questions, Ask(q), UNCHANGED <<state, progress, listed, thread>>,
             Due => Due'
      PROVE  FrontEndsKnow'
  <2>1. CASE Changed
    BY <1>1, <1>3, <2>1
  <2>2. CASE prompt' = prompt /\ Unchanged
    BY <1>3, <2>2 DEF Unchanged, FrontEndsKnow, SomeoneFinishing, Snapshot
  <2>3. QED
    BY <1>3, <2>1, <2>2 DEF Ask
<1>4. ASSUME NEW q \in Questions, AskMain(q)
      PROVE  FrontEndsKnow'
  BY <1>3, <1>4 DEF AskMain, IsPosted
<1>5. CASE RunAsk
  <2>1. Head(posted).q \in Questions
    BY <1>5 DEF RunAsk, HeadIs, Events, TypeOK
  <2>2. Due => Due'
    <3>1. posted # <<>> /\ posted' = Tail(posted)
          /\ Head(posted) # Event("close") /\ Head(posted) # Event("changed")
      BY <1>5 DEF RunAsk, HeadIs, Event
    <3>2. QED
      BY <3>1, PostedUntilRun
  <2>3. CASE Ask(Head(posted).q)
    BY <1>3, <1>5, <2>1, <2>2, <2>3 DEF RunAsk
  <2>4. CASE UNCHANGED <<prompt, outcome, waiters>> /\ Unchanged
    BY <1>5, <2>2, <2>4
       DEF RunAsk, Unchanged, FrontEndsKnow, SomeoneFinishing, Snapshot
  <2>5. QED
    BY <1>5, <2>3, <2>4 DEF RunAsk
<1>6. CASE \/ \E ok \in BOOLEAN : FinishMain(ok)
           \/ RunClose \/ RunChanged \/ EndAnswer \/ EndDismiss \/ RequestCancel \/ Expire
  BY <1>1, <1>6 DEF FinishMain, RunClose, RunChanged, EndAnswer, EndDismiss,
                    RequestCancel, Cancel, Expire
<1>7. CASE RunDelete
  <2>1. /\ posted \in Seq(Events) /\ posted # <<>>
        /\ Head(posted) \in Events /\ Head(posted).kind = "delete"
    BY <1>7 DEF RunDelete, HeadIs, TypeOK
  <2>2. IsPosted(Head(posted)) /\ Head(posted) = Event("delete")
    BY <2>1, EventsDiffer, Taken, Zenon DEF IsPosted
  <2>3. QED
    BY <1>7, <2>2 DEF RunDelete, Gone, FrontEndsKnow
<1>8. CASE DismissTask \/ Retire
  BY <1>8 DEF DismissTask, Retire, RemoveTask, FrontEndsKnow
<1>9. CASE SendHeld
  BY <1>9 DEF SendHeld, FrontEndsKnow, Snapshot
<1>10. ASSUME UNCHANGED <<state, progress, prompt, thread, posted, listed, told, held>>
       PROVE  FrontEndsKnow'
  BY <1>10 DEF FrontEndsKnow, SomeoneFinishing, Snapshot, IsPosted
<1>11. CASE \E q \in Questions : BeginAnswer(q) \/ BeginDismiss(q)
  BY <1>10, <1>11 DEF BeginAnswer, BeginDismiss, BeginClose
<1>12. CASE Quit
  BY <1>1, <1>10, <1>12 DEF Quit, Cancel, Unchanged
<1>13. CASE UNCHANGED taskVars
  BY <1>10, <1>13 DEF taskVars
<1>14. QED
  BY <1>2, <1>4, <1>5, <1>6, <1>7, <1>8, <1>9, <1>11, <1>12, <1>13, Zenon
     DEF TaskNext, MainPlugin, Posted, FrontEnd

\* The invariant holds of a new task ...
LEMMA InvInit ==
  ASSUME TaskAssumption, Init
  PROVE  Inv
<1>1. posted = <<>> /\ prompt = NoQuestion /\ waiters = {} /\ alive /\ listed /\ ~cancel
      /\ ~removal /\ ~Finished /\ told = Snapshot
  BY DEF Init, Finished
<1>2. /\ \A q \in Questions : outcome[q] = "unasked" /\ closed[q] = "no"
      /\ \A th \in Threads : thread[th] = Free
  BY DEF Init
<1>3. ~IsPosted(Event("delete")) /\ \A q \in Questions : ~IsPosted(AskEvent(q))
  BY <1>1 DEF IsPosted
<1>4. TypeOK
  BY TypeInit
<1>5. OneFinishes
  BY <1>2, ThreadKinds DEF OneFinishes
<1>6. Gone /\ Retired /\ Reachable /\ Ended /\ PromptAsked
  BY <1>1, <1>2, <1>3 DEF Gone, Retired, Reachable, Ended, PromptAsked
<1>7. AskedOnce
  BY <1>1, <1>3 DEF AskedOnce
<1>8. AnswerReachesAsker /\ FrontEndsKnow
  BY <1>1, <1>2 DEF AnswerReachesAsker, FrontEndsKnow
<1>9. QED
  BY <1>4, <1>5, <1>6, <1>7, <1>8 DEF Inv

\* ... and every step keeps it.
LEMMA InvStep ==
  ASSUME TaskAssumption, Inv, [TaskNext]_taskVars
  PROVE  Inv'
BY TypeStep, FinishStep, GoneStep, RetiredStep, ReachableStep, EndedStep, PromptAskedStep,
   AskedOnceStep, AnswerStep, FrontEndsStep
   DEF Inv

\* The invariant that the theorems below are parts of.
THEOREM TaskInvariant == TaskSpec => []Inv
<1>1. Init => Inv
  BY InvInit, TaskAssumption
<1>2. Inv /\ [TaskNext]_taskVars => Inv'
  BY InvStep, TaskAssumption
<1>3. QED
  BY <1>1, <1>2, PTL DEF TaskSpec

\* However cancelling, finishing and asking overtake each other on any number of
\* threads, nobody waits for an answer once the task has been cancelled or finish()
\* has returned, except a callback that a posted event is about to serve.
THEOREM NobodyWaitsAfterTheEnd == TaskSpec => []NobodyLeftWaiting
<1>1. Inv => NobodyLeftWaiting
  BY ThreadKinds, TaskAssumption DEF Inv, Reachable, Ended, NobodyLeftWaiting
<1>2. QED
  BY <1>1, TaskInvariant, PTL

\* An answer that a front end was told is taken reaches the plugin while the task
\* goes on.
THEOREM AnswersReachAskers == TaskSpec => []AnswerReachesAsker
<1>1. Inv => AnswerReachesAsker
  BY DEF Inv
<1>2. QED
  BY <1>1, TaskInvariant, PTL

\* What TaskPush told last is the truth, or a message is still due.
THEOREM FrontEndsHearTheTruth == TaskSpec => []FrontEndsKnow
<1>1. Inv => FrontEndsKnow
  BY DEF Inv
<1>2. QED
  BY <1>1, TaskInvariant, PTL
=============================================================================
