----------------------------- MODULE PluginTask -----------------------------
(***************************************************************************)
(* A plugin's task and the questions it asks the user: Task and            *)
(* TaskManager (src/src/plugins), the REST handlers of                     *)
(* src/src/remote/RestTasks.cpp and TaskPush, which announces changes to   *)
(* the pages connected to /websocket.                                      *)
(*                                                                         *)
(* Threads.  The main thread runs one handler at a time: a request of a    *)
(* front end (REST handlers hop to it), a timer, or the oldest event of    *)
(* `posted'.  The plugin's worker threads report progress, finish the task *)
(* and block in askBlocking() at any time; Task's mutex makes each of the  *)
(* blocks it guards one step.  answer() and dismissPrompt() check under    *)
(* the mutex, let it go and then close the question, and finish() sets the *)
(* state, lets go and then tells the others: two steps each.               *)
(*                                                                         *)
(* One task is modelled.  Those of a TaskManager do not act on each other. *)
(***************************************************************************)
EXTENDS Integers, Sequences, FiniteSets

CONSTANTS
  Threads,       \* the plugin's worker threads that use the task
  MaxQuestions,  \* bound on the questions asked
  MaxProgress,   \* progress is 0 .. MaxProgress
  MaxPosted      \* bound on `posted' for a thread that reports progress

ASSUME TaskAssumption ==
  /\ MaxQuestions \in Nat \ {0}
  /\ MaxProgress \in Nat
  /\ MaxPosted \in Nat \ {0}

Questions == 1 .. MaxQuestions
NoQuestion == 0

\* What a worker thread is doing besides being blocked on a question.
Free == 0
Finishing == -1

VARIABLES
  state,     \* m_state
  progress,  \* m_progress
  cancel,    \* m_cancelRequested
  prompt,    \* m_prompt: the open question, or NoQuestion
  closed,    \* m_closedPrompts: closed[q] is why q was closed, or "no"
  waiters,   \* m_waiters: the blocking questions whose asker may be woken
  outcome,   \* Wait::result, or what the callback got: see Question
  thread,    \* thread[th]: Free, Finishing or the question th is blocked on
  main,      \* "free", in the middle of answer() or dismissPrompt(), "ended"
  posted,    \* the events queued for the task on the main thread, oldest first
  listed,    \* the task is in TaskManager::m_tasks
  removal,   \* removalScheduled: the retention timer has been started
  alive,     \* ~Task() has not run
  told,      \* TaskPush: m_sent.json, what was announced last
  held       \* TaskPush: m_sent.pending, a change of progress is held back

taskVars == <<state, progress, cancel, prompt, closed, waiters, outcome, thread,
              main, posted, listed, removal, alive, told, held>>

States == {"Running", "Done", "Failed", "Cancelled"}
Reasons == {"Answered", "Expired", "Dismissed"}

Events == [kind : {"ask"}, q : Questions]
            \cup [kind : {"close", "changed", "delete"}, q : {NoQuestion}]

AskEvent(q) == [kind |-> "ask", q |-> q]
Event(kind) == [kind |-> kind, q |-> NoQuestion]

Finished == state # "Running"
Blocked(th) == thread[th] \in Questions

\* Task::state(), and with it what TasksJson::task() tells a front end.
Snapshot ==
  [state |-> IF state = "Running" /\ prompt # NoQuestion THEN "Waiting" ELSE state,
   prompt |-> prompt, progress |-> progress]

Snapshots == [state : States \cup {"Waiting"}, prompt : Questions \cup {NoQuestion},
              progress : 0 .. MaxProgress]

-----------------------------------------------------------------------------
(* TaskManager's and TaskPush's slots for Task::changed()                  *)

OnlyProgress(s, r) == s # r /\ s.state = r.state /\ s.prompt = r.prompt

\* Mutant: the throttled message is dropped, not held back.
AnnounceMutant ==
  \/ /\ Snapshot' # told /\ ~OnlyProgress(told, Snapshot')
     /\ told' = Snapshot' /\ held' = FALSE
  \/ /\ Snapshot' = told \/ OnlyProgress(told, Snapshot')
     /\ UNCHANGED <<told, held>>

\* TaskPush::changed(): nothing for what is known, and a change of progress only
\* may be too soon after the last message.
Announce ==
  \/ Snapshot' # told /\ told' = Snapshot' /\ held' = FALSE
  \/ OnlyProgress(told, Snapshot') /\ held' = TRUE /\ UNCHANGED told
  \/ Snapshot' = told /\ UNCHANGED <<told, held>>

\* The slots run at once when a main thread handler changes the task.
Changed ==
  IF listed
  THEN Announce /\ removal' = (removal \/ Finished')
  ELSE UNCHANGED <<told, held, removal>>

Unchanged == UNCHANGED <<told, held, removal>>

-----------------------------------------------------------------------------
(* Questions                                                               *)

MayAsk == ~Finished /\ ~cancel /\ prompt = NoQuestion

\* Mutant: complete() without the check of `done'.
CompleteMutant(q, r) == r

\* The asker of q gets r: Wait::complete(), where the first outcome stands.
Complete(q, r) == IF outcome[q] = "asked" THEN r ELSE outcome[q]

\* ask() on the main thread.  A form that FormValidator refuses, a second
\* question and one after the end are refused at once.
Ask(q) ==
  \/ /\ MayAsk
     /\ prompt' = q
     /\ outcome' = [outcome EXCEPT ![q] = "asked"]
     /\ Changed
     /\ UNCHANGED waiters
  \/ /\ outcome' = [outcome EXCEPT ![q] = "none"]
     /\ waiters' = waiters \ {q}
     /\ UNCHANGED prompt /\ Unchanged

\* Mutant: the open question's asker is woken before the answer is handed over.
ClosePromptMutant(reason, r, woken) ==
  /\ outcome' = [q \in Questions |->
       CASE q \in woken \cup (waiters \cap {prompt}) -> Complete(q, "none")
         [] q = prompt /\ q \notin waiters -> Complete(q, r)
         [] OTHER -> outcome[q]]
  /\ waiters' = (waiters \ woken) \ {prompt}
  /\ closed' = [q \in Questions |-> IF q = prompt THEN reason ELSE closed[q]]
  /\ prompt' = NoQuestion

\* closePrompt(reason, r), where `woken' are the waiters that wakeWaiters() has
\* woken earlier in the same handler.
ClosePrompt(reason, r, woken) ==
  /\ outcome' = [q \in Questions |->
       CASE q \in woken -> Complete(q, "none")
         [] q = prompt /\ q \notin woken -> Complete(q, r)
         [] OTHER -> outcome[q]]
  /\ waiters' = (waiters \ woken) \ {prompt}
  /\ closed' = [q \in Questions |-> IF q = prompt THEN reason ELSE closed[q]]
  /\ prompt' = NoQuestion

\* The first question nobody has asked yet.
Unasked(q) ==
  /\ outcome[q] = "unasked"
  /\ \A r \in Questions : r < q => outcome[r] # "unasked"

-----------------------------------------------------------------------------
(* The plugin on the main thread                                           *)

\* ask() with a callback.
AskMain(q) ==
  /\ main = "free" /\ alive /\ Unasked(q)
  /\ UNCHANGED <<state, progress, cancel, closed, thread, main, posted, listed, alive>>
  /\ Ask(q)

FinalState(ok) == IF ok THEN "Done" ELSE IF cancel THEN "Cancelled" ELSE "Failed"

\* finish(): an open question is closed within the call.  Also what runCallback()
\* and TransferActions::trigger() do about a plugin's exception.
FinishMain(ok) ==
  /\ main = "free" /\ alive /\ ~Finished
  /\ state' = FinalState(ok)
  /\ progress' = IF ok THEN MaxProgress ELSE progress
  /\ ClosePrompt("Dismissed", "none", waiters)
  /\ UNCHANGED <<cancel, thread, main, posted, listed, alive>>
  /\ Changed

-----------------------------------------------------------------------------
(* The plugin's worker threads                                             *)

\* Mutant: setProgress() without qBound().
SetProgressMutant(th, p) ==
  /\ thread[th] = Free /\ alive /\ ~Finished
  /\ Len(posted) < MaxPosted
  /\ progress' = p + 1
  /\ posted' = Append(posted, Event("changed"))
  /\ UNCHANGED <<state, cancel, prompt, closed, waiters, outcome, thread, main,
                 listed, removal, alive, told, held>>

\* setProgress(): the change is signalled to the main thread.
SetProgress(th, p) ==
  /\ thread[th] = Free /\ alive /\ ~Finished
  /\ p # progress /\ Len(posted) < MaxPosted
  /\ progress' = p
  /\ posted' = Append(posted, Event("changed"))
  /\ UNCHANGED <<state, cancel, prompt, closed, waiters, outcome, thread, main,
                 listed, removal, alive, told, held>>

\* askBlocking(): checked and registered under one lock, then queued.
AskBlocking(th, q) ==
  /\ thread[th] = Free /\ alive /\ Unasked(q)
  /\ IF Finished \/ cancel
     THEN /\ outcome' = [outcome EXCEPT ![q] = "none"]
          /\ UNCHANGED <<waiters, thread, posted>>
     ELSE /\ outcome' = [outcome EXCEPT ![q] = "asked"]
          /\ waiters' = waiters \cup {q}
          /\ thread' = [thread EXCEPT ![th] = q]
          /\ posted' = Append(posted, AskEvent(q))
  /\ UNCHANGED <<state, progress, cancel, prompt, closed, main, listed, removal,
                 alive, told, held>>

\* The wait ends.
Return(th) ==
  /\ Blocked(th) /\ outcome[thread[th]] # "asked"
  /\ thread' = [thread EXCEPT ![th] = Free]
  /\ UNCHANGED <<state, progress, cancel, prompt, closed, waiters, outcome, main,
                 posted, listed, removal, alive, told, held>>

\* finish(), first half: the state changes under the lock.
FinishSet(th, ok) ==
  /\ thread[th] = Free /\ alive /\ ~Finished
  /\ state' = FinalState(ok)
  /\ progress' = IF ok THEN MaxProgress ELSE progress
  /\ thread' = [thread EXCEPT ![th] = Finishing]
  /\ UNCHANGED <<cancel, prompt, closed, waiters, outcome, main, posted, listed,
                 removal, alive, told, held>>

\* Mutant: finish() leaves the waiters to closePrompt().
FinishTellMutant(th) ==
  /\ thread[th] = Finishing
  /\ posted' = IF alive THEN posted \o <<Event("close"), Event("changed")>> ELSE posted
  /\ thread' = [thread EXCEPT ![th] = Free]
  /\ UNCHANGED <<state, progress, cancel, prompt, closed, waiters, outcome, main,
                 listed, removal, alive, told, held>>

\* finish(), second half: wake the waiters, queue the rest.  A front end may have
\* had the finished task deleted in between; the thread then works on a dead
\* object, which is taken to go unnoticed.
FinishTell(th) ==
  /\ thread[th] = Finishing
  /\ IF alive
     THEN /\ outcome' = [q \in Questions |->
                          IF q \in waiters THEN Complete(q, "none") ELSE outcome[q]]
          /\ waiters' = {}
          /\ posted' = posted \o <<Event("close"), Event("changed")>>
     ELSE UNCHANGED <<outcome, waiters, posted>>
  /\ thread' = [thread EXCEPT ![th] = Free]
  /\ UNCHANGED <<state, progress, cancel, prompt, closed, main, listed, removal,
                 alive, told, held>>

-----------------------------------------------------------------------------
(* Events and timers of the main thread                                    *)

HeadIs(kind) == main = "free" /\ posted # <<>> /\ Head(posted).kind = kind

\* The call askBlocking() queued: nothing if its asker has been woken.
RunAsk ==
  /\ HeadIs("ask")
  /\ posted' = Tail(posted)
  /\ UNCHANGED <<state, progress, cancel, closed, thread, main, listed, alive>>
  /\ LET q == Head(posted).q
     IN  IF outcome[q] = "asked"
         THEN Ask(q)
         ELSE UNCHANGED <<prompt, outcome, waiters>> /\ Unchanged

\* The closePrompt() a worker's finish() queued.
RunClose ==
  /\ HeadIs("close")
  /\ posted' = Tail(posted)
  /\ ClosePrompt("Dismissed", "none", {})
  /\ UNCHANGED <<state, progress, cancel, thread, main, listed, alive>>
  /\ Changed

RunChanged ==
  /\ HeadIs("changed")
  /\ posted' = Tail(posted)
  /\ UNCHANGED <<state, progress, cancel, prompt, closed, waiters, outcome, thread,
                 main, listed, alive>>
  /\ Changed

\* ~Task(): the manager no longer listens; what was queued for the task is gone.
RunDelete ==
  /\ HeadIs("delete")
  /\ alive' = FALSE
  /\ posted' = <<>>
  /\ ClosePrompt("Dismissed", "none", waiters)
  /\ UNCHANGED <<state, progress, cancel, thread, main, listed>> /\ Unchanged

\* m_expiry, which runs while a question is open.
Expire ==
  /\ main = "free" /\ alive /\ prompt # NoQuestion
  /\ ClosePrompt("Expired", "none", {})
  /\ UNCHANGED <<state, progress, cancel, thread, main, posted, listed, alive>>
  /\ Changed

\* TaskPush's timer for a change it held back.
SendHeld ==
  /\ main = "free" /\ held /\ alive
  /\ told' = Snapshot /\ held' = FALSE
  /\ UNCHANGED <<state, progress, cancel, prompt, closed, waiters, outcome, thread,
                 main, posted, listed, removal, alive>>

\* TaskManager::remove(); TaskPush forgets the task.
RemoveTask ==
  /\ listed' = FALSE /\ held' = FALSE
  /\ posted' = Append(posted, Event("delete"))
  /\ UNCHANGED <<state, progress, cancel, prompt, closed, waiters, outcome, thread,
                 main, removal, alive, told>>

\* The retention period of a finished task is over.
Retire == main = "free" /\ listed /\ removal /\ RemoveTask

-----------------------------------------------------------------------------
(* The front ends, on the main thread                                      *)

\* answer() of an open question, with values its form accepts, and
\* dismissPrompt(): the check.
BeginClose(q, how) ==
  /\ main = "free" /\ listed
  /\ prompt = q /\ q # NoQuestion /\ ~Finished
  /\ main' = how
  /\ UNCHANGED <<state, progress, cancel, prompt, closed, waiters, outcome, thread,
                 posted, listed, removal, alive, told, held>>

BeginAnswer(q) == BeginClose(q, "answering")
BeginDismiss(q) == BeginClose(q, "dismissing")

\* ... and the rest of the call.
EndAnswer ==
  /\ main = "answering"
  /\ ClosePrompt("Answered", "values", {})
  /\ main' = "free"
  /\ UNCHANGED <<state, progress, cancel, thread, posted, listed, alive>>
  /\ Changed

EndDismiss ==
  /\ main = "dismissing"
  /\ ClosePrompt("Dismissed", "none", {})
  /\ main' = "free"
  /\ UNCHANGED <<state, progress, cancel, thread, posted, listed, alive>>
  /\ Changed

\* Mutant: requestCancel() leaves the waiters to closePrompt().
CancelMutant ==
  /\ ~Finished /\ ~cancel
  /\ cancel' = TRUE
  /\ ClosePrompt("Dismissed", "none", {})
  /\ Changed

\* requestCancel()
Cancel ==
  /\ ~Finished /\ ~cancel
  /\ cancel' = TRUE
  /\ ClosePrompt("Dismissed", "none", waiters)
  /\ Changed

\* DELETE /tasks/:task of a running task, or the desktop's Cancel.
RequestCancel ==
  /\ main = "free" /\ listed
  /\ UNCHANGED <<state, progress, thread, main, posted, listed, alive>>
  /\ Cancel

\* DELETE /tasks/:task of a finished one: TaskManager::dismiss().
DismissTask == main = "free" /\ listed /\ Finished /\ RemoveTask

\* TaskManager::cancelAll() as the application quits: the last the main thread
\* does for this task.
Quit ==
  /\ main = "free"
  /\ main' = "ended"
  /\ UNCHANGED <<state, progress, thread, posted, listed, alive>>
  /\ \/ listed /\ Cancel
     \/ /\ ~listed \/ Finished \/ cancel
        /\ UNCHANGED <<cancel, prompt, closed, waiters, outcome>> /\ Unchanged

-----------------------------------------------------------------------------

\* TaskManager::create(), which announces the task.
Init ==
  /\ state = "Running" /\ progress = 0 /\ cancel = FALSE
  /\ prompt = NoQuestion
  /\ closed = [q \in Questions |-> "no"]
  /\ waiters = {}
  /\ outcome = [q \in Questions |-> "unasked"]
  /\ thread = [th \in Threads |-> Free]
  /\ main = "free" /\ posted = <<>>
  /\ listed = TRUE /\ removal = FALSE /\ alive = TRUE
  /\ told = Snapshot /\ held = FALSE

Worker(th) ==
  \/ \E p \in 0 .. MaxProgress : SetProgress(th, p)
  \/ \E q \in Questions : AskBlocking(th, q)
  \/ Return(th)
  \/ \E ok \in BOOLEAN : FinishSet(th, ok)
  \/ FinishTell(th)

MainPlugin ==
  \/ \E q \in Questions : AskMain(q)
  \/ \E ok \in BOOLEAN : FinishMain(ok)

Posted == RunAsk \/ RunClose \/ RunChanged \/ RunDelete

FrontEnd ==
  \/ \E q \in Questions : BeginAnswer(q) \/ BeginDismiss(q)
  \/ EndAnswer \/ EndDismiss \/ RequestCancel \/ DismissTask

TaskNext ==
  \/ \E th \in Threads : Worker(th)
  \/ MainPlugin \/ Posted \/ FrontEnd
  \/ Expire \/ SendHeld \/ Retire \/ Quit

\* The event loop runs what is posted and its timers fire; a woken or finishing
\* thread goes on.  Users, front ends and the plugin's own work owe nothing.
TaskFairness ==
  /\ WF_taskVars(Posted) /\ WF_taskVars(EndAnswer) /\ WF_taskVars(EndDismiss)
  /\ WF_taskVars(Expire) /\ WF_taskVars(SendHeld) /\ WF_taskVars(Retire)
  /\ \A th \in Threads : WF_taskVars(Return(th)) /\ WF_taskVars(FinishTell(th))

TaskSpec == Init /\ [][TaskNext]_taskVars /\ TaskFairness

-----------------------------------------------------------------------------
(* Properties                                                              *)

TypeOK ==
  /\ state \in States /\ progress \in 0 .. MaxProgress /\ cancel \in BOOLEAN
  /\ prompt \in Questions \cup {NoQuestion}
  /\ closed \in [Questions -> Reasons \cup {"no"}]
  /\ waiters \subseteq Questions
  /\ outcome \in [Questions -> {"unasked", "asked", "values", "none"}]
  /\ thread \in [Threads -> Questions \cup {Free, Finishing}]
  /\ main \in {"free", "answering", "dismissing", "ended"}
  /\ posted \in Seq(Events)
  /\ listed \in BOOLEAN /\ removal \in BOOLEAN /\ alive \in BOOLEAN
  /\ told \in Snapshots /\ held \in BOOLEAN

SomeoneFinishing == \E th \in Threads : thread[th] = Finishing

IsPosted(e) == \E i \in DOMAIN posted : posted[i] = e

\* Once a task has been cancelled, or finish() has returned, nobody waits for an
\* answer any more, wherever the question was on its way (Task.h: cancelling or
\* finishing wakes a blocked thread directly, as the main thread may be waiting
\* for it).  Only a callback may still be due, through a call that is posted.
NobodyLeftWaiting ==
  cancel \/ (Finished /\ ~SomeoneFinishing) =>
    \A q \in Questions :
      outcome[q] = "asked" => ~cancel /\ q = prompt /\ IsPosted(Event("close"))

\* A front end is told that its answer was taken only if the plugin gets it, or if
\* the task was ended meanwhile.
AnswerReachesAsker ==
  \A q \in Questions :
    closed[q] = "Answered" /\ ~Finished /\ ~cancel => outcome[q] = "values"

\* However progress, questions and the end of the task overtake each other on two
\* threads, what the front ends were told last is the truth unless a message is
\* still due: held back for a moment, or behind an event that is posted.
FrontEndsKnow ==
  \/ ~listed \/ held \/ SomeoneFinishing
  \/ IsPosted(Event("changed")) \/ IsPosted(Event("close"))
  \/ told = Snapshot

Promise == INSTANCE Question WITH Questions <- Questions, outcome <- outcome

\* Task implements what Task.h promises: one outcome for every question.
OneOutcome == Promise!Spec

\* A thread that blocks in askBlocking() is woken, whatever becomes of the
\* question, the task and the application.
AskersReturn == \A th \in Threads : Blocked(th) ~> ~Blocked(th)
=============================================================================
