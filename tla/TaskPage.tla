------------------------------ MODULE TaskPage ------------------------------
(***************************************************************************)
(* A page of the web interface that shows the plugin's task: TasksStore,   *)
(* PushSocketService, TaskPromptDialog and TasksIndicator                  *)
(* (src/webui/src/app), composed with the task of PluginTask and the       *)
(* server's end of /websocket (src/src/remote/HttpService.cpp).            *)
(*                                                                         *)
(* The page learns of the task in two ways that race: the list it asks for *)
(* when it starts and whenever its socket opens, and the messages pushed   *)
(* over that socket.  The socket may drop at any time with what is on the  *)
(* wire; requests may be answered in any order, or fail before or after    *)
(* the server has done them.                                               *)
(*                                                                         *)
(* DELETE of a running task and of a question are requests whose answers   *)
(* the page ignores: what they do to the task is what PluginTask's other   *)
(* front ends may do at any time.                                          *)
(***************************************************************************)
EXTENDS PluginTask, SequencesExt

CONSTANTS
  MaxWire,    \* bound: a connection that lags this far behind drops
  MaxLoads    \* bound on the list requests under way

ASSUME PageAssumption == MaxWire \in Nat \ {0} /\ MaxLoads \in Nat \ {0}

VARIABLES
  shown,       \* TasksStore.tasks: {} or {what the page knows of the task}
  handled,     \* TasksStore.handled
  open,        \* the page's WebSocket is open: its onopen has run
  registered,  \* the server pushes to it: m_registeredCaptchaClients
  wire,        \* messages pushed and not received: {snapshot}, or {} for task-removed
  loads,       \* reload()'s requests: their answer, once they have one
  reply,       \* submit()'s request: its question and how far it is
  dismissed,   \* history: the questions the user closed here without an answer
  overtaken    \* history: see PageCurrent

pageVars == <<shown, handled, open, registered, wire, loads, reply, dismissed, overtaken>>
vars == <<taskVars, pageVars>>

Lists == {{}} \cup {{s} : s \in Snapshots}
Sent == [answered |-> FALSE, tasks |-> {}]
NoReply == [q |-> NoQuestion, phase |-> "idle"]

\* openPrompts: the question the dialog shows.
OpenPrompts == {s.prompt : s \in shown} \ (handled \cup {NoQuestion})

-----------------------------------------------------------------------------
(* The socket                                                              *)

\* Mutant: a page whose socket opens again counts on the pushes to come.
ReloadMutant == loads' = IF shown = {} THEN Append(loads, Sent) ELSE loads

\* reload()
Reload == loads' = Append(loads, Sent)

\* addCaptchaClient(), which the server calls after the handshake.
Register ==
  /\ ~registered
  /\ registered' = TRUE
  /\ UNCHANGED <<taskVars, shown, handled, open, wire, loads, reply, dismissed, overtaken>>

\* onopen, before or after the server's side of it.
Opened ==
  /\ ~open /\ Len(loads) < MaxLoads
  /\ open' = TRUE
  /\ Reload
  /\ overtaken' = \E i \in DOMAIN loads : loads[i].answered
  /\ UNCHANGED <<taskVars, shown, handled, registered, wire, reply, dismissed>>

HangUp == open' = FALSE /\ registered' = FALSE /\ wire' = <<>>

\* onclose, at either end.  The page tries again until it can connect.
Drop ==
  /\ open \/ registered
  /\ HangUp
  /\ overtaken' = FALSE
  /\ UNCHANGED <<taskVars, shown, handled, loads, reply, dismissed>>

\* apply(): a task is added or replaced, a removed one is dropped.
Apply(message) == shown' = message

\* onmessage: pushes come in the order they were sent.
Receive ==
  /\ open /\ wire # <<>>
  /\ Apply(Head(wire))
  /\ wire' = Tail(wire)
  /\ overtaken' = (overtaken \/ \E i \in DOMAIN loads : loads[i].answered)
  /\ UNCHANGED <<taskVars, handled, open, registered, loads, reply, dismissed>>

-----------------------------------------------------------------------------
(* The list                                                                *)

\* listTasks(), on the main thread.
AnswerList(i) ==
  /\ main = "free" /\ ~loads[i].answered
  /\ loads' = [loads EXCEPT ![i] =
                 [answered |-> TRUE, tasks |-> IF listed THEN {Snapshot} ELSE {}]]
  /\ UNCHANGED <<taskVars, shown, handled, open, registered, wire, reply,
                 dismissed, overtaken>>

\* The answer replaces what the page has, whatever came in meanwhile.
ListArrives(i) ==
  /\ loads[i].answered
  /\ shown' = loads[i].tasks
  /\ loads' = RemoveAt(loads, i)
  /\ UNCHANGED <<taskVars, handled, open, registered, wire, reply,
                 dismissed, overtaken>>

\* A failed request is not repeated.
ListFails(i) ==
  /\ loads' = RemoveAt(loads, i)
  /\ overtaken' = open
  /\ UNCHANGED <<taskVars, shown, handled, open, registered, wire, reply,
                 dismissed>>

-----------------------------------------------------------------------------
(* The user                                                                *)

\* submit(), which is ignored while an answer is under way.
Submit(q) ==
  /\ q \in OpenPrompts /\ reply = NoReply
  /\ reply' = [q |-> q, phase |-> "sent"]
  /\ UNCHANGED <<taskVars, shown, handled, open, registered, wire, loads, dismissed,
                 overtaken>>

\* answerPrompt() on the main thread: the answer is taken, or 404, 409 or 410 for a
\* question that is not open.  Values its form refuses (400) are a failure.
AnswerPrompt ==
  /\ reply.phase = "sent" /\ main = "free"
  /\ \/ BeginAnswer(reply.q) /\ reply' = [reply EXCEPT !.phase = "running"]
     \/ /\ ~listed \/ prompt # reply.q \/ Finished
        /\ reply' = [reply EXCEPT !.phase = "over"] /\ UNCHANGED taskVars
  /\ UNCHANGED <<shown, handled, open, registered, wire, loads, dismissed, overtaken>>

\* Mutant: every failure is taken to mean that the question is gone.
HideMutant(over) == handled' = handled \cup {reply.q}

\* Any failure but those three leaves the question open to try again.
Hide(over) == handled' = IF over THEN handled \cup {reply.q} ELSE handled

\* submit()'s next and error handlers.  The connection may fail before or after the
\* server has done the request.
ReplyArrives ==
  /\ reply # NoReply
  /\ \/ reply.phase = "over" /\ Hide(TRUE)
     \/ Hide(FALSE)
  /\ reply' = NoReply
  /\ UNCHANGED <<taskVars, shown, open, registered, wire, loads, dismissed, overtaken>>

\* cancel() of the dialog: the question is hidden before the server says so.
Dismiss(q) ==
  /\ q \in OpenPrompts
  /\ handled' = handled \cup {q}
  /\ dismissed' = dismissed \cup {q}
  /\ UNCHANGED <<taskVars, shown, open, registered, wire, loads, reply, overtaken>>

\* stop() of a finished task: the server has removed it and the answer arrives.
StopAnswered ==
  /\ ~listed /\ shown # {}
  /\ shown' = {}
  /\ UNCHANGED <<taskVars, handled, open, registered, wire, loads, reply, dismissed,
                 overtaken>>

-----------------------------------------------------------------------------
(* The server                                                              *)

\* What TaskPush sends in a step: task, task-removed or nothing.
Pushes == (IF told' # told THEN <<{told'}>> ELSE <<>>)
            \o (IF listed /\ ~listed' THEN <<{}>> ELSE <<>>)

\* pushEvent(): every registered connection gets the message.
Push ==
  LET queue == wire \o Pushes
  IN  /\ IF ~registered THEN UNCHANGED <<open, registered, wire>>
         ELSE IF Len(queue) > MaxWire THEN HangUp
         ELSE wire' = queue /\ UNCHANGED <<open, registered>>
      /\ overtaken' = (overtaken \/ (open /\ ~registered /\ Pushes # <<>>))

\* A step of the task, the end of this page's answer among them.
ServerStep ==
  /\ TaskNext
  /\ Push
  /\ reply' = IF reply.phase = "running" /\ main' = "free"
              THEN [reply EXCEPT !.phase = "over"] ELSE reply
  /\ UNCHANGED <<shown, handled, loads, dismissed>>

-----------------------------------------------------------------------------

PageInit ==
  /\ Init
  /\ shown = {} /\ handled = {}
  /\ open = FALSE /\ registered = FALSE /\ wire = <<>>
  /\ loads = <<Sent>>          \* TasksStore's constructor
  /\ reply = NoReply
  /\ dismissed = {} /\ overtaken = FALSE

PageNext ==
  \/ ServerStep
  \/ Register \/ Opened \/ Drop \/ Receive
  \/ \E i \in DOMAIN loads : AnswerList(i) \/ ListArrives(i) \/ ListFails(i)
  \/ \E q \in Questions : Submit(q) \/ Dismiss(q)
  \/ AnswerPrompt \/ ReplyArrives \/ StopAnswered

PageSpec == PageInit /\ [][PageNext]_vars /\ TaskFairness

-----------------------------------------------------------------------------
(* Properties                                                              *)

PageTypeOK ==
  /\ TypeOK
  /\ shown \in Lists /\ handled \subseteq Questions
  /\ open \in BOOLEAN /\ registered \in BOOLEAN
  /\ wire \in BoundedSeq(Lists, MaxWire)
  /\ loads \in BoundedSeq([answered : BOOLEAN, tasks : Lists], MaxLoads)
  /\ reply \in [q : Questions \cup {NoQuestion},
                phase : {"idle", "sent", "running", "over"}]
  /\ dismissed \subseteq Questions /\ overtaken \in BOOLEAN

\* Nothing is on its way from the task to the page.
Settled ==
  /\ open /\ registered /\ wire = <<>> /\ loads = <<>>
  /\ ~held /\ ~SomeoneFinishing
  /\ ~IsPosted(Event("changed")) /\ ~IsPosted(Event("close"))

\* The page shows whether there is a task, its state and its question as they are,
\* after any number of reconnections, lists and pushes, with one exception
\* (TasksStore.reload() has no guard against it): since the socket opened last, a
\* list computed before that or before a push was still to arrive, a list failed, or
\* a push was sent before the server had registered the socket.  Its progress may be off:
\* a list that a change of progress got into before TaskPush announced it, and
\* progress that then returns to what was announced before, are never put right.
PageCurrent ==
  Settled /\ ~overtaken =>
    /\ shown = {} <=> ~listed
    /\ \A s \in shown : s.state = Snapshot.state /\ s.prompt = prompt

\* A question the user did not dismiss is hidden only once it needs no answer: a
\* dropped connection leaves it open to try again.
HiddenOnlyWhenGone ==
  \A q \in handled \ dismissed : prompt = q => Finished
=============================================================================
