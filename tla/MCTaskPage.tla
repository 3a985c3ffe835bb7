----------------------------- MODULE MCTaskPage -----------------------------
(* One run, three small instances: the task alone with all its threads and  *)
(* questions, a page that follows it while the socket drops and lists        *)
(* overlap, and a page whose user answers.  What is not at stake is bounded. *)
EXTENDS TaskPage

CONSTANT Extra   \* the thread that only the task alone has

VARIABLE visit   \* which of the three: "none", "watch" or "answer"

MCvars == <<vars, visit>>

Bound ==
  CASE visit = "none" -> shown = {} /\ loads = <<Sent>> /\ ~open /\ ~registered
    [] visit = "watch" -> /\ handled = {} /\ reply = NoReply /\ waiters = {}
                            /\ Len(loads) + Len(wire) <= 3
    [] visit = "answer" -> (open => registered) /\ ~overtaken /\ Len(loads) <= 1 /\ Len(wire) <= 1

\* With a page there is one thread and one question, and progress is not reported
\* before the end.
Small ==
  visit # "none" =>
    /\ thread[Extra] = Free /\ main # "ended"
    /\ \A q \in Questions : q > 1 => outcome[q] = "unasked"
    /\ ~Finished => progress = 0

MCInit == PageInit /\ visit \in {"none", "watch", "answer"}

MCNext == PageNext /\ UNCHANGED visit /\ Bound' /\ Small'

MCSpec == MCInit /\ [][MCNext]_MCvars /\ TaskFairness
=============================================================================
