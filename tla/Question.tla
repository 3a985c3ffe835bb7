------------------------------ MODULE Question ------------------------------
(***************************************************************************)
(* What src/src/plugins/Task.h promises the plugin that asks the user      *)
(* something: "the first answer wins", and when nobody answers, "the       *)
(* plugin gets std::nullopt".  Every question that is put has exactly one  *)
(* outcome, and it stands.                                                 *)
(***************************************************************************)
CONSTANT Questions

VARIABLE outcome   \* outcome[q]: what the asker of q has got so far

Outcomes == {"unasked", "asked", "values", "none"}

Init == outcome = [q \in Questions |-> "unasked"]

Become(q, from, to) ==
  /\ outcome[q] = from
  /\ outcome' = [outcome EXCEPT ![q] = to]

Ask(q) == Become(q, "unasked", "asked")

\* The user's values reach the plugin.
Answer(q) == Become(q, "asked", "values")

\* A task that has ended asks no more: the plugin is told so at once.
Refuse(q) == Become(q, "unasked", "none")

\* Timeout, dismissal, cancellation or the end of the task close every open
\* question of the set at once, and leave no question half closed.
GiveUp(S) ==
  /\ S # {}
  /\ \A q \in S : outcome[q] = "asked"
  /\ outcome' = [q \in Questions |-> IF q \in S THEN "none" ELSE outcome[q]]

Next ==
  \/ \E q \in Questions : Ask(q) \/ Answer(q) \/ Refuse(q)
  \/ \E S \in SUBSET Questions : GiveUp(S)

Spec == Init /\ [][Next]_outcome
=============================================================================
