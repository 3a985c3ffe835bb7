-------------------------- MODULE MCPluginRegistry --------------------------
(***************************************************************************)
(* Small instances of PluginRegistry.  `visit' says who is there: one web  *)
(* page, which waits for each answer, or also the desktop's page, or also  *)
(* another client.                                                         *)
(***************************************************************************)
EXTENDS PluginRegistry

CONSTANTS w1, w2, t1, t2, Visits

VARIABLE visit

There == [page |-> {w1}, desktop |-> {w1, Main}, clients |-> {w1, w2}]

MCInit == Init /\ visit \in Visits

MCNext ==
  /\ Next
  /\ visit' = visit
  /\ \A th \in Threads \ There[visit] : pc'[th] = "idle" /\ message'[th] = "none"

MCSpec == MCInit /\ [][MCNext]_<<vars, visit>> /\ Fairness

\* With the page alone, requests come one at a time.
PageSettles == visit = "page" => SettledMatches
=============================================================================
