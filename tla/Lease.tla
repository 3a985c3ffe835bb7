-------------------------------- MODULE Lease --------------------------------
(***************************************************************************)
(* What the users of something that others replace and delete rely on, be  *)
(* it the queue a request has looked up or the plugin a transfer was       *)
(* created from: each takes what is on offer and then keeps that very one, *)
(* there until the user itself gives it up.                                *)
(***************************************************************************)
CONSTANTS Holders, Resources, None

VARIABLES
  there,   \* the resources that exist
  open,    \* those of them that may still be taken
  held     \* held[h]: what holder h has taken, or None

leaseVars == <<there, open, held>>

InUse == {held[h] : h \in Holders} \ {None}

Sound == open \subseteq there /\ there \subseteq Resources /\ InUse \subseteq there

Init == Sound /\ held = [h \in Holders |-> None]

Take(h) ==
  /\ held[h] = None
  /\ \E r \in open : held' = [held EXCEPT ![h] = r]
  /\ UNCHANGED <<there, open>>

GiveUp(h) ==
  /\ held' = [held EXCEPT ![h] = None]
  /\ UNCHANGED <<there, open>>

\* Others create, withdraw and delete, but nothing that is in use.
Change == held' = held /\ Sound'

Next == Change \/ \E h \in Holders : Take(h) \/ GiveUp(h)

Spec == Init /\ [][Next]_leaseVars
=============================================================================
