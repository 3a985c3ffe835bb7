------------------------------- MODULE Custody -------------------------------
(***************************************************************************)
(* Where a transfer may be, and where it may go from there, whoever works  *)
(* on the queues: it is created into a queue, or for one by somebody who   *)
(* then adds it or gives it up; it goes from queue to queue, at once or    *)
(* through somebody's hands to the queue it was taken for; and what has    *)
(* been given up or has left the queues for good, and nothing else, is     *)
(* deleted, once.  No transfer is ever in two places, or alive and in none.*)
(***************************************************************************)
CONSTANTS Transfers, Queues, NoQueue

VARIABLE place   \* place[t]: where transfer t is

Unborn == <<"unborn", NoQueue>>
In(q) == <<"queue", q>>
New(q) == <<"new", q>>         \* with whoever has created it, to add it to q
Hands(q) == <<"hands", q>>     \* with whoever has taken it, to add it to q
Removed == <<"removed", NoQueue>>
Deleted == <<"deleted", NoQueue>>

Places ==
  {Unborn, Removed, Deleted} \cup UNION {{In(q), New(q), Hands(q)} : q \in Queues}

Create(from, to) == from = Unborn /\ \E q \in Queues : to \in {In(q), New(q)}

\* Taken out of its queue, or put into another one by whoever took it.
Move(from, to) == \E p, q \in Queues : from = In(p) /\ to \in {In(q), Hands(q)}

Add(from, to) == \E q \in Queues : from \in {New(q), Hands(q)} /\ to = In(q)

\* By itself or with its queue.
Remove(from, to) == (\E q \in Queues : from = In(q)) /\ to = Removed

\* By its creator, who deletes it at once or has it deleted.
GiveUp(from, to) == (\E q \in Queues : from = New(q)) /\ to \in {Removed, Deleted}

Delete(from, to) == from = Removed /\ to = Deleted

Goes(from, to) ==
  \/ Create(from, to) \/ Move(from, to) \/ Add(from, to)
  \/ Remove(from, to) \/ GiveUp(from, to) \/ Delete(from, to)

Init == place \in [Transfers -> {Unborn} \cup {In(q) : q \in Queues}]

Next ==
  /\ place' \in [Transfers -> Places]
  /\ \A t \in Transfers : place'[t] # place[t] => Goes(place[t], place'[t])

Spec == Init /\ [][Next]_place
=============================================================================
