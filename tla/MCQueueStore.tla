---------------------------- MODULE MCQueueStore ----------------------------
(* Small instances of QueueStore for TLC.                                  *)
EXTENDS QueueStore

CONSTANTS w1, w2, s0, s1, s2, q1, q2, t1, t2

SaverOfEach == [c \in Callers |-> CASE c = Main -> s0 [] c = w1 -> s1 [] OTHER -> s2]

OneInFirst == [q \in {q1, q2} |-> IF q = q1 THEN {t1} ELSE {}]

EmptyQueues == [q \in {q1, q2} |-> {}]

EmptyQueue == [q \in {q1} |-> {}]

(***************************************************************************)
(* The states that the run with two workers goes on from: the first worker *)
(* alone, with every kind of request, a disk that may fail at any save and *)
(* a desktop that drags transfers; and both, as the first adds or moves    *)
(* while the second creates, deletes or moves, the disk being good, the    *)
(* application not restarted and nothing dragged since a save was asked.   *)
(***************************************************************************)
DiskTrouble == failed \/ \E th \in Threads : pc[th] = "rename" /\ tmp # doc[th]

Bounds ==
  req[w2] # "none" =>
    /\ ~DiskTrouble /\ stage # "restart" /\ dragged = {}
    /\ req[w1] \in {"none", "add", "move"}
    /\ req[w2] \in {"createQueue", "deleteQueue", "move"}
=============================================================================
