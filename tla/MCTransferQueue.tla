-------------------------- MODULE MCTransferQueue --------------------------
(* Small instances of TransferQueue for TLC.                               *)
EXTENDS TransferQueue, TLC

CONSTANTS t1, t2

OneTransfer == <<<<t1>>>>
OneQueue == <<<<t1, t2>>>>

OneOfTwo == <<<<t1>>, <<>>>>

OneEach == {[down |-> 1, up |-> 1]}

OneOrNone == {[down |-> 1, up |-> 0], [down |-> -1, up |-> 1]}

ClientStates == {"Waiting", "ForcedActive", "Paused"}
OddStates == {"Waiting", "Completed"}
JustWaiting == {"Waiting"}

(***************************************************************************)
(* The states that the run with two queues goes on from: those where the   *)
(* second queue is not in use, with every command and every state a REST   *)
(* client may ask for; and those where transfers are moved between the two *)
(* and none of them is forced or paused, by pausing all either.            *)
(***************************************************************************)
SecondUnused == queue[2] = <<>> /\ \A t \in Transfers : handover[t] # 2

NonePaused ==
  /\ \A t \in Queued : transfer[t].state \notin {"ForcedActive", "Paused"}
  /\ \A i \in DOMAIN posted : posted[i].kind = "set" => posted[i].state = "Waiting"
  /\ paused = NothingSaved

Bounds == SecondUnused \/ NonePaused
=============================================================================
