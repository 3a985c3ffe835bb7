------------------------------- MODULE MCWeb -------------------------------
(***************************************************************************)
(* Small instances of PropertiesDialog.  `visit' picks, once for a         *)
(* behaviour, what the user has come for, so that one run covers them all: *)
(* browsing queues while others change them, deleting transfers, deleting  *)
(* a queue, or editing transfers.                                          *)
(***************************************************************************)
EXTENDS PropertiesDialog

CONSTANT Steady  \* the transfer that stays while the user edits

VARIABLE visit

Visits == {"browse", "delete", "remove", "edit"}

\* Bounds of each visit: changes by others, failures, polls of the queue list, saves.
Bound ==
  CASE visit = "browse" -> [changes |-> 2, failures |-> 1, gets |-> 2]
    [] visit = "delete" -> [changes |-> 1, failures |-> 1, gets |-> 0]
    [] visit = "remove" -> [changes |-> 1, failures |-> 1, gets |-> 1]
    [] visit = "edit" -> [changes |-> 1, failures |-> 0, gets |-> 0]

NotDeleting ==
  /\ confirm = NoConfirm /\ deletion = Idle /\ count = NoCount
  /\ queueDialog = Closed /\ removal = NoRemoval

Small ==
  /\ visit # "delete" => version <= Bound.changes + (IF removal.phase = "ok" THEN 1 ELSE 0)
  /\ failures <= Bound.failures /\ Len(gets) <= Bound.gets
  /\ visit = "browse" => version + Len(gets) + failures <= 3
  /\ visit \in {"browse", "edit"} => NotDeleting
  /\ visit \in {"delete", "remove"} /\ failures > 0 => failing = {} /\ version <= 1
  /\ visit = "remove" /\ gets # <<>> => removal = NoRemoval /\ count = NoCount /\ ~Modal
  /\ visit = "remove" /\ failures > 0 => version = 0 \/ removal.phase = "ok"
  /\ visit = "delete" => count = NoCount
  /\ visit \in {"delete", "edit"} => selectedQueue = 1
  /\ visit = "remove" => deletion = Idle /\ selected = {}
  /\ visit = "remove" => confirm.uuids \in {{}, Transfers}
  /\ visit # "edit" => opened = <<>>
  /\ visit = "edit" => exists = {1, 2} /\ home[Steady] = 1 /\ \A t \in Transfers : home[t] # 2
  /\ Opening = 2 => form.options \in {"loading", "ready"} \/ form.count = 2

\* The page has loaded and polls once more, with both transfers in the first of two queues.
Loaded ==
  /\ exists = {1, 2} /\ born = exists /\ home = [t \in Transfers |-> 1] /\ version = 0
  /\ queues = exists /\ selectedQueue = 1 /\ gets = <<>>
  /\ pollQueue = 1 /\ fetch = IF visit = "remove" THEN <<>> ELSE <<Asking(1)>>
  /\ transfers = Transfers /\ seen = 0 /\ selected = {}
  /\ failing = {} /\ failures = 0 /\ NotDeleting /\ unasked = {}
  /\ form = NoForm /\ loads = {} /\ saves = {} /\ opened = <<>> /\ edited = {}

MCInit ==
  \/ /\ visit = "browse" /\ DialogInit
     /\ exists # {} => \A s, t \in Transfers : home[s] = home[t]
  \/ visit \in Visits \ {"browse"} /\ Loaded

MCSpec ==
  /\ MCInit
  /\ [][DialogNext /\ visit' = visit /\ Small']_<<dialogVars, visit>>
  /\ WebFairness
=============================================================================
