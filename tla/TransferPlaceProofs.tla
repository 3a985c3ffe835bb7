------------------------ MODULE TransferPlaceProofs ------------------------
(***************************************************************************)
(* Proofs about where transfers are and what is posted for them, for any   *)
(* number of transfers, queues and workers: no transfer is ever in two     *)
(* places, and a posted setState() meets a deleted one only where a worker *)
(* has discarded what it had just created.  And, relying on that, about    *)
(* QueueMgr::doWork(): what a tick does to a queue keeps its limits and    *)
(* its order, and leaves alone the transfers that do not compete.          *)
(***************************************************************************)
EXTENDS TransferQueueProofs, WellFoundedInduction

Retries == {Retry(t) : t \in Transfers}

\* Transfers a worker holds, and those that a queue or a worker holds.
Held == {t \in Transfers : handover[t] # NoQueue}
Placed == Queued \cup Held

\* No event before the i-th of ev, a setState(), deletes its transfer; and while that
\* is new, or once it has been discarded, there is no other setState() for it.
SetFits(ev, lf, i) ==
  /\ lf[ev[i].t] \in {"new", "alive", "discarded"}
  /\ \A j \in 1 .. i - 1 : ev[j] # Delete(ev[i].t)
  /\ lf[ev[i].t] # "alive" =>
       \A j \in DOMAIN ev : ev[j].kind = "set" /\ ev[j].t = ev[i].t => j = i

\* The events ev suit transfers with the lives lf, of which P have a place: only
\* transfers without a place are deleted, each of them once.
Fit(ev, lf, P) ==
  \A i \in DOMAIN ev :
    /\ ev[i].kind = "set" => SetFits(ev, lf, i)
    /\ ev[i].kind = "delete" =>
         /\ lf[ev[i].t] = "alive" /\ ev[i].t \notin P
         /\ \A j \in DOMAIN ev : j # i => ev[j] # Delete(ev[i].t)

PlaceInv ==
  /\ Inv
  /\ NeverTwice
  /\ \A t \in Held : Exists(t)
  /\ \A t \in Transfers : life[t] = "new" => t \in Held
  /\ Fit(posted, life, Placed)

-----------------------------------------------------------------------------
(* Events                                                                  *)

\* A delete is told from the other events by its kind.
LEMMA DeleteKind ==
  ASSUME NEW t, NEW e, e = Delete(t)
  PROVE  e.kind = "delete" /\ e.t = t
BY DEF Delete

\* Events of the kind "delete" are deletes.
LEMMA KindDelete ==
  ASSUME NEW e \in Events, e.kind = "delete"
  PROVE  e = Delete(e.t) /\ e.t \in Transfers
<1>1. CASE e \in [kind : {"retry", "delete"}, t : Transfers]
  BY <1>1 DEF Delete
<1>2. CASE e \in [kind : {"set"}, t : Transfers, state : States]
  BY <1>2
<1>3. QED
  BY <1>1, <1>2 DEF Events

\* Retries posted after the other events suit any transfers.
LEMMA FitRetries ==
  ASSUME NEW ev \in Seq(Events), NEW lf, NEW P, NEW rs \in Seq(Retries), Fit(ev, lf, P)
  PROVE  Fit(ev \o rs, lf, P)
<1> DEFINE all == ev \o rs
<1>1. /\ DOMAIN all = 1 .. Len(ev) + Len(rs)
      /\ Len(ev) \in Nat /\ Len(rs) \in Nat
      /\ \A i \in DOMAIN ev : i \in DOMAIN all /\ all[i] = ev[i]
      /\ \A i \in DOMAIN all : i \notin DOMAIN ev => all[i] \in Retries
  OBVIOUS
<1>2. \A e \in Retries : e.kind = "retry"
  BY DEF Retries, Retry
<1>3. \A i \in DOMAIN all : i \notin DOMAIN ev => all[i].kind = "retry"
  BY <1>1, <1>2
<1>4. \A t : \A i \in DOMAIN all : i \notin DOMAIN ev => all[i] # Delete(t)
  BY <1>3, DeleteKind
<1>5. ASSUME NEW i \in DOMAIN all, all[i].kind = "set"
      PROVE  SetFits(all, lf, i)
  <2>1. i \in DOMAIN ev /\ all[i] = ev[i]
    BY <1>1, <1>3, <1>5
  <2>2. \A j \in 1 .. i - 1 : j \in DOMAIN ev /\ all[j] = ev[j]
    BY <1>1, <2>1
  <2>3. SetFits(ev, lf, i)
    BY <1>5, <2>1 DEF Fit
  <2>4. \A j \in DOMAIN all : all[j].kind = "set" => j \in DOMAIN ev /\ all[j] = ev[j]
    BY <1>1, <1>3
  <2>5. QED
    BY <2>1, <2>2, <2>3, <2>4 DEF SetFits
<1>6. ASSUME NEW i \in DOMAIN all, all[i].kind = "delete"
      PROVE  /\ lf[all[i].t] = "alive" /\ all[i].t \notin P
             /\ \A j \in DOMAIN all : j # i => all[j] # Delete(all[i].t)
  <2>1. i \in DOMAIN ev /\ all[i] = ev[i]
    BY <1>1, <1>3, <1>6
  <2>2. lf[ev[i].t] = "alive" /\ ev[i].t \notin P
        /\ \A j \in DOMAIN ev : j # i => ev[j] # Delete(ev[i].t)
    BY <1>6, <2>1 DEF Fit
  <2>3. QED
    BY <1>1, <1>4, <2>1, <2>2
<1>7. QED
  BY <1>5, <1>6 DEF Fit

\* The events go on to suit transfers of which fewer have a place.
LEMMA FitFewer ==
  ASSUME NEW ev, NEW lf, NEW P, NEW Q \in SUBSET P, Fit(ev, lf, P)
  PROVE  Fit(ev, lf, Q)
BY DEF Fit, SetFits

\* ... and so do all but the first of them, also when that was a delete.
LEMMA FitTail ==
  ASSUME NEW ev \in Seq(Events), ev # <<>>, NEW lf \in [Transfers -> Lives], NEW P,
         Fit(ev, lf, P)
  PROVE  /\ Fit(Tail(ev), lf, P)
         /\ Head(ev).kind = "delete" =>
              Fit(Tail(ev), [lf EXCEPT ![Head(ev).t] = "gone"], P)
<1> DEFINE rest == Tail(ev)
<1>1. /\ DOMAIN rest = 1 .. Len(ev) - 1 /\ Len(ev) \in Nat \ {0}
      /\ \A i \in DOMAIN rest : rest[i] = ev[i + 1] /\ i + 1 \in DOMAIN ev
      /\ 1 \in DOMAIN ev /\ Head(ev) = ev[1]
  OBVIOUS
<1> HIDE DEF rest
<1>2. \A i \in DOMAIN rest : \A j \in 1 .. i - 1 :
        j + 1 \in 1 .. (i + 1) - 1 /\ rest[j] = ev[j + 1]
  BY <1>1
<1>3. \A i, j \in DOMAIN rest : j # i => j + 1 # i + 1
  BY <1>1
<1>4. Fit(rest, lf, P)
  <2>1. ASSUME NEW i \in DOMAIN rest, rest[i].kind = "set"
        PROVE  SetFits(rest, lf, i)
    <3>1. SetFits(ev, lf, i + 1)
      BY <1>1, <2>1 DEF Fit
    <3>2. QED
      BY <1>1, <1>2, <1>3, <3>1 DEF SetFits
  <2>2. ASSUME NEW i \in DOMAIN rest, rest[i].kind = "delete"
        PROVE  /\ lf[rest[i].t] = "alive" /\ rest[i].t \notin P
               /\ \A j \in DOMAIN rest : j # i => rest[j] # Delete(rest[i].t)
    BY <1>1, <1>3, <2>2 DEF Fit
  <2>3. QED
    BY <2>1, <2>2 DEF Fit
<1>5. ASSUME Head(ev).kind = "delete"
      PROVE  Fit(rest, [lf EXCEPT ![Head(ev).t] = "gone"], P)
  <2> DEFINE t == Head(ev).t
  <2>1. ev[1] \in Events /\ ev[1].kind = "delete"
    BY <1>1, <1>5
  <2>2. ev[1] = Delete(t)
    BY <1>1, <2>1, KindDelete
  <2>3. ASSUME NEW i \in DOMAIN rest, rest[i].kind \in {"set", "delete"}
        PROVE  rest[i].t # t
    <3>1. i + 1 \in DOMAIN ev /\ rest[i] = ev[i + 1] /\ 1 \in 1 .. (i + 1) - 1
      BY <1>1
    <3>2. CASE rest[i].kind = "set"
      BY <2>2, <3>1, <3>2 DEF Fit, SetFits
    <3>3. CASE rest[i].kind = "delete"
      BY <1>1, <2>2, <3>1, <3>3 DEF Fit
    <3>4. QED
      BY <2>3, <3>2, <3>3
  <2> HIDE DEF t
  <2>4. \A i \in DOMAIN rest : rest[i].kind \in {"set", "delete"} =>
          [lf EXCEPT ![t] = "gone"][rest[i].t] = lf[rest[i].t]
    <3>1. \A e \in Events : e.t \in Transfers
      BY DEF Events
    <3>2. \A i \in DOMAIN rest : rest[i] \in Events
      BY <1>1
    <3>3. QED
      BY <2>3, <3>1, <3>2
  <2>5. QED
    BY <1>4, <2>4 DEF Fit, SetFits, t
<1>6. QED
  BY <1>4, <1>5 DEF rest

\* A transfer with a place, or one that is not alive, is not about to be deleted.
LEMMA NotDeleted ==
  ASSUME NEW ev, NEW lf, NEW P, Fit(ev, lf, P), NEW t, t \in P \/ lf[t] # "alive"
  PROVE  \A i \in DOMAIN ev : ev[i] # Delete(t)
BY DeleteKind DEF Fit

\* A setState() may be posted for a transfer that is not about to be deleted: the
\* first of a new one, or any of one that has been in a queue.
LEMMA FitSet ==
  ASSUME NEW ev \in Seq(Events), NEW lf, NEW P, Fit(ev, lf, P),
         NEW t \in Transfers, NEW s \in States,
         \/ lf[t] = "alive"
         \/ lf[t] = "new" /\ \A i \in DOMAIN ev : ev[i].kind = "set" => ev[i].t # t,
         \A i \in DOMAIN ev : ev[i] # Delete(t)
  PROVE  Fit(Append(ev, Set(t, s)), lf, P)
<1> DEFINE n == Len(ev) + 1
           all == Append(ev, Set(t, s))
<1>1. /\ DOMAIN all = 1 .. n /\ n \in Nat
      /\ all[n] = Set(t, s)
      /\ \A i \in DOMAIN all : i = n \/ (i \in DOMAIN ev /\ all[i] = ev[i])
      /\ \A i \in DOMAIN ev : i \in 1 .. n - 1 /\ i \in DOMAIN all
  OBVIOUS
<1>2. Set(t, s).kind = "set" /\ Set(t, s).t = t
  BY DEF Set
<1>3. \A u : Set(t, s) # Delete(u)
  BY <1>2, DeleteKind
<1> HIDE DEF all, n
<1>4. \A i \in DOMAIN ev : \A j \in 1 .. i - 1 : j \in DOMAIN ev /\ all[j] = ev[j]
  BY <1>1
<1>5. ASSUME NEW i \in DOMAIN all, all[i].kind = "set"
      PROVE  SetFits(all, lf, i)
  <2>1. CASE i = n
    <3>1. \A j \in 1 .. n - 1 : j \in DOMAIN ev /\ all[j] = ev[j]
      BY <1>1
    <3>2. all[i].t = t /\ \A j \in 1 .. i - 1 : all[j] # Delete(t)
      BY <1>1, <1>2, <2>1, <3>1
    <3>3. lf[t] # "alive" =>
            \A j \in DOMAIN all : all[j].kind = "set" /\ all[j].t = t => j = i
      BY <1>1, <2>1
    <3>4. QED
      BY <3>2, <3>3 DEF SetFits
  <2>2. CASE i \in DOMAIN ev /\ all[i] = ev[i]
    <3>1. SetFits(ev, lf, i)
      BY <1>5, <2>2 DEF Fit
    <3>2. \A j \in 1 .. i - 1 : all[j] # Delete(all[i].t)
      BY <1>4, <2>2, <3>1 DEF SetFits
    <3>3. lf[all[i].t] # "alive" => t # all[i].t
      BY <1>5, <2>2
    <3>4. lf[all[i].t] # "alive" =>
            \A j \in DOMAIN all : all[j].kind = "set" /\ all[j].t = all[i].t => j = i
      BY <1>1, <1>2, <2>2, <3>1, <3>3 DEF SetFits
    <3>5. QED
      BY <2>2, <3>1, <3>2, <3>4 DEF SetFits
  <2>3. QED
    BY <1>1, <2>1, <2>2
<1>6. ASSUME NEW i \in DOMAIN all, all[i].kind = "delete"
      PROVE  /\ lf[all[i].t] = "alive" /\ all[i].t \notin P
             /\ \A j \in DOMAIN all : j # i => all[j] # Delete(all[i].t)
  <2>1. i \in DOMAIN ev /\ all[i] = ev[i]
    BY <1>1, <1>2, <1>6
  <2>2. /\ lf[ev[i].t] = "alive" /\ ev[i].t \notin P
        /\ \A j \in DOMAIN ev : j # i => ev[j] # Delete(ev[i].t)
    BY <1>6, <2>1 DEF Fit
  <2>3. QED
    BY <1>1, <1>3, <2>1, <2>2
<1>7. QED
  BY <1>5, <1>6 DEF Fit, all

\* Transfers that lose their place may be deleted, each once.
LEMMA FitDeletes ==
  ASSUME NEW ev \in Seq(Events), NEW lf, NEW P, NEW Q \in SUBSET P, Fit(ev, lf, P),
         \A t \in P \ Q : lf[t] = "alive",
         NEW new \in Seq({Delete(t) : t \in P \ Q}),
         \A i, j \in DOMAIN new : new[i] = new[j] => i = j
  PROVE  Fit(ev \o new, lf, Q)
<1> DEFINE m == Len(ev)
           n == Len(new)
           all == ev \o new
<1>1. /\ DOMAIN all = 1 .. m + n /\ m \in Nat /\ DOMAIN ev = 1 .. m
      /\ \A i \in DOMAIN ev : all[i] = ev[i] /\ i \in DOMAIN all
      /\ \A i \in DOMAIN all : i \notin DOMAIN ev =>
            i - m \in 1 .. n /\ i - m \in DOMAIN new /\ all[i] = new[i - m]
  OBVIOUS
<1> HIDE DEF all
<1>2. \A i \in DOMAIN new : \E t \in P \ Q : new[i] = Delete(t)
  OBVIOUS
<1>3. \A t : Delete(t).kind = "delete" /\ Delete(t).t = t
  BY DeleteKind
<1>4. ASSUME NEW i \in DOMAIN all, all[i].kind = "set"
      PROVE  SetFits(all, lf, i)
  <2>1. i \in DOMAIN ev /\ all[i] = ev[i]
    BY <1>1, <1>2, <1>3, <1>4
  <2>2. \A j \in 1 .. i - 1 : j \in DOMAIN ev /\ all[j] = ev[j]
    BY <1>1, <2>1
  <2>3. SetFits(ev, lf, i)
    BY <1>4, <2>1 DEF Fit
  <2>4. \A j \in DOMAIN all : all[j].kind = "set" => j \in DOMAIN ev /\ all[j] = ev[j]
    BY <1>1, <1>2, <1>3
  <2>5. QED
    BY <2>1, <2>2, <2>3, <2>4 DEF SetFits
<1>5. ASSUME NEW i \in DOMAIN all, all[i].kind = "delete"
      PROVE  /\ lf[all[i].t] = "alive" /\ all[i].t \notin Q
             /\ \A j \in DOMAIN all : j # i => all[j] # Delete(all[i].t)
  <2>1. CASE i \in DOMAIN ev
    <3>1. all[i] = ev[i]
      BY <1>1, <2>1
    <3>2. /\ lf[ev[i].t] = "alive" /\ ev[i].t \notin P
          /\ \A j \in DOMAIN ev : j # i => ev[j] # Delete(ev[i].t)
      BY <1>5, <2>1, <3>1 DEF Fit
    <3>3. \A j \in DOMAIN all : j \notin DOMAIN ev => all[j] # Delete(ev[i].t)
      BY <1>1, <1>2, <1>3, <3>2
    <3>4. QED
      BY <1>1, <3>1, <3>2, <3>3
  <2>2. CASE i \notin DOMAIN ev
    <3>1. PICK t \in P \ Q : all[i] = Delete(t)
      BY <1>1, <1>2, <2>2
    <3>2. \A j \in DOMAIN ev : ev[j] # Delete(t)
      BY NotDeleted
    <3>3. \A j \in DOMAIN all : j \notin DOMAIN ev /\ j # i => all[j] # all[i]
      BY <1>1, <2>2
    <3>4. QED
      BY <1>1, <1>3, <3>1, <3>2, <3>3
  <2>3. QED
    BY <2>1, <2>2
<1>6. QED
  BY <1>4, <1>5 DEF Fit, all

\* A transfer without a life has no events, and may begin one and get a place.
LEMMA FitBirth ==
  ASSUME NEW ev \in Seq(Events), NEW lf \in [Transfers -> Lives], NEW P, Fit(ev, lf, P),
         NEW t \in Transfers, lf[t] = "none", NEW l
  PROVE  /\ Fit(ev, [lf EXCEPT ![t] = l], P \cup {t})
         /\ \A i \in DOMAIN ev : ev[i].kind = "set" => ev[i].t # t
<1>1. \A i \in DOMAIN ev : ev[i] \in Events
  OBVIOUS
<1>2. \A e \in Events : e.t \in Transfers
  BY DEF Events
<1>3. \A i \in DOMAIN ev : ev[i].kind \in {"set", "delete"} => ev[i].t # t
  BY DEF Fit, SetFits
<1>4. QED
  BY <1>1, <1>2, <1>3 DEF Fit, SetFits

\* A new transfer may be put into a queue, or be discarded.
LEMMA FitSettled ==
  ASSUME NEW ev \in Seq(Events), NEW lf \in [Transfers -> Lives], NEW P, Fit(ev, lf, P),
         NEW t \in Transfers, NEW l,
         \/ l = "alive" /\ lf[t] \in {"new", "alive"}
         \/ l = "discarded" /\ lf[t] = "new"
  PROVE  Fit(ev, [lf EXCEPT ![t] = l], P)
<1> DEFINE now == [lf EXCEPT ![t] = l]
<1>1. \A i \in DOMAIN ev : ev[i].t \in Transfers
  BY DEF Events
<1>2. now[t] = l /\ \A u \in Transfers \ {t} : now[u] = lf[u]
  OBVIOUS
<1> HIDE DEF now
<1>3. ASSUME NEW i \in DOMAIN ev, ev[i].kind = "set"
      PROVE  SetFits(ev, now, i)
  <2>1. SetFits(ev, lf, i)
    BY <1>3 DEF Fit
  <2>2. CASE ev[i].t = t
    BY <1>2, <2>1, <2>2 DEF SetFits
  <2>3. CASE ev[i].t # t
    BY <1>1, <1>2, <2>1, <2>3 DEF SetFits
  <2>4. QED
    BY <2>2, <2>3
<1>4. ASSUME NEW i \in DOMAIN ev, ev[i].kind = "delete"
      PROVE  now[ev[i].t] = "alive"
  BY <1>1, <1>2, <1>4 DEF Fit
<1>5. Fit(ev, now, P)
  BY <1>3, <1>4 DEF Fit
<1>6. QED
  BY <1>5 DEF now

\* A call of setState() on several transfers posts retries only.
LEMMA RetriesPosted ==
  ASSUME QueueAssumption,
         NEW base, NEW target \in Targets, NEW seq, NEW before,
         SetStates(base, target, seq, before)
  PROVE  \E rs \in Seq(Retries) : posted' = before \o rs
<1> DEFINE T == DOMAIN target
           starting == {t \in T : IsActive(target[t]) /\ ~IsActive(base[t].state)}
<1>1. PICK outcome \in [starting -> Outcomes] :
        LET how(t) == IF t \in starting THEN outcome[t] ELSE "runs"
            retried == {t \in T : PostsRetry(base[t], target[t], how(t))}
        IN  /\ transfer' = [t \in Transfers |->
                  IF t \in T THEN AfterSetState(base[t], target[t], how(t)) ELSE base[t]]
            /\ \E e \in InOrder(retried, seq) :
                  posted' = before \o [i \in 1 .. Cardinality(retried) |-> Retry(e[i])]
  BY DEF SetStates
<1> DEFINE how(t) == IF t \in starting THEN outcome[t] ELSE "runs"
           retried == {t \in T : PostsRetry(base[t], target[t], how(t))}
           n == Cardinality(retried)
<1>2. PICK e \in InOrder(retried, seq) : posted' = before \o [i \in 1 .. n |-> Retry(e[i])]
  BY <1>1
<1>3. retried \subseteq Transfers /\ IsFiniteSet(retried)
  <2>1. T \subseteq Transfers
    BY DEF Targets
  <2>2. QED
    BY <2>1, FS_Subset DEF QueueAssumption
<1> HIDE DEF retried
<1>4. n \in Nat /\ e \in [1 .. n -> retried]
  BY <1>3, FS_CardinalityType DEF InOrder
<1> HIDE DEF n
<1>5. \A i \in 1 .. n : Retry(e[i]) \in Retries
  BY <1>3, <1>4 DEF Retries
<1>6. [i \in 1 .. n |-> Retry(e[i])] \in Seq(Retries)
  BY <1>4, <1>5
<1>7. QED
  BY <1>2, <1>6

-----------------------------------------------------------------------------
(* Places                                                                  *)

\* Leaving members out of a sequence without repetition repeats none.
LEMMA InOrderOnce ==
  ASSUME QueueAssumption, NEW S \in SUBSET Transfers, NEW seq \in Seq(Transfers),
         \A a, b \in DOMAIN seq : seq[a] = seq[b] => a = b,
         NEW e \in InOrder(S, seq)
  PROVE  /\ Cardinality(S) \in Nat
         /\ e \in [1 .. Cardinality(S) -> S] /\ e \in Seq(Transfers)
         /\ \A i, j \in DOMAIN e : e[i] = e[j] => i = j
<1> DEFINE n == Cardinality(S)
<1>1. n \in Nat /\ e \in Seq(Transfers)
  BY SublistType
<1>2. e \in [1 .. n -> S]
  BY DEF InOrder
<1>3. \A i, j \in 1 .. n : i < j => \E a, b \in DOMAIN seq : a < b /\ seq[a] = e[i] /\ seq[b] = e[j]
  BY DEF InOrder
<1> HIDE DEF n
<1>4. \A i, j \in 1 .. n : i < j => e[i] # e[j]
  <2>1. \A a \in DOMAIN seq : a \in Nat
    OBVIOUS
  <2>2. QED
    BY <1>3, <2>1
<1>5. \A i, j \in 1 .. n : e[i] = e[j] => i = j
  BY <1>1, <1>4
<1>6. QED
  BY <1>1, <1>2, <1>5 DEF n

\* A queue may be replaced by some of its members, each of them once.
LEMMA FewerOnce ==
  ASSUME queue \in [Queues -> Seq(Transfers)], Once(queue), NEW q \in Queues,
         NEW e \in Seq(Transfers), \A i, j \in DOMAIN e : e[i] = e[j] => i = j,
         \A i \in DOMAIN e : e[i] \in Members(q),
         queue' = [queue EXCEPT ![q] = e]
  PROVE  /\ Once(queue') /\ Queued' \subseteq Queued
         /\ \A t \in Members(q) : (\A i \in DOMAIN e : e[i] # t) => t \notin Queued'
<1>1. \A p \in Queues : queue'[p] = IF p = q THEN e ELSE queue[p]
  OBVIOUS
<1>2. \A i \in DOMAIN e : \E k \in DOMAIN queue[q] : queue[q][k] = e[i]
  BY DEF Members
<1>3. ASSUME NEW p \in Queues, p # q, NEW k \in DOMAIN queue[p],
             NEW i \in DOMAIN queue[q]
      PROVE  queue[p][k] # queue[q][i]
  BY <1>3 DEF Once
<1>4. Once(queue')
  <2> SUFFICES ASSUME NEW p \in Queues, NEW r \in Queues,
                      NEW i \in DOMAIN queue'[p], NEW j \in DOMAIN queue'[r],
                      queue'[p][i] = queue'[r][j]
               PROVE  p = r /\ i = j
    BY DEF Once
  <2>1. CASE p = q /\ r = q
    BY <1>1, <2>1
  <2>2. CASE p # q /\ r # q
    BY <1>1, <2>2 DEF Once
  <2>3. CASE p = q /\ r # q
    BY <1>1, <1>2, <1>3, <2>3
  <2>4. CASE p # q /\ r = q
    BY <1>1, <1>2, <1>3, <2>4
  <2>5. QED
    BY <2>1, <2>2, <2>3, <2>4
<1>5. Queued' \subseteq Queued
  BY <1>1, <1>2 DEF Queued, Members
<1>6. ASSUME NEW t \in Members(q), \A i \in DOMAIN e : e[i] # t
      PROVE  t \notin Queued'
  <2>1. PICK k \in DOMAIN queue[q] : t = queue[q][k]
    BY DEF Members
  <2>2. \A p \in Queues : \A i \in DOMAIN queue'[p] : queue'[p][i] # t
    BY <1>1, <1>3, <1>6, <2>1
  <2>3. QED
    BY <2>2 DEF Queued, Members
<1>7. QED
  BY <1>4, <1>5, <1>6

\* A transfer that is in no queue may be appended to one.
LEMMA AppendOnce ==
  ASSUME queue \in [Queues -> Seq(Transfers)], Once(queue), NEW q \in Queues,
         NEW t \in Transfers, t \notin Queued,
         queue' = [queue EXCEPT ![q] = Append(@, t)]
  PROVE  Once(queue') /\ Queued' \subseteq Queued \cup {t}
<1> DEFINE n == Len(queue[q]) + 1
<1>1. /\ n \in Nat /\ DOMAIN queue[q] = 1 .. n - 1
      /\ DOMAIN queue'[q] = 1 .. n /\ queue'[q][n] = t
      /\ \A i \in 1 .. n - 1 : queue'[q][i] = queue[q][i]
      /\ \A p \in Queues \ {q} : queue'[p] = queue[p]
  OBVIOUS
<1> HIDE DEF n
<1>2. \A p \in Queues : \A i \in DOMAIN queue'[p] :
        \/ i \in DOMAIN queue[p] /\ queue'[p][i] = queue[p][i]
        \/ p = q /\ i = n /\ queue'[p][i] = t
  BY <1>1
<1>3. \A p \in Queues : \A i \in DOMAIN queue[p] : queue[p][i] # t
  BY DEF Queued, Members
<1>4. Once(queue')
  BY <1>2, <1>3 DEF Once
<1>5. Queued' \subseteq Queued \cup {t}
  BY <1>2 DEF Queued, Members
<1>6. QED
  BY <1>4, <1>5

\* Moving a transfer within its queue reorders it.
LEMMA MoveOnce ==
  ASSUME queue \in [Queues -> Seq(Transfers)], Once(queue), NEW q \in Queues,
         NEW i \in DOMAIN queue[q], NEW j \in DOMAIN queue[q], Move(q, i, j),
         queue' \in [Queues -> Seq(Transfers)]
  PROVE  Once(queue') /\ Queued' \subseteq Queued
<1> DEFINE old == queue[q]
           from(k) == CASE k = j -> i
                        [] i < j /\ k \in i .. j - 1 -> k + 1
                        [] j < i /\ k \in j + 1 .. i -> k - 1
                        [] OTHER -> k
<1>1. old \in Seq(Transfers) /\ DOMAIN old = 1 .. Len(old) /\ Len(old) \in Nat /\ i # j
  BY DEF Move
<1>2. /\ DOMAIN queue'[q] = DOMAIN old
      /\ \A k \in DOMAIN old :
           queue'[q][k] = CASE k = j -> old[i]
                            [] i < j /\ k \in i .. j - 1 -> old[k + 1]
                            [] j < i /\ k \in j + 1 .. i -> old[k - 1]
                            [] OTHER -> old[k]
  BY DEF Move
<1>3. \A k \in DOMAIN old : from(k) \in DOMAIN old
  BY <1>1
<1>4. \A k, l \in DOMAIN old : from(k) = from(l) => k = l
  BY <1>1
<1>5. \A k \in DOMAIN old : queue'[q][k] = old[from(k)]
  BY <1>1, <1>2
<1> DEFINE e == queue'[q]
<1> HIDE DEF from
<1>6. \A k, l \in DOMAIN e : e[k] = e[l] => k = l
  BY <1>2, <1>3, <1>4, <1>5 DEF Once
<1>7. \A k \in DOMAIN e : e[k] \in Members(q)
  BY <1>2, <1>3, <1>5 DEF Members
<1>8. e \in Seq(Transfers) /\ queue' = [queue EXCEPT ![q] = e]
  BY DEF Move
<1> HIDE DEF e
<1>9. QED
  BY <1>6, <1>7, <1>8, FewerOnce

-----------------------------------------------------------------------------
(* One lemma per group of steps.                                           *)

\* Steps that leave all transfers where they are.
LEMMA SamePlaces ==
  ASSUME PlaceInv, Inv', UNCHANGED <<queue, life, handover>>, Fit(posted', life, Placed)
  PROVE  PlaceInv'
<1>1. Queued' = Queued /\ Held' = Held /\ Placed' = Placed
  BY DEF Queued, Members, Held, Placed
<1>2. NeverTwice'
  BY <1>1 DEF PlaceInv, NeverTwice, Once
<1>3. QED
  BY <1>1, <1>2 DEF PlaceInv, Exists

\* ... and call setState() on some of them.
LEMMA SamePlacesSet ==
  ASSUME QueueAssumption, PlaceInv, Inv', UNCHANGED <<queue, life, handover>>,
         NEW base, NEW target \in Targets, NEW seq,
         NEW before \in Seq(Events), Fit(before, life, Placed),
         SetStates(base, target, seq, before)
  PROVE  PlaceInv'
<1>1. PICK rs \in Seq(Retries) : posted' = before \o rs
  BY RetriesPosted
<1>2. Fit(posted', life, Placed)
  BY <1>1, FitRetries
<1>3. QED
  BY <1>2, SamePlaces

\* setState() on one transfer.
LEMMA OneTarget ==
  ASSUME NEW t \in Transfers, NEW s \in States
  PROVE  [x \in {t} |-> s] \in Targets
<1>1. [x \in {t} |-> s] \in [{t} -> States]
  OBVIOUS
<1>2. QED
  BY <1>1, TargetType

LEMMA OneStateSet ==
  ASSUME QueueAssumption, PlaceInv, Inv', UNCHANGED <<queue, life, handover>>,
         NEW t \in Transfers, NEW s \in States, ChangeState(t, s, posted)
  PROVE  PlaceInv'
<1>1. SetStates(transfer, [x \in {t} |-> s], <<t>>, posted)
  BY DEF ChangeState, ChangeStates
<1>2. posted \in Seq(Events) /\ Fit(posted, life, Placed)
  BY DEF PlaceInv, Inv, TypeOK
<1>3. QED
  BY <1>1, <1>2, OneTarget, SamePlacesSet

\* A transfer exists when a queue holds it or a worker does.
LEMMA PlacedExists ==
  ASSUME PlaceInv
  PROVE  /\ \A t \in Placed : Exists(t)
         /\ \A t \in Queued : life[t] = "alive"
         /\ Queued \cap Held = {} /\ Placed \subseteq Transfers
         /\ \A q \in Queues : Members(q) \subseteq Queued
BY DEF PlaceInv, NeverTwice, Placed, Held, Queued, Members, Exists, Inv, TypeOK

\* doWork() deletes what it takes out of the queue.
LEMMA TickPlaces ==
  ASSUME QueueAssumption, PlaceInv, Inv', NEW q \in Queues, TickQueue(q)
  PROVE  PlaceInv'
<1>1. PICK fast \in SUBSET {t \in Members(q) : transfer[t].engine},
           gone \in InOrder(Swept(q), queue[q]),
           kept \in InOrder(Members(q) \ Swept(q), queue[q]) :
       LET noted == [t \in Transfers |->
             IF t \in fast THEN [transfer[t] EXCEPT !.working = TRUE]
                           ELSE transfer[t]]
           deletes == [i \in 1 .. Cardinality(Swept(q)) |-> Delete(gone[i])]
       IN  /\ SetStates(noted, TickTarget(q), queue[q], posted \o deletes)
           /\ queue' = [queue EXCEPT ![q] = kept]
  BY DEF TickQueue
<1> DEFINE noted == [t \in Transfers |->
             IF t \in fast THEN [transfer[t] EXCEPT !.working = TRUE]
                           ELSE transfer[t]]
           n == Cardinality(Swept(q))
           deletes == [i \in 1 .. n |-> Delete(gone[i])]
<1>2. /\ Members(q) \subseteq Transfers /\ Swept(q) \subseteq Members(q)
      /\ queue[q] \in Seq(Transfers)
      /\ \A a, b \in DOMAIN queue[q] : queue[q][a] = queue[q][b] => a = b
  BY DEF PlaceInv, Inv, TypeOK, Members, Swept, NeverTwice, Once
<1>3. /\ n \in Nat /\ gone \in [1 .. n -> Swept(q)]
      /\ \A i, j \in 1 .. n : gone[i] = gone[j] => i = j
  <2>1. Swept(q) \in SUBSET Transfers /\ gone \in InOrder(Swept(q), queue[q])
    BY <1>2
  <2>2. /\ n \in Nat /\ gone \in [1 .. n -> Swept(q)]
        /\ \A i, j \in DOMAIN gone : gone[i] = gone[j] => i = j
    BY <1>2, <2>1, InOrderOnce
  <2> HIDE DEF n
  <2>3. QED
    BY <2>2
<1>4. /\ kept \in Seq(Transfers)
      /\ \A i \in DOMAIN kept : kept[i] \in Members(q) \ Swept(q)
      /\ \A i, j \in DOMAIN kept : kept[i] = kept[j] => i = j
  <2> DEFINE K == Members(q) \ Swept(q)
  <2>1. K \in SUBSET Transfers /\ kept \in InOrder(K, queue[q])
    BY <1>2
  <2> HIDE DEF K
  <2>2. /\ kept \in [1 .. Cardinality(K) -> K] /\ kept \in Seq(Transfers)
        /\ \A i, j \in DOMAIN kept : kept[i] = kept[j] => i = j
    BY <1>2, <2>1, InOrderOnce
  <2>3. QED
    BY <2>2 DEF K
<1>5. SetStates(noted, TickTarget(q), queue[q], posted \o deletes)
  BY <1>1
<1>6. queue' = [queue EXCEPT ![q] = kept] /\ UNCHANGED <<life, handover>>
  BY <1>1 DEF TickQueue
<1> HIDE DEF noted, n
<1>7. /\ Once(queue') /\ Queued' \subseteq Queued
      /\ \A t \in Swept(q) : t \notin Queued'
  <2>1. queue \in [Queues -> Seq(Transfers)] /\ Once(queue)
    BY DEF PlaceInv, NeverTwice, Inv, TypeOK
  <2>2. /\ Once(queue') /\ Queued' \subseteq Queued
        /\ \A t \in Members(q) : (\A i \in DOMAIN kept : kept[i] # t) => t \notin Queued'
    BY <1>4, <1>6, <2>1, FewerOnce
  <2>3. QED
    BY <1>2, <1>4, <2>2
<1>8. Held' = Held
  BY <1>6 DEF Held
<1>9. NeverTwice'
  BY <1>6, <1>7 DEF PlaceInv, NeverTwice
<1>10. Placed' \subseteq Placed /\ Swept(q) \subseteq Placed \ Placed'
  BY <1>2, <1>7, <1>8, PlacedExists DEF Placed
<1>11. /\ deletes \in Seq({Delete(t) : t \in Placed \ Placed'})
       /\ \A i, j \in DOMAIN deletes : deletes[i] = deletes[j] => i = j
  <2> DEFINE D == {Delete(t) : t \in Placed \ Placed'}
  <2>1. \A i \in 1 .. n : Delete(gone[i]) \in D
    BY <1>3, <1>10
  <2>2. \A i \in 1 .. n : Delete(gone[i]).t = gone[i]
    BY DEF Delete
  <2> HIDE DEF D
  <2>3. deletes \in Seq(D)
    BY <1>3, <2>1
  <2>4. \A i, j \in 1 .. n : deletes[i] = deletes[j] => i = j
    BY <1>3, <2>2
  <2>5. DOMAIN deletes = 1 .. n
    OBVIOUS
  <2>6. QED
    BY <2>3, <2>4, <2>5 DEF D
<1>12. Fit(posted \o deletes, life, Placed')
  <2> DEFINE Q == Placed'
  <2> HIDE DEF Q, deletes
  <2>1. posted \in Seq(Events) /\ Fit(posted, life, Placed)
    BY DEF PlaceInv, Inv, TypeOK
  <2>2. \A t \in Placed \ Q : life[t] = "alive"
    BY <1>8, PlacedExists DEF Placed, Q
  <2>3. Q \in SUBSET Placed
    BY <1>10 DEF Q
  <2>4. deletes \in Seq({Delete(t) : t \in Placed \ Q})
    BY <1>11 DEF Q
  <2>5. Fit(posted \o deletes, life, Q)
    BY <1>11, <2>1, <2>2, <2>3, <2>4, FitDeletes
  <2>6. QED
    BY <2>5 DEF Q
<1>13. posted \o deletes \in Seq(Events)
  <2>1. \A i \in 1 .. n : Delete(gone[i]) \in Events
    BY <1>2, <1>3 DEF Delete, Events
  <2>2. deletes \in Seq(Events)
    BY <1>3, <2>1
  <2>3. QED
    BY <2>2 DEF PlaceInv, Inv, TypeOK
<1>14. TickTarget(q) \in Targets
  <2> DEFINE T == {queue[q][i] : i \in Contenders(q)}
  <2>1. T \subseteq Transfers
    BY <1>2 DEF Contenders, Members
  <2>2. TickTarget(q) \in [T -> States]
    BY DEF TickTarget, States
  <2>3. QED
    BY <2>1, <2>2, TargetType
<1> HIDE DEF deletes
<1>15. PICK rs \in Seq(Retries) : posted' = (posted \o deletes) \o rs
  BY <1>5, <1>14, RetriesPosted
<1>16. Fit(posted', life', Placed')
  BY <1>6, <1>12, <1>13, <1>15, FitRetries
<1>17. QED
  BY <1>6, <1>8, <1>9, <1>16 DEF PlaceInv, Exists

\* The events the main thread runs.
LEMMA PostedPlaces ==
  ASSUME QueueAssumption, PlaceInv, Inv', Posted
  PROVE  PlaceInv'
<1> DEFINE ev == Head(posted)
           t == ev.t
           rest == Tail(posted)
<1>1. posted # <<>>
  BY DEF Posted, RunRetry, DropRetry, RunSet, RunDanglingSet, RunDelete, HeadIs
<1>2. /\ ev \in Events /\ rest \in Seq(Events) /\ posted \in Seq(Events)
      /\ life \in [Transfers -> Lives] /\ Fit(posted, life, Placed)
  BY <1>1 DEF PlaceInv, Inv, TypeOK
<1>3. t \in Transfers
  BY <1>2 DEF Events
<1>4. /\ Fit(rest, life, Placed)
      /\ ev.kind = "delete" => Fit(rest, [life EXCEPT ![t] = "gone"], Placed)
  BY <1>1, <1>2, FitTail
<1>5. CASE RunRetry
  <2> DEFINE counted == [transfer EXCEPT ![t].retries = Min(@ + 1, RetryCount + 1)]
             s == IF transfer[t].forced THEN "ForcedActive" ELSE "Waiting"
  <2>1. SetStates(counted, [x \in {t} |-> s], <<t>>, rest)
    BY <1>5 DEF RunRetry
  <2>2. s \in States
    BY DEF States
  <2>3. UNCHANGED <<queue, life, handover>>
    BY <1>5 DEF RunRetry
  <2> HIDE DEF counted, s, rest, t
  <2>4. QED
    BY <1>2, <1>3, <1>4, <2>1, <2>2, <2>3, OneTarget, SamePlacesSet
<1>6. CASE DropRetry
  BY <1>4, <1>6, SamePlaces DEF DropRetry
<1>7. CASE RunSet
  <2>1. ev.state \in States
    BY <1>2, <1>7 DEF RunSet, HeadIs, Events
  <2>2. SetStates(transfer, [x \in {t} |-> ev.state], <<t>>, rest)
    BY <1>7 DEF RunSet, ChangeState, ChangeStates
  <2>3. UNCHANGED <<queue, life, handover>>
    BY <1>7 DEF RunSet
  <2> HIDE DEF rest, t, ev
  <2>4. QED
    BY <1>2, <1>3, <1>4, <2>1, <2>2, <2>3, OneTarget, SamePlacesSet
<1>8. CASE RunDanglingSet
  <2>1. ev.state \in States
    BY <1>2, <1>8 DEF RunDanglingSet, HeadIs, Events
  <2>2. UNCHANGED <<queue, life, handover>>
    BY <1>8 DEF RunDanglingSet
  <2>3. CASE posted' = rest
    BY <1>4, <2>2, <2>3, SamePlaces
  <2>4. ASSUME NEW u \in Transfers, ChangeState(u, ev.state, rest)
        PROVE  PlaceInv'
    <3>1. SetStates(transfer, [x \in {u} |-> ev.state], <<u>>, rest)
      BY <2>4 DEF ChangeState, ChangeStates
    <3> HIDE DEF rest, t, ev
    <3>2. QED
      BY <1>2, <1>4, <2>1, <2>2, <3>1, OneTarget, SamePlacesSet
  <2>5. QED
    BY <1>8, <2>3, <2>4 DEF RunDanglingSet
<1>9. CASE RunDelete
  <2>1. ev.kind = "delete" /\ ev = Delete(t)
    BY <1>2, <1>9, KindDelete DEF RunDelete, HeadIs
  <2>2. /\ life' = [life EXCEPT ![t] = "gone"] /\ posted' = rest
        /\ UNCHANGED <<queue, handover>>
    BY <1>9 DEF RunDelete
  <2>3. 1 \in DOMAIN posted /\ posted[1] = ev
    BY <1>1, <1>2
  <2>4. t \notin Placed
    BY <1>2, <2>1, <2>3 DEF Fit
  <2>5. Queued' = Queued /\ Held' = Held /\ Placed' = Placed
    BY <2>2 DEF Queued, Members, Held, Placed
  <2>6. \A u \in Placed : life'[u] = life[u]
    BY <1>2, <2>2, <2>4
  <2>7. NeverTwice' /\ \A u \in Held' : Exists(u)'
    BY <2>2, <2>5, <2>6 DEF PlaceInv, NeverTwice, Placed, Exists
  <2>8. \A u \in Transfers : life'[u] = "new" => u \in Held'
    BY <1>2, <1>3, <2>2, <2>5 DEF PlaceInv
  <2>9. QED
    BY <1>4, <2>1, <2>2, <2>5, <2>7, <2>8 DEF PlaceInv
<1>10. QED
  BY <1>5, <1>6, <1>7, <1>8, <1>9 DEF Posted

\* One transfer taken out of its queue is in none.
LEMMA TakeOut ==
  ASSUME QueueAssumption, PlaceInv, NEW t \in Transfers, NEW q \in Queues,
         t \in Members(q), NEW rest \in Without(t, queue[q]),
         queue' = [queue EXCEPT ![q] = rest]
  PROVE  Once(queue') /\ Queued' \subseteq Queued \ {t} /\ t \in Queued
<1> DEFINE K == {queue[q][i] : i \in DOMAIN queue[q]} \ {t}
<1>1. /\ queue \in [Queues -> Seq(Transfers)] /\ Once(queue)
      /\ queue[q] \in Seq(Transfers)
      /\ \A a, b \in DOMAIN queue[q] : queue[q][a] = queue[q][b] => a = b
  BY DEF PlaceInv, NeverTwice, Inv, TypeOK, Once
<1>2. K \in SUBSET Transfers /\ rest \in InOrder(K, queue[q]) /\ K = Members(q) \ {t}
  BY <1>1 DEF Without, Members
<1> HIDE DEF K
<1>3. /\ rest \in [1 .. Cardinality(K) -> K] /\ rest \in Seq(Transfers)
      /\ \A i, j \in DOMAIN rest : rest[i] = rest[j] => i = j
  BY <1>1, <1>2, InOrderOnce
<1>4. \A i \in DOMAIN rest : rest[i] \in Members(q) /\ rest[i] # t
  BY <1>2, <1>3
<1>5. /\ Once(queue') /\ Queued' \subseteq Queued
      /\ \A u \in Members(q) : (\A i \in DOMAIN rest : rest[i] # u) => u \notin Queued'
  BY <1>1, <1>3, <1>4, FewerOnce
<1>6. QED
  BY <1>4, <1>5, PlacedExists

\* Queue::remove() posts the delete of a transfer it has taken out.
LEMMA RemovePlaces ==
  ASSUME QueueAssumption, PlaceInv, Inv', NEW t \in Transfers, Remove(t)
  PROVE  PlaceInv'
<1>1. PICK q \in Queues : t \in Members(q) /\
        \E rest \in Without(t, queue[q]) : queue' = [queue EXCEPT ![q] = rest]
  BY DEF Remove
<1>2. Once(queue') /\ Queued' \subseteq Queued \ {t} /\ t \in Queued
  BY <1>1, TakeOut
<1>3. posted' = Append(posted, Delete(t)) /\ UNCHANGED <<life, handover>>
  BY DEF Remove
<1>4. Held' = Held
  BY <1>3 DEF Held
<1>5. NeverTwice'
  BY <1>2, <1>3 DEF PlaceInv, NeverTwice
<1> DEFINE Q == Placed'
<1>6. Q \in SUBSET Placed /\ t \in Placed \ Q
  BY <1>2, <1>4, PlacedExists DEF Placed
<1> HIDE DEF Q
<1>7. Fit(posted \o <<Delete(t)>>, life, Q)
  <2>1. /\ <<Delete(t)>> \in Seq({Delete(u) : u \in Placed \ Q})
        /\ \A i, j \in DOMAIN <<Delete(t)>> : <<Delete(t)>>[i] = <<Delete(t)>>[j] => i = j
    BY <1>6
  <2>2. posted \in Seq(Events) /\ Fit(posted, life, Placed)
    BY DEF PlaceInv, Inv, TypeOK
  <2>3. \A u \in Placed \ Q : life[u] = "alive"
    BY <1>4, PlacedExists DEF Placed, Q
  <2>4. QED
    BY <1>6, <2>1, <2>2, <2>3, FitDeletes
<1>8. posted' = posted \o <<Delete(t)>>
  <2>1. posted \in Seq(Events) /\ Delete(t) \in Events
    BY DEF PlaceInv, Inv, TypeOK, Delete, Events
  <2>2. QED
    BY <1>3, <2>1
<1>9. Fit(posted', life', Placed')
  BY <1>3, <1>7, <1>8 DEF Q
<1>10. QED
  BY <1>3, <1>4, <1>5, <1>9 DEF PlaceInv, Exists

\* What else REST workers do with transfers that exist.
LEMMA WorkerPlaces ==
  ASSUME QueueAssumption, PlaceInv, Inv', NEW t \in Transfers, Worker(t)
  PROVE  PlaceInv'
<1>1. /\ posted \in Seq(Events) /\ Fit(posted, life, Placed)
      /\ queue \in [Queues -> Seq(Transfers)] /\ Once(queue)
      /\ handover \in [Transfers -> Queues \cup {NoQueue}]
      /\ life \in [Transfers -> Lives]
  BY DEF PlaceInv, NeverTwice, Inv, TypeOK
<1>2. ASSUME NEW s \in RestStates, PostState(t, s)
      PROVE  PlaceInv'
  <2>1. s \in States /\ t \in Placed /\ life[t] = "alive"
    BY <1>2, PlacedExists DEF PostState, QueueAssumption, Placed
  <2>2. Fit(Append(posted, Set(t, s)), life, Placed)
    BY <1>1, <2>1, NotDeleted, FitSet
  <2>3. QED
    BY <1>2, <2>2, SamePlaces DEF PostState
<1>3. CASE HandOver(t)
  <2> DEFINE q == handover[t]
  <2>1. /\ q \in Queues /\ t \in Held
        /\ queue' = [queue EXCEPT ![q] = Append(@, t)]
        /\ handover' = [handover EXCEPT ![t] = NoQueue]
        /\ life' = [life EXCEPT ![t] = "alive"] /\ UNCHANGED posted
    BY <1>1, <1>3 DEF HandOver, Held
  <2> HIDE DEF q
  <2>2. t \notin Queued
    BY <2>1, PlacedExists
  <2>3. Once(queue') /\ Queued' \subseteq Queued \cup {t}
    BY <1>1, <2>1, <2>2, AppendOnce
  <2>4. Held' = Held \ {t}
    BY <1>1, <2>1 DEF Held
  <2>5. \A u \in Queued' : life'[u] = "alive" /\ u \notin Held'
    BY <1>1, <2>1, <2>3, <2>4, PlacedExists DEF Placed
  <2>6. Queued' \subseteq Transfers
    BY <2>3, PlacedExists DEF Placed
  <2>7. NeverTwice'
    BY <2>1, <2>3, <2>5, <2>6 DEF NeverTwice, Held
  <2>8. Placed' \in SUBSET Placed
    BY <2>1, <2>3, <2>4 DEF Placed
  <2>9. Fit(posted', life', Placed')
    <3>1. life[t] \in {"new", "alive"}
      BY <2>1, PlacedExists DEF Placed, Exists
    <3>2. Fit(posted, [life EXCEPT ![t] = "alive"], Placed)
      BY <1>1, <3>1, FitSettled
    <3>3. QED
      BY <2>1, <2>8, <3>2, FitFewer
  <2>10. /\ \A u \in Held' : Exists(u)'
         /\ \A u \in Transfers : life'[u] = "new" => u \in Held'
    BY <1>1, <2>1, <2>4 DEF PlaceInv, Exists
  <2>11. QED
    BY <2>7, <2>9, <2>10 DEF PlaceInv
<1>4. ASSUME NEW q \in Queues, TakeTransfer(t, q)
      PROVE  PlaceInv'
  <2>1. PICK p \in Queues : t \in Members(p) /\
          \E rest \in Without(t, queue[p]) : queue' = [queue EXCEPT ![p] = rest]
    BY <1>4 DEF TakeTransfer
  <2>2. Once(queue') /\ Queued' \subseteq Queued \ {t} /\ t \in Queued
    BY <2>1, TakeOut
  <2>3. handover' = [handover EXCEPT ![t] = q] /\ UNCHANGED <<life, posted>>
    BY <1>4 DEF TakeTransfer
  <2>4. Held' \subseteq Held \cup {t}
    BY <1>1, <2>3 DEF Held
  <2>5. NeverTwice'
    <3>1. \A u \in Queued' : life[u] = "alive" /\ handover'[u] = NoQueue
      BY <2>2, <2>3 DEF PlaceInv, NeverTwice
    <3>2. QED
      BY <2>2, <2>3, <3>1 DEF NeverTwice
  <2>6. /\ \A u \in Held' : Exists(u)'
        /\ \A u \in Transfers : life'[u] = "new" => u \in Held'
    <3>1. \A u \in Held' : Exists(u)'
      BY <2>2, <2>3, <2>4, PlacedExists DEF Placed, Exists
    <3>2. \A u \in Transfers : life'[u] = "new" => u # t /\ u \in Held
      BY <2>2, <2>3, PlacedExists DEF PlaceInv
    <3>3. \A u \in Held : u # t => u \in Held'
      BY <1>1, <2>3 DEF Held
    <3>4. QED
      BY <3>1, <3>2, <3>3
  <2>7. Placed' \in SUBSET Placed
    BY <2>2, <2>4 DEF Placed
  <2>8. Fit(posted', life', Placed')
    BY <1>1, <2>3, <2>7, FitFewer
  <2>9. QED
    BY <2>5, <2>6, <2>8 DEF PlaceInv
<1>5. CASE RollBack(t)
  <2>1. /\ life[t] = "new" /\ life' = [life EXCEPT ![t] = "discarded"]
        /\ handover' = [handover EXCEPT ![t] = NoQueue]
        /\ UNCHANGED <<queue, posted>>
    BY <1>5 DEF RollBack
  <2>2. Queued' = Queued /\ Held' = Held \ {t}
    BY <1>1, <2>1 DEF Queued, Members, Held
  <2>3. t \notin Queued /\ \A u \in Transfers \ {t} : life'[u] = life[u]
    BY <1>1, <2>1, PlacedExists
  <2>4. life'[t] = "discarded"
    BY <1>1, <2>1
  <2>5. NeverTwice'
    <3>1. \A u \in Queued' : life'[u] = "alive" /\ handover'[u] = NoQueue
      BY <1>1, <2>1, <2>2, <2>3, PlacedExists DEF PlaceInv, NeverTwice, Placed
    <3>2. QED
      BY <1>1, <2>1, <3>1 DEF NeverTwice
  <2>6. /\ \A u \in Held' : Exists(u)'
        /\ \A u \in Transfers : life'[u] = "new" => u \in Held'
    BY <2>2, <2>3, <2>4, PlacedExists DEF PlaceInv, Exists, Placed
  <2>7. Placed' \in SUBSET Placed
    BY <2>2 DEF Placed
  <2>8. Fit(posted, [life EXCEPT ![t] = "discarded"], Placed)
    BY <1>1, <2>1, FitSettled
  <2>9. Fit(posted', life', Placed')
    BY <2>1, <2>7, <2>8, FitFewer
  <2>10. QED
    BY <2>5, <2>6, <2>9 DEF PlaceInv
<1>6. QED
  BY <1>2, <1>3, <1>4, <1>5 DEF Worker

\* Adding a transfer, from the desktop or by a REST worker.
LEMMA AddingPlaces ==
  ASSUME QueueAssumption, PlaceInv, Inv', NEW t \in Transfers, NEW q \in Queues, Adding(t, q)
  PROVE  PlaceInv'
<1> PICK s \in {"Waiting", "Paused"} : AddTransfer(t, q, s) \/ CreateTransfer(t, q, s)
  BY DEF Adding
<1>1. /\ posted \in Seq(Events) /\ Fit(posted, life, Placed) /\ s \in States
      /\ queue \in [Queues -> Seq(Transfers)] /\ Once(queue)
      /\ handover \in [Transfers -> Queues \cup {NoQueue}]
      /\ life \in [Transfers -> Lives]
  BY DEF PlaceInv, NeverTwice, Inv, TypeOK, States
<1>2. PICK l \in {"alive", "new"} :
        /\ (l = "alive" /\ AddTransfer(t, q, s)) \/ (l = "new" /\ CreateTransfer(t, q, s))
        /\ life[t] = "none" /\ life' = [life EXCEPT ![t] = l]
  BY DEF AddTransfer, CreateTransfer
<1>3. t \notin Placed /\ t \notin Queued /\ t \notin Held
  BY <1>2, PlacedExists DEF Placed, Exists
<1> DEFINE born == [life EXCEPT ![t] = l]
<1>4. /\ Fit(posted, born, Placed \cup {t}) /\ born \in [Transfers -> Lives]
      /\ \A i \in DOMAIN posted : posted[i].kind = "set" => posted[i].t # t
  BY <1>1, <1>2, FitBirth DEF Lives
<1>5. born[t] = l /\ \A u \in Transfers \ {t} : born[u] = life[u]
  BY <1>1
<1>6. life' = born
  BY <1>2
<1> HIDE DEF born
<1>7. CASE l = "alive" /\ AddTransfer(t, q, s)
  <2>1. /\ SetStates(transfer, [x \in {t} |-> s], <<t>>, posted)
        /\ queue' = [queue EXCEPT ![q] = Append(@, t)]
        /\ UNCHANGED handover /\ l = "alive"
    BY <1>7 DEF AddTransfer, ChangeState, ChangeStates
  <2>2. Once(queue') /\ Queued' \subseteq Queued \cup {t}
    BY <1>1, <1>3, <2>1, AppendOnce
  <2>3. Held' = Held
    BY <2>1 DEF Held
  <2>4. NeverTwice'
    <3>1. \A u \in Queued' : born[u] = "alive" /\ handover[u] = NoQueue
      BY <1>3, <1>5, <2>1, <2>2, PlacedExists DEF PlaceInv, NeverTwice, Placed, Held
    <3>2. QED
      BY <1>6, <2>1, <2>2, <3>1 DEF NeverTwice
  <2>5. Placed' \in SUBSET (Placed \cup {t})
    BY <2>2, <2>3 DEF Placed
  <2>6. PICK rs \in Seq(Retries) : posted' = posted \o rs
    BY <1>1, <2>1, OneTarget, RetriesPosted
  <2>7. Fit(posted', born, Placed \cup {t})
    BY <1>1, <1>4, <2>6, FitRetries
  <2>8. Fit(posted', life', Placed')
    BY <1>6, <2>5, <2>7, FitFewer
  <2>9. /\ \A u \in Held' : Exists(u)'
        /\ \A u \in Transfers : life'[u] = "new" => u \in Held'
    BY <1>3, <1>5, <1>6, <2>1, <2>3, PlacedExists DEF PlaceInv, Exists, Placed
  <2>10. QED
    BY <2>4, <2>8, <2>9 DEF PlaceInv
<1>8. CASE l = "new" /\ CreateTransfer(t, q, s)
  <2>1. /\ posted' = Append(posted, Set(t, s))
        /\ handover' = [handover EXCEPT ![t] = q]
        /\ UNCHANGED queue /\ l = "new"
    BY <1>8 DEF CreateTransfer
  <2>2. Queued' = Queued /\ Held' = Held \cup {t}
    <3>1. q # NoQueue
      BY DEF Queues, NoQueue
    <3>2. QED
      BY <1>1, <2>1, <3>1 DEF Queued, Members, Held
  <2>3. NeverTwice'
    <3>1. \A u \in Queued' : born[u] = "alive" /\ handover'[u] = NoQueue
      BY <1>1, <1>3, <1>5, <2>1, <2>2, PlacedExists DEF PlaceInv, NeverTwice, Placed
    <3>2. QED
      BY <1>1, <1>6, <2>1, <3>1 DEF NeverTwice
  <2>4. Placed' \in SUBSET (Placed \cup {t})
    BY <2>2 DEF Placed
  <2>5. \A i \in DOMAIN posted : posted[i] # Delete(t)
    BY <1>1, <1>2, NotDeleted
  <2>6. Fit(posted', born, Placed \cup {t})
    BY <1>1, <1>4, <1>5, <2>1, <2>5, FitSet
  <2>7. Fit(posted', life', Placed')
    BY <1>6, <2>4, <2>6, FitFewer
  <2>8. /\ \A u \in Held' : Exists(u)'
        /\ \A u \in Transfers : life'[u] = "new" => u \in Held'
    BY <1>3, <1>5, <1>6, <2>1, <2>2, PlacedExists DEF PlaceInv, Exists, Placed
  <2>9. QED
    BY <2>3, <2>7, <2>8 DEF PlaceInv
<1>9. QED
  BY <1>2, <1>7, <1>8

\* Engines, and the commands of the desktop.
LEMMA CommandPlaces ==
  ASSUME QueueAssumption, PlaceInv, Inv', NEW t \in Transfers,
         Engine(t) \/ TransferCommand(t)
  PROVE  PlaceInv'
<1>1. CASE EngineFails(t)
  BY <1>1, OneStateSet DEF EngineFails, States
<1>2. CASE EngineCompletes(t)
  BY <1>2, OneStateSet DEF EngineCompletes, States
<1>3. CASE TorrentSeeds(t)
  BY <1>3, SamePlaces DEF TorrentSeeds, PlaceInv
<1>4. CASE Start(t)
  BY <1>4, OneStateSet DEF Start, Command, States
<1>5. CASE ForceStart(t)
  BY <1>5, OneStateSet DEF ForceStart, Command, States
<1>6. CASE Pause(t)
  BY <1>6, OneStateSet DEF Pause, Command, States
<1>7. CASE Remove(t)
  BY <1>7, RemovePlaces
<1>8. QED
  BY <1>1, <1>2, <1>3, <1>4, <1>5, <1>6, <1>7 DEF Engine, TransferCommand

\* Commands on one queue, its order and its limits.
LEMMA QueueCommandPlaces ==
  ASSUME QueueAssumption, PlaceInv, Inv', NEW q \in Queues, QueueCommand(q)
  PROVE  PlaceInv'
<1>1. /\ posted \in Seq(Events) /\ Fit(posted, life, Placed)
      /\ queue \in [Queues -> Seq(Transfers)] /\ Once(queue)
      /\ queue' \in [Queues -> Seq(Transfers)]
  BY DEF PlaceInv, NeverTwice, Inv, TypeOK
<1>2. ASSUME NEW S, NEW s \in States, CommandQueue(q, S, s)
      PROVE  PlaceInv'
  <2> DEFINE T == {u \in Members(q) : transfer[u].state \in S}
             target == [t \in T |-> s]
  <2>1. target \in [T -> States] /\ T \in SUBSET Transfers
    BY <1>1 DEF Members
  <2>2. target \in Targets
    BY <2>1, TargetType
  <2>3. SetStates(transfer, target, queue[q], posted) /\ UNCHANGED <<queue, life, handover>>
    BY <1>2 DEF CommandQueue, ChangeStates
  <2> HIDE DEF target
  <2>4. QED
    BY <1>1, <2>2, <2>3, SamePlacesSet
<1>3. ASSUME NEW i \in DOMAIN queue[q], NEW j \in DOMAIN queue[q], Move(q, i, j)
      PROVE  PlaceInv'
  <2>1. Once(queue') /\ Queued' \subseteq Queued
    BY <1>1, <1>3, MoveOnce
  <2>2. UNCHANGED <<life, handover, posted>>
    BY <1>3 DEF Move
  <2>3. Held' = Held
    BY <2>2 DEF Held
  <2>4. NeverTwice'
    BY <2>1, <2>2 DEF PlaceInv, NeverTwice
  <2>5. Placed' \in SUBSET Placed
    BY <2>1, <2>3 DEF Placed
  <2>6. QED
    BY <1>1, <2>2, <2>3, <2>4, <2>5, FitFewer DEF PlaceInv, Exists
<1>4. ASSUME NEW l \in LimitChoices, SetTransferLimits(q, l)
      PROVE  PlaceInv'
  BY <1>1, <1>4, SamePlaces DEF SetTransferLimits
<1>5. CASE StartAll(q) \/ PauseQueue(q) \/ ResumeAll(q) \/ StopAll(q)
  BY <1>2, <1>5 DEF StartAll, PauseQueue, ResumeAll, StopAll, States
<1>6. QED
  BY <1>3, <1>4, <1>5 DEF QueueCommand

\* "Pause all transfers", chosen once and again.
LEMMA PauseAllPlaces ==
  ASSUME QueueAssumption, PlaceInv, Inv', PauseAllTransfers \/ UnpauseAllTransfers
  PROVE  PlaceInv'
<1>1. posted \in Seq(Events) /\ Fit(posted, life, Placed) /\ Queued \subseteq Transfers
  BY PlacedExists DEF PlaceInv, Inv, TypeOK, Placed
<1>2. CASE PauseAllTransfers
  <2> DEFINE T == {t \in Queued : transfer[t].state \in {"Waiting", "Active", "ForcedActive"}}
             target == [t \in T |-> "Paused"]
  <2>1. target \in [T -> States] /\ T \in SUBSET Transfers
    BY <1>1 DEF States
  <2>2. target \in Targets
    BY <2>1, TargetType
  <2>3. SetStates(transfer, target, <<>>, posted) /\ UNCHANGED <<queue, life, handover>>
    BY <1>2 DEF PauseAllTransfers
  <2> HIDE DEF target
  <2>4. QED
    BY <1>1, <2>2, <2>3, SamePlacesSet
<1>3. CASE UnpauseAllTransfers
  <2>1. UNCHANGED <<queue, life, handover>>
    BY <1>3 DEF UnpauseAllTransfers
  <2>2. CASE UNCHANGED posted
    BY <1>1, <2>1, <2>2, SamePlaces
  <2>3. ASSUME NEW p \in Restorable,
               LET t == queue[p[1]][p[2]]
               IN  SetStates(transfer, [x \in {t} |-> paused[t]], <<t>>, posted)
        PROVE  PlaceInv'
    <3> DEFINE t == queue[p[1]][p[2]]
    <3>1. p[1] \in Queues /\ p[2] \in DOMAIN queue[p[1]] /\ paused[t] # NotSaved
      BY DEF Restorable
    <3>2. t \in Transfers
      BY <3>1 DEF PlaceInv, Inv, TypeOK
    <3>3. paused[t] \in States
      BY <3>1, <3>2 DEF PlaceInv, Inv, TypeOK, States
    <3>4. SetStates(transfer, [x \in {t} |-> paused[t]], <<t>>, posted)
      BY <2>3
    <3> HIDE DEF t
    <3>5. QED
      BY <1>1, <2>1, <3>2, <3>3, <3>4, OneTarget, SamePlacesSet
  <2>4. QED
    BY <1>3, <2>2, <2>3 DEF UnpauseAllTransfers
<1>4. QED
  BY <1>2, <1>3

-----------------------------------------------------------------------------

\* Each transfer read at startup is in the place it was read for.
LEMMA PlaceInit == ASSUME QueueAssumption, Init PROVE PlaceInv
<1>1. Queued \subseteq Transfers /\ Held = {}
  BY DEF Init, QueueAssumption, Queued, Members, Held
<1>2. NeverTwice
  BY <1>1 DEF Init, QueueAssumption, NeverTwice
<1>3. Fit(posted, life, Placed)
  BY DEF Init, Fit
<1>4. QED
  <2>1. \A t \in Transfers : life[t] # "new"
    BY DEF Init
  <2>2. QED
    BY <1>1, <1>2, <1>3, <2>1, InvInit DEF PlaceInv

\* Every step keeps the invariant.
LEMMA PlaceNext == ASSUME QueueAssumption, PlaceInv, [Next]_vars PROVE PlaceInv'
<1>1. Inv'
  BY InvNext DEF PlaceInv
<1>2. ASSUME NEW q \in Queues, TickQueue(q) \/ QueueCommand(q)
      PROVE  PlaceInv'
  BY <1>1, <1>2, TickPlaces, QueueCommandPlaces
<1>3. CASE Posted \/ PauseAllTransfers \/ UnpauseAllTransfers
  BY <1>1, <1>3, PostedPlaces, PauseAllPlaces
<1>4. ASSUME NEW t \in Transfers, Engine(t) \/ TransferCommand(t) \/ Worker(t)
      PROVE  PlaceInv'
  BY <1>1, <1>4, CommandPlaces, WorkerPlaces
<1>5. ASSUME NEW t \in Transfers, NEW q \in Queues, Adding(t, q)
      PROVE  PlaceInv'
  BY <1>1, <1>5, AddingPlaces
<1>6. CASE UNCHANGED vars
  BY <1>1, <1>6, SamePlaces DEF vars, PlaceInv
<1>7. QED
  BY <1>2, <1>3, <1>4, <1>5, <1>6 DEF Next

\* Transfers have one place at most, and what is posted for them suits it.
THEOREM PlaceInvariance == Spec => []PlaceInv
<1>1. Init => PlaceInv
  BY QueueAssumption, PlaceInit
<1>2. PlaceInv /\ [Next]_vars => PlaceInv'
  BY QueueAssumption, PlaceNext
<1>3. QED
  BY <1>1, <1>2, PTL DEF Spec

\* However many requests move, add and remove transfers beside the main thread,
\* no transfer is in two places.
THEOREM OnePlaceEach == Spec => []NeverTwice
BY PlaceInvariance, PTL DEF PlaceInv

\* However workers and the main thread interleave, a setStateSlot() that meets a
\* deleted transfer is the one posted at the creation of a transfer that its worker
\* has discarded since: no removal of a transfer from its queue leaves another.
THEOREM EventsMeetLiveTransfers == Spec => []NoDanglingEvents
<1>1. PlaceInv => NoDanglingEvents
  BY DEF PlaceInv, Fit, SetFits, NoDanglingEvents, SetAt, Exists
<1>2. QED
  BY <1>1, PlaceInvariance, PTL

-----------------------------------------------------------------------------
(* A tick of QueueMgr::doWork()                                             *)

\* setState() changes no mode, and a transfer that is told to be Active does not wait.
LEMMA RecordAfter ==
  ASSUME NEW r \in Records, NEW s \in States, NEW o \in Outcomes
  PROVE  LET n == AfterSetState(r, s, o)
         IN  n.mode = r.mode /\ (s = "Active" => n.state # "Waiting")
BY DEF AfterSetState, Started, Records, States, Modes, IsActive, Outcomes

LEMMA SetStatesAfter ==
  ASSUME NEW base \in [Transfers -> Records], NEW target \in Targets, NEW seq, NEW before,
         SetStates(base, target, seq, before)
  PROVE  /\ \A t \in Transfers : transfer'[t].mode = base[t].mode
         /\ \A t \in DOMAIN target : target[t] = "Active" => transfer'[t].state # "Waiting"
<1> DEFINE T == DOMAIN target
           starting == {t \in T : IsActive(target[t]) /\ ~IsActive(base[t].state)}
<1>1. T \subseteq Transfers /\ target \in [T -> States]
  BY DEF Targets
<1>2. PICK outcome \in [starting -> Outcomes] :
        LET how(t) == IF t \in starting THEN outcome[t] ELSE "runs"
        IN  transfer' = [t \in Transfers |->
              IF t \in T THEN AfterSetState(base[t], target[t], how(t)) ELSE base[t]]
  BY DEF SetStates
<1> DEFINE how(t) == IF t \in starting THEN outcome[t] ELSE "runs"
<1>3. \A t \in T : how(t) \in Outcomes
  BY DEF Outcomes
<1>4. transfer' = [t \in Transfers |->
         IF t \in T THEN AfterSetState(base[t], target[t], how(t)) ELSE base[t]]
  BY <1>2
<1> HIDE DEF how, starting
<1>5. QED
  BY <1>1, <1>3, <1>4, RecordAfter

\* What doWork() does to a queue and to the states and modes of all transfers.
LEMMA TickEffect ==
  ASSUME QueueAssumption, PlaceInv, NEW q \in Queues, TickQueue(q)
  PROVE  /\ queue' \in [Queues -> Seq(Transfers)]
         /\ queue'[q] \in InOrder(Members(q) \ Swept(q), queue[q])
         /\ \A t \in Transfers : transfer'[t].mode = transfer[t].mode
         /\ DOMAIN TickTarget(q) = {queue[q][i] : i \in Contenders(q)}
         /\ \A t \in Transfers \ DOMAIN TickTarget(q) :
              transfer'[t].state = transfer[t].state
         /\ \A t \in DOMAIN TickTarget(q) :
              /\ TickTarget(q)[t] = "Waiting" => transfer'[t].state = "Waiting"
              /\ TickTarget(q)[t] = "Active" => transfer'[t].state # "Waiting"
<1>1. PICK fast \in SUBSET {t \in Members(q) : transfer[t].engine},
           gone \in InOrder(Swept(q), queue[q]),
           kept \in InOrder(Members(q) \ Swept(q), queue[q]) :
       LET noted == [t \in Transfers |->
             IF t \in fast THEN [transfer[t] EXCEPT !.working = TRUE]
                           ELSE transfer[t]]
           deletes == [i \in 1 .. Cardinality(Swept(q)) |-> Delete(gone[i])]
       IN  /\ SetStates(noted, TickTarget(q), queue[q], posted \o deletes)
           /\ queue' = [queue EXCEPT ![q] = kept]
  BY DEF TickQueue
<1> DEFINE noted == [t \in Transfers |->
             IF t \in fast THEN [transfer[t] EXCEPT !.working = TRUE]
                           ELSE transfer[t]]
           deletes == [i \in 1 .. Cardinality(Swept(q)) |-> Delete(gone[i])]
           before == posted \o deletes
           T == {queue[q][i] : i \in Contenders(q)}
<1>2. /\ Members(q) \subseteq Transfers /\ queue \in [Queues -> Seq(Transfers)]
      /\ posted \in Seq(Events)
  BY DEF PlaceInv, Inv, TypeOK, Members
<1>3. noted \in [Transfers -> Records]
  <2>1. \A t \in Transfers : transfer[t] \in Records
    BY DEF PlaceInv, Inv, TypeOK, Records
  <2>2. \A t \in Transfers : [transfer[t] EXCEPT !.working = TRUE] \in Records
    BY <2>1 DEF Records
  <2>3. QED
    BY <2>1, <2>2
<1>4. \A t \in Transfers : /\ noted[t].state = transfer[t].state
                          /\ noted[t].mode = transfer[t].mode
                          /\ noted[t].engine = transfer[t].engine
  BY DEF PlaceInv, Inv, TypeOK, Records
<1>5. T \subseteq Transfers /\ TickTarget(q) \in [T -> States]
  BY <1>2 DEF Contenders, Members, TickTarget, States
<1>6. TickTarget(q) \in Targets /\ DOMAIN TickTarget(q) = T
  BY <1>5, TargetType
<1>7. SetStates(noted, TickTarget(q), queue[q], before)
  BY <1>1
<1>8. before \in Seq(Events)
  <2>1. gone \in Seq(Transfers) /\ Cardinality(Swept(q)) \in Nat
        /\ gone \in [1 .. Cardinality(Swept(q)) -> Swept(q)] /\ Swept(q) \subseteq Transfers
    BY <1>2, SublistType DEF Swept, InOrder
  <2> DEFINE n == Cardinality(Swept(q))
  <2> HIDE DEF n
  <2>2. \A i \in 1 .. n : Delete(gone[i]) \in Events
    BY <2>1 DEF n, Delete, Events
  <2>3. deletes \in Seq(Events)
    BY <2>1, <2>2 DEF n
  <2> HIDE DEF deletes
  <2>4. QED
    BY <1>2, <2>3
<1>9. \A t \in Transfers : noted[t].engine <=> IsActive(noted[t].state)
  BY <1>4 DEF PlaceInv, Inv, EngineMatchesState
<1> HIDE DEF noted, before, T
<1>10. /\ \A t \in Transfers \ DOMAIN TickTarget(q) : transfer'[t] = noted[t]
       /\ \A t \in DOMAIN TickTarget(q) :
            TickTarget(q)[t] = noted[t].state \/ ~IsActive(TickTarget(q)[t])
              => transfer'[t].state = TickTarget(q)[t]
  BY <1>3, <1>6, <1>7, <1>8, <1>9, SetStatesEffect
<1>11. /\ \A t \in Transfers : transfer'[t].mode = noted[t].mode
       /\ \A t \in DOMAIN TickTarget(q) :
            TickTarget(q)[t] = "Active" => transfer'[t].state # "Waiting"
  BY <1>3, <1>6, <1>7, SetStatesAfter
<1>12. queue' = [queue EXCEPT ![q] = kept] /\ kept \in Seq(Transfers)
  BY <1>1, <1>2, SublistType
<1>13. QED
  BY <1>2, <1>4, <1>6, <1>10, <1>11, <1>12 DEF IsActive, T

-----------------------------------------------------------------------------
(* Who competes, and who gets a place                                      *)

\* A transfer of the queue that is Active after a tick got one of the places.
LEMMA ActiveHasSlot ==
  ASSUME QueueAssumption, PlaceInv, NEW q \in Queues, TickQueue(q),
         NEW t \in Members(q), transfer'[t].state = "Active"
  PROVE  \E i \in Contenders(q) : queue[q][i] = t /\ HasSlot(q, i)
<1>1. t \in Transfers /\ \E i \in DOMAIN queue[q] : queue[q][i] = t
  BY DEF PlaceInv, Inv, TypeOK, Members
<1>2. \/ t \notin DOMAIN TickTarget(q) /\ transfer[t].state = "Active"
      \/ t \in DOMAIN TickTarget(q) /\ TickTarget(q)[t] # "Waiting"
  BY <1>1, TickEffect
<1>3. t \in DOMAIN TickTarget(q) <=> t \in {queue[q][i] : i \in Contenders(q)}
  BY TickEffect
<1>4. t \in DOMAIN TickTarget(q) /\ TickTarget(q)[t] # "Waiting"
  BY <1>1, <1>2, <1>3 DEF Contenders
<1>5. QED
  BY <1>3, <1>4 DEF TickTarget

\* One that waits after a tick competed and got none.
LEMMA WaitingHasNoSlot ==
  ASSUME QueueAssumption, PlaceInv, NEW q \in Queues, TickQueue(q),
         NEW i \in DOMAIN queue[q], transfer'[queue[q][i]].state = "Waiting"
  PROVE  i \in Contenders(q) /\ ~HasSlot(q, i)
<1> DEFINE t == queue[q][i]
<1>1. t \in Transfers
  BY DEF PlaceInv, Inv, TypeOK
<1>2. \A k \in DOMAIN queue[q] : queue[q][k] = t => k = i
  BY DEF PlaceInv, NeverTwice, Once
<1>3. \A k \in Contenders(q) : k \in DOMAIN queue[q]
  BY DEF Contenders
<1>4. t \in DOMAIN TickTarget(q) <=> i \in Contenders(q)
  <2>1. DOMAIN TickTarget(q) = {queue[q][k] : k \in Contenders(q)}
    BY TickEffect
  <2>2. QED
    BY <1>2, <1>3, <2>1
<1>5. i \in Contenders(q)
  BY <1>1, <1>4, TickEffect DEF Contenders
<1>6. HasSlot(q, i) => TickTarget(q)[t] = "Active"
  BY <1>5 DEF TickTarget
<1>7. QED
  BY <1>4, <1>5, <1>6, TickEffect

-----------------------------------------------------------------------------
(* Order                                                                   *)

\* Whoever is ahead of a transfer with a place in the same lane has one as well.
LEMMA SlotsAhead ==
  ASSUME QueueAssumption, PlaceInv, NEW q \in Queues,
         NEW i \in Contenders(q), NEW j \in Contenders(q), i < j,
         Lane(queue[q][i]) = Lane(queue[q][j]), HasSlot(q, j)
  PROVE  HasSlot(q, i)
<1> DEFINE lane == Lane(queue[q][j])
           ahead(k) == {l \in Contenders(q) : l < k /\ Lane(queue[q][l]) = lane}
<1>1. /\ DOMAIN queue[q] = 1 .. Len(queue[q]) /\ Len(queue[q]) \in Nat
      /\ limit[q] \in [down : Int, up : Int]
  BY DEF PlaceInv, Inv, TypeOK, QueueAssumption
<1>2. lane \in {"down", "up"}
  BY DEF Lane
<1>3. limit[q][lane] \in Int
  BY <1>1, <1>2
<1>4. Contenders(q) \subseteq 1 .. Len(queue[q])
  BY <1>1 DEF Contenders
<1>5. IsFiniteSet(ahead(j))
  <2>1. IsFiniteSet(1 .. Len(queue[q]))
    BY <1>1, FS_Interval
  <2>2. ahead(j) \subseteq 1 .. Len(queue[q])
    BY <1>4
  <2>3. QED
    BY <2>1, <2>2, FS_Subset
<1>6. ahead(i) \subseteq ahead(j)
  BY <1>4
<1>7. Cardinality(ahead(i)) <= Cardinality(ahead(j))
  BY <1>5, <1>6, FS_Subset
<1>8. Cardinality(ahead(i)) \in Nat /\ Cardinality(ahead(j)) \in Nat
  BY <1>5, <1>6, FS_Subset, FS_CardinalityType
<1>9. limit[q][lane] < 0 \/ Cardinality(ahead(j)) < limit[q][lane]
  BY DEF HasSlot
<1>10. limit[q][lane] < 0 \/ Cardinality(ahead(i)) < limit[q][lane]
  BY <1>3, <1>7, <1>8, <1>9
<1>11. QED
  BY <1>10 DEF HasSlot

\* doWork() keeps the order of the queue.
LEMMA TickOrder ==
  ASSUME QueueAssumption, PlaceInv, NEW q \in Queues, TickQueue(q),
         NEW i \in DOMAIN queue'[q], NEW j \in DOMAIN queue'[q], i < j,
         Lane(queue'[q][i]) = Lane(queue'[q][j]),
         transfer'[queue'[q][i]].state = "Waiting",
         transfer'[queue'[q][j]].state = "Active"
  PROVE  FALSE
<1> DEFINE K == Members(q) \ Swept(q)
           kept == queue'[q]
<1>1. kept \in InOrder(K, queue[q]) /\ kept \in Seq(Transfers)
  BY TickEffect
<1>2. PICK a \in DOMAIN queue[q], b \in DOMAIN queue[q] :
        a < b /\ queue[q][a] = kept[i] /\ queue[q][b] = kept[j]
  BY <1>1 DEF InOrder
<1>3. kept[i] \in Transfers /\ kept[j] \in Members(q) /\ kept[j] \in Transfers
  BY <1>1, <1>2 DEF Members
<1> HIDE DEF kept
<1>4. a \in Contenders(q) /\ ~HasSlot(q, a)
  BY <1>2, WaitingHasNoSlot DEF kept
<1>5. b \in Contenders(q) /\ HasSlot(q, b)
  <2>1. PICK k \in Contenders(q) : queue[q][k] = kept[j] /\ HasSlot(q, k)
    BY <1>3, ActiveHasSlot DEF kept
  <2>2. k = b
    BY <1>2, <2>1 DEF PlaceInv, NeverTwice, Once, Contenders
  <2>3. QED
    BY <2>1, <2>2
<1>6. Lane(kept[i]) = Lane(kept[j])
  BY DEF kept
<1>7. QED
  BY <1>2, <1>4, <1>5, <1>6, SlotsAhead

-----------------------------------------------------------------------------
(* Limits                                                                  *)

\* A set of numbers up to some bound has a greatest one.
LEMMA Greatest ==
  ASSUME NEW n \in Nat, NEW I \in SUBSET (1 .. n), I # {}
  PROVE  \E m \in I : \A i \in I : i <= m
<1> DEFINE S == {n - i : i \in I}
<1>1. S \subseteq Nat /\ S # {}
  <2>1. \A i \in I : n - i \in Nat
    OBVIOUS
  <2>2. QED
    BY <2>1
<1>2. PICK x \in S : \A y \in S : ~ (<<y, x>> \in OpToRel(<, Nat))
  <2>1. IsWellFoundedOn(OpToRel(<, Nat), Nat)
    BY NatLessThanWellFounded
  <2> HIDE DEF S
  <2>2. QED
    BY <1>1, <2>1, WFMin
<1>3. \A x1, y1 \in Nat : y1 < x1 => <<y1, x1>> \in OpToRel(<, Nat)
  BY DEF OpToRel
<1>4. PICK m \in I : x = n - m
  OBVIOUS
<1>5. \A i \in I : n - i \in S /\ n - i \in Nat /\ n - m \in Nat
  BY <1>1
<1>6. \A i \in I : ~ (n - i < n - m)
  BY <1>2, <1>3, <1>4, <1>5
<1>7. m \in Nat /\ \A i \in I : i \in Nat
  <2>1. \A i \in 1 .. n : i \in Nat
    OBVIOUS
  <2>2. QED
    BY <2>1
<1>8. \A i \in I : i <= m
  BY <1>6, <1>7
<1>9. QED
  BY <1>8

\* As many positions of a lane get a place as there are places.
LEMMA SlotsWithinLimit ==
  ASSUME QueueAssumption, PlaceInv, NEW q \in Queues, NEW lane \in {"down", "up"},
         limit[q][lane] >= 0,
         NEW I, I = {i \in Contenders(q) : Lane(queue[q][i]) = lane /\ HasSlot(q, i)}
  PROVE  IsFiniteSet(I) /\ Cardinality(I) <= limit[q][lane] /\ limit[q][lane] \in Nat
<1> DEFINE n == Len(queue[q])
           ahead(k) == {l \in Contenders(q) : l < k /\ Lane(queue[q][l]) = lane}
<1>1. DOMAIN queue[q] = 1 .. n /\ n \in Nat /\ limit[q] \in [down : Int, up : Int]
  BY DEF PlaceInv, Inv, TypeOK, QueueAssumption
<1>2. limit[q][lane] \in Nat
  BY <1>1
<1>3. Contenders(q) \subseteq 1 .. n /\ I \subseteq 1 .. n
  BY <1>1 DEF Contenders
<1>4. IsFiniteSet(1 .. n)
  BY <1>1, FS_Interval
<1>5. IsFiniteSet(I)
  BY <1>3, <1>4, FS_Subset
<1>6. CASE I = {}
  BY <1>2, <1>5, <1>6, FS_EmptySet
<1>7. CASE I # {}
  <2>1. PICK m \in I : \A i \in I : i <= m
    BY <1>1, <1>3, <1>7, Greatest
  <2>2. Cardinality(ahead(m)) < limit[q][lane]
    <3>1. HasSlot(q, m) /\ Lane(queue[q][m]) = lane
      OBVIOUS
    <3>2. ahead(m) = {l \in Contenders(q) : l < m /\ Lane(queue[q][l]) = Lane(queue[q][m])}
      BY <3>1
    <3>3. \/ limit[q][Lane(queue[q][m])] < 0
          \/ Cardinality({l \in Contenders(q) : l < m /\ Lane(queue[q][l]) = Lane(queue[q][m])})
               < limit[q][Lane(queue[q][m])]
      BY <3>1 DEF HasSlot
    <3> HIDE DEF ahead
    <3>4. limit[q][lane] < 0 \/ Cardinality(ahead(m)) < limit[q][lane]
      BY <3>1, <3>2, <3>3
    <3>5. QED
      BY <1>2, <3>4
  <2>3. IsFiniteSet(ahead(m))
    BY <1>3, <1>4, FS_Subset
  <2>4. I \subseteq ahead(m) \cup {m} /\ m \notin ahead(m)
    BY <1>3, <2>1
  <2> HIDE DEF ahead
  <2>5. /\ IsFiniteSet(ahead(m) \cup {m})
        /\ Cardinality(ahead(m) \cup {m}) = Cardinality(ahead(m)) + 1
    BY <2>3, <2>4, FS_AddElement
  <2>6. Cardinality(I) <= Cardinality(ahead(m)) + 1
    BY <2>4, <2>5, FS_Subset
  <2>7. Cardinality(I) \in Nat /\ Cardinality(ahead(m)) \in Nat
    BY <1>5, <2>3, FS_CardinalityType
  <2>8. QED
    BY <1>2, <1>5, <2>2, <2>6, <2>7
<1>8. QED
  BY <1>6, <1>7

\* doWork() leaves no more transfers of a lane Active than its limit says.
LEMMA TickLimits ==
  ASSUME QueueAssumption, PlaceInv, NEW q \in Queues, TickQueue(q),
         NEW lane \in {"down", "up"}, limit[q][lane] >= 0
  PROVE  Cardinality(ActiveIn(q, lane)') <= limit[q][lane]
<1> DEFINE A == ActiveIn(q, lane)'
           I == {i \in Contenders(q) : Lane(queue[q][i]) = lane /\ HasSlot(q, i)}
           f == [i \in I |-> queue[q][i]]
           B == {queue[q][i] : i \in I}
<1>1. IsFiniteSet(I) /\ Cardinality(I) <= limit[q][lane] /\ limit[q][lane] \in Nat
  BY SlotsWithinLimit
<1>2. A \subseteq B
  <2> SUFFICES ASSUME NEW t \in A PROVE t \in B
    OBVIOUS
  <2>1. t \in Members(q)' /\ transfer'[t].state = "Active" /\ Lane(t)' = lane
    BY DEF ActiveIn
  <2>2. t \in Members(q) /\ t \in Transfers
    <3>1. queue'[q] \in InOrder(Members(q) \ Swept(q), queue[q])
      BY TickEffect
    <3>2. PICK i \in DOMAIN queue'[q] : t = queue'[q][i]
      BY <2>1 DEF Members
    <3>3. t \in Members(q)
      BY <3>1, <3>2 DEF InOrder
    <3>4. QED
      BY <3>3 DEF PlaceInv, Inv, TypeOK, Members
  <2>3. PICK i \in Contenders(q) : queue[q][i] = t /\ HasSlot(q, i)
    BY <2>1, <2>2, ActiveHasSlot
  <2>4. Lane(t) = lane
    BY <2>1, <2>2, TickEffect DEF Lane
  <2>5. QED
    BY <2>3, <2>4
<1>3. f \in Surjection(I, B)
  BY DEF Surjection
<1> HIDE DEF A, I, f, B
<1>4. IsFiniteSet(B) /\ Cardinality(B) <= Cardinality(I)
  BY <1>1, <1>3, FS_Surjection
<1>5. Cardinality(A) <= Cardinality(B) /\ IsFiniteSet(A)
  BY <1>2, <1>4, FS_Subset
<1>6. Cardinality(A) \in Nat /\ Cardinality(B) \in Nat /\ Cardinality(I) \in Nat
  BY <1>1, <1>4, <1>5, FS_CardinalityType
<1>7. Cardinality(A) <= limit[q][lane]
  BY <1>1, <1>4, <1>5, <1>6
<1>8. QED
  BY <1>7 DEF A

-----------------------------------------------------------------------------

\* After doWork() has handled a queue, no more of its transfers are Active than
\* its limits allow, however many were before.
THEOREM TicksKeepLimits == Spec => TickKeepsLimits
<1>1. PlaceInv /\ [Next]_vars =>
        [\A q \in Queues : TickQueue(q) =>
           \A lane \in {"down", "up"} :
             limit[q][lane] >= 0 => Cardinality(ActiveIn(q, lane)') <= limit[q][lane]]_vars
  BY QueueAssumption, TickLimits
<1>2. QED
  BY <1>1, PlaceInvariance, PTL DEF Spec, TickKeepsLimits

\* ... none of them waits behind which another runs in its stead ...
THEOREM TicksKeepOrder == Spec => TickKeepsOrder
<1>1. PlaceInv /\ [Next]_vars =>
        [\A q \in Queues : TickQueue(q) =>
           \A i, j \in DOMAIN queue'[q] :
             ~ /\ i < j
               /\ Lane(queue'[q][i]) = Lane(queue'[q][j])
               /\ transfer'[queue'[q][i]].state = "Waiting"
               /\ transfer'[queue'[q][j]].state = "Active"]_vars
  BY QueueAssumption, TickOrder
<1>2. QED
  BY <1>1, PlaceInvariance, PTL DEF Spec, TickKeepsOrder

\* ... and those that are forced, paused, failed or completed are as they were.
THEOREM TicksLeaveOthers == Spec => TickLeavesOthers
<1>1. ASSUME QueueAssumption, PlaceInv, NEW q \in Queues, TickQueue(q), NEW t \in Transfers,
             transfer[t].state \notin {"Waiting", "Active"}
      PROVE  transfer'[t].state = transfer[t].state
  <2>1. t \notin {queue[q][i] : i \in Contenders(q)}
    BY <1>1 DEF Contenders
  <2>2. QED
    BY <1>1, <2>1, TickEffect
<1>2. PlaceInv /\ [Next]_vars =>
        [\A q \in Queues : TickQueue(q) =>
           \A t \in Transfers :
             transfer[t].state \notin {"Waiting", "Active"}
               => transfer'[t].state = transfer[t].state]_vars
  BY <1>1, QueueAssumption
<1>3. QED
  BY <1>2, PlaceInvariance, PTL DEF Spec, TickLeavesOthers

-----------------------------------------------------------------------------
(* Custody: no transfer is lost                                             *)

\* The transfers whose delete is among the events ev.
Doomed(ev) == {t \in Transfers : \E i \in DOMAIN ev : ev[i] = Delete(t)}

\* PlaceOf, case by case.
Located ==
  \A t \in Transfers :
    /\ \A q \in Queues : t \in Members(q) => PlaceOf(t) = Kept!In(q)
    /\ t \in Held => PlaceOf(t) = IF life[t] = "new" THEN Kept!New(handover[t])
                                                    ELSE Kept!Hands(handover[t])
    /\ life[t] = "none" => PlaceOf(t) = Kept!Unborn
    /\ life[t] \in {"gone", "discarded"} => PlaceOf(t) = Kept!Deleted
    /\ t \in Doomed(posted) => PlaceOf(t) = Kept!Removed
    /\ life[t] = "alive" /\ t \notin Placed \cup Doomed(posted)
         => PlaceOf(t) = <<"lost", NoQueue>>

\* A doomed transfer is alive and has no place.
LEMMA DoomedFit ==
  ASSUME NEW ev, NEW lf, NEW P, Fit(ev, lf, P), NEW t \in Doomed(ev)
  PROVE  lf[t] = "alive" /\ t \notin P
BY DeleteKind DEF Doomed, Fit

LEMMA PlacesLocated == ASSUME PlaceInv PROVE Located
<1> SUFFICES ASSUME NEW t \in Transfers
             PROVE  /\ \A q \in Queues : t \in Members(q) => PlaceOf(t) = Kept!In(q)
                    /\ t \in Held => PlaceOf(t) = IF life[t] = "new" THEN Kept!New(handover[t])
                                                                    ELSE Kept!Hands(handover[t])
                    /\ life[t] = "none" => PlaceOf(t) = Kept!Unborn
                    /\ life[t] \in {"gone", "discarded"} => PlaceOf(t) = Kept!Deleted
                    /\ t \in Doomed(posted) => PlaceOf(t) = Kept!Removed
                    /\ life[t] = "alive" /\ t \notin Placed \cup Doomed(posted)
                         => PlaceOf(t) = <<"lost", NoQueue>>
  BY DEF Located
<1>1. ASSUME NEW q \in Queues, t \in Members(q)
      PROVE  t \in Queued /\ \A p \in Queues : t \in Members(p) => p = q
  BY <1>1 DEF Queued, Members, PlaceInv, NeverTwice, Once
<1>2. ASSUME NEW q \in Queues, t \in Members(q)
      PROVE  PlaceOf(t) = Kept!In(q)
  <2>1. (CHOOSE p \in Queues : t \in Members(p)) = q
    BY <1>1, <1>2
  <2>2. QED
    BY <1>1, <1>2, <2>1 DEF PlaceOf, Kept!In
<1>3. t \in Held <=> handover[t] # NoQueue
  BY DEF Held
<1>4. t \in Placed => Exists(t) /\ (t \in Held => t \notin Queued)
  BY PlacedExists
<1>5. t \in Doomed(posted) <=> \E i \in DOMAIN posted : posted[i] = Delete(t)
  BY DEF Doomed
<1>6. t \in Doomed(posted) => life[t] = "alive" /\ t \notin Placed
  BY DoomedFit DEF PlaceInv
<1>7. t \in Placed <=> t \in Queued \/ t \in Held
  BY DEF Placed
<1>8. t \in Held => PlaceOf(t) = IF life[t] = "new" THEN Kept!New(handover[t])
                                                    ELSE Kept!Hands(handover[t])
  BY <1>3, <1>4, <1>7 DEF PlaceOf, Kept!New, Kept!Hands
<1>9. life[t] = "none" => PlaceOf(t) = Kept!Unborn
  BY <1>3, <1>4, <1>7 DEF PlaceOf, Exists, Kept!Unborn
<1>10. life[t] \in {"gone", "discarded"} => PlaceOf(t) = Kept!Deleted
  BY <1>3, <1>4, <1>7 DEF PlaceOf, Exists, Kept!Deleted
<1>11. t \in Doomed(posted) => PlaceOf(t) = Kept!Removed
  BY <1>3, <1>5, <1>6, <1>7 DEF PlaceOf, Exists, Kept!Removed
<1>12. life[t] = "alive" /\ t \notin Placed \cup Doomed(posted)
         => PlaceOf(t) = <<"lost", NoQueue>>
  BY <1>3, <1>5, <1>7 DEF PlaceOf, Exists
<1>13. QED
  BY <1>2, <1>8, <1>9, <1>10, <1>11, <1>12

\* A step does nothing that could change where t is.
Stays(t) ==
  /\ \A q \in Queues : t \in Members(q)' <=> t \in Members(q)
  /\ handover'[t] = handover[t] /\ life'[t] = life[t]
  /\ t \in Doomed(posted') <=> t \in Doomed(posted)

LEMMA StaysThere ==
  ASSUME PlaceInv, PlaceInv', Located, Located', NEW t \in Transfers, Stays(t)
  PROVE  PlaceOf(t)' = PlaceOf(t)
<1>1. t \in Queued' <=> t \in Queued
  BY DEF Stays, Queued
<1>2. t \in Held' <=> t \in Held
  BY DEF Stays, Held
<1>3. t \in Placed' <=> t \in Placed
  BY <1>1, <1>2 DEF Placed
<1>4. /\ life[t] \in {"none", "new", "alive", "gone", "discarded"}
      /\ life[t] = "new" => t \in Held
  BY DEF PlaceInv, Inv, TypeOK, Lives
<1>5. CASE t \in Queued
  <2>1. PICK q \in Queues : t \in Members(q)
    BY <1>5 DEF Queued
  <2>2. PlaceOf(t) = Kept!In(q)
    BY <2>1 DEF Located
  <2>3. PlaceOf(t)' = Kept!In(q)
    BY <2>1 DEF Located, Stays, Kept!In
  <2>4. QED
    BY <2>2, <2>3
<1>6. CASE t \in Held
  BY <1>2, <1>6 DEF Located, Stays, Kept!New, Kept!Hands
<1>7. CASE life[t] = "none"
  BY <1>7 DEF Located, Stays, Kept!Unborn
<1>8. CASE life[t] \in {"gone", "discarded"}
  BY <1>8 DEF Located, Stays, Kept!Deleted
<1>9. CASE t \in Doomed(posted)
  BY <1>9 DEF Located, Stays, Kept!Removed
<1>10. CASE life[t] = "alive" /\ t \notin Placed \cup Doomed(posted)
  <2>1. PlaceOf(t) = <<"lost", NoQueue>>
    BY <1>10 DEF Located
  <2>2. PlaceOf(t)' = <<"lost", NoQueue>>
    BY <1>3, <1>10 DEF Located, Stays
  <2>3. QED
    BY <2>1, <2>2
<1>11. QED
  BY <1>4, <1>5, <1>6, <1>7, <1>8, <1>9, <1>10 DEF Placed

\* What a step of the queues is in Custody: each transfer stays, or goes where it may.
Moved ==
  \A t \in Transfers : PlaceOf(t)' # PlaceOf(t) => Kept!Goes(PlaceOf(t), PlaceOf(t)')

LEMMA AllStay ==
  ASSUME PlaceInv, PlaceInv', Located, Located', \A t \in Transfers : Stays(t)
  PROVE  Moved
BY StaysThere DEF Moved

LEMMA OneGoes ==
  ASSUME PlaceInv, PlaceInv', Located, Located', NEW t \in Transfers,
         \A u \in Transfers \ {t} : Stays(u), Kept!Goes(PlaceOf(t), PlaceOf(t)')
  PROVE  Moved
<1>1. \A u \in Transfers \ {t} : PlaceOf(u)' = PlaceOf(u)
  BY StaysThere
<1>2. QED
  BY <1>1 DEF Moved

\* A sequence of S has all of S.
LEMMA InOrderAll ==
  ASSUME QueueAssumption, NEW S \in SUBSET Transfers, NEW seq \in Seq(Transfers),
         \A a, b \in DOMAIN seq : seq[a] = seq[b] => a = b,
         NEW e \in InOrder(S, seq)
  PROVE  \A t \in S : \E i \in DOMAIN e : e[i] = t
<1> DEFINE n == Cardinality(S)
<1>1. /\ n \in Nat /\ e \in [1 .. n -> S]
      /\ \A i, j \in DOMAIN e : e[i] = e[j] => i = j
  BY InOrderOnce
<1>2. IsFiniteSet(S)
  BY FS_Subset DEF QueueAssumption
<1> HIDE DEF n
<1>3. Cardinality(1 .. n) = n
  BY <1>1, FS_Interval
<1>4. e \in Injection(1 .. n, S)
  BY <1>1 DEF Injection, IsInjective
<1>5. e \in Surjection(1 .. n, S)
  BY <1>2, <1>3, <1>4, FS_Injection DEF n
<1>6. \A t \in S : \E i \in 1 .. n : e[i] = t
  BY <1>5 DEF Surjection
<1>7. QED
  BY <1>1, <1>6

\* A queue is replaced by those of its members that K has.
LEMMA QueueReplaced ==
  ASSUME QueueAssumption, PlaceInv, NEW q \in Queues, NEW K \in SUBSET Members(q),
         NEW e \in InOrder(K, queue[q]), queue' = [queue EXCEPT ![q] = e]
  PROVE  \A p \in Queues : Members(p)' = IF p = q THEN K ELSE Members(p)
<1>1. /\ queue \in [Queues -> Seq(Transfers)] /\ queue[q] \in Seq(Transfers)
      /\ \A a, b \in DOMAIN queue[q] : queue[q][a] = queue[q][b] => a = b
  BY DEF PlaceInv, Inv, TypeOK, NeverTwice, Once
<1>2. K \in SUBSET Transfers /\ e \in InOrder(K, queue[q])
  BY <1>1 DEF Members
<1>3. /\ e \in [1 .. Cardinality(K) -> K]
      /\ \A t \in K : \E i \in DOMAIN e : e[i] = t
  BY <1>1, <1>2, InOrderOnce, InOrderAll
<1>4. \A p \in Queues : queue'[p] = IF p = q THEN e ELSE queue[p]
  BY <1>1
<1>5. {e[i] : i \in DOMAIN e} = K
  BY <1>3
<1>6. QED
  BY <1>4, <1>5 DEF Members

\* ... loses one transfer ...
LEMMA MembersWithout ==
  ASSUME QueueAssumption, PlaceInv, NEW q \in Queues, NEW t \in Members(q),
         NEW rest \in Without(t, queue[q]), queue' = [queue EXCEPT ![q] = rest]
  PROVE  \A p \in Queues : Members(p)' = Members(p) \ {t}
<1>1. rest \in InOrder(Members(q) \ {t}, queue[q])
  BY DEF Without, Members
<1>2. \A p \in Queues : Members(p)' = IF p = q THEN Members(q) \ {t} ELSE Members(p)
  BY <1>1, QueueReplaced
<1>3. \A p \in Queues : p # q => t \notin Members(p)
  BY DEF PlaceInv, NeverTwice, Once, Members
<1>4. QED
  BY <1>2, <1>3

\* ... or has one more.
LEMMA MembersAnd ==
  ASSUME PlaceInv, NEW q \in Queues, NEW t \in Transfers,
         queue' = [queue EXCEPT ![q] = Append(@, t)]
  PROVE  \A p \in Queues : Members(p)' = IF p = q THEN Members(q) \cup {t} ELSE Members(p)
<1> DEFINE n == Len(queue[q]) + 1
<1>1. queue \in [Queues -> Seq(Transfers)]
  BY DEF PlaceInv, Inv, TypeOK
<1>2. /\ n \in Nat /\ DOMAIN queue[q] = 1 .. n - 1
      /\ DOMAIN queue'[q] = 1 .. n /\ queue'[q][n] = t
      /\ \A i \in 1 .. n - 1 : queue'[q][i] = queue[q][i]
      /\ \A p \in Queues \ {q} : queue'[p] = queue[p]
  BY <1>1
<1>3. 1 .. n = (1 .. n - 1) \cup {n}
  BY <1>2
<1> HIDE DEF n
<1>4. Members(q)' = Members(q) \cup {t}
  BY <1>2, <1>3 DEF Members
<1>5. \A p \in Queues \ {q} : Members(p)' = Members(p)
  BY <1>2 DEF Members
<1>6. QED
  BY <1>4, <1>5

\* Moving a transfer within its queue leaves all of them there.
LEMMA MembersMoved ==
  ASSUME PlaceInv, NEW q \in Queues,
         NEW i \in DOMAIN queue[q], NEW j \in DOMAIN queue[q], Move(q, i, j)
  PROVE  \A p \in Queues : Members(p)' = Members(p)
<1> DEFINE old == queue[q]
           from(k) == CASE k = j -> i
                        [] i < j /\ k \in i .. j - 1 -> k + 1
                        [] j < i /\ k \in j + 1 .. i -> k - 1
                        [] OTHER -> k
           to(k) == CASE k = i -> j
                      [] i < j /\ k \in i + 1 .. j -> k - 1
                      [] j < i /\ k \in j .. i - 1 -> k + 1
                      [] OTHER -> k
<1>1. /\ queue \in [Queues -> Seq(Transfers)] /\ i # j
      /\ DOMAIN old = 1 .. Len(old) /\ Len(old) \in Nat
  BY DEF Move, PlaceInv, Inv, TypeOK
<1>2. /\ \A p \in Queues : p # q => queue'[p] = queue[p]
      /\ DOMAIN queue'[q] = DOMAIN old
      /\ \A k \in DOMAIN old :
           queue'[q][k] = CASE k = j -> old[i]
                            [] i < j /\ k \in i .. j - 1 -> old[k + 1]
                            [] j < i /\ k \in j + 1 .. i -> old[k - 1]
                            [] OTHER -> old[k]
  BY <1>1 DEF Move
<1>3. \A k \in DOMAIN old : from(k) \in DOMAIN old /\ to(k) \in DOMAIN old
  BY <1>1
<1>4. \A k \in DOMAIN old : from(to(k)) = k
  BY <1>1
<1>5. \A k \in DOMAIN old : queue'[q][k] = old[from(k)]
  BY <1>1, <1>2
<1> HIDE DEF from, to
<1>6. \A k \in DOMAIN old : old[k] = queue'[q][to(k)]
  BY <1>3, <1>4, <1>5
<1>7. Members(q)' = Members(q)
  BY <1>2, <1>3, <1>5, <1>6 DEF Members
<1>8. QED
  BY <1>2, <1>7 DEF Members

\* Which deletes are left after the first event, and when more are posted.
LEMMA DoomedTail ==
  ASSUME NEW ev \in Seq(Events), ev # <<>>, NEW lf, NEW P, Fit(ev, lf, P)
  PROVE  Doomed(Tail(ev)) = IF Head(ev).kind = "delete" THEN Doomed(ev) \ {Head(ev).t}
                                                        ELSE Doomed(ev)
<1> DEFINE rest == Tail(ev)
<1>1. /\ DOMAIN rest = 1 .. Len(ev) - 1 /\ Len(ev) \in Nat \ {0}
      /\ \A i \in DOMAIN rest : rest[i] = ev[i + 1] /\ i + 1 \in DOMAIN ev /\ i + 1 # 1
      /\ \A i \in DOMAIN ev : i = 1 \/ (i - 1 \in DOMAIN rest /\ rest[i - 1] = ev[i])
      /\ 1 \in DOMAIN ev /\ Head(ev) = ev[1] /\ ev[1] \in Events
  OBVIOUS
<1> HIDE DEF rest
<1>2. \A t : ev[1] # Delete(t) => (t \in Doomed(rest) <=> t \in Doomed(ev))
  BY <1>1 DEF Doomed
<1>3. CASE ev[1].kind # "delete"
  BY <1>1, <1>2, <1>3, DeleteKind DEF Doomed, rest
<1>4. CASE ev[1].kind = "delete"
  <2>1. ev[1] = Delete(ev[1].t)
    BY <1>1, <1>4, KindDelete
  <2>2. \A i \in DOMAIN ev : i # 1 => ev[i] # Delete(ev[1].t)
    BY <1>1, <1>4 DEF Fit
  <2>3. ev[1].t \notin Doomed(rest)
    BY <1>1, <2>2 DEF Doomed
  <2>4. \A t : t # ev[1].t => ev[1] # Delete(t)
    BY DeleteKind
  <2>5. \A t : t # ev[1].t => (t \in Doomed(rest) <=> t \in Doomed(ev))
    BY <1>2, <2>4
  <2>6. Doomed(rest) = Doomed(ev) \ {ev[1].t}
    BY <2>3, <2>5
  <2>7. QED
    BY <1>1, <1>4, <2>6 DEF rest
<1>5. QED
  BY <1>3, <1>4

LEMMA DoomedAnd ==
  ASSUME NEW ev \in Seq(Events), NEW new \in Seq(Events)
  PROVE  Doomed(ev \o new) = Doomed(ev) \cup Doomed(new)
<1> DEFINE m == Len(ev)
           n == Len(new)
           all == ev \o new
<1>1. /\ DOMAIN all = 1 .. m + n /\ m \in Nat /\ n \in Nat
      /\ \A i \in DOMAIN ev : all[i] = ev[i] /\ i \in DOMAIN all
      /\ \A i \in DOMAIN new : all[m + i] = new[i] /\ m + i \in DOMAIN all
      /\ \A i \in DOMAIN all : i \notin DOMAIN ev => i - m \in DOMAIN new /\ all[i] = new[i - m]
  OBVIOUS
<1> HIDE DEF all
<1>2. \A t : (\E i \in DOMAIN all : all[i] = Delete(t)) <=>
               \/ \E i \in DOMAIN ev : ev[i] = Delete(t)
               \/ \E i \in DOMAIN new : new[i] = Delete(t)
  BY <1>1
<1>3. Doomed(all) = Doomed(ev) \cup Doomed(new)
  BY <1>2 DEF Doomed
<1>4. QED
  BY <1>3 DEF all

\* A call of setState() dooms none.
LEMMA SetDoomsNone ==
  ASSUME QueueAssumption, NEW base, NEW target \in Targets, NEW seq,
         NEW before \in Seq(Events), SetStates(base, target, seq, before)
  PROVE  Doomed(posted') = Doomed(before)
<1>1. PICK rs \in Seq(Retries) : posted' = before \o rs
  BY RetriesPosted
<1>2. \A e \in Retries : e \in Events /\ e.kind = "retry"
  BY DEF Retries, Retry, Events
<1>3. rs \in Seq(Events) /\ \A i \in DOMAIN rs : rs[i].kind = "retry"
  BY <1>2
<1>4. Doomed(rs) = {}
  BY <1>3, DeleteKind DEF Doomed
<1>5. QED
  BY <1>1, <1>3, <1>4, DoomedAnd

\* Steps that touch neither queues nor lives, and doom none.
LEMMA SameCustody ==
  ASSUME PlaceInv, PlaceInv', Located, Located', UNCHANGED <<queue, life, handover>>,
         Doomed(posted') = Doomed(posted)
  PROVE  Moved
<1>1. \A t \in Transfers : Stays(t)
  BY DEF Stays, Members
<1>2. QED
  BY <1>1, AllStay

LEMMA SetCustody ==
  ASSUME QueueAssumption, PlaceInv, PlaceInv', Located, Located',
         UNCHANGED <<queue, life, handover>>,
         NEW base, NEW target \in Targets, NEW seq,
         NEW before \in Seq(Events), Doomed(before) = Doomed(posted),
         SetStates(base, target, seq, before)
  PROVE  Moved
BY SetDoomsNone, SameCustody

LEMMA OneSetCustody ==
  ASSUME QueueAssumption, PlaceInv, PlaceInv', Located, Located',
         UNCHANGED <<queue, life, handover>>,
         NEW t \in Transfers, NEW s \in States, ChangeState(t, s, posted)
  PROVE  Moved
<1>1. SetStates(transfer, [x \in {t} |-> s], <<t>>, posted)
  BY DEF ChangeState, ChangeStates
<1>2. posted \in Seq(Events)
  BY DEF PlaceInv, Inv, TypeOK
<1>3. QED
  BY <1>1, <1>2, OneTarget, SetCustody

\* Only a removed transfer is deleted, when its delete comes up.
LEMMA PostedCustody ==
  ASSUME QueueAssumption, PlaceInv, PlaceInv', Located, Located', Posted
  PROVE  Moved
<1> DEFINE ev == Head(posted)
           t == ev.t
           rest == Tail(posted)
<1>1. posted # <<>>
  BY DEF Posted, RunRetry, DropRetry, RunSet, RunDanglingSet, RunDelete, HeadIs
<1>2. /\ ev \in Events /\ rest \in Seq(Events) /\ posted \in Seq(Events)
      /\ Fit(posted, life, Placed) /\ life \in [Transfers -> Lives]
  BY <1>1 DEF PlaceInv, Inv, TypeOK
<1>3. t \in Transfers
  BY <1>2 DEF Events
<1>4. Doomed(rest) = IF ev.kind = "delete" THEN Doomed(posted) \ {t} ELSE Doomed(posted)
  BY <1>1, <1>2, DoomedTail
<1>5. CASE RunRetry
  <2> DEFINE counted == [transfer EXCEPT ![t].retries = Min(@ + 1, RetryCount + 1)]
             s == IF transfer[t].forced THEN "ForcedActive" ELSE "Waiting"
  <2>1. SetStates(counted, [x \in {t} |-> s], <<t>>, rest)
    BY <1>5 DEF RunRetry
  <2>2. s \in States
    BY DEF States
  <2>3. UNCHANGED <<queue, life, handover>> /\ ev.kind # "delete"
    BY <1>5 DEF RunRetry, HeadIs
  <2> HIDE DEF counted, s, rest, t
  <2>4. QED
    BY <1>2, <1>3, <1>4, <2>1, <2>2, <2>3, OneTarget, SetCustody
<1>6. CASE DropRetry
  BY <1>4, <1>6, SameCustody DEF DropRetry, HeadIs
<1>7. CASE RunSet
  <2>1. ev.state \in States /\ ev.kind # "delete"
    BY <1>2, <1>7 DEF RunSet, HeadIs, Events
  <2>2. SetStates(transfer, [x \in {t} |-> ev.state], <<t>>, rest)
    BY <1>7 DEF RunSet, ChangeState, ChangeStates
  <2>3. UNCHANGED <<queue, life, handover>>
    BY <1>7 DEF RunSet
  <2> HIDE DEF rest, t, ev
  <2>4. QED
    BY <1>2, <1>3, <1>4, <2>1, <2>2, <2>3, OneTarget, SetCustody DEF ev
<1>8. CASE RunDanglingSet
  <2>1. ev.state \in States /\ ev.kind # "delete"
    BY <1>2, <1>8 DEF RunDanglingSet, HeadIs, Events
  <2>2. UNCHANGED <<queue, life, handover>>
    BY <1>8 DEF RunDanglingSet
  <2>3. CASE posted' = rest
    BY <1>4, <2>1, <2>2, <2>3, SameCustody
  <2>4. ASSUME NEW u \in Transfers, ChangeState(u, ev.state, rest)
        PROVE  Moved
    <3>1. SetStates(transfer, [x \in {u} |-> ev.state], <<u>>, rest)
      BY <2>4 DEF ChangeState, ChangeStates
    <3> HIDE DEF rest, t, ev
    <3>2. QED
      BY <1>2, <1>4, <2>1, <2>2, <3>1, OneTarget, SetCustody DEF ev
  <2>5. QED
    BY <1>8, <2>3, <2>4 DEF RunDanglingSet
<1>9. CASE RunDelete
  <2> PICK u \in Transfers : u = t
    BY <1>3
  <2>1. ev.kind = "delete" /\ ev = Delete(u)
    BY <1>2, <1>9, KindDelete DEF RunDelete, HeadIs
  <2>2. /\ life' = [life EXCEPT ![u] = "gone"] /\ posted' = rest
        /\ UNCHANGED <<queue, handover>>
    BY <1>9 DEF RunDelete
  <2>3. 1 \in DOMAIN posted /\ posted[1] = ev
    BY <1>1, <1>2
  <2>4. u \in Doomed(posted)
    BY <2>1, <2>3 DEF Doomed
  <2>5. life'[u] = "gone" /\ \A v \in Transfers \ {u} : life'[v] = life[v]
    BY <1>2, <2>2
  <2>6. \A v \in Transfers \ {u} : Stays(v)
    BY <1>4, <2>1, <2>2, <2>5 DEF Stays, Members
  <2>7. PlaceOf(u) = Kept!Removed /\ PlaceOf(u)' = Kept!Deleted
    BY <2>4, <2>5 DEF Located, Kept!Deleted
  <2>8. Kept!Goes(PlaceOf(u), PlaceOf(u)')
    BY <2>7 DEF Kept!Goes, Kept!Delete
  <2>9. QED
    BY <2>6, <2>8, OneGoes
<1>10. QED
  BY <1>5, <1>6, <1>7, <1>8, <1>9 DEF Posted

\* Several at once are removed from their queue.
LEMMA SomeRemoved ==
  ASSUME PlaceInv, PlaceInv', Located, Located', NEW q \in Queues, NEW S \in SUBSET Members(q),
         S # {}, S \subseteq Doomed(posted'), \A u \in Transfers \ S : Stays(u)
  PROVE  Moved
<1>1. Members(q) \subseteq Transfers
  BY DEF PlaceInv, Inv, TypeOK, Members
<1>2. \A t \in S : PlaceOf(t) = Kept!In(q) /\ PlaceOf(t)' = Kept!Removed
  BY <1>1 DEF Located
<1>3. \A u \in Transfers \ S : PlaceOf(u)' = PlaceOf(u)
  BY StaysThere
<1>4. Kept!Goes(Kept!In(q), Kept!Removed)
  BY DEF Kept!Goes, Kept!Remove
<1>5. QED
  BY <1>2, <1>3, <1>4 DEF Moved

LEMMA TickCustody ==
  ASSUME QueueAssumption, PlaceInv, PlaceInv', Located, Located',
         NEW q \in Queues, TickQueue(q)
  PROVE  Moved
<1>1. PICK fast \in SUBSET {t \in Members(q) : transfer[t].engine},
           gone \in InOrder(Swept(q), queue[q]),
           kept \in InOrder(Members(q) \ Swept(q), queue[q]) :
       LET noted == [t \in Transfers |->
             IF t \in fast THEN [transfer[t] EXCEPT !.working = TRUE]
                           ELSE transfer[t]]
           deletes == [i \in 1 .. Cardinality(Swept(q)) |-> Delete(gone[i])]
       IN  /\ SetStates(noted, TickTarget(q), queue[q], posted \o deletes)
           /\ queue' = [queue EXCEPT ![q] = kept]
  BY DEF TickQueue
<1> DEFINE noted == [t \in Transfers |->
             IF t \in fast THEN [transfer[t] EXCEPT !.working = TRUE]
                           ELSE transfer[t]]
           n == Cardinality(Swept(q))
           deletes == [i \in 1 .. n |-> Delete(gone[i])]
<1>2. /\ Members(q) \subseteq Transfers /\ Swept(q) \subseteq Members(q)
      /\ queue[q] \in Seq(Transfers) /\ posted \in Seq(Events)
      /\ \A a, b \in DOMAIN queue[q] : queue[q][a] = queue[q][b] => a = b
  BY DEF PlaceInv, Inv, TypeOK, Members, Swept, NeverTwice, Once
<1>3. /\ n \in Nat /\ gone \in [1 .. n -> Swept(q)]
      /\ \A t \in Swept(q) : \E i \in 1 .. n : gone[i] = t
  <2>1. Swept(q) \in SUBSET Transfers /\ gone \in InOrder(Swept(q), queue[q])
    BY <1>2
  <2>2. n \in Nat /\ gone \in [1 .. n -> Swept(q)]
    BY <1>2, <2>1, InOrderOnce
  <2>3. \A S \in SUBSET Transfers : \A e \in InOrder(S, queue[q]) :
          \A t \in S : \E i \in DOMAIN e : e[i] = t
    BY <1>2, InOrderAll
  <2>4. \A t \in Swept(q) : \E i \in DOMAIN gone : gone[i] = t
    BY <2>1, <2>3
  <2>5. QED
    BY <2>2, <2>4
<1>4. SetStates(noted, TickTarget(q), queue[q], posted \o deletes)
  BY <1>1
<1>5. queue' = [queue EXCEPT ![q] = kept] /\ UNCHANGED <<life, handover>>
  BY <1>1 DEF TickQueue
<1> HIDE DEF noted, n
<1>6. \A p \in Queues : Members(p)' = Members(p) \ Swept(q)
  <2>1. \A p \in Queues : Members(p)' = IF p = q THEN Members(q) \ Swept(q) ELSE Members(p)
    BY <1>5, QueueReplaced
  <2>2. \A p \in Queues : p # q => Members(p) \cap Members(q) = {}
    BY DEF PlaceInv, NeverTwice, Once, Members
  <2>3. QED
    BY <1>2, <2>1, <2>2
<1>7. deletes \in Seq(Events) /\ Doomed(deletes) = Swept(q)
  <2>1. \A i \in 1 .. n : Delete(gone[i]) \in Events
    BY <1>2, <1>3 DEF Delete, Events
  <2>2. deletes \in Seq(Events)
    BY <1>3, <2>1
  <2>3. \A t : t \in Swept(q) <=> \E i \in 1 .. n : Delete(gone[i]) = Delete(t)
    BY <1>3, DeleteKind
  <2>4. Doomed(deletes) = Swept(q)
    BY <1>2, <2>3 DEF Doomed
  <2>5. QED
    BY <2>2, <2>4
<1> HIDE DEF deletes
<1>8. posted \o deletes \in Seq(Events)
  BY <1>2, <1>7
<1>9. TickTarget(q) \in Targets
  <2> DEFINE T == {queue[q][i] : i \in Contenders(q)}
  <2>1. T \subseteq Transfers
    BY <1>2 DEF Contenders, Members
  <2>2. TickTarget(q) \in [T -> States]
    BY DEF TickTarget, States
  <2>3. QED
    BY <2>1, <2>2, TargetType
<1>10. Doomed(posted') = Doomed(posted) \cup Swept(q)
  <2>1. Doomed(posted') = Doomed(posted \o deletes)
    BY <1>4, <1>8, <1>9, SetDoomsNone
  <2>2. QED
    BY <1>2, <1>7, <2>1, DoomedAnd
<1>11. \A u \in Transfers \ Swept(q) : Stays(u)
  BY <1>5, <1>6, <1>10 DEF Stays
<1>12. CASE Swept(q) = {}
  BY <1>11, <1>12, AllStay
<1>13. CASE Swept(q) # {}
  BY <1>2, <1>10, <1>11, <1>13, SomeRemoved
<1>14. QED
  BY <1>12, <1>13

LEMMA RemoveCustody ==
  ASSUME QueueAssumption, PlaceInv, PlaceInv', Located, Located',
         NEW t \in Transfers, Remove(t)
  PROVE  Moved
<1>1. PICK q \in Queues : t \in Members(q) /\
        \E rest \in Without(t, queue[q]) : queue' = [queue EXCEPT ![q] = rest]
  BY DEF Remove
<1>2. \A p \in Queues : Members(p)' = Members(p) \ {t}
  BY <1>1, MembersWithout
<1>3. posted' = Append(posted, Delete(t)) /\ UNCHANGED <<life, handover>>
  BY DEF Remove
<1>4. posted \in Seq(Events) /\ <<Delete(t)>> \in Seq(Events)
  BY DEF PlaceInv, Inv, TypeOK, Delete, Events
<1>5. posted' = posted \o <<Delete(t)>>
  BY <1>3, <1>4
<1>6. Doomed(<<Delete(t)>>) = {t}
  BY DeleteKind DEF Doomed
<1>7. Doomed(posted') = Doomed(posted) \cup {t}
  BY <1>4, <1>5, <1>6, DoomedAnd
<1>8. \A u \in Transfers \ {t} : Stays(u)
  BY <1>2, <1>3, <1>7 DEF Stays
<1>9. {t} \in SUBSET Members(q) /\ {t} # {} /\ {t} \subseteq Doomed(posted')
  BY <1>1, <1>7
<1>10. QED
  BY <1>8, <1>9, SomeRemoved

\* A posted setState() dooms none.
LEMMA PostingDoomsNone ==
  ASSUME NEW ev \in Seq(Events), NEW t \in Transfers, NEW s \in States
  PROVE  Doomed(Append(ev, Set(t, s))) = Doomed(ev)
<1>1. <<Set(t, s)>> \in Seq(Events) /\ Append(ev, Set(t, s)) = ev \o <<Set(t, s)>>
  BY DEF Set, Events
<1>2. Set(t, s).kind = "set"
  BY DEF Set
<1>3. Doomed(<<Set(t, s)>>) = {}
  BY <1>2, DeleteKind DEF Doomed
<1>4. Doomed(ev \o <<Set(t, s)>>) = Doomed(ev) \cup Doomed(<<Set(t, s)>>)
  BY <1>1, DoomedAnd
<1>5. QED
  BY <1>1, <1>3, <1>4

LEMMA WorkerCustody ==
  ASSUME QueueAssumption, PlaceInv, PlaceInv', Located, Located',
         NEW t \in Transfers, Worker(t)
  PROVE  Moved
<1>1. /\ posted \in Seq(Events) /\ handover \in [Transfers -> Queues \cup {NoQueue}]
      /\ life \in [Transfers -> Lives]
  BY DEF PlaceInv, Inv, TypeOK
<1>2. \A q \in Queues : q # NoQueue
  BY DEF Queues, NoQueue
<1>3. ASSUME NEW s \in RestStates, PostState(t, s)
      PROVE  Moved
  <2>1. s \in States
    BY DEF QueueAssumption
  <2>2. Doomed(posted') = Doomed(posted)
    BY <1>1, <1>3, <2>1, PostingDoomsNone DEF PostState
  <2>3. QED
    BY <1>3, <2>2, SameCustody DEF PostState
<1>4. CASE HandOver(t)
  <2>1. PICK q \in Queues : q = handover[t]
    BY <1>1, <1>4 DEF HandOver
  <2>2. /\ queue' = [queue EXCEPT ![q] = Append(@, t)]
        /\ handover' = [handover EXCEPT ![t] = NoQueue]
        /\ life' = [life EXCEPT ![t] = "alive"] /\ UNCHANGED posted
    BY <1>4, <2>1 DEF HandOver
  <2>3. \A p \in Queues : Members(p)' = IF p = q THEN Members(q) \cup {t} ELSE Members(p)
    BY <2>2, MembersAnd
  <2>4. \A u \in Transfers \ {t} : handover'[u] = handover[u] /\ life'[u] = life[u]
    BY <1>1, <2>2
  <2>5. \A u \in Transfers \ {t} : Stays(u)
    BY <2>2, <2>3, <2>4 DEF Stays
  <2>6. PlaceOf(t) \in {Kept!New(q), Kept!Hands(q)} /\ PlaceOf(t)' = Kept!In(q)
    BY <1>2, <2>1, <2>3 DEF Located, Held, Kept!In
  <2>7. Kept!Goes(PlaceOf(t), PlaceOf(t)')
    BY <2>6 DEF Kept!Goes, Kept!Add
  <2>8. QED
    BY <2>5, <2>7, OneGoes
<1>5. ASSUME NEW q \in Queues, TakeTransfer(t, q)
      PROVE  Moved
  <2>1. PICK p \in Queues : t \in Members(p) /\
          \E rest \in Without(t, queue[p]) : queue' = [queue EXCEPT ![p] = rest]
    BY <1>5 DEF TakeTransfer
  <2>2. handover' = [handover EXCEPT ![t] = q] /\ UNCHANGED <<life, posted>>
    BY <1>5 DEF TakeTransfer
  <2>3. \A r \in Queues : Members(r)' = Members(r) \ {t}
    BY <2>1, MembersWithout
  <2>4. handover'[t] = q /\ \A u \in Transfers \ {t} : handover'[u] = handover[u]
    BY <1>1, <2>2
  <2>5. \A u \in Transfers \ {t} : Stays(u)
    BY <2>2, <2>3, <2>4 DEF Stays
  <2>6. PlaceOf(t) = Kept!In(p)
    BY <2>1 DEF Located
  <2>7. PlaceOf(t)' = Kept!Hands(q)
    <3>1. life'[t] = "alive"
      BY <2>1, <2>2, PlacedExists
    <3>2. QED
      BY <1>2, <2>4, <3>1 DEF Located, Held, Kept!Hands
  <2>8. Kept!Goes(PlaceOf(t), PlaceOf(t)')
    BY <2>6, <2>7 DEF Kept!Goes, Kept!Move
  <2>9. QED
    BY <2>5, <2>8, OneGoes
<1>6. CASE RollBack(t)
  <2>1. /\ life[t] = "new" /\ life' = [life EXCEPT ![t] = "discarded"]
        /\ handover' = [handover EXCEPT ![t] = NoQueue]
        /\ UNCHANGED <<queue, posted>>
    BY <1>6 DEF RollBack
  <2>2. \A u \in Transfers \ {t} : handover'[u] = handover[u] /\ life'[u] = life[u]
    BY <1>1, <2>1
  <2>3. \A u \in Transfers \ {t} : Stays(u)
    BY <2>1, <2>2 DEF Stays, Members
  <2>4. t \in Held /\ PlaceOf(t) = Kept!New(handover[t])
    BY <2>1 DEF Located, PlaceInv
  <2>5. handover[t] \in Queues
    BY <1>1, <2>4 DEF Held
  <2>6. PlaceOf(t)' = Kept!Deleted
    <3>1. life'[t] = "discarded"
      BY <1>1, <2>1
    <3>2. QED
      BY <3>1 DEF Located, Kept!Deleted
  <2>7. Kept!Goes(PlaceOf(t), PlaceOf(t)')
    BY <2>4, <2>5, <2>6 DEF Kept!Goes, Kept!GiveUp
  <2>8. QED
    BY <2>3, <2>7, OneGoes
<1>7. QED
  BY <1>3, <1>4, <1>5, <1>6 DEF Worker

LEMMA AddingCustody ==
  ASSUME QueueAssumption, PlaceInv, PlaceInv', Located, Located',
         NEW t \in Transfers, NEW q \in Queues, Adding(t, q)
  PROVE  Moved
<1> PICK s \in {"Waiting", "Paused"} : AddTransfer(t, q, s) \/ CreateTransfer(t, q, s)
  BY DEF Adding
<1>1. /\ posted \in Seq(Events) /\ s \in States
      /\ handover \in [Transfers -> Queues \cup {NoQueue}] /\ life \in [Transfers -> Lives]
  BY DEF PlaceInv, Inv, TypeOK, States
<1>2. PICK l \in {"alive", "new"} :
        /\ CreateTransfer(t, q, s) => l = "new"
        /\ life[t] = "none" /\ life' = [life EXCEPT ![t] = l]
  BY DEF AddTransfer, CreateTransfer
<1>3. PlaceOf(t) = Kept!Unborn /\ \A u \in Transfers \ {t} : life'[u] = life[u]
  BY <1>1, <1>2 DEF Located
<1>4. CASE AddTransfer(t, q, s)
  <2>1. /\ SetStates(transfer, [x \in {t} |-> s], <<t>>, posted)
        /\ queue' = [queue EXCEPT ![q] = Append(@, t)]
        /\ UNCHANGED handover
    BY <1>4 DEF AddTransfer, ChangeState, ChangeStates
  <2>2. \A p \in Queues : Members(p)' = IF p = q THEN Members(q) \cup {t} ELSE Members(p)
    BY <2>1, MembersAnd
  <2>3. Doomed(posted') = Doomed(posted)
    BY <1>1, <2>1, OneTarget, SetDoomsNone
  <2>4. \A u \in Transfers \ {t} : Stays(u)
    BY <1>3, <2>1, <2>2, <2>3 DEF Stays
  <2>5. PlaceOf(t)' = Kept!In(q)
    BY <2>2 DEF Located, Kept!In
  <2>6. Kept!Goes(PlaceOf(t), PlaceOf(t)')
    BY <1>3, <2>5 DEF Kept!Goes, Kept!Create
  <2>7. QED
    BY <2>4, <2>6, OneGoes
<1>5. CASE CreateTransfer(t, q, s)
  <2>1. /\ posted' = Append(posted, Set(t, s))
        /\ handover' = [handover EXCEPT ![t] = q]
        /\ UNCHANGED queue
    BY <1>5 DEF CreateTransfer
  <2>2. Doomed(posted') = Doomed(posted)
    BY <1>1, <2>1, PostingDoomsNone
  <2>3. handover'[t] = q /\ \A u \in Transfers \ {t} : handover'[u] = handover[u]
    BY <1>1, <2>1
  <2>4. \A u \in Transfers \ {t} : Stays(u)
    BY <1>3, <2>1, <2>2, <2>3 DEF Stays, Members
  <2>5. q # NoQueue
    BY DEF Queues, NoQueue
  <2>6. PlaceOf(t)' = Kept!New(q)
    <3>1. life'[t] = "new"
      BY <1>1, <1>2, <1>5
    <3>2. QED
      BY <2>3, <2>5, <3>1 DEF Located, Held, Kept!New
  <2>7. Kept!Goes(PlaceOf(t), PlaceOf(t)')
    BY <1>3, <2>6 DEF Kept!Goes, Kept!Create
  <2>8. QED
    BY <2>4, <2>7, OneGoes
<1>6. QED
  BY <1>4, <1>5

LEMMA CommandCustody ==
  ASSUME QueueAssumption, PlaceInv, PlaceInv', Located, Located',
         NEW t \in Transfers, Engine(t) \/ TransferCommand(t)
  PROVE  Moved
<1>1. CASE EngineFails(t)
  BY <1>1, OneSetCustody DEF EngineFails, States
<1>2. CASE EngineCompletes(t)
  BY <1>2, OneSetCustody DEF EngineCompletes, States
<1>3. CASE TorrentSeeds(t)
  BY <1>3, SameCustody DEF TorrentSeeds
<1>4. CASE Start(t)
  BY <1>4, OneSetCustody DEF Start, Command, States
<1>5. CASE ForceStart(t)
  BY <1>5, OneSetCustody DEF ForceStart, Command, States
<1>6. CASE Pause(t)
  BY <1>6, OneSetCustody DEF Pause, Command, States
<1>7. CASE Remove(t)
  BY <1>7, RemoveCustody
<1>8. QED
  BY <1>1, <1>2, <1>3, <1>4, <1>5, <1>6, <1>7 DEF Engine, TransferCommand

LEMMA QueueCommandCustody ==
  ASSUME QueueAssumption, PlaceInv, PlaceInv', Located, Located',
         NEW q \in Queues, QueueCommand(q)
  PROVE  Moved
<1>1. posted \in Seq(Events) /\ Members(q) \subseteq Transfers
  BY DEF PlaceInv, Inv, TypeOK, Members
<1>2. ASSUME NEW S, NEW s \in States, CommandQueue(q, S, s)
      PROVE  Moved
  <2> DEFINE T == {u \in Members(q) : transfer[u].state \in S}
             target == [t \in T |-> s]
  <2>1. target \in [T -> States] /\ T \in SUBSET Transfers
    BY <1>1
  <2>2. target \in Targets
    BY <2>1, TargetType
  <2>3. SetStates(transfer, target, queue[q], posted) /\ UNCHANGED <<queue, life, handover>>
    BY <1>2 DEF CommandQueue, ChangeStates
  <2> HIDE DEF target
  <2>4. QED
    BY <1>1, <2>2, <2>3, SetCustody
<1>3. ASSUME NEW i \in DOMAIN queue[q], NEW j \in DOMAIN queue[q], Move(q, i, j)
      PROVE  Moved
  <2>1. \A p \in Queues : Members(p)' = Members(p)
    BY <1>3, MembersMoved
  <2>2. UNCHANGED <<life, handover, posted>>
    BY <1>3 DEF Move
  <2>3. \A t \in Transfers : Stays(t)
    BY <2>1, <2>2 DEF Stays
  <2>4. QED
    BY <2>3, AllStay
<1>4. ASSUME NEW l \in LimitChoices, SetTransferLimits(q, l)
      PROVE  Moved
  BY <1>4, SameCustody DEF SetTransferLimits
<1>5. CASE StartAll(q) \/ PauseQueue(q) \/ ResumeAll(q) \/ StopAll(q)
  BY <1>2, <1>5 DEF StartAll, PauseQueue, ResumeAll, StopAll, States
<1>6. QED
  BY <1>3, <1>4, <1>5 DEF QueueCommand

LEMMA PauseAllCustody ==
  ASSUME QueueAssumption, PlaceInv, PlaceInv', Located, Located',
         PauseAllTransfers \/ UnpauseAllTransfers
  PROVE  Moved
<1>1. posted \in Seq(Events) /\ Queued \subseteq Transfers
  BY PlacedExists DEF PlaceInv, Inv, TypeOK, Placed
<1>2. CASE PauseAllTransfers
  <2> DEFINE T == {t \in Queued : transfer[t].state \in {"Waiting", "Active", "ForcedActive"}}
             target == [t \in T |-> "Paused"]
  <2>1. target \in [T -> States] /\ T \in SUBSET Transfers
    BY <1>1 DEF States
  <2>2. target \in Targets
    BY <2>1, TargetType
  <2>3. SetStates(transfer, target, <<>>, posted) /\ UNCHANGED <<queue, life, handover>>
    BY <1>2 DEF PauseAllTransfers
  <2> HIDE DEF target
  <2>4. QED
    BY <1>1, <2>2, <2>3, SetCustody
<1>3. CASE UnpauseAllTransfers
  <2>1. UNCHANGED <<queue, life, handover>>
    BY <1>3 DEF UnpauseAllTransfers
  <2>2. CASE UNCHANGED posted
    BY <2>1, <2>2, SameCustody
  <2>3. ASSUME NEW p \in Restorable,
               LET t == queue[p[1]][p[2]]
               IN  SetStates(transfer, [x \in {t} |-> paused[t]], <<t>>, posted)
        PROVE  Moved
    <3> DEFINE t == queue[p[1]][p[2]]
    <3>1. p[1] \in Queues /\ p[2] \in DOMAIN queue[p[1]] /\ paused[t] # NotSaved
      BY DEF Restorable
    <3>2. t \in Transfers
      BY <3>1 DEF PlaceInv, Inv, TypeOK
    <3>3. paused[t] \in States
      BY <3>1, <3>2 DEF PlaceInv, Inv, TypeOK, States
    <3>4. SetStates(transfer, [x \in {t} |-> paused[t]], <<t>>, posted)
      BY <2>3
    <3> HIDE DEF t
    <3>5. QED
      BY <1>1, <2>1, <3>2, <3>3, <3>4, OneTarget, SetCustody
  <2>4. QED
    BY <1>3, <2>2, <2>3 DEF UnpauseAllTransfers
<1>4. QED
  BY <1>2, <1>3

-----------------------------------------------------------------------------

LEMMA CustodyInit == ASSUME QueueAssumption, Init, PlaceInv, Located PROVE Kept!Init
<1>1. ASSUME NEW t \in Transfers
      PROVE  PlaceOf(t) \in {Kept!Unborn} \cup {Kept!In(q) : q \in Queues}
  <2>1. CASE t \in Queued
    <3>1. PICK q \in Queues : t \in Members(q)
      BY <2>1 DEF Queued
    <3>2. QED
      BY <3>1 DEF Located
  <2>2. CASE t \notin Queued
    BY <2>2 DEF Init, Located
  <2>3. QED
    BY <2>1, <2>2
<1>2. QED
  BY <1>1 DEF Kept!Init

LEMMA CustodyNext ==
  ASSUME QueueAssumption, PlaceInv, PlaceInv', Located, Located', [Next]_vars
  PROVE  Moved
<1>1. ASSUME NEW q \in Queues, TickQueue(q) \/ QueueCommand(q)
      PROVE  Moved
  BY <1>1, TickCustody, QueueCommandCustody
<1>2. CASE Posted \/ PauseAllTransfers \/ UnpauseAllTransfers
  BY <1>2, PostedCustody, PauseAllCustody
<1>3. ASSUME NEW t \in Transfers, Engine(t) \/ TransferCommand(t) \/ Worker(t)
      PROVE  Moved
  BY <1>3, CommandCustody, WorkerCustody
<1>4. ASSUME NEW t \in Transfers, NEW q \in Queues, Adding(t, q)
      PROVE  Moved
  BY <1>4, AddingCustody
<1>5. CASE UNCHANGED vars
  BY <1>5, SameCustody DEF vars
<1>6. QED
  BY <1>1, <1>2, <1>3, <1>4, <1>5 DEF Next

InPlaces == \A t \in Transfers : PlaceOf(t) \in Kept!Places

\* Custody takes no transfer anywhere else.
LEMMA PlacesStay ==
  ASSUME InPlaces, Moved
  PROVE  InPlaces'
<1>1. ASSUME NEW from, NEW to, Kept!Goes(from, to)
      PROVE  to \in Kept!Places
  BY <1>1 DEF Kept!Goes, Kept!Create, Kept!Move, Kept!Add,
            Kept!Remove, Kept!GiveUp, Kept!Delete, Kept!Places
<1>2. \A t \in Transfers : PlaceOf(t)' \in Kept!Places
  BY <1>1 DEF InPlaces, Moved
<1>3. QED
  BY <1>2 DEF InPlaces, Kept!Places

LEMMA InPlacesInvariant == Spec => []InPlaces
<1>1. Init /\ PlaceInv => InPlaces
  <2>1. Kept!Init => InPlaces
    BY DEF Kept!Init, Kept!Places, InPlaces
  <2>2. QED
    BY <2>1, QueueAssumption, PlacesLocated, CustodyInit
<1>2. PlaceInv => Located
  BY PlacesLocated
<1>3. InPlaces /\ PlaceInv /\ PlaceInv' /\ Located /\ Located' /\ [Next]_vars => InPlaces'
  BY QueueAssumption, CustodyNext, PlacesStay
<1>4. QED
  BY <1>1, <1>2, <1>3, PlaceInvariance, PTL DEF Spec

\* The queues, the main thread and the workers keep every transfer as Custody says:
\* it goes from queue to queue through the hands of a worker, and only what was
\* removed from its queue, or discarded before it was in one, is deleted, once.
THEOREM TransfersInCustody == Spec => InCustody
<1>1. PlaceInv => Located
  BY PlacesLocated
<1>2. Init /\ PlaceInv /\ Located => Kept!Init
  BY QueueAssumption, CustodyInit
<1>3. InPlaces' /\ Moved => Kept!Next
  BY DEF InPlaces, Moved, Kept!Next, Kept!Places
<1>4. PlaceInv /\ PlaceInv' /\ Located /\ Located' /\ InPlaces' /\ [Next]_vars
        => [Kept!Next]_[t \in Transfers |-> PlaceOf(t)]
  BY <1>3, QueueAssumption, CustodyNext
<1>5. QED
  BY <1>1, <1>2, <1>4, PlaceInvariance, InPlacesInvariant, PTL DEF Spec, InCustody, Kept!Spec

\* Whatever exists is known to someone: a queue, a worker that will put it into
\* one, or the event loop, which will delete it.
NoneLost ==
  \A t \in Transfers :
    Exists(t) =>
      \/ t \in Queued \/ handover[t] \in Queues
      \/ \E i \in DOMAIN posted : posted[i] = Delete(t)

\* No transfer is lost, and none lingers that nothing will delete.
THEOREM NoTransferLost == Spec => []NoneLost
<1>1. PlaceInv => Located
  BY PlacesLocated
<1>2. InPlaces /\ PlaceInv /\ Located => NoneLost
  <2> SUFFICES ASSUME InPlaces, PlaceInv, Located PROVE NoneLost
    OBVIOUS
  <2>1. <<"lost", NoQueue>> \notin Kept!Places
    BY DEF Kept!Places, Kept!Unborn, Kept!Removed, Kept!Deleted,
           Kept!In, Kept!New, Kept!Hands
  <2>2. handover \in [Transfers -> Queues \cup {NoQueue}]
    BY DEF PlaceInv, Inv, TypeOK
  <2>3. QED
    BY <2>1, <2>2 DEF InPlaces, Located, PlaceInv, NoneLost, Exists, Placed, Held, Doomed
<1>3. QED
  BY <1>1, <1>2, PlaceInvariance, InPlacesInvariant, PTL
=============================================================================
