------------------------ MODULE TransferQueueProofs ------------------------
(***************************************************************************)
(* Proofs about TransferQueue for any number of transfers and queues, any  *)
(* limits and settings: its variables keep their types, engines and states *)
(* agree, and QueueMgr remembers no state that has been overtaken.         *)
(***************************************************************************)
EXTENDS TransferQueue, FiniteSetTheorems, TLAPS

Inv == TypeOK /\ EngineMatchesState /\ SavedArePaused

\* The shape of a call of setState() on several transfers: a new state for
\* each transfer of some set.
Targets == UNION {[T -> States] : T \in SUBSET Transfers}

-----------------------------------------------------------------------------

\* A function on 1..n is a sequence.
LEMMA FunctionIsSeq ==
  ASSUME NEW S, NEW n \in Nat, NEW f \in [1 .. n -> S]
  PROVE  f \in Seq(S)
OBVIOUS

\* A new state for each transfer of a set is a target.
LEMMA TargetType ==
  ASSUME NEW T \in SUBSET Transfers, NEW f \in [T -> States]
  PROVE  f \in Targets
BY Zenon DEF Targets

\* setState() makes a transfer's record from a record, whatever the engine does.
LEMMA RecordType ==
  ASSUME NEW r \in Records, NEW s \in States, NEW o \in Outcomes
  PROVE  AfterSetState(r, s, o) \in Records
<1> DEFINE entered == [r EXCEPT !.forced = (r.state = "ForcedActive"), !.state = s]
<1>1. entered \in Records /\ entered.state = s
  BY DEF Records
<1> HIDE DEF entered
<1>2. Started(entered, o) \in Records
  BY <1>1 DEF Started, Records, States
<1>3. [entered EXCEPT !.engine = FALSE] \in Records
  BY <1>1 DEF Records
<1>4. AfterSetState(r, s, o) \in {Started(entered, o), [entered EXCEPT !.engine = FALSE], entered}
  BY DEF AfterSetState, entered
<1>5. QED
  BY <1>1, <1>2, <1>3, <1>4

\* setState() keeps the engine and the state together.
LEMMA EngineFollows ==
  ASSUME NEW r \in Records, NEW s \in States, NEW o \in Outcomes,
         r.engine <=> IsActive(r.state)
  PROVE  LET n == AfterSetState(r, s, o) IN n.engine <=> IsActive(n.state)
BY DEF AfterSetState, Started, Records, States, Modes, IsActive, Outcomes

\* A call that does not start a transfer leaves it in the state it asks for.
LEMMA StateReached ==
  ASSUME NEW r \in Records, NEW s \in States, NEW o \in Outcomes,
         s = r.state \/ ~IsActive(s)
  PROVE  AfterSetState(r, s, o).state = s
BY DEF AfterSetState, Started, Records, States, Modes, IsActive, Outcomes

\* InOrder() yields sequences.
LEMMA InOrderType ==
  ASSUME NEW S, IsFiniteSet(S), NEW seq, NEW e \in InOrder(S, seq)
  PROVE  /\ Cardinality(S) \in Nat
         /\ e \in Seq(S)
         /\ DOMAIN e = 1 .. Cardinality(S)
<1>1. Cardinality(S) \in Nat
  BY FS_CardinalityType
<1>2. e \in [1 .. Cardinality(S) -> S]
  BY DEF InOrder
<1>3. QED
  BY <1>1, <1>2

\* What every handler that calls setState() does to the records and the events.
LEMMA SetStatesEffect ==
  ASSUME QueueAssumption,
         NEW base \in [Transfers -> Records], NEW target \in Targets,
         NEW seq, NEW before \in Seq(Events),
         SetStates(base, target, seq, before),
         \A t \in Transfers : base[t].engine <=> IsActive(base[t].state)
  PROVE  /\ transfer' \in [Transfers -> Records]
         /\ EngineMatchesState'
         /\ posted' \in Seq(Events)
         /\ \A t \in Transfers \ DOMAIN target : transfer'[t] = base[t]
         /\ \A t \in DOMAIN target :
              target[t] = base[t].state \/ ~IsActive(target[t])
                => transfer'[t].state = target[t]
<1> DEFINE T == DOMAIN target
           starting == {t \in T : IsActive(target[t]) /\ ~IsActive(base[t].state)}
<1>1. T \subseteq Transfers /\ target \in [T -> States]
  BY DEF Targets
<1>2. PICK outcome \in [starting -> Outcomes] :
        LET how(t) == IF t \in starting THEN outcome[t] ELSE "runs"
            retried == {t \in T : PostsRetry(base[t], target[t], how(t))}
        IN  /\ transfer' = [t \in Transfers |->
                  IF t \in T THEN AfterSetState(base[t], target[t], how(t)) ELSE base[t]]
            /\ \E e \in InOrder(retried, seq) :
                  posted' = before \o [i \in 1 .. Cardinality(retried) |-> Retry(e[i])]
  BY DEF SetStates
<1> DEFINE how(t) == IF t \in starting THEN outcome[t] ELSE "runs"
           retried == {t \in T : PostsRetry(base[t], target[t], how(t))}
<1>3. \A t \in T : how(t) \in Outcomes
  BY DEF Outcomes
<1>4. transfer' = [t \in Transfers |->
         IF t \in T THEN AfterSetState(base[t], target[t], how(t)) ELSE base[t]]
  BY <1>2
<1>5. PICK e \in InOrder(retried, seq) :
        posted' = before \o [i \in 1 .. Cardinality(retried) |-> Retry(e[i])]
  BY <1>2
<1> HIDE DEF how, retried, starting
<1>6. transfer' \in [Transfers -> Records]
  BY <1>1, <1>3, <1>4, RecordType
<1>7. EngineMatchesState'
  BY <1>1, <1>3, <1>4, EngineFollows DEF EngineMatchesState
<1>8. posted' \in Seq(Events)
  <2>1. retried \subseteq Transfers /\ IsFiniteSet(retried)
    BY <1>1, FS_Subset DEF retried, QueueAssumption
  <2>2. Cardinality(retried) \in Nat /\ e \in [1 .. Cardinality(retried) -> retried]
    BY <2>1, FS_CardinalityType DEF InOrder
  <2>3. [i \in 1 .. Cardinality(retried) |-> Retry(e[i])] \in Seq(Events)
    <3> DEFINE n == Cardinality(retried)
    <3>1. n \in Nat
      BY <2>2
    <3>2. \A i \in 1 .. n : e[i] \in Transfers
      BY <2>1, <2>2
    <3>3. \A i \in 1 .. n : Retry(e[i]) \in Events
      BY <3>2 DEF Retry, Events
    <3> HIDE DEF n
    <3>4. [i \in 1 .. n |-> Retry(e[i])] \in Seq(Events)
      BY <3>1, <3>3
    <3>5. QED
      BY <3>4 DEF n
  <2>4. QED
    BY <1>5, <2>3
<1>9. \A t \in Transfers \ T : transfer'[t] = base[t]
  BY <1>4
<1>10. \A t \in T : target[t] = base[t].state \/ ~IsActive(target[t])
                      => transfer'[t].state = target[t]
  BY <1>1, <1>3, <1>4, StateReached
<1>11. QED
  BY <1>6, <1>7, <1>8, <1>9, <1>10

\* ... and that SavedArePaused survives it.
LEMMA SavedStayPaused ==
  ASSUME Inv, NEW target \in Targets,
         transfer' \in [Transfers -> Records],
         \A t \in Transfers \ DOMAIN target : transfer'[t].state = transfer[t].state,
         \A t \in DOMAIN target :
            target[t] = transfer[t].state \/ ~IsActive(target[t])
              => transfer'[t].state = target[t],
         paused' = PausedAfter(target)
  PROVE  /\ paused' \in [Transfers -> {"Waiting", "Active", "ForcedActive", NotSaved}]
         /\ SavedArePaused'
<1>1. DOMAIN target \subseteq Transfers
  BY DEF Targets
<1>2. CASE Forgets(target)
  BY <1>2 DEF PausedAfter, NothingSaved, SavedArePaused
<1>3. CASE ~Forgets(target)
  <2>1. paused' = paused
    BY <1>3 DEF PausedAfter
  <2>2. \A t \in DOMAIN target :
          target[t] = transfer[t].state \/ transfer'[t].state = target[t]
    BY <1>3 DEF Forgets, IsActive
  <2>3. \A t \in Transfers :
          \/ transfer'[t].state = transfer[t].state
          \/ transfer'[t].state = "Paused"
          \/ AutoRemove /\ transfer'[t].state = "Completed"
    BY <1>1, <1>3, <2>2 DEF Forgets
  <2>4. QED
    BY <2>1, <2>3 DEF Inv, TypeOK, SavedArePaused
<1>4. QED
  BY <1>2, <1>3

\* Sequences from which members are left out stay sequences of transfers.
LEMMA SublistType ==
  ASSUME QueueAssumption, NEW S \in SUBSET Transfers, NEW seq, NEW e \in InOrder(S, seq)
  PROVE  e \in Seq(Transfers) /\ Cardinality(S) \in Nat
BY FS_Subset, InOrderType DEF QueueAssumption

-----------------------------------------------------------------------------
(* One lemma per group of steps.                                           *)

\* A handler that calls setState() on transfers, given in one form.
LEMMA ChangeStatesStep ==
  ASSUME QueueAssumption, Inv, NEW target \in Targets, NEW seq, NEW before \in Seq(Events),
         ChangeStates(target, seq, before)
  PROVE  /\ transfer' \in [Transfers -> Records]
         /\ posted' \in Seq(Events)
         /\ paused' \in [Transfers -> {"Waiting", "Active", "ForcedActive", NotSaved}]
         /\ EngineMatchesState' /\ SavedArePaused'
<1>1. SetStates(transfer, target, seq, before) /\ paused' = PausedAfter(target)
  BY DEF ChangeStates
<1>2. /\ transfer' \in [Transfers -> Records]
      /\ EngineMatchesState'
      /\ posted' \in Seq(Events)
      /\ \A t \in Transfers \ DOMAIN target : transfer'[t] = transfer[t]
      /\ \A t \in DOMAIN target :
           target[t] = transfer[t].state \/ ~IsActive(target[t])
             => transfer'[t].state = target[t]
  BY <1>1, SetStatesEffect DEF Inv, TypeOK, EngineMatchesState
<1>3. QED
  BY <1>1, <1>2, SavedStayPaused

\* A handler that calls setState() on one transfer.
LEMMA ChangeStateStep ==
  ASSUME QueueAssumption, Inv, NEW t \in Transfers, NEW s \in States,
         NEW before \in Seq(Events), ChangeState(t, s, before)
  PROVE  /\ transfer' \in [Transfers -> Records]
         /\ posted' \in Seq(Events)
         /\ paused' \in [Transfers -> {"Waiting", "Active", "ForcedActive", NotSaved}]
         /\ EngineMatchesState' /\ SavedArePaused'
<1>1. [x \in {t} |-> s] \in Targets
  <2>1. [x \in {t} |-> s] \in [{t} -> States]
    OBVIOUS
  <2>2. QED
    BY <2>1, TargetType
<1>2. ChangeStates([x \in {t} |-> s], <<t>>, before)
  BY DEF ChangeState
<1>3. QED
  BY <1>1, <1>2, ChangeStatesStep

\* doWork() on one queue.
LEMMA TickStep ==
  ASSUME QueueAssumption, Inv, NEW q \in Queues, TickQueue(q)
  PROVE  Inv'
<1>1. PICK fast \in SUBSET {t \in Members(q) : transfer[t].engine},
           gone \in InOrder(Swept(q), queue[q]),
           kept \in InOrder(Members(q) \ Swept(q), queue[q]) :
       LET noted == [t \in Transfers |->
             IF t \in fast THEN [transfer[t] EXCEPT !.working = TRUE]
                           ELSE transfer[t]]
           deletes == [i \in 1 .. Cardinality(Swept(q)) |-> Delete(gone[i])]
       IN  /\ SetStates(noted, TickTarget(q), queue[q], posted \o deletes)
           /\ queue' = [queue EXCEPT ![q] = kept]
  BY DEF TickQueue
<1> DEFINE noted == [t \in Transfers |->
             IF t \in fast THEN [transfer[t] EXCEPT !.working = TRUE]
                           ELSE transfer[t]]
           deletes == [i \in 1 .. Cardinality(Swept(q)) |-> Delete(gone[i])]
<1>2. Members(q) \subseteq Transfers
  BY DEF Inv, TypeOK, Members
<1>3. kept \in Seq(Transfers) /\ gone \in Seq(Transfers) /\ Cardinality(Swept(q)) \in Nat
  BY <1>2, SublistType DEF Swept
<1>4. queue' \in [Queues -> Seq(Transfers)]
  BY <1>1, <1>3 DEF Inv, TypeOK
<1>5. deletes \in Seq(Events)
  <2> DEFINE n == Cardinality(Swept(q))
  <2>1. gone \in [1 .. n -> Swept(q)] /\ Swept(q) \subseteq Transfers
    BY <1>2 DEF InOrder, Swept
  <2>2. \A i \in 1 .. n : Delete(gone[i]) \in Events
    BY <2>1 DEF Delete, Events
  <2> HIDE DEF n
  <2>3. [i \in 1 .. n |-> Delete(gone[i])] \in Seq(Events)
    BY <2>2, <1>3 DEF n
  <2>4. QED
    BY <2>3 DEF n
<1>6. noted \in [Transfers -> Records]
  BY DEF Inv, TypeOK, Records
<1>7. \A t \in Transfers : /\ noted[t].state = transfer[t].state
                          /\ noted[t].engine = transfer[t].engine
  BY DEF Inv, TypeOK, Records
<1>8. TickTarget(q) \in Targets
  <2> DEFINE T == {queue[q][i] : i \in Contenders(q)}
  <2>1. T \subseteq Transfers
    BY <1>2 DEF Contenders, Members
  <2>2. TickTarget(q) \in [T -> States]
    BY DEF TickTarget, States
  <2>3. QED
    BY <2>1, <2>2, TargetType
<1>9. posted \o deletes \in Seq(Events)
  BY <1>5 DEF Inv, TypeOK
<1>10. SetStates(noted, TickTarget(q), queue[q], posted \o deletes)
  BY <1>1
<1>11. \A t \in Transfers : noted[t].engine <=> IsActive(noted[t].state)
  BY <1>7 DEF Inv, EngineMatchesState
<1> HIDE DEF noted, deletes
<1>12. /\ transfer' \in [Transfers -> Records]
       /\ EngineMatchesState'
       /\ posted' \in Seq(Events)
       /\ \A t \in Transfers \ DOMAIN TickTarget(q) : transfer'[t] = noted[t]
       /\ \A t \in DOMAIN TickTarget(q) :
            TickTarget(q)[t] = noted[t].state \/ ~IsActive(TickTarget(q)[t])
              => transfer'[t].state = TickTarget(q)[t]
  BY <1>6, <1>8, <1>9, <1>10, <1>11, SetStatesEffect
<1>13. /\ paused' \in [Transfers -> {"Waiting", "Active", "ForcedActive", NotSaved}]
       /\ SavedArePaused'
  <2>1. DOMAIN TickTarget(q) \subseteq Transfers
    BY <1>8 DEF Targets
  <2>2. paused' = PausedAfter(TickTarget(q))
    BY DEF TickQueue
  <2>3. QED
    BY <1>7, <1>8, <1>12, <2>1, <2>2, SavedStayPaused
<1>14. tick' \in 0 .. QueueCount - 1
  BY DEF TickQueue, QueueAssumption, Queues
<1>15. QED
  BY <1>4, <1>12, <1>13, <1>14 DEF TickQueue, Inv, TypeOK

\* The events the main thread runs.
LEMMA PostedStep ==
  ASSUME QueueAssumption, Inv, Posted
  PROVE  Inv'
<1> DEFINE ev == Head(posted)
<1>1. posted # <<>> => ev \in Events /\ Tail(posted) \in Seq(Events)
  BY DEF Inv, TypeOK
<1>2. CASE RunRetry
  <2> DEFINE t == ev.t
             counted == [transfer EXCEPT ![t].retries = Min(@ + 1, RetryCount + 1)]
             s == IF transfer[t].forced THEN "ForcedActive" ELSE "Waiting"
             target == [x \in {t} |-> s]
  <2>1. posted # <<>> /\ ev \in Events /\ Tail(posted) \in Seq(Events)
    BY <1>1, <1>2 DEF RunRetry, HeadIs
  <2>2. t \in Transfers
    BY <2>1 DEF Events
  <2>3. SetStates(counted, target, <<t>>, Tail(posted)) /\ paused' = PausedAfter(target)
    BY <1>2 DEF RunRetry
  <2>4. target \in [{t} -> States]
    BY DEF States
  <2>5. target \in Targets
    BY <2>2, <2>4, TargetType
  <2>6. Min(transfer[t].retries + 1, RetryCount + 1) \in 0 .. RetryCount + 1
    BY <2>2 DEF Min, Inv, TypeOK, Records, QueueAssumption
  <2>7. counted \in [Transfers -> Records]
    BY <2>2, <2>6 DEF Inv, TypeOK, Records
  <2>8. \A u \in Transfers : /\ counted[u].state = transfer[u].state
                            /\ counted[u].engine = transfer[u].engine
    BY <2>2 DEF Inv, TypeOK, Records
  <2>9. \A u \in Transfers : counted[u].engine <=> IsActive(counted[u].state)
    BY <2>8 DEF Inv, EngineMatchesState
  <2> HIDE DEF counted, target
  <2>10. /\ transfer' \in [Transfers -> Records]
         /\ EngineMatchesState'
         /\ posted' \in Seq(Events)
         /\ \A u \in Transfers \ DOMAIN target : transfer'[u] = counted[u]
         /\ \A u \in DOMAIN target :
              target[u] = counted[u].state \/ ~IsActive(target[u])
                => transfer'[u].state = target[u]
    BY <2>1, <2>3, <2>5, <2>7, <2>9, SetStatesEffect
  <2>11. DOMAIN target \subseteq Transfers
    BY <2>2 DEF target
  <2>12. /\ paused' \in [Transfers -> {"Waiting", "Active", "ForcedActive", NotSaved}]
         /\ SavedArePaused'
    BY <2>3, <2>5, <2>8, <2>10, <2>11, SavedStayPaused
  <2>13. QED
    BY <1>2, <2>10, <2>12 DEF RunRetry, Inv, TypeOK
<1>3. CASE DropRetry
  BY <1>1, <1>3 DEF DropRetry, HeadIs, Inv, TypeOK, EngineMatchesState, SavedArePaused
<1>4. CASE RunSet
  <2>1. /\ posted # <<>> /\ ev.kind = "set"
        /\ ev \in Events /\ Tail(posted) \in Seq(Events)
    BY <1>1, <1>4 DEF RunSet, HeadIs
  <2>2. ev.t \in Transfers /\ ev.state \in States
    BY <2>1 DEF Events
  <2>3. ChangeState(ev.t, ev.state, Tail(posted))
    BY <1>4 DEF RunSet
  <2>4. /\ transfer' \in [Transfers -> Records]
        /\ posted' \in Seq(Events)
        /\ paused' \in [Transfers -> {"Waiting", "Active", "ForcedActive", NotSaved}]
        /\ EngineMatchesState' /\ SavedArePaused'
    BY <2>1, <2>2, <2>3, ChangeStateStep
  <2>5. QED
    BY <1>4, <2>4 DEF RunSet, Inv, TypeOK
<1>5. CASE RunDanglingSet
  <2>1. /\ posted # <<>> /\ ev.kind = "set"
        /\ ev \in Events /\ Tail(posted) \in Seq(Events)
    BY <1>1, <1>5 DEF RunDanglingSet, HeadIs
  <2>2. ev.state \in States
    BY <2>1 DEF Events
  <2>3. CASE posted' = Tail(posted) /\ UNCHANGED <<transfer, paused>>
    BY <1>5, <2>1, <2>3
       DEF RunDanglingSet, Inv, TypeOK, EngineMatchesState, SavedArePaused
  <2>4. ASSUME NEW t \in Transfers, ChangeState(t, ev.state, Tail(posted))
        PROVE  Inv'
    <3>1. /\ transfer' \in [Transfers -> Records]
          /\ posted' \in Seq(Events)
          /\ paused' \in [Transfers -> {"Waiting", "Active", "ForcedActive", NotSaved}]
          /\ EngineMatchesState' /\ SavedArePaused'
      BY <2>1, <2>2, <2>4, ChangeStateStep
    <3>2. QED
      BY <1>5, <3>1 DEF RunDanglingSet, Inv, TypeOK
  <2>5. QED
    BY <1>5, <2>3, <2>4 DEF RunDanglingSet
<1>6. CASE RunDelete
  <2>1. posted # <<>> /\ ev.t \in Transfers /\ Tail(posted) \in Seq(Events)
    BY <1>1, <1>6 DEF RunDelete, HeadIs, Events
  <2>2. Fresh \in Records
    BY DEF Fresh, Records, States, Modes, QueueAssumption
  <2>3. transfer' = [transfer EXCEPT ![ev.t] = Fresh]
    BY <1>6 DEF RunDelete
  <2>4. transfer' \in [Transfers -> Records]
    BY <2>1, <2>2, <2>3 DEF Inv, TypeOK
  <2>5. EngineMatchesState'
    BY <2>1, <2>3 DEF Inv, TypeOK, EngineMatchesState, Fresh, IsActive
  <2>6. SavedArePaused'
    BY <1>6, <2>1, <2>3 DEF RunDelete, Inv, TypeOK, SavedArePaused, Fresh
  <2>7. QED
    BY <1>6, <2>1, <2>4, <2>5, <2>6 DEF RunDelete, Inv, TypeOK, Lives
<1>7. QED
  BY <1>2, <1>3, <1>4, <1>5, <1>6 DEF Posted

\* A handler that sets one transfer's state and changes nothing but records,
\* events and saved states.
LEMMA HandlerStep ==
  ASSUME QueueAssumption, Inv, NEW t \in Transfers, NEW s \in States,
         ChangeState(t, s, posted), UNCHANGED <<queue, limit, life, handover, tick>>
  PROVE  Inv'
<1>1. posted \in Seq(Events)
  BY DEF Inv, TypeOK
<1>2. /\ transfer' \in [Transfers -> Records]
      /\ posted' \in Seq(Events)
      /\ paused' \in [Transfers -> {"Waiting", "Active", "ForcedActive", NotSaved}]
      /\ EngineMatchesState' /\ SavedArePaused'
  BY <1>1, ChangeStateStep
<1>3. QED
  BY <1>2 DEF Inv, TypeOK

\* What engines report.
LEMMA EngineStep ==
  ASSUME QueueAssumption, Inv, NEW t \in Transfers, Engine(t)
  PROVE  Inv'
<1>1. CASE EngineFails(t)
  BY <1>1, HandlerStep DEF EngineFails, States
<1>2. CASE EngineCompletes(t)
  BY <1>2, HandlerStep DEF EngineCompletes, States
<1>3. CASE TorrentSeeds(t)
  <2> DEFINE dropped == transfer[t].state = "ForcedActive" /\ DropForced
             r == IF dropped THEN AfterSetState(transfer[t], "Active", "runs") ELSE transfer[t]
  <2>1. /\ transfer' = [transfer EXCEPT ![t] = [r EXCEPT !.mode = "Upload"]]
        /\ paused' = IF dropped THEN NothingSaved ELSE paused
        /\ transfer[t].engine
    BY <1>3 DEF TorrentSeeds
  <2>2. r \in Records /\ (r.engine <=> IsActive(r.state))
    <3>1. "Active" \in States /\ "runs" \in Outcomes /\ transfer[t] \in Records
      BY DEF States, Outcomes, Inv, TypeOK
    <3>2. transfer[t].engine <=> IsActive(transfer[t].state)
      BY DEF Inv, EngineMatchesState
    <3>3. QED
      BY <3>1, <3>2, RecordType, EngineFollows
  <2>3. paused[t] = NotSaved
    BY <2>1 DEF Inv, EngineMatchesState, SavedArePaused, IsActive
  <2> HIDE DEF r, dropped
  <2>4. [r EXCEPT !.mode = "Upload"] \in Records
    BY <2>2 DEF Records, Modes
  <2>5. transfer' \in [Transfers -> Records]
    BY <2>1, <2>4 DEF Inv, TypeOK
  <2>6. EngineMatchesState'
    BY <2>1, <2>2 DEF Inv, TypeOK, EngineMatchesState, Records
  <2>7. SavedArePaused'
    BY <2>1, <2>3 DEF Inv, TypeOK, SavedArePaused, NothingSaved
  <2>8. paused' \in [Transfers -> {"Waiting", "Active", "ForcedActive", NotSaved}]
    BY <2>1 DEF Inv, TypeOK, NothingSaved
  <2>9. QED
    BY <1>3, <2>5, <2>6, <2>7, <2>8 DEF TorrentSeeds, Inv, TypeOK
<1>4. QED
  BY <1>1, <1>2, <1>3 DEF Engine

\* Desktop commands on one transfer.
LEMMA TransferCommandStep ==
  ASSUME QueueAssumption, Inv, NEW t \in Transfers, TransferCommand(t)
  PROVE  Inv'
<1>1. CASE Start(t)
  BY <1>1, HandlerStep DEF Start, Command, States
<1>2. CASE ForceStart(t)
  BY <1>2, HandlerStep DEF ForceStart, Command, States
<1>3. CASE Pause(t)
  BY <1>3, HandlerStep DEF Pause, Command, States
<1>4. CASE Remove(t)
  <2> PICK q \in Queues : \E rest \in Without(t, queue[q]) : queue' = [queue EXCEPT ![q] = rest]
    BY <1>4 DEF Remove
  <2>2. PICK rest \in Without(t, queue[q]) : queue' = [queue EXCEPT ![q] = rest]
    OBVIOUS
  <2>3. rest \in Seq(Transfers)
    <3>1. {queue[q][i] : i \in DOMAIN queue[q]} \ {t} \in SUBSET Transfers
      BY DEF Inv, TypeOK
    <3>2. QED
      BY <3>1, SublistType DEF Without
  <2>4. queue' \in [Queues -> Seq(Transfers)]
    BY <2>2, <2>3 DEF Inv, TypeOK
  <2>5. posted' \in Seq(Events)
    BY <1>4 DEF Remove, Delete, Events, Inv, TypeOK
  <2> DEFINE r == IF IsActive(transfer[t].state)
                    THEN AfterSetState(transfer[t], "Paused", "runs") ELSE transfer[t]
  <2>6. transfer' = [transfer EXCEPT ![t] = r]
    BY <1>4 DEF Remove, Inv, TypeOK
  <2>7. "Paused" \in States /\ "runs" \in Outcomes /\ transfer[t] \in Records
    BY DEF States, Outcomes, Inv, TypeOK
  <2>8. /\ r \in Records
        /\ r.engine <=> IsActive(r.state)
        /\ ~IsActive(transfer[t].state) => r.state = transfer[t].state
    BY <2>7, RecordType, EngineFollows DEF Inv, EngineMatchesState
  <2> HIDE DEF r
  <2>9. transfer' \in [Transfers -> Records]
    BY <2>6, <2>8 DEF Inv, TypeOK
  <2>10. EngineMatchesState'
    BY <2>6, <2>8 DEF Inv, TypeOK, EngineMatchesState
  <2>11. SavedArePaused'
    BY <1>4, <2>6, <2>8 DEF Remove, Inv, TypeOK, SavedArePaused, IsActive
  <2>12. QED
    BY <1>4, <2>4, <2>5, <2>9, <2>10, <2>11 DEF Remove, Inv, TypeOK
<1>5. QED
  BY <1>1, <1>2, <1>3, <1>4 DEF TransferCommand

\* A command that calls setState() on the transfers of a queue that are in some states.
LEMMA CommandQueueStep ==
  ASSUME QueueAssumption, Inv, NEW q \in Queues, NEW S, NEW s \in States,
         CommandQueue(q, S, s)
  PROVE  Inv'
<1> DEFINE T == {u \in Members(q) : transfer[u].state \in S}
           target == [t \in T |-> s]
<1>1. T \subseteq Transfers
  BY DEF Members, Inv, TypeOK
<1>2. target \in [T -> States]
  OBVIOUS
<1>3. target \in Targets
  BY <1>1, <1>2, TargetType
<1>4. ChangeStates(target, queue[q], posted) /\ posted \in Seq(Events)
  BY DEF CommandQueue, Inv, TypeOK
<1> HIDE DEF target
<1>5. /\ transfer' \in [Transfers -> Records]
      /\ posted' \in Seq(Events)
      /\ paused' \in [Transfers -> {"Waiting", "Active", "ForcedActive", NotSaved}]
      /\ EngineMatchesState' /\ SavedArePaused'
  BY <1>3, <1>4, ChangeStatesStep
<1>6. QED
  BY <1>5 DEF CommandQueue, Inv, TypeOK

\* Reordering and limits leave the transfers alone.
LEMMA ArrangementStep ==
  ASSUME QueueAssumption, Inv,
         queue' \in [Queues -> Seq(Transfers)], limit' \in [Queues -> LimitChoices],
         UNCHANGED <<transfer, life, handover, posted, paused, tick>>
  PROVE  Inv'
BY DEF Inv, TypeOK, EngineMatchesState, SavedArePaused

\* Commands on one queue, its order and its limits.
LEMMA QueueCommandStep ==
  ASSUME QueueAssumption, Inv, NEW q \in Queues, QueueCommand(q)
  PROVE  Inv'
<1>1. CASE StartAll(q)
  BY <1>1, CommandQueueStep DEF StartAll, States
<1>2. CASE PauseQueue(q)
  BY <1>2, CommandQueueStep DEF PauseQueue, States
<1>3. CASE ResumeAll(q)
  BY <1>3, CommandQueueStep DEF ResumeAll, States
<1>4. CASE StopAll(q)
  BY <1>4, CommandQueueStep DEF StopAll, States
<1>5. ASSUME NEW i \in DOMAIN queue[q], NEW j \in DOMAIN queue[q], Move(q, i, j)
      PROVE  Inv'
  <2> DEFINE old == queue[q]
             new == [k \in DOMAIN old |-> CASE k = j -> old[i]
                             [] i < j /\ k \in i .. j - 1 -> old[k + 1]
                             [] j < i /\ k \in j + 1 .. i -> old[k - 1]
                             [] OTHER -> old[k]]
  <2>1. old \in Seq(Transfers) /\ DOMAIN old = 1 .. Len(old) /\ Len(old) \in Nat
    BY DEF Inv, TypeOK
  <2>2. queue' = [queue EXCEPT ![q] = new]
    BY <1>5 DEF Move, Inv, TypeOK
  <2>3. \A k \in DOMAIN old : new[k] \in Transfers
    <3>1. TAKE k \in DOMAIN old
    <3>2. CASE k = j
      BY <2>1, <3>2
    <3>3. CASE k # j /\ i < j /\ k \in i .. j - 1
      <4>1. k + 1 \in DOMAIN old /\ new[k] = old[k + 1]
        BY <2>1, <3>3
      <4>2. QED
        BY <2>1, <4>1
    <3>4. CASE k # j /\ j < i /\ k \in j + 1 .. i
      <4>1. k - 1 \in DOMAIN old /\ new[k] = old[k - 1]
        BY <2>1, <3>4
      <4>2. QED
        BY <2>1, <4>1
    <3>5. CASE k # j /\ ~(i < j /\ k \in i .. j - 1) /\ ~(j < i /\ k \in j + 1 .. i)
      BY <2>1, <3>5
    <3>6. QED
      BY <3>2, <3>3, <3>4, <3>5
  <2>4. new \in Seq(Transfers)
    <3> HIDE DEF new
    <3>1. DOMAIN new = 1 .. Len(old)
      BY <2>1 DEF new
    <3>2. new \in [1 .. Len(old) -> Transfers]
      BY <2>1, <2>3, <3>1 DEF new
    <3>3. QED
      BY <2>1, <3>2, FunctionIsSeq
  <2> HIDE DEF new
  <2>5. queue' \in [Queues -> Seq(Transfers)]
    BY <2>2, <2>4 DEF Inv, TypeOK
  <2>6. QED
    BY <1>5, <2>5, ArrangementStep DEF Move, Inv, TypeOK
<1>6. ASSUME NEW l \in LimitChoices, SetTransferLimits(q, l)
      PROVE  Inv'
  <2>1. limit' \in [Queues -> LimitChoices]
    BY <1>6 DEF SetTransferLimits, Inv, TypeOK
  <2>2. QED
    BY <1>6, <2>1, ArrangementStep DEF SetTransferLimits, Inv, TypeOK
<1>7. QED
  BY <1>1, <1>2, <1>3, <1>4, <1>5, <1>6 DEF QueueCommand

\* "Pause all transfers": what it saves is what it pauses.
LEMMA PauseAllStep ==
  ASSUME QueueAssumption, Inv, PauseAllTransfers
  PROVE  Inv'
<1> DEFINE stopped == {t \in Queued : transfer[t].state \in {"Waiting", "Active", "ForcedActive"}}
           target == [t \in stopped |-> "Paused"]
<1>1. Queued \subseteq Transfers
  BY DEF Queued, Members, Inv, TypeOK
<1>2. target \in [stopped -> States]
  BY DEF States
<1>3. target \in Targets
  BY <1>1, <1>2, TargetType
<1>4. /\ SetStates(transfer, target, <<>>, posted)
      /\ paused' = [t \in Transfers |->
                       IF t \in stopped THEN transfer[t].state ELSE NotSaved]
  BY DEF PauseAllTransfers
<1>5. \A t \in DOMAIN target : target[t] = "Paused"
  OBVIOUS
<1>6. DOMAIN target = stopped
  OBVIOUS
<1>7. \A t \in stopped : transfer[t].state \in {"Waiting", "Active", "ForcedActive"}
  OBVIOUS
<1> HIDE DEF target, stopped
<1>8. /\ transfer' \in [Transfers -> Records]
      /\ EngineMatchesState'
      /\ posted' \in Seq(Events)
      /\ \A t \in DOMAIN target :
           target[t] = transfer[t].state \/ ~IsActive(target[t])
             => transfer'[t].state = target[t]
  BY <1>3, <1>4, SetStatesEffect DEF Inv, TypeOK, EngineMatchesState
<1>9. SavedArePaused'
  BY <1>4, <1>5, <1>6, <1>8 DEF SavedArePaused, IsActive
<1>10. paused' \in [Transfers -> {"Waiting", "Active", "ForcedActive", NotSaved}]
  BY <1>4, <1>7
<1>11. QED
  BY <1>8, <1>9, <1>10 DEF PauseAllTransfers, Inv, TypeOK

\* "Pause all transfers", chosen again.
LEMMA UnpauseAllStep ==
  ASSUME QueueAssumption, Inv, UnpauseAllTransfers
  PROVE  Inv'
<1>1. /\ paused' \in [Transfers -> {"Waiting", "Active", "ForcedActive", NotSaved}]
      /\ SavedArePaused'
  BY DEF UnpauseAllTransfers, NothingSaved, SavedArePaused
<1>2. CASE Restorable = {} /\ UNCHANGED <<transfer, posted>>
  BY <1>1, <1>2 DEF UnpauseAllTransfers, Inv, TypeOK, EngineMatchesState
<1>3. ASSUME NEW p \in Restorable,
             LET t == queue[p[1]][p[2]]
             IN  SetStates(transfer, [x \in {t} |-> paused[t]], <<t>>, posted)
      PROVE  Inv'
  <2> DEFINE t == queue[p[1]][p[2]]
             target == [x \in {t} |-> paused[t]]
  <2>1. p[1] \in Queues /\ p[2] \in DOMAIN queue[p[1]] /\ paused[t] # NotSaved
    BY DEF Restorable
  <2>2. t \in Transfers
    BY <2>1 DEF Inv, TypeOK
  <2>3. paused[t] \in States
    BY <2>1, <2>2 DEF Inv, TypeOK, States
  <2> HIDE DEF t
  <2>4. target \in [{t} -> States]
    BY <2>3
  <2>5. target \in Targets
    BY <2>2, <2>4, TargetType
  <2>6. SetStates(transfer, target, <<t>>, posted)
    BY <1>3 DEF t
  <2> HIDE DEF target
  <2>7. /\ transfer' \in [Transfers -> Records]
        /\ EngineMatchesState'
        /\ posted' \in Seq(Events)
    BY <2>5, <2>6, SetStatesEffect DEF Inv, TypeOK, EngineMatchesState
  <2>8. QED
    BY <1>1, <2>7 DEF UnpauseAllTransfers, Inv, TypeOK
<1>4. QED
  BY <1>2, <1>3 DEF UnpauseAllTransfers

\* Adding a transfer, from the desktop or by a REST worker.
LEMMA AddingStep ==
  ASSUME QueueAssumption, Inv, NEW t \in Transfers, NEW q \in Queues, Adding(t, q)
  PROVE  Inv'
<1> PICK s \in {"Waiting", "Paused"} : AddTransfer(t, q, s) \/ CreateTransfer(t, q, s)
  BY DEF Adding
<1>1. s \in States
  BY DEF States
<1>2. CASE AddTransfer(t, q, s)
  <2>1. ChangeState(t, s, posted) /\ posted \in Seq(Events)
    BY <1>2 DEF AddTransfer, Inv, TypeOK
  <2>2. /\ transfer' \in [Transfers -> Records]
        /\ posted' \in Seq(Events)
        /\ paused' \in [Transfers -> {"Waiting", "Active", "ForcedActive", NotSaved}]
        /\ EngineMatchesState' /\ SavedArePaused'
    BY <1>1, <2>1, ChangeStateStep
  <2>3. queue' \in [Queues -> Seq(Transfers)]
    BY <1>2 DEF AddTransfer, Inv, TypeOK
  <2>4. QED
    BY <1>2, <2>2, <2>3 DEF AddTransfer, Inv, TypeOK, Lives
<1>3. CASE CreateTransfer(t, q, s)
  <2>1. posted' \in Seq(Events)
    BY <1>1, <1>3 DEF CreateTransfer, Set, Events, Inv, TypeOK
  <2>2. QED
    BY <1>3, <2>1
       DEF CreateTransfer, Inv, TypeOK, Lives, EngineMatchesState, SavedArePaused
<1>4. QED
  BY <1>2, <1>3

\* What else REST workers do.
LEMMA WorkerStep ==
  ASSUME QueueAssumption, Inv, NEW t \in Transfers, Worker(t)
  PROVE  Inv'
<1>1. ASSUME NEW s \in RestStates, PostState(t, s)
      PROVE  Inv'
  <2>1. posted' \in Seq(Events)
    BY <1>1 DEF PostState, Set, Events, QueueAssumption, Inv, TypeOK
  <2>2. QED
    BY <1>1, <2>1 DEF PostState, Inv, TypeOK, EngineMatchesState, SavedArePaused
<1>2. CASE HandOver(t)
  <2>1. handover[t] \in Queues
    BY <1>2 DEF HandOver, Inv, TypeOK
  <2>2. queue' \in [Queues -> Seq(Transfers)]
    BY <1>2, <2>1 DEF HandOver, Inv, TypeOK
  <2>3. QED
    BY <1>2, <2>2 DEF HandOver, Inv, TypeOK, Lives, EngineMatchesState, SavedArePaused
<1>3. ASSUME NEW q \in Queues, TakeTransfer(t, q)
      PROVE  Inv'
  <2> PICK p \in Queues : \E rest \in Without(t, queue[p]) : queue' = [queue EXCEPT ![p] = rest]
    BY <1>3 DEF TakeTransfer
  <2>1. PICK rest \in Without(t, queue[p]) : queue' = [queue EXCEPT ![p] = rest]
    OBVIOUS
  <2>2. rest \in Seq(Transfers)
    <3>1. {queue[p][i] : i \in DOMAIN queue[p]} \ {t} \in SUBSET Transfers
      BY DEF Inv, TypeOK
    <3>2. QED
      BY <3>1, SublistType DEF Without
  <2>3. queue' \in [Queues -> Seq(Transfers)]
    BY <2>1, <2>2 DEF Inv, TypeOK
  <2>4. QED
    BY <1>3, <2>3 DEF TakeTransfer, Inv, TypeOK, EngineMatchesState, SavedArePaused
<1>4. CASE RollBack(t)
  <2>1. Fresh \in Records
    BY DEF Fresh, Records, States, Modes, QueueAssumption
  <2>2. transfer' = [transfer EXCEPT ![t] = Fresh]
    BY <1>4 DEF RollBack
  <2>3. transfer' \in [Transfers -> Records]
    BY <2>1, <2>2 DEF Inv, TypeOK
  <2>4. EngineMatchesState'
    BY <2>2 DEF Inv, TypeOK, EngineMatchesState, Fresh, IsActive
  <2>5. SavedArePaused'
    BY <1>4, <2>2 DEF RollBack, Inv, TypeOK, SavedArePaused, Fresh
  <2>6. QED
    BY <1>4, <2>3, <2>4, <2>5 DEF RollBack, Inv, TypeOK, Lives
<1>5. QED
  BY <1>1, <1>2, <1>3, <1>4 DEF Worker

-----------------------------------------------------------------------------

\* The program starts with every transfer paused and no engine running.
LEMMA InvInit == ASSUME QueueAssumption, Init PROVE Inv
<1>1. Fresh \in Records /\ ~Fresh.engine /\ ~IsActive(Fresh.state)
  BY DEF Fresh, Records, States, Modes, IsActive, QueueAssumption
<1>2. posted \in Seq(Events) /\ tick \in 0 .. QueueCount - 1
  BY DEF Init, QueueAssumption
<1>3. PICK saved \in [Queued -> States], outcome \in [Queued -> Outcomes] :
        transfer = [t \in Transfers |->
          IF t \in Queued THEN AfterSetState(Fresh, saved[t], outcome[t]) ELSE Fresh]
  BY DEF Init
<1>4. \A t \in Queued : LET n == AfterSetState(Fresh, saved[t], outcome[t])
                       IN  n \in Records /\ (n.engine <=> IsActive(n.state))
  BY <1>1, RecordType, EngineFollows
<1>5. transfer \in [Transfers -> Records] /\ EngineMatchesState
  BY <1>1, <1>3, <1>4 DEF EngineMatchesState
<1>6. QED
  BY <1>2, <1>5 DEF Init, Inv, TypeOK, Lives, SavedArePaused, NothingSaved, QueueAssumption

\* Every step keeps the invariant.
LEMMA InvNext == ASSUME QueueAssumption, Inv, [Next]_vars PROVE Inv'
<1>1. ASSUME NEW q \in Queues, TickQueue(q) \/ QueueCommand(q)
      PROVE  Inv'
  BY <1>1, TickStep, QueueCommandStep
<1>2. CASE Posted \/ PauseAllTransfers \/ UnpauseAllTransfers
  BY <1>2, PostedStep, PauseAllStep, UnpauseAllStep
<1>3. ASSUME NEW t \in Transfers, Engine(t) \/ TransferCommand(t) \/ Worker(t)
      PROVE  Inv'
  BY <1>3, EngineStep, TransferCommandStep, WorkerStep
<1>4. ASSUME NEW t \in Transfers, NEW q \in Queues, Adding(t, q)
      PROVE  Inv'
  BY <1>4, AddingStep
<1>5. CASE UNCHANGED vars
  BY <1>5 DEF vars, Inv, TypeOK, EngineMatchesState, SavedArePaused
<1>6. QED
  BY <1>1, <1>2, <1>3, <1>4, <1>5 DEF Next

\* The invariant that the next three theorems read off.
LEMMA Invariance == Spec => []Inv
<1>1. Init => Inv
  BY QueueAssumption, InvInit
<1>2. Inv /\ [Next]_vars => Inv'
  BY QueueAssumption, InvNext
<1>3. QED
  BY <1>1, <1>2, PTL DEF Spec

\* Every variable of the queue manager and its transfers keeps its type.
THEOREM TypeCorrect == Spec => []TypeOK
BY Invariance, PTL DEF Inv

\* An engine runs exactly when its transfer is Active or ForcedActive, whatever
\* fails while it is being started and whoever stops it.
THEOREM EnginesFollowStates == Spec => []EngineMatchesState
BY Invariance, PTL DEF Inv

\* QueueMgr remembers no state of a transfer that has since been started, has failed,
\* or has completed and stays in its queue.
THEOREM OnlyPausedAreSaved == Spec => []SavedArePaused
BY Invariance, PTL DEF Inv
=============================================================================
