-------------------------- MODULE QueueStoreProofs --------------------------
(***************************************************************************)
(* Proofs about QueueStore for any number of workers, queues and           *)
(* transfers: the queue a request works on is not deleted under it, a save *)
(* writes its own document, the file settles, the process ends with its    *)
(* queues saved, no threads wait in a circle but for calls of the main     *)
(* thread, and no transfer is lost between queues.                         *)
(***************************************************************************)
EXTENDS QueueStore, TLAPS

\* Where each kind of thread can be.
SavePlaces == {"wantMutex", "wantList", "walk", "write", "rename"}

MainPlaces ==
  {"loop", "wantRead", "reading", "wantWrite", "join", "seal", "drain", "unlist",
   "unload", "down", "exec", "gone"} \cup SavePlaces

WorkerPlaces ==
  {"idle", "wantRead", "reading", "wantWrite", "calling", "served", "answered",
   "moving", "gone"}

SaverPlaces == {"none", "finished", "gone"} \cup SavePlaces

Placed ==
  /\ pc[Main] \in MainPlaces
  /\ \A w \in Workers : pc[w] \in WorkerPlaces
  /\ \A b \in Savers : pc[b] \in SaverPlaces
  /\ \A th \in Threads : pc[th] = "gone" <=> pc[Main] = "gone"

\* Who holds the locks follows from where the threads are.
Reads(th) ==
  \/ pc[th] \in {"reading", "moving", "walk"}
  \/ th \in Workers /\ pc[th] \in {"calling", "answered"} /\ req[th] \in {"add", "init"}

\* A caller that will ask for a save has its saver free; one that will add a
\* transfer has it.
Ready ==
  /\ \A w \in Workers : pc[w] \notin {"idle", "gone"} => pc[Saver[w]] = "none"
  /\ pc[Main] = "wantWrite" => pc[Saver[Main]] = "none"
  /\ \A w \in Workers :
       pc[w] \in {"calling", "answered"} /\ req[w] = "init" => hand[w] \in Transfers

LocksHeld ==
  /\ \A th \in Threads : th \in readers <=> Reads(th)
  /\ \A th \in Threads :
       th \in saving <=> pc[th] \in {"wantList", "walk", "write", "rename", "unload"}
  /\ \A a, b \in saving : a = b
  /\ \A w \in Workers : dest[w] # NoQueue => w \in readers
  /\ dest[Main] = NoQueue /\ req[Main] \notin {"add", "move"}
  /\ \A w \in Workers : pc[w] = "served" => req[w] = "options"

\* The main thread has left its event loop and joined the workers.
Joined ==
  \/ pc[Main] \in SavePlaces \cup {"seal", "drain", "unlist", "unload", "down", "exec"}
  \/ pc[Main] \in {"wantRead", "reading"} /\ req[Main] = "stop"

Alone ==
  /\ pc[Main] = "join" => stage # "up"
  /\ Joined => stage # "up" /\ \A w \in Workers : pc[w] = "idle"
  /\ pc[Main] \in {"unlist", "unload", "down"} =>
       \A b \in Savers : pc[b] \in {"none", "finished"}
  /\ loaded <=> pc[Main] # "down"

\* Once the main thread has begun its last save, every document being built is
\* a part of the queues as they are, and the file is the queues after it.
LastSave == {"wantList", "walk", "write", "rename", "seal", "drain", "unlist", "unload", "exec"}

Fresh(th) ==
  /\ pc[th] = "walk" =>
       \A q \in DOMAIN doc[th] : q \in DOMAIN queues /\ doc[th][q] = queues[q]
  /\ pc[th] \in {"write", "rename"} => doc[th] = queues

Documents ==
  /\ \A th \in Threads : pc[th] \notin {"walk", "write", "rename"} => doc[th] = NoList
  /\ pc[Main] \in LastSave => \A th \in Threads : th \in saving => Fresh(th)
  /\ pc[Main] \in {"seal", "drain", "unlist", "unload", "exec"} => failed \/ file = queues

Inv ==
  /\ TypeOK /\ Placed /\ Ready /\ QueuesStay /\ OwnDocument
  /\ pc[Main] # "gone" => LocksHeld /\ Alone /\ Documents
-----------------------------------------------------------------------------
(* Lists of queues                                                         *)

\* What is in a list of queues.
LEMMA ListType ==
  ASSUME NEW l \in Lists
  PROVE  /\ DOMAIN l \in SUBSET Queues
         /\ l = [p \in DOMAIN l |-> l[p]]
         /\ \A p \in DOMAIN l : l[p] \in SUBSET Transfers
BY DEF Lists

\* Anything of that form is a list.
LEMMA IsList ==
  ASSUME NEW D \in SUBSET Queues, NEW l \in [D -> SUBSET Transfers]
  PROVE  l \in Lists
BY Zenon DEF Lists

\* The empty list is a list.
LEMMA NoListType == NoList \in Lists
<1>1. {} \in SUBSET Queues /\ NoList \in [{} -> SUBSET Transfers]
  BY DEF NoList
<1>2. QED
  BY <1>1, IsList

\* With() puts a queue into a list.
LEMMA WithType ==
  ASSUME NEW l \in Lists, NEW q \in Queues, NEW S \in SUBSET Transfers
  PROVE  With(l, q, S) \in Lists
<1>1. DOMAIN l \cup {q} \in SUBSET Queues
  BY ListType
<1>2. With(l, q, S) \in [DOMAIN l \cup {q} -> SUBSET Transfers]
  BY ListType DEF With
<1>3. QED
  BY <1>1, <1>2, IsList

\* Without() takes one out.
LEMMA WithoutType ==
  ASSUME NEW l \in Lists, NEW q
  PROVE  Without(l, q) \in Lists
<1>1. DOMAIN l \ {q} \in SUBSET Queues
  BY ListType
<1>2. Without(l, q) \in [DOMAIN l \ {q} -> SUBSET Transfers]
  BY ListType DEF Without
<1>3. QED
  BY <1>1, <1>2, IsList

\* Taken() takes a transfer out of every queue.
LEMMA TakenType ==
  ASSUME NEW l \in Lists, NEW t
  PROVE  Taken(l, t) \in Lists
<1>1. Taken(l, t) \in [DOMAIN l -> SUBSET Transfers]
  BY ListType DEF Taken
<1>2. QED
  BY <1>1, ListType, IsList

\* Adding transfers to one queue of a list yields a list.
LEMMA PutType ==
  ASSUME NEW l \in Lists, NEW q, NEW S \in SUBSET Transfers
  PROVE  [l EXCEPT ![q] = @ \cup S] \in Lists
<1>1. [l EXCEPT ![q] = @ \cup S] \in [DOMAIN l -> SUBSET Transfers]
  BY ListType
<1>2. QED
  BY <1>1, ListType, IsList

\* What a drag makes of the list: the same queues, those others unchanged, one with
\* the dragged transfers more, which are no longer where they were.
LEMMA DragType ==
  ASSUME Drag, queues \in Lists
  PROVE  /\ queues' \in Lists /\ DOMAIN queues' = DOMAIN queues
         /\ dragged \in SUBSET Transfers => dragged' \in SUBSET Transfers
         /\ \E a, b \in DOMAIN queues : \E S \in SUBSET queues[a] :
              /\ a # b /\ dragged' = dragged \cup S
              /\ queues'[a] = queues[a] \ S /\ queues'[b] = queues[b] \cup S
              /\ \A p \in DOMAIN queues \ {a, b} : queues'[p] = queues[p]
<1>0. PICK a \in DOMAIN queues, b \in DOMAIN queues :
        \E S \in SUBSET queues[a] :
          /\ a # b
          /\ queues' = [queues EXCEPT ![a] = @ \ S, ![b] = @ \cup S]
          /\ dragged' = dragged \cup S
  BY Zenon DEF Drag
<1>1. PICK S \in SUBSET queues[a] :
        /\ a # b
        /\ queues' = [queues EXCEPT ![a] = @ \ S, ![b] = @ \cup S]
        /\ dragged' = dragged \cup S
  BY <1>0
<1>2. S \in SUBSET Transfers
  BY ListType
<1>3. queues' \in [DOMAIN queues -> SUBSET Transfers]
  BY <1>1, <1>2, ListType
<1>4. queues' \in Lists /\ DOMAIN queues' = DOMAIN queues
  BY <1>3, ListType, IsList
<1>5. /\ queues'[a] = queues[a] \ S /\ queues'[b] = queues[b] \cup S
      /\ \A p \in DOMAIN queues \ {a, b} : queues'[p] = queues[p]
  BY <1>1
<1>6. QED
  BY <1>1, <1>2, <1>4, <1>5
-----------------------------------------------------------------------------
\* Every step keeps the types.
LEMMA TypeStep ==
  ASSUME StoreAssumption, Inv, Next
  PROVE  TypeOK'
<1> USE DEF Callers, Threads, Goto, SavePlaces, callers, lists, files
<1>1. ASSUME NEW w \in Workers, Ask(w) PROVE TypeOK'
  BY <1>1 DEF Ask, Inv, TypeOK, Places
<1>2. ASSUME NEW w \in Workers, Miss(w) PROVE TypeOK'
  BY <1>2 DEF Miss, Inv, TypeOK, Places
<1>3. ASSUME NEW w \in Workers, CallCreate(w) PROVE TypeOK'
  BY <1>3 DEF CallCreate, Inv, TypeOK, Places
<1>4. ASSUME NEW w \in Workers, CallInit(w) PROVE TypeOK'
  BY <1>4 DEF CallInit, Inv, TypeOK, Places
<1>5. ASSUME NEW w \in Workers, EndAdd(w) PROVE TypeOK'
  <2>1. hand[w] \in Transfers
    BY <1>5 DEF EndAdd, Inv, Ready
  <2>2. queues' \in Lists
    BY <1>5, <2>1, PutType DEF EndAdd, Inv, TypeOK
  <2>3. QED
    BY <1>5, <2>2 DEF EndAdd, Release, Inv, TypeOK, Places
<1>6. ASSUME NEW w \in Workers, FailAdd(w) PROVE TypeOK'
  BY <1>6 DEF FailAdd, Release, Inv, TypeOK, Places
<1>7. ASSUME NEW w \in Workers, EndOptions(w) PROVE TypeOK'
  BY <1>7 DEF EndOptions, GotoSaving, Inv, TypeOK, Places
<1>8. ASSUME NEW w \in Workers, MoveTake(w) PROVE TypeOK'
  BY <1>8, TakenType DEF MoveTake, Inv, TypeOK, Places
<1>9. ASSUME NEW w \in Workers, MoveAdd(w) PROVE TypeOK'
  <2>1. {hand[w]} \ {NoTransfer} \in SUBSET Transfers
    BY <1>9 DEF Inv, TypeOK
  <2>2. queues' \in Lists
    BY <1>9, <2>1, PutType DEF MoveAdd, Inv, TypeOK
  <2>3. QED
    BY <1>9, <2>2 DEF MoveAdd, Release, GotoSaving, Closed, Inv, TypeOK, Places,
      StoreAssumption
<1>10. ASSUME NEW w \in Workers, RemoveTransfer(w) PROVE TypeOK'
  BY <1>10, TakenType DEF RemoveTransfer, Release, Inv, TypeOK, Places
<1>11. ASSUME NEW w \in Workers, CreateQueue(w) PROVE TypeOK'
  BY <1>11, WithType DEF CreateQueue, Unborn, Inv, TypeOK, Places
<1>12. ASSUME NEW w \in Workers, DeleteQueue(w) PROVE TypeOK'
  <2>1. PICK q \in DOMAIN queues :
          /\ \/ queues' = Without(queues, q)
             \/ \E p \in DOMAIN queues \ {q} :
                  queues' = With(Without(queues, q), p, queues[p] \cup queues[q])
          /\ doomed' = doomed \cup {q}
    BY <1>12 DEF DeleteQueue
  <2>2. q \in Queues /\ Without(queues, q) \in Lists
    BY ListType, WithoutType DEF Inv, TypeOK
  <2>3. ASSUME NEW p \in DOMAIN queues
        PROVE  With(Without(queues, q), p, queues[p] \cup queues[q]) \in Lists
    <3>1. p \in Queues /\ queues[p] \cup queues[q] \in SUBSET Transfers
      BY ListType DEF Inv, TypeOK
    <3>2. QED
      BY <2>2, <3>1, WithType
  <2>4. queues' \in Lists
    BY <2>1, <2>2, <2>3
  <2>5. QED
    BY <1>12, <2>1, <2>2, <2>4 DEF DeleteQueue, GotoSaving, Closed, Inv, TypeOK, Places,
      StoreAssumption
<1>13. ASSUME NEW w \in Workers, RefuseWrite(w) PROVE TypeOK'
  BY <1>13 DEF RefuseWrite, Inv, TypeOK, Places
<1>14. ASSUME NEW w \in Workers, ServeCreate(w) PROVE TypeOK'
  BY <1>14 DEF ServeCreate, Inv, TypeOK, Places
<1>15. ASSUME NEW w \in Workers, ServeInit(w) PROVE TypeOK'
  BY <1>15 DEF ServeInit, Inv, TypeOK, Places
<1>16. ASSUME NEW w \in Workers, ServeOptions(w) PROVE TypeOK'
  BY <1>16 DEF ServeOptions, Inv, TypeOK, Places
<1>17. ASSUME NEW w \in Workers, EndServe(w) PROVE TypeOK'
  BY <1>17 DEF EndServe, Release, Inv, TypeOK, Places
<1>18. ASSUME NEW c \in Callers, LockRead(c) PROVE TypeOK'
  BY <1>18, ListType DEF LockRead, Inv, TypeOK, Places
<1>19. ASSUME NEW th \in Savers \cup {Main}, BeginSave(th) PROVE TypeOK'
  BY <1>19 DEF BeginSave, Saved, Inv, TypeOK, Places, Ready, StoreAssumption
<1>20. ASSUME NEW th \in Savers \cup {Main}, ListLock(th) PROVE TypeOK'
  BY <1>20 DEF ListLock, Inv, TypeOK, Places
<1>21. ASSUME NEW th \in Savers \cup {Main}, Walk(th) PROVE TypeOK'
  BY <1>21, ListType, WithType DEF Walk, Inv, TypeOK
<1>22. ASSUME NEW th \in Savers \cup {Main}, EndWalk(th) PROVE TypeOK'
  BY <1>22 DEF EndWalk, Inv, TypeOK, Places
<1>23. ASSUME NEW th \in Savers \cup {Main}, Write(th) PROVE TypeOK'
  BY <1>23 DEF Write, Inv, TypeOK, Places
<1>24. ASSUME NEW th \in Savers \cup {Main}, WriteFails(th) PROVE TypeOK'
  BY <1>24, NoListType DEF WriteFails, Saved, Inv, TypeOK, Places
<1>25. ASSUME NEW th \in Savers \cup {Main}, Rename(th) PROVE TypeOK'
  BY <1>25, NoListType DEF Rename, Saved, Inv, TypeOK, Places
<1>26. ASSUME NEW b \in Savers, DeleteSaver(b) PROVE TypeOK'
  BY <1>26 DEF DeleteSaver, Inv, TypeOK, Places
<1>27. ASSUME Handler PROVE TypeOK'
  BY <1>27 DEF Handler, Inv, TypeOK, Places
<1>28. ASSUME EndHandler PROVE TypeOK'
  <2>1. queues' \in Lists /\ known' \in SUBSET Transfers
    <3>1. CASE UNCHANGED <<queues, known>>
      BY <3>1 DEF Inv, TypeOK
    <3>2. CASE /\ \E t \in Transfers : Holds(queues, t) /\ queues' = Taken(queues, t)
               /\ UNCHANGED known
      BY <3>2, TakenType DEF Inv, TypeOK
    <3>3. CASE \E t \in Transfers \ known, q \in DOMAIN queues :
                 /\ queues' = [queues EXCEPT ![q] = @ \cup {t}]
                 /\ known' = known \cup {t}
      <4>1. PICK t \in Transfers, q \in DOMAIN queues :
              /\ queues' = [queues EXCEPT ![q] = @ \cup {t}]
              /\ known' = known \cup {t}
        BY <3>3
      <4>2. {t} \in SUBSET Transfers
        OBVIOUS
      <4>3. [queues EXCEPT ![q] = @ \cup {t}] \in Lists
        BY <4>2, PutType DEF Inv, TypeOK
      <4>4. QED
        BY <4>1, <4>3 DEF Inv, TypeOK
    <3>4. QED
      BY <1>28, <3>1, <3>2, <3>3 DEF EndHandler
  <2>2. QED
    BY <1>28, <2>1 DEF EndHandler, Release, GotoSaving, Closed, Inv, TypeOK, Places,
      StoreAssumption
<1>29. ASSUME Edit PROVE TypeOK'
  BY <1>29 DEF Edit, Inv, TypeOK, Places
<1>30. ASSUME EndEdit PROVE TypeOK'
  BY <1>30, ListType, WithType, WithoutType DEF EndEdit, Unborn, GotoSaving, Inv,
    TypeOK, Places
<1>31. ASSUME DeleteDoomed PROVE TypeOK'
  BY <1>31 DEF DeleteDoomed, Inv, TypeOK
<1>32. ASSUME Quit PROVE TypeOK'
  BY <1>32 DEF Quit, Inv, TypeOK, Places
<1>33. ASSUME Join PROVE TypeOK'
  BY <1>33 DEF Join, Inv, TypeOK, Places
<1>34. ASSUME StopQueues PROVE TypeOK'
  BY <1>34 DEF StopQueues, Release, Inv, TypeOK, Places
<1>35. ASSUME Seal PROVE TypeOK'
  BY <1>35 DEF Seal, Inv, TypeOK, Places
<1>36. ASSUME Drain PROVE TypeOK'
  BY <1>36 DEF Drain, Inv, TypeOK, Places
<1>37. ASSUME Unlist PROVE TypeOK'
  BY <1>37 DEF Unlist, Inv, TypeOK, Places
<1>38. ASSUME Unload PROVE TypeOK'
  BY <1>38, ListType, NoListType DEF Unload, CanWrite, Inv, TypeOK, Places, Ready,
    StoreAssumption
<1>39. ASSUME Exec PROVE TypeOK'
  BY <1>39 DEF Exec, Inv, TypeOK, Places
<1>40. ASSUME Drag PROVE TypeOK'
  <2>1. queues' \in Lists /\ dragged' \in SUBSET Transfers
    BY <1>40, DragType DEF Inv, TypeOK
  <2>2. QED
    BY <1>40, <2>1 DEF Drag, Release, Inv, TypeOK, Places
<1>41. QED
  BY <1>1, <1>2, <1>3, <1>4, <1>5, <1>6, <1>7, <1>8, <1>9, <1>10, <1>11, <1>12, <1>13,
    <1>14, <1>15, <1>16, <1>17, <1>18, <1>19, <1>20, <1>21, <1>22, <1>23, <1>24, <1>25,
    <1>26, <1>27, <1>28, <1>29, <1>30, <1>31, <1>32, <1>33, <1>34, <1>35, <1>36, <1>37,
    <1>38, <1>39, <1>40 DEF Next,
    Proceed, TakeWrite, SaveStep, Serve, ShutDown

-----------------------------------------------------------------------------
\* Every step leaves each thread where its kind can be.
LEMMA PlaceStep ==
  ASSUME StoreAssumption, Inv, Next
  PROVE  Placed'
<1> USE DEF Callers, Threads, Goto, SavePlaces, callers, lists, files
<1>1. ASSUME NEW w \in Workers, Ask(w) PROVE Placed'
  BY <1>1 DEF Ask, Inv, TypeOK, Placed, WorkerPlaces
<1>2. ASSUME NEW w \in Workers, Miss(w) PROVE Placed'
  BY <1>2 DEF Miss, Inv, TypeOK, Placed, WorkerPlaces
<1>3. ASSUME NEW w \in Workers, CallCreate(w) PROVE Placed'
  BY <1>3 DEF CallCreate, Inv, TypeOK, Placed, WorkerPlaces
<1>4. ASSUME NEW w \in Workers, CallInit(w) PROVE Placed'
  BY <1>4 DEF CallInit, Inv, TypeOK, Placed, WorkerPlaces
<1>5. ASSUME NEW w \in Workers, EndAdd(w) PROVE Placed'
  BY <1>5 DEF EndAdd, Inv, TypeOK, Placed, WorkerPlaces
<1>6. ASSUME NEW w \in Workers, FailAdd(w) PROVE Placed'
  BY <1>6 DEF FailAdd, Inv, TypeOK, Placed, WorkerPlaces
<1>7. ASSUME NEW w \in Workers, EndOptions(w) PROVE Placed'
  BY <1>7 DEF EndOptions, GotoSaving, Inv, TypeOK, Placed, WorkerPlaces, SaverPlaces
<1>8. ASSUME NEW w \in Workers, MoveTake(w) PROVE Placed'
  BY <1>8 DEF MoveTake, Inv, TypeOK, Placed, WorkerPlaces
<1>9. ASSUME NEW w \in Workers, MoveAdd(w) PROVE Placed'
  BY <1>9 DEF MoveAdd, GotoSaving, Inv, TypeOK, Placed, WorkerPlaces, SaverPlaces
<1>10. ASSUME NEW w \in Workers, RemoveTransfer(w) PROVE Placed'
  BY <1>10 DEF RemoveTransfer, Inv, TypeOK, Placed, WorkerPlaces
<1>11. ASSUME NEW w \in Workers, CreateQueue(w) PROVE Placed'
  BY <1>11 DEF CreateQueue, Inv, TypeOK, Placed, WorkerPlaces
<1>12. ASSUME NEW w \in Workers, DeleteQueue(w) PROVE Placed'
  BY <1>12 DEF DeleteQueue, GotoSaving, Inv, TypeOK, Placed, WorkerPlaces, SaverPlaces
<1>13. ASSUME NEW w \in Workers, RefuseWrite(w) PROVE Placed'
  BY <1>13 DEF RefuseWrite, Inv, TypeOK, Placed, WorkerPlaces
<1>14. ASSUME NEW w \in Workers, ServeCreate(w) PROVE Placed'
  BY <1>14 DEF ServeCreate, Inv, TypeOK, Placed, WorkerPlaces
<1>15. ASSUME NEW w \in Workers, ServeInit(w) PROVE Placed'
  BY <1>15 DEF ServeInit, Inv, TypeOK, Placed, WorkerPlaces
<1>16. ASSUME NEW w \in Workers, ServeOptions(w) PROVE Placed'
  BY <1>16 DEF ServeOptions, Inv, TypeOK, Placed, MainPlaces, WorkerPlaces
<1>17. ASSUME NEW w \in Workers, EndServe(w) PROVE Placed'
  BY <1>17 DEF EndServe, Inv, TypeOK, Placed, MainPlaces, WorkerPlaces
<1>18. ASSUME NEW c \in Callers, LockRead(c) PROVE Placed'
  BY <1>18 DEF LockRead, Inv, TypeOK, Placed, MainPlaces, WorkerPlaces
<1>19. ASSUME NEW th \in Savers \cup {Main}, BeginSave(th) PROVE Placed'
  BY <1>19 DEF BeginSave, Saved, Inv, TypeOK, Placed, MainPlaces, SaverPlaces
<1>20. ASSUME NEW th \in Savers \cup {Main}, ListLock(th) PROVE Placed'
  BY <1>20 DEF ListLock, Inv, TypeOK, Placed, MainPlaces, SaverPlaces
<1>21. ASSUME NEW th \in Savers \cup {Main}, Walk(th) PROVE Placed'
  BY <1>21 DEF Walk, Inv, TypeOK, Placed
<1>22. ASSUME NEW th \in Savers \cup {Main}, EndWalk(th) PROVE Placed'
  BY <1>22 DEF EndWalk, Inv, TypeOK, Placed, MainPlaces, SaverPlaces
<1>23. ASSUME NEW th \in Savers \cup {Main}, Write(th) PROVE Placed'
  BY <1>23 DEF Write, Inv, TypeOK, Placed, MainPlaces, SaverPlaces
<1>24. ASSUME NEW th \in Savers \cup {Main}, WriteFails(th) PROVE Placed'
  BY <1>24 DEF WriteFails, Saved, Inv, TypeOK, Placed, MainPlaces, SaverPlaces
<1>25. ASSUME NEW th \in Savers \cup {Main}, Rename(th) PROVE Placed'
  BY <1>25 DEF Rename, Saved, Inv, TypeOK, Placed, MainPlaces, SaverPlaces
<1>26. ASSUME NEW b \in Savers, DeleteSaver(b) PROVE Placed'
  BY <1>26 DEF DeleteSaver, Inv, TypeOK, Placed, SaverPlaces
<1>27. ASSUME Handler PROVE Placed'
  BY <1>27 DEF Handler, Inv, TypeOK, Placed, MainPlaces
<1>28. ASSUME EndHandler PROVE Placed'
  BY <1>28 DEF EndHandler, GotoSaving, Inv, TypeOK, Placed, MainPlaces, SaverPlaces
<1>29. ASSUME Edit PROVE Placed'
  BY <1>29 DEF Edit, Inv, TypeOK, Placed, MainPlaces
<1>30. ASSUME EndEdit PROVE Placed'
  BY <1>30 DEF EndEdit, GotoSaving, Inv, TypeOK, Placed, MainPlaces, SaverPlaces
<1>31. ASSUME DeleteDoomed PROVE Placed'
  BY <1>31 DEF DeleteDoomed, Inv, TypeOK, Placed
<1>32. ASSUME Quit PROVE Placed'
  BY <1>32 DEF Quit, Inv, TypeOK, Placed, MainPlaces
<1>33. ASSUME Join PROVE Placed'
  BY <1>33 DEF Join, Inv, TypeOK, Placed, MainPlaces
<1>34. ASSUME StopQueues PROVE Placed'
  BY <1>34 DEF StopQueues, Inv, TypeOK, Placed, MainPlaces
<1>35. ASSUME Seal PROVE Placed'
  BY <1>35 DEF Seal, Inv, TypeOK, Placed, MainPlaces
<1>36. ASSUME Drain PROVE Placed'
  BY <1>36 DEF Drain, Inv, TypeOK, Placed, MainPlaces
<1>37. ASSUME Unlist PROVE Placed'
  BY <1>37 DEF Unlist, Inv, TypeOK, Placed, MainPlaces
<1>38. ASSUME Unload PROVE Placed'
  BY <1>38 DEF Unload, Inv, TypeOK, Placed, MainPlaces
<1>39. ASSUME Exec PROVE Placed'
  BY <1>39 DEF Exec, Inv, TypeOK, Placed, MainPlaces, WorkerPlaces, SaverPlaces
<1>40. ASSUME Drag PROVE Placed'
  BY <1>40 DEF Drag, Inv, TypeOK, Placed, MainPlaces
<1>41. QED
  BY <1>1, <1>2, <1>3, <1>4, <1>5, <1>6, <1>7, <1>8, <1>9, <1>10, <1>11, <1>12, <1>13,
    <1>14, <1>15, <1>16, <1>17, <1>18, <1>19, <1>20, <1>21, <1>22, <1>23, <1>24, <1>25,
    <1>26, <1>27, <1>28, <1>29, <1>30, <1>31, <1>32, <1>33, <1>34, <1>35, <1>36, <1>37,
    <1>38, <1>39, <1>40 DEF Next,
    Proceed, TakeWrite, SaveStep, Serve, ShutDown

-----------------------------------------------------------------------------
\* Every step leaves a worker that will save its saver, one that will add a transfer
\* that transfer.
LEMMA ReadyStep ==
  ASSUME StoreAssumption, Inv, Next
  PROVE  Ready'
<1> USE DEF Callers, Threads, Goto, SavePlaces, callers, lists, files
<1>1. ASSUME NEW w \in Workers, Ask(w) PROVE Ready'
  BY <1>1 DEF Ask, MaySave, Inv, TypeOK, Ready
<1>2. ASSUME NEW w \in Workers, Miss(w) PROVE Ready'
  BY <1>2 DEF Miss, Inv, TypeOK, Ready
<1>3. ASSUME NEW w \in Workers, CallCreate(w) PROVE Ready'
  BY <1>3 DEF CallCreate, Inv, TypeOK, Ready
<1>4. ASSUME NEW w \in Workers, CallInit(w) PROVE Ready'
  BY <1>4 DEF CallInit, Inv, TypeOK, Ready
<1>5. ASSUME NEW w \in Workers, EndAdd(w) PROVE Ready'
  BY <1>5 DEF EndAdd, Release, Inv, TypeOK, Ready
<1>6. ASSUME NEW w \in Workers, FailAdd(w) PROVE Ready'
  BY <1>6 DEF FailAdd, Release, Inv, TypeOK, Ready
<1>7. ASSUME NEW w \in Workers, EndOptions(w) PROVE Ready'
  BY <1>7 DEF EndOptions, GotoSaving, Inv, TypeOK, Ready
<1>8. ASSUME NEW w \in Workers, MoveTake(w) PROVE Ready'
  BY <1>8 DEF MoveTake, Inv, TypeOK, Ready
<1>9. ASSUME NEW w \in Workers, MoveAdd(w) PROVE Ready'
  BY <1>9 DEF MoveAdd, Release, GotoSaving, Inv, TypeOK, Ready
<1>10. ASSUME NEW w \in Workers, RemoveTransfer(w) PROVE Ready'
  BY <1>10 DEF RemoveTransfer, Release, Inv, TypeOK, Ready
<1>11. ASSUME NEW w \in Workers, CreateQueue(w) PROVE Ready'
  BY <1>11 DEF CreateQueue, Inv, TypeOK, Ready
<1>12. ASSUME NEW w \in Workers, DeleteQueue(w) PROVE Ready'
  BY <1>12 DEF DeleteQueue, GotoSaving, Inv, TypeOK, Ready
<1>13. ASSUME NEW w \in Workers, RefuseWrite(w) PROVE Ready'
  BY <1>13 DEF RefuseWrite, Inv, TypeOK, Ready
<1>14. ASSUME NEW w \in Workers, ServeCreate(w) PROVE Ready'
  BY <1>14 DEF ServeCreate, Inv, TypeOK, Ready
<1>15. ASSUME NEW w \in Workers, ServeInit(w) PROVE Ready'
  BY <1>15 DEF ServeInit, Inv, TypeOK, Ready
<1>16. ASSUME NEW w \in Workers, ServeOptions(w) PROVE Ready'
  BY <1>16 DEF ServeOptions, Inv, TypeOK, Ready
<1>17. ASSUME NEW w \in Workers, EndServe(w) PROVE Ready'
  BY <1>17 DEF EndServe, Release, Inv, TypeOK, Ready, LocksHeld
<1>18. ASSUME NEW c \in Callers, LockRead(c) PROVE Ready'
  BY <1>18 DEF LockRead, Inv, TypeOK, Ready
<1>19. ASSUME NEW th \in Savers \cup {Main}, BeginSave(th) PROVE Ready'
  BY <1>19 DEF BeginSave, Saved, Inv, TypeOK, Ready
<1>20. ASSUME NEW th \in Savers \cup {Main}, ListLock(th) PROVE Ready'
  BY <1>20 DEF ListLock, Inv, TypeOK, Ready
<1>21. ASSUME NEW th \in Savers \cup {Main}, Walk(th) PROVE Ready'
  BY <1>21 DEF Walk, Inv, TypeOK, Ready
<1>22. ASSUME NEW th \in Savers \cup {Main}, EndWalk(th) PROVE Ready'
  BY <1>22 DEF EndWalk, Inv, TypeOK, Ready
<1>23. ASSUME NEW th \in Savers \cup {Main}, Write(th) PROVE Ready'
  BY <1>23 DEF Write, Inv, TypeOK, Ready
<1>24. ASSUME NEW th \in Savers \cup {Main}, WriteFails(th) PROVE Ready'
  BY <1>24 DEF WriteFails, Saved, Inv, TypeOK, Ready
<1>25. ASSUME NEW th \in Savers \cup {Main}, Rename(th) PROVE Ready'
  BY <1>25 DEF Rename, Saved, Inv, TypeOK, Ready
<1>26. ASSUME NEW b \in Savers, DeleteSaver(b) PROVE Ready'
  BY <1>26 DEF DeleteSaver, Inv, TypeOK, Ready
<1>27. ASSUME Handler PROVE Ready'
  BY <1>27 DEF Handler, Inv, TypeOK, Ready
<1>28. ASSUME EndHandler PROVE Ready'
  BY <1>28 DEF EndHandler, Release, GotoSaving, Inv, TypeOK, Ready
<1>29. ASSUME Edit PROVE Ready'
  BY <1>29 DEF Edit, MaySave, Inv, TypeOK, Ready
<1>30. ASSUME EndEdit PROVE Ready'
  BY <1>30 DEF EndEdit, GotoSaving, Inv, TypeOK, Ready
<1>31. ASSUME DeleteDoomed PROVE Ready'
  BY <1>31 DEF DeleteDoomed, Inv, TypeOK, Ready
<1>32. ASSUME Quit PROVE Ready'
  BY <1>32 DEF Quit, Inv, TypeOK, Ready
<1>33. ASSUME Join PROVE Ready'
  BY <1>33 DEF Join, Inv, TypeOK, Ready
<1>34. ASSUME StopQueues PROVE Ready'
  BY <1>34 DEF StopQueues, Release, Inv, TypeOK, Ready
<1>35. ASSUME Seal PROVE Ready'
  BY <1>35 DEF Seal, Inv, TypeOK, Ready
<1>36. ASSUME Drain PROVE Ready'
  BY <1>36 DEF Drain, Inv, TypeOK, Ready
<1>37. ASSUME Unlist PROVE Ready'
  BY <1>37 DEF Unlist, Inv, TypeOK, Ready
<1>38. ASSUME Unload PROVE Ready'
  BY <1>38 DEF Unload, Inv, TypeOK, Ready
<1>39. ASSUME Exec PROVE Ready'
  BY <1>39 DEF Exec, Inv, TypeOK, Ready
<1>40. ASSUME Drag PROVE Ready'
  BY <1>40 DEF Drag, Release, Inv, TypeOK, Ready
<1>41. QED
  BY <1>1, <1>2, <1>3, <1>4, <1>5, <1>6, <1>7, <1>8, <1>9, <1>10, <1>11, <1>12, <1>13,
    <1>14, <1>15, <1>16, <1>17, <1>18, <1>19, <1>20, <1>21, <1>22, <1>23, <1>24, <1>25,
    <1>26, <1>27, <1>28, <1>29, <1>30, <1>31, <1>32, <1>33, <1>34, <1>35, <1>36, <1>37,
    <1>38, <1>39, <1>40 DEF Next,
    Proceed, TakeWrite, SaveStep, Serve, ShutDown

-----------------------------------------------------------------------------
\* Every step leaves the locks with the threads that are where they are held.
LEMMA LockStep ==
  ASSUME StoreAssumption, Inv, Next
  PROVE  pc'[Main] # "gone" => LocksHeld'
<1> USE DEF Callers, Threads, Goto, SavePlaces, callers, lists, files
<1>1. ASSUME NEW w \in Workers, Ask(w) PROVE pc'[Main] # "gone" => LocksHeld'
  BY <1>1 DEF Ask, Inv, TypeOK, LocksHeld, Reads
<1>2. ASSUME NEW w \in Workers, Miss(w) PROVE pc'[Main] # "gone" => LocksHeld'
  BY <1>2 DEF Miss, Inv, TypeOK, LocksHeld, Reads
<1>3. ASSUME NEW w \in Workers, CallCreate(w) PROVE pc'[Main] # "gone" => LocksHeld'
  BY <1>3 DEF CallCreate, Inv, TypeOK, LocksHeld, Reads
<1>4. ASSUME NEW w \in Workers, CallInit(w) PROVE pc'[Main] # "gone" => LocksHeld'
  BY <1>4 DEF CallInit, Inv, TypeOK, LocksHeld, Reads
<1>5. ASSUME NEW w \in Workers, EndAdd(w) PROVE pc'[Main] # "gone" => LocksHeld'
  BY <1>5 DEF EndAdd, Release, Inv, TypeOK, LocksHeld, Reads
<1>6. ASSUME NEW w \in Workers, FailAdd(w) PROVE pc'[Main] # "gone" => LocksHeld'
  BY <1>6 DEF FailAdd, Release, Inv, TypeOK, LocksHeld, Reads
<1>7. ASSUME NEW w \in Workers, EndOptions(w) PROVE pc'[Main] # "gone" => LocksHeld'
  BY <1>7 DEF EndOptions, GotoSaving, Inv, TypeOK, Ready, LocksHeld, Reads
<1>8. ASSUME NEW w \in Workers, MoveTake(w) PROVE pc'[Main] # "gone" => LocksHeld'
  BY <1>8 DEF MoveTake, Inv, TypeOK, LocksHeld, Reads
<1>9. ASSUME NEW w \in Workers, MoveAdd(w) PROVE pc'[Main] # "gone" => LocksHeld'
  BY <1>9 DEF MoveAdd, Release, GotoSaving, Inv, TypeOK, Ready, LocksHeld, Reads
<1>10. ASSUME NEW w \in Workers, RemoveTransfer(w) PROVE pc'[Main] # "gone" => LocksHeld'
  BY <1>10 DEF RemoveTransfer, Release, Inv, TypeOK, LocksHeld, Reads
<1>11. ASSUME NEW w \in Workers, CreateQueue(w) PROVE pc'[Main] # "gone" => LocksHeld'
  BY <1>11 DEF CreateQueue, Inv, TypeOK, LocksHeld, Reads
<1>12. ASSUME NEW w \in Workers, DeleteQueue(w) PROVE pc'[Main] # "gone" => LocksHeld'
  BY <1>12 DEF DeleteQueue, GotoSaving, Inv, TypeOK, Ready, LocksHeld, Reads
<1>13. ASSUME NEW w \in Workers, RefuseWrite(w) PROVE pc'[Main] # "gone" => LocksHeld'
  BY <1>13 DEF RefuseWrite, Inv, TypeOK, LocksHeld, Reads
<1>14. ASSUME NEW w \in Workers, ServeCreate(w) PROVE pc'[Main] # "gone" => LocksHeld'
  BY <1>14 DEF ServeCreate, Inv, TypeOK, LocksHeld, Reads
<1>15. ASSUME NEW w \in Workers, ServeInit(w) PROVE pc'[Main] # "gone" => LocksHeld'
  BY <1>15 DEF ServeInit, Inv, TypeOK, LocksHeld, Reads
<1>16. ASSUME NEW w \in Workers, ServeOptions(w) PROVE pc'[Main] # "gone" => LocksHeld'
  BY <1>16 DEF ServeOptions, Inv, TypeOK, LocksHeld, Reads
<1>17. ASSUME NEW w \in Workers, EndServe(w) PROVE pc'[Main] # "gone" => LocksHeld'
  BY <1>17 DEF EndServe, Release, Inv, TypeOK, LocksHeld, Reads
<1>18. ASSUME NEW c \in Callers, LockRead(c) PROVE pc'[Main] # "gone" => LocksHeld'
  BY <1>18 DEF LockRead, Inv, TypeOK, LocksHeld, Reads
<1>19. ASSUME NEW th \in Savers \cup {Main},
    BeginSave(th) PROVE pc'[Main] # "gone" => LocksHeld'
  BY <1>19 DEF BeginSave, Saved, Inv, TypeOK, LocksHeld, Reads
<1>20. ASSUME NEW th \in Savers \cup {Main},
    ListLock(th) PROVE pc'[Main] # "gone" => LocksHeld'
  BY <1>20 DEF ListLock, Inv, TypeOK, LocksHeld, Reads
<1>21. ASSUME NEW th \in Savers \cup {Main},
    Walk(th) PROVE pc'[Main] # "gone" => LocksHeld'
  BY <1>21 DEF Walk, Inv, TypeOK, LocksHeld, Reads
<1>22. ASSUME NEW th \in Savers \cup {Main},
    EndWalk(th) PROVE pc'[Main] # "gone" => LocksHeld'
  BY <1>22 DEF EndWalk, Inv, TypeOK, LocksHeld, Reads
<1>23. ASSUME NEW th \in Savers \cup {Main},
    Write(th) PROVE pc'[Main] # "gone" => LocksHeld'
  BY <1>23 DEF Write, Inv, TypeOK, LocksHeld, Reads
<1>24. ASSUME NEW th \in Savers \cup {Main},
    WriteFails(th) PROVE pc'[Main] # "gone" => LocksHeld'
  BY <1>24 DEF WriteFails, Saved, Inv, TypeOK, LocksHeld, Reads
<1>25. ASSUME NEW th \in Savers \cup {Main},
    Rename(th) PROVE pc'[Main] # "gone" => LocksHeld'
  BY <1>25 DEF Rename, Saved, Inv, TypeOK, LocksHeld, Reads
<1>26. ASSUME NEW b \in Savers, DeleteSaver(b) PROVE pc'[Main] # "gone" => LocksHeld'
  BY <1>26 DEF DeleteSaver, Inv, TypeOK, LocksHeld, Reads
<1>27. ASSUME Handler PROVE pc'[Main] # "gone" => LocksHeld'
  BY <1>27 DEF Handler, Inv, TypeOK, LocksHeld, Reads
<1>28. ASSUME EndHandler PROVE pc'[Main] # "gone" => LocksHeld'
  BY <1>28 DEF EndHandler, Release, MaySave, GotoSaving, Inv, TypeOK, LocksHeld, Reads
<1>29. ASSUME Edit PROVE pc'[Main] # "gone" => LocksHeld'
  BY <1>29 DEF Edit, Inv, TypeOK, LocksHeld, Reads
<1>30. ASSUME EndEdit PROVE pc'[Main] # "gone" => LocksHeld'
  BY <1>30 DEF EndEdit, GotoSaving, Inv, TypeOK, Ready, LocksHeld, Reads
<1>31. ASSUME DeleteDoomed PROVE pc'[Main] # "gone" => LocksHeld'
  BY <1>31 DEF DeleteDoomed, Inv, TypeOK, LocksHeld, Reads
<1>32. ASSUME Quit PROVE pc'[Main] # "gone" => LocksHeld'
  BY <1>32 DEF Quit, Inv, TypeOK, LocksHeld, Reads
<1>33. ASSUME Join PROVE pc'[Main] # "gone" => LocksHeld'
  BY <1>33 DEF Join, Inv, TypeOK, LocksHeld, Reads
<1>34. ASSUME StopQueues PROVE pc'[Main] # "gone" => LocksHeld'
  BY <1>34 DEF StopQueues, Release, Inv, TypeOK, LocksHeld, Reads
<1>35. ASSUME Seal PROVE pc'[Main] # "gone" => LocksHeld'
  BY <1>35 DEF Seal, Inv, TypeOK, LocksHeld, Reads
<1>36. ASSUME Drain PROVE pc'[Main] # "gone" => LocksHeld'
  BY <1>36 DEF Drain, Inv, TypeOK, LocksHeld, Reads
<1>37. ASSUME Unlist PROVE pc'[Main] # "gone" => LocksHeld'
  BY <1>37 DEF Unlist, Inv, TypeOK, LocksHeld, Reads
<1>38. ASSUME Unload PROVE pc'[Main] # "gone" => LocksHeld'
  BY <1>38 DEF Unload, Inv, TypeOK, LocksHeld, Reads
<1>39. ASSUME Exec PROVE pc'[Main] # "gone" => LocksHeld'
  BY <1>39 DEF Exec, Inv, TypeOK
<1>40. ASSUME Drag PROVE pc'[Main] # "gone" => LocksHeld'
  BY <1>40 DEF Drag, Release, Inv, TypeOK, LocksHeld, Reads
<1>41. QED
  BY <1>1, <1>2, <1>3, <1>4, <1>5, <1>6, <1>7, <1>8, <1>9, <1>10, <1>11, <1>12, <1>13,
    <1>14, <1>15, <1>16, <1>17, <1>18, <1>19, <1>20, <1>21, <1>22, <1>23, <1>24, <1>25,
    <1>26, <1>27, <1>28, <1>29, <1>30, <1>31, <1>32, <1>33, <1>34, <1>35, <1>36, <1>37,
    <1>38, <1>39, <1>40 DEF Next,
    Proceed, TakeWrite, SaveStep, Serve, ShutDown

-----------------------------------------------------------------------------
\* No step deletes a queue that a caller works on: who writes waits for the readers.
LEMMA StayStep ==
  ASSUME StoreAssumption, Inv, Next
  PROVE  QueuesStay'
<1> USE DEF Callers, Threads, Goto, SavePlaces, callers, lists, files
<1>1. ASSUME NEW w \in Workers, Ask(w) PROVE QueuesStay'
  BY <1>1 DEF Ask, Inv, TypeOK, QueuesStay
<1>2. ASSUME NEW w \in Workers, Miss(w) PROVE QueuesStay'
  BY <1>2 DEF Miss, Inv, TypeOK, QueuesStay
<1>3. ASSUME NEW w \in Workers, CallCreate(w) PROVE QueuesStay'
  BY <1>3 DEF CallCreate, Inv, TypeOK, QueuesStay
<1>4. ASSUME NEW w \in Workers, CallInit(w) PROVE QueuesStay'
  BY <1>4 DEF CallInit, Inv, TypeOK, QueuesStay
<1>5. ASSUME NEW w \in Workers, EndAdd(w) PROVE QueuesStay'
  BY <1>5 DEF EndAdd, Release, Inv, TypeOK, QueuesStay
<1>6. ASSUME NEW w \in Workers, FailAdd(w) PROVE QueuesStay'
  BY <1>6 DEF FailAdd, Release, Inv, TypeOK, QueuesStay
<1>7. ASSUME NEW w \in Workers, EndOptions(w) PROVE QueuesStay'
  BY <1>7 DEF EndOptions, Inv, TypeOK, QueuesStay
<1>8. ASSUME NEW w \in Workers, MoveTake(w) PROVE QueuesStay'
  BY <1>8 DEF MoveTake, Inv, TypeOK, QueuesStay, Taken
<1>9. ASSUME NEW w \in Workers, MoveAdd(w) PROVE QueuesStay'
  BY <1>9 DEF MoveAdd, Release, Inv, TypeOK, QueuesStay
<1>10. ASSUME NEW w \in Workers, RemoveTransfer(w) PROVE QueuesStay'
  BY <1>10 DEF RemoveTransfer, Release, Inv, TypeOK, QueuesStay, Taken
<1>11. ASSUME NEW w \in Workers, CreateQueue(w) PROVE QueuesStay'
  BY <1>11 DEF CreateQueue, Unborn, Inv, TypeOK, QueuesStay, With
<1>12. ASSUME NEW w \in Workers, DeleteQueue(w) PROVE QueuesStay'
  <2>1. dest' = dest /\ \A c \in Callers : dest[c] = NoQueue
    BY <1>12 DEF DeleteQueue, CanWrite, Inv, TypeOK, Placed, LocksHeld
  <2>2. PICK q \in DOMAIN queues :
          /\ \/ queues' = Without(queues, q)
             \/ \E p \in DOMAIN queues \ {q} :
                  queues' = With(Without(queues, q), p, queues[p] \cup queues[q])
          /\ doomed' = doomed \cup {q}
    BY <1>12 DEF DeleteQueue
  <2>3. freed' = freed
    BY <1>12 DEF DeleteQueue
  <2>4. DOMAIN Without(queues, q) = DOMAIN queues \ {q}
    BY DEF Without
  <2>5. ASSUME NEW p \in DOMAIN queues \ {q},
               queues' = With(Without(queues, q), p, queues[p] \cup queues[q])
        PROVE  DOMAIN queues' = DOMAIN queues \ {q}
    <3>1. DOMAIN queues' = DOMAIN Without(queues, q) \cup {p}
      BY <2>5 DEF With
    <3>2. QED
      BY <2>4, <3>1
  <2>6. DOMAIN queues' = DOMAIN queues \ {q}
    BY <2>2, <2>4, <2>5
  <2>7. QED
    BY <2>1, <2>2, <2>3, <2>6 DEF Inv, QueuesStay
<1>13. ASSUME NEW w \in Workers, RefuseWrite(w) PROVE QueuesStay'
  BY <1>13 DEF RefuseWrite, Inv, TypeOK, QueuesStay
<1>14. ASSUME NEW w \in Workers, ServeCreate(w) PROVE QueuesStay'
  BY <1>14 DEF ServeCreate, Inv, TypeOK, QueuesStay
<1>15. ASSUME NEW w \in Workers, ServeInit(w) PROVE QueuesStay'
  BY <1>15 DEF ServeInit, Inv, TypeOK, QueuesStay
<1>16. ASSUME NEW w \in Workers, ServeOptions(w) PROVE QueuesStay'
  BY <1>16 DEF ServeOptions, Inv, TypeOK, QueuesStay
<1>17. ASSUME NEW w \in Workers, EndServe(w) PROVE QueuesStay'
  BY <1>17 DEF EndServe, Release, Inv, TypeOK, QueuesStay
<1>18. ASSUME NEW c \in Callers, LockRead(c) PROVE QueuesStay'
  BY <1>18 DEF LockRead, Inv, TypeOK, QueuesStay
<1>19. ASSUME NEW th \in Savers \cup {Main}, BeginSave(th) PROVE QueuesStay'
  BY <1>19 DEF BeginSave, Inv, TypeOK, QueuesStay
<1>20. ASSUME NEW th \in Savers \cup {Main}, ListLock(th) PROVE QueuesStay'
  BY <1>20 DEF ListLock, Inv, TypeOK, QueuesStay
<1>21. ASSUME NEW th \in Savers \cup {Main}, Walk(th) PROVE QueuesStay'
  BY <1>21 DEF Walk, Inv, TypeOK, QueuesStay
<1>22. ASSUME NEW th \in Savers \cup {Main}, EndWalk(th) PROVE QueuesStay'
  BY <1>22 DEF EndWalk, Inv, TypeOK, QueuesStay
<1>23. ASSUME NEW th \in Savers \cup {Main}, Write(th) PROVE QueuesStay'
  BY <1>23 DEF Write, Inv, TypeOK, QueuesStay
<1>24. ASSUME NEW th \in Savers \cup {Main}, WriteFails(th) PROVE QueuesStay'
  BY <1>24 DEF WriteFails, Inv, TypeOK, QueuesStay
<1>25. ASSUME NEW th \in Savers \cup {Main}, Rename(th) PROVE QueuesStay'
  BY <1>25 DEF Rename, Inv, TypeOK, QueuesStay
<1>26. ASSUME NEW b \in Savers, DeleteSaver(b) PROVE QueuesStay'
  BY <1>26 DEF DeleteSaver, Inv, TypeOK, QueuesStay
<1>27. ASSUME Handler PROVE QueuesStay'
  BY <1>27 DEF Handler, Inv, TypeOK, QueuesStay
<1>28. ASSUME EndHandler PROVE QueuesStay'
  BY <1>28 DEF EndHandler, Release, Inv, TypeOK, QueuesStay, Taken
<1>29. ASSUME Edit PROVE QueuesStay'
  BY <1>29 DEF Edit, Inv, TypeOK, QueuesStay
<1>30. ASSUME EndEdit PROVE QueuesStay'
  <2>1. dest' = dest /\ \A c \in Callers : dest[c] = NoQueue
    BY <1>30 DEF EndEdit, CanWrite, Inv, TypeOK, Placed, LocksHeld
  <2>2. doomed' = doomed
    BY <1>30 DEF EndEdit
  <2>3. \/ \E q \in Unborn : DOMAIN queues' = DOMAIN queues \cup {q} /\ freed' = freed
        \/ \E q \in DOMAIN queues :
             DOMAIN queues' = DOMAIN queues \ {q} /\ freed' = freed \cup {q}
        \/ DOMAIN queues' = DOMAIN queues /\ freed' = freed
    BY <1>30 DEF EndEdit, With, Without
  <2>4. DOMAIN queues' \cap (doomed' \cup freed') = {}
    BY <2>2, <2>3 DEF Inv, QueuesStay, Unborn
  <2>5. QED
    BY <2>1, <2>4 DEF QueuesStay
<1>31. ASSUME DeleteDoomed PROVE QueuesStay'
  BY <1>31 DEF DeleteDoomed, Inv, TypeOK, QueuesStay
<1>32. ASSUME Quit PROVE QueuesStay'
  BY <1>32 DEF Quit, Inv, TypeOK, QueuesStay
<1>33. ASSUME Join PROVE QueuesStay'
  BY <1>33 DEF Join, Inv, TypeOK, QueuesStay
<1>34. ASSUME StopQueues PROVE QueuesStay'
  BY <1>34 DEF StopQueues, Release, Inv, TypeOK, QueuesStay
<1>35. ASSUME Seal PROVE QueuesStay'
  BY <1>35 DEF Seal, Inv, TypeOK, QueuesStay
<1>36. ASSUME Drain PROVE QueuesStay'
  BY <1>36 DEF Drain, Inv, TypeOK, QueuesStay
<1>37. ASSUME Unlist PROVE QueuesStay'
  BY <1>37 DEF Unlist, Inv, TypeOK, QueuesStay
<1>38. ASSUME Unload PROVE QueuesStay'
  BY <1>38 DEF Unload, CanWrite, Inv, TypeOK, QueuesStay, LocksHeld, NoList
<1>39. ASSUME Exec PROVE QueuesStay'
  BY <1>39 DEF Exec, Inv, TypeOK, QueuesStay
<1>40. ASSUME Drag PROVE QueuesStay'
  <2>1. DOMAIN queues' = DOMAIN queues
    BY <1>40, DragType DEF Inv, TypeOK
  <2>2. QED
    BY <1>40, <2>1 DEF Drag, Release, Inv, TypeOK, QueuesStay
<1>41. QED
  BY <1>1, <1>2, <1>3, <1>4, <1>5, <1>6, <1>7, <1>8, <1>9, <1>10, <1>11, <1>12, <1>13,
    <1>14, <1>15, <1>16, <1>17, <1>18, <1>19, <1>20, <1>21, <1>22, <1>23, <1>24, <1>25,
    <1>26, <1>27, <1>28, <1>29, <1>30, <1>31, <1>32, <1>33, <1>34, <1>35, <1>36, <1>37,
    <1>38, <1>39, <1>40 DEF Next,
    Proceed, TakeWrite, SaveStep, Serve, ShutDown

-----------------------------------------------------------------------------
\* Once the main thread has joined the workers they stay idle, and once it has drained
\* the savers no new one starts.
LEMMA AloneStep ==
  ASSUME StoreAssumption, Inv, Next
  PROVE  pc'[Main] # "gone" => Alone'
<1> USE DEF Callers, Threads, Goto, SavePlaces, callers, lists, files
<1>1. ASSUME NEW w \in Workers, Ask(w) PROVE pc'[Main] # "gone" => Alone'
  BY <1>1 DEF Ask, Inv, TypeOK, Alone, Joined
<1>2. ASSUME NEW w \in Workers, Miss(w) PROVE pc'[Main] # "gone" => Alone'
  BY <1>2 DEF Miss, Inv, TypeOK, Alone, Joined
<1>3. ASSUME NEW w \in Workers, CallCreate(w) PROVE pc'[Main] # "gone" => Alone'
  BY <1>3 DEF CallCreate, Inv, TypeOK, Alone, Joined
<1>4. ASSUME NEW w \in Workers, CallInit(w) PROVE pc'[Main] # "gone" => Alone'
  BY <1>4 DEF CallInit, Inv, TypeOK, Alone, Joined
<1>5. ASSUME NEW w \in Workers, EndAdd(w) PROVE pc'[Main] # "gone" => Alone'
  BY <1>5 DEF EndAdd, Inv, TypeOK, Alone, Joined
<1>6. ASSUME NEW w \in Workers, FailAdd(w) PROVE pc'[Main] # "gone" => Alone'
  BY <1>6 DEF FailAdd, Inv, TypeOK, Alone, Joined
<1>7. ASSUME NEW w \in Workers, EndOptions(w) PROVE pc'[Main] # "gone" => Alone'
  BY <1>7 DEF EndOptions, GotoSaving, Inv, TypeOK, Alone, Joined
<1>8. ASSUME NEW w \in Workers, MoveTake(w) PROVE pc'[Main] # "gone" => Alone'
  BY <1>8 DEF MoveTake, Inv, TypeOK, Alone, Joined
<1>9. ASSUME NEW w \in Workers, MoveAdd(w) PROVE pc'[Main] # "gone" => Alone'
  BY <1>9 DEF MoveAdd, GotoSaving, Inv, TypeOK, Alone, Joined
<1>10. ASSUME NEW w \in Workers, RemoveTransfer(w) PROVE pc'[Main] # "gone" => Alone'
  BY <1>10 DEF RemoveTransfer, Inv, TypeOK, Alone, Joined
<1>11. ASSUME NEW w \in Workers, CreateQueue(w) PROVE pc'[Main] # "gone" => Alone'
  BY <1>11 DEF CreateQueue, Inv, TypeOK, Alone, Joined
<1>12. ASSUME NEW w \in Workers, DeleteQueue(w) PROVE pc'[Main] # "gone" => Alone'
  BY <1>12 DEF DeleteQueue, GotoSaving, Inv, TypeOK, Alone, Joined
<1>13. ASSUME NEW w \in Workers, RefuseWrite(w) PROVE pc'[Main] # "gone" => Alone'
  BY <1>13 DEF RefuseWrite, Inv, TypeOK, Alone, Joined
<1>14. ASSUME NEW w \in Workers, ServeCreate(w) PROVE pc'[Main] # "gone" => Alone'
  BY <1>14 DEF ServeCreate, Inv, TypeOK, Alone, Joined
<1>15. ASSUME NEW w \in Workers, ServeInit(w) PROVE pc'[Main] # "gone" => Alone'
  BY <1>15 DEF ServeInit, Inv, TypeOK, Alone, Joined
<1>16. ASSUME NEW w \in Workers, ServeOptions(w) PROVE pc'[Main] # "gone" => Alone'
  BY <1>16 DEF ServeOptions, Inv, TypeOK, Alone, Joined
<1>17. ASSUME NEW w \in Workers, EndServe(w) PROVE pc'[Main] # "gone" => Alone'
  BY <1>17 DEF EndServe, Inv, TypeOK, Alone, Joined
<1>18. ASSUME NEW c \in Callers, LockRead(c) PROVE pc'[Main] # "gone" => Alone'
  BY <1>18 DEF LockRead, Inv, TypeOK, Alone, Joined
<1>19. ASSUME NEW th \in Savers \cup {Main},
    BeginSave(th) PROVE pc'[Main] # "gone" => Alone'
  BY <1>19 DEF BeginSave, Saved, Inv, TypeOK, Alone, Joined
<1>20. ASSUME NEW th \in Savers \cup {Main},
    ListLock(th) PROVE pc'[Main] # "gone" => Alone'
  BY <1>20 DEF ListLock, Inv, TypeOK, Alone, Joined
<1>21. ASSUME NEW th \in Savers \cup {Main}, Walk(th) PROVE pc'[Main] # "gone" => Alone'
  BY <1>21 DEF Walk, Inv, TypeOK, Alone, Joined
<1>22. ASSUME NEW th \in Savers \cup {Main},
    EndWalk(th) PROVE pc'[Main] # "gone" => Alone'
  BY <1>22 DEF EndWalk, Inv, TypeOK, Alone, Joined
<1>23. ASSUME NEW th \in Savers \cup {Main}, Write(th) PROVE pc'[Main] # "gone" => Alone'
  BY <1>23 DEF Write, Inv, TypeOK, Alone, Joined
<1>24. ASSUME NEW th \in Savers \cup {Main},
    WriteFails(th) PROVE pc'[Main] # "gone" => Alone'
  BY <1>24 DEF WriteFails, Saved, Inv, TypeOK, Alone, Joined
<1>25. ASSUME NEW th \in Savers \cup {Main}, Rename(th) PROVE pc'[Main] # "gone" => Alone'
  BY <1>25 DEF Rename, Saved, Inv, TypeOK, Alone, Joined
<1>26. ASSUME NEW b \in Savers, DeleteSaver(b) PROVE pc'[Main] # "gone" => Alone'
  BY <1>26 DEF DeleteSaver, Inv, TypeOK, Alone, Joined
<1>27. ASSUME Handler PROVE pc'[Main] # "gone" => Alone'
  BY <1>27 DEF Handler, Inv, TypeOK, Alone, Joined
<1>28. ASSUME EndHandler PROVE pc'[Main] # "gone" => Alone'
  BY <1>28 DEF EndHandler, GotoSaving, Inv, TypeOK, Alone, Joined
<1>29. ASSUME Edit PROVE pc'[Main] # "gone" => Alone'
  BY <1>29 DEF Edit, Inv, TypeOK, Alone, Joined
<1>30. ASSUME EndEdit PROVE pc'[Main] # "gone" => Alone'
  BY <1>30 DEF EndEdit, GotoSaving, Inv, TypeOK, Alone, Joined
<1>31. ASSUME DeleteDoomed PROVE pc'[Main] # "gone" => Alone'
  BY <1>31 DEF DeleteDoomed, Inv, TypeOK, Alone, Joined
<1>32. ASSUME Quit PROVE pc'[Main] # "gone" => Alone'
  BY <1>32 DEF Quit, Inv, TypeOK, Alone, Joined
<1>33. ASSUME Join PROVE pc'[Main] # "gone" => Alone'
  BY <1>33 DEF Join, Inv, TypeOK, Alone
<1>34. ASSUME StopQueues PROVE pc'[Main] # "gone" => Alone'
  BY <1>34 DEF StopQueues, Inv, TypeOK, Alone, Joined
<1>35. ASSUME Seal PROVE pc'[Main] # "gone" => Alone'
  BY <1>35 DEF Seal, Inv, TypeOK, Alone, Joined
<1>36. ASSUME Drain PROVE pc'[Main] # "gone" => Alone'
  BY <1>36 DEF Drain, Inv, TypeOK, Alone, Joined
<1>37. ASSUME Unlist PROVE pc'[Main] # "gone" => Alone'
  BY <1>37 DEF Unlist, Inv, TypeOK, Alone, Joined
<1>38. ASSUME Unload PROVE pc'[Main] # "gone" => Alone'
  BY <1>38 DEF Unload, Inv, TypeOK, Alone, Joined
<1>39. ASSUME Exec PROVE pc'[Main] # "gone" => Alone'
  BY <1>39 DEF Exec, Inv, TypeOK
<1>40. ASSUME Drag PROVE pc'[Main] # "gone" => Alone'
  BY <1>40 DEF Drag, Inv, TypeOK, Alone, Joined
<1>41. QED
  BY <1>1, <1>2, <1>3, <1>4, <1>5, <1>6, <1>7, <1>8, <1>9, <1>10, <1>11, <1>12, <1>13,
    <1>14, <1>15, <1>16, <1>17, <1>18, <1>19, <1>20, <1>21, <1>22, <1>23, <1>24, <1>25,
    <1>26, <1>27, <1>28, <1>29, <1>30, <1>31, <1>32, <1>33, <1>34, <1>35, <1>36, <1>37,
    <1>38, <1>39, <1>40 DEF Next,
    Proceed, TakeWrite, SaveStep, Serve, ShutDown

-----------------------------------------------------------------------------
\* Every step leaves each save with a document of its own and, once the last save has
\* begun, with one that is a part of the queues as they are.
LEMMA DocumentStep ==
  ASSUME StoreAssumption, Inv, Next
  PROVE  OwnDocument' /\ (pc'[Main] # "gone" => Documents')
<1> USE DEF Callers, Threads, Goto, SavePlaces, callers, lists, files
<1>1. ASSUME NEW w \in Workers,
    Ask(w) PROVE OwnDocument' /\ (pc'[Main] # "gone" => Documents')
  BY <1>1 DEF Ask, Inv, TypeOK, OwnDocument, Documents, LastSave, Alone, Joined
<1>2. ASSUME NEW w \in Workers,
    Miss(w) PROVE OwnDocument' /\ (pc'[Main] # "gone" => Documents')
  BY <1>2 DEF Miss, Inv, TypeOK, OwnDocument, Documents, LastSave, Alone, Joined
<1>3. ASSUME NEW w \in Workers,
    CallCreate(w) PROVE OwnDocument' /\ (pc'[Main] # "gone" => Documents')
  BY <1>3 DEF CallCreate, Inv, TypeOK, OwnDocument, Documents, LastSave, Alone, Joined
<1>4. ASSUME NEW w \in Workers,
    CallInit(w) PROVE OwnDocument' /\ (pc'[Main] # "gone" => Documents')
  BY <1>4 DEF CallInit, Inv, TypeOK, OwnDocument, Documents, LastSave, Alone, Joined
<1>5. ASSUME NEW w \in Workers,
    EndAdd(w) PROVE OwnDocument' /\ (pc'[Main] # "gone" => Documents')
  BY <1>5 DEF EndAdd, Inv, TypeOK, OwnDocument, Documents, LastSave, Alone, Joined
<1>6. ASSUME NEW w \in Workers,
    FailAdd(w) PROVE OwnDocument' /\ (pc'[Main] # "gone" => Documents')
  BY <1>6 DEF FailAdd, Inv, TypeOK, OwnDocument, Documents, LastSave, Alone, Joined
<1>7. ASSUME NEW w \in Workers,
    EndOptions(w) PROVE OwnDocument' /\ (pc'[Main] # "gone" => Documents')
  BY <1>7 DEF EndOptions, GotoSaving, Inv, TypeOK, OwnDocument, Documents, LastSave,
    Ready, Alone, Joined
<1>8. ASSUME NEW w \in Workers,
    MoveTake(w) PROVE OwnDocument' /\ (pc'[Main] # "gone" => Documents')
  BY <1>8 DEF MoveTake, Inv, TypeOK, OwnDocument, Documents, LastSave, Alone, Joined
<1>9. ASSUME NEW w \in Workers,
    MoveAdd(w) PROVE OwnDocument' /\ (pc'[Main] # "gone" => Documents')
  BY <1>9 DEF MoveAdd, GotoSaving, Inv, TypeOK, OwnDocument, Documents, LastSave,
    Ready, Alone, Joined
<1>10. ASSUME NEW w \in Workers,
    RemoveTransfer(w) PROVE OwnDocument' /\ (pc'[Main] # "gone" => Documents')
  BY <1>10 DEF RemoveTransfer, Inv, TypeOK, OwnDocument, Documents, LastSave, Alone,
    Joined
<1>11. ASSUME NEW w \in Workers,
    CreateQueue(w) PROVE OwnDocument' /\ (pc'[Main] # "gone" => Documents')
  BY <1>11 DEF CreateQueue, Inv, TypeOK, OwnDocument, Documents, LastSave, Alone, Joined
<1>12. ASSUME NEW w \in Workers,
    DeleteQueue(w) PROVE OwnDocument' /\ (pc'[Main] # "gone" => Documents')
  BY <1>12 DEF DeleteQueue, GotoSaving, Inv, TypeOK, OwnDocument, Documents, LastSave,
    Ready, Alone, Joined
<1>13. ASSUME NEW w \in Workers,
    RefuseWrite(w) PROVE OwnDocument' /\ (pc'[Main] # "gone" => Documents')
  BY <1>13 DEF RefuseWrite, Inv, TypeOK, OwnDocument, Documents, LastSave, Alone, Joined
<1>14. ASSUME NEW w \in Workers,
    ServeCreate(w) PROVE OwnDocument' /\ (pc'[Main] # "gone" => Documents')
  BY <1>14 DEF ServeCreate, Inv, TypeOK, OwnDocument, Documents, LastSave
<1>15. ASSUME NEW w \in Workers,
    ServeInit(w) PROVE OwnDocument' /\ (pc'[Main] # "gone" => Documents')
  BY <1>15 DEF ServeInit, Inv, TypeOK, OwnDocument, Documents, LastSave
<1>16. ASSUME NEW w \in Workers,
    ServeOptions(w) PROVE OwnDocument' /\ (pc'[Main] # "gone" => Documents')
  BY <1>16 DEF ServeOptions, Inv, TypeOK, OwnDocument, Documents, LastSave
<1>17. ASSUME NEW w \in Workers,
    EndServe(w) PROVE OwnDocument' /\ (pc'[Main] # "gone" => Documents')
  BY <1>17 DEF EndServe, Inv, TypeOK, OwnDocument, Documents, LastSave
<1>18. ASSUME NEW c \in Callers,
    LockRead(c) PROVE OwnDocument' /\ (pc'[Main] # "gone" => Documents')
  BY <1>18 DEF LockRead, Inv, TypeOK, OwnDocument, Documents, LastSave, Alone, Joined
<1>19. ASSUME NEW th \in Savers \cup {Main},
    BeginSave(th) PROVE OwnDocument' /\ (pc'[Main] # "gone" => Documents')
  BY <1>19 DEF BeginSave, Saved, Inv, TypeOK, OwnDocument, Documents, Fresh, Alone
<1>20. ASSUME NEW th \in Savers \cup {Main},
    ListLock(th) PROVE OwnDocument' /\ (pc'[Main] # "gone" => Documents')
  BY <1>20 DEF ListLock, NoList, Inv, TypeOK, OwnDocument, Documents, Fresh, LastSave,
    Placed, LocksHeld, Alone, Joined, StoreAssumption, MainPlaces, SaverPlaces
<1>21. ASSUME NEW th \in Savers \cup {Main},
    Walk(th) PROVE OwnDocument' /\ (pc'[Main] # "gone" => Documents')
  <2>1. PICK q \in DOMAIN queues \ DOMAIN doc[th] :
          doc' = [doc EXCEPT ![th] = With(@, q, queues[q])]
    BY <1>21 DEF Walk
  <2>2. /\ doc'[th] = With(doc[th], q, queues[q])
        /\ \A x \in Threads \ {th} : doc'[x] = doc[x]
    BY <1>21, <2>1 DEF Inv, TypeOK
  <2>3. /\ DOMAIN doc'[th] = DOMAIN doc[th] \cup {q}
        /\ \A p \in DOMAIN doc'[th] :
             doc'[th][p] = IF p = q THEN queues[q] ELSE doc[th][p]
    BY <2>2 DEF With
  <2>4. pc[th] = "walk" /\ pc[Main] # "gone"
    BY <1>21 DEF Walk, Inv, Placed
  <2>5. ASSUME NEW x \in saving, Fresh(x) PROVE Fresh(x)'
    BY <1>21, <2>2, <2>3, <2>4, <2>5 DEF Walk, Fresh, Inv, TypeOK
  <2>6. Documents'
    BY <1>21, <2>2, <2>4, <2>5 DEF Walk, Inv, TypeOK, Documents
  <2>7. QED
    BY <1>21, <2>2, <2>4, <2>6 DEF Walk, Inv, OwnDocument
<1>22. ASSUME NEW th \in Savers \cup {Main},
    EndWalk(th) PROVE OwnDocument' /\ (pc'[Main] # "gone" => Documents')
  <2>1. pc[th] = "walk" /\ pc[Main] # "gone"
    BY <1>22 DEF EndWalk, Inv, Placed
  <2>2. doc[th] \in Lists /\ queues \in Lists /\ DOMAIN doc[th] = DOMAIN queues
    BY <1>22 DEF EndWalk, Inv, TypeOK
  <2>3. ASSUME Fresh(th) PROVE doc[th] = queues
    <3>1. \A q \in DOMAIN queues : doc[th][q] = queues[q]
      BY <2>1, <2>2, <2>3 DEF Fresh
    <3>2. /\ doc[th] = [p \in DOMAIN queues |-> doc[th][p]]
          /\ queues = [p \in DOMAIN queues |-> queues[p]]
      BY <2>2, ListType
    <3>3. QED
      BY <3>1, <3>2
  <2>4. ASSUME NEW x \in saving, Fresh(x) PROVE Fresh(x)'
    BY <1>22, <2>3, <2>4 DEF EndWalk, Fresh, Inv, TypeOK
  <2>5. Documents'
    BY <1>22, <2>1, <2>4 DEF EndWalk, Inv, TypeOK, Documents, LastSave, Joined, Alone,
    Placed
  <2>6. QED
    BY <1>22, <2>5 DEF EndWalk, Inv, TypeOK, OwnDocument
<1>23. ASSUME NEW th \in Savers \cup {Main},
    Write(th) PROVE OwnDocument' /\ (pc'[Main] # "gone" => Documents')
  BY <1>23 DEF Write, Inv, TypeOK, OwnDocument, Documents, Fresh, LastSave, Placed,
    LocksHeld
<1>24. ASSUME NEW th \in Savers \cup {Main},
    WriteFails(th) PROVE OwnDocument' /\ (pc'[Main] # "gone" => Documents')
  BY <1>24 DEF WriteFails, Inv, TypeOK, OwnDocument, Documents
<1>25. ASSUME NEW th \in Savers \cup {Main},
    Rename(th) PROVE OwnDocument' /\ (pc'[Main] # "gone" => Documents')
  BY <1>25 DEF Rename, Saved, Inv, TypeOK, OwnDocument, Documents, Fresh, LastSave,
    LocksHeld, Alone
<1>26. ASSUME NEW b \in Savers,
    DeleteSaver(b) PROVE OwnDocument' /\ (pc'[Main] # "gone" => Documents')
  BY <1>26 DEF DeleteSaver, Inv, TypeOK, OwnDocument, Documents, LastSave
<1>27. ASSUME Handler PROVE OwnDocument' /\ (pc'[Main] # "gone" => Documents')
  BY <1>27 DEF Handler, Inv, TypeOK, OwnDocument, Documents, LastSave
<1>28. ASSUME EndHandler PROVE OwnDocument' /\ (pc'[Main] # "gone" => Documents')
  BY <1>28 DEF EndHandler, MaySave, GotoSaving, Inv, TypeOK, OwnDocument, Documents,
    LastSave
<1>29. ASSUME Edit PROVE OwnDocument' /\ (pc'[Main] # "gone" => Documents')
  BY <1>29 DEF Edit, Inv, TypeOK, OwnDocument, Documents, LastSave
<1>30. ASSUME EndEdit PROVE OwnDocument' /\ (pc'[Main] # "gone" => Documents')
  BY <1>30 DEF EndEdit, GotoSaving, Inv, TypeOK, OwnDocument, Documents, LastSave, Ready
<1>31. ASSUME DeleteDoomed PROVE OwnDocument' /\ (pc'[Main] # "gone" => Documents')
  BY <1>31 DEF DeleteDoomed, Inv, TypeOK, OwnDocument, Documents, LastSave
<1>32. ASSUME Quit PROVE OwnDocument' /\ (pc'[Main] # "gone" => Documents')
  BY <1>32 DEF Quit, Inv, TypeOK, OwnDocument, Documents, LastSave
<1>33. ASSUME Join PROVE OwnDocument' /\ (pc'[Main] # "gone" => Documents')
  BY <1>33 DEF Join, Inv, TypeOK, OwnDocument, Documents, LastSave
<1>34. ASSUME StopQueues PROVE OwnDocument' /\ (pc'[Main] # "gone" => Documents')
  BY <1>34 DEF StopQueues, Inv, TypeOK, OwnDocument, Documents, LastSave
<1>35. ASSUME Seal PROVE OwnDocument' /\ (pc'[Main] # "gone" => Documents')
  BY <1>35 DEF Seal, Inv, TypeOK, OwnDocument, Documents, Fresh, LastSave
<1>36. ASSUME Drain PROVE OwnDocument' /\ (pc'[Main] # "gone" => Documents')
  BY <1>36 DEF Drain, Inv, TypeOK, OwnDocument, Documents, LocksHeld, Alone, Joined
<1>37. ASSUME Unlist PROVE OwnDocument' /\ (pc'[Main] # "gone" => Documents')
  BY <1>37 DEF Unlist, Inv, TypeOK, OwnDocument, Documents, Fresh
<1>38. ASSUME Unload PROVE OwnDocument' /\ (pc'[Main] # "gone" => Documents')
  BY <1>38 DEF Unload, Inv, TypeOK, OwnDocument, Documents
<1>39. ASSUME Exec PROVE OwnDocument' /\ (pc'[Main] # "gone" => Documents')
  BY <1>39 DEF Exec, Inv, TypeOK, OwnDocument
<1>40. ASSUME Drag PROVE OwnDocument' /\ (pc'[Main] # "gone" => Documents')
  BY <1>40 DEF Drag, Inv, TypeOK, OwnDocument, Documents, LastSave
<1>41. QED
  BY <1>1, <1>2, <1>3, <1>4, <1>5, <1>6, <1>7, <1>8, <1>9, <1>10, <1>11, <1>12, <1>13,
    <1>14, <1>15, <1>16, <1>17, <1>18, <1>19, <1>20, <1>21, <1>22, <1>23, <1>24, <1>25,
    <1>26, <1>27, <1>28, <1>29, <1>30, <1>31, <1>32, <1>33, <1>34, <1>35, <1>36, <1>37,
    <1>38, <1>39, <1>40 DEF Next,
    Proceed, TakeWrite, SaveStep, Serve, ShutDown

-----------------------------------------------------------------------------
(* The invariant                                                           *)

\* The program starts with no lock held and the file as the queues are.
LEMMA InvInit ==
  ASSUME StoreAssumption, Init
  PROVE  Inv
<1> USE DEF Callers, Threads
<1>1. pc[Main] = "loop" /\ pc[Main] \notin LastSave
  BY DEF Init, LastSave
<1>2. TypeOK
  BY NoListType DEF Init, StoreAssumption, TypeOK, Places
<1>3. Placed
  BY DEF Init, StoreAssumption, Placed, MainPlaces, WorkerPlaces, SaverPlaces, SavePlaces
<1>4. Ready
  BY DEF Init, StoreAssumption, Ready
<1>5. QueuesStay /\ OwnDocument
  BY DEF Init, StoreAssumption, QueuesStay, OwnDocument
<1>6. LocksHeld
  BY DEF Init, StoreAssumption, LocksHeld, Reads
<1>7. Alone
  BY DEF Init, Alone, Joined, SavePlaces
<1>8. Documents
  BY <1>1 DEF Init, Documents, LastSave
<1>9. QED
  BY <1>2, <1>3, <1>4, <1>5, <1>6, <1>7, <1>8 DEF Inv

\* Every step keeps the invariant.
LEMMA InvNext ==
  ASSUME StoreAssumption, Inv, [Next]_vars
  PROVE  Inv'
<1>1. CASE Next
  BY <1>1, TypeStep, PlaceStep, ReadyStep, LockStep, StayStep, AloneStep, DocumentStep
    DEF Inv
<1>2. CASE UNCHANGED vars
  BY <1>2 DEF vars, Inv, TypeOK, Placed, Ready, QueuesStay, OwnDocument, LocksHeld, Reads,
    Alone, Joined, Documents, Fresh
<1>3. QED
  BY <1>1, <1>2

\* The invariant holds in every state.
LEMMA Invariance == Spec => []Inv
<1>1. StoreAssumption /\ Init => Inv
  BY InvInit
<1>2. StoreAssumption /\ Inv /\ [Next]_vars => Inv'
  BY InvNext
<1>3. QED
  BY StoreAssumption, <1>1, <1>2, PTL DEF Spec

-----------------------------------------------------------------------------
(* What it means for the program                                           *)

\* The variables keep their types: no null pointer gets into a queue, and every
\* document, written or being written, is a list of queues.
THEOREM StoreTypes == Spec => []TypeOK
<1>1. Inv => TypeOK
  BY DEF Inv
<1>2. QED
  BY Invariance, <1>1, PTL

\* g_queuesLock keeps a queue that a request or a handler works on in the list and
\* undeleted, however many requests, deletions and calls to the main thread overlap.
THEOREM QueuesOutliveRequests == Spec => []QueuesStay
<1>1. Inv => QueuesStay
  BY DEF Inv
<1>2. QED
  BY Invariance, <1>1, PTL

\* What a step does to the queues callers hold: it looks one up, unlocks the list
\* or lets them be, and while it changes one nothing else about the list changes.
LEMMA DestStep ==
  ASSUME StoreAssumption, Inv, Next
  PROVE  \/ dest' = dest
         \/ /\ DOMAIN queues' = DOMAIN queues
            /\ \E c \in Callers :
                 \/ dest' = [dest EXCEPT ![c] = NoQueue]
                 \/ dest[c] = NoQueue /\ \E q \in DOMAIN queues : dest' = [dest EXCEPT ![c] = q]
<1> DEFINE Released(c) == DOMAIN queues' = DOMAIN queues /\ dest' = [dest EXCEPT ![c] = NoQueue]
<1> USE DEF callers, lists, files, Callers, Threads
<1>0. Main \in Callers
  OBVIOUS
<1>1. ASSUME NEW w \in Workers, Ask(w) \/ Miss(w) \/ TakeWrite(w) \/ Serve(w)
      PROVE  dest' = dest \/ Released(Main)
  <2>1. Ask(w) \/ Miss(w) => dest' = dest
    BY DEF Ask, Miss
  <2>2. TakeWrite(w) => dest' = dest
    BY DEF TakeWrite, CreateQueue, DeleteQueue, RefuseWrite
  <2>3. ServeCreate(w) \/ ServeInit(w) \/ ServeOptions(w) => dest' = dest
    BY DEF ServeCreate, ServeInit, ServeOptions
  <2>4. EndServe(w) => Released(Main)
    BY DEF EndServe, Release
  <2>5. QED
    BY <1>1, <2>1, <2>2, <2>3, <2>4 DEF Serve
<1>2. ASSUME NEW w \in Workers, Proceed(w)
      PROVE  dest' = dest \/ Released(w)
  <2>1. CallCreate(w) \/ CallInit(w) \/ EndOptions(w) \/ MoveTake(w) => dest' = dest
    BY DEF CallCreate, CallInit, EndOptions, MoveTake
  <2>2. EndAdd(w) \/ FailAdd(w) \/ MoveAdd(w) => Released(w)
    BY DEF EndAdd, FailAdd, MoveAdd, Release
  <2>3. RemoveTransfer(w) => Released(w)
    BY DEF RemoveTransfer, Release, Taken
  <2>4. QED
    BY <1>2, <2>1, <2>2, <2>3 DEF Proceed
<1>3. ASSUME NEW c \in Callers, LockRead(c)
      PROVE  /\ queues' = queues /\ dest[c] = NoQueue
             /\ \E q \in DOMAIN queues \cup {NoQueue} : dest' = [dest EXCEPT ![c] = q]
  <2>1. pc[c] = "wantRead"
    BY <1>3 DEF LockRead
  <2>2. pc[Main] # "gone"
    BY <2>1 DEF Inv, Placed
  <2>3. dest[c] = NoQueue
    BY <2>1, <2>2 DEF Inv, LocksHeld, Reads
  <2>4. QED
    BY <1>3, <2>3 DEF LockRead
<1>4. ASSUME NEW th \in Savers \cup {Main}, BeginSave(th) \/ ListLock(th) \/ SaveStep(th)
      PROVE  dest' = dest
  BY <1>4 DEF BeginSave, ListLock, SaveStep, Walk, EndWalk, Write, WriteFails, Rename
<1>5. ASSUME Handler \/ Edit \/ EndEdit \/ DeleteDoomed PROVE dest' = dest
  BY <1>5 DEF Handler, Edit, EndEdit, DeleteDoomed
<1>6. ASSUME EndHandler \/ Drag PROVE Released(Main)
  <2>1. EndHandler => Released(Main)
    BY DEF EndHandler, Release, Taken
  <2>2. CASE Drag
    <3>1. DOMAIN queues' = DOMAIN queues
      BY <2>2, DragType DEF Inv, TypeOK
    <3>2. QED
      BY <2>2, <3>1 DEF Drag, Release
  <2>3. QED
    BY <1>6, <2>1, <2>2
<1>7. ASSUME NEW b \in Savers, DeleteSaver(b) PROVE dest' = dest
  BY <1>7 DEF DeleteSaver
<1>8. ASSUME Quit \/ ShutDown PROVE dest' = dest \/ Released(Main)
  <2>1. StopQueues => Released(Main)
    BY DEF StopQueues, Release
  <2>2. Quit \/ Join \/ Seal \/ Drain \/ Unlist \/ Unload \/ Exec => dest' = dest
    BY DEF Quit, Join, Seal, Drain, Unlist, Unload, Exec
  <2>3. QED
    BY <1>8, <2>1, <2>2 DEF ShutDown
<1> HIDE DEF callers, lists, files, Threads
<1>9. QED
  BY <1>0, <1>1, <1>2, <1>3, <1>4, <1>5, <1>6, <1>7, <1>8 DEF Next

\* A request that has found a queue under g_queuesLock leases it.
THEOREM RequestsLeaseQueues == Spec => Found!Spec
<1> USE DEF Found!Sound, Found!InUse
<1>1. Inv => Found!Sound
  <2>1. Inv => DOMAIN queues \subseteq Queues
    BY ListType DEF Inv, TypeOK
  <2>2. QED
    BY <2>1 DEF Inv, QueuesStay
<1>2. Init => Found!Init
  BY <1>1, StoreAssumption, InvInit DEF Init, Found!Init
<1>3. Inv /\ Inv' /\ [Next]_vars => [Found!Next]_(Found!leaseVars)
  <2> SUFFICES ASSUME Inv, Inv', [Next]_vars
               PROVE  [Found!Next]_(Found!leaseVars)
    OBVIOUS
  <2>1. CASE UNCHANGED vars
    BY <2>1 DEF vars, Found!leaseVars
  <2>2. CASE Next
    <3>1. ASSUME dest' = dest
          PROVE  Found!Next
      <4>1. Found!Sound'
        BY <1>1, PTL
      <4>2. QED
        BY <3>1, <4>1 DEF Found!Next, Found!Change
    <3>2. ASSUME DOMAIN queues' = DOMAIN queues, NEW c \in Callers,
                 \/ dest' = [dest EXCEPT ![c] = NoQueue]
                 \/ dest[c] = NoQueue /\ \E q \in DOMAIN queues : dest' = [dest EXCEPT ![c] = q]
          PROVE  Found!Next
      BY <3>2 DEF Found!Next, Found!Take, Found!GiveUp
    <3>3. QED
      BY <2>2, <3>1, <3>2, StoreAssumption, DestStep
  <2>3. QED
    BY <2>1, <2>2
<1>4. StoreAssumption /\ Init => Inv
  BY InvInit
<1>5. Inv /\ [Next]_vars => Inv'
  BY StoreAssumption, InvNext
<1>6. QED
  BY <1>2, <1>3, <1>4, <1>5, StoreAssumption, PTL DEF Spec, Found!Spec

\* s_saveMutex keeps saves apart: what saveQueues() renames to queues.xml is the
\* document it built, or what a short write left of it.
THEOREM SavesOwnDocument == Spec => []OwnDocument
<1>1. Inv => OwnDocument
  BY DEF Inv
<1>2. QED
  BY Invariance, <1>1, PTL

\* unloadQueues() waits for every BackgroundSaver and lets none start afterwards.
THEOREM UnloadWaitsForSavers == Spec => []SaversDone
<1>1. Inv => SaversDone
  BY DEF Inv, SaversDone, Alone
<1>2. QED
  BY Invariance, <1>1, PTL

\* What the process ends with is on disk, unless the last write failed, and stays
\* there: no save that was under way replaces it, at exit or at a restart.
THEOREM LastSaveStays == Spec => ShutdownSaves
<1>1. ASSUME StoreAssumption, Inv, Next
      PROVE  (Unload \/ Exec) => failed \/ file = queues
  BY <1>1 DEF Unload, Exec, Inv, Documents
<1>2. ASSUME StoreAssumption, Inv, Next, ~loaded
      PROVE  file' = file
  <2>1. \A th \in Savers \cup {Main} : pc[th] # "rename"
    <3>1. CASE pc[Main] = "gone"
      BY <1>2, <3>1 DEF Inv, Placed, Threads, Callers
    <3>2. CASE pc[Main] # "gone"
      BY <1>2, <3>2 DEF Inv, Alone
    <3>3. QED
      BY <3>1, <3>2
  <2>2. \A th \in Savers \cup {Main} : ~Rename(th)
    BY <2>1 DEF Rename
  <2>3. QED
    BY <1>2, <2>2 DEF Next, Proceed, TakeWrite, SaveStep, Serve, ShutDown, files,
      Ask, Miss, CallCreate, CallInit, EndAdd, FailAdd, EndOptions, MoveTake, MoveAdd,
      RemoveTransfer, CreateQueue, DeleteQueue, RefuseWrite, ServeCreate, ServeInit,
      ServeOptions, EndServe, LockRead, BeginSave, ListLock, Walk, EndWalk, Write,
      WriteFails, DeleteSaver, Handler, EndHandler, Drag, Edit, EndEdit, DeleteDoomed, Quit,
      Join, StopQueues, Seal, Drain, Unlist, Unload, Exec
<1>3. ASSUME StoreAssumption, Inv, [Next]_vars
      PROVE  [/\ Unload \/ Exec => failed \/ file = queues
              /\ ~loaded => file' = file]_vars
  BY <1>1, <1>2, <1>3
<1>4. QED
  BY Invariance, StoreAssumption, <1>3, PTL DEF Spec, ShutdownSaves

-----------------------------------------------------------------------------
(* The settled file.  A walk that overlaps a move may write a transfer     *)
(* twice or not at all, but the file is right again when no save or        *)
(* request is under way.                                                   *)

\* Where the copy d has a transfer that is in a queue of l, so has l, but for those in D.
Agrees(d, l, D) ==
  \A q \in DOMAIN d : \A t \in d[q] \ D : Holds(l, t) => q \in DOMAIN l /\ t \in l[q]

\* A save is still to begin: a saver waits, or a move will ask for one.
Coming ==
  \/ \E th \in Threads : pc[th] = "wantMutex"
  \/ \E w \in Workers : pc[w] = "moving"

Writing(th) == pc[th] \in {"walk", "write", "rename"}
Underway == \E th \in Threads : pc[th] = "wantList" \/ Writing(th)

\* Worker w has a new transfer that it will add to a queue.
Adds(w) ==
  \/ pc[w] = "answered" /\ req[w] \in {"add", "init"}
  \/ pc[w] = "calling" /\ req[w] = "init"

\* A transfer in a worker's hand is in no queue and in no other hand, and a new one
\* has been written nowhere.
HandsFull ==
  \A w \in Workers : hand[w] # NoTransfer =>
    /\ pc[w] = "moving" \/ Adds(w)
    /\ hand[w] \in known /\ ~Holds(queues, hand[w])
    /\ \A v \in Workers : v # w => hand[v] # hand[w]
    /\ Adds(w) => /\ \A th \in Threads : ~Holds(doc[th], hand[w])
                  /\ file # Torn => ~Holds(file, hand[w])

KnownOnly ==
  \A t \in Transfers :
       /\ Holds(queues, t) => t \in known
       /\ \A th \in Threads : Holds(doc[th], t) => t \in known
       /\ file # Torn => (Holds(file, t) => t \in known)

DocsAgree == \A th \in Threads : Writing(th) => Agrees(doc[th], queues, dragged) \/ Coming

FileAgrees == failed \/ (file # Torn /\ Agrees(file, queues, dragged)) \/ Coming \/ Underway

\* The main thread leaves its event loop for good.
Stages == stage = "up" <=> ~ (pc[Main] \in {"join", "gone"} \/ Joined)

Settling == HandsFull /\ KnownOnly /\ DocsAgree /\ FileAgrees
SettleInv == Inv /\ Stages /\ (stage = "up" => Settling)

-----------------------------------------------------------------------------
(* Copies of the queues                                                    *)

\* Nothing is in the empty list.
LEMMA EmptyAgrees ==
  ASSUME NEW l, NEW D
  PROVE  Agrees(NoList, l, D) /\ \A t : ~Holds(NoList, t)
BY DEF Agrees, NoList, Holds

\* The list l with transfer t put into queue q.
Put(l, q, t) == [p \in DOMAIN l |-> IF p = q THEN l[p] \cup {t} ELSE l[p]]

\* A transfer the copy does not have joins a queue.
LEMMA PutAgrees ==
  ASSUME NEW l, NEW q, NEW t, NEW D, NEW m, m = Put(l, q, t)
  PROVE  /\ \A u : Holds(m, u) => Holds(l, u) \/ u = t
         /\ \A d : Agrees(d, l, D) /\ ~Holds(d, t) => Agrees(d, m, D)
<1>1. DOMAIN m = DOMAIN l
  BY DEF Put
<1>2. \A p \in DOMAIN l : m[p] = IF p = q THEN l[p] \cup {t} ELSE l[p]
  BY DEF Put
<1>3. \A u : Holds(m, u) => Holds(l, u) \/ u = t
  BY <1>1, <1>2 DEF Holds
<1>4. \A d : Agrees(d, l, D) /\ ~Holds(d, t) => Agrees(d, m, D)
  <2> SUFFICES ASSUME NEW d, Agrees(d, l, D), ~Holds(d, t), NEW p \in DOMAIN d, NEW u \in d[p] \ D, Holds(m, u)
               PROVE  p \in DOMAIN m /\ u \in m[p]
    BY DEF Agrees
  <2>1. u # t
    BY DEF Holds
  <2>2. p \in DOMAIN l /\ u \in l[p]
    BY <1>3, <2>1 DEF Agrees
  <2>3. QED
    BY <1>1, <1>2, <2>2
<1>5. QED
  BY <1>3, <1>4

\* A transfer leaves its queue.
LEMMA TakenAgrees ==
  ASSUME NEW l \in Lists, NEW t, NEW D
  PROVE  /\ \A u : Holds(Taken(l, t), u) <=> Holds(l, u) /\ u # t
         /\ \A d : Agrees(d, l, D) => Agrees(d, Taken(l, t), D)
<1>1. DOMAIN Taken(l, t) = DOMAIN l /\ \A p \in DOMAIN l : Taken(l, t)[p] = l[p] \ {t}
  BY DEF Taken
<1>2. \A u : Holds(Taken(l, t), u) <=> Holds(l, u) /\ u # t
  BY <1>1 DEF Holds
<1>3. \A d : Agrees(d, l, D) => Agrees(d, Taken(l, t), D)
  BY <1>1, <1>2 DEF Agrees
<1>4. QED
  BY <1>2, <1>3

\* A queue comes into being.
LEMMA NewAgrees ==
  ASSUME NEW l \in Lists, NEW q, NEW D, q \notin DOMAIN l
  PROVE  /\ \A u : Holds(With(l, q, {}), u) <=> Holds(l, u)
         /\ \A d : Agrees(d, l, D) => Agrees(d, With(l, q, {}), D)
<1>1. /\ DOMAIN With(l, q, {}) = DOMAIN l \cup {q}
      /\ \A p \in DOMAIN l : With(l, q, {})[p] = l[p]
      /\ With(l, q, {})[q] = {}
  BY DEF With
<1>2. \A u : Holds(With(l, q, {}), u) <=> Holds(l, u)
  BY <1>1 DEF Holds
<1>3. \A d : Agrees(d, l, D) => Agrees(d, With(l, q, {}), D)
  BY <1>1, <1>2 DEF Agrees
<1>4. QED
  BY <1>2, <1>3

\* A walk copies one more queue.
LEMMA WalkAgrees ==
  ASSUME NEW d, NEW l, NEW q \in DOMAIN l, NEW D, NEW e, e = With(d, q, l[q])
  PROVE  /\ Agrees(d, l, D) => Agrees(e, l, D)
         /\ \A t : Holds(e, t) => Holds(d, t) \/ Holds(l, t)
<1>1. /\ DOMAIN e = DOMAIN d \cup {q}
      /\ \A p \in DOMAIN e : e[p] = IF p = q THEN l[q] ELSE d[p]
  BY DEF With
<1>2. \A p \in DOMAIN e : p # q => p \in DOMAIN d
  BY <1>1
<1>3. Agrees(d, l, D) => Agrees(e, l, D)
  BY <1>1, <1>2 DEF Agrees
<1>4. \A t : Holds(e, t) => Holds(d, t) \/ Holds(l, t)
  BY <1>1, <1>2 DEF Holds
<1>5. QED
  BY <1>3, <1>4

\* Queues may lose or swap transfers, as long as none is added.
LEMMA FewerHeld ==
  ASSUME NEW l \in Lists, NEW q \in DOMAIN l
  PROVE  /\ \A u : Holds(Without(l, q), u) => Holds(l, u)
         /\ \A p \in DOMAIN l \ {q} : \A u :
              Holds(With(Without(l, q), p, l[p] \cup l[q]), u) => Holds(l, u)
<1>1. DOMAIN Without(l, q) = DOMAIN l \ {q} /\ \A p \in DOMAIN l \ {q} : Without(l, q)[p] = l[p]
  BY DEF Without
<1>2. \A u : Holds(Without(l, q), u) => Holds(l, u)
  BY <1>1 DEF Holds
<1>3. ASSUME NEW p \in DOMAIN l \ {q}, NEW u, Holds(With(Without(l, q), p, l[p] \cup l[q]), u)
      PROVE  Holds(l, u)
  <2> DEFINE m == With(Without(l, q), p, l[p] \cup l[q])
  <2>1. DOMAIN m = DOMAIN l \ {q}
    BY <1>1 DEF With
  <2>2. \A r \in DOMAIN m : m[r] = IF r = p THEN l[p] \cup l[q] ELSE l[r]
    BY <1>1 DEF With
  <2>3. QED
    BY <1>3, <2>1, <2>2 DEF Holds
<1>4. QED
  BY <1>2, <1>3

-----------------------------------------------------------------------------
(* Steps                                                                   *)

\* While the main thread is in its event loop no door is closed and the queues
\* are loaded.
LEMMA UpAndRunning ==
  ASSUME StoreAssumption, Inv, Stages, stage = "up"
  PROVE  /\ pc[Main] \in {"loop", "wantRead", "reading", "wantWrite"}
         /\ pc[Main] \in {"wantRead", "reading"} => req[Main] # "stop"
         /\ ~Closed /\ loaded
<1>1. /\ pc[Main] \in MainPlaces /\ pc[Main] # "gone" /\ pc[Main] # "join" /\ ~Joined
      /\ Alone
  BY DEF Inv, Placed, Stages
<1>2. pc[Main] \notin SavePlaces \cup {"seal", "drain", "unlist", "unload", "down", "exec"}
  BY <1>1 DEF Joined
<1>3. pc[Main] \in {"loop", "wantRead", "reading", "wantWrite"}
  BY <1>1, <1>2 DEF MainPlaces
<1>4. QED
  BY <1>1, <1>3 DEF Joined, Closed, Alone

\* Once it has left, it does not come back.
LEMMA StageStep ==
  ASSUME StoreAssumption, SettleInv, Next
  PROVE  Stages'
<1> USE DEF Callers, Threads, Goto, SavePlaces, callers, Joined, Stages
<1>1. /\ pc \in [Threads -> Places] /\ req \in [Callers -> Kinds \cup {"none", "init", "handler", "stop"}]
      /\ Stages /\ Placed /\ pc[Main] \in MainPlaces
      /\ Saver \in [Callers -> Savers] /\ Main \notin Workers /\ Main \notin Savers
      /\ stage \in {"up", "exit", "restart"}
  BY DEF SettleInv, Inv, TypeOK, Placed, StoreAssumption
<1>2. \A w \in Workers : pc[w] # "gone" => pc[Main] # "gone"
  BY DEF SettleInv, Inv, Placed
<1>3. ASSUME NEW w \in Workers, Ask(w) \/ Miss(w) \/ Proceed(w) \/ TakeWrite(w) PROVE Stages'
  BY <1>1, <1>3 DEF Ask, Miss, Proceed, TakeWrite, CallCreate, CallInit, EndAdd, FailAdd,
    EndOptions, MoveTake, MoveAdd, RemoveTransfer, CreateQueue, DeleteQueue, RefuseWrite,
    GotoSaving, Release, Kinds
<1>4. ASSUME NEW w \in Workers, Serve(w) PROVE Stages'
  BY <1>1, <1>4 DEF Serve, ServeCreate, ServeInit, ServeOptions, EndServe, Release, Kinds
<1>5. ASSUME NEW c \in Callers, LockRead(c) PROVE Stages'
  BY <1>1, <1>5 DEF LockRead
<1>6. ASSUME NEW th \in Savers \cup {Main}, BeginSave(th) \/ ListLock(th) \/ SaveStep(th)
      PROVE  Stages'
  BY <1>1, <1>6 DEF BeginSave, ListLock, SaveStep, Walk, EndWalk, Write, WriteFails, Rename,
    Saved, MainPlaces
<1>7. CASE Handler \/ EndHandler \/ Drag \/ Edit \/ EndEdit \/ DeleteDoomed
  BY <1>1, <1>7 DEF Handler, EndHandler, Drag, Edit, EndEdit, DeleteDoomed, GotoSaving, Release
<1>8. ASSUME NEW b \in Savers, DeleteSaver(b) PROVE Stages'
  BY <1>1, <1>8 DEF DeleteSaver
<1>9. CASE Quit \/ ShutDown
  BY <1>1, <1>9 DEF Quit, ShutDown, Join, StopQueues, Seal, Drain, Unlist, Unload, Exec,
    Release, Saved, MainPlaces
<1>10. QED
  BY <1>3, <1>4, <1>5, <1>6, <1>7, <1>8, <1>9 DEF Next

\* A step that changes no copy and no list keeps what matters for the file, if no
\* save is forgotten.
LEMMA QuietStep ==
  ASSUME Settling, UNCHANGED <<queues, known, doc, file, failed>>,
         dragged' = dragged \/ Coming',
         \A w \in Workers : hand'[w] = hand[w],
         \A w \in Workers : hand[w] # NoTransfer =>
           /\ pc[w] = "moving" \/ Adds(w) => pc'[w] = "moving" \/ Adds(w)'
           /\ Adds(w)' => Adds(w),
         \A th \in Threads : Writing(th)' => Writing(th) \/ doc[th] = NoList,
         Coming => Coming', Underway => Underway' \/ Coming'
  PROVE  Settling'
<1>1. HandsFull'
  BY DEF Settling, HandsFull
<1>2. KnownOnly'
  BY DEF Settling, KnownOnly
<1>3. DocsAgree'
  <2> SUFFICES ASSUME NEW th \in Threads, Writing(th)', ~Coming'
               PROVE  Agrees(doc[th], queues, dragged)
    BY DEF DocsAgree
  <2>1. CASE Writing(th)
    BY <2>1 DEF Settling, DocsAgree
  <2>2. CASE doc[th] = NoList
    BY <2>2, EmptyAgrees
  <2>3. QED
    BY <2>1, <2>2
<1>4. FileAgrees'
  BY DEF Settling, FileAgrees
<1>5. QED
  BY <1>1, <1>2, <1>3, <1>4 DEF Settling

\* What the next lemmas need of the other invariants.
LEMMA UpFacts ==
  ASSUME StoreAssumption, SettleInv, stage = "up"
  PROVE  /\ pc \in [Threads -> Places] /\ req \in [Callers -> Kinds \cup {"none", "init", "handler", "stop"}]
         /\ hand \in [Callers -> Transfers \cup {NoTransfer}]
         /\ queues \in Lists /\ doc \in [Threads -> Lists] /\ known \in SUBSET Transfers
         /\ \A w \in Workers : pc[w] \in WorkerPlaces /\ w # Main /\ w \notin Savers
         /\ \A w \in Workers : pc[w] \notin {"idle", "gone"} => pc[Saver[w]] = "none"
         /\ \A b \in Savers : pc[b] \in SaverPlaces /\ b # Main
         /\ pc[Main] \in {"loop", "wantRead", "reading", "wantWrite"}
         /\ ~Closed /\ loaded
         /\ Saver \in [Callers -> Savers]
         /\ \A th \in Threads : ~Writing(th) => doc[th] = NoList
         /\ Settling
<1> USE DEF Callers, Threads
<1>1. Inv /\ Stages /\ Settling
  BY DEF SettleInv
<1>2. /\ pc[Main] \in {"loop", "wantRead", "reading", "wantWrite"}
      /\ ~Closed /\ loaded
  BY <1>1, UpAndRunning
<1>3. /\ pc \in [Threads -> Places] /\ req \in [Callers -> Kinds \cup {"none", "init", "handler", "stop"}]
      /\ hand \in [Callers -> Transfers \cup {NoTransfer}]
      /\ queues \in Lists /\ doc \in [Threads -> Lists] /\ known \in SUBSET Transfers
  BY <1>1 DEF Inv, TypeOK
<1>4. /\ \A w \in Workers : pc[w] \in WorkerPlaces /\ w # Main /\ w \notin Savers
      /\ \A b \in Savers : pc[b] \in SaverPlaces /\ b # Main
      /\ Saver \in [Callers -> Savers]
  BY <1>1 DEF Inv, Placed, StoreAssumption
<1>5. \A w \in Workers : pc[w] \notin {"idle", "gone"} => pc[Saver[w]] = "none"
  BY <1>1 DEF Inv, Ready
<1>6. \A th \in Threads : ~Writing(th) => doc[th] = NoList
  BY <1>1, <1>2 DEF Inv, Documents, Writing
<1>7. QED
  BY <1>1, <1>2, <1>3, <1>4, <1>5, <1>6

\* Workers that ask, wait, are answered or give up.
LEMMA QuietWorker ==
  ASSUME StoreAssumption, SettleInv, stage = "up", NEW w \in Workers,
         \/ Ask(w) \/ Miss(w) \/ CallCreate(w) \/ CallInit(w) \/ EndOptions(w)
         \/ RefuseWrite(w) \/ ServeInit(w) \/ ServeOptions(w)
  PROVE  Settling'
<1> USE DEF Callers, Threads, callers, lists, files
<1>1. UNCHANGED <<queues, known, hand, doc, file, failed>>
  BY DEF Ask, Miss, CallCreate, CallInit, EndOptions, RefuseWrite, ServeInit, ServeOptions
<1>2. \A v \in Workers : hand[v] # NoTransfer =>
        /\ pc[v] = "moving" \/ Adds(v) => pc'[v] = "moving" \/ Adds(v)'
        /\ Adds(v)' => Adds(v)
  <2>1. \A v \in Workers : hand[v] # NoTransfer => pc[v] = "moving" \/ Adds(v)
    BY UpFacts DEF Settling, HandsFull
  <2>2. QED
    BY <2>1, UpFacts DEF Adds, Goto, GotoSaving, Ask, Miss, CallCreate, CallInit, EndOptions,
      RefuseWrite, ServeInit, ServeOptions, Kinds
<1>3. \A th \in Threads : Writing(th)' => Writing(th) \/ doc[th] = NoList
  BY UpFacts
    DEF Writing, Goto, GotoSaving, Ask, Miss, CallCreate, CallInit, EndOptions,
      RefuseWrite, ServeInit, ServeOptions, Kinds
<1>4. Coming => Coming'
  BY UpFacts
    DEF Coming, Goto, GotoSaving, Ask, Miss, CallCreate, CallInit, EndOptions,
      RefuseWrite, ServeInit, ServeOptions, Kinds
<1>5. Underway => Underway' \/ Coming'
  BY UpFacts
    DEF Underway, Writing, WorkerPlaces, Goto, GotoSaving, Ask, Miss, CallCreate, CallInit, EndOptions,
      RefuseWrite, ServeInit, ServeOptions, Kinds
<1>6. Settling /\ \A v \in Workers : hand'[v] = hand[v]
  BY <1>1, UpFacts
<1>7. dragged' = dragged \/ Coming'
  BY UpFacts
    DEF Coming, Goto, GotoSaving, Ask, Miss, CallCreate, CallInit, EndOptions,
      RefuseWrite, ServeInit, ServeOptions
<1>8. QED
  BY <1>1, <1>2, <1>3, <1>4, <1>5, <1>6, <1>7, QuietStep, Zenon

\* The main thread and the savers, as long as they change no copy and no list.
LEMMA QuietOthers ==
  ASSUME StoreAssumption, SettleInv, stage = "up",
         \/ Handler \/ Edit \/ DeleteDoomed
         \/ \E w \in Workers : EndServe(w)
         \/ \E c \in Callers : LockRead(c)
         \/ \E b \in Savers : DeleteSaver(b) \/ ListLock(b) \/ EndWalk(b) \/ Write(b)
  PROVE  Settling'
<1> USE DEF Callers, Threads, callers, lists, files
<1>1. /\ UNCHANGED <<queues, dragged, known, doc, file, failed>>
      /\ \A w \in Workers : hand'[w] = hand[w]
      /\ \A w \in Workers : req'[w] = req[w]
  BY UpFacts DEF Handler, Edit, DeleteDoomed, EndServe, Release, LockRead, DeleteSaver, ListLock,
    EndWalk, Write
<1>2. \A v \in Workers :
        /\ pc[v] = "moving" <=> pc'[v] = "moving"
        /\ Adds(v)' => Adds(v) \/ req[v] = "options"
        /\ Adds(v) => Adds(v)'
  BY <1>1, UpFacts DEF Adds, Goto, Handler, Edit, DeleteDoomed, EndServe, LockRead,
    DeleteSaver, ListLock, EndWalk, Write, SettleInv, Inv, LocksHeld
<1>3. \A th \in Threads : Writing(th)' => Writing(th) \/ doc[th] = NoList
  BY UpFacts
    DEF Writing, Goto, Handler, Edit, DeleteDoomed, EndServe, LockRead,
      DeleteSaver, ListLock, EndWalk, Write
<1>4. Coming => Coming'
  BY <1>2, UpFacts
    DEF Coming, Goto, Handler, Edit, DeleteDoomed, EndServe, LockRead,
      DeleteSaver, ListLock, EndWalk, Write
<1>5. Underway => Underway' \/ Coming'
  BY UpFacts
    DEF Underway, Writing, WorkerPlaces, Goto, Handler, Edit, DeleteDoomed, EndServe, LockRead,
      DeleteSaver, ListLock, EndWalk, Write
<1>6. Settling /\ \A v \in Workers : Adds(v)' => req[v] # "options"
  BY <1>1, UpFacts DEF Adds
<1>7. \A v \in Workers : hand[v] # NoTransfer =>
        /\ pc[v] = "moving" \/ Adds(v) => pc'[v] = "moving" \/ Adds(v)'
        /\ Adds(v)' => Adds(v)
  BY <1>2, <1>6, Zenon
<1>8. QED
  BY <1>1, <1>3, <1>4, <1>5, <1>6, <1>7, QuietStep, Zenon

-----------------------------------------------------------------------------
(* Steps that change lists and copies                                      *)

\* Hands that are emptied or kept.
LEMMA HandsStep ==
  ASSUME Settling, UNCHANGED <<doc, file>>, \A t \in known : t \in known',
         \A v \in Workers : hand'[v] # NoTransfer =>
           /\ hand'[v] = hand[v]
           /\ pc[v] = "moving" \/ Adds(v) => pc'[v] = "moving" \/ Adds(v)'
           /\ Adds(v)' => Adds(v)
           /\ Holds(queues', hand[v]) => Holds(queues, hand[v])
  PROVE  HandsFull'
BY DEF Settling, HandsFull

\* The list of queues changes.
LEMMA ListStep ==
  ASSUME Settling, UNCHANGED <<doc, file, failed>>, \A t \in known : t \in known',
         HandsFull',
         \A t \in Transfers : Holds(queues', t) => t \in known',
         \A th \in Threads : Writing(th)' => Writing(th),
         \/ Coming'
         \/ /\ \A th \in Threads : Agrees(doc[th], queues, dragged) => Agrees(doc[th], queues', dragged')
            /\ file # Torn => (Agrees(file, queues, dragged) => Agrees(file, queues', dragged'))
            /\ Coming => Coming'
            /\ Underway => Underway'
  PROVE  Settling'
<1>1. KnownOnly'
  BY DEF Settling, KnownOnly
<1>2. DocsAgree'
  BY DEF Settling, DocsAgree
<1>3. FileAgrees'
  BY DEF Settling, FileAgrees
<1>4. QED
  BY <1>1, <1>2, <1>3 DEF Settling

\* A new transfer joins its queue.
LEMMA EndAddStep ==
  ASSUME StoreAssumption, SettleInv, stage = "up", NEW w \in Workers, EndAdd(w)
  PROVE  Settling'
<1> USE DEF Callers, Threads, lists, files
<1>1. /\ UNCHANGED <<doc, file, failed, dragged, known, req>>
      /\ pc' = [pc EXCEPT ![w] = "idle"]
      /\ hand' = [hand EXCEPT ![w] = NoTransfer]
      /\ queues' = [queues EXCEPT ![dest[w]] = @ \cup {hand[w]}]
      /\ Adds(w)
  BY DEF EndAdd, Release, Goto, Adds
<1>2. hand[w] \in Transfers /\ hand[w] # NoTransfer
  BY UpFacts DEF EndAdd, SettleInv, Inv, Ready, StoreAssumption
<1>3. /\ hand[w] \in known
      /\ \A v \in Workers : v # w => hand[v] # hand[w]
      /\ \A th \in Threads : ~Holds(doc[th], hand[w])
      /\ file # Torn => ~Holds(file, hand[w])
  BY <1>1, <1>2, UpFacts DEF Settling, HandsFull
<1>4. /\ \A u : Holds(queues', u) => Holds(queues, u) \/ u = hand[w]
      /\ \A d : Agrees(d, queues, dragged) /\ ~Holds(d, hand[w]) => Agrees(d, queues', dragged)
  <2>1. DOMAIN queues' = DOMAIN queues
    BY <1>1
  <2>2. \A p \in DOMAIN queues :
          queues'[p] = IF p = dest[w] THEN queues[p] \cup {hand[w]} ELSE queues[p]
    BY <1>1
  <2>3. queues' = Put(queues, dest[w], hand[w])
    BY <1>1, <2>1, <2>2, UpFacts DEF Put, Lists
  <2>4. QED
    BY <2>3, PutAgrees
<1>5. \A v \in Workers : v # w => pc'[v] = pc[v] /\ hand'[v] = hand[v] /\ (Adds(v)' <=> Adds(v))
  BY <1>1, UpFacts DEF Adds
<1>6. hand'[w] = NoTransfer
  BY <1>1, UpFacts
<1>7. HandsFull'
  BY <1>1, <1>3, <1>4, <1>5, <1>6, UpFacts, HandsStep
<1>8. \A t \in Transfers : Holds(queues', t) => t \in known'
  BY <1>1, <1>3, <1>4, UpFacts DEF Settling, KnownOnly
<1>9. /\ \A th \in Threads : Writing(th)' <=> Writing(th)
      /\ Coming => Coming'
      /\ Underway => Underway'
  BY <1>1, UpFacts DEF Writing, Coming, Underway, EndAdd
<1>10. QED
  BY <1>1, <1>3, <1>4, <1>7, <1>8, <1>9, UpFacts, ListStep, Zenon

\* A new transfer is forgotten.
LEMMA FailAddStep ==
  ASSUME StoreAssumption, SettleInv, stage = "up", NEW w \in Workers, FailAdd(w)
  PROVE  Settling'
<1> USE DEF Callers, Threads, lists, files
<1>1. /\ UNCHANGED <<doc, file, failed, dragged, known, req, queues>>
      /\ pc' = [pc EXCEPT ![w] = "idle"]
      /\ hand' = [hand EXCEPT ![w] = NoTransfer]
  BY DEF FailAdd, Release, Goto
<1>2. \A v \in Workers : v # w => pc'[v] = pc[v] /\ hand'[v] = hand[v] /\ (Adds(v)' <=> Adds(v))
  BY <1>1, UpFacts DEF Adds
<1>3. hand'[w] = NoTransfer
  BY <1>1, UpFacts
<1>4. HandsFull'
  BY <1>1, <1>2, <1>3, UpFacts, HandsStep
<1>5. \A t \in Transfers : Holds(queues', t) => t \in known'
  BY <1>1, UpFacts DEF Settling, KnownOnly
<1>6. /\ \A th \in Threads : Writing(th)' <=> Writing(th)
      /\ Coming => Coming'
      /\ Underway => Underway'
  BY <1>1, UpFacts DEF Writing, Coming, Underway, FailAdd
<1>7. QED
  BY <1>1, <1>4, <1>5, <1>6, UpFacts, ListStep, Zenon

\* A move takes a transfer in its hand, or finds none.
LEMMA MoveTakeStep ==
  ASSUME StoreAssumption, SettleInv, stage = "up", NEW w \in Workers, MoveTake(w)
  PROVE  Settling'
<1> USE DEF Callers, Threads, lists, files
<1>1. PICK t \in Transfers \cup {NoTransfer} :
        /\ t = NoTransfer \/ Holds(queues, t)
        /\ queues' = Taken(queues, t)
        /\ hand' = [hand EXCEPT ![w] = t]
  BY DEF MoveTake
<1>2. /\ UNCHANGED <<doc, file, failed, dragged, known, req>>
      /\ pc' = [pc EXCEPT ![w] = "moving"]
  BY DEF MoveTake, Goto
<1>3. /\ \A u : Holds(queues', u) <=> Holds(queues, u) /\ u # t
      /\ \A d : Agrees(d, queues, dragged) => Agrees(d, queues', dragged)
  BY <1>1, UpFacts, TakenAgrees
<1>4. \A v \in Workers : v # w => pc'[v] = pc[v] /\ hand'[v] = hand[v] /\ (Adds(v)' <=> Adds(v))
  BY <1>1, <1>2, UpFacts DEF Adds
<1>5. hand'[w] = t /\ pc'[w] = "moving" /\ ~Adds(w)'
  BY <1>1, <1>2, UpFacts DEF Adds
<1>6. HandsFull'
  <2> SUFFICES ASSUME NEW v \in Workers, hand'[v] # NoTransfer
               PROVE  /\ pc'[v] = "moving" \/ Adds(v)'
                      /\ hand'[v] \in known /\ ~Holds(queues', hand'[v])
                      /\ \A x \in Workers : x # v => hand'[x] # hand'[v]
                      /\ Adds(v)' => /\ \A th \in Threads : ~Holds(doc[th], hand'[v])
                                     /\ file # Torn => ~Holds(file, hand'[v])
    BY <1>2 DEF HandsFull
  <2>1. \A x \in Workers : x # w /\ hand[x] # NoTransfer => hand[x] # t
    BY <1>1, UpFacts DEF Settling, HandsFull
  <2>2. CASE v = w
    <3>1. t \in known
      BY <1>1, <1>5, <2>2, UpFacts DEF Settling, KnownOnly
    <3>2. QED
      BY <1>3, <1>4, <1>5, <2>1, <2>2, <3>1
  <2>3. CASE v # w
    <3>1. hand[v] # NoTransfer /\ hand[v] # t
      BY <1>4, <2>1, <2>3
    <3>2. QED
      BY <1>3, <1>4, <1>5, <2>3, <3>1, UpFacts DEF Settling, HandsFull
  <2>4. QED
    BY <2>2, <2>3
<1>7. \A u \in Transfers : Holds(queues', u) => u \in known'
  BY <1>2, <1>3, UpFacts DEF Settling, KnownOnly
<1>8. /\ \A th \in Threads : Writing(th)' <=> Writing(th)
      /\ Coming => Coming'
      /\ Underway => Underway'
  BY <1>2, UpFacts DEF Writing, Coming, Underway, MoveTake
<1>9. QED
  BY <1>2, <1>3, <1>6, <1>7, <1>8, UpFacts, ListStep, Zenon

\* A caller that asks for a save will get one.
LEMMA Asked ==
  ASSUME StoreAssumption, SettleInv, stage = "up", NEW c \in Callers, NEW p,
         pc' = GotoSaving(c, p)
  PROVE  /\ pc' = [pc EXCEPT ![c] = p, ![Saver[c]] = "wantMutex"]
         /\ Saver[c] \in Savers /\ Saver[c] # c
         /\ pc'[c] = p
         /\ Coming'
<1>1. pc' = [pc EXCEPT ![c] = p, ![Saver[c]] = "wantMutex"]
  BY UpFacts DEF GotoSaving
<1>2. Saver[c] \in Savers /\ Saver[c] # c /\ Savers \subseteq Threads /\ c \in Threads
  BY UpFacts DEF StoreAssumption, Threads, Callers
<1>3. pc'[c] = p /\ pc'[Saver[c]] = "wantMutex"
  BY <1>1, <1>2, UpFacts
<1>4. Coming'
  BY <1>2, <1>3 DEF Coming
<1>5. QED
  BY <1>1, <1>2, <1>3, <1>4

\* A move puts the transfer into its queue and asks for a save.
LEMMA MoveAddStep ==
  ASSUME StoreAssumption, SettleInv, stage = "up", NEW w \in Workers, MoveAdd(w)
  PROVE  Settling'
<1> USE DEF Callers, Threads, lists, files
<1>1. /\ UNCHANGED <<doc, file, failed, known, req>>
      /\ pc' = GotoSaving(w, "idle")
      /\ hand' = [hand EXCEPT ![w] = NoTransfer]
      /\ queues' = [queues EXCEPT ![dest[w]] = @ \cup ({hand[w]} \ {NoTransfer})]
      /\ pc[w] = "moving"
  BY DEF MoveAdd, Release
<1>2. /\ pc' = [pc EXCEPT ![w] = "idle", ![Saver[w]] = "wantMutex"]
      /\ Saver[w] \in Savers /\ Coming'
  BY <1>1, Asked
<1>3. \A v \in Workers : v # w => pc'[v] = pc[v] /\ hand'[v] = hand[v] /\ (Adds(v)' <=> Adds(v))
  BY <1>1, <1>2, UpFacts DEF Adds
<1>4. \A u : Holds(queues', u) => Holds(queues, u) \/ (u = hand[w] /\ u # NoTransfer)
  <2>1. DOMAIN queues' = DOMAIN queues
    BY <1>1
  <2>2. \A q \in DOMAIN queues : queues'[q] \subseteq queues[q] \cup ({hand[w]} \ {NoTransfer})
    BY <1>1
  <2>3. QED
    BY <2>1, <2>2 DEF Holds
<1>5. \A v \in Workers : v # w /\ hand[v] # NoTransfer => hand[v] # hand[w]
  BY UpFacts DEF Settling, HandsFull
<1>6. hand'[w] = NoTransfer
  BY <1>1, UpFacts
<1>7. HandsFull'
  BY <1>1, <1>3, <1>4, <1>5, <1>6, UpFacts, HandsStep
<1>8. \A t \in Transfers : Holds(queues', t) => t \in known'
  BY <1>1, <1>4, UpFacts DEF Settling, KnownOnly, HandsFull
<1>9. \A th \in Threads : Writing(th)' => Writing(th)
  BY <1>2, UpFacts DEF Writing
<1>10. QED
  BY <1>1, <1>2, <1>7, <1>8, <1>9, UpFacts, ListStep, Zenon

\* A transfer is removed.
LEMMA RemoveStep ==
  ASSUME StoreAssumption, SettleInv, stage = "up", NEW w \in Workers, RemoveTransfer(w)
  PROVE  Settling'
<1> USE DEF Callers, Threads, lists, files
<1>1. PICK t \in Transfers \cup {NoTransfer} : queues' = Taken(queues, t)
  BY DEF RemoveTransfer
<1>2. /\ UNCHANGED <<doc, file, failed, dragged, known, req>>
      /\ pc' = [pc EXCEPT ![w] = "idle"]
      /\ hand' = [hand EXCEPT ![w] = NoTransfer]
  BY DEF RemoveTransfer, Release, Goto
<1>3. /\ \A u : Holds(queues', u) => Holds(queues, u)
      /\ \A d : Agrees(d, queues, dragged) => Agrees(d, queues', dragged)
  BY <1>1, UpFacts, TakenAgrees
<1>4. \A v \in Workers : v # w => pc'[v] = pc[v] /\ hand'[v] = hand[v] /\ (Adds(v)' <=> Adds(v))
  BY <1>2, UpFacts DEF Adds
<1>5. hand'[w] = NoTransfer
  BY <1>2, UpFacts
<1>6. HandsFull'
  BY <1>2, <1>3, <1>4, <1>5, UpFacts, HandsStep
<1>7. \A u \in Transfers : Holds(queues', u) => u \in known'
  BY <1>2, <1>3, UpFacts DEF Settling, KnownOnly
<1>8. /\ \A th \in Threads : Writing(th)' <=> Writing(th)
      /\ Coming => Coming'
      /\ Underway => Underway'
  BY <1>2, UpFacts DEF Writing, Coming, Underway, RemoveTransfer
<1>9. QED
  BY <1>2, <1>3, <1>6, <1>7, <1>8, UpFacts, ListStep, Zenon

\* A request creates or deletes a queue.
LEMMA TakeWriteStep ==
  ASSUME StoreAssumption, SettleInv, stage = "up", NEW w \in Workers,
         CreateQueue(w) \/ DeleteQueue(w)
  PROVE  Settling'
<1> USE DEF Callers, Threads, files, callers
<1>1. /\ UNCHANGED <<doc, file, failed, known, req, hand>>
      /\ pc[w] = "wantWrite"
  BY DEF CreateQueue, DeleteQueue
<1>2. \A v \in Workers : hand[v] # NoTransfer => v # w
  BY <1>1, UpFacts DEF Settling, HandsFull, Adds
<1>3. /\ \A t : Holds(queues', t) => Holds(queues, t)
      /\ \/ Coming'
         \/ /\ \A d : Agrees(d, queues, dragged) => Agrees(d, queues', dragged')
            /\ Coming => Coming'
            /\ Underway => Underway'
      /\ \A th \in Threads : Writing(th)' => Writing(th)
      /\ \A v \in Workers : v # w => pc'[v] = pc[v] /\ (Adds(v)' <=> Adds(v))
  <2>1. CASE CreateQueue(w)
    <3>1. pc' = [pc EXCEPT ![w] = "idle"]
      BY <2>1 DEF CreateQueue, Goto
    <3>2. PICK q \in Unborn : queues' = With(queues, q, {})
      BY <2>1 DEF CreateQueue
    <3>3. q \notin DOMAIN queues
      BY <3>2 DEF Unborn
    <3>4. /\ \A t : Holds(queues', t) => Holds(queues, t)
          /\ \A d : Agrees(d, queues, dragged) => Agrees(d, queues', dragged)
      BY <3>2, <3>3, UpFacts, NewAgrees
    <3>5. /\ \A th \in Threads : Writing(th)' => Writing(th)
          /\ Coming => Coming'
          /\ Underway => Underway'
          /\ \A v \in Workers : v # w => pc'[v] = pc[v] /\ (Adds(v)' <=> Adds(v))
      BY <1>1, <3>1, UpFacts DEF Writing, Coming, Underway, Adds
    <3>6. dragged' = dragged
      BY <2>1 DEF CreateQueue
    <3>7. QED
      BY <3>4, <3>5, <3>6
  <2>2. CASE DeleteQueue(w)
    <3>1. /\ pc' = [pc EXCEPT ![w] = "idle", ![Saver[w]] = "wantMutex"]
          /\ Saver[w] \in Savers /\ Coming'
      BY <2>2, Asked DEF DeleteQueue
    <3>2. \A t : Holds(queues', t) => Holds(queues, t)
      <4>1. PICK q \in DOMAIN queues :
              \/ queues' = Without(queues, q)
              \/ \E p \in DOMAIN queues \ {q} :
                   queues' = With(Without(queues, q), p, queues[p] \cup queues[q])
        BY <2>2 DEF DeleteQueue
      <4>2. CASE queues' = Without(queues, q)
        BY <4>2, UpFacts, FewerHeld
      <4>3. ASSUME NEW p \in DOMAIN queues \ {q},
                   queues' = With(Without(queues, q), p, queues[p] \cup queues[q])
            PROVE  \A t : Holds(queues', t) => Holds(queues, t)
        BY <4>3, UpFacts, FewerHeld
      <4>4. QED
        BY <4>1, <4>2, <4>3
    <3>3. /\ \A th \in Threads : Writing(th)' => Writing(th)
          /\ \A v \in Workers : v # w => pc'[v] = pc[v] /\ (Adds(v)' <=> Adds(v))
      BY <1>1, <3>1, UpFacts DEF Writing, Adds
    <3>4. QED
      BY <3>1, <3>2, <3>3
  <2>3. QED
    BY <2>1, <2>2
<1>4. HandsFull'
  BY <1>1, <1>2, <1>3, UpFacts, HandsStep
<1>5. \A t \in Transfers : Holds(queues', t) => t \in known'
  BY <1>1, <1>3, UpFacts DEF Settling, KnownOnly
<1>6. QED
  BY <1>1, <1>3, <1>4, <1>5, UpFacts, ListStep, Zenon

\* The desktop creates or deletes a queue.
LEMMA EndEditStep ==
  ASSUME StoreAssumption, SettleInv, stage = "up", EndEdit
  PROVE  Settling'
<1> USE DEF Callers, Threads, files, callers
<1>1. /\ UNCHANGED <<doc, file, failed, known, req, hand>>
      /\ pc' = GotoSaving(Main, "loop")
  BY DEF EndEdit
<1>2. /\ pc' = [pc EXCEPT ![Main] = "loop", ![Saver[Main]] = "wantMutex"]
      /\ Saver[Main] \in Savers /\ Coming'
  BY <1>1, Asked
<1>3. \A t : Holds(queues', t) => Holds(queues, t)
  <2>1. CASE \E q \in Unborn : queues' = With(queues, q, {})
    BY <2>1, UpFacts, NewAgrees DEF Unborn
  <2>2. CASE \E q \in DOMAIN queues : queues' = Without(queues, q)
    BY <2>2, UpFacts, FewerHeld
  <2>3. CASE queues' = queues
    BY <2>3
  <2>4. QED
    BY <2>1, <2>2, <2>3 DEF EndEdit
<1>4. /\ \A th \in Threads : Writing(th)' => Writing(th)
      /\ \A v \in Workers : pc'[v] = pc[v] /\ (Adds(v)' <=> Adds(v))
  BY <1>1, <1>2, UpFacts DEF Writing, Adds
<1>5. HandsFull'
  BY <1>1, <1>3, <1>4, UpFacts, HandsStep
<1>6. \A t \in Transfers : Holds(queues', t) => t \in known'
  BY <1>1, <1>3, UpFacts DEF Settling, KnownOnly
<1>7. QED
  BY <1>1, <1>2, <1>4, <1>5, <1>6, UpFacts, ListStep, Zenon

\* A handler removes a transfer, adds one or does neither, and may ask for a save.
LEMMA EndHandlerStep ==
  ASSUME StoreAssumption, SettleInv, stage = "up", EndHandler
  PROVE  Settling'
<1> USE DEF Callers, Threads, files
<1>1. /\ UNCHANGED <<doc, file, failed, req>>
      /\ pc[Main] = "reading"
      /\ hand' = [hand EXCEPT ![Main] = NoTransfer]
  BY DEF EndHandler, Release
<1>2. \/ pc' = [pc EXCEPT ![Main] = "loop"] /\ dragged' = dragged
      \/ /\ pc' = [pc EXCEPT ![Main] = "loop", ![Saver[Main]] = "wantMutex"]
         /\ Coming'
  <2>1. CASE pc' = Goto(Main, "loop") /\ UNCHANGED dragged
    BY <2>1 DEF Goto
  <2>2. CASE pc' = GotoSaving(Main, "loop")
    BY <2>2, Asked
  <2>3. QED
    BY <2>1, <2>2 DEF EndHandler
<1>3. /\ \A th \in Threads : Writing(th)' => Writing(th)
      /\ \A v \in Workers : pc'[v] = pc[v] /\ hand'[v] = hand[v] /\ (Adds(v)' <=> Adds(v))
      /\ \/ Coming'
         \/ (Coming => Coming') /\ (Underway => Underway') /\ dragged' = dragged
  <2>1. CASE pc' = [pc EXCEPT ![Main] = "loop"] /\ dragged' = dragged
    BY <1>1, <2>1, UpFacts DEF Writing, Coming, Underway, Adds
  <2>2. CASE pc' = [pc EXCEPT ![Main] = "loop", ![Saver[Main]] = "wantMutex"] /\ Coming'
    BY <1>1, <2>2, UpFacts DEF Writing, Adds
  <2>3. QED
    BY <1>2, <2>1, <2>2
<1>4. ASSUME known' = known,
             \A t : Holds(queues', t) => Holds(queues, t),
             \A d : Agrees(d, queues, dragged) => Agrees(d, queues', dragged)
      PROVE  Settling'
  <2>1. HandsFull'
    BY <1>1, <1>3, <1>4, UpFacts, HandsStep
  <2>2. \A t \in Transfers : Holds(queues', t) => t \in known'
    BY <1>4, UpFacts DEF Settling, KnownOnly
  <2>3. \/ Coming'
        \/ /\ \A d : Agrees(d, queues, dragged) => Agrees(d, queues', dragged')
           /\ Coming => Coming'
           /\ Underway => Underway'
    BY <1>3, <1>4
  <2>4. QED
    BY <1>1, <1>3, <1>4, <2>1, <2>2, <2>3, UpFacts, ListStep, Zenon
<1>5. CASE UNCHANGED <<queues, known>>
  BY <1>4, <1>5
<1>6. CASE known' = known /\ \E t \in Transfers : queues' = Taken(queues, t)
  <2>1. PICK t \in Transfers : queues' = Taken(queues, t)
    BY <1>6
  <2>2. QED
    BY <1>4, <1>6, <2>1, UpFacts, TakenAgrees
<1>7. ASSUME NEW t \in Transfers \ known, NEW q \in DOMAIN queues,
             queues' = [queues EXCEPT ![q] = @ \cup {t}], known' = known \cup {t}
      PROVE  Settling'
  <2>1. queues' = Put(queues, q, t)
    <3>1. DOMAIN queues' = DOMAIN queues
      BY <1>7
    <3>2. \A p \in DOMAIN queues :
            queues'[p] = IF p = q THEN queues[p] \cup {t} ELSE queues[p]
      BY <1>7
    <3>3. QED
      BY <1>7, <3>1, <3>2, UpFacts DEF Put, Lists
  <2>2. /\ \A u : Holds(queues', u) => Holds(queues, u) \/ u = t
        /\ \A d : Agrees(d, queues, dragged) /\ ~Holds(d, t) => Agrees(d, queues', dragged)
    BY <2>1, PutAgrees
  <2>3. /\ \A th \in Threads : ~Holds(doc[th], t)
        /\ file # Torn => ~Holds(file, t)
        /\ \A v \in Workers : hand[v] # NoTransfer => hand[v] # t
    BY UpFacts DEF Settling, KnownOnly, HandsFull
  <2>4. HandsFull'
    BY <1>1, <1>3, <1>7, <2>2, <2>3, UpFacts, HandsStep
  <2>5. \A u \in Transfers : Holds(queues', u) => u \in known'
    BY <1>7, <2>2, UpFacts DEF Settling, KnownOnly
  <2>6. \A u \in known : u \in known'
    BY <1>7
  <2>7. \/ Coming'
        \/ /\ \A d : Agrees(d, queues, dragged) /\ ~Holds(d, t) => Agrees(d, queues', dragged')
           /\ Coming => Coming'
           /\ Underway => Underway'
    BY <1>3, <2>2
  <2>8. QED
    BY <1>1, <1>3, <2>3, <2>4, <2>5, <2>6, <2>7, UpFacts, ListStep, Zenon
<1>8. QED
  BY <1>5, <1>6, <1>7 DEF EndHandler

\* A drag changes where transfers are, but no copy says so yet.
LEMMA DragStep ==
  ASSUME StoreAssumption, SettleInv, stage = "up", Drag
  PROVE  Settling'
<1> USE DEF Callers, Threads, files
<1>1. /\ UNCHANGED <<doc, file, failed, known, req>>
      /\ pc[Main] = "reading" /\ pc' = [pc EXCEPT ![Main] = "loop"]
      /\ hand' = [hand EXCEPT ![Main] = NoTransfer]
  BY DEF Drag, Release, Goto
<1>2. /\ \A th \in Threads : Writing(th)' => Writing(th)
      /\ \A v \in Workers : pc'[v] = pc[v] /\ hand'[v] = hand[v] /\ (Adds(v)' <=> Adds(v))
      /\ (Coming => Coming') /\ (Underway => Underway')
  BY <1>1, UpFacts DEF Writing, Coming, Underway, Adds
<1>3. PICK a \in DOMAIN queues, b \in DOMAIN queues :
        /\ DOMAIN queues' = DOMAIN queues
        /\ \E S \in SUBSET queues[a] :
             /\ a # b /\ dragged' = dragged \cup S
             /\ queues'[a] = queues[a] \ S /\ queues'[b] = queues[b] \cup S
             /\ \A p \in DOMAIN queues \ {a, b} : queues'[p] = queues[p]
  BY UpFacts, DragType
<1>4. PICK S \in SUBSET queues[a] :
        /\ a # b /\ dragged' = dragged \cup S
        /\ queues'[a] = queues[a] \ S /\ queues'[b] = queues[b] \cup S
        /\ \A p \in DOMAIN queues \ {a, b} : queues'[p] = queues[p]
  BY <1>3
<1>5. \A u : Holds(queues', u) => Holds(queues, u)
  BY <1>3, <1>4 DEF Holds
<1>6. \A p \in DOMAIN queues : queues[p] \ S \subseteq queues'[p]
  BY <1>3, <1>4
<1>7. \A d : Agrees(d, queues, dragged) => Agrees(d, queues', dragged')
  BY <1>3, <1>4, <1>5, <1>6 DEF Agrees
<1>8. HandsFull'
  BY <1>1, <1>2, <1>5, UpFacts, HandsStep
<1>9. \A t \in Transfers : Holds(queues', t) => t \in known'
  BY <1>1, <1>5, UpFacts DEF Settling, KnownOnly
<1>10. QED
  BY <1>1, <1>2, <1>7, <1>8, <1>9, UpFacts, ListStep, Zenon

\* The main thread creates a transfer for a worker, or cannot.
LEMMA ServeCreateStep ==
  ASSUME StoreAssumption, SettleInv, stage = "up", NEW w \in Workers, ServeCreate(w)
  PROVE  Settling'
<1> USE DEF Callers, Threads, files
<1>1. /\ UNCHANGED <<doc, file, failed, req, queues, dragged>>
      /\ pc[w] = "calling" /\ req[w] = "add"
      /\ pc' = [pc EXCEPT ![w] = "answered"]
  BY DEF ServeCreate, Goto
<1>2. \A v \in Workers : v # w => pc'[v] = pc[v] /\ hand'[v] = hand[v] /\ (Adds(v)' <=> Adds(v))
  BY <1>1, UpFacts DEF Adds, ServeCreate
<1>3. \A t \in known : t \in known'
  BY DEF ServeCreate
<1>4. HandsFull'
  <2>1. CASE UNCHANGED <<hand, known>>
    <3>1. hand[w] = NoTransfer
      BY <1>1, UpFacts DEF Settling, HandsFull, Adds
    <3>2. QED
      BY <1>1, <1>2, <2>1, <3>1, UpFacts, HandsStep
  <2>2. ASSUME NEW t \in Transfers \ known, hand' = [hand EXCEPT ![w] = t],
               known' = known \cup {t}
        PROVE  HandsFull'
    <3>1. /\ \A th \in Threads : ~Holds(doc[th], t)
          /\ file # Torn => ~Holds(file, t)
          /\ ~Holds(queues, t)
          /\ \A v \in Workers : hand[v] # NoTransfer => hand[v] # t
      BY UpFacts DEF Settling, KnownOnly, HandsFull
    <3>2. hand'[w] = t /\ t # NoTransfer /\ Adds(w)'
      BY <1>1, <2>2, UpFacts DEF Adds, StoreAssumption
    <3> SUFFICES ASSUME NEW v \in Workers, hand'[v] # NoTransfer
                 PROVE  /\ pc'[v] = "moving" \/ Adds(v)'
                        /\ hand'[v] \in known' /\ ~Holds(queues', hand'[v])
                        /\ \A x \in Workers : x # v => hand'[x] # hand'[v]
                        /\ Adds(v)' => /\ \A th \in Threads : ~Holds(doc'[th], hand'[v])
                                       /\ file' # Torn => ~Holds(file', hand'[v])
      BY DEF HandsFull
    <3>3. CASE v = w
      BY <1>1, <1>2, <2>2, <3>1, <3>2, <3>3
    <3>4. CASE v # w
      BY <1>1, <1>2, <2>2, <3>1, <3>2, <3>4, UpFacts DEF Settling, HandsFull
    <3>5. QED
      BY <3>3, <3>4
  <2>3. QED
    BY <2>1, <2>2 DEF ServeCreate
<1>5. \A t \in Transfers : Holds(queues', t) => t \in known'
  BY <1>1, <1>3, UpFacts DEF Settling, KnownOnly
<1>6. /\ \A th \in Threads : Writing(th)' <=> Writing(th)
      /\ Coming => Coming'
      /\ Underway => Underway'
  BY <1>1, UpFacts DEF Writing, Coming, Underway
<1>7. QED
  BY <1>1, <1>3, <1>4, <1>5, <1>6, UpFacts, ListStep, Zenon

-----------------------------------------------------------------------------
(* Steps of a save                                                         *)

\* What no step of a save changes.
LEMMA SaveKeeps ==
  ASSUME StoreAssumption, SettleInv, stage = "up", NEW b \in Savers, NEW p,
         pc' = [pc EXCEPT ![b] = p], UNCHANGED <<callers, queues, known>>
  PROVE  /\ pc'[b] = p
         /\ \A th \in Threads : th # b => pc'[th] = pc[th]
         /\ \A v \in Workers : pc'[v] = pc[v] /\ hand'[v] = hand[v] /\ (Adds(v)' <=> Adds(v))
         /\ pc[b] # "wantMutex" => (Coming => Coming')
BY UpFacts DEF Threads, Adds, Coming, callers

\* Only the holder of the mutex writes.
LEMMA OneWriter ==
  ASSUME StoreAssumption, SettleInv, stage = "up"
  PROVE  \A th \in Threads : Writing(th) => th \in saving
BY UpFacts DEF SettleInv, Inv, LocksHeld, Writing

\* A saver takes the mutex, or gives up.
LEMMA BeginSaveStep ==
  ASSUME StoreAssumption, SettleInv, stage = "up", NEW b \in Savers, BeginSave(b)
  PROVE  Settling'
<1>1. /\ UNCHANGED <<callers, queues, dragged, known, doc, file>>
      /\ saving = {}
      /\ \/ pc' = Goto(b, "finished") /\ failed' = TRUE
         \/ pc' = Goto(b, "wantList") /\ failed' = failed
  BY UpFacts DEF BeginSave, Saved, lists
<1>2. \/ pc' = [pc EXCEPT ![b] = "finished"] /\ failed' = TRUE
      \/ pc' = [pc EXCEPT ![b] = "wantList"]
  BY <1>1 DEF Goto
<1>3. /\ \/ pc'[b] = "finished" /\ failed'
         \/ pc'[b] = "wantList"
      /\ \A th \in Threads : th # b => pc'[th] = pc[th]
      /\ \A v \in Workers : pc'[v] = pc[v] /\ hand'[v] = hand[v] /\ (Adds(v)' <=> Adds(v))
  BY <1>1, <1>2, SaveKeeps
<1>4. \A th \in Threads : ~Writing(th)'
  BY <1>1, <1>3, OneWriter DEF Writing
<1>5. HandsFull'
  BY <1>1, <1>3, UpFacts, HandsStep DEF callers
<1>6. KnownOnly'
  BY <1>1, UpFacts DEF Settling, KnownOnly
<1>7. DocsAgree'
  BY <1>4 DEF DocsAgree
<1>8. FileAgrees'
  BY <1>3 DEF FileAgrees, Underway, Threads
<1>9. QED
  BY <1>5, <1>6, <1>7, <1>8 DEF Settling

\* It copies one queue.
LEMMA WalkStep ==
  ASSUME StoreAssumption, SettleInv, stage = "up", NEW b \in Savers, Walk(b)
  PROVE  Settling'
<1> USE DEF Threads
<1>1. /\ UNCHANGED <<pc, req, hand, queues, dragged, known, file, failed>>
      /\ Writing(b)
  BY DEF Walk, callers, lists, Writing
<1>2. PICK q \in DOMAIN queues : doc' = [doc EXCEPT ![b] = With(@, q, queues[q])]
  BY DEF Walk
<1>3. doc'[b] = With(doc[b], q, queues[q]) /\ \A th \in Threads : th # b => doc'[th] = doc[th]
  BY <1>2, UpFacts
<1>4. /\ Agrees(doc[b], queues, dragged) => Agrees(doc'[b], queues, dragged)
      /\ \A t : Holds(doc'[b], t) => Holds(doc[b], t) \/ Holds(queues, t)
  BY <1>3, WalkAgrees
<1>5. \A v \in Workers : Adds(v)' <=> Adds(v)
  BY <1>1 DEF Adds
<1>6. \A th \in Threads : \A t : Holds(doc'[th], t) => Holds(doc[th], t) \/ Holds(queues, t)
  BY <1>3, <1>4
<1>7. HandsFull'
  BY <1>1, <1>5, <1>6, UpFacts DEF Settling, HandsFull
<1>8. KnownOnly'
  BY <1>1, <1>6, UpFacts DEF Settling, KnownOnly
<1>9. \A th \in Threads : Writing(th)' <=> Writing(th)
  BY <1>1 DEF Writing
<1>10. (Coming' <=> Coming) /\ (Underway' <=> Underway)
  BY <1>1 DEF Coming, Underway, Writing
<1>11. DocsAgree'
  BY <1>1, <1>3, <1>4, <1>9, <1>10, UpFacts DEF Settling, DocsAgree
<1>12. FileAgrees'
  BY <1>1, <1>10, UpFacts DEF Settling, FileAgrees
<1>13. QED
  BY <1>7, <1>8, <1>11, <1>12 DEF Settling

\* The save ends: the write has failed, or the document becomes the file.
LEMMA EndSaveStep ==
  ASSUME StoreAssumption, SettleInv, stage = "up", NEW b \in Savers, WriteFails(b) \/ Rename(b)
  PROVE  Settling'
<1> USE DEF Threads
<1>1. /\ UNCHANGED <<callers, queues, dragged, known>>
      /\ pc' = [pc EXCEPT ![b] = "finished"]
      /\ doc' = [doc EXCEPT ![b] = NoList]
      /\ pc[b] # "wantMutex" /\ Writing(b)
  BY UpFacts DEF WriteFails, Rename, Goto, Saved, lists, Writing
<1>2. \/ failed' /\ file' = file
      \/ failed' /\ file' = Torn
      \/ file' = doc[b]
  BY UpFacts DEF WriteFails, Rename, SettleInv, Inv, OwnDocument
<1>3. /\ doc'[b] = NoList /\ \A th \in Threads : th # b => doc'[th] = doc[th]
      /\ doc[b] # Torn
  BY <1>1, UpFacts DEF StoreAssumption
<1>4. /\ pc'[b] = "finished"
      /\ \A th \in Threads : th # b => pc'[th] = pc[th]
      /\ \A v \in Workers : pc'[v] = pc[v] /\ hand'[v] = hand[v] /\ (Adds(v)' <=> Adds(v))
      /\ Coming => Coming'
  BY <1>1, SaveKeeps
<1>5. \A th \in Threads : \A t : Holds(doc'[th], t) => Holds(doc[th], t)
  BY <1>3, EmptyAgrees
<1>6. \A t : Holds(file', t) /\ file' # Torn =>
        (file # Torn /\ Holds(file, t)) \/ Holds(doc[b], t)
  BY <1>2
<1>7. HandsFull'
  BY <1>1, <1>4, <1>5, <1>6, UpFacts DEF Settling, HandsFull
<1>8. KnownOnly'
  BY <1>1, <1>5, <1>6, UpFacts DEF Settling, KnownOnly
<1>9. \A th \in Threads : Writing(th)' => Writing(th) /\ th # b
  BY <1>4 DEF Writing
<1>10. DocsAgree'
  BY <1>1, <1>3, <1>4, <1>9, UpFacts DEF Settling, DocsAgree
<1>11. FileAgrees'
  BY <1>1, <1>2, <1>3, <1>4, UpFacts DEF Settling, DocsAgree, FileAgrees
<1>12. QED
  BY <1>7, <1>8, <1>10, <1>11 DEF Settling

-----------------------------------------------------------------------------

\* In the beginning the file is what was read from it.
LEMMA SettleInit ==
  ASSUME StoreAssumption, Init
  PROVE  SettleInv
<1> USE DEF Callers, Threads
<1>1. Inv
  BY InvInit
<1>2. Stages
  BY DEF Init, Stages, Joined, SavePlaces
<1>3. HandsFull
  BY DEF Init, HandsFull
<1>4. KnownOnly
  BY EmptyAgrees DEF Init, KnownOnly
<1>5. DocsAgree
  BY EmptyAgrees DEF Init, DocsAgree
<1>6. FileAgrees
  BY DEF Init, FileAgrees, Agrees, StoreAssumption
<1>7. QED
  BY <1>1, <1>2, <1>3, <1>4, <1>5, <1>6 DEF SettleInv, Settling

\* Only Quit changes the stage.
LEMMA StillUp ==
  ASSUME StoreAssumption, SettleInv, Next, stage' = "up"
  PROVE  stage = "up" /\ ~Quit
<1>1. ~Quit
  BY DEF Quit
<1>2. ASSUME NEW w \in Workers, Ask(w) \/ Miss(w) \/ Proceed(w) \/ TakeWrite(w) \/ Serve(w)
      PROVE  stage' = stage
  BY <1>2 DEF Ask, Miss, Proceed, TakeWrite, CallCreate, CallInit, EndAdd, FailAdd,
    EndOptions, MoveTake, MoveAdd, RemoveTransfer, CreateQueue, DeleteQueue, RefuseWrite,
    Serve, ServeCreate, ServeInit, ServeOptions, EndServe, callers
<1>3. ASSUME NEW c \in Callers, LockRead(c) PROVE stage' = stage
  BY <1>3 DEF LockRead
<1>4. ASSUME NEW th \in Savers \cup {Main}, BeginSave(th) \/ ListLock(th) \/ SaveStep(th)
      PROVE  stage' = stage
  BY <1>4 DEF BeginSave, ListLock, SaveStep, Walk, EndWalk, Write, WriteFails, Rename, callers
<1>5. ASSUME Handler \/ EndHandler \/ Drag \/ Edit \/ EndEdit \/ DeleteDoomed PROVE stage' = stage
  BY <1>5 DEF Handler, EndHandler, Drag, Edit, EndEdit, DeleteDoomed, callers
<1>6. ASSUME NEW b \in Savers, DeleteSaver(b) PROVE stage' = stage
  BY <1>6 DEF DeleteSaver, callers
<1>7. ASSUME ShutDown PROVE stage' = stage
  BY <1>7 DEF ShutDown, Join, StopQueues, Seal, Drain, Unlist, Unload, Exec, callers
<1>8. QED
  BY <1>1, <1>2, <1>3, <1>4, <1>5, <1>6, <1>7 DEF Next

\* Every step keeps the invariant.
LEMMA SettleStep ==
  ASSUME StoreAssumption, SettleInv, Next
  PROVE  SettleInv'
<1>1. Inv'
  BY InvNext DEF SettleInv
<1>2. Stages'
  BY StageStep
<1>3. ASSUME stage' = "up" PROVE Settling'
  <2>1. stage = "up" /\ ~Quit
    BY <1>3, StillUp
  <2>2. ASSUME NEW w \in Workers,
               Ask(w) \/ Miss(w) \/ Proceed(w) \/ TakeWrite(w) \/ Serve(w)
        PROVE  Settling'
    <3>1. CASE \/ Ask(w) \/ Miss(w) \/ CallCreate(w) \/ CallInit(w) \/ EndOptions(w)
               \/ RefuseWrite(w) \/ ServeInit(w) \/ ServeOptions(w)
      BY <2>1, <3>1, QuietWorker
    <3>2. CASE EndServe(w)
      BY <2>1, <3>2, QuietOthers
    <3>3. CASE EndAdd(w) \/ FailAdd(w) \/ MoveTake(w) \/ MoveAdd(w) \/ RemoveTransfer(w)
      BY <2>1, <3>3, EndAddStep, FailAddStep, MoveTakeStep, MoveAddStep, RemoveStep
    <3>4. CASE CreateQueue(w) \/ DeleteQueue(w) \/ ServeCreate(w)
      BY <2>1, <3>4, TakeWriteStep, ServeCreateStep
    <3>5. QED
      BY <2>2, <3>1, <3>2, <3>3, <3>4, Zenon DEF Proceed, TakeWrite, Serve
  <2>3. ASSUME NEW c \in Callers, LockRead(c) PROVE Settling'
    BY <2>1, <2>3, QuietOthers
  <2>4. ASSUME NEW th \in Savers \cup {Main}, BeginSave(th) \/ ListLock(th) \/ SaveStep(th)
        PROVE  Settling'
    <3>1. pc[th] \in {"wantMutex", "wantList", "walk", "write", "rename"}
      BY <2>4 DEF BeginSave, ListLock, SaveStep, Walk, EndWalk, Write, WriteFails, Rename
    <3>2. th \in Savers
      BY <2>1, <3>1, UpFacts
    <3>3. CASE BeginSave(th) \/ Walk(th) \/ WriteFails(th) \/ Rename(th)
      BY <2>1, <3>2, <3>3, BeginSaveStep, WalkStep, EndSaveStep
    <3>4. CASE ListLock(th) \/ EndWalk(th) \/ Write(th)
      BY <2>1, <3>2, <3>4, QuietOthers
    <3>5. QED
      BY <2>4, <3>3, <3>4, Zenon DEF SaveStep
  <2>5. CASE Handler \/ Edit \/ DeleteDoomed
    BY <2>1, <2>5, QuietOthers
  <2>6. CASE EndHandler \/ Drag \/ EndEdit
    BY <2>1, <2>6, EndHandlerStep, DragStep, EndEditStep
  <2>7. ASSUME NEW b \in Savers, DeleteSaver(b) PROVE Settling'
    BY <2>1, <2>7, QuietOthers
  <2>8. ~ShutDown
    BY <2>1, UpFacts, UpAndRunning
      DEF SettleInv, ShutDown, Join, StopQueues, Seal, Drain, Unlist, Unload, Exec
  <2>9. QED
    BY <2>1, <2>2, <2>3, <2>4, <2>5, <2>6, <2>7, <2>8, Zenon DEF Next
<1>4. QED
  BY <1>1, <1>2, <1>3 DEF SettleInv

\* The invariant holds always.
LEMMA SettleInvariant == Spec => []SettleInv
<1>1. Init => SettleInv
  BY StoreAssumption, SettleInit
<1>2. SettleInv /\ [Next]_vars => SettleInv'
  <2>1. ASSUME SettleInv, UNCHANGED vars PROVE SettleInv'
    <3>1. Inv'
      BY <2>1, StoreAssumption, InvNext DEF SettleInv
    <3>2. UNCHANGED <<pc, req, hand, stage, queues, dragged, known, doc, file, failed>>
      BY <2>1 DEF vars
    <3>3. Stages'
      BY <2>1, <3>2 DEF SettleInv, Stages, Joined
    <3>4. /\ \A th \in Threads : Writing(th)' <=> Writing(th)
          /\ \A w \in Workers : Adds(w)' <=> Adds(w)
      BY <3>2 DEF Writing, Adds
    <3>5. (Coming' <=> Coming) /\ (Underway' <=> Underway)
      BY <3>2, <3>4 DEF Coming, Underway
    <3>6. (HandsFull => HandsFull') /\ (KnownOnly => KnownOnly')
      BY <3>2, <3>4 DEF HandsFull, KnownOnly
    <3>7. (DocsAgree => DocsAgree') /\ (FileAgrees => FileAgrees')
      BY <3>2, <3>4, <3>5 DEF DocsAgree, FileAgrees
    <3>8. QED
      BY <2>1, <3>1, <3>2, <3>3, <3>6, <3>7 DEF SettleInv, Settling
  <2>2. QED
    BY <2>1, StoreAssumption, SettleStep
<1>3. QED
  BY <1>1, <1>2, PTL DEF Spec

\* When nobody moves, asks or saves, the main thread is in its event loop, no save is
\* to come and, unless the last one failed, the file agrees with the queues, drags apart.
LEMMA Settled ==
  ASSUME StoreAssumption, SettleInv
  PROVE  SettledFile
<1> USE DEF Callers, Threads
<1> SUFFICES ASSUME \A th \in Threads : pc[th] \in {"loop", "idle", "none", "finished"},
                    ~failed,
                    NEW q \in DOMAIN file, NEW t \in Transfers \ dragged, t \in file[q],
                    Holds(queues, t)
             PROVE  q \in DOMAIN queues /\ t \in queues[q]
  BY DEF SettledFile
<1>1. pc[Main] = "loop"
  BY DEF SettleInv, Inv, Placed, MainPlaces, SavePlaces
<1>2. stage = "up"
  BY <1>1 DEF SettleInv, Stages, Joined, SavePlaces
<1>3. ~Coming /\ ~Underway
  BY DEF Coming, Underway, Writing
<1>4. Agrees(file, queues, dragged)
  BY <1>2, <1>3 DEF SettleInv, Settling, FileAgrees
<1>5. QED
  BY <1>4 DEF Agrees

\* A save that overlaps a move may write the transfer into both queues or neither
\* (saveQueue() locks one queue at a time), but moveTransfersToQueue() asks for another
\* save afterwards, so that the file is right once everything is quiet; but for what the
\* desktop has dragged since a save was last asked for, which none is asked for.
THEOREM FileSettles == Spec => []SettledFile
<1>1. SettleInv => SettledFile
  BY StoreAssumption, Settled
<1>2. QED
  BY <1>1, SettleInvariant, PTL

-----------------------------------------------------------------------------
(* Nobody waits in a circle, but for calls of the main thread              *)

\* Where no client adds transfers, only changes of options call the main thread.
CallInv ==
  \A w \in Workers :
    /\ req[w] \in Requests \cup {"none"}
    /\ pc[w] \in {"calling", "served", "answered"} => req[w] = "options"

LEMMA CallStep ==
  ASSUME StoreAssumption, TypeOK, CallInv, "add" \notin Requests, Next
  PROVE  CallInv'
<1> USE DEF Callers, Threads, Goto, callers, CallInv
<1>0. /\ pc \in [Threads -> Places]
      /\ req \in [Callers -> Kinds \cup {"none", "init", "handler", "stop"}]
      /\ Main \notin Workers /\ Savers \cap Workers = {} /\ Saver \in [Callers -> Savers]
      /\ "init" \notin Requests
  BY DEF TypeOK, StoreAssumption, Kinds
<1>1. ASSUME NEW w \in Workers, Ask(w) PROVE CallInv'
  BY <1>0, <1>1 DEF Ask
<1>2. ASSUME NEW w \in Workers, Miss(w) \/ TakeWrite(w) PROVE CallInv'
  BY <1>0, <1>2 DEF Miss, TakeWrite, CreateQueue, DeleteQueue, RefuseWrite, GotoSaving
<1>3. ASSUME NEW w \in Workers, Proceed(w) PROVE CallInv'
  BY <1>0, <1>3 DEF Proceed, CallCreate, CallInit, EndAdd, FailAdd, EndOptions, MoveTake,
    MoveAdd, RemoveTransfer, GotoSaving
<1>4. ASSUME NEW w \in Workers, Serve(w) PROVE CallInv'
  BY <1>0, <1>4 DEF Serve, ServeCreate, ServeInit, ServeOptions, EndServe
<1>5. ASSUME NEW c \in Callers, LockRead(c) PROVE CallInv'
  BY <1>0, <1>5 DEF LockRead
<1>6. ASSUME NEW th \in Savers \cup {Main}, BeginSave(th) \/ ListLock(th) \/ SaveStep(th)
      PROVE  CallInv'
  BY <1>0, <1>6 DEF BeginSave, ListLock, SaveStep, Walk, EndWalk, Write, WriteFails, Rename
<1>7. CASE Handler \/ EndHandler \/ Drag \/ Edit \/ EndEdit \/ DeleteDoomed
  BY <1>0, <1>7 DEF Handler, EndHandler, Drag, Edit, EndEdit, DeleteDoomed, GotoSaving
<1>8. ASSUME NEW b \in Savers, DeleteSaver(b) PROVE CallInv'
  BY <1>0, <1>8 DEF DeleteSaver
<1>9. CASE Quit \/ ShutDown
  BY <1>0, <1>9 DEF Quit, ShutDown, Join, StopQueues, Seal, Drain, Unlist, Unload, Exec
<1>10. QED
  BY <1>1, <1>2, <1>3, <1>4, <1>5, <1>6, <1>7, <1>8, <1>9 DEF Next

\* Each thread waits only for those nearer to the end of a chain: who reads or
\* writes the file waits for nobody; a writer for readers; a reader for writers; for
\* the mutex and for an answer the others wait, and last comes who joins threads.
LEMMA ChainsEnd ==
  ASSUME StoreAssumption, Inv, Stages, CallInv, "add" \notin Requests,
         stage = "up" \/ "options" \notin Requests
  PROVE  NoCircle
<1> SUFFICES ASSUME NEW S \in SUBSET Threads, S # {},
                    \A th \in S : WaitsFor(th) \cap S # {}
             PROVE  FALSE
  BY DEF NoCircle
<1> USE DEF Callers, Threads
<1>0. /\ pc \in [Threads -> Places] /\ Placed
      /\ Main \notin Workers /\ Main \notin Savers /\ Savers \cap Workers = {}
      /\ Main \in Threads
  BY DEF Inv, TypeOK, StoreAssumption
<1>1. pc[Main] # "gone" /\ LocksHeld
  <2>1. CASE pc[Main] = "gone"
    BY <1>0, <2>1 DEF Placed, WaitsFor
  <2>2. QED
    BY <2>1 DEF Inv
<1>2. \A th \in Workers : pc[th] \in {"calling", "served"} =>
                            pc[Main] \in {"loop", "wantRead", "reading", "wantWrite"}
  BY UpAndRunning DEF CallInv
<1>3. \A u \in readers : pc[u] \in {"reading", "moving", "walk"}
  <2>1. readers \subseteq Threads
    BY DEF Inv, TypeOK
  <2>2. QED
    BY <1>1, <2>1 DEF LocksHeld, Reads, CallInv
<1>4. ASSUME NEW th \in S
      PROVE  pc[th] \notin {"loop", "idle", "none", "reading", "answered", "moving", "walk",
                           "write", "rename", "finished", "seal", "down", "exec", "gone"}
  BY <1>4 DEF WaitsFor
<1>5. ASSUME NEW th \in S
      PROVE  pc[th] \notin {"wantWrite", "unload"}
  BY <1>3, <1>4, <1>5 DEF WaitsFor
<1>6. ASSUME NEW th \in S
      PROVE  pc[th] \notin {"wantRead", "wantList"}
  BY <1>5, <1>6 DEF WaitsFor
<1>7. ASSUME NEW th \in S
      PROVE  pc[th] \notin {"wantMutex", "unlist"}
  <2>1. \A u \in saving \cap Threads :
          pc[u] \in {"wantList", "walk", "write", "rename", "unload"}
    BY <1>1 DEF LocksHeld
  <2>2. QED
    BY <1>4, <1>5, <1>6, <1>7, <2>1 DEF WaitsFor
<1>8. ASSUME NEW th \in S
      PROVE  pc[th] \notin {"calling", "served"}
  <2>1. CASE th \in Workers
    BY <1>2, <1>4, <1>5, <1>6, <1>8, <2>1 DEF WaitsFor
  <2>2. CASE th \notin Workers
    BY <1>0, <2>2 DEF Placed, MainPlaces, SaverPlaces, SavePlaces
  <2>3. QED
    BY <2>1, <2>2
<1>9. S \subseteq {Main}
  <2>1. \A th \in S : pc[th] \in {"join", "drain"}
    BY <1>0, <1>4, <1>5, <1>6, <1>7, <1>8 DEF Places
  <2>2. QED
    BY <1>0, <2>1 DEF Placed, WorkerPlaces, SaverPlaces, SavePlaces
<1>10. QED
  BY <1>0, <1>4, <1>5, <1>6, <1>7, <1>8, <1>9 DEF WaitsFor

\* Requests that add transfers apart, and at shutdown those that change options, the
\* locks, the saves, the main thread and the workers never wait in a circle, however
\* many there are.
THEOREM CirclesNeedCalls == Spec => []OnlyCallsCircle
<1> DEFINE Calls == "add" \notin Requests => CallInv
<1>1. Init => Calls
  BY DEF Init, CallInv, Callers, Threads, StoreAssumption
<1>2. SettleInv /\ Calls /\ [Next]_vars => Calls'
  <2>1. SettleInv /\ Calls /\ Next => Calls'
    BY StoreAssumption, CallStep DEF SettleInv, Inv
  <2>2. Calls /\ UNCHANGED vars => Calls'
    BY DEF vars, CallInv
  <2>3. QED
    BY <2>1, <2>2
<1>3. SettleInv /\ Calls => OnlyCallsCircle
  BY StoreAssumption, ChainsEnd DEF SettleInv, OnlyCallsCircle
<1> HIDE DEF Calls
<1>4. QED
  BY <1>1, <1>2, <1>3, SettleInvariant, PTL DEF Spec

-----------------------------------------------------------------------------
(* Every transfer is in one place, and goes where Custody lets it          *)

AtQueue(q, t) == q \in DOMAIN queues /\ t \in queues[q]

\* t is in one queue, or in one caller's hands, or in neither.
Home(t) ==
  /\ \A p, q \in Queues : AtQueue(p, t) /\ AtQueue(q, t) => p = q
  /\ \A q \in Queues : AtQueue(q, t) => t \in known
  /\ \A c, d \in Callers : hand[c] = t /\ hand[d] = t => c = d
  /\ \A c \in Callers : hand[c] = t =>
       t \in known /\ dest[c] \in Queues /\ \A q \in Queues : ~AtQueue(q, t)

\* When a worker holds a transfer, and when it must have found a queue.
InHand(w) ==
  \/ pc[w] = "moving"
  \/ pc[w] = "answered" /\ req[w] = "add"
  \/ pc[w] \in {"calling", "answered"} /\ req[w] = "init"

Aims(w) ==
  \/ InHand(w)
  \/ pc[w] = "reading" /\ req[w] \in {"add", "move"}
  \/ pc[w] = "calling" /\ req[w] = "add"

Handling ==
  /\ hand[Main] = NoTransfer
  /\ \A w \in Workers :
       /\ hand[w] # NoTransfer => InHand(w)
       /\ Aims(w) => dest[w] \in Queues

HomeInv == Inv /\ Handling /\ \A t \in Transfers : Home(t)

\* What a list holds, queue by queue.
LEMMA HeldAt ==
  ASSUME TypeOK
  PROVE  /\ DOMAIN queues \subseteq Queues
         /\ \A t : Holds(queues, t) <=> \E q \in Queues : AtQueue(q, t)
BY ListType DEF TypeOK, Holds, AtQueue

\* A transfer that has one home is where PlaceOf() says.
Read(t) ==
  /\ \A q \in Queues : AtQueue(q, t) => PlaceOf(t) = Kept!In(q)
  /\ \A c \in Callers : hand[c] = t =>
       PlaceOf(t) = IF Moves(c) THEN Kept!Hands(dest[c]) ELSE Kept!New(dest[c])
  /\ (\A q \in Queues : ~AtQueue(q, t)) /\ (\A c \in Callers : hand[c] # t) =>
       PlaceOf(t) = IF t \in known THEN Kept!Removed ELSE Kept!Unborn

LEMMA HomeRead ==
  ASSUME NEW t \in Transfers, TypeOK, Home(t)
  PROVE  Read(t)
<1>0. /\ DOMAIN queues \subseteq Queues
      /\ Holds(queues, t) <=> \E q \in Queues : AtQueue(q, t)
  BY HeldAt
<1>1. ASSUME NEW q \in Queues, AtQueue(q, t)
      PROVE  PlaceOf(t) = Kept!In(q)
  <2>1. q \in DOMAIN queues /\ t \in queues[q]
    BY <1>1 DEF AtQueue
  <2>2. \A p \in DOMAIN queues : t \in queues[p] => p = q
    BY <1>0, <1>1 DEF Home, AtQueue
  <2>3. (CHOOSE p \in DOMAIN queues : t \in queues[p]) = q
    BY <2>1, <2>2
  <2>4. QED
    BY <1>0, <1>1, <2>3 DEF PlaceOf, Kept!In
<1>2. ASSUME NEW c \in Callers, hand[c] = t
      PROVE  PlaceOf(t) = IF Moves(c) THEN Kept!Hands(dest[c]) ELSE Kept!New(dest[c])
  <2>1. ~Holds(queues, t)
    BY <1>0, <1>2 DEF Home
  <2>2. (CHOOSE d \in Callers : hand[d] = t) = c
    BY <1>2 DEF Home
  <2>3. QED
    BY <1>2, <2>1, <2>2 DEF PlaceOf, Kept!Hands, Kept!New
<1>3. ASSUME \A q \in Queues : ~AtQueue(q, t), \A c \in Callers : hand[c] # t
      PROVE  PlaceOf(t) = IF t \in known THEN Kept!Removed ELSE Kept!Unborn
  BY <1>0, <1>3 DEF PlaceOf, Kept!Removed, Kept!Unborn
<1>4. QED
  BY <1>1, <1>2, <1>3 DEF Read

\* So it is after a step.
LEMMA HomeReadNext ==
  ASSUME NEW t \in Transfers
  PROVE  TypeOK' /\ Home(t)' => Read(t)'
<1>1. TypeOK /\ Home(t) => Read(t)
  BY HomeRead
<1>2. QED
  BY <1>1, PTL

-----------------------------------------------------------------------------
(* What a step may do to one transfer                                      *)

GoesOn(t) ==
  /\ Home(t)'
  /\ PlaceOf(t)' = PlaceOf(t) \/ Kept!Goes(PlaceOf(t), PlaceOf(t)')

\* Whoever has a transfer in its hands goes on to do with it what it set out to.
SameWay == \A c \in Callers : hand[c] \in Transfers => (Moves(c)' <=> Moves(c))

Stays(t) ==
  /\ \A q \in Queues : AtQueue(q, t)' <=> AtQueue(q, t)
  /\ \A c \in Callers : /\ hand'[c] = t <=> hand[c] = t
                        /\ hand[c] = t => dest'[c] = dest[c]
  /\ t \in known' <=> t \in known

\* It stays where it is.
LEMMA StayingOn ==
  ASSUME NEW t \in Transfers, TypeOK, TypeOK', SameWay, Home(t), Stays(t)
  PROVE  GoesOn(t)
<1>1. Home(t)'
  BY DEF Home, Stays
<1>2. Read(t) /\ Read(t)'
  BY <1>1, HomeRead, HomeReadNext
<1>3. PlaceOf(t)' = PlaceOf(t)
  <2>1. CASE \E q \in Queues : AtQueue(q, t)
    BY <1>2, <2>1 DEF Read, Stays, Kept!In
  <2>2. CASE \E c \in Callers : hand[c] = t
    BY <1>2, <2>2 DEF Read, Stays, SameWay, Kept!Hands, Kept!New
  <2>3. CASE (\A q \in Queues : ~AtQueue(q, t)) /\ (\A c \in Callers : hand[c] # t)
    BY <1>2, <2>3 DEF Read, Stays, Kept!Removed, Kept!Unborn
  <2>4. QED
    BY <2>1, <2>2, <2>3
<1>4. QED
  BY <1>1, <1>3 DEF GoesOn

Nowhere(t) == (\A q \in Queues : ~AtQueue(q, t)) /\ (\A c \in Callers : hand[c] # t)

\* It leaves a queue, or is given up by the caller who has had it created.
LEMMA Leaving ==
  ASSUME NEW t \in Transfers, TypeOK, TypeOK', Home(t),
         (\E q \in Queues : AtQueue(q, t)) \/ (\E c \in Callers : hand[c] = t /\ ~Moves(c)),
         Nowhere(t)', known \subseteq known'
  PROVE  GoesOn(t)
<1>1. Home(t)' /\ t \in known'
  BY DEF Home, Nowhere
<1>2. Read(t) /\ Read(t)'
  BY <1>1, HomeRead, HomeReadNext
<1>3. PlaceOf(t)' = Kept!Removed
  BY <1>1, <1>2 DEF Read, Nowhere, Kept!Removed
<1>4. \E q \in Queues : PlaceOf(t) \in {Kept!In(q), Kept!New(q)}
  BY <1>2 DEF Read, Home
<1>5. QED
  BY <1>1, <1>3, <1>4 DEF GoesOn, Kept!Goes, Kept!Remove, Kept!GiveUp

\* It joins a queue: another, the one it is in the hands of somebody for, or its first.
LEMMA Joining ==
  ASSUME NEW t \in Transfers, TypeOK, TypeOK', Home(t), NEW q \in Queues,
         \/ \E p \in Queues : AtQueue(p, t)
         \/ \E c \in Callers : hand[c] = t /\ dest[c] = q
         \/ Nowhere(t) /\ t \notin known,
         \A p \in Queues : AtQueue(p, t)' <=> p = q,
         \A c \in Callers : hand'[c] # t, t \in known'
  PROVE  GoesOn(t)
<1>1. Home(t)'
  BY DEF Home
<1>2. Read(t) /\ Read(t)'
  BY <1>1, HomeRead, HomeReadNext
<1>3. PlaceOf(t)' = Kept!In(q)
  BY <1>2 DEF Read, Kept!In
<1>4. \/ \E p \in Queues : PlaceOf(t) = Kept!In(p)
      \/ PlaceOf(t) \in {Kept!New(q), Kept!Hands(q)}
      \/ PlaceOf(t) = Kept!Unborn
  BY <1>2 DEF Read, Nowhere
<1>5. QED
  BY <1>1, <1>3, <1>4 DEF GoesOn, Kept!Goes, Kept!Create, Kept!Move, Kept!Add

\* A caller takes it into its hands, from a queue or as it is created.
LEMMA Taking ==
  ASSUME NEW t \in Transfers, TypeOK, TypeOK', Home(t), NEW c \in Callers,
         \/ (\E p \in Queues : AtQueue(p, t)) /\ Moves(c)'
         \/ Nowhere(t) /\ t \notin known /\ ~Moves(c)',
         \A p \in Queues : ~AtQueue(p, t)',
         \A d \in Callers : hand'[d] = t <=> d = c,
         dest'[c] \in Queues, t \in known'
  PROVE  GoesOn(t)
<1>1. Home(t)'
  BY DEF Home
<1>2. Read(t) /\ Read(t)'
  BY <1>1, HomeRead, HomeReadNext
<1>3. PICK q \in Queues : q = dest'[c]
  OBVIOUS
<1>4. PlaceOf(t)' = IF Moves(c)' THEN Kept!Hands(q) ELSE Kept!New(q)
  BY <1>2, <1>3 DEF Read, Kept!Hands, Kept!New
<1>5. \/ (\E p \in Queues : PlaceOf(t) = Kept!In(p)) /\ Moves(c)'
      \/ PlaceOf(t) = Kept!Unborn /\ ~Moves(c)'
  BY <1>2 DEF Read, Nowhere
<1>6. QED
  BY <1>1, <1>4, <1>5 DEF GoesOn, Kept!Goes, Kept!Create, Kept!Move

-----------------------------------------------------------------------------
(* What the steps do to the queues                                         *)

\* A transfer is taken out of all of them, ...
LEMMA TakenAt ==
  ASSUME NEW x, queues' = Taken(queues, x)
  PROVE  \A q, t : AtQueue(q, t)' <=> AtQueue(q, t) /\ t # x
BY DEF AtQueue, Taken

\* ... an empty one comes, ...
LEMMA NewAt ==
  ASSUME NEW d, d \notin DOMAIN queues, queues' = With(queues, d, {})
  PROVE  \A q, t : AtQueue(q, t)' <=> AtQueue(q, t)
BY DEF AtQueue, With

\* ... one goes, ...
LEMMA WithoutAt ==
  ASSUME NEW d, queues' = Without(queues, d)
  PROVE  \A q, t : AtQueue(q, t)' <=> AtQueue(q, t) /\ q # d
BY DEF AtQueue, Without

\* ... or goes after its transfers have joined another.
LEMMA MergedAt ==
  ASSUME NEW d \in DOMAIN queues, NEW p \in DOMAIN queues \ {d},
         queues' = With(Without(queues, d), p, queues[p] \cup queues[d])
  PROVE  \A q, t : AtQueue(q, t)' <=>
           (AtQueue(q, t) /\ q # d) \/ (q = p /\ AtQueue(d, t))
BY DEF AtQueue, With, Without

-----------------------------------------------------------------------------
\* Where the callers' hands are full, and what they hold a queue for.
LEMMA HandlingStep ==
  ASSUME StoreAssumption, Inv, Handling, Next
  PROVE  Handling'
<1> USE DEF Callers, Threads, Goto, callers, lists, Handling, InHand, Aims
<1>0. /\ pc \in [Threads -> Places]
      /\ req \in [Callers -> Kinds \cup {"none", "init", "handler", "stop"}]
      /\ hand \in [Callers -> Transfers \cup {NoTransfer}]
      /\ dest \in [Callers -> Queues \cup {NoQueue}]
      /\ DOMAIN queues \subseteq Queues
      /\ Main \notin Workers /\ Main \notin Savers /\ Savers \cap Workers = {}
      /\ Saver \in [Callers -> Savers]
  BY HeldAt DEF Inv, TypeOK, StoreAssumption
<1>1. ASSUME NEW w \in Workers, Ask(w) PROVE Handling'
  BY <1>0, <1>1 DEF Ask
<1>2. ASSUME NEW w \in Workers, Miss(w) \/ TakeWrite(w) PROVE Handling'
  BY <1>0, <1>2 DEF Miss, TakeWrite, CreateQueue, DeleteQueue, RefuseWrite, GotoSaving
<1>3. ASSUME NEW w \in Workers, CallCreate(w) \/ CallInit(w) \/ EndOptions(w) PROVE Handling'
  BY <1>0, <1>3 DEF CallCreate, CallInit, EndOptions, GotoSaving
<1>4. ASSUME NEW w \in Workers, EndAdd(w) \/ FailAdd(w) \/ MoveAdd(w) \/ RemoveTransfer(w)
      PROVE  Handling'
  BY <1>0, <1>4 DEF EndAdd, FailAdd, MoveAdd, RemoveTransfer, Release, GotoSaving
<1>5. ASSUME NEW w \in Workers, MoveTake(w) PROVE Handling'
  BY <1>0, <1>5 DEF MoveTake
<1>6. ASSUME NEW w \in Workers, Serve(w) PROVE Handling'
  <2>1. EndServe(w) => req[w] = "options"
    BY DEF EndServe, Inv, LocksHeld
  <2>2. QED
    BY <1>0, <1>6, <2>1 DEF Serve, ServeCreate, ServeInit, ServeOptions, EndServe, Release
<1>7. ASSUME NEW c \in Callers, LockRead(c) PROVE Handling'
  BY <1>0, <1>7 DEF LockRead
<1>8. ASSUME NEW th \in Savers \cup {Main}, BeginSave(th) \/ ListLock(th) \/ SaveStep(th)
      PROVE  Handling'
  BY <1>0, <1>8 DEF BeginSave, ListLock, SaveStep, Walk, EndWalk, Write, WriteFails, Rename
<1>9. CASE Handler \/ EndHandler \/ Drag \/ Edit \/ EndEdit \/ DeleteDoomed
  BY <1>0, <1>9 DEF Handler, EndHandler, Drag, Edit, EndEdit, DeleteDoomed, GotoSaving, Release
<1>10. ASSUME NEW b \in Savers, DeleteSaver(b) PROVE Handling'
  BY <1>0, <1>10 DEF DeleteSaver
<1>11. CASE Quit \/ Join \/ StopQueues \/ Seal \/ Drain \/ Unlist \/ Unload
  BY <1>0, <1>11 DEF Quit, Join, StopQueues, Seal, Drain, Unlist, Unload, Release
<1>12. CASE Exec
  <2>1. Alone
    BY <1>12 DEF Exec, Inv
  <2>2. \A w \in Workers : pc[w] = "idle"
    BY <1>12, <2>1 DEF Exec, Alone, Joined
  <2>3. QED
    BY <1>0, <1>12, <2>2 DEF Exec
<1>13. QED
  BY <1>1, <1>2, <1>3, <1>4, <1>5, <1>6, <1>7, <1>8, <1>9, <1>10, <1>11, <1>12
    DEF Next, Proceed, ShutDown

-----------------------------------------------------------------------------
\* Only who has nothing in its hands sets out to do something else.
LEMMA SameWayStep ==
  ASSUME StoreAssumption, HomeInv, Next
  PROVE  SameWay
<1> SUFFICES ASSUME NEW c \in Callers, hand[c] \in Transfers
             PROVE  Moves(c)' <=> Moves(c)
  BY DEF SameWay
<1> USE DEF callers, Moves
<1>1. /\ c \in Workers /\ c # Main /\ pc[c] # "idle"
      /\ req \in [Callers -> Kinds \cup {"none", "init", "handler", "stop"}]
      /\ Main \in Callers /\ Workers \subseteq Callers
  <2>1. hand[Main] \notin Transfers /\ c \in Workers \cup {Main}
    BY DEF HomeInv, Handling, StoreAssumption, Callers
  <2>2. c \in Workers /\ c # Main
    BY <2>1
  <2>3. InHand(c)
    BY <2>2 DEF HomeInv, Handling, StoreAssumption
  <2>4. QED
    BY <2>2, <2>3 DEF InHand, HomeInv, Inv, TypeOK, Callers
<1>2. ASSUME NEW w \in Workers, Ask(w) PROVE Moves(c)' <=> Moves(c)
  BY <1>1, <1>2 DEF Ask
<1>3. ASSUME NEW w \in Workers, Miss(w) \/ TakeWrite(w) PROVE Moves(c)' <=> Moves(c)
  BY <1>3 DEF Miss, TakeWrite, CreateQueue, DeleteQueue, RefuseWrite
<1>4. ASSUME NEW w \in Workers, CallInit(w) PROVE Moves(c)' <=> Moves(c)
  BY <1>1, <1>4 DEF CallInit
<1>5. ASSUME NEW w \in Workers,
             \/ CallCreate(w) \/ EndAdd(w) \/ FailAdd(w) \/ EndOptions(w)
             \/ MoveTake(w) \/ MoveAdd(w) \/ RemoveTransfer(w)
      PROVE  Moves(c)' <=> Moves(c)
  BY <1>5 DEF CallCreate, EndAdd, FailAdd, EndOptions, MoveTake, MoveAdd, RemoveTransfer
<1>6. ASSUME NEW w \in Workers, Serve(w) PROVE Moves(c)' <=> Moves(c)
  BY <1>1, <1>6 DEF Serve, ServeCreate, ServeInit, ServeOptions, EndServe
<1>7. ASSUME NEW b \in Callers, LockRead(b) PROVE Moves(c)' <=> Moves(c)
  BY <1>7 DEF LockRead
<1>8. ASSUME NEW th \in Savers \cup {Main}, BeginSave(th) \/ ListLock(th) \/ SaveStep(th)
      PROVE  Moves(c)' <=> Moves(c)
  BY <1>8 DEF BeginSave, ListLock, SaveStep, Walk, EndWalk, Write, WriteFails, Rename
<1>9. CASE Handler \/ EndHandler \/ Drag \/ Edit \/ EndEdit \/ DeleteDoomed
  BY <1>1, <1>9 DEF Handler, EndHandler, Drag, Edit, EndEdit, DeleteDoomed
<1>10. ASSUME NEW b \in Savers, DeleteSaver(b) PROVE Moves(c)' <=> Moves(c)
  BY <1>10 DEF DeleteSaver
<1>11. CASE Quit \/ ShutDown
  BY <1>1, <1>11 DEF Quit, ShutDown, Join, StopQueues, Seal, Drain, Unlist, Unload, Exec
<1>12. QED
  BY <1>2, <1>3, <1>4, <1>5, <1>6, <1>7, <1>8, <1>9, <1>10, <1>11 DEF Next, Proceed

\* A step that leaves the queues and the hands alone.
Untouched ==
  /\ UNCHANGED <<queues, known>>
  /\ \A c \in Callers : hand'[c] = hand[c] /\ (hand[c] # NoTransfer => dest'[c] = dest[c])

\* Every transfer stays where it is then.
LEMMA UntouchedStep ==
  ASSUME StoreAssumption, HomeInv, TypeOK', SameWay, Untouched
  PROVE  \A t \in Transfers : GoesOn(t)
<1> TAKE t \in Transfers
<1>1. TypeOK /\ Home(t) /\ t # NoTransfer
  BY DEF HomeInv, Inv, StoreAssumption
<1>2. Stays(t)
  BY <1>1 DEF Untouched, Stays, AtQueue
<1>3. QED
  BY <1>1, <1>2, StayingOn

\* What the next lemmas need of the invariants.
LEMMA HomeFacts ==
  ASSUME StoreAssumption, HomeInv
  PROVE  /\ TypeOK /\ DOMAIN queues \subseteq Queues /\ known \subseteq Transfers
         /\ hand \in [Callers -> Transfers \cup {NoTransfer}]
         /\ dest \in [Callers -> Queues \cup {NoQueue}]
         /\ Main \in Callers /\ Workers \subseteq Callers /\ Main \notin Workers
         /\ hand[Main] = NoTransfer /\ NoTransfer \notin Transfers
         /\ \A t \in Transfers : Home(t)
         /\ \A c \in Callers : dest[c] # NoQueue => dest[c] \in DOMAIN queues
         /\ \A w \in Workers : hand[w] # NoTransfer => InHand(w)
         /\ \A w \in Workers : Aims(w) => dest[w] \in DOMAIN queues /\ dest[w] \in Queues
<1>1. TypeOK /\ QueuesStay /\ Handling
  BY DEF HomeInv, Inv
<1>2. NoQueue \notin Queues
  BY DEF StoreAssumption
<1>3. DOMAIN queues \subseteq Queues
  BY <1>1, HeldAt
<1>4. QED
  BY <1>1, <1>2, <1>3 DEF HomeInv, TypeOK, QueuesStay, Handling, Callers, StoreAssumption

\* Most steps are of that kind.
LEMMA QuietCustody ==
  ASSUME StoreAssumption, HomeInv, TypeOK', SameWay,
         \/ \E w \in Workers : \/ Ask(w) \/ Miss(w) \/ CallCreate(w) \/ CallInit(w)
                              \/ EndOptions(w) \/ RefuseWrite(w) \/ ServeInit(w)
                              \/ ServeOptions(w) \/ EndServe(w)
         \/ \E c \in Callers : LockRead(c)
         \/ \E th \in Savers \cup {Main} : BeginSave(th) \/ ListLock(th) \/ SaveStep(th)
         \/ Handler \/ Edit \/ DeleteDoomed
         \/ \E b \in Savers : DeleteSaver(b)
         \/ Quit \/ Join \/ StopQueues \/ Seal \/ Drain \/ Unlist \/ Exec
  PROVE  \A t \in Transfers : GoesOn(t)
<1> USE DEF callers, lists, Untouched
<1>0. /\ hand \in [Callers -> Transfers \cup {NoTransfer}]
      /\ dest \in [Callers -> Queues \cup {NoQueue}]
      /\ hand[Main] = NoTransfer
  BY HomeFacts
<1>1. ASSUME NEW w \in Workers,
             \/ Ask(w) \/ Miss(w) \/ CallCreate(w) \/ CallInit(w) \/ EndOptions(w)
             \/ RefuseWrite(w) \/ ServeInit(w) \/ ServeOptions(w)
      PROVE  Untouched
  BY <1>1 DEF Ask, Miss, CallCreate, CallInit, EndOptions, RefuseWrite, ServeInit, ServeOptions
<1>2. ASSUME UNCHANGED <<queues, known>>, Release(Main)
      PROVE  Untouched
  BY <1>0, <1>2 DEF Release
<1>3. ASSUME NEW w \in Workers, EndServe(w)
      PROVE  Untouched
  BY <1>2, <1>3 DEF EndServe
<1>4. ASSUME NEW c \in Callers, LockRead(c)
      PROVE  Untouched
  <2>1. hand[c] = NoTransfer
    BY <1>0, <1>4, HomeFacts DEF LockRead, InHand, Callers
  <2>2. \A d \in Callers : d # c => dest'[d] = dest[d]
    BY <1>0, <1>4 DEF LockRead
  <2>3. QED
    BY <1>4, <2>1, <2>2 DEF LockRead
<1>5. ASSUME NEW th \in Savers \cup {Main}, BeginSave(th) \/ ListLock(th) \/ SaveStep(th)
      PROVE  Untouched
  BY <1>5 DEF BeginSave, ListLock, SaveStep, Walk, EndWalk, Write, WriteFails, Rename
<1>6. ASSUME \/ Handler \/ Edit \/ DeleteDoomed \/ (\E b \in Savers : DeleteSaver(b))
             \/ Quit \/ Join \/ Seal \/ Drain \/ Unlist \/ Exec
      PROVE  Untouched
  BY <1>6 DEF Handler, Edit, DeleteDoomed, DeleteSaver, Quit, Join, Seal, Drain, Unlist, Exec
<1>7. StopQueues => Untouched
  BY <1>2 DEF StopQueues
<1> HIDE DEF Untouched
<1>8. Untouched
  BY <1>1, <1>3, <1>4, <1>5, <1>6, <1>7
<1>9. QED
  BY <1>8, UntouchedStep

\* Release() empties the caller's hands and leaves the others' alone.
LEMMA Released ==
  ASSUME StoreAssumption, HomeInv, NEW c \in Callers, Release(c)
  PROVE  /\ hand'[c] = NoTransfer
         /\ \A d \in Callers : d # c => hand'[d] = hand[d] /\ dest'[d] = dest[d]
BY HomeFacts DEF Release

\* A transfer that nobody takes, and that joins and leaves no queue.
LEMMA Bystander ==
  ASSUME StoreAssumption, HomeInv, TypeOK', SameWay, NEW t \in Transfers,
         \A q \in Queues : AtQueue(q, t)' <=> AtQueue(q, t),
         \A c \in Callers : \/ hand'[c] = hand[c] /\ dest'[c] = dest[c]
                            \/ hand[c] # t /\ hand'[c] # t,
         t \in known' <=> t \in known
  PROVE  GoesOn(t)
<1>1. Stays(t)
  BY DEF Stays
<1>2. TypeOK /\ Home(t)
  BY HomeFacts
<1>3. QED
  BY <1>1, <1>2, StayingOn

-----------------------------------------------------------------------------
\* EndAdd and FailAdd: what init() worked on joins the queue, or is given up.
LEMMA AddCustody ==
  ASSUME StoreAssumption, HomeInv, TypeOK', SameWay, NEW w \in Workers, EndAdd(w) \/ FailAdd(w)
  PROVE  \A t \in Transfers : GoesOn(t)
<1> PICK c \in Callers : c = w
  BY HomeFacts
<1> PICK d : d = dest[c]
  OBVIOUS
<1> PICK h : h = hand[c]
  OBVIOUS
<1>1. Release(c) /\ UNCHANGED known /\ TypeOK /\ \A t \in Transfers : Home(t)
  BY HomeFacts DEF EndAdd, FailAdd, lists
<1>2. /\ hand'[c] = NoTransfer
      /\ \A b \in Callers : b # c => hand'[b] = hand[b] /\ dest'[b] = dest[b]
  BY <1>1, Released
<1>3. d \in DOMAIN queues /\ d \in Queues
  BY HomeFacts DEF EndAdd, FailAdd, Aims, InHand
<1> TAKE t \in Transfers
<1>4. t # NoTransfer
  BY HomeFacts
<1>5. CASE EndAdd(w)
  <2> PICK S : S = {h}
    OBVIOUS
  <2>1. /\ DOMAIN queues' = DOMAIN queues
        /\ \A p \in DOMAIN queues :
             queues'[p] = IF p = d THEN queues[p] \cup S ELSE queues[p]
    BY <1>5, <1>1, ListType DEF EndAdd, TypeOK
  <2>2. \A q : AtQueue(q, t)' <=> AtQueue(q, t) \/ (q = d /\ t \in S)
    BY <1>3, <2>1 DEF AtQueue
  <2>3. CASE t = h
    <3>1. t \in known /\ \A q \in Queues : ~AtQueue(q, t)
      BY <1>1, <2>3 DEF Home
    <3>2. \A b \in Callers : b # c => hand[b] # t
      BY <1>1, <2>3 DEF Home
    <3>3. \A b \in Callers : hand'[b] # t
      BY <1>2, <1>4, <3>2
    <3>4. \A p \in Queues : AtQueue(p, t)' <=> p = d
      BY <2>2, <2>3, <3>1
    <3>5. t \in known'
      BY <1>1, <3>1
    <3>6. QED
      BY <1>1, <1>3, <2>3, <3>3, <3>4, <3>5, Joining
  <2>4. CASE t # h
    BY <1>1, <1>2, <1>4, <2>2, <2>4, Bystander
  <2>5. QED
    BY <2>3, <2>4
<1>6. CASE FailAdd(w)
  <2>1. queues' = queues
    BY <1>6 DEF FailAdd, lists
  <2>2. \A q : AtQueue(q, t)' <=> AtQueue(q, t)
    BY <2>1 DEF AtQueue
  <2>3. CASE t = h
    <3>1. \A q \in Queues : ~AtQueue(q, t)
      BY <1>1, <2>3 DEF Home
    <3>2. \A b \in Callers : b # c => hand[b] # t
      BY <1>1, <2>3 DEF Home
    <3>3. Nowhere(t)'
      BY <1>2, <1>4, <2>2, <3>1, <3>2 DEF Nowhere
    <3>4. hand[c] = t /\ ~Moves(c)
      BY <1>6, <2>3 DEF FailAdd, Moves
    <3>5. QED
      BY <1>1, <3>3, <3>4, Leaving
  <2>4. CASE t # h
    BY <1>1, <1>2, <1>4, <2>2, <2>4, Bystander
  <2>5. QED
    BY <2>3, <2>4
<1>7. QED
  BY <1>5, <1>6

\* MoveTake and MoveAdd: out of its queue into the worker's hands, and on.
LEMMA MoveCustody ==
  ASSUME StoreAssumption, HomeInv, TypeOK', SameWay, NEW w \in Workers, MoveTake(w) \/ MoveAdd(w)
  PROVE  \A t \in Transfers : GoesOn(t)
<1> PICK c \in Callers : c = w
  BY HomeFacts
<1> PICK d : d = dest[c]
  OBVIOUS
<1> PICK h : h = hand[c]
  OBVIOUS
<1>1. UNCHANGED known /\ TypeOK /\ \A t \in Transfers : Home(t)
  BY HomeFacts DEF MoveTake, MoveAdd
<1>2. d \in DOMAIN queues /\ d \in Queues
  BY HomeFacts DEF MoveTake, MoveAdd, Aims, InHand
<1> TAKE t \in Transfers
<1>3. t # NoTransfer
  BY HomeFacts
<1>4. CASE MoveTake(w)
  <2>1. PICK x \in Transfers \cup {NoTransfer} :
          /\ x = NoTransfer \/ Holds(queues, x)
          /\ queues' = Taken(queues, x)
          /\ hand' = [hand EXCEPT ![c] = x]
    BY <1>4 DEF MoveTake
  <2>2. /\ hand'[c] = x /\ dest' = dest
        /\ \A b \in Callers : b # c => hand'[b] = hand[b]
    BY <1>4, <2>1, HomeFacts DEF MoveTake
  <2>3. h = NoTransfer
    BY <1>4, HomeFacts DEF MoveTake, InHand
  <2>4. \A q : AtQueue(q, t)' <=> AtQueue(q, t) /\ t # x
    BY <2>1, TakenAt
  <2>5. CASE t = x
    <3>1. \E p \in Queues : AtQueue(p, t)
      BY <1>1, <1>3, <2>1, <2>5, HeldAt
    <3>2. t \in known /\ \A b \in Callers : hand[b] # t
      BY <1>1, <3>1 DEF Home
    <3>3. \A b \in Callers : hand'[b] = t <=> b = c
      BY <2>2, <2>5, <3>2
    <3>4. /\ \A p \in Queues : ~AtQueue(p, t)'
          /\ dest'[c] \in Queues /\ t \in known'
      BY <1>1, <1>2, <2>2, <2>4, <2>5, <3>2
    <3>5. Moves(c)'
      BY <1>4 DEF MoveTake, Moves
    <3>6. QED
      BY <1>1, <3>1, <3>3, <3>4, <3>5, Taking
  <2>6. CASE t # x
    BY <1>1, <1>3, <2>2, <2>3, <2>4, <2>6, Bystander
  <2>7. QED
    BY <2>5, <2>6
<1>5. CASE MoveAdd(w)
  <2> PICK S : S = {h} \ {NoTransfer}
    OBVIOUS
  <2>1. /\ DOMAIN queues' = DOMAIN queues
        /\ \A p \in DOMAIN queues :
             queues'[p] = IF p = d THEN queues[p] \cup S ELSE queues[p]
    BY <1>5, <1>1, ListType DEF MoveAdd, TypeOK
  <2>2. /\ hand'[c] = NoTransfer
        /\ \A b \in Callers : b # c => hand'[b] = hand[b] /\ dest'[b] = dest[b]
    BY <1>5, Released DEF MoveAdd
  <2>3. \A q : AtQueue(q, t)' <=> AtQueue(q, t) \/ (q = d /\ t \in S)
    BY <1>2, <2>1 DEF AtQueue
  <2>4. CASE t = h
    <3>1. t \in known /\ \A q \in Queues : ~AtQueue(q, t)
      BY <1>1, <2>4 DEF Home
    <3>2. \A b \in Callers : b # c => hand[b] # t
      BY <1>1, <2>4 DEF Home
    <3>3. \A b \in Callers : hand'[b] # t
      BY <1>3, <2>2, <3>2
    <3>4. \A p \in Queues : AtQueue(p, t)' <=> p = d
      BY <1>3, <2>3, <2>4, <3>1
    <3>5. t \in known'
      BY <1>1, <3>1
    <3>6. QED
      BY <1>1, <1>2, <2>4, <3>3, <3>4, <3>5, Joining
  <2>5. CASE t # h
    BY <1>1, <1>3, <2>2, <2>3, <2>5, Bystander
  <2>6. QED
    BY <2>4, <2>5
<1>6. QED
  BY <1>4, <1>5

\* One transfer, if it is in a queue, is taken out of it for good.
LEMMA TakenForGood ==
  ASSUME StoreAssumption, HomeInv, TypeOK', SameWay, NEW x, queues' = Taken(queues, x),
         UNCHANGED known,
         \A c \in Callers : \/ hand'[c] = hand[c] /\ dest'[c] = dest[c]
                            \/ hand[c] = NoTransfer /\ hand'[c] = NoTransfer
  PROVE  \A t \in Transfers : GoesOn(t)
<1> TAKE t \in Transfers
<1>1. TypeOK /\ Home(t) /\ t # NoTransfer
  BY HomeFacts
<1>2. \A q : AtQueue(q, t)' <=> AtQueue(q, t) /\ t # x
  BY TakenAt
<1>3. CASE t = x /\ \E q \in Queues : AtQueue(q, t)
  <2>1. \A c \in Callers : hand[c] # t
    BY <1>1, <1>3 DEF Home
  <2>2. Nowhere(t)'
    BY <1>1, <1>2, <1>3, <2>1 DEF Nowhere
  <2>3. QED
    BY <1>1, <1>3, <2>2, Leaving
<1>4. CASE t # x \/ \A q \in Queues : ~AtQueue(q, t)
  BY <1>1, <1>2, <1>4, Bystander
<1>5. QED
  BY <1>3, <1>4

\* DELETE /transfers.
LEMMA RemoveCustody ==
  ASSUME StoreAssumption, HomeInv, TypeOK', SameWay, NEW w \in Workers, RemoveTransfer(w)
  PROVE  \A t \in Transfers : GoesOn(t)
<1>1. w \in Callers /\ hand[w] = NoTransfer
  BY HomeFacts DEF RemoveTransfer, InHand
<1>2. PICK x : queues' = Taken(queues, x)
  BY DEF RemoveTransfer
<1>3. /\ hand'[w] = NoTransfer
      /\ \A d \in Callers : d # w => hand'[d] = hand[d] /\ dest'[d] = dest[d]
  BY <1>1, Released DEF RemoveTransfer
<1>4. QED
  BY <1>1, <1>2, <1>3, TakenForGood DEF RemoveTransfer

\* The callers' hands stay as they are.
SameHands == \A c \in Callers : hand'[c] = hand[c] /\ dest'[c] = dest[c]

\* A queue comes without a transfer.
LEMMA NewQueueCustody ==
  ASSUME StoreAssumption, HomeInv, TypeOK', SameWay, SameHands, UNCHANGED known,
         NEW d, d \notin DOMAIN queues, queues' = With(queues, d, {})
  PROVE  \A t \in Transfers : GoesOn(t)
<1> TAKE t \in Transfers
<1>1. \A q : AtQueue(q, t)' <=> AtQueue(q, t)
  BY NewAt
<1>2. QED
  BY <1>1, Bystander DEF SameHands

\* A queue goes with all that is in it ...
LEMMA GoneQueueCustody ==
  ASSUME StoreAssumption, HomeInv, TypeOK', SameWay, SameHands, UNCHANGED known,
         NEW d \in DOMAIN queues, queues' = Without(queues, d)
  PROVE  \A t \in Transfers : GoesOn(t)
<1> TAKE t \in Transfers
<1>1. TypeOK /\ Home(t) /\ d \in Queues
  BY HomeFacts
<1>2. \A q : AtQueue(q, t)' <=> AtQueue(q, t) /\ q # d
  BY WithoutAt
<1>3. CASE AtQueue(d, t)
  <2>1. /\ \A q \in Queues : AtQueue(q, t) => q = d
        /\ \A c \in Callers : hand[c] # t
    BY <1>1, <1>3 DEF Home
  <2>2. Nowhere(t)'
    BY <1>2, <2>1 DEF Nowhere, SameHands
  <2>3. QED
    BY <1>1, <1>3, <2>2, Leaving
<1>4. CASE ~AtQueue(d, t)
  BY <1>2, <1>4, Bystander DEF SameHands
<1>5. QED
  BY <1>3, <1>4

\* ... or hands it to another.
LEMMA MergedQueueCustody ==
  ASSUME StoreAssumption, HomeInv, TypeOK', SameWay, SameHands, UNCHANGED known,
         NEW d \in DOMAIN queues, NEW p \in DOMAIN queues \ {d},
         queues' = With(Without(queues, d), p, queues[p] \cup queues[d])
  PROVE  \A t \in Transfers : GoesOn(t)
<1> TAKE t \in Transfers
<1>1. TypeOK /\ Home(t) /\ d \in Queues /\ p \in Queues
  BY HomeFacts
<1>2. \A q : AtQueue(q, t)' <=> (AtQueue(q, t) /\ q # d) \/ (q = p /\ AtQueue(d, t))
  BY MergedAt
<1>3. CASE AtQueue(d, t)
  <2>1. /\ \A q \in Queues : AtQueue(q, t) => q = d
        /\ \A c \in Callers : hand[c] # t
        /\ t \in known
    BY <1>1, <1>3 DEF Home
  <2>2. /\ \A q \in Queues : AtQueue(q, t)' <=> q = p
        /\ \A c \in Callers : hand'[c] # t
        /\ t \in known'
    BY <1>2, <1>3, <2>1 DEF SameHands
  <2>3. QED
    BY <1>1, <1>3, <2>2, Joining
<1>4. CASE ~AtQueue(d, t)
  BY <1>2, <1>4, Bystander DEF SameHands
<1>5. QED
  BY <1>3, <1>4

\* What is done to the list of queues under the write lock.
LEMMA WriteCustody ==
  ASSUME StoreAssumption, HomeInv, TypeOK', SameWay,
         EndEdit \/ \E w \in Workers : CreateQueue(w) \/ DeleteQueue(w)
  PROVE  \A t \in Transfers : GoesOn(t)
<1>1. SameHands /\ UNCHANGED known
  BY DEF EndEdit, CreateQueue, DeleteQueue, callers, SameHands
<1>2. \/ queues' = queues
      \/ \E q \in Unborn : queues' = With(queues, q, {})
      \/ \E q \in DOMAIN queues :
           \/ queues' = Without(queues, q)
           \/ \E p \in DOMAIN queues \ {q} :
                queues' = With(Without(queues, q), p, queues[p] \cup queues[q])
  BY DEF EndEdit, CreateQueue, DeleteQueue
<1>3. CASE queues' = queues
  BY <1>1, <1>3, UntouchedStep DEF Untouched, SameHands
<1>4. ASSUME NEW q \in Unborn, queues' = With(queues, q, {})
      PROVE  \A t \in Transfers : GoesOn(t)
  BY <1>1, <1>4, NewQueueCustody DEF Unborn
<1>5. ASSUME NEW q \in DOMAIN queues, queues' = Without(queues, q)
      PROVE  \A t \in Transfers : GoesOn(t)
  BY <1>1, <1>5, GoneQueueCustody
<1>6. ASSUME NEW q \in DOMAIN queues, NEW p \in DOMAIN queues \ {q},
             queues' = With(Without(queues, q), p, queues[p] \cup queues[q])
      PROVE  \A t \in Transfers : GoesOn(t)
  BY <1>1, <1>6, MergedQueueCustody
<1>7. QED
  BY <1>2, <1>3, <1>4, <1>5, <1>6

\* A handler may remove a transfer or add one; its own hands are empty.
LEMMA HandlerCustody ==
  ASSUME StoreAssumption, HomeInv, TypeOK', SameWay, EndHandler
  PROVE  \A t \in Transfers : GoesOn(t)
<1>1. /\ hand'[Main] = NoTransfer /\ hand[Main] = NoTransfer
      /\ \A d \in Callers : d # Main => hand'[d] = hand[d] /\ dest'[d] = dest[d]
  BY HomeFacts, Released DEF EndHandler
<1>2. CASE UNCHANGED <<queues, known>>
  BY <1>1, <1>2, UntouchedStep DEF Untouched
<1>3. CASE (\E t \in Transfers : Holds(queues, t) /\ queues' = Taken(queues, t)) /\ UNCHANGED known
  BY <1>1, <1>3, TakenForGood
<1>4. ASSUME NEW x \in Transfers \ known, NEW q \in DOMAIN queues,
             queues' = [queues EXCEPT ![q] = @ \cup {x}], known' = known \cup {x}
      PROVE  \A t \in Transfers : GoesOn(t)
  <2> TAKE t \in Transfers
  <2>1. TypeOK /\ Home(t) /\ t # NoTransfer /\ q \in Queues
    BY HomeFacts
  <2>2. /\ DOMAIN queues' = DOMAIN queues
        /\ \A p \in DOMAIN queues : queues'[p] = IF p = q THEN queues[p] \cup {x} ELSE queues[p]
    BY <1>4, <2>1, ListType DEF TypeOK
  <2>3. \A p : AtQueue(p, t)' <=> AtQueue(p, t) \/ (p = q /\ t = x)
    BY <2>2 DEF AtQueue
  <2>4. CASE t = x
    <3>1. Nowhere(t) /\ t \notin known
      BY <1>4, <2>1, <2>4 DEF Home, Nowhere
    <3>2. \A p \in Queues : AtQueue(p, t)' <=> p = q
      BY <2>3, <2>4, <3>1 DEF Nowhere
    <3>3. (\A c \in Callers : hand'[c] # t) /\ t \in known'
      BY <1>1, <1>4, <2>1, <2>4, <3>1 DEF Nowhere
    <3>4. QED
      BY <2>1, <3>1, <3>2, <3>3, Joining
  <2>5. CASE t # x
    <3>1. /\ \A p \in Queues : AtQueue(p, t)' <=> AtQueue(p, t)
          /\ t \in known' <=> t \in known
      BY <1>4, <2>3, <2>5
    <3>2. \A c \in Callers : \/ hand'[c] = hand[c] /\ dest'[c] = dest[c]
                             \/ hand[c] # t /\ hand'[c] # t
      BY <1>1, <2>1
    <3>3. QED
      BY <3>1, <3>2, Bystander
  <2>6. QED
    BY <2>4, <2>5
<1>5. QED
  BY <1>2, <1>3, <1>4 DEF EndHandler

\* A drag takes transfers from one queue to another; no hands have any of them.
LEMMA DragCustody ==
  ASSUME StoreAssumption, HomeInv, TypeOK', SameWay, Drag
  PROVE  \A t \in Transfers : GoesOn(t)
<1> TAKE t \in Transfers
<1>1. /\ hand'[Main] = NoTransfer /\ hand[Main] = NoTransfer
      /\ \A d \in Callers : d # Main => hand'[d] = hand[d] /\ dest'[d] = dest[d]
      /\ UNCHANGED known
  BY HomeFacts, Released DEF Drag
<1>2. TypeOK /\ Home(t) /\ t # NoTransfer /\ DOMAIN queues \subseteq Queues
  BY HomeFacts
<1>3. PICK a \in DOMAIN queues, b \in DOMAIN queues :
        /\ DOMAIN queues' = DOMAIN queues
        /\ \E S \in SUBSET queues[a] :
             /\ a # b
             /\ queues'[a] = queues[a] \ S /\ queues'[b] = queues[b] \cup S
             /\ \A p \in DOMAIN queues \ {a, b} : queues'[p] = queues[p]
  BY <1>2, DragType DEF TypeOK
<1>4. PICK S \in SUBSET queues[a] :
        /\ a # b
        /\ queues'[a] = queues[a] \ S /\ queues'[b] = queues[b] \cup S
        /\ \A p \in DOMAIN queues \ {a, b} : queues'[p] = queues[p]
  BY <1>3
<1>5. \A q : AtQueue(q, t)' <=>
        \/ AtQueue(q, t) /\ ~ (q = a /\ t \in S)
        \/ q = b /\ t \in S
  BY <1>3, <1>4 DEF AtQueue
<1>6. CASE t \in S
  <2>1. AtQueue(a, t) /\ a \in Queues /\ b \in Queues
    BY <1>2, <1>6 DEF AtQueue
  <2>2. /\ \A q \in Queues : AtQueue(q, t) => q = a
        /\ \A c \in Callers : hand[c] # t
        /\ t \in known
    BY <1>2, <2>1 DEF Home
  <2>3. /\ \A q \in Queues : AtQueue(q, t)' <=> q = b
        /\ \A c \in Callers : hand'[c] # t
        /\ t \in known'
    BY <1>1, <1>2, <1>5, <1>6, <2>2
  <2>4. QED
    BY <1>2, <2>1, <2>3, Joining
<1>7. CASE t \notin S
  <2>1. \A q \in Queues : AtQueue(q, t)' <=> AtQueue(q, t)
    BY <1>5, <1>7
  <2>2. \A c \in Callers : \/ hand'[c] = hand[c] /\ dest'[c] = dest[c]
                           \/ hand[c] # t /\ hand'[c] # t
    BY <1>1, <1>2
  <2>3. QED
    BY <1>1, <2>1, <2>2, Bystander
<1>8. QED
  BY <1>6, <1>7

\* The main thread makes the worker a transfer.
LEMMA CreateCustody ==
  ASSUME StoreAssumption, HomeInv, TypeOK', SameWay, NEW w \in Workers, ServeCreate(w)
  PROVE  \A t \in Transfers : GoesOn(t)
<1> PICK c \in Callers : c = w
  BY HomeFacts
<1>1. UNCHANGED <<queues, dest>> /\ hand[c] = NoTransfer /\ dest[c] \in Queues
  BY HomeFacts DEF ServeCreate, InHand, Aims
<1>2. CASE UNCHANGED <<hand, known>>
  BY <1>1, <1>2, UntouchedStep DEF Untouched
<1>3. ASSUME NEW x \in Transfers \ known, hand' = [hand EXCEPT ![c] = x], known' = known \cup {x}
      PROVE  \A t \in Transfers : GoesOn(t)
  <2> TAKE t \in Transfers
  <2>1. TypeOK /\ Home(t) /\ t # NoTransfer
    BY HomeFacts
  <2>2. hand'[c] = x /\ \A d \in Callers : d # c => hand'[d] = hand[d]
    BY <1>3, HomeFacts
  <2>3. \A q : AtQueue(q, t)' <=> AtQueue(q, t)
    BY <1>1 DEF AtQueue
  <2>4. CASE t = x
    <3>1. Nowhere(t) /\ t \notin known
      BY <1>3, <2>1, <2>4 DEF Home, Nowhere
    <3>2. /\ \A q \in Queues : ~AtQueue(q, t)'
          /\ \A d \in Callers : hand'[d] = t <=> d = c
          /\ dest'[c] \in Queues /\ t \in known'
      BY <1>1, <1>3, <2>2, <2>3, <2>4, <3>1 DEF Nowhere
    <3>3. ~Moves(c)'
      BY DEF ServeCreate, Moves
    <3>4. QED
      BY <2>1, <3>1, <3>2, <3>3, Taking
  <2>5. CASE t # x
    <3>1. t \in known' <=> t \in known
      BY <1>3, <2>5
    <3>2. \A d \in Callers : \/ hand'[d] = hand[d] /\ dest'[d] = dest[d]
                             \/ hand[d] # t /\ hand'[d] # t
      BY <1>1, <2>1, <2>2, <2>5
    <3>3. QED
      BY <2>3, <3>1, <3>2, Bystander
  <2>6. QED
    BY <2>4, <2>5
<1>4. QED
  BY <1>2, <1>3 DEF ServeCreate

\* unloadQueues() deletes every queue with all that is in it; no hands are full then.
LEMMA UnloadCustody ==
  ASSUME StoreAssumption, HomeInv, TypeOK', SameWay, Unload
  PROVE  \A t \in Transfers : GoesOn(t)
<1> TAKE t \in Transfers
<1>1. TypeOK /\ Home(t) /\ t # NoTransfer
  BY HomeFacts
<1>2. SameHands /\ UNCHANGED known /\ queues' = NoList
  BY DEF Unload, SameHands, callers
<1>3. \A c \in Callers : hand[c] = NoTransfer
  <2>1. \A w \in Workers : pc[w] = "idle"
    BY DEF HomeInv, Inv, Alone, Joined, Unload
  <2>2. QED
    BY <2>1, HomeFacts DEF InHand, Callers
<1>4. Nowhere(t)'
  BY <1>1, <1>2, <1>3 DEF Nowhere, SameHands, AtQueue, NoList
<1>5. CASE \E q \in Queues : AtQueue(q, t)
  BY <1>1, <1>2, <1>4, <1>5, Leaving
<1>6. CASE \A q \in Queues : ~AtQueue(q, t)
  <2>1. \A q \in Queues : AtQueue(q, t)' <=> AtQueue(q, t)
    BY <1>4, <1>6 DEF Nowhere
  <2>2. QED
    BY <1>2, <2>1, Bystander DEF SameHands
<1>7. QED
  BY <1>5, <1>6

-----------------------------------------------------------------------------
\* Every step takes each transfer where Custody lets it go.
LEMMA CustodyStep ==
  ASSUME StoreAssumption, HomeInv, TypeOK', SameWay, Next
  PROVE  \A t \in Transfers : GoesOn(t)
<1>1. ASSUME NEW w \in Workers, Proceed(w)
      PROVE  \A t \in Transfers : GoesOn(t)
  BY <1>1, QuietCustody, AddCustody, MoveCustody, RemoveCustody, Zenon DEF Proceed
<1>2. ASSUME NEW w \in Workers, Ask(w) \/ Miss(w) \/ TakeWrite(w) \/ Serve(w)
      PROVE  \A t \in Transfers : GoesOn(t)
  BY <1>2, QuietCustody, WriteCustody, CreateCustody, Zenon DEF TakeWrite, Serve
<1>3. CASE ShutDown
  BY <1>3, QuietCustody, UnloadCustody, Zenon DEF ShutDown
<1>4. CASE EndHandler \/ Drag \/ EndEdit
  BY <1>4, HandlerCustody, DragCustody, WriteCustody
<1>5. CASE \/ \E c \in Callers : LockRead(c)
           \/ \E th \in Savers \cup {Main} : BeginSave(th) \/ ListLock(th) \/ SaveStep(th)
           \/ Handler \/ Edit \/ DeleteDoomed
           \/ \E b \in Savers : DeleteSaver(b)
           \/ Quit
  BY <1>5, QuietCustody, Zenon
<1>6. QED
  BY <1>1, <1>2, <1>3, <1>4, <1>5, Zenon DEF Next

\* In the beginning each is unborn or in the queue it was read into.
LEMMA HomeInit ==
  ASSUME StoreAssumption, Init
  PROVE  HomeInv /\ Kept!Init
<1>1. Inv /\ TypeOK
  BY InvInit DEF Inv
<1>2. Handling
  BY DEF Init, Handling, InHand, Aims, Callers, Threads, StoreAssumption
<1>3. /\ \A c \in Callers : hand[c] = NoTransfer
      /\ queues = Loaded /\ known = {t \in Transfers : Holds(queues, t)}
  BY DEF Init
<1>4. ASSUME NEW t \in Transfers PROVE Home(t)
  <2>1. \A p, q \in DOMAIN queues : p # q => queues[p] \cap queues[q] = {}
    BY <1>3 DEF StoreAssumption
  <2>2. \A p, q \in Queues : AtQueue(p, t) /\ AtQueue(q, t) => p = q
    BY <2>1 DEF AtQueue
  <2>3. \A q \in Queues : AtQueue(q, t) => t \in known
    BY <1>1, <1>3, HeldAt
  <2>4. QED
    BY <1>3, <2>2, <2>3 DEF Home, StoreAssumption
<1>5. ASSUME NEW t \in Transfers
      PROVE  PlaceOf(t) \in {Kept!Unborn} \cup {Kept!In(q) : q \in Queues}
  <2>1. Read(t)
    BY <1>1, <1>4, HomeRead
  <2>2. CASE \E q \in Queues : AtQueue(q, t)
    BY <2>1, <2>2 DEF Read
  <2>3. CASE \A q \in Queues : ~AtQueue(q, t)
    <3>1. t \notin known
      BY <1>1, <1>3, <2>3, HeldAt
    <3>2. \A c \in Callers : hand[c] # t
      BY <1>3 DEF StoreAssumption
    <3>3. QED
      BY <2>1, <2>3, <3>1, <3>2 DEF Read
  <2>4. QED
    BY <2>2, <2>3
<1>6. Kept!Init
  BY <1>5 DEF Kept!Init
<1>7. QED
  BY <1>1, <1>2, <1>4, <1>6 DEF HomeInv

\* A transfer with one home is in a place.
LEMMA HomePlaces ==
  ASSUME NEW t \in Transfers
  PROVE  TypeOK /\ Home(t) => PlaceOf(t) \in Kept!Places
<1> SUFFICES ASSUME TypeOK, Home(t) PROVE PlaceOf(t) \in Kept!Places
  OBVIOUS
<1>1. Read(t)
  BY HomeRead
<1>2. QED
  BY <1>1 DEF Read, Home, Kept!Places

\* Workers that add, move and remove transfers, each other's queues deleted under
\* them, and the desktop, which does the same, make no transfer appear twice, vanish
\* or go to another queue than the one it was taken for.
THEOREM StoreKeepsCustody == Spec => Kept!Spec
<1>1. Init => HomeInv /\ Kept!Init
  BY StoreAssumption, HomeInit
<1>2. HomeInv /\ [Next]_vars => HomeInv' /\ \A t \in Transfers : GoesOn(t)
  <2>1. ASSUME HomeInv, Next PROVE HomeInv' /\ \A t \in Transfers : GoesOn(t)
    <3>1. Inv' /\ TypeOK' /\ Handling'
      BY <2>1, StoreAssumption, InvNext, HandlingStep DEF HomeInv, Inv
    <3>2. \A t \in Transfers : GoesOn(t)
      BY <2>1, <3>1, StoreAssumption, SameWayStep, CustodyStep
    <3>3. QED
      BY <3>1, <3>2 DEF HomeInv, GoesOn
  <2>2. ASSUME HomeInv, UNCHANGED vars PROVE HomeInv' /\ \A t \in Transfers : GoesOn(t)
    <3>1. Inv' /\ TypeOK'
      BY <2>2, StoreAssumption, InvNext DEF HomeInv, Inv
    <3>2. Handling'
      BY <2>2 DEF vars, HomeInv, Handling, InHand, Aims
    <3>3. Untouched /\ SameWay
      BY <2>2 DEF vars, Untouched, SameWay, Moves
    <3>4. \A t \in Transfers : GoesOn(t)
      BY <2>2, <3>1, <3>3, StoreAssumption, UntouchedStep
    <3>5. QED
      BY <3>1, <3>2, <3>4 DEF HomeInv, GoesOn
  <2>3. QED
    BY <2>1, <2>2
<1>3. HomeInv => \A t \in Transfers : PlaceOf(t) \in Kept!Places
  BY HomePlaces DEF HomeInv, Inv
<1>4. (HomeInv => \A t \in Transfers : PlaceOf(t) \in Kept!Places)'
  BY <1>3, PTL
<1> DEFINE places == [t \in Transfers |-> PlaceOf(t)]
<1>5. HomeInv /\ [Next]_vars => [Kept!Next]_places
  <2> SUFFICES ASSUME HomeInv, [Next]_vars PROVE Kept!Next
    OBVIOUS
  <2>1. \A t \in Transfers : GoesOn(t) /\ PlaceOf(t)' \in Kept!Places
    BY <1>2, <1>4
  <2>2. QED
    BY <2>1 DEF Kept!Next, GoesOn
<1>6. QED
  BY <1>1, <1>2, <1>5, PTL DEF Spec, Kept!Spec
=============================================================================
