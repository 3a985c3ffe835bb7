------------------------ MODULE PluginRegistryProofs ------------------------
(***************************************************************************)
(* Proofs about PluginRegistry, for any versions, transfers and threads:   *)
(* a plugin in use stays loaded, and requests that come one at a time      *)
(* leave loaded what is installed and enabled.                             *)
(***************************************************************************)
EXTENDS MCPluginRegistry, TLAPS

Inv == RegistryTypeOK /\ InUseStaysLoaded

-----------------------------------------------------------------------------
(* What the closures of the main thread do                                 *)

LEMMA LoadsType ==
  ASSUME RegistryTypeOK
  PROVE  /\ Loads \subseteq Records /\ Absent \in Records
         /\ \A p \in Loads : /\ Present(p) <=> Wanted
                             /\ Present(p) => p.version = files
                             /\ ~p.draining /\ ~p.reloadAfter /\ ~p.uninstallAfter
         /\ ~Present(Absent)
<1>1. Absent \in Records /\ ~Present(Absent)
  BY DEF Absent, Records, Present
<1>2. CASE Wanted
  <2> SUFFICES ASSUME NEW p \in [version : {files}, works : BOOLEAN, draining : {FALSE},
                                 reloadAfter : {FALSE}, uninstallAfter : {FALSE}]
               PROVE  p \in Records /\ Present(p) /\ p.version = files
                      /\ ~p.draining /\ ~p.reloadAfter /\ ~p.uninstallAfter
    BY <1>1, <1>2 DEF Loads
  <2>1. p.version = files /\ p.draining = FALSE /\ p.reloadAfter = FALSE /\ p.uninstallAfter = FALSE
    OBVIOUS
  <2>2. p \in Records
    BY DEF Records, RegistryTypeOK
  <2>3. QED
    BY <1>2, <2>1, <2>2 DEF Wanted, Present
<1>3. CASE ~Wanted
  <2>1. Loads = {Absent}
    BY <1>3 DEF Loads
  <2>2. ~Absent.draining /\ ~Absent.reloadAfter /\ ~Absent.uninstallAfter
    BY DEF Absent
  <2>3. QED
    BY <1>1, <1>3, <2>1, <2>2
<1>4. QED
  BY <1>2, <1>3

\* finishDrains() loads only what is installed, and unloads nothing in use.
LEMMA DrainsEffect ==
  ASSUME RegistryTypeOK, NEW p \in Records, NEW th \in Threads, FinishDrains(p, th)
  PROVE  /\ plugin' \in Records /\ removing' \in Threads \cup {Nobody}
         /\ InUse => plugin' = p
BY LoadsType DEF FinishDrains, RegistryTypeOK, Absent, Records

LEMMA WithdrawnType ==
  ASSUME NEW p \in Records
  PROVE  /\ Withdrawn(p) \in Records /\ Withdrawn(p).version = p.version
         /\ [Withdrawn(p) EXCEPT !.reloadAfter = TRUE] \in Records
         /\ [Withdrawn(p) EXCEPT !.uninstallAfter = TRUE] \in Records
         /\ [Withdrawn(p) EXCEPT !.reloadAfter = TRUE].version = p.version
         /\ [Withdrawn(p) EXCEPT !.uninstallAfter = TRUE].version = p.version
BY DEF Withdrawn, Records

\* Neither sync() nor reload() replaces a version that is in use.
LEMMA SyncEffect ==
  ASSUME Inv, NEW th \in Threads, Sync(th)
  PROVE  /\ plugin' \in Records /\ removing' \in Threads \cup {Nobody}
         /\ InUse => plugin'.version = plugin.version
<1>1. plugin \in Records /\ removing \in Threads \cup {Nobody}
  BY DEF Inv, RegistryTypeOK
<1>2. InUse => Present(plugin)
  BY DEF Inv, RegistryTypeOK, InUse, InUseStaysLoaded, Present
<1>3. CASE Wanted /\ ~Present(plugin) /\ plugin' \in Loads /\ UNCHANGED removing
  BY <1>1, <1>2, <1>3, LoadsType DEF Inv
<1>4. CASE /\ plugin' = [plugin EXCEPT !.draining = @ /\ (plugin.reloadAfter \/ plugin.uninstallAfter)]
           /\ UNCHANGED removing
  BY <1>1, <1>4 DEF Records
<1>5. CASE FinishDrains(Withdrawn(plugin), th)
  BY <1>1, <1>5, DrainsEffect, WithdrawnType DEF Inv
<1>6. QED
  BY <1>3, <1>4, <1>5 DEF Sync

LEMMA ReloadEffect ==
  ASSUME Inv, NEW th \in Threads, Reload(th)
  PROVE  /\ plugin' \in Records /\ removing' \in Threads \cup {Nobody}
         /\ InUse => plugin'.version = plugin.version
<1>1. plugin \in Records
  BY DEF Inv, RegistryTypeOK
<1>2. CASE FinishDrains([Withdrawn(plugin) EXCEPT !.reloadAfter = TRUE], th)
  BY <1>1, <1>2, DrainsEffect, WithdrawnType DEF Inv
<1>3. CASE Sync(th)
  BY <1>3, SyncEffect
<1>4. QED
  BY <1>2, <1>3 DEF Reload

\* A closure that keeps the version of a plugin in use keeps the invariant.
LEMMA ClosureKeeps ==
  ASSUME Inv, plugin' \in Records, UNCHANGED <<files, enabled, uses, message>>,
         removing' \in Threads \cup {Nobody}, checks' \in 0 .. MaxChecks, stayed' \in BOOLEAN,
         pc' \in [Threads -> Places],
         InUse => plugin'.version = plugin.version
  PROVE  Inv'
BY DEF Inv, RegistryTypeOK, InUseStaysLoaded, InUse

-----------------------------------------------------------------------------

LEMMA GotoType ==
  ASSUME pc \in [Threads -> Places], NEW th \in Threads, NEW place \in Places, Goto(th, place)
  PROVE  pc' \in [Threads -> Places]
BY DEF Goto

LEMMA CheckStep ==
  ASSUME RegistryAssumption, Inv, RunCheck
  PROVE  Inv'
<1>1. plugin \in Records /\ checks \in 0 .. MaxChecks /\ Main \in Threads
  BY DEF Inv, RegistryTypeOK, Threads
<1>2. checks' \in 0 .. MaxChecks
  BY <1>1 DEF RunCheck, RegistryAssumption
<1>3. /\ plugin' \in Records /\ removing' \in Threads \cup {Nobody}
      /\ InUse => plugin' = plugin
  BY <1>1, DrainsEffect DEF RunCheck, Inv
<1>4. QED
  BY <1>2, <1>3, ClosureKeeps DEF RunCheck, Inv, RegistryTypeOK

LEMMA TransferStep ==
  ASSUME RegistryAssumption, Inv, NEW t \in Transfers, CreateTransfer(t) \/ EndTransfer(t)
  PROVE  Inv'
<1>1. CASE CreateTransfer(t)
  BY <1>1 DEF CreateTransfer, Inv, RegistryTypeOK, InUseStaysLoaded, Records, Present
<1>2. CASE EndTransfer(t)
  <2>1. checks' \in 0 .. MaxChecks
    BY <1>2 DEF EndTransfer, Inv, RegistryTypeOK, RegistryAssumption
  <2>2. uses' \in [Transfers -> Versions \cup {NoVersion}]
    BY <1>2 DEF EndTransfer, Inv, RegistryTypeOK
  <2>3. InUseStaysLoaded'
    BY <1>2 DEF EndTransfer, Inv, InUseStaysLoaded, RegistryTypeOK
  <2>4. QED
    BY <1>2, <2>1, <2>2, <2>3 DEF EndTransfer, Inv, RegistryTypeOK
<1>3. QED
  BY <1>1, <1>2

LEMMA RequestStep ==
  ASSUME Inv, NEW th \in Threads, Request(th)
  PROVE  Inv'
<1>1. ASSUME NEW place \in Places, Start(th, place),
             files' \in Versions \cup {NoVersion}, enabled' \in BOOLEAN
      PROVE  Inv'
  <2>1. pc' \in [Threads -> Places]
    BY <1>1, GotoType DEF Start, Inv, RegistryTypeOK
  <2>2. QED
    BY <1>1, <2>1 DEF Start, Inv, RegistryTypeOK, InUseStaysLoaded
<1>2. {"sync", "reload", "uninstall", "copying"} \subseteq Places
  BY DEF Places
<1>3. files \in Versions \cup {NoVersion} /\ enabled \in BOOLEAN
  BY DEF Inv, RegistryTypeOK
<1>4. CASE RefuseInstall(th)
  BY <1>4 DEF RefuseInstall, Inv, RegistryTypeOK, InUseStaysLoaded
<1>5. QED
  BY <1>1, <1>2, <1>3, <1>4 DEF Request, SetEnabled, StartReload, StartUninstall, StartInstall

LEMMA ProgressStep ==
  ASSUME RegistryAssumption, Inv, NEW th \in Threads, Progress(th)
  PROVE  Inv'
<1>1. /\ plugin \in Records /\ checks \in 0 .. MaxChecks /\ pc \in [Threads -> Places]
      /\ removing \in Threads \cup {Nobody}
  BY DEF Inv, RegistryTypeOK
<1>2. CASE \E v \in Versions : CopyManifest(th, v)
  BY <1>2 DEF CopyManifest, Inv, RegistryTypeOK, InUseStaysLoaded
<1>3. CASE Copied(th) \/ InstallFails(th) \/ RemoveFiles(th) \/ RemovalFails(th) \/ Answer(th)
  <2>1. pc' \in [Threads -> Places]
    BY <1>1, <1>3, GotoType DEF Copied, InstallFails, RemoveFiles, RemovalFails, Answer, Places
  <2>2. message' \in [Threads -> {"none", "failed", "installed", "takesOver", "done"}]
    BY <1>3 DEF Copied, InstallFails, RemoveFiles, RemovalFails, Answer, Inv, RegistryTypeOK
  <2>3. /\ files' \in Versions \cup {NoVersion} /\ stayed' \in BOOLEAN
        /\ UNCHANGED <<enabled, plugin, uses, checks, removing>>
    BY <1>3 DEF Copied, InstallFails, RemoveFiles, RemovalFails, Answer, Inv, RegistryTypeOK
  <2>4. QED
    BY <2>1, <2>2, <2>3 DEF Inv, RegistryTypeOK, InUseStaysLoaded
<1>4. CASE RunSync(th)
  <2>1. pc' \in [Threads -> Places]
    BY <1>1, <1>4, GotoType DEF RunSync, Places
  <2>2. QED
    BY <1>1, <1>4, <2>1, SyncEffect, ClosureKeeps DEF RunSync
<1>5. CASE RunReload(th)
  <2>1. pc' \in [Threads -> Places]
    BY <1>1, <1>5, GotoType DEF RunReload, Places
  <2>2. QED
    BY <1>1, <1>5, <2>1, ReloadEffect, ClosureKeeps DEF RunReload
<1>6. CASE RunUninstall(th)
  <2>1. pc' \in [Threads -> Places]
    BY <1>1, <1>6, GotoType DEF RunUninstall, Places
  <2> DEFINE p == IF Present(plugin)
                    THEN [Withdrawn(plugin) EXCEPT !.uninstallAfter = TRUE] ELSE plugin
  <2>2. p \in Records /\ p.version = plugin.version
    BY <1>1, WithdrawnType
  <2>3. FinishDrains(p, th)
    BY <1>6 DEF RunUninstall
  <2> HIDE DEF p
  <2>4. QED
    BY <1>1, <1>6, <2>1, <2>2, <2>3, DrainsEffect, ClosureKeeps DEF RunUninstall, Inv
<1>7. QED
  BY <1>2, <1>3, <1>4, <1>5, <1>6 DEF Progress

LEMMA StepKeeps ==
  ASSUME RegistryAssumption, Inv, [Next]_vars
  PROVE  Inv'
<1>1. CASE RemoveUnloaded
  BY <1>1 DEF RemoveUnloaded, Inv, RegistryTypeOK, InUseStaysLoaded
<1>2. CASE UNCHANGED vars
  BY <1>2 DEF vars, Inv, RegistryTypeOK, InUseStaysLoaded
<1>3. QED
  BY <1>1, <1>2, CheckStep, TransferStep, RequestStep, ProgressStep DEF Next

LEMMA StartsRight ==
  ASSUME RegistryAssumption, Init
  PROVE  Inv
<1>1. plugin \in Records
  <2>1. Absent \in Records
    BY DEF Absent, Records
  <2>2. [version : {files}, works : BOOLEAN, draining : {FALSE},
         reloadAfter : {FALSE}, uninstallAfter : {FALSE}] \subseteq Records
    BY DEF Init, Records
  <2>3. QED
    BY <2>1, <2>2 DEF Init, Loads
<1>2. stayed \in BOOLEAN
  BY DEF Init
<1>3. InUseStaysLoaded
  BY DEF Init, InUseStaysLoaded
<1>4. QED
  BY <1>1, <1>2, <1>3 DEF Init, Inv, RegistryTypeOK, RegistryAssumption, Places

\* The variables have their types.
THEOREM RegistryTypes == Spec => []RegistryTypeOK
<1>1. Init => Inv
  BY RegistryAssumption, StartsRight
<1>2. Inv /\ [Next]_vars => Inv'
  BY RegistryAssumption, StepKeeps
<1>3. Inv => RegistryTypeOK
  BY DEF Inv
<1>4. QED
  BY <1>1, <1>2, <1>3, PTL DEF Spec

\* A plugin that is disabled, replaced or removed stays loaded, in the version
\* they were created from, for the transfers that hold its classes.
THEOREM UsedStaysLoaded == Spec => []InUseStaysLoaded
<1>1. Init => Inv
  BY RegistryAssumption, StartsRight
<1>2. Inv /\ [Next]_vars => Inv'
  BY RegistryAssumption, StepKeeps
<1>3. Inv => InUseStaysLoaded
  BY DEF Inv
<1>4. QED
  BY <1>1, <1>2, <1>3, PTL DEF Spec

\* Each transfer leases the version it was created from.
THEOREM TransfersLeaseVersions == Spec => Leases!Spec
<1> USE DEF Leases!Sound, Leases!InUse
<1>1. Inv => Leases!Sound
  <2>1. Inv => plugin.version \in Versions \cup {NoVersion}
    BY DEF Inv, RegistryTypeOK, Records
  <2>2. QED
    BY <2>1 DEF Inv, InUseStaysLoaded
<1>2. Init => Leases!Init
  BY <1>1, RegistryAssumption, StartsRight DEF Init, Leases!Init
<1>3. Inv /\ Inv' /\ [Next]_vars => [Leases!Next]_(Leases!leaseVars)
  <2> SUFFICES ASSUME Inv, Inv', [Next]_vars
               PROVE  [Leases!Next]_(Leases!leaseVars)
    OBVIOUS
  <2>1. ASSUME UNCHANGED uses
        PROVE  Leases!Next
    <3>1. Leases!Sound'
      BY <1>1, PTL
    <3>2. QED
      BY <2>1, <3>1 DEF Leases!Next, Leases!Change
  <2>2. ASSUME NEW t \in Transfers, CreateTransfer(t)
        PROVE  Leases!Next
    BY <2>2 DEF CreateTransfer, Present, Leases!Next, Leases!Take
  <2>3. ASSUME NEW t \in Transfers, EndTransfer(t)
        PROVE  Leases!Next
    BY <2>3 DEF EndTransfer, Leases!Next, Leases!GiveUp
  <2>4. CASE RunCheck \/ RemoveUnloaded
    BY <2>1, <2>4 DEF RunCheck, RemoveUnloaded
  <2>5. ASSUME NEW th \in Threads, Request(th) \/ Progress(th)
        PROVE  UNCHANGED uses
    BY <2>5 DEF Request, SetEnabled, StartReload, StartUninstall, StartInstall, Start,
      RefuseInstall, Progress, CopyManifest, Copied, InstallFails, RunSync, RunReload,
      RunUninstall, RemoveFiles, RemovalFails, Answer
  <2>6. CASE UNCHANGED vars
    BY <2>1, <2>6 DEF vars
  <2>7. QED
    BY <2>1, <2>2, <2>3, <2>4, <2>5, <2>6 DEF Next
<1>4. Inv /\ [Next]_vars => Inv'
  BY RegistryAssumption, StepKeeps
<1>5. Init => Inv
  BY RegistryAssumption, StartsRight
<1>6. QED
  BY <1>2, <1>3, <1>4, <1>5, PTL DEF Spec, Leases!Spec

-----------------------------------------------------------------------------
(* Nobody waits in a circle                                                *)

\* Whose closure waits for the mutex stays in that request, and a worker's waits
\* on a main thread that runs its event loop: neither ever copies meanwhile.
WaitInv ==
  /\ pc \in [Threads -> Places] /\ removing \in Threads \cup {Nobody}
  /\ removing # Nobody =>
       /\ pc[removing] \in {"idle", "installed", "answer", "remove"}
       /\ removing # Main => pc[removing] # "idle" /\ pc[Main] = "idle"

LEMMA WaitInvStep ==
  ASSUME RegistryAssumption, WaitInv, RegistryTypeOK', [Next]_vars
  PROVE  WaitInv'
<1>0. Main \in Threads /\ Nobody \notin Threads
  BY DEF RegistryAssumption, Threads
<1>1. pc' \in [Threads -> Places] /\ removing' \in Threads \cup {Nobody}
  BY DEF RegistryTypeOK
<1>2. CASE RunCheck
  <2>1. removing' \in {Main, Nobody} /\ UNCHANGED pc /\ pc[Main] = "idle"
    BY <1>2 DEF RunCheck, FinishDrains, MainFree
  <2>2. QED
    BY <1>0, <1>1, <2>1 DEF WaitInv
<1>3. CASE RemoveUnloaded
  BY <1>1, <1>3 DEF RemoveUnloaded, WaitInv
<1>4. ASSUME NEW t \in Transfers, CreateTransfer(t) \/ EndTransfer(t)
      PROVE  WaitInv'
  BY <1>4 DEF CreateTransfer, EndTransfer, WaitInv
<1>5. ASSUME NEW th \in Threads, Request(th)
      PROVE  WaitInv'
  <2>1. ASSUME NEW place \in Places, Start(th, place)
        PROVE  WaitInv'
    BY <1>0, <1>1, <2>1 DEF Start, Goto, WaitInv
  <2>2. {"sync", "reload", "uninstall", "copying"} \subseteq Places
    BY DEF Places
  <2>3. CASE RefuseInstall(th)
    BY <1>1, <2>3 DEF RefuseInstall, WaitInv
  <2>4. QED
    BY <1>5, <2>1, <2>2, <2>3
      DEF Request, SetEnabled, StartReload, StartUninstall, StartInstall
<1>6. ASSUME NEW th \in Threads, Progress(th)
      PROVE  WaitInv'
  <2>1. CASE \E v \in Versions : CopyManifest(th, v)
    BY <2>1 DEF CopyManifest, WaitInv
  <2>2. CASE Copied(th) \/ InstallFails(th)
    BY <1>0, <1>1, <2>2 DEF Copied, InstallFails, Goto, WaitInv
  <2>3. CASE RemoveFiles(th) \/ RemovalFails(th) \/ Answer(th)
    BY <1>0, <1>1, <2>3 DEF RemoveFiles, RemovalFails, Answer, Goto, WaitInv
  <2>4. CASE RunSync(th) \/ RunReload(th) \/ RunUninstall(th)
    <3>1. removing = Nobody /\ (th = Main \/ pc[Main] = "idle")
      BY <2>4 DEF RunSync, RunReload, RunUninstall, CanRun
    <3>2. \E place \in {"installed", "answer", "remove"} : Goto(th, place)
      BY <2>4 DEF RunSync, RunReload, RunUninstall
    <3>3. removing' \in {th, removing}
      BY <2>4, <3>1 DEF RunSync, RunReload, RunUninstall, Reload, Sync, FinishDrains
    <3>4. QED
      BY <1>0, <1>1, <3>1, <3>2, <3>3 DEF Goto, WaitInv
  <2>5. QED
    BY <1>6, <2>1, <2>2, <2>3, <2>4 DEF Progress
<1>7. CASE UNCHANGED vars
  BY <1>7 DEF vars, WaitInv
<1>8. QED
  BY <1>2, <1>3, <1>4, <1>5, <1>6, <1>7 DEF Next

\* Who copies waits for nobody, then who waits for a copy only for those, and a
\* worker only for the main thread.
LEMMA WaitInvNoCircle ==
  ASSUME RegistryAssumption, WaitInv
  PROVE  NoCircle
<1> SUFFICES ASSUME NEW S \in SUBSET Threads, S # {},
                    \A th \in S : WaitsFor(th) \cap S # {}
             PROVE  FALSE
  BY DEF NoCircle
<1>0. Main \in Threads /\ Nobody \notin Threads
  BY DEF RegistryAssumption, Threads
<1>1. ASSUME NEW th \in S, pc[th] = "copying"
      PROVE  FALSE
  <2>1. removing # th /\ (th = Main => removing = Nobody)
    BY <1>0, <1>1 DEF WaitInv
  <2>2. WaitsFor(th) = {}
    BY <1>1, <2>1 DEF WaitsFor
  <2>3. QED
    BY <2>2
<1>2. Main \notin S
  BY <1>1 DEF WaitsFor
<1>3. QED
  BY <1>1, <1>2 DEF WaitsFor

\* However clients and the desktop's page install, reload and remove, no threads
\* ever wait for each other in a circle, over the mutex of the repository and the
\* event loop of the main thread.
THEOREM NoneWaitInCircle == Spec => []NoCircle
<1>1. Init => Inv /\ WaitInv
  <2>1. Init => WaitInv
    BY DEF Init, WaitInv, Places
  <2>2. QED
    BY <2>1, RegistryAssumption, StartsRight
<1>2. Inv /\ WaitInv /\ [Next]_vars => Inv' /\ WaitInv'
  BY RegistryAssumption, StepKeeps, WaitInvStep DEF Inv
<1>3. WaitInv => NoCircle
  BY RegistryAssumption, WaitInvNoCircle
<1>4. QED
  BY <1>1, <1>2, <1>3, PTL DEF Spec

-----------------------------------------------------------------------------
(* Requests of one client only                                             *)

\* The behaviours in which only w ever serves a request, or refuses one.
OnlyBy(w) == \A th \in Threads \ {w} : pc'[th] = "idle" /\ message'[th] = "none"
SoloSpec(w) == Init /\ [][Next /\ OnlyBy(w)]_vars

\* A plugin drains because it is to be reloaded or removed, or is not wanted.
Drains(p) == p.reloadAfter \/ p.uninstallAfter \/ ~Wanted

\* Loaded exactly if installed and enabled, but for what draining explains.
Agrees == IF plugin.draining THEN Drains(plugin) ELSE Present(plugin) <=> Wanted

\* Why requests that come one at a time leave the plugin as they should: a closure
\* makes it agree, and until the next request only a drain that ends changes it,
\* or a removal that leaves the files.
SoloInv(w) ==
  /\ RegistryTypeOK
  /\ \A th \in Threads \ {w} : pc[th] = "idle" /\ message[th] = "none"
  /\ plugin.reloadAfter \/ plugin.uninstallAfter => plugin.draining
  /\ plugin.draining => Present(plugin)
  /\ removing # Nobody \/ pc[w] = "remove" => ~Present(plugin)
  /\ \/ pc[w] \in {"installed", "answer"}
     \/ pc[w] = "idle" /\ message[w] # "failed"
     => Agrees \/ removing # Nobody \/ stayed
  /\ pc[w] = "installed" /\ ~plugin.reloadAfter /\ Present(plugin) => plugin.version = files
  /\ message[w] = "installed" =>
       pc[w] = "idle" /\ (Present(plugin) => plugin.version = files)

Sound(p) == /\ p.reloadAfter \/ p.uninstallAfter => p.draining
            /\ p.draining => Present(p)

\* What finishDrains() makes of a plugin that drains for a reason.
LEMMA DrainsAgree ==
  ASSUME RegistryTypeOK, RegistryAssumption, NEW p \in Records, Sound(p), NEW th \in Threads,
         p.draining => Drains(p), ~p.draining => (Present(p) <=> Wanted),
         FinishDrains(p, th), removing = Nobody, UNCHANGED <<files, enabled>>
  PROVE  /\ Sound(plugin')
         /\ removing' # Nobody => ~Present(plugin')
         /\ Agrees' \/ removing' # Nobody
         /\ plugin' # p /\ Present(plugin') => plugin'.version = files
<1>0. Wanted' <=> Wanted
  BY DEF Wanted
<1>1. CASE plugin' = p /\ UNCHANGED removing
  BY <1>0, <1>1 DEF Sound, Agrees, Drains
<1>2. CASE /\ p.draining
           /\ plugin' \in IF p.reloadAfter /\ ~p.uninstallAfter THEN Loads ELSE {Absent}
           /\ removing' = IF p.uninstallAfter THEN th ELSE Nobody
  <2>1. CASE p.reloadAfter /\ ~p.uninstallAfter
    <3>1. plugin' \in Loads /\ removing' = Nobody
      BY <1>2, <2>1
    <3>2. QED
      BY <1>0, <3>1, LoadsType DEF Sound, Agrees
  <2>2. CASE ~(p.reloadAfter /\ ~p.uninstallAfter)
    <3>1. plugin' = Absent /\ ~Present(plugin')
      BY <1>2, <2>2, LoadsType
    <3>2. Sound(plugin') /\ ~plugin'.draining
      BY <3>1 DEF Sound, Absent
    <3>3. p.uninstallAfter => removing' # Nobody
      BY <1>2 DEF RegistryAssumption
    <3>4. ~p.uninstallAfter => ~Wanted
      BY <1>2, <2>2 DEF Drains
    <3>5. QED
      BY <1>0, <3>1, <3>2, <3>3, <3>4 DEF Agrees
  <2>3. QED
    BY <2>1, <2>2
<1>3. QED
  BY <1>1, <1>2 DEF FinishDrains

\* sync() and reload() leave what is wanted, or a drain that will, and reload()
\* no old version that does not drain.
LEMMA SyncAgrees ==
  ASSUME RegistryTypeOK, RegistryAssumption, Sound(plugin), NEW th \in Threads,
         Sync(th), removing = Nobody, UNCHANGED <<files, enabled>>
  PROVE  /\ Sound(plugin')
         /\ removing' # Nobody => ~Present(plugin')
         /\ Agrees' \/ removing' # Nobody
         /\ ~Present(plugin) /\ Present(plugin') => plugin'.version = files
<1>0. plugin \in Records /\ (Wanted' <=> Wanted)
  BY DEF RegistryTypeOK, Wanted
<1>1. CASE Wanted /\ ~Present(plugin) /\ plugin' \in Loads /\ UNCHANGED removing
  BY <1>0, <1>1, LoadsType DEF Sound, Agrees
<1>2. CASE /\ Wanted /\ Present(plugin) /\ UNCHANGED removing
           /\ plugin' = [plugin EXCEPT !.draining = @ /\ (plugin.reloadAfter \/ plugin.uninstallAfter)]
  <2>1. /\ plugin'.version = plugin.version /\ plugin'.reloadAfter = plugin.reloadAfter
        /\ plugin'.uninstallAfter = plugin.uninstallAfter
        /\ plugin'.draining = (plugin.draining /\ (plugin.reloadAfter \/ plugin.uninstallAfter))
    BY <1>0, <1>2 DEF Records
  <2>2. QED
    BY <1>0, <1>2, <2>1 DEF Sound, Agrees, Drains, Present
<1>3. CASE ~Wanted /\ FinishDrains(Withdrawn(plugin), th)
  <2> DEFINE p == Withdrawn(plugin)
  <2>1. p \in Records /\ p.version = plugin.version
    BY <1>0, WithdrawnType
  <2>2. Sound(p) /\ (Present(plugin) => p.draining) /\ (~Present(plugin) => p = plugin)
    BY <1>0 DEF Sound, Withdrawn, Records, Present
  <2>3. FinishDrains(p, th)
    BY <1>3
  <2>4. (p.draining => Drains(p)) /\ (~p.draining => (Present(p) <=> Wanted))
    BY <1>3, <2>1, <2>2 DEF Drains, Present
  <2> HIDE DEF p
  <2>5. /\ Sound(plugin')
        /\ removing' # Nobody => ~Present(plugin')
        /\ Agrees' \/ removing' # Nobody
        /\ plugin' # p /\ Present(plugin') => plugin'.version = files
    BY <2>1, <2>2, <2>3, <2>4, DrainsAgree
  <2>6. ~Present(plugin) => ~(plugin' = p /\ Present(plugin'))
    BY <2>2
  <2>7. QED
    BY <2>5, <2>6
<1>4. QED
  BY <1>1, <1>2, <1>3 DEF Sync

LEMMA ReloadAgrees ==
  ASSUME RegistryTypeOK, RegistryAssumption, Sound(plugin), NEW th \in Threads,
         Reload(th), removing = Nobody, UNCHANGED <<files, enabled>>
  PROVE  /\ Sound(plugin')
         /\ removing' # Nobody => ~Present(plugin')
         /\ Agrees' \/ removing' # Nobody
         /\ ~plugin'.reloadAfter /\ Present(plugin') => plugin'.version = files
<1>0. plugin \in Records
  BY DEF RegistryTypeOK
<1>1. CASE Present(plugin) /\ FinishDrains([Withdrawn(plugin) EXCEPT !.reloadAfter = TRUE], th)
  <2> DEFINE p == [Withdrawn(plugin) EXCEPT !.reloadAfter = TRUE]
  <2>1. p \in Records /\ p.version = plugin.version
    BY <1>0, WithdrawnType
  <2>2. p.draining /\ p.reloadAfter
    BY <1>0, <1>1 DEF Withdrawn, Records
  <2>3. FinishDrains(p, th)
    BY <1>1
  <2> HIDE DEF p
  <2>4. Sound(p) /\ Drains(p)
    BY <1>1, <2>1, <2>2 DEF Sound, Drains, Present
  <2>5. /\ Sound(plugin')
        /\ removing' # Nobody => ~Present(plugin')
        /\ Agrees' \/ removing' # Nobody
        /\ plugin' # p /\ Present(plugin') => plugin'.version = files
    BY <2>1, <2>2, <2>3, <2>4, DrainsAgree
  <2>6. QED
    BY <2>2, <2>5
<1>2. CASE ~Present(plugin) /\ Sync(th)
  BY <1>2, SyncAgrees
<1>3. QED
  BY <1>1, <1>2 DEF Reload

LEMMA DrainsSound ==
  ASSUME RegistryTypeOK, NEW p \in Records, Sound(p), NEW th \in Threads,
         FinishDrains(p, th), removing = Nobody
  PROVE  /\ Sound(plugin')
         /\ removing' # Nobody => ~Present(plugin')
         /\ ~Present(p) => plugin' = p /\ UNCHANGED removing
         /\ plugin' # p /\ Present(plugin') => plugin'.version = files
<1>1. CASE plugin' = p /\ UNCHANGED removing
  BY <1>1
<1>2. CASE /\ p.draining
           /\ plugin' \in IF p.reloadAfter /\ ~p.uninstallAfter THEN Loads ELSE {Absent}
           /\ removing' = IF p.uninstallAfter THEN th ELSE Nobody
  <2>1. Present(p) /\ plugin' \in Loads \cup {Absent}
    BY <1>2 DEF Sound
  <2>2. Sound(plugin') /\ (Present(plugin') => plugin'.version = files)
    <3>1. CASE plugin' \in Loads
      BY <3>1, LoadsType DEF Sound
    <3>2. CASE plugin' = Absent
      BY <3>2, LoadsType DEF Sound, Absent
    <3>3. QED
      BY <2>1, <3>1, <3>2
  <2>3. p.uninstallAfter => ~Present(plugin')
    BY <1>2, LoadsType
  <2>4. QED
    BY <1>2, <2>1, <2>2, <2>3
<1>3. QED
  BY <1>1, <1>2 DEF FinishDrains

LEMMA SoloCheck ==
  ASSUME RegistryAssumption, NEW w \in Threads, SoloInv(w), RegistryTypeOK', RunCheck
  PROVE  SoloInv(w)'
<1>1. /\ plugin \in Records /\ Sound(plugin) /\ Main \in Threads /\ removing = Nobody
      /\ FinishDrains(plugin, Main) /\ UNCHANGED <<files, enabled, pc, message>>
  BY DEF RunCheck, MainFree, SoloInv, Sound, RegistryTypeOK, Threads
<1>2. /\ Sound(plugin')
      /\ removing' # Nobody => ~Present(plugin')
      /\ ~Present(plugin) => plugin' = plugin /\ UNCHANGED removing
      /\ plugin' # plugin /\ Present(plugin') => plugin'.version = files
  BY <1>1, DrainsSound DEF SoloInv
<1>3. (Agrees => Agrees' \/ removing' # Nobody) /\ UNCHANGED stayed
  <2> SUFFICES ASSUME Agrees
               PROVE  Agrees' \/ removing' # Nobody
    BY DEF RunCheck
  <2>0. Agrees
    OBVIOUS
  <2>1. (plugin.draining => Drains(plugin)) /\ (~plugin.draining => (Present(plugin) <=> Wanted))
    BY <2>0 DEF Agrees
  <2>2. QED
    BY <1>1, <2>1, DrainsAgree DEF SoloInv
<1>4. QED
  BY <1>1, <1>2, <1>3 DEF SoloInv, Sound

\* The steps that leave the plugin and what is being removed alone.
LEMMA SoloOther ==
  ASSUME NEW w \in Threads, SoloInv(w), RegistryTypeOK', OnlyBy(w),
         UNCHANGED <<plugin, removing, stayed>>,
         \A th \in Threads \ {w} : message'[th] = message[th],
         pc'[w] = "remove" => pc[w] = "remove",
         \/ pc'[w] \in {"installed", "answer"}
         \/ pc'[w] = "idle" /\ message'[w] # "failed"
         => (Agrees \/ removing # Nobody \/ stayed) /\ (Agrees => Agrees'),
         pc'[w] = "installed" => pc[w] = "installed" /\ UNCHANGED files,
         message'[w] = "installed" =>
           pc'[w] = "idle" /\ (Present(plugin) => plugin.version = files')
  PROVE  SoloInv(w)'
BY DEF SoloInv, OnlyBy

LEMMA SoloRequest ==
  ASSUME NEW w \in Threads, SoloInv(w), RegistryTypeOK', OnlyBy(w), Request(w)
  PROVE  SoloInv(w)'
<1>1. ASSUME NEW place \in {"sync", "reload", "uninstall", "copying"}, Start(w, place)
      PROVE  SoloInv(w)'
  <2>1. pc \in [Threads -> Places] /\ DOMAIN message = Threads
    BY DEF SoloInv, RegistryTypeOK
  <2>2. /\ pc'[w] = place /\ message'[w] = "none" /\ UNCHANGED <<plugin, removing, stayed>>
        /\ \A th \in Threads \ {w} : message'[th] = message[th]
    BY <1>1, <2>1 DEF Start, Goto
  <2>3. QED
    BY <2>2, SoloOther
<1>2. CASE RefuseInstall(w)
  <2>1. /\ pc'[w] = "idle" /\ message'[w] = "failed" /\ UNCHANGED <<plugin, removing, stayed>>
        /\ \A th \in Threads \ {w} : message'[th] = message[th]
    BY <1>2 DEF RefuseInstall, SoloInv, RegistryTypeOK
  <2>2. QED
    BY <2>1, SoloOther
<1>3. QED
  BY <1>1, <1>2 DEF Request, SetEnabled, StartReload, StartUninstall, StartInstall

LEMMA SoloProgress ==
  ASSUME RegistryAssumption, NEW w \in Threads, SoloInv(w), RegistryTypeOK', OnlyBy(w), Progress(w)
  PROVE  SoloInv(w)'
<1>0. /\ pc \in [Threads -> Places] /\ DOMAIN message = Threads
      /\ plugin \in Records /\ Sound(plugin)
  BY DEF SoloInv, RegistryTypeOK, Sound
<1>1. ASSUME NEW v \in Versions, CopyManifest(w, v)
      PROVE  SoloInv(w)'
  BY <1>0, <1>1, SoloOther DEF CopyManifest, SoloInv
<1>2. CASE Copied(w)
  <2>1. pc'[w] = "loading" /\ UNCHANGED <<plugin, removing, message, stayed>>
    BY <1>0, <1>2 DEF Copied, Goto
  <2>2. message[w] # "installed"
    BY <1>2 DEF Copied, SoloInv
  <2>3. QED
    BY <2>1, <2>2, SoloOther
<1>3. CASE InstallFails(w) \/ RemovalFails(w)
  <2>1. /\ pc'[w] = "idle" /\ message'[w] = "failed" /\ UNCHANGED <<plugin, removing, stayed>>
        /\ \A th \in Threads \ {w} : message'[th] = message[th]
    BY <1>0, <1>3 DEF InstallFails, RemovalFails, Goto
  <2>2. QED
    BY <2>1, SoloOther
<1>4. CASE RemoveFiles(w)
  <2>1. /\ pc'[w] = "answer" /\ UNCHANGED <<plugin, removing, message>>
        /\ ~Present(plugin) /\ message[w] # "installed"
        /\ files' = NoVersion \/ stayed'
    BY <1>0, <1>4 DEF RemoveFiles, Goto, SoloInv
  <2>2. files' = NoVersion => ~Wanted' /\ ~plugin.draining
    BY <1>0, <2>1 DEF Wanted, Sound
  <2>3. Agrees' \/ stayed'
    BY <2>1, <2>2 DEF Agrees
  <2>4. QED
    BY <2>1, <2>3 DEF SoloInv, OnlyBy
<1>5. CASE Answer(w)
  <2>1. /\ pc'[w] = "idle" /\ UNCHANGED <<plugin, removing, stayed, files, enabled>>
        /\ \A th \in Threads \ {w} : message'[th] = message[th]
        /\ message'[w] = CASE pc[w] = "answer" -> "done"
             [] pc[w] = "installed" /\ plugin.reloadAfter -> "takesOver"
             [] OTHER -> "installed"
        /\ pc[w] \in {"installed", "answer"}
    BY <1>0, <1>5 DEF Answer, Goto
  <2>2. message'[w] = "installed" => pc[w] = "installed" /\ ~plugin.reloadAfter
    BY <2>1
  <2>3. message'[w] = "installed" /\ Present(plugin) => plugin.version = files'
    BY <2>1, <2>2 DEF SoloInv
  <2>4. Agrees => Agrees'
    BY <2>1 DEF Agrees, Drains, Wanted
  <2>5. QED
    BY <2>1, <2>3, <2>4, SoloOther DEF SoloInv
<1>6. ASSUME RunSync(w) \/ RunReload(w)
      PROVE  SoloInv(w)'
  <2>1. /\ removing = Nobody /\ UNCHANGED <<files, enabled, message>>
        /\ message[w] # "installed" /\ pc'[w] \in {"answer", "installed"}
    BY <1>0, <1>6 DEF RunSync, RunReload, CanRun, Goto, SoloInv
  <2>2. /\ Sound(plugin')
        /\ removing' # Nobody => ~Present(plugin')
        /\ Agrees' \/ removing' # Nobody
    BY <1>0, <1>6, <2>1, SyncAgrees, ReloadAgrees DEF RunSync, RunReload, SoloInv
  <2>3. pc'[w] = "installed" /\ ~plugin'.reloadAfter /\ Present(plugin') => plugin'.version = files
    BY <1>0, <1>6, <2>1, ReloadAgrees DEF RunSync, RunReload, SoloInv, Goto
  <2>4. QED
    BY <2>1, <2>2, <2>3 DEF SoloInv, OnlyBy, Sound
<1>7. CASE RunUninstall(w)
  <2> DEFINE p == IF Present(plugin)
                    THEN [Withdrawn(plugin) EXCEPT !.uninstallAfter = TRUE] ELSE plugin
  <2>1. /\ removing = Nobody /\ UNCHANGED <<files, enabled, message>>
        /\ message[w] # "installed" /\ FinishDrains(p, w)
        /\ pc'[w] = IF Present(plugin') THEN "answer" ELSE "remove"
    BY <1>0, <1>7 DEF RunUninstall, CanRun, Goto, SoloInv
  <2>2. p \in Records /\ p.version = plugin.version
    BY <1>0, WithdrawnType
  <2>3. /\ Present(plugin) => p.draining /\ p.uninstallAfter
        /\ ~Present(plugin) => p = plugin
    BY <1>0 DEF Withdrawn, Records
  <2> HIDE DEF p
  <2>4. Sound(p) /\ (p.draining => Drains(p))
    BY <1>0, <2>2, <2>3 DEF Sound, Drains, Present
  <2>5. /\ Sound(plugin')
        /\ removing' # Nobody => ~Present(plugin')
        /\ ~Present(p) => plugin' = p /\ UNCHANGED removing
    BY <2>1, <2>2, <2>4, DrainsSound DEF SoloInv
  <2>6. Present(plugin') => Agrees' \/ removing' # Nobody
    <3>1. CASE Present(plugin)
      BY <2>1, <2>2, <2>3, <2>4, <3>1, DrainsAgree DEF SoloInv
    <3>2. CASE ~Present(plugin)
      BY <2>2, <2>3, <2>5, <3>2
    <3>3. QED
      BY <3>1, <3>2
  <2>7. QED
    BY <2>1, <2>5, <2>6 DEF SoloInv, OnlyBy, Sound
<1>8. QED
  BY <1>1, <1>2, <1>3, <1>4, <1>5, <1>6, <1>7 DEF Progress

LEMMA SoloStep ==
  ASSUME RegistryAssumption, NEW w \in Threads, SoloInv(w), RegistryTypeOK',
         [Next /\ OnlyBy(w)]_vars
  PROVE  SoloInv(w)'
<1>1. CASE RunCheck
  BY <1>1, SoloCheck
<1>2. CASE RemoveUnloaded
  <2>1. /\ ~Present(plugin) /\ ~plugin.draining
        /\ files' = NoVersion \/ stayed'
        /\ UNCHANGED <<plugin, pc, message>> /\ removing' = Nobody
    BY <1>2 DEF RemoveUnloaded, SoloInv
  <2>2. Agrees' \/ stayed'
    BY <2>1 DEF Agrees, Wanted, Present
  <2>3. QED
    BY <2>1, <2>2 DEF SoloInv
<1>3. ASSUME NEW t \in Transfers, CreateTransfer(t) \/ EndTransfer(t)
      PROVE  SoloInv(w)'
  <2>1. UNCHANGED <<files, enabled, plugin, pc, message, removing, stayed>>
    BY <1>3 DEF CreateTransfer, EndTransfer
  <2>2. QED
    BY <2>1 DEF SoloInv, Agrees, Drains, Wanted
<1>4. ASSUME NEW th \in Threads \ {w}, OnlyBy(w), Request(th) \/ Progress(th)
      PROVE  FALSE
  <2>1. /\ pc \in [Threads -> Places] /\ pc[th] = "idle" /\ pc'[th] = "idle"
        /\ DOMAIN message = Threads /\ message'[th] = "none"
    BY <1>4 DEF SoloInv, RegistryTypeOK, OnlyBy
  <2>2. ASSUME NEW place \in {"sync", "reload", "uninstall", "copying"}, Start(th, place)
        PROVE  FALSE
    BY <2>1, <2>2 DEF Start, Goto
  <2>3. ~Request(th)
    BY <2>1, <2>2 DEF RefuseInstall, Request, SetEnabled, StartReload, StartUninstall, StartInstall
  <2>4. ~Progress(th)
    BY <2>1 DEF Progress, CopyManifest, Copied, InstallFails, RunSync, RunReload,
                RunUninstall, RemoveFiles, RemovalFails, Answer
  <2>5. QED
    BY <1>4, <2>3, <2>4
<1>5. CASE UNCHANGED vars
  BY <1>5 DEF vars, SoloInv, Agrees, Drains, Wanted
<1>6. QED
  BY <1>1, <1>2, <1>3, <1>4, <1>5, SoloRequest, SoloProgress DEF Next

LEMMA SoloStart ==
  ASSUME RegistryAssumption, NEW w \in Threads, Init
  PROVE  SoloInv(w)
<1>1. RegistryTypeOK
  BY StartsRight DEF Inv
<1>2. /\ plugin \in Loads /\ \A th \in Threads : pc[th] = "idle" /\ message[th] = "none"
      /\ removing = Nobody
  BY DEF Init
<1>3. /\ Present(plugin) <=> Wanted
      /\ ~plugin.draining /\ ~plugin.reloadAfter /\ ~plugin.uninstallAfter
  BY <1>1, <1>2, LoadsType
<1>4. QED
  BY <1>1, <1>2, <1>3 DEF SoloInv, Agrees

\* With one client, whichever it is: once its requests are answered, and the last
\* did not fail, what is loaded is what is installed and enabled, or drains; but
\* for files that a removal has left without telling the client.
THEOREM OneClientSettles ==
  ASSUME NEW w \in Threads
  PROVE  SoloSpec(w) => []SettledMatches
<1> DEFINE Solo == Inv /\ SoloInv(w)
           SoloNext == Next /\ OnlyBy(w)
<1>1. Init => Solo
  BY RegistryAssumption, StartsRight, SoloStart
<1>2. Solo /\ [SoloNext]_vars => Solo'
  BY RegistryAssumption, StepKeeps, SoloStep DEF Inv
<1>3. Solo => SettledMatches
  BY DEF SoloInv, SettledMatches, Quiet, Agrees
<1>4. SoloSpec(w) <=> Init /\ [][SoloNext]_vars
  BY DEF SoloSpec
<1> HIDE DEF Solo, SoloNext
<1>5. QED
  BY <1>1, <1>2, <1>3, <1>4, PTL

\* The same of the instances that TLC checks, for whatever versions, transfers
\* and threads there are: where one web page alone sends requests, each is loaded
\* and unloaded as its answers say, but for a removal that failed untold.
THEOREM OnePageSettles == MCSpec => []PageSettles
<1> DEFINE w == IF w1 \in Threads THEN w1 ELSE Main
           Paged == visit = "page" => Inv /\ SoloInv(w)
<1>1. w \in Threads /\ Threads \ {w} \subseteq Threads \ {w1}
  <2>1. CASE w1 \in Threads
    BY <2>1
  <2>2. CASE w1 \notin Threads
    BY <2>2 DEF Threads
  <2>3. QED
    BY <2>1, <2>2
<1> HIDE DEF w
<1>2. MCInit => Paged
  BY <1>1, RegistryAssumption, StartsRight, SoloStart DEF MCInit
<1>3. Paged /\ [MCNext]_<<vars, visit>> => Paged'
  <2> SUFFICES ASSUME Paged, [MCNext]_<<vars, visit>>, visit' = "page"
               PROVE  Inv' /\ SoloInv(w)'
    OBVIOUS
  <2>1. visit = "page" /\ Inv /\ SoloInv(w)
    BY DEF MCNext
  <2>2. [Next /\ OnlyBy(w)]_vars
    BY <1>1, <2>1 DEF MCNext, There, OnlyBy, vars
  <2>3. Inv'
    BY <2>1, <2>2, RegistryAssumption, StepKeeps
  <2>4. QED
    BY <1>1, <2>1, <2>2, <2>3, RegistryAssumption, SoloStep DEF Inv
<1>4. Paged => PageSettles
  BY <1>1 DEF SoloInv, PageSettles, SettledMatches, Quiet, Agrees
<1> HIDE DEF Paged
<1>5. QED
  BY <1>2, <1>3, <1>4, PTL DEF MCSpec
=============================================================================
