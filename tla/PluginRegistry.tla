--------------------------- MODULE PluginRegistry ---------------------------
(***************************************************************************)
(* Installing, loading, replacing and removing one plugin while transfers  *)
(* use it: src/src/python/PluginRegistry.cpp, PluginLease.cpp, install()   *)
(* and uninstall() of PluginRepository.cpp, the requests on plugins in     *)
(* src/src/remote/RestPlugins.cpp, and the pages that send them.           *)
(*                                                                         *)
(* Threads.  Each worker serves one client's requests, and a client waits  *)
(* for its answer; the main thread runs the desktop's settings page        *)
(* itself, and is then not in its event loop.  What is loaded changes only *)
(* in closures of the main thread (runOnMain()), one step each; what is    *)
(* installed changes under the mutex of PluginRepository, which a closure  *)
(* may have to wait for while it holds up the event loop.                  *)
(***************************************************************************)
EXTENDS Naturals, FiniteSets

CONSTANTS
  Workers,      \* the threads that serve clients
  Main,         \* the main thread, on which the desktop's page runs
  Versions,     \* the versions of the plugin a repository may offer
  NoVersion,    \* not installed, not loaded, or not in use
  Transfers,    \* the transfers that may be created from the plugin
  Nobody,
  MaxChecks     \* bound on `checks'

Threads == Workers \cup {Main}

ASSUME RegistryAssumption ==
  /\ IsFiniteSet(Transfers)
  /\ Main \notin Workers /\ Nobody \notin Threads
  /\ NoVersion \notin Versions
  /\ MaxChecks \in Nat \ {0}

VARIABLES
  files,     \* the version in the installed-plugins directory
  enabled,   \* the setting "python/plugins/<name>/enabled"
  plugin,    \* its elements of s_loaded and s_side, see Records
  uses,      \* uses[t]: the version whose classes t holds; its PluginLease
  checks,    \* calls of finishDrains() posted by leases that ended
  pc,        \* where each thread is in the request it serves
  message,   \* what the client of each thread shows since its last request
  removing,  \* whose closure waits to remove the files, or Nobody
  stayed     \* (history) a removal left the files and no client was told, and no
             \* request has looked at what is loaded since

vars == <<files, enabled, plugin, uses, checks, pc, message, removing, stayed>>

\* `works': its engines registered, which an error while importing prevents.
Records ==
  [version : Versions \cup {NoVersion}, works : BOOLEAN, draining : BOOLEAN,
   reloadAfter : BOOLEAN, uninstallAfter : BOOLEAN]

Absent == [version |-> NoVersion, works |-> FALSE, draining |-> FALSE,
           reloadAfter |-> FALSE, uninstallAfter |-> FALSE]

Places == {"idle", "sync", "copying", "loading", "installed", "reload", "uninstall",
           "remove", "answer"}

Present(p) == p.version # NoVersion

\* A transfer holds a lease: PluginLease::count() is not zero.
InUse == \E t \in Transfers : uses[t] # NoVersion

\* Nobody holds the mutex of PluginRepository.
RepositoryFree == \A th \in Threads : pc[th] # "copying"

\* The event loop is running, so that events and closures of workers are.
MainFree == pc[Main] = "idle" /\ removing = Nobody

CanRun(th) == removing = Nobody /\ (th = Main \/ pc[Main] = "idle")

Goto(th, place) == pc' = [pc EXCEPT ![th] = place]

-----------------------------------------------------------------------------
(* What happens on the main thread                                         *)

\* loadAndRecord() of what is installed, when it is to be loaded.
Wanted == files # NoVersion /\ enabled

Loads ==
  IF Wanted THEN [version : {files}, works : BOOLEAN, draining : {FALSE},
                  reloadAfter : {FALSE}, uninstallAfter : {FALSE}]
            ELSE {Absent}

Withdrawn(p) == IF Present(p) THEN [p EXCEPT !.draining = TRUE] ELSE p

\* Mutants: the leases are not looked at; nothing follows an unload but a removal.
FinishDrainsInUseMutant(p, th) ==
  \/ /\ p.draining
     /\ plugin' \in IF p.reloadAfter /\ ~p.uninstallAfter THEN Loads ELSE {Absent}
     /\ removing' = IF p.uninstallAfter THEN th ELSE Nobody
  \/ /\ ~p.draining
     /\ plugin' = p /\ UNCHANGED removing

FinishDrainsNoReloadMutant(p, th) ==
  \/ /\ p.draining /\ ~InUse
     /\ plugin' = Absent
     /\ removing' = IF p.uninstallAfter THEN th ELSE Nobody
  \/ /\ ~(p.draining /\ ~InUse)
     /\ plugin' = p /\ UNCHANGED removing

\* finishDrains() with the plugin as p: unloadNow() unless transfers use it, then
\* what was waiting for that.  th is the thread whose closure this is.
FinishDrains(p, th) ==
  \/ /\ p.draining /\ ~InUse
     /\ plugin' \in IF p.reloadAfter /\ ~p.uninstallAfter THEN Loads ELSE {Absent}
     /\ removing' = IF p.uninstallAfter THEN th ELSE Nobody
  \/ /\ ~(p.draining /\ ~InUse)
     /\ plugin' = p /\ UNCHANGED removing

\* sync(): make what is loaded match what is installed and enabled.
Sync(th) ==
  \/ /\ Wanted /\ ~Present(plugin)
     /\ plugin' \in Loads /\ UNCHANGED removing
  \/ /\ Wanted /\ Present(plugin)
     /\ plugin' = [plugin EXCEPT !.draining = @ /\ (plugin.reloadAfter \/ plugin.uninstallAfter)]
     /\ UNCHANGED removing
  \/ /\ ~Wanted
     /\ FinishDrains(Withdrawn(plugin), th)

\* reload(): unload and load again, once idle.
Reload(th) ==
  \/ /\ Present(plugin)
     /\ FinishDrains([Withdrawn(plugin) EXCEPT !.reloadAfter = TRUE], th)
  \/ /\ ~Present(plugin)
     /\ Sync(th)

\* Mutant: a check that nobody posted.
RunCheckMutant ==
  /\ MainFree
  /\ checks' = checks - 1
  /\ FinishDrains(plugin, Main)
  /\ UNCHANGED <<files, enabled, uses, pc, message, stayed>>

\* The last lease of the plugin has ended, and its check has come up.
RunCheck ==
  /\ MainFree /\ checks > 0
  /\ checks' = checks - 1
  /\ FinishDrains(plugin, Main)
  /\ UNCHANGED <<files, enabled, uses, pc, message, stayed>>

\* unloadNow() gets the mutex: PluginRepository::uninstall().  Whatever fails of
\* it is only logged: whoever asked has long been told that it is done.
RemoveUnloaded ==
  /\ removing # Nobody /\ RepositoryFree
  /\ files' \in {NoVersion, files} /\ stayed' = (files' # NoVersion)
  /\ removing' = Nobody
  /\ UNCHANGED <<enabled, plugin, uses, checks, pc, message>>

\* Transfers are created and deleted on the main thread; an engine that has been
\* withdrawn, or never registered, creates none.
CreateTransfer(t) ==
  /\ MainFree /\ uses[t] = NoVersion
  /\ Present(plugin) /\ plugin.works /\ ~plugin.draining
  /\ uses' = [uses EXCEPT ![t] = plugin.version]
  /\ UNCHANGED <<files, enabled, plugin, checks, pc, message, removing, stayed>>

\* Mutant: a lease that ends posts nothing.
EndTransferMutant(t) ==
  /\ MainFree /\ uses[t] # NoVersion /\ checks < MaxChecks
  /\ uses' = [uses EXCEPT ![t] = NoVersion]
  /\ UNCHANGED <<files, enabled, plugin, checks, pc, message, removing, stayed>>

\* ~PluginLease(): the last one posts the check.
EndTransfer(t) ==
  /\ MainFree /\ uses[t] # NoVersion /\ checks < MaxChecks
  /\ uses' = [uses EXCEPT ![t] = NoVersion]
  /\ checks' = IF \E u \in Transfers \ {t} : uses[u] # NoVersion THEN checks ELSE checks + 1
  /\ UNCHANGED <<files, enabled, plugin, pc, message, removing, stayed>>

-----------------------------------------------------------------------------
(* Requests, from a client or from the desktop's page                      *)

\* A client's page shows no message while it waits.  A worker looks for the
\* plugin first.
Start(th, place) ==
  /\ pc[th] = "idle"
  /\ th = Main => removing = Nobody
  /\ Goto(th, place)
  /\ message' = [message EXCEPT ![th] = "none"]
  /\ UNCHANGED <<plugin, uses, checks, removing, stayed>>

\* setPluginEnabled(): the key first, then sync().
SetEnabled(th, on) ==
  /\ Start(th, "sync") /\ files # NoVersion
  /\ enabled' = on
  /\ UNCHANGED files

StartReload(th) ==
  /\ Start(th, "reload") /\ files # NoVersion
  /\ UNCHANGED <<files, enabled>>

StartUninstall(th) ==
  /\ Start(th, "uninstall") /\ files # NoVersion
  /\ UNCHANGED <<files, enabled>>

\* PluginRepository::install() has the mutex, and removes what was there.
StartInstall(th) ==
  /\ Start(th, "copying") /\ RepositoryFree
  /\ files' = NoVersion
  /\ UNCHANGED enabled

\* It refuses first: no such repository or plugin, a manifest that cannot be read,
\* packages nobody agreed to; or the old files cannot be removed, so that nothing
\* can be linked or copied to their place.
RefuseInstall(th) ==
  /\ pc[th] = "idle" /\ RepositoryFree
  /\ th = Main => removing = Nobody
  /\ message' = [message EXCEPT ![th] = "failed"]
  /\ UNCHANGED <<files, enabled, plugin, uses, checks, pc, removing, stayed>>

\* The manifest has been copied or linked: from here on others see the plugin.
CopyManifest(th, v) ==
  /\ pc[th] = "copying" /\ files = NoVersion
  /\ files' = v
  /\ UNCHANGED <<enabled, plugin, uses, checks, pc, message, removing, stayed>>

Copied(th) ==
  /\ pc[th] = "copying" /\ files # NoVersion
  /\ Goto(th, "loading")
  /\ UNCHANGED <<files, enabled, plugin, uses, checks, message, removing, stayed>>

\* A file that cannot be copied leaves the rest there; packages that cannot be
\* fetched make install() remove all of it.  Neither brings back the old version.
InstallFails(th) ==
  /\ pc[th] = "copying"
  /\ files' \in {files, NoVersion}
  /\ Goto(th, "idle")
  /\ message' = [message EXCEPT ![th] = "failed"]
  /\ UNCHANGED <<enabled, plugin, uses, checks, removing, stayed>>

RunSync(th) ==
  /\ pc[th] = "sync" /\ CanRun(th)
  /\ Sync(th)
  /\ Goto(th, "answer")
  /\ stayed' = FALSE
  /\ UNCHANGED <<files, enabled, uses, checks, message>>

RunReload(th) ==
  /\ pc[th] \in {"loading", "reload"} /\ CanRun(th)
  /\ Reload(th)
  /\ Goto(th, IF pc[th] = "loading" THEN "installed" ELSE "answer")
  /\ stayed' = FALSE
  /\ UNCHANGED <<files, enabled, uses, checks, message>>

\* uninstall(), its closure on the main thread.
RunUninstall(th) ==
  /\ pc[th] = "uninstall" /\ CanRun(th)
  /\ FinishDrains(IF Present(plugin)
                    THEN [Withdrawn(plugin) EXCEPT !.uninstallAfter = TRUE] ELSE plugin, th)
  /\ Goto(th, IF Present(plugin') THEN "answer" ELSE "remove")
  /\ stayed' = FALSE
  /\ UNCHANGED <<files, enabled, uses, checks, message>>

\* ... and PluginRepository::uninstall() on the thread itself, unless deferred.  It
\* does not look whether a link could be removed,
RemoveFiles(th) ==
  /\ pc[th] = "remove" /\ removing # th /\ RepositoryFree
  /\ files' \in {NoVersion, files} /\ stayed' = (files' # NoVersion)
  /\ Goto(th, "answer")
  /\ UNCHANGED <<enabled, plugin, uses, checks, message, removing>>

\* ... but answers with an error when a directory could not, or not all of it.
RemovalFails(th) ==
  /\ pc[th] = "remove" /\ removing # th /\ RepositoryFree
  /\ files' \in {NoVersion, files}
  /\ Goto(th, "idle")
  /\ message' = [message EXCEPT ![th] = "failed"]
  /\ UNCHANGED <<enabled, plugin, uses, checks, removing, stayed>>

\* Mutant: a worker answers only when the plugin has stopped draining.
AnswerMutant(th) ==
  /\ pc[th] \in {"installed", "answer"} /\ removing # th
  /\ th = Main \/ ~plugin.draining
  /\ message' = [message EXCEPT ![th] = IF pc[th] = "installed" THEN "installed" ELSE "done"]
  /\ Goto(th, "idle")
  /\ UNCHANGED <<files, enabled, plugin, uses, checks, removing, stayed>>

\* The answer says what status() finds now.
Answer(th) ==
  /\ pc[th] \in {"installed", "answer"} /\ removing # th
  /\ message' = [message EXCEPT ![th] =
       CASE pc[th] = "answer" -> "done"
         [] pc[th] = "installed" /\ plugin.reloadAfter -> "takesOver"
         [] OTHER -> "installed"]
  /\ Goto(th, "idle")
  /\ UNCHANGED <<files, enabled, plugin, uses, checks, removing, stayed>>

-----------------------------------------------------------------------------

\* After globalInit(), which loads what is installed and enabled.
Init ==
  /\ files \in Versions \cup {NoVersion}
  /\ enabled \in BOOLEAN
  /\ plugin \in Loads
  /\ uses = [t \in Transfers |-> NoVersion]
  /\ checks = 0
  /\ pc = [th \in Threads |-> "idle"]
  /\ message = [th \in Threads |-> "none"]
  /\ removing = Nobody
  /\ stayed = FALSE

Request(th) ==
  \/ \E on \in BOOLEAN : SetEnabled(th, on)
  \/ StartReload(th) \/ StartUninstall(th) \/ StartInstall(th) \/ RefuseInstall(th)

Progress(th) ==
  \/ \E v \in Versions : CopyManifest(th, v)
  \/ Copied(th) \/ InstallFails(th)
  \/ RunSync(th) \/ RunReload(th) \/ RunUninstall(th)
  \/ RemoveFiles(th) \/ RemovalFails(th) \/ Answer(th)

Next ==
  \/ RunCheck \/ RemoveUnloaded
  \/ \E t \in Transfers : CreateTransfer(t) \/ EndTransfer(t)
  \/ \E th \in Threads : Request(th) \/ Progress(th)

\* The event loop gets to each event and closure, and a thread to a mutex it
\* waits for, though others may come first.  Users and clients owe nothing.
Fairness ==
  /\ SF_vars(RunCheck) /\ SF_vars(RemoveUnloaded)
  /\ \A th \in Threads : SF_vars(Progress(th))

Spec == Init /\ [][Next]_vars /\ Fairness

-----------------------------------------------------------------------------
(* Properties                                                              *)

RegistryTypeOK ==
  /\ files \in Versions \cup {NoVersion}
  /\ enabled \in BOOLEAN
  /\ plugin \in Records
  /\ uses \in [Transfers -> Versions \cup {NoVersion}]
  /\ checks \in 0 .. MaxChecks
  /\ pc \in [Threads -> Places]
  /\ message \in [Threads -> {"none", "failed", "installed", "takesOver", "done"}]
  /\ removing \in Threads \cup {Nobody}
  /\ stayed \in BOOLEAN

\* A plugin that is disabled, replaced or removed "stays loaded" for the transfers
\* created from it: the version whose classes they hold is the one loaded,
\* whatever requests and failures came since.
InUseStaysLoaded ==
  \A t \in Transfers : uses[t] # NoVersion => plugin.version = uses[t]

\* PluginLease: a transfer takes the version that is loaded, unless that has been
\* withdrawn, and has the classes of that one for as long as it lives.
Leases == INSTANCE Lease WITH
  Holders <- Transfers, Resources <- Versions, None <- NoVersion,
  there <- {plugin.version} \ {NoVersion},
  open <- {v \in {plugin.version} \ {NoVersion} : plugin.works /\ ~plugin.draining},
  held <- uses

Quiet ==
  /\ \A th \in Threads : pc[th] = "idle"
  /\ removing = Nobody /\ checks = 0

\* With requests one at a time: once they are answered, and none failed, the
\* plugin is loaded exactly if it is installed and enabled, or is draining; and
\* if the page says it is installed, the version that runs is the one installed.
\* Except that after a removal whose failure nobody was told of, what cannot be
\* removed is installed and not loaded, until the next request on it.
SettledMatches ==
  Quiet /\ ~stayed /\ (\A th \in Threads : message[th] # "failed") =>
    /\ plugin.draining \/ (Present(plugin) <=> Wanted)
    /\ \A th \in Threads :
         message[th] = "installed" /\ Present(plugin) => plugin.version = files

\* A plugin nobody uses any more does not drain for ever: no request or lease that
\* ends slips past the check that unloads it.
DrainsEnd == ~ <>[] (plugin.draining /\ ~InUse)

\* Every request on plugins is answered: the main thread may wait for the mutex of
\* the repository, and requests for the main thread, but never both in a circle.
CallsReturn == \A th \in Threads : []<> (pc[th] = "idle")

\* The threads that th cannot go on without: for the mutex, those that copy; for a
\* closure, the main thread, unless its event loop is there to run it.
WaitsFor(th) ==
  {u \in Threads :
     \/ /\ pc[u] = "copying"
        /\ pc[th] = "remove" \/ (th = Main /\ removing # Nobody)
     \/ /\ u = Main /\ th # Main /\ ~MainFree
        /\ removing = th \/ pc[th] \in {"sync", "loading", "reload", "uninstall"}}

\* The circle in which CallsReturn cannot hold: some of the threads wait, each
\* for another of them.
NoCircle == ~ \E S \in SUBSET Threads :
  S # {} /\ \A th \in S : WaitsFor(th) \cap S # {}

\* src/webui/src/app/features/settings/extensions-settings.ts, of an install
\* over a version in use: "the new one takes over when they finish."  While the
\* page says so, and the plugin is enabled, either the old version still drains
\* or the new one is loaded.
NewOneTakesOver ==
  \A th \in Threads : Quiet /\ message[th] = "takesOver" /\ enabled => Present(plugin)
=============================================================================
