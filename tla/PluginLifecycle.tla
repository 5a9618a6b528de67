--------------------------- MODULE PluginLifecycle ---------------------------
(***************************************************************************)
(* Python plugins: installed and updated from a repository, started as     *)
(* threads, stopped, restarted and removed (Plugins.cpp, Files.cpp,        *)
(* HTTPUtils.cpp, PluginTable.h, Plugin::run()).  Everything but the       *)
(* threads runs on the main thread, which stop() blocks until the thread   *)
(* has ended.                                                              *)
(*   available   _availablePlugins: versions in the repository             *)
(*   installed   _installedPlugins, and the folders on disk: versions      *)
(*   enabled     ids with the enabled column set in the plugins table      *)
(*   threads     _runningPlugins: per id the version that runs, whether    *)
(*               its interruption was requested, its remove flag, and      *)
(*               whether the thread is still alive                         *)
(*   restarts    _restartQueue                                             *)
(*   downloads   ids whose packages are under way (HTTPUtils)              *)
(*   waiting     the id stop() waits for, or NOBODY                        *)
(***************************************************************************)
EXTENDS Naturals, Functions

CONSTANTS
  Services, Modules,    \* ids "service.*" and "module.*"; only services are started
  Versions,             \* as numbers: Files::getIntV() strips the dots
  Needs,                \* per id the ids of its dependencies, which have none themselves
  NOBODY

ASSUME PluginAssumption ==
  /\ Services \intersect Modules = {} /\ NOBODY \notin Services
  /\ Versions \subseteq Nat
  /\ Needs \in [Services \union Modules -> SUBSET Modules] /\ \A m \in Modules : Needs[m] = {}

VARIABLES available, installed, enabled, threads, restarts, downloads, waiting

pluginVars == <<available, installed, enabled, threads, restarts, downloads, waiting>>

Ids == Services \union Modules
Empty == [i \in {} |-> 0]
Running == DOMAIN threads

Thread(v) == [version |-> v, interrupted |-> FALSE, remove |-> FALSE, alive |-> TRUE]

Interrupt(t) == [t EXCEPT !.interrupted = t.alive]

Startable(id) == id \in Services \intersect DOMAIN installed'

(* Plugins::start(), on the state s *)
Started(s, id) ==
  LET stopping == s.threads[id].interrupted /\ s.threads[id].alive
  IN  CASE Startable(id) /\ id \notin DOMAIN s.threads ->
             [s EXCEPT !.threads = [i \in DOMAIN @ \union {id} |->
                                      IF i = id THEN Thread(installed'[id]) ELSE @[i]],
                       !.enabled = @ \union {id}]
        [] Startable(id) /\ id \in DOMAIN s.threads /\ ~stopping ->
             [s EXCEPT !.threads[id] = Interrupt(@), !.restarts = @ \union {id}]
        [] OTHER -> s

State == [threads |-> threads, enabled |-> enabled, restarts |-> restarts]
Becomes(s) == threads' = s.threads /\ enabled' = s.enabled /\ restarts' = s.restarts

PluginInit ==
  /\ available = Empty
  /\ installed \in UNION {[S -> Versions] : S \in SUBSET Ids}
  /\ enabled \in SUBSET (Services \intersect DOMAIN installed)
  /\ threads = [i \in enabled |-> Thread(installed[i])]
  /\ restarts = {} /\ downloads = {} /\ waiting = NOBODY

MainFree == waiting = NOBODY

-----------------------------------------------------------------------------
(* Files::installPlugin(): newer versions only; what a plugin needs is     *)
(* requested with it                                                       *)
Newer(id, repo) == id \in DOMAIN repo /\ (id \in DOMAIN installed => installed[id] < repo[id])

Requested(id, repo) ==
  IF ~Newer(id, repo) \/ ~(Needs[id] \subseteq DOMAIN installed \union DOMAIN repo) THEN {}
  ELSE {id} \union (Needs[id] \ DOMAIN installed)

Install(id) ==
  /\ MainFree
  /\ downloads' = downloads \union Requested(id, available)
  /\ UNCHANGED <<available, installed, enabled, threads, restarts, waiting>>

(* the list of the repository arrives: installed plugins are updated, here  *)
(* all with auto_update                                                     *)
Available(repo) ==
  /\ MainFree
  /\ available' = repo
  /\ downloads' = downloads \union UNION {Requested(id, repo) : id \in DOMAIN installed \intersect DOMAIN repo}
  /\ UNCHANGED <<installed, enabled, threads, restarts, waiting>>

(* mutant: a service that already runs is left alone *)
AfterInstall_IfStopped(id) == id \in enabled \ Running

AfterInstall(id) == id \in enabled

(* the package arrives, is unpacked over the old one and starts if enabled *)
Downloaded(id) ==
  /\ MainFree /\ id \in downloads \intersect DOMAIN available
  /\ downloads' = downloads \ {id}
  /\ installed' = [i \in DOMAIN installed \union {id} |-> IF i = id THEN available[id] ELSE installed[i]]
  /\ IF AfterInstall(id) THEN Becomes(Started(State, id)) ELSE UNCHANGED <<threads, enabled, restarts>>
  /\ UNCHANGED <<available, waiting>>

(* no reply, or a package that cannot be unpacked *)
DownloadFails(id) ==
  /\ MainFree /\ id \in downloads
  /\ downloads' = downloads \ {id}
  /\ UNCHANGED <<available, installed, enabled, threads, restarts, waiting>>

-----------------------------------------------------------------------------
StartPlugin(id) ==
  /\ MainFree /\ UNCHANGED installed
  /\ Becomes(Started(State, id))
  /\ UNCHANGED <<available, downloads, waiting>>

(* Files::removePlugin() *)
Removed(id) ==
  /\ installed' = Restrict(installed, DOMAIN installed \ {id})
  /\ enabled' = enabled \ {id}

(* its thread is to end, and its files go with it if remove *)
Ending(t, remove) == [Interrupt(t) EXCEPT !.remove = @ \/ remove]

(* Plugins::stop(): blocks while the thread is alive *)
StopPlugin(id, remove) ==
  /\ MainFree /\ id \in Running
  /\ threads' = [threads EXCEPT ![id] = Ending(@, remove)]
  /\ enabled' = enabled \ {id}
  /\ waiting' = IF threads[id].alive THEN id ELSE NOBODY
  /\ UNCHANGED <<available, installed, restarts, downloads>>

RemovePlugin(id) ==
  /\ MainFree /\ id \in DOMAIN installed
  /\ IF id \in Running THEN StopPlugin(id, TRUE)
     ELSE Removed(id) /\ UNCHANGED <<available, threads, restarts, downloads, waiting>>

(* the script ends by itself, or because it is interrupted *)
ThreadEnds(id) ==
  /\ id \in Running /\ threads[id].alive
  /\ threads' = [threads EXCEPT ![id].alive = FALSE]
  /\ waiting' = IF waiting = id THEN NOBODY ELSE waiting
  /\ UNCHANGED <<available, installed, enabled, restarts, downloads>>

(* mutant: the queue is only read when the plugin is to be removed *)
Restarts_Forgets(id) == id \in restarts /\ threads[id].remove

Restarts(id) == id \in restarts /\ ~threads[id].remove

(* pluginFinished() *)
Finished(id) ==
  /\ MainFree /\ id \in Running /\ ~threads[id].alive
  /\ IF threads[id].remove THEN installed' = Restrict(installed, DOMAIN installed \ {id})
                           ELSE UNCHANGED installed
  /\ LET rest == [threads |-> Restrict(threads, Running \ {id}), restarts |-> restarts \ {id},
                  enabled |-> IF threads[id].remove THEN enabled \ {id} ELSE enabled]
     IN  Becomes(IF Restarts(id) THEN Started(rest, id) ELSE rest)
  /\ UNCHANGED <<available, downloads, waiting>>

(* the program is started again: Files::readInstalledPlugins() *)
Reboot ==
  /\ threads' = [i \in enabled \intersect DOMAIN installed |-> Thread(installed[i])]
  /\ available' = Empty /\ restarts' = {} /\ downloads' = {} /\ waiting' = NOBODY
  /\ UNCHANGED <<installed, enabled>>

PluginNext ==
  \/ \E repo \in UNION {[S -> Versions] : S \in SUBSET Ids} : Available(repo)
  \/ \E id \in Ids : \/ Install(id) \/ Downloaded(id) \/ DownloadFails(id)
                     \/ StartPlugin(id) \/ StopPlugin(id, FALSE) \/ RemovePlugin(id)
                     \/ ThreadEnds(id) \/ Finished(id)
  \/ Reboot

(* a script ends when its interruption is requested (Plugin::run() only     *)
(* then leaves it to python), and Qt delivers finished()                    *)
PluginFairness ==
  \A id \in Services :
    /\ WF_pluginVars(ThreadEnds(id) /\ threads[id].interrupted)
    /\ SF_pluginVars(Finished(id))

PluginSpec == PluginInit /\ [][PluginNext]_pluginVars /\ PluginFairness

-----------------------------------------------------------------------------
PluginTypeOK ==
  /\ available \in UNION {[S -> Versions] : S \in SUBSET Ids}
  /\ installed \in UNION {[S -> Versions] : S \in SUBSET Ids}
  /\ enabled \subseteq Services /\ restarts \subseteq Services /\ downloads \subseteq Ids
  /\ Running \subseteq Services /\ waiting \in Services \union {NOBODY}
  /\ \A id \in Running : threads[id] \in [version : Versions, interrupted : BOOLEAN, remove : BOOLEAN, alive : BOOLEAN]

(* Only what is installed runs, in the installed version or with its        *)
(* interruption requested; an interrupted plugin is waited for or comes     *)
(* back; and a plugin runs enabled, so that it comes back with the next     *)
(* start of the program, unless it is being stopped                         *)
(* (Plugins::start(), stop(), doPluginAction()).                            *)
RunsInstalled ==
  \A id \in Running :
    /\ id \in DOMAIN installed
    /\ threads[id].alive => /\ threads[id].version # installed[id] => threads[id].interrupted
                            /\ threads[id].interrupted => id \in restarts \union {waiting}
                            /\ id \in enabled \union {waiting}

(* A restart that was queued happens: the thread ends and its successor     *)
(* runs the version that is installed then, unless the plugin was removed   *)
(* or the program restarted (pluginFinished()).                             *)
RestartHappens ==
  \A id \in Services :
    id \in restarts ~> \/ id \notin DOMAIN installed
                       \/ id \notin restarts /\ id \in Running /\ threads[id].version = installed[id]
                       \/ threads = [i \in enabled \intersect DOMAIN installed |-> Thread(installed[i])]
=============================================================================
