------------------------------ MODULE Sidecar ------------------------------
(***************************************************************************)
(* The desktop app (desktop/src-tauri/src) and the web servers it runs.    *)
(* The app starts the server as a child process and keeps its handle; a    *)
(* change of a setting kills the server and has a thread start another one *)
(* half a second later; quitting kills it for good.  All servers listen on *)
(* one port, so of several that run only one serves.                       *)
(*                                                                         *)
(* Abstractions.  The settings are a number, which every change moves.  A  *)
(* killed process is gone, its port with it.  Menu, tray and window are    *)
(* left out.                                                               *)
(***************************************************************************)
EXTENDS Integers, Sequences, FiniteSets

CONSTANTS
    NoServer,       \* no handle
    SidecarFaults,  \* a subset of {"save", "spawn", "server", "app"}
    MaxChanges,     \* bound on the changes of settings
    MaxServers      \* bound on the servers that are ever started

ASSUME SidecarAssumption == NoServer \notin Int /\ MaxChanges \in Nat

VARIABLES
    app,        \* "gone", "running", "exiting" or "leaving"
    settings,   \* AppState.settings
    saved,      \* settings.json
    changes,    \* number of changes so far
    child,      \* SidecarManager.child: which server
    servers,    \* all servers that were ever started
    restarts,   \* the settings of the threads that wait to start a server
    abrupt,     \* ghost: a restart was overtaken by another or by the end of
                \* the app, or the app was killed
    broken      \* ghost: a server has died, or was not started, since the
                \* last start of one

sidecarVars == <<app, settings, saved, changes, child, servers, restarts, abrupt, broken>>

SidecarInit ==
    /\ app = "gone"
    /\ settings = 0
    /\ saved = 0
    /\ changes = 0
    /\ child = NoServer
    /\ servers = <<>>
    /\ restarts = {}
    /\ abrupt = FALSE
    /\ broken = FALSE

Live        == {i \in DOMAIN servers : servers[i].state # "dead"}
Serving     == {i \in DOMAIN servers : servers[i].state = "serving"}
ServersLeft == Len(servers) + Cardinality(restarts) < MaxServers
-----------------------------------------------------------------------------
(* SidecarManager *)

SpawnServer(version) ==
    /\ servers' = Append(servers, [settings |-> version, state |-> "starting"])
    /\ child' = Len(servers) + 1
    /\ broken' = FALSE

(* Mutant: the handle is dropped, and the server lives on. *)
StopServer_NoKill == child' = NoServer /\ UNCHANGED servers

StopServer ==
    /\ child' = NoServer
    /\ servers' = IF child = NoServer THEN servers ELSE [servers EXCEPT ![child].state = "dead"]

(* The thread of `restart', after its sleep. *)
Respawn(version) ==
    /\ app # "gone" /\ version \in restarts
    /\ restarts' = restarts \ {version}
    /\ SpawnServer(version)
    /\ UNCHANGED <<app, settings, saved, changes, abrupt>>

RespawnFails(version) ==
    /\ "spawn" \in SidecarFaults
    /\ app # "gone" /\ version \in restarts
    /\ restarts' = restarts \ {version}
    /\ broken' = TRUE
    /\ UNCHANGED <<app, settings, saved, changes, child, servers, abrupt>>
-----------------------------------------------------------------------------
(* The app *)

Setup ==
    /\ app = "gone" /\ ServersLeft
    /\ app' = "running"
    /\ settings' = saved
    /\ SpawnServer(saved)
    /\ UNCHANGED <<saved, changes, restarts, abrupt>>

(* handle_menu_event and save_and_restart; a failure to save is logged. *)
ChangeSetting ==
    /\ app = "running" /\ changes < MaxChanges /\ ServersLeft
    /\ changes' = changes + 1
    /\ settings' = changes + 1
    /\ \/ saved' = settings'
       \/ "save" \in SidecarFaults /\ UNCHANGED saved
    /\ StopServer
    /\ restarts' = restarts \cup {settings'}
    /\ abrupt' = (abrupt \/ restarts # {})
    /\ UNCHANGED <<app, broken>>

(* The menu's Quit: stop, then app.exit. *)
Quit ==
    /\ app = "running"
    /\ app' = "exiting"
    /\ StopServer
    /\ abrupt' = (abrupt \/ restarts # {})
    /\ UNCHANGED <<settings, saved, changes, restarts, broken>>

(* Mutant: only the menu's Quit stops the server. *)
Exit_NoStop ==
    /\ app \in {"running", "exiting"}
    /\ app' = "leaving"
    /\ abrupt' = (abrupt \/ restarts # {})
    /\ UNCHANGED <<settings, saved, changes, child, servers, restarts, broken>>

(* RunEvent::ExitRequested and Exit, after Quit or any other reason. *)
Exit ==
    /\ app \in {"running", "exiting"}
    /\ app' = "leaving"
    /\ StopServer
    /\ abrupt' = (abrupt \/ restarts # {})
    /\ UNCHANGED <<settings, saved, changes, restarts, broken>>

(* The process ends, its threads and handles with it. *)
End ==
    /\ app' = "gone"
    /\ child' = NoServer
    /\ restarts' = {}
    /\ UNCHANGED <<settings, saved, changes, servers, broken>>

ExitProcess == app = "leaving" /\ End /\ UNCHANGED abrupt

Killed == "app" \in SidecarFaults /\ app # "gone" /\ End /\ abrupt' = TRUE
-----------------------------------------------------------------------------
(* A server *)

SetState(i, state) ==
    /\ servers' = [servers EXCEPT ![i].state = state]
    /\ UNCHANGED <<app, settings, saved, changes, child, restarts, abrupt>>

(* runWebMode: net.Listen, or the process exits. *)
Listen(i) ==
    /\ servers[i].state = "starting"
    /\ SetState(i, IF Serving = {} THEN "serving" ELSE "dead")
    /\ UNCHANGED broken

(* Nobody reads what the child reports of its end. *)
ServerDies(i) ==
    /\ "server" \in SidecarFaults /\ i \in Live
    /\ SetState(i, "dead")
    /\ broken' = TRUE

SidecarNext ==
    \/ Setup \/ ChangeSetting \/ Quit \/ Exit \/ ExitProcess \/ Killed
    \/ \E version \in restarts : Respawn(version) \/ RespawnFails(version)
    \/ \E i \in DOMAIN servers : Listen(i) \/ ServerDies(i)

SidecarSpec == SidecarInit /\ [][SidecarNext]_sidecarVars
-----------------------------------------------------------------------------
(* Properties *)

(* While nothing is under way the app has a server that answers, however   *)
(* quickly its settings were changed and whatever an earlier run of it has *)
(* left behind; and that server has the settings as they are, and so its   *)
(* changes have taken effect, unless one came too soon after another.      *)
DashboardIsServed ==
    app = "running" /\ restarts = {} /\ Live = Serving /\ ~broken =>
        /\ Serving # {}
        /\ ~abrupt => \A i \in Serving : servers[i].settings = settings

(* The app holds the handle of every server that runs, so that the next    *)
(* change or the end of the app stops it; none is left when it has ended,  *)
(* unless it ended, or a setting was changed, while a restart waited.      *)
NoOrphans == ~abrupt => Live \subseteq {child}
=============================================================================
