---------------------------------- MODULE Desk ----------------------------------
(***************************************************************************)
(* The desktop application: its window and tray, the start and the stop    *)
(* they ask of the main process, and what a start does first, which is to  *)
(* see that the chat client runs with its debugging port open - to attach  *)
(* to it, to wait for it, to launch it, or to end one without the port and *)
(* launch it again.                                                        *)
(*                                                                         *)
(* Every start has a controller of its own, so nothing keeps two of them   *)
(* apart; each looks at the client before an await and acts after it.      *)
(***************************************************************************)
EXTENDS Naturals, FiniteSets

CONSTANTS Starts,     \* start requests
          AutoClose,  \* autoCloseExistingQianfanClient
          MaxActs     \* bound: see Act

ASSUME DeskAssumption == AutoClose \in BOOLEAN /\ MaxActs \in Nat

VARIABLES ui,         \* the window: relayStatus, starting
          notifiers,  \* whether notify accounts are set
          polling,    \* whether the window asks for the status
          starts,     \* the stage of every start
          boss,       \* the supervisor's status
          workers,    \* whether it has workers
          stop,       \* whether a stop is under way
          app,        \* the main process
          qianfan,     \* the chat client
          exe,        \* what is installed
          kills,      \* (history) what was ended, and by which kind of start
          crossed,    \* (history) the starts that met another, or somebody launching the client for debugging
          acts        \* how many bounded events have happened

uiVars == <<ui, notifiers, polling>>
deskVars == <<ui, notifiers, polling, starts, boss, workers, stop, app, qianfan, exe, kills, crossed, acts>>

Act == acts < MaxActs /\ acts' = acts + 1
Up == app # "gone"

(* The client runs without its debugging argument, with it but with no open port yet, or with an open port; *)
(* a foreign program may have the port while there is no client.                                            *)
Running == qianfan \in {"plain", "pending", "open"}
\* (mutant) a client that is still on its way is taken for one without the argument
HasOpenPort == qianfan = "open"
HasDebugArg == qianfan \in {"pending", "open"}
(* probeDevTools. *)
Probe == qianfan = "open"

Programs == {"client", "bot"}
DeskInit ==
  /\ ui = [relay |-> "stopped", starting |-> FALSE] /\ notifiers \in BOOLEAN /\ polling = FALSE
  /\ starts = [p \in Starts |-> "none"] /\ boss = "stopped" /\ workers = FALSE /\ stop = FALSE /\ app = "up"
  /\ qianfan \in {"none", "plain", "open", "foreign"} /\ exe \in SUBSET Programs /\ kills = {} /\ crossed = {} /\ acts = 0

(***************************************************************************)
(* The client: the user's, who may launch it by hand for debugging.        *)
(***************************************************************************)
Ended == {"done", "failed"}
UnderWay == {o \in Starts : starts[o] \notin Ended \cup {"none", "answered"}}
KeepAllButClient == UNCHANGED <<uiVars, starts, boss, workers, stop, app, exe, kills>>
UserStartsClient ==
  /\ Act /\ qianfan = "none" /\ qianfan' \in {"plain", "pending"}
  /\ crossed' = IF qianfan' = "pending" THEN crossed \cup UnderWay ELSE crossed
  /\ KeepAllButClient
UserClosesClient == Act /\ Running /\ qianfan' = "none" /\ UNCHANGED crossed /\ KeepAllButClient
PortOpens == qianfan = "pending" /\ qianfan' = "open" /\ UNCHANGED <<crossed, acts>> /\ KeepAllButClient

(***************************************************************************)
(* A start.                                                                *)
(***************************************************************************)
Goes(p, stage) == starts' = [starts EXCEPT ![p] = stage]
KeepClient == UNCHANGED <<qianfan, exe, kills, crossed>>
KeepRest == UNCHANGED <<uiVars, boss, workers, stop, app>>

(* taskkill takes whatever has the name, and it may survive. *)
Kill(p) ==
  /\ kills' = kills \cup {[hit |-> qianfan, crossed |-> p \in crossed]}
  /\ qianfan' \in {"none", qianfan}
  /\ UNCHANGED <<exe, crossed>>

(* startRuntimeWithQianfanPreflight: what it looks at before it begins. *)
StartBegins(p) ==
  /\ starts[p] = "asked"
  /\ Goes(p, IF "bot" \notin exe THEN "failed" ELSE IF boss \in {"starting", "running", "degraded"} THEN "done" ELSE "checking")
  /\ KeepClient /\ KeepRest /\ UNCHANGED acts

(* ensureQianfanReady: the port itself. *)
Check(p) ==
  /\ starts[p] = "checking"
  /\ Goes(p, IF Probe THEN "shops" ELSE IF qianfan = "foreign" \/ "client" \notin exe THEN "failed" ELSE "ensuring")
  /\ KeepClient /\ KeepRest /\ UNCHANGED acts

(* ensureQianfanDevToolsReady: every port there may be, and the processes. *)
EnsureDevToolsReady(p) ==
  /\ starts[p] = "ensuring"
  /\ Goes(p, IF Probe THEN "shops" ELSE IF HasDebugArg THEN "attaching" ELSE IF Running THEN "deciding" ELSE "launching")
  /\ KeepClient /\ KeepRest /\ UNCHANGED acts

(* What must not be ended: one that answers, or one that has the argument and may yet. *)
Spared == Probe \/ HasDebugArg
(* killQianfanClientIfNotInDebugMode. *)
KillIfNotInDebugMode(p) ==
  /\ starts[p] = "deciding"
  /\ \/ /\ \/ app # "up"
           \/ Running /\ ~Spared /\ ~AutoClose
        /\ Goes(p, "failed") /\ KeepClient
     \/ /\ app = "up" /\ Running /\ Spared
        /\ Goes(p, IF Probe THEN "shops" ELSE "attaching") /\ KeepClient
     \/ app = "up" /\ ~Running /\ Goes(p, "launching") /\ KeepClient
     \/ app = "up" /\ Running /\ ~Spared /\ AutoClose /\ Kill(p) /\ Goes(p, "stopping")
  /\ KeepRest /\ UNCHANGED acts

(* forceStopQianfanClient: it looks again and again, and from half of its time on it kills again and again. *)
ForceStopLooks(p) ==
  /\ starts[p] \in {"stopping", "restopping"} /\ ~Running
  /\ Goes(p, IF starts[p] = "stopping" THEN "launching" ELSE "spawning")
  /\ KeepClient /\ KeepRest /\ UNCHANGED acts
ForceStopKills(p) ==
  /\ starts[p] \in {"stopping", "restopping"} /\ Running /\ Kill(p)
  /\ KeepRest /\ UNCHANGED <<starts, acts>>
ForceStopGivesUp(p) ==
  /\ starts[p] \in {"stopping", "restopping"} /\ Running /\ Goes(p, "failed")
  /\ KeepClient /\ KeepRest /\ UNCHANGED acts

(* launchQianfanClient looks once more, but not at whether the application is quitting. *)
LaunchClient(p) ==
  /\ starts[p] = "launching"
  /\ \/ ~Running /\ Goes(p, "spawning") /\ KeepClient
     \/ Running /\ Spared /\ Goes(p, "attaching") /\ KeepClient
     \/ Running /\ ~Spared /\ ~AutoClose /\ Goes(p, "failed") /\ KeepClient
     \/ Running /\ ~Spared /\ AutoClose /\ Kill(p) /\ Goes(p, "restopping")
  /\ KeepRest /\ UNCHANGED acts

(* A client that is there already keeps the place: it shows its window. *)
Spawn(p) ==
  /\ starts[p] = "spawning"
  /\ Goes(p, "starting") /\ qianfan' = IF Running THEN qianfan ELSE "pending"
  /\ UNCHANGED <<exe, kills, crossed>> /\ KeepRest /\ UNCHANGED acts
SpawnFails(p) ==
  /\ Act /\ starts[p] = "spawning" /\ Goes(p, "failed") /\ KeepClient /\ KeepRest

WaitForProcessStart(p) ==
  /\ starts[p] = "starting" /\ Goes(p, IF Running THEN "attaching" ELSE "failed")
  /\ KeepClient /\ KeepRest /\ UNCHANGED acts

WaitForDevTools(p) ==
  /\ starts[p] = "attaching"
  /\ \/ Probe /\ Goes(p, "shops")
     \/ ~Probe /\ Goes(p, "failed")
  /\ KeepClient /\ KeepRest /\ UNCHANGED acts

(* A client that is gone again, and one that never shows a shop, count as ready. *)
WaitForShopPages(p) ==
  /\ starts[p] = "shops" /\ Goes(p, "ready") /\ KeepClient /\ KeepRest /\ UNCHANGED acts

(* startAll; a second one waits for the first. *)
StartAll(p) ==
  /\ starts[p] = "ready"
  /\ IF boss \in {"starting", "running"} THEN UNCHANGED <<boss, workers>> ELSE boss' = "starting" /\ workers' = TRUE
  /\ Goes(p, IF boss = "running" THEN "done" ELSE "booting")
  /\ KeepClient /\ UNCHANGED <<uiVars, stop, app, acts>>

(* It does not look at what a stop has done to it meanwhile. *)
StartAllEnds(p) ==
  /\ starts[p] = "booting" /\ boss' \in {"running", "degraded"} /\ Goes(p, "done")
  /\ KeepClient /\ UNCHANGED <<uiVars, workers, stop, app, acts>>

(* Workers come and go; while one is being started the whole is. *)
WorkersVary ==
  /\ Act /\ boss \in {"running", "degraded", "starting"} /\ boss' \in {"running", "degraded", "starting"}
  /\ KeepClient /\ UNCHANGED <<uiVars, starts, workers, stop, app>>
WorkersSettle ==
  /\ boss = "starting" /\ (\A p \in Starts : starts[p] # "booting") /\ boss' \in {"running", "degraded"}
  /\ KeepClient /\ UNCHANGED <<uiVars, starts, workers, stop, app, acts>>

(***************************************************************************)
(* The window.                                                             *)
(***************************************************************************)
Shown(relay, starting) == ui' = [relay |-> relay, starting |-> starting]
KeepBack == UNCHANGED <<boss, workers, app, qianfan, exe, kills, crossed>>

(* handleStartRelay, from the button, the tray or the timer of the automatic start. *)
HandleStartRelay(p) ==
  /\ Act /\ app = "up" /\ starts[p] = "none"
  /\ IF ~notifiers THEN Shown("needs_action", ui.starting) /\ UNCHANGED starts
     ELSE /\ ui.relay # "running" /\ ~ui.starting
          /\ Shown(ui.relay, TRUE) /\ Goes(p, "asked")
  /\ crossed' = IF starts'[p] = "asked" /\ UnderWay # {} THEN crossed \cup UnderWay \cup {p} ELSE crossed
  /\ UNCHANGED <<notifiers, polling, stop, boss, workers, app, qianfan, exe, kills>>

StartAnswered(p) ==
  /\ starts[p] \in Ended /\ ui.starting
  /\ IF starts[p] = "failed" THEN Shown(ui.relay, FALSE) /\ UNCHANGED polling ELSE polling' = TRUE /\ UNCHANGED ui
  /\ Goes(p, "answered")
  /\ KeepBack /\ UNCHANGED <<notifiers, stop, acts>>

(* The button and the tray offer it while the relay runs and is not starting. *)
HandleStopRelay ==
  /\ Act /\ app = "up" /\ ~stop /\ ui.relay \in {"running", "attention"} /\ ~ui.starting
  /\ stop' = TRUE /\ boss' = "stopping" /\ Shown(ui.relay, FALSE)
  /\ KeepClient /\ UNCHANGED <<notifiers, polling, starts, workers, app>>
(* What was started behind its back is not stopped; the status it pushes last clears the window. *)
StopEnds ==
  /\ stop /\ stop' = FALSE /\ boss' = "stopped" /\ polling' = FALSE
  /\ workers' \in {FALSE, boss # "stopping"}
  /\ Shown("stopped", FALSE)
  /\ KeepClient /\ UNCHANGED <<notifiers, starts, app, acts>>

\* (mutant) only a relay that came up, or that is down, has settled
SettledIfReady == boss \in {"running", "stopping", "stopped"}
(* Whether the status says that nothing is starting any more. *)
Settled == boss # "starting"
(* runtime:status:update, after each change and every so often while there are workers. *)
OnRuntimeStatus ==
  /\ boss # "stopped" \/ workers
  /\ Shown(CASE boss = "running" -> "running" [] boss = "starting" -> ui.relay
             [] boss \in {"stopping", "stopped"} -> "stopped" [] OTHER -> "attention",
           IF boss = "starting" THEN TRUE ELSE ui.starting /\ ~Settled)
  /\ KeepBack /\ UNCHANGED <<notifiers, polling, starts, stop, acts>>
(* A worker that exits late, and one that is being started though the whole is stopped. *)
OnLateStatus ==
  /\ Act /\ boss = "stopped"
  /\ \/ Shown("stopped", FALSE)
     \/ workers /\ Shown(ui.relay, TRUE)
  /\ KeepBack /\ UNCHANGED <<notifiers, polling, starts, stop>>

(* startStatusPolling: every three seconds until it runs. *)
PollsOn == boss # "running"
RefreshBackendStatus ==
  /\ polling
  /\ Shown(CASE boss = "running" -> "running" [] boss \in {"starting", "degraded"} -> "attention"
             [] OTHER -> IF ui.starting THEN ui.relay ELSE "stopped",
           ui.starting /\ (boss \in {"stopping", "stopped"} \/ ~Settled))
  /\ polling' = PollsOn
  /\ KeepBack /\ UNCHANGED <<notifiers, starts, stop, acts>>

(* Anything amiss in the environment shows as a relay that needs attention, running or not. *)
HandleCheckEnvironment ==
  /\ Act /\ app = "up" /\ Shown(IF ui.relay = "running" THEN "running" ELSE "attention", ui.starting)
  /\ KeepBack /\ UNCHANGED <<notifiers, polling, starts, stop>>

SaveNotifiers ==
  /\ ~notifiers /\ notifiers' = TRUE
  /\ Shown(IF ui.relay = "needs_action" THEN "stopped" ELSE ui.relay, ui.starting)
  /\ KeepBack /\ UNCHANGED <<polling, starts, stop, acts>>

(* before-quit: everything is stopped, but a start that is under way goes on until the process is gone. *)
BeforeQuit ==
  /\ Act /\ app = "up" /\ app' = "quitting" /\ boss' = "stopping" /\ stop' = TRUE
  /\ KeepClient /\ UNCHANGED <<uiVars, starts, workers>>
Quit ==
  /\ app = "quitting" /\ ~stop /\ app' = "gone" /\ boss' = "stopped" /\ workers' = FALSE
  /\ starts' = [p \in Starts |-> IF starts[p] = "none" THEN "none" ELSE "answered"]
  /\ polling' = FALSE /\ Shown("stopped", FALSE)
  /\ KeepClient /\ UNCHANGED <<notifiers, stop, acts>>

StartStep(p) ==
  \/ StartBegins(p) \/ Check(p) \/ EnsureDevToolsReady(p) \/ KillIfNotInDebugMode(p)
  \/ ForceStopLooks(p) \/ ForceStopGivesUp(p) \/ LaunchClient(p) \/ Spawn(p) \/ WaitForProcessStart(p)
  \/ WaitForDevTools(p) \/ WaitForShopPages(p) \/ StartAll(p) \/ StartAllEnds(p) \/ StartAnswered(p)
WindowStep ==
  \/ HandleStopRelay \/ StopEnds \/ OnRuntimeStatus \/ OnLateStatus \/ RefreshBackendStatus
  \/ HandleCheckEnvironment \/ SaveNotifiers \/ BeforeQuit \/ Quit
DeskNext ==
  /\ Up
  /\ \/ UserStartsClient \/ UserClosesClient \/ PortOpens \/ WorkersVary \/ WorkersSettle \/ WindowStep
     \/ \E p \in Starts : HandleStartRelay(p) \/ StartStep(p) \/ ForceStopKills(p) \/ SpawnFails(p)

(* Every wait of a start has its limit, a stop waits a limited time for each worker, and the status is *)
(* pushed every so often.                                                                              *)
DeskFairness ==
  /\ \A p \in Starts : WF_deskVars(StartStep(p))
  /\ WF_deskVars(StopEnds) /\ WF_deskVars(OnRuntimeStatus) /\ WF_deskVars(WorkersSettle)
DeskSpec == DeskInit /\ [][DeskNext]_deskVars /\ DeskFairness

-----------------------------------------------------------------------------
StartStages == {"none", "asked", "checking", "ensuring", "deciding", "stopping", "restopping", "launching", "spawning",
           "starting", "attaching", "shops", "ready", "booting", "answered"} \cup Ended
(* The type of every variable. *)
DeskTypeOK ==
  /\ ui \in [relay : {"stopped", "running", "attention", "needs_action"}, starting : BOOLEAN]
  /\ notifiers \in BOOLEAN /\ polling \in BOOLEAN /\ starts \in [Starts -> StartStages]
  /\ boss \in {"stopped", "starting", "running", "degraded", "stopping"} /\ workers \in BOOLEAN /\ stop \in BOOLEAN
  /\ app \in {"up", "quitting", "gone"} /\ qianfan \in {"none", "plain", "pending", "open", "foreign"}
  /\ exe \subseteq Programs /\ crossed \subseteq Starts
  /\ kills \subseteq [hit : {"plain", "pending", "open"}, crossed : BOOLEAN]

(* A start that no other start crosses ends no client but one without the debugging argument, whatever  *)
(* the user does to the client between its looks, short of launching one for debugging meanwhile: what  *)
(* was launched for debugging is attached to, or waited for (qianfan-client-launcher.js:265-269).       *)
KillsArePlain == \A k \in kills : ~k.crossed => k.hit = "plain"

(* The window does not say for ever that the relay is starting, which takes every button away. *)
StartingEnds == []<>~ui.starting

=============================================================================
