------------------------------ MODULE HomeStatus ------------------------------
(***************************************************************************)
(* What the home page says of the workers, and what they are really at.    *)
(*                                                                         *)
(* The supervisor keeps what each worker reported last, beside the age of  *)
(* its last message.  computeRuntimeHealth turns that into four lamps and  *)
(* one title; the page is told after every change and every five seconds,  *)
(* and time is counted in those.  The listener reports until it is at      *)
(* work and never again; the callback worker kills, starts and awaits the  *)
(* WeChat client before its server listens, and tries again for ever.      *)
(* How restarts, stops and boots run over each other is WorkerSupervisor.  *)
(***************************************************************************)
EXTENDS Naturals

CONSTANTS
  WATCHDOG_NORMAL_MS, WATCHDOG_WARN_MS,  \* ages of the lamp, in five seconds
  heartbeatTimeoutMs,                    \* of the watchdog
  MaxSilence,     \* bound: ages are not told apart beyond it
  MaxRecent,      \* restarts before the fuse blows
  MaxHomeEvents   \* bound: faults of workers, what the user does to WeChat

ASSUME HomeAssumption ==
  /\ {WATCHDOG_NORMAL_MS, WATCHDOG_WARN_MS, heartbeatTimeoutMs} \subseteq 1..(MaxSilence - 1)
  /\ WATCHDOG_NORMAL_MS < WATCHDOG_WARN_MS
  /\ heartbeatTimeoutMs <= WATCHDOG_WARN_MS
  /\ {MaxSilence, MaxRecent, MaxHomeEvents} \subseteq Nat

VARIABLES
  wk,       \* process of a worker, its business, and what the supervisor knows
  feed,     \* age of the newest message of any worker
  phase, qianfanReady, listenerReady,  \* what the listener reported last
  businessReady,                       \* what the callback worker reported last
  relay,    \* supervisorStatus, after the first forks of a boot
  accounts, \* somebody is set to receive notices
  boot,     \* boot of the callback worker
  wechat,   \* the client: "off", asking for a "login", of the "bot", of "another"
  port,     \* who listens on the callback port
  homeEvents

listenerVars == <<phase, qianfanReady, listenerReady>>
wechatVars == <<businessReady, boot, wechat, port>>
homeVars == <<wk, feed, listenerVars, relay, accounts, wechatVars, homeEvents>>

Core == {"listener", "callback", "notifier"}
HomeWorker == Core \cup {"other"}  \* the rest, whose messages feed the same lamp

Never == MaxSilence + 1
Older(age) == IF age >= MaxSilence THEN age ELSE age + 1
\* The watchdog's entry of a worker: the age of its last beat, or
Unwatched == heartbeatTimeoutMs + 2
TimeoutPending == heartbeatTimeoutMs + 3

HomeInit ==
  /\ wk = [w \in HomeWorker |->
             [proc |-> "new", done |-> FALSE, erred |-> FALSE, status |-> "starting",
              watch |-> 0, timer |-> FALSE, recent |-> 0]]
  /\ feed = Never
  /\ phase = "" /\ qianfanReady = FALSE /\ listenerReady = FALSE
  /\ businessReady = FALSE
  /\ relay = "starting" /\ accounts \in BOOLEAN
  /\ boot = "none" /\ wechat \in {"off", "login", "bot"} /\ port = "free"
  /\ homeEvents = 0

HomeEvent == homeEvents < MaxHomeEvents /\ homeEvents' = homeEvents + 1

(***************************************************************************)
(* computeRuntimeHealth                                                    *)
(***************************************************************************)
Is(w, statuses) == wk[w].status \in statuses
Ready == qianfanReady /\ listenerReady
wechatReady == Is("callback", {"running"}) \/ businessReady

computeWatchdogHealth ==
  CASE feed = Never -> "unknown"
    [] feed <= WATCHDOG_NORMAL_MS -> "normal"
    [] feed \in (WATCHDOG_NORMAL_MS + 1)..WATCHDOG_WARN_MS -> "warning"
    [] feed \in (WATCHDOG_WARN_MS + 1)..MaxSilence -> "error"

computeQianfanHealth ==
  IF Ready THEN "normal"
  ELSE IF Is("listener", {"failed"}) \/ phase = "failed" THEN "error"
  ELSE IF phase = "starting" \/ qianfanReady \/ Is("listener", {"starting", "degraded"})
    THEN "warning"
  ELSE "error"

computeWechatHealth ==
  IF wechatReady /\ accounts /\ Is("notifier", {"running"}) THEN "normal"
  ELSE IF wechatReady /\ ~accounts THEN "warning"
  ELSE IF Is("callback", {"failed", "timeout"}) \/ Is("notifier", {"failed"}) THEN "error"
  ELSE IF Is("callback", {"starting", "degraded"}) \/ ~wechatReady THEN "warning"
  ELSE "error"

\* getStatus shows "running" for the relay.
ShownRunning ==
  /\ relay = "running" /\ Ready
  /\ \A w \in HomeWorker : ~Is(w, {"failed", "timeout", "starting"})
  /\ \E w \in HomeWorker : Is(w, {"running"})
fullReady == ShownRunning /\ wechatReady

computeRelayHealth ==
  IF (\E w \in Core : Is(w, {"failed", "timeout"})) \/ computeWatchdogHealth = "error"
    THEN "error"
  ELSE IF fullReady /\ computeWatchdogHealth = "normal"
    THEN "normal"
  ELSE "warning"

Lamps == {computeWatchdogHealth, computeQianfanHealth, computeWechatHealth, computeRelayHealth}
computeOverallHealth ==
  LET lamps == Lamps
  IN IF "error" \in lamps THEN "error" ELSE IF "warning" \in lamps THEN "warning" ELSE "normal"

(***************************************************************************)
(* Five seconds                                                            *)
(***************************************************************************)
\* The status after a heartbeat, which promotes any worker but the listener.
HeartbeatStatus(w) ==
  IF Is(w, {"failed", "degraded", "timeout", "restarting", "stopping"}) THEN wk[w].status
  ELSE IF w # "listener" \/ Ready THEN "running"
  ELSE IF Is(w, {"starting"}) THEN "starting"
  ELSE "degraded"

Overdue(r) == r.watch > heartbeatTimeoutMs

\* mutant: the check looks at the newest message of any worker
CheckedByFeed(r) ==
  IF feed > heartbeatTimeoutMs /\ Overdue(r) /\ r.watch \notin {Unwatched, TimeoutPending}
    THEN [r EXCEPT !.watch = TimeoutPending, !.status = "timeout", !.timer = TRUE]
    ELSE r

\* The watchdog's check of an entry.
Checked(r) ==
  IF Overdue(r) /\ r.watch \notin {Unwatched, TimeoutPending}
    THEN [r EXCEPT !.watch = TimeoutPending, !.status = "timeout", !.timer = TRUE]
    ELSE r

\* Heartbeats, and a check.  A forked process reports, and a stopped one is
\* gone, in less than this.
Tick ==
  /\ \A w \in HomeWorker : wk[w].proc \notin {"new", "stopping"}
  /\ wk' = [w \in HomeWorker |->
              IF wk[w].proc = "up"
                THEN [wk[w] EXCEPT !.status = HeartbeatStatus(w), !.watch = 0]
                ELSE Checked([wk[w] EXCEPT
                       !.watch = IF @ > heartbeatTimeoutMs THEN @ ELSE @ + 1])]
  /\ feed' = IF \E w \in HomeWorker : wk[w].proc = "up" THEN 0 ELSE Older(feed)
  /\ UNCHANGED <<listenerVars, relay, accounts, wechatVars, homeEvents>>

(***************************************************************************)
(* Reports: a new process is ready and sends its first one                 *)
(***************************************************************************)
\* handleWorkerMessage: any message but an error feeds the watchdog.
Reports(w, status, r) ==
  /\ wk' = [wk EXCEPT ![w] = [r EXCEPT !.status = status, !.watch = 0, !.erred = FALSE,
                                       !.done = status = "running"]]
  /\ feed' = 0

Up(w) == [wk[w] EXCEPT !.proc = "up"]

StartsWorking(w) ==
  /\ w \in {"notifier", "other"} /\ wk[w].proc = "new"
  /\ Reports(w, "running", Up(w))
  /\ UNCHANGED <<listenerVars, relay, accounts, wechatVars, homeEvents>>

ListenerStarts ==
  /\ wk["listener"].proc = "new"
  /\ Reports("listener", "starting", Up("listener"))
  /\ phase' = "starting" /\ qianfanReady' = FALSE /\ listenerReady' = FALSE
  /\ UNCHANGED <<relay, accounts, wechatVars, homeEvents>>

\* What tryStartListener and the controller of the client report.  The shops
\* may be awaited, or the listener fail, with the client ready.
ListenerReports(p) ==
  /\ wk["listener"].proc = "up" /\ ~wk["listener"].done
  /\ phase' = p
  /\ qianfanReady' \in (CASE p = "running" -> {TRUE} [] p = "failed" -> {FALSE}
                          [] p \in {"starting", "degraded"} -> BOOLEAN)
  /\ listenerReady' = (p = "running")
  /\ Reports("listener", p, wk["listener"])
  /\ UNCHANGED <<relay, accounts, wechatVars, homeEvents>>

CallbackStarts ==
  /\ wk["callback"].proc = "new"
  /\ Reports("callback", "starting", Up("callback"))
  /\ businessReady' = FALSE /\ boot' = "probe"
  /\ UNCHANGED <<listenerVars, relay, accounts, wechat, port, homeEvents>>

\* The boot of the relay waits for the listener, 180 s at most.
BootEnds ==
  /\ relay = "starting"
  /\ \A w \in HomeWorker : wk[w].proc # "new"
  /\ relay' = IF Ready /\ \A w \in HomeWorker : ~Is(w, {"failed", "timeout"})
                THEN "running" ELSE "degraded"
  /\ UNCHANGED <<wk, feed, listenerVars, accounts, wechatVars, homeEvents>>

(***************************************************************************)
(* boot of the callback worker                                             *)
(***************************************************************************)
Booting(at) == wk["callback"].proc = "up" /\ boot = at
LoggedIn == wechat \in {"bot", "another"}

killExistingWechat == boot' = "wait" /\ wechat' = "login"

\* A WeChat that is logged in is reused, whoever it is; one that is known to
\* run is awaited; without an answer it is killed and started again.
Probe ==
  /\ Booting("probe")
  /\ \/ wechat # "off" /\ boot' = "serve" /\ UNCHANGED wechat
     \/ ~LoggedIn /\ boot' = "waitReused" /\ UNCHANGED wechat
     \/ killExistingWechat
  /\ UNCHANGED <<wk, feed, listenerVars, relay, accounts, businessReady, port, homeEvents>>

waitForInjection ==
  /\ \/ Booting("waitReused") \/ Booting("wait")
  /\ \/ wechat = "bot" /\ boot' = "serve" /\ UNCHANGED wechat
     \/ wechat = "another" /\ boot' = "fail" /\ UNCHANGED wechat
     \/ boot = "waitReused" /\ killExistingWechat
     \/ boot = "wait" /\ boot' = "fail" /\ UNCHANGED wechat
  /\ UNCHANGED <<wk, feed, listenerVars, relay, accounts, businessReady, port, homeEvents>>

startCallbackServer ==
  /\ Booting("serve")
  /\ IF port = "free"
       THEN /\ port' = "callback" /\ boot' = "listening" /\ businessReady' = TRUE
            /\ Reports("callback", "running", wk["callback"])
       ELSE boot' = "fail" /\ UNCHANGED <<wk, feed, port, businessReady>>
  /\ UNCHANGED <<listenerVars, relay, accounts, wechat, homeEvents>>

BootFails ==
  /\ Booting("fail")
  /\ Reports("callback", "degraded", wk["callback"]) /\ businessReady' = FALSE /\ boot' = "retry"
  /\ UNCHANGED <<listenerVars, relay, accounts, wechat, port, homeEvents>>

Retry ==
  /\ Booting("retry")
  /\ Reports("callback", "starting", wk["callback"]) /\ businessReady' = FALSE /\ boot' = "probe"
  /\ UNCHANGED <<listenerVars, relay, accounts, wechat, port, homeEvents>>

UserLogsIn(who) ==
  /\ wechat = "login" /\ wechat' = who
  /\ UNCHANGED <<wk, feed, listenerVars, relay, accounts, businessReady, boot, port, homeEvents>>

WechatExits ==
  /\ HomeEvent /\ wechat # "off" /\ wechat' = "off"
  /\ UNCHANGED <<wk, feed, listenerVars, relay, accounts, businessReady, boot, port>>

(***************************************************************************)
(* Processes end, hang and are restarted                                   *)
(***************************************************************************)
\* The callback port is freed with its process.
Frees(w) ==
  IF w = "callback"
    THEN boot' = "none" /\ port' = IF port = "callback" THEN "free" ELSE port
    ELSE UNCHANGED <<boot, port>>

\* An exit with code 0 is not a crash; worker.error may have been sent before.
Exits(w, crashed, status) ==
  /\ HomeEvent
  /\ wk[w].proc \in {"up", "hung"} /\ (status = "degraded" => crashed)
  /\ wk' = [wk EXCEPT ![w].proc = "gone", ![w].status = status, ![w].timer = @ \/ crashed]
  /\ Frees(w)
  /\ UNCHANGED <<feed, listenerVars, relay, accounts, businessReady, wechat>>

Hangs(w) ==
  /\ HomeEvent
  /\ wk[w].proc = "up" /\ wk' = [wk EXCEPT ![w].proc = "hung"]
  /\ UNCHANGED <<feed, listenerVars, relay, accounts, wechatVars>>

Resumes(w) ==
  /\ wk[w].proc = "hung" /\ wk' = [wk EXCEPT ![w].proc = "up"]
  /\ UNCHANGED <<feed, listenerVars, relay, accounts, wechatVars, homeEvents>>

\* worker.error after an unhandled rejection, which the process survives.
Errs(w) ==
  /\ HomeEvent
  /\ wk[w].proc = "up" /\ wk' = [wk EXCEPT ![w].status = "degraded", ![w].erred = TRUE]
  /\ UNCHANGED <<feed, listenerVars, relay, accounts, wechatVars>>

\* With forcePort the process that listens is killed.
ForcesPort ==
  IF port = "callback"
    THEN /\ wk' = [wk EXCEPT !["callback"].proc = "gone", !["callback"].timer = TRUE]
         /\ boot' = "none"
    ELSE UNCHANGED <<wk, boot>>

\* The one-click program started beside the app kills WeChat and takes the port.
CliStarts ==
  /\ HomeEvent
  /\ wechat' = "login" /\ port' = "cli" /\ ForcesPort
  /\ UNCHANGED <<feed, listenerVars, relay, accounts, businessReady>>

CliEnds ==
  /\ port = "cli" /\ port' = "free"
  /\ UNCHANGED <<wk, feed, listenerVars, relay, accounts, businessReady, boot, wechat, homeEvents>>

\* startWorker, once the old process is gone.
Started(r) ==
  IF r.recent >= MaxRecent
    THEN [r EXCEPT !.proc = "gone", !.status = "failed", !.watch = Unwatched]
    ELSE [r EXCEPT !.proc = "new", !.status = "starting", !.watch = 0,
                   !.done = FALSE, !.erred = FALSE]

RestartFires(w) ==
  /\ wk[w].timer
  /\ LET r == [wk[w] EXCEPT !.timer = FALSE, !.recent = @ + 1]
     IN wk' = [wk EXCEPT ![w] =
                 IF @.recent >= MaxRecent THEN [@ EXCEPT !.timer = FALSE, !.status = "failed"]
                 ELSE IF @.proc = "gone" THEN Started(r)
                 ELSE [r EXCEPT !.proc = "stopping", !.status = "stopping"]]
  /\ UNCHANGED <<feed, listenerVars, relay, accounts, wechatVars, homeEvents>>

StopEnds(w) ==
  /\ wk[w].proc = "stopping"
  /\ wk' = [wk EXCEPT ![w] = Started(@)]
  /\ Frees(w)
  /\ UNCHANGED <<feed, listenerVars, relay, accounts, businessReady, wechat, homeEvents>>

HomeNext ==
  \/ Tick
  \/ \E w \in HomeWorker :
       \/ StartsWorking(w)
       \/ \E crashed \in BOOLEAN, s \in {wk[w].status, "degraded"} : Exits(w, crashed, s)
       \/ Hangs(w) \/ Resumes(w) \/ Errs(w)
       \/ RestartFires(w) \/ StopEnds(w)
  \/ ListenerStarts
  \/ \E p \in {"starting", "degraded", "failed", "running"} : ListenerReports(p)
  \/ CallbackStarts \/ BootEnds
  \/ Probe \/ waitForInjection \/ startCallbackServer \/ BootFails \/ Retry
  \/ \E who \in {"bot", "another"} : UserLogsIn(who)
  \/ WechatExits \/ CliStarts \/ CliEnds

(***************************************************************************)
(* Properties                                                              *)
(***************************************************************************)
HomeTypeOK ==
  /\ wk \in [HomeWorker ->
       [proc : {"new", "up", "hung", "stopping", "gone"}, done : BOOLEAN, erred : BOOLEAN,
        status : {"starting", "running", "degraded", "failed", "timeout", "stopping"},
        watch : 0..TimeoutPending, timer : BOOLEAN, recent : 0..MaxRecent]]
  /\ feed \in 0..Never
  /\ relay \in {"starting", "running", "degraded"}
  /\ boot \in {"none", "probe", "waitReused", "wait", "serve", "fail", "listening", "retry"}

BeingRestarted(w) == wk[w].timer \/ wk[w].proc = "stopping"

\* "All is normal" is not said for longer than the watchdog's timeout when a
\* worker that matters is silent and nobody restarts it, nor with a listener
\* that has not begun; "something is wrong" is never said of workers that are
\* all at work; and a callback worker that called itself ready serves the port.
\* But one that was given up is shown as failed only until it complains: after a
\* worker.error it is "degraded", and its entry, pending for ever, is not checked.
LampsTellTruth ==
  LET overall == computeOverallHealth IN
  /\ overall = "normal" =>
       \A w \in Core :
         \/ wk[w].proc = "up" /\ (wk[w].done \/ w = "callback")
         \/ wk[w].proc # "up" /\ wk[w].watch <= heartbeatTimeoutMs
         \/ BeingRestarted(w)
         \/ wk[w].erred /\ wk[w].recent >= MaxRecent
  /\ overall = "error" =>
       \E w \in Core :
         \/ wk[w].proc # "up" \/ ~wk[w].done \/ wk[w].erred
         \/ BeingRestarted(w) \/ wk[w].recent >= MaxRecent
  /\ (wk["callback"].proc = "up" /\ businessReady) => port = "callback"
==============================================================================
