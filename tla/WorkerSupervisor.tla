--------------------------- MODULE WorkerSupervisor ---------------------------
(***************************************************************************)
(* The runtime supervisor: starts the worker processes in order, watches   *)
(* their heartbeats, restarts what died or went silent until a fuse blows, *)
(* and stops them all.                                                     *)
(*                                                                         *)
(* It is one thread of JavaScript.  Every stretch between two awaits is    *)
(* one step; boot, the WeChat boot loop, stopAll and one restart per       *)
(* worker run interleaved.  A process is a number: the n-th fork of its    *)
(* worker.  The runner listens to the processes in "wired", of which it    *)
(* thinks "child" is the present one; its own status is "stopped" also     *)
(* when it is stopping, crashed or failed.  Its timers against a process   *)
(* that does not leave are those in its fields, for "armed", and those     *)
(* that a later stop of the same runner has pushed out of the fields, for  *)
(* "loose".                                                                *)
(***************************************************************************)
EXTENDS Integers, Sequences, FiniteSets

CONSTANTS
  Worker,
  QianfanOrder, WechatOrder,  \* the two boot orders; stopAll goes backwards
  MaxRestarts,    \* automatic restarts in ten minutes before the fuse blows
  Command,        \* what the user may ask for: "start", "stop", "restart"
  MaxFault, MaxCommand  \* bounds: faults of processes and forks, commands of the user

ASSUME SupervisorAssumption ==
  /\ QianfanOrder \in Seq(Worker) /\ WechatOrder \in Seq(Worker)
  /\ MaxRestarts \in Nat

\* QIANFAN_BOOT_ORDER and WECHAT_BOOT_ORDER name every worker, each once.
ASSUME OrdersAssumption ==
  /\ QianfanOrder # <<>>
  /\ \A w \in Worker :
       \/ \E i \in DOMAIN QianfanOrder : QianfanOrder[i] = w
       \/ \E i \in DOMAIN WechatOrder : WechatOrder[i] = w
  /\ \A i, j \in DOMAIN QianfanOrder : QianfanOrder[i] = QianfanOrder[j] => i = j
  /\ \A i, j \in DOMAIN WechatOrder : WechatOrder[i] = WechatOrder[j] => i = j
  /\ \A i \in DOMAIN QianfanOrder, j \in DOMAIN WechatOrder :
       QianfanOrder[i] # WechatOrder[j]

VARIABLES
  wk,        \* the processes of each worker, and what is known of it: its
             \* runner and its timers, status, watchdog entry, recent restarts,
             \* restart timer
  restart,   \* restartWorker of each worker: how far it is
  boot,      \* _startAllInner
  wechat,    \* startWechatWorkers
  wechatDone, wechatBusy,   \* its flags BootCompleted and BootInProgress
  stop,      \* stopAll
  sup,       \* supervisorStatus
  watching,  \* the watchdog's interval is running
  faults,
  commands   \* what the user has asked for; "crossed": at a bad moment

vars == <<wk, restart, boot, wechat, wechatDone, wechatBusy, stop, sup, watching,
          faults, commands>>

StopOrder ==
  LET all == QianfanOrder \o WechatOrder
  IN [i \in 1..Len(all) |-> all[Len(all) + 1 - i]]

\* up: running; hung: alive and silent; told: asked to shut down;
\* killed: signalled, not gone yet
ProcState == {"up", "hung", "told", "killed", "dead"}
\* on: starting or running, which nothing here tells apart
Status    == {"registered", "on", "failed", "stopping", "stopped", "timeout"}
Reason    == {"crashed", "timeout", "start_failed"}
Off       == [at |-> "off", i |-> 0, on |-> 0]
NoWechat  == [at |-> "off", i |-> 0, late |-> FALSE]

TypeOK ==
  /\ \A w \in Worker :
       /\ wk[w].proc \in Seq(ProcState)
       /\ wk[w].child \in 0..Len(wk[w].proc)
       /\ wk[w].wired \subseteq 1..Len(wk[w].proc)
       /\ wk[w].armed \in 0..Len(wk[w].proc)
       /\ wk[w].loose \subseteq 1..Len(wk[w].proc)
       /\ wk[w].runner \in {"registered", "starting", "stopped"}
       /\ wk[w].stopReq \in BOOLEAN
       /\ wk[w].state \in Status
       /\ wk[w].entry \in {"none", "fresh", "pending"}
       /\ wk[w].recent \in Nat
       /\ wk[w].timer \in Reason \cup {"none"}
       /\ restart[w].at \in {"off", "stopping", "forking"}
       /\ restart[w].on \in 0..Len(wk[w].proc)
  /\ boot.at \in {"off", "start", "forking", "wait"}
  /\ wechat.at \in {"off", "start", "forking"} /\ wechat.late \in BOOLEAN
  /\ stop.at \in {"off", "next", "stopping"}
  /\ {wechatDone, wechatBusy, watching} \subseteq BOOLEAN
  /\ sup \in {"idle", "starting", "running", "degraded", "stopping", "stopped"}

Init ==
  /\ wk = [w \in Worker |->
             [proc |-> <<>>, child |-> 0, wired |-> {}, armed |-> 0, loose |-> {},
              runner |-> "registered",
              stopReq |-> FALSE, state |-> "registered", entry |-> "none",
              recent |-> 0, timer |-> "none"]]
  /\ restart = [w \in Worker |-> Off]
  /\ boot = Off /\ wechat = NoWechat /\ stop = Off
  /\ wechatDone = FALSE /\ wechatBusy = FALSE
  /\ sup = "idle" /\ watching = FALSE
  /\ faults = 0 /\ commands = <<>>

(***************************************************************************)
(* WorkerRunner and RestartPolicy, as functions of what is known of a      *)
(* worker.                                                                 *)
(***************************************************************************)
Detached(r) == [r EXCEPT !.child = 0, !.wired = @ \ {r.child}]

BlownFuse(r) == r.recent >= MaxRestarts

AlreadyRunning(r) ==
  /\ r.child # 0 /\ r.proc[r.child] \notin {"killed", "dead"}
  /\ r.runner \in {"registered", "starting"}

\* Bugs: the child is noted though no process came of it; the watchdog is
\* not told.
BoundEarly(r) ==
  [r EXCEPT !.child = Len(r.proc) + 1, !.runner = "starting", !.stopReq = FALSE,
            !.state = "on", !.entry = "fresh"]
NotWatched(r) ==
  [r EXCEPT !.proc = Append(@, "up"), !.child = Len(r.proc) + 1,
            !.wired = @ \cup {Len(r.proc) + 1}, !.runner = "starting",
            !.stopReq = FALSE, !.state = "on"]

\* A new process takes the place of the child, whatever that was.
Forked(r) ==
  [r EXCEPT !.proc = Append(@, "up"), !.child = Len(r.proc) + 1,
            !.wired = @ \cup {Len(r.proc) + 1}, !.runner = "starting",
            !.stopReq = FALSE, !.state = "on", !.entry = "fresh"]

\* Fork can fail (EPERM, EBUSY, EMFILE), which is a fault.  Bound: not behind a stop.
ForkMayFail == faults < MaxFault /\ \A i \in DOMAIN commands : commands[i] # "stop"

\* startWorker: what it leaves, and whether the caller is kept waiting
\* between two attempts to fork.
StartOutcomes(r) ==
  IF BlownFuse(r)           THEN {[r |-> [r EXCEPT !.state = "failed"], waits |-> FALSE]}
  ELSE IF AlreadyRunning(r) THEN {[r |-> [r EXCEPT !.state = "on", !.entry = "fresh"],
                                   waits |-> FALSE]}
  ELSE {[r |-> Forked(r), waits |-> FALSE]}
         \cup IF ForkMayFail
                THEN {[r |-> [r EXCEPT !.runner = "starting", !.stopReq = FALSE,
                                       !.state = "on"], waits |-> TRUE]}
                ELSE {}

CountsFault(o) == faults' = IF o.waits THEN faults + 1 ELSE faults

\* scheduleWorkerRestart: not while a restart is waiting or under way.
Scheduled(r, reason, restarting) ==
  [r EXCEPT !.timer = IF @ = "none" /\ ~restarting THEN reason ELSE @]

\* After the wait the fork works, or the runner gives up.
ForkOutcomes(r, restarting) ==
  {Forked(r),
   Scheduled([Detached(r) EXCEPT !.runner = "stopped", !.state = "failed",
                                 !.recent = @ + 1],
             "start_failed", restarting)}

NothingToStop(r) == r.child = 0 \/ r.proc[r.child] \in {"killed", "dead"}

\* stopWorker up to its await; it waits for StopWaitsFor.  With nothing to stop
\* it clears the timers in the fields, whomever they are for; else its own take
\* the fields, and what was there runs on.
StopCalled(r) ==
  IF NothingToStop(r)
    THEN [Detached(r) EXCEPT !.runner = "stopped", !.state = "stopping", !.armed = 0]
    ELSE [r EXCEPT !.stopReq = TRUE, !.runner = "stopped", !.state = "stopping",
                   !.proc[r.child] = IF @ = "up" THEN "told" ELSE @,
                   !.armed = r.child, !.loose = @ \cup ({r.armed} \ {0})]
NeverWaits(r)   == 0    \* bug: the await is forgotten
StopWaitsFor(r) == IF NothingToStop(r) THEN 0 ELSE r.child

\* stopWorker after its await.
StopReturned(r) == [r EXCEPT !.entry = "none", !.state = "stopped"]

(***************************************************************************)
(* Processes and what the supervisor hears of them.                        *)
(***************************************************************************)
StopsNow(w, p) == stop.on = p /\ StopOrder[stop.i] = w
Waiting(w, p)  == restart[w].on = p \/ StopsNow(w, p)

\* The exit handlers: the runner's own, then one of each stop that waits.  That
\* one clears the timers in the fields; a loose one finds the process gone.
Exit(w, p, code) ==
  LET r       == [wk[w] EXCEPT !.proc[p] = "dead", !.loose = @ \ {p}]
      crashed == ~r.stopReq /\ code # 0
      seen    == IF p \notin r.wired THEN r
                 ELSE Scheduled([Detached(r) EXCEPT !.wired = @ \ {p}, !.runner = "stopped"],
                                "crashed", restart[w].at # "off" \/ ~crashed)
  IN /\ wk' = [wk EXCEPT ![w] =
                 IF Waiting(w, p) THEN [Detached(seen) EXCEPT !.runner = "stopped",
                                                              !.armed = 0]
                                  ELSE seen]
     /\ restart' = IF restart[w].on = p THEN [restart EXCEPT ![w].on = 0] ELSE restart
     /\ stop' = IF StopsNow(w, p) THEN [stop EXCEPT !.on = 0] ELSE stop
     /\ UNCHANGED <<boot, wechat, wechatDone, wechatBusy, sup, watching, commands>>

\* A crash, or an uncaught exception: that one leaves with exit code 0.
Die(w) ==
  /\ faults < MaxFault /\ faults' = faults + 1
  /\ \E p \in 1..Len(wk[w].proc), code \in {0, 1} :
       wk[w].proc[p] \in {"up", "hung"} /\ Exit(w, p, code)

Hang(w) ==
  /\ faults < MaxFault /\ faults' = faults + 1
  /\ \E p \in 1..Len(wk[w].proc) :
       wk[w].proc[p] = "up" /\ wk' = [wk EXCEPT ![w].proc[p] = "hung"]
  /\ UNCHANGED <<restart, boot, wechat, wechatDone, wechatBusy, stop, sup, watching,
                 commands>>

\* It does as told, or dies of the signal.  One the runner has let go of
\* leaves too: its next heartbeat finds the channel closed.
Leave(w) ==
  /\ \E p \in 1..Len(wk[w].proc) :
       \/ wk[w].proc[p] = "told"   /\ Exit(w, p, 0)
       \/ wk[w].proc[p] = "killed" /\ Exit(w, p, 1)
       \/ wk[w].proc[p] = "up" /\ p \notin wk[w].wired /\ Exit(w, p, 0)
  /\ UNCHANGED faults

\* The processes a timer will kill.
Timed(r) == r.loose \cup ({r.armed} \ {0})

\* Bug: a worker that does not listen is left alone.
AsksOnly(w) ==
  /\ \E p \in Timed(wk[w]) :
       /\ wk[w].proc[p] = "told"
       /\ wk' = [wk EXCEPT ![w].proc[p] = "killed"]
  /\ UNCHANGED <<restart, boot, wechat, wechatDone, wechatBusy, stop, sup, watching,
                 faults, commands>>

\* SIGTERM after 3 s, SIGKILL after 8 s, unless the timers have been cleared.
Kill(w) ==
  /\ \E p \in Timed(wk[w]) :
       /\ wk[w].proc[p] \in {"hung", "told"}
       /\ wk' = [wk EXCEPT ![w].proc[p] = "killed"]
  /\ UNCHANGED <<restart, boot, wechat, wechatDone, wechatBusy, stop, sup, watching,
                 faults, commands>>

Beating(r) == \E p \in r.wired : r.proc[p] = "up"

\* worker.heartbeat; or worker.ready and worker.status, which a locked
\* status does not stop.  What a worker says of its own trouble is left out.
Heartbeat(w) ==
  /\ Beating(wk[w])
  /\ \/ wk[w].state \in {"failed", "timeout", "stopping"}
        /\ wk' = [wk EXCEPT ![w].entry = "fresh"]
     \/ wk' = [wk EXCEPT ![w].entry = "fresh", ![w].state = "on"]
  /\ UNCHANGED <<restart, boot, wechat, wechatDone, wechatBusy, stop, sup, watching,
                 faults, commands>>

\* The watchdog finds a worker silent for 20 s, once.
WatchdogTimeout(w) ==
  /\ watching /\ wk[w].entry = "fresh" /\ ~Beating(wk[w])
  /\ wk' = [wk EXCEPT ![w] =
              Scheduled([@ EXCEPT !.entry = "pending", !.state = "timeout"],
                        "timeout", restart[w].at # "off")]
  /\ UNCHANGED <<restart, boot, wechat, wechatDone, wechatBusy, stop, sup, watching,
                 faults, commands>>

\* The tray's menu and the dialogues of the window reach the supervisor whatever
\* it is doing; a command that meets another one's loop is noted as crossed.
Commanded(c, crossed) ==
  /\ c \in Command /\ Len(commands) < MaxCommand
  /\ commands' = Append(commands, IF crossed THEN "crossed" ELSE c)

(***************************************************************************)
(* restartWorker, by its timer or by hand.                                 *)
(***************************************************************************)
BeginRestart(w, r) ==
  /\ wk' = [wk EXCEPT ![w] = StopCalled(r)]
  /\ restart' = [restart EXCEPT ![w] = [at |-> "stopping", i |-> 0, on |-> StopWaitsFor(r)]]

\* Only a restart after a failed fork is not counted: the failure was.
RestartFires(w) ==
  LET r == [wk[w] EXCEPT !.timer = "none"]
  IN /\ wk[w].timer # "none"
     /\ CASE restart[w].at # "off" -> wk' = [wk EXCEPT ![w] = r] /\ UNCHANGED restart
          [] restart[w].at = "off" /\ BlownFuse(r) ->
               wk' = [wk EXCEPT ![w] = [r EXCEPT !.state = "failed"]] /\ UNCHANGED restart
          [] OTHER ->
               BeginRestart(w, IF wk[w].timer = "start_failed" THEN r
                               ELSE [r EXCEPT !.recent = @ + 1])
     /\ UNCHANGED <<boot, wechat, wechatDone, wechatBusy, stop, sup, watching, faults,
                    commands>>

\* It resets the fuse, and leaves a timer that is set.  The caller sees to no
\* more than that w is not being restarted.
ManualRestart(w) ==
  /\ Commanded("restart", sup = "idle" \/ boot.at \in {"start", "forking"}
                             \/ wechat.at # "off" \/ stop.at # "off")
  /\ restart[w].at = "off"
  /\ BeginRestart(w, [wk[w] EXCEPT !.recent = 0])
  /\ UNCHANGED <<boot, wechat, wechatDone, wechatBusy, stop, sup, watching, faults>>

RestartGo(w) ==
  /\ restart[w].at = "stopping" /\ restart[w].on = 0
  /\ \E o \in StartOutcomes(StopReturned(wk[w])) :
       /\ wk' = [wk EXCEPT ![w] = o.r]
       /\ CountsFault(o)
       /\ restart' = [restart EXCEPT ![w] = IF o.waits THEN [@ EXCEPT !.at = "forking"]
                                                       ELSE Off]
  /\ UNCHANGED <<boot, wechat, wechatDone, wechatBusy, stop, sup, watching, commands>>

\* Should the fork fail again, restartingWorkers still has w.
RestartFork(w) ==
  /\ restart[w].at = "forking"
  /\ \E r \in ForkOutcomes(wk[w], TRUE) : wk' = [wk EXCEPT ![w] = r]
  /\ restart' = [restart EXCEPT ![w] = Off]
  /\ UNCHANGED <<boot, wechat, wechatDone, wechatBusy, stop, sup, watching, faults,
                 commands>>

(***************************************************************************)
(* Boot.                                                                   *)
(***************************************************************************)
AnyFailed == \E w \in Worker : wk[w].state \in {"failed", "timeout"}

\* startAll.  The caller looks at the status once, before Qianfan is launched:
\* by now another start may have left the relay degraded, or a stop be under way.
StartAll ==
  /\ Commanded("start", sup = "degraded")
  /\ boot.at = "off" /\ sup \notin {"starting", "running"}
  /\ boot' = [at |-> "start", i |-> 1, on |-> 0]
  /\ sup' = "starting" /\ watching' = TRUE
  /\ UNCHANGED <<wk, restart, wechat, wechatDone, wechatBusy, stop, faults>>

\* One worker of an order, in a loop that is a record with "at" and "i".
StartOne(w, loop) ==
  \/ /\ loop.at = "start"
     /\ \E o \in StartOutcomes(wk[w]) :
          /\ wk' = [wk EXCEPT ![w] = o.r]
          /\ CountsFault(o)
          /\ \/ o.waits  /\ loop' = [loop EXCEPT !.at = "forking"]
             \/ ~o.waits /\ loop' = [loop EXCEPT !.i = @ + 1]
  \/ /\ loop.at = "forking"
     /\ \E r \in ForkOutcomes(wk[w], restart[w].at # "off") : wk' = [wk EXCEPT ![w] = r]
     /\ loop' = [loop EXCEPT !.at = "start", !.i = @ + 1]
     /\ UNCHANGED faults

BootStep ==
  /\ boot.at \in {"start", "forking"} /\ boot.i <= Len(QianfanOrder)
  /\ StartOne(QianfanOrder[boot.i], boot)
  /\ UNCHANGED <<restart, wechat, wechatDone, wechatBusy, stop, sup, watching, commands>>

\* Then the WeChat workers, beside the wait for the listener.  Bound: a loop that
\* a stop has forgotten ends before the next one begins.
BootWaits ==
  /\ boot.at = "start" /\ boot.i > Len(QianfanOrder)
  /\ wechatDone \/ wechatBusy \/ wechat.at = "off"
  /\ boot' = [boot EXCEPT !.at = "wait"]
  /\ IF wechatDone \/ wechatBusy THEN UNCHANGED <<wechat, wechatBusy>>
     ELSE /\ wechat' = [at |-> "start", i |-> 1, late |-> FALSE]
          /\ wechatBusy' = TRUE
  /\ UNCHANGED <<wk, restart, wechatDone, stop, sup, watching, faults, commands>>

\* It awaits its own loop; another's only while the flag says so.
BootDone ==
  /\ boot.at = "wait"
  /\ wechat.at = "off" \/ (wechat.late /\ ~wechatBusy)
  /\ boot' = Off
  /\ sup' \in {"degraded"} \cup IF AnyFailed THEN {} ELSE {"running"}
  /\ UNCHANGED <<wk, restart, wechat, wechatDone, wechatBusy, stop, watching, faults,
                 commands>>

WechatStep ==
  /\ wechat.at # "off" /\ wechat.i <= Len(WechatOrder)
  /\ StartOne(WechatOrder[wechat.i], wechat)
  /\ UNCHANGED <<restart, boot, wechatDone, wechatBusy, stop, sup, watching, commands>>

WechatDone ==
  /\ wechat.at = "start" /\ wechat.i > Len(WechatOrder)
  /\ wechat' = NoWechat
  /\ wechatDone' = TRUE /\ wechatBusy' = FALSE
  /\ sup' = IF wechat.late /\ ~AnyFailed /\ sup \in {"starting", "degraded"}
              THEN "running" ELSE sup
  /\ UNCHANGED <<wk, restart, boot, stop, watching, faults, commands>>

\* ensureWechatWorkersStarted.  Bound: one loop at a time.
ListenerReady ==
  /\ Beating(wk[QianfanOrder[Len(QianfanOrder)]])
  /\ ~wechatDone /\ ~wechatBusy /\ wechat.at = "off"
  /\ wechat' = [at |-> "start", i |-> 1, late |-> TRUE]
  /\ wechatBusy' = TRUE
  /\ UNCHANGED <<wk, restart, boot, wechatDone, stop, sup, watching, faults, commands>>

(***************************************************************************)
(* stopAll.                                                                *)
(***************************************************************************)
\* Bound: one stopAll at a time.
StopAll ==
  /\ Commanded("stop", FALSE)
  /\ stop.at = "off"
  /\ wk' = [w \in Worker |-> [wk[w] EXCEPT !.timer = "none"]]
  /\ wechatDone' = FALSE /\ wechatBusy' = FALSE
  /\ sup' = "stopping"
  /\ stop' = [at |-> "next", i |-> 1, on |-> 0]
  /\ UNCHANGED <<restart, boot, wechat, watching, faults>>

StopNext ==
  /\ stop.at = "next" /\ stop.i <= Len(StopOrder)
  /\ LET w == StopOrder[stop.i]
     IN /\ wk' = [wk EXCEPT ![w] = StopCalled(@)]
        /\ stop' = [stop EXCEPT !.at = "stopping", !.on = StopWaitsFor(wk[w])]
  /\ UNCHANGED <<restart, boot, wechat, wechatDone, wechatBusy, sup, watching, faults,
                 commands>>

StopGo ==
  /\ stop.at = "stopping" /\ stop.on = 0
  /\ wk' = [wk EXCEPT ![StopOrder[stop.i]] = StopReturned(@)]
  /\ stop' = [at |-> "next", i |-> stop.i + 1, on |-> 0]
  /\ UNCHANGED <<restart, boot, wechat, wechatDone, wechatBusy, sup, watching, faults,
                 commands>>

StopDone ==
  /\ stop.at = "next" /\ stop.i > Len(StopOrder)
  /\ stop' = Off /\ sup' = "stopped" /\ watching' = FALSE
  /\ wk' = [w \in Worker |-> [wk[w] EXCEPT !.entry = "none"]]
  /\ UNCHANGED <<restart, boot, wechat, wechatDone, wechatBusy, faults, commands>>

\* What awaits a promise that is settled runs before the next event.
RestartReady(w) == restart[w].at = "stopping" /\ restart[w].on = 0
StopReady       == stop.at = "next" \/ (stop.at = "stopping" /\ stop.on = 0)
Settled         == ~StopReady /\ \A w \in Worker : ~RestartReady(w)

Event(w) ==
  \/ Leave(w) \/ Kill(w) \/ Heartbeat(w) \/ WatchdogTimeout(w)
  \/ RestartFires(w) \/ RestartFork(w)
Boot == BootStep \/ BootWaits \/ BootDone \/ WechatStep \/ WechatDone
Trouble(w) == Die(w) \/ Hang(w)

Next ==
  \/ StopNext \/ StopGo \/ StopDone \/ \E w \in Worker : RestartGo(w)
  \/ /\ Settled
     /\ \/ \E w \in Worker : Event(w) \/ Trouble(w) \/ ManualRestart(w)
        \/ Boot \/ ListenerReady \/ StartAll \/ StopAll

Spec == Init /\ [][Next]_vars

\* Processes run, signals arrive, timers fire and awaits return.
FairSpec ==
  /\ Spec
  /\ \A w \in Worker :
       /\ WF_vars(Settled /\ Leave(w))        /\ WF_vars(Settled /\ Kill(w))
       /\ WF_vars(Settled /\ Heartbeat(w))    /\ WF_vars(Settled /\ WatchdogTimeout(w))
       /\ WF_vars(Settled /\ RestartFires(w)) /\ WF_vars(Settled /\ RestartFork(w))
       /\ WF_vars(RestartGo(w))
  /\ WF_vars(Settled /\ Boot) /\ WF_vars(StopNext \/ StopGo \/ StopDone)

(***************************************************************************)
(* Properties.                                                             *)
(***************************************************************************)
\* As long as the user has not stopped the relay, nor asked for something while
\* a boot was forking, no worker has two processes at work, whatever dies, hangs,
\* is restarted by hand or can not be forked: two senders would send twice, two
\* callback servers fight for the port.
Undisturbed == \A i \in DOMAIN commands : commands[i] \notin {"stop", "crossed"}
OneProcess ==
  Undisturbed =>
    \A w \in Worker : \A p, q \in 1..Len(wk[w].proc) :
      {wk[w].proc[p], wk[w].proc[q]} \subseteq {"up", "hung"} => p = q

\* While the relay runs, and has not been disturbed in that way, no worker is
\* forgotten: one that is down is being restarted, will be, is still watched by
\* the watchdog, or is shown as failed because its fuse has blown or it could
\* not be forked.
Running == Undisturbed /\ sup \in {"running", "degraded"} /\ boot.at = "off"
GivenUp(w) == BlownFuse(wk[w]) \/ wk[w].state = "failed"
LooksAfter(w) ==
  \/ Beating(wk[w]) \/ GivenUp(w)
  \/ restart[w].at # "off" \/ wk[w].timer # "none"
  \/ watching /\ wk[w].entry = "fresh"
NoneForgotten == Running => \A w \in Worker : LooksAfter(w)

\* Workers that die or hang in that time come back, unless the user disturbs the
\* relay or the window shows them as failed.
Recovers ==
  []<>(Running => \A w \in Worker : Beating(wk[w]) \/ wk[w].state = "failed")

\* The stop under way waits for a hung process whose timers are gone.
Disarmed ==
  \E w \in Worker : \E p \in 1..Len(wk[w].proc) :
    StopsNow(w, p) /\ wk[w].proc[p] = "hung" /\ p \notin Timed(wk[w])

\* A stop comes to its end, whatever hangs and whatever is started behind it,
\* unless another stop of a worker takes away the timers of the one it awaits.
\* The comment on the runner's forced timer (worker-runner.js:374) does not make
\* this exception: stop() always resolves, it says.
StopEndsIfArmed == []<>(stop.at = "off" \/ Disarmed)
=============================================================================
