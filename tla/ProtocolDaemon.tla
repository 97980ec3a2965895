---------------------------- MODULE ProtocolDaemon ----------------------------
(***************************************************************************)
(* The protocol daemon: one worker per shop of a configuration file, each  *)
(* of which keeps a socket to the platform and polls the message list, and *)
(* tells the owner of every message of a buyer over WeChat.  An agent on   *)
(* another computer uploads fresh configurations; every upload, every      *)
(* order and every change of the file reloads it, and reloads overlap.     *)
(***************************************************************************)
EXTENDS Naturals, FiniteSets

CONSTANTS Shops, Msgs,
          ShopOf,      \* the shop each message is written to
          WorkerIds,   \* bound: workers that exist at a time, 1 to some number
          Patience,    \* reconnects after which the delay of the next is longer than any attempt takes
          MaxOutside,  \* bound: events from outside (see Outside)
          NoMsg

ASSUME ProtocolDaemonAssumption ==
  /\ Shops # {} /\ ShopOf \in [Msgs -> Shops] /\ NoMsg \notin Msgs
  /\ {MaxOutside, Patience} \subseteq Nat /\ WorkerIds \subseteq Nat \ {0}

VARIABLES file,      \* the shops the configuration file enables
          process,   \* the daemon's process
          wk,        \* the workers, current ones and stopped ones
          listed,    \* the daemon's map of shops to workers, 0 for none
          reload,    \* the reloads under way
          watchDue,  \* the debounce timer of the file watch
          agent,     \* the agent that refreshes the configuration
          arrived,   \* messages buyers have written
          dedup,     \* the keys of the dedup store, and of its file
          notices,   \* messages being told
          tellings,  \* how often each was told since its key was last forgotten
          outside    \* how many events from outside have happened

daemonVars == <<file, process, wk, listed, reload, watchDue, agent, arrived, dedup, notices, tellings, outside>>

Reloads == {"start", "agent", "watch"}
Kinds == {"start", "retry"}
ClientStates == {"none", "opening", "up", "down"}

Off == [shop |-> CHOOSE s \in Shops : TRUE, live |-> FALSE, hashed |-> FALSE, on |-> FALSE,
        expired |-> FALSE, cooling |-> FALSE, timer |-> FALSE, waits |-> 0, watch |-> FALSE,
        client |-> "none", kind |-> "start", old |-> {}, polling |-> FALSE,
        page |-> "idle", todo |-> {}, telling |-> NoMsg]
NoReload == [stage |-> "idle", todo |-> {}, next |-> {}, worker |-> 0]
(* The flag of the daemon; it is set as soon as the process has its API, and cleared when it stops to exit. *)
DaemonUp == process = "up"

DaemonInit ==
  /\ file \in SUBSET Shops
  /\ process = "off" /\ wk = [w \in WorkerIds |-> Off] /\ listed = [s \in Shops |-> 0]
  /\ reload = [r \in Reloads |-> NoReload] /\ watchDue = FALSE /\ agent = "idle"
  /\ arrived = {} /\ dedup = {} /\ notices = {} /\ tellings = [m \in Msgs |-> 0] /\ outside = 0

Outside == outside < MaxOutside /\ outside' = outside + 1

(***************************************************************************)
(* A worker.  Its client opens a socket; an attempt that was under way     *)
(* when its client was torn down is in "old" and goes on without it.       *)
(***************************************************************************)
TeardownSocket(k) ==
  [k EXCEPT !.client = "none", !.on = FALSE,
            !.old = IF k.client = "opening" THEN @ \cup {k.kind} ELSE @]
(* Bound: of each kind one attempt at a time outlives its client. *)
MayTeardown(k) == k.client = "opening" => k.kind \notin k.old

Barred(k) == ~k.live \/ (k.expired /\ k.cooling)
\* (mutant) the close of the socket is only noted
ForgetReconnect(k) == k
(* The delay grows with every reconnect until one succeeds. *)
ScheduleReconnect(k) ==
  IF Barred(k) \/ k.timer THEN k
  ELSE [k EXCEPT !.timer = TRUE, !.waits = IF @ < Patience THEN @ + 1 ELSE @]
Connect(k, kind) ==
  IF Barred(k) THEN k ELSE [TeardownSocket(k) EXCEPT !.client = "opening", !.kind = kind]
MarkCredentialExpired(k) == [TeardownSocket(k) EXCEPT !.expired = TRUE, !.cooling = TRUE]
StopWorker(k) ==
  [TeardownSocket(k) EXCEPT !.live = FALSE, !.timer = FALSE, !.watch = FALSE, !.polling = FALSE]

(* The attempts under way: the one of the client there is, and those that have lost theirs. *)
Attempts(k) == k.old \cup (IF k.client = "opening" THEN {"current"} ELSE {})
Starting(k) == "start" \in k.old \/ (k.client = "opening" /\ k.kind = "start")
(* An attempt ends: what its worker is then, "this.client" being whatever is its client now. *)
Listening(k) == [k EXCEPT !.on = TRUE, !.expired = FALSE, !.waits = 0, !.watch = TRUE]
Connected(k, a) ==
  LET rest == [k EXCEPT !.old = @ \ {a}]
  IN IF a = "current" THEN Listening([k EXCEPT !.client = "up"])
     ELSE IF k.client = "up" THEN Listening(rest)
     ELSE ScheduleReconnect([rest EXCEPT !.on = FALSE])
Dropped(k, a) ==
  IF a = "current" THEN [k EXCEPT !.client = "down", !.on = FALSE]
                   ELSE [k EXCEPT !.old = @ \ {a}, !.on = FALSE]

Idle(w) ==
  /\ ~wk[w].live /\ Attempts(wk[w]) = {} /\ wk[w].page = "idle"
  /\ \A r \in Reloads : reload[r].worker # w
  /\ \A s \in Shops : listed[s] # w
NextIdle(w) == Idle(w) /\ \A v \in WorkerIds : v < w => ~Idle(v)

Keep(worker) == UNCHANGED <<file, process, listed, reload, watchDue, agent, arrived, dedup, notices, tellings>>
                /\ wk' = worker

AttemptOpens(w, a) ==
  /\ a \in Attempts(wk[w]) /\ Keep([wk EXCEPT ![w] = Connected(@, a)]) /\ UNCHANGED outside

AttemptFails(w, a) ==
  /\ Outside /\ a \in Attempts(wk[w])
  /\ Keep([wk EXCEPT ![w] = ScheduleReconnect(Dropped(@, a))])

AttemptRefused(w, a) ==
  LET k == Dropped(wk[w], a)
  IN /\ Outside /\ a \in Attempts(wk[w]) /\ MayTeardown(k)
     /\ Keep([wk EXCEPT ![w] = MarkCredentialExpired(k)])

ReconnectFires(w) ==
  /\ wk[w].timer /\ MayTeardown(wk[w])
  /\ wk[w].waits = Patience => Attempts(wk[w]) = {}
  /\ Keep([wk EXCEPT ![w] = Connect([@ EXCEPT !.timer = FALSE], "retry")]) /\ UNCHANGED outside

(* Frames stop for so long that the activity timer fires. *)
ActivityTimeout(w) ==
  /\ Outside /\ wk[w].watch
  /\ Keep([wk EXCEPT ![w] = IF @.live /\ ~@.expired THEN ScheduleReconnect([@ EXCEPT !.watch = FALSE])
                                                    ELSE [@ EXCEPT !.watch = FALSE]])

SocketCloses(w) ==
  /\ Outside /\ wk[w].client = "up"
  /\ Keep([wk EXCEPT ![w] = ScheduleReconnect([@ EXCEPT !.client = "down", !.on = FALSE])])

SocketErrs(w) ==
  /\ Outside /\ wk[w].client = "up" /\ Keep([wk EXCEPT ![w] = MarkCredentialExpired(@)])

CooldownEnds(w) == wk[w].cooling /\ Keep([wk EXCEPT ![w].cooling = FALSE]) /\ UNCHANGED outside

(***************************************************************************)
(* Messages.  A message is consumed, that is remembered, in memory and in  *)
(* the file, before it is told; what fails to be told is not told again.   *)
(***************************************************************************)
\* (mutant) the store is not asked
AlwaysFresh(m) == TRUE
Fresh(m) == m \notin dedup
Consume(m) ==
  IF Fresh(m) THEN dedup' = dedup \cup {m} /\ notices' = notices \cup {m}
              ELSE UNCHANGED <<dedup, notices>>
KeepDaemon == UNCHANGED <<file, process, listed, reload, watchDue, agent>>

BuyerWrites(m) ==
  /\ Outside /\ m \notin arrived /\ arrived' = arrived \cup {m}
  /\ KeepDaemon /\ UNCHANGED <<wk, dedup, notices, tellings>>

FrameArrives(w, m) ==
  /\ wk[w].client = "up" /\ m \in arrived /\ ShopOf[m] = wk[w].shop
  /\ Consume(m) /\ wk' = [wk EXCEPT ![w].watch = TRUE]
  /\ KeepDaemon /\ UNCHANGED <<arrived, tellings, outside>>

HttpPollStarts(w) ==
  /\ wk[w].live /\ wk[w].polling /\ wk[w].client # "none" /\ wk[w].page = "idle"
  /\ Keep([wk EXCEPT ![w].page = "asked"]) /\ UNCHANGED outside

PollAnswered(w) ==
  /\ wk[w].page = "asked"
  /\ Keep([wk EXCEPT ![w].page = "read", ![w].todo = {m \in arrived : ShopOf[m] = wk[w].shop}])
  /\ UNCHANGED outside

PollRefused(w) ==
  /\ Outside /\ wk[w].page = "asked" /\ MayTeardown(wk[w])
  /\ Keep([wk EXCEPT ![w] = MarkCredentialExpired([@ EXCEPT !.page = "idle"])])

PollTakes(w, m) ==
  /\ wk[w].page = "read" /\ m \in wk[w].todo /\ wk[w].telling \notin notices
  /\ Consume(m)
  /\ wk' = [wk EXCEPT ![w].todo = @ \ {m}, ![w].telling = IF Fresh(m) THEN m ELSE NoMsg]
  /\ KeepDaemon /\ UNCHANGED <<arrived, tellings, outside>>

HttpPollEnds(w) ==
  /\ wk[w].page = "read" /\ wk[w].todo = {} /\ wk[w].telling \notin notices
  /\ Keep([wk EXCEPT ![w].page = "idle", ![w].telling = NoMsg]) /\ UNCHANGED outside

NoticeEnds(m, reached) ==
  /\ m \in notices /\ notices' = notices \ {m}
  /\ tellings' = [tellings EXCEPT ![m] = IF reached THEN @ + 1 ELSE @]
  /\ KeepDaemon /\ UNCHANGED <<wk, arrived, dedup, outside>>

(* Seven days after it was remembered a key is forgotten. *)
KeyExpires(m) ==
  /\ Outside /\ m \in dedup \ notices
  /\ dedup' = dedup \ {m} /\ tellings' = [tellings EXCEPT ![m] = 0]
  /\ KeepDaemon /\ UNCHANGED <<wk, arrived, notices>>

(***************************************************************************)
(* A reload reads the file, then brings the workers up shop by shop and    *)
(* waits for the first attempt of each worker it starts.                   *)
(***************************************************************************)
Begin(r, shops) == [reload EXCEPT ![r] = [stage |-> "next", todo |-> shops, next |-> shops, worker |-> 0]]
KeepMessages == UNCHANGED <<arrived, dedup, notices, tellings>>

StartDaemon ==
  /\ process = "off" /\ process' = "up" /\ reload' = Begin("start", file) /\ listed' = listed
  /\ KeepMessages /\ UNCHANGED <<file, wk, watchDue, agent, outside>>

BuildWorker(s) == [Off EXCEPT !.shop = s, !.live = TRUE]
Waits(r, s, w) == [reload EXCEPT ![r].todo = @ \ {s}, ![r].stage = IF DaemonUp THEN "wait" ELSE "next",
                                 ![r].worker = IF DaemonUp THEN w ELSE 0]

ReloadNew(r, s) ==
  /\ reload[r].stage = "next" /\ s \in reload[r].todo /\ listed[s] = 0
  /\ \E w \in WorkerIds :
       /\ NextIdle(w) /\ listed' = [listed EXCEPT ![s] = w] /\ reload' = Waits(r, s, w)
       /\ wk' = [wk EXCEPT ![w] = IF DaemonUp THEN Connect(BuildWorker(s), "start") ELSE BuildWorker(s)]
  /\ KeepMessages /\ UNCHANGED <<file, process, watchDue, agent, outside>>

\* (mutant) the old worker is only dropped from the map
ReplacedOnly(k) == k
(* What a worker that is replaced becomes. *)
Replaced(k) == StopWorker(k)

(* A worker is only known to have this configuration if a reload told it so while the daemon stood. *)
ReloadChanged(r, s) ==
  LET v == listed[s]
  IN /\ reload[r].stage = "next" /\ s \in reload[r].todo /\ v # 0 /\ DaemonUp /\ MayTeardown(wk[v])
     /\ \E w \in WorkerIds :
          /\ NextIdle(w) /\ listed' = [listed EXCEPT ![s] = w] /\ reload' = Waits(r, s, w)
          /\ wk' = [wk EXCEPT ![v] = Replaced(@), ![w] = Connect(BuildWorker(s), "start")]
     /\ KeepMessages /\ UNCHANGED <<file, process, watchDue, agent, outside>>

ReloadKeeps(r, s) ==
  LET v == listed[s]
  IN /\ reload[r].stage = "next" /\ s \in reload[r].todo /\ v # 0 /\ (wk[v].hashed \/ ~DaemonUp)
     /\ wk' = [wk EXCEPT ![v].hashed = TRUE, ![v].expired = IF wk[v].hashed THEN @ ELSE FALSE,
                         ![v].cooling = IF wk[v].hashed THEN @ ELSE FALSE]
     /\ reload' = [reload EXCEPT ![r].todo = @ \ {s}]
     /\ KeepMessages /\ UNCHANGED <<file, process, listed, watchDue, agent, outside>>

(* The first attempt of the worker is over: its poll loop starts, though it may have been stopped. *)
ReloadResumes(r) ==
  LET w == reload[r].worker
  IN /\ reload[r].stage = "wait" /\ ~Starting(wk[w])
     /\ reload' = [reload EXCEPT ![r].stage = "next", ![r].worker = 0]
     /\ wk' = [wk EXCEPT ![w].polling = @ \/ wk[w].live]
     /\ KeepMessages /\ UNCHANGED <<file, process, listed, watchDue, agent, outside>>

Gone(r) == {s \in Shops : listed[s] # 0 /\ s \notin reload[r].next}
ReloadEnds(r) ==
  /\ reload[r].stage = "next" /\ reload[r].todo = {}
  /\ \A s \in Gone(r) : MayTeardown(wk[listed[s]])
  /\ wk' = [w \in WorkerIds |-> IF \E s \in Gone(r) : listed[s] = w THEN StopWorker(wk[w]) ELSE wk[w]]
  /\ listed' = [s \in Shops |-> IF s \in Gone(r) THEN 0 ELSE listed[s]]
  /\ reload' = [reload EXCEPT ![r] = NoReload]
  /\ KeepMessages /\ UNCHANGED <<file, process, watchDue, agent, outside>>

(* The watch of the file is set up once the daemon has started. *)
WatchFires ==
  /\ watchDue /\ reload["watch"].stage = "idle" /\ reload["start"].stage = "idle"
  /\ watchDue' = FALSE /\ reload' = Begin("watch", file)
  /\ KeepMessages /\ UNCHANGED <<file, process, wk, listed, agent, outside>>

(***************************************************************************)
(* The agent uploads what it has refreshed, which reloads, and then orders *)
(* a reload again.                                                         *)
(***************************************************************************)
KeepWorkers == UNCHANGED <<process, wk, listed>>
AgentUploads(shops) ==
  /\ Outside /\ process # "off" /\ agent = "idle" /\ reload["agent"].stage = "idle" /\ shops # {}
  /\ file' = shops /\ watchDue' = DaemonUp /\ reload' = Begin("agent", shops) /\ agent' = "upload"
  /\ KeepMessages /\ KeepWorkers

(* The file is edited by hand. *)
FileEdited(shops) ==
  /\ Outside /\ file' = shops /\ watchDue' = DaemonUp
  /\ KeepMessages /\ KeepWorkers /\ UNCHANGED <<reload, agent>>

AgentOrders ==
  /\ agent = "upload" /\ process # "off" /\ reload["agent"].stage = "idle"
  /\ reload' = Begin("agent", file) /\ agent' = "order"
  /\ KeepMessages /\ KeepWorkers /\ UNCHANGED <<file, watchDue, outside>>

(* A cycle ends, early when the daemon is not there or its answer is late. *)
AgentEnds ==
  /\ \/ agent = "order" /\ reload["agent"].stage = "idle" /\ UNCHANGED outside
     \/ agent # "idle" /\ process = "off" /\ UNCHANGED outside
     \/ agent # "idle" /\ Outside
  /\ agent' = "idle"
  /\ KeepMessages /\ KeepWorkers /\ UNCHANGED <<file, reload, watchDue>>

StopDaemon ==
  /\ Outside /\ DaemonUp /\ process' = "stopping"
  /\ \A s \in Shops : listed[s] # 0 => MayTeardown(wk[listed[s]])
  /\ wk' = [w \in WorkerIds |-> IF \E s \in Shops : listed[s] = w THEN StopWorker(wk[w]) ELSE wk[w]]
  /\ KeepMessages /\ UNCHANGED <<file, listed, reload, watchDue, agent>>

(* The process dies, as it also does once it has stopped; what the files hold remains. *)
Exit ==
  /\ \/ process = "stopping" /\ UNCHANGED outside
     \/ process = "up" /\ Outside
  /\ process' = "off" /\ wk' = [w \in WorkerIds |-> Off] /\ listed' = [s \in Shops |-> 0]
  /\ reload' = [r \in Reloads |-> NoReload] /\ watchDue' = FALSE /\ notices' = {}
  /\ UNCHANGED <<file, agent, arrived, dedup, tellings>>

WorkerStep(w) ==
  \/ \E a \in Kinds \cup {"current"} : AttemptOpens(w, a) \/ AttemptFails(w, a) \/ AttemptRefused(w, a)
  \/ ReconnectFires(w) \/ ActivityTimeout(w) \/ SocketCloses(w) \/ SocketErrs(w) \/ CooldownEnds(w)
  \/ HttpPollStarts(w) \/ PollAnswered(w) \/ PollRefused(w) \/ HttpPollEnds(w)
  \/ \E m \in Msgs : FrameArrives(w, m) \/ PollTakes(w, m)
MessageStep(m) == BuyerWrites(m) \/ KeyExpires(m) \/ \E reached \in BOOLEAN : NoticeEnds(m, reached)
ReloadStep(r) ==
  \/ ReloadResumes(r) \/ ReloadEnds(r)
  \/ \E s \in Shops : ReloadNew(r, s) \/ ReloadChanged(r, s) \/ ReloadKeeps(r, s)
AgentStep == AgentOrders \/ AgentEnds \/ \E shops \in SUBSET Shops : AgentUploads(shops) \/ FileEdited(shops)

DaemonNext ==
  \/ \E w \in WorkerIds : WorkerStep(w)
  \/ \E m \in Msgs : MessageStep(m)
  \/ \E r \in Reloads : ReloadStep(r)
  \/ StartDaemon \/ StopDaemon \/ Exit \/ WatchFires \/ AgentStep

(* Timers fire, sockets open once nothing fails any more, and what is awaited ends. *)
DaemonFairness ==
  /\ \A w \in WorkerIds :
       /\ WF_daemonVars(\E a \in Kinds \cup {"current"} : AttemptOpens(w, a))
       /\ WF_daemonVars(ReconnectFires(w))
  /\ \A r \in Reloads : WF_daemonVars(ReloadStep(r))
DaemonSpec == DaemonInit /\ [][DaemonNext]_daemonVars /\ DaemonFairness

-----------------------------------------------------------------------------
(* The type of every variable. *)
DaemonTypeOK ==
  /\ file \subseteq Shops /\ process \in {"off", "up", "stopping"} /\ listed \in [Shops -> {0} \cup WorkerIds]
  /\ \A w \in WorkerIds : LET k == wk[w] IN
       /\ k.shop \in Shops /\ k.client \in ClientStates /\ k.kind \in Kinds /\ k.old \subseteq Kinds
       /\ k.waits \in 0..Patience /\ k.page \in {"idle", "asked", "read"} /\ k.todo \subseteq Msgs /\ k.telling \in Msgs \cup {NoMsg}
       /\ \A f \in {"live", "hashed", "on", "expired", "cooling", "timer", "watch", "polling"} : k[f] \in BOOLEAN
  /\ \A r \in Reloads : reload[r].stage \in {"idle", "next", "wait"} /\ reload[r].worker \in {0} \cup WorkerIds
  /\ agent \in {"idle", "upload", "order"} /\ watchDue \in BOOLEAN
  /\ arrived \subseteq Msgs /\ dedup \subseteq Msgs /\ notices \subseteq Msgs /\ tellings \in [Msgs -> Nat]

(* A worker that listens is the one the daemon's map names for its shop, however reloads overlap:   *)
(* no shop has two, and none is out of reach of a stop.                                             *)
LiveIsListed == \A w \in WorkerIds : wk[w].live => listed[wk[w].shop] = w

(* Within the life of its key a message is told once at most, though the socket, the poll, a worker *)
(* that was stopped and the next process may all bring it.                                          *)
ToldOnce == \A m \in Msgs : tellings[m] <= 1

(* A shop whose worker is down and not refused gets its socket back, or another worker, in the end. *)
Down(s) ==
  /\ DaemonUp /\ listed[s] # 0
  /\ LET k == wk[listed[s]] IN k.live /\ ~k.expired /\ k.client # "up"
ShopComesBack == \A s \in Shops : []<>~Down(s)

=============================================================================
