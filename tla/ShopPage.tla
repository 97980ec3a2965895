------------------------------- MODULE ShopPage -------------------------------
(***************************************************************************)
(* How qianfan-listener keeps the page of one shop within reach:           *)
(*                                                                         *)
(*   maintainPageConnection  attach to the page by the DevTools protocol,  *)
(*       register a send bridge, wait for the end of the connection,       *)
(*       close the bridge, sleep, attach again                             *)
(*   ping, every 30 s  asks the page for a sign of life and watches the    *)
(*       traffic of its message socket                                     *)
(*   prewarmShopWsSend  after each attach: unless the message socket is    *)
(*       open, wait a little and then ask for a new connection             *)
(*   fetchHttpTemplate  an HTTP poll through the page; a transport error   *)
(*       closes the bridge                                                 *)
(*                                                                         *)
(* Callbacks of a connection outlive it.  What was begun on the present    *)
(* connection is "now", what was begun on an earlier one is "old".         *)
(***************************************************************************)
EXTENDS Integers, FiniteSets

CONSTANTS
  Send,      \* text sends to buyers of this shop
  Reloads,   \* whether the page may be loaded anew during an HTTP poll
  MaxFault   \* bound on faults of the page and of the connection

ASSUME PageAssumption == Reloads \in BOOLEAN /\ MaxFault \in Nat

CDP_RECONNECT_MS == 5000

VARIABLES
  page,      \* the browser shows the shop's page
  open,      \* the page's message socket is open
  loop,      \* maintainPageConnection
  alive,     \* the DevTools connection of the loop works
  bridge,    \* what bridges holds for the shop
  frameListeners,  \* bridge.frameListeners: sends that wait for an answer
  pings,     \* heartbeats under way
  wakers,    \* prewarmShopWsSend under way
  faults

envVars == <<page, open, faults>>
connVars == <<loop, alive, bridge, frameListeners>>
pageVars == <<envVars, connVars, pings, wakers>>

Epoch == {"now", "old"}
NoBridge == [state |-> "none", age |-> "young"]

PageInit ==
  /\ page = TRUE
  /\ open \in BOOLEAN
  /\ loop = "asleep" /\ alive = FALSE
  /\ bridge = NoBridge
  /\ frameListeners = {}
  /\ pings = {} /\ wakers = {}
  /\ faults = 0

PageTypeOK ==
  /\ page \in BOOLEAN /\ open \in BOOLEAN /\ alive \in BOOLEAN
  /\ open => page
  /\ loop \in {"asleep", "attaching", "up"}
  /\ alive => page /\ loop # "asleep"
  /\ bridge \in [state: {"none", "ready", "closed"}, age: {"young", "aged"}]
  /\ frameListeners \subseteq Send
  /\ pings \subseteq Epoch /\ wakers \subseteq Epoch
  /\ faults \in 0..MaxFault

BridgeReady == bridge.state = "ready"

\* An expression evaluated in the page is answered.
Answers == BridgeReady /\ alive

\* probePageImpaasWs, asked through the bridge of the given epoch: a bridge
\* that was replaced has been closed before.
SocketSeen(epoch) == epoch = "now" /\ Answers /\ open

Closed == IF bridge.state = "none" THEN bridge ELSE [bridge EXCEPT !.state = "closed"]

(***************************************************************************)
(* The browser and the connection                                          *)
(***************************************************************************)
Fails == faults < MaxFault /\ faults' = faults + 1

PageCloses ==
  /\ page /\ Fails
  /\ page' = FALSE /\ open' = FALSE /\ alive' = FALSE
  /\ UNCHANGED <<loop, bridge, frameListeners, pings, wakers>>

PageOpens ==
  /\ ~page
  /\ page' = TRUE
  /\ UNCHANGED <<open, faults, connVars, pings, wakers>>

SocketCloses ==
  /\ open /\ Fails
  /\ open' = FALSE
  /\ UNCHANGED <<page, connVars, pings, wakers>>

\* A socket is known from the first thing the page writes to it (WS_HOOK_SCRIPT).
SocketOpens ==
  /\ page /\ ~open
  /\ open' = TRUE
  /\ UNCHANGED <<page, faults, connVars, pings, wakers>>

ConnectionBreaks ==
  /\ alive /\ Fails
  /\ alive' = FALSE
  /\ UNCHANGED <<page, open, loop, bridge, frameListeners, pings, wakers>>

\* The connection is more than PROBE_MIN_BRIDGE_AGE_MS old.
Ages ==
  /\ bridge.age = "young" /\ bridge.state # "none"
  /\ bridge' = [bridge EXCEPT !.age = "aged"]
  /\ UNCHANGED <<envVars, loop, alive, frameListeners, pings, wakers>>

(***************************************************************************)
(* maintainPageConnection                                                  *)
(***************************************************************************)

\* Sleep is over, and the page is looked up again.
Reattach ==
  /\ loop = "asleep"
  /\ loop' = "attaching" /\ alive' = page
  /\ UNCHANGED <<envVars, bridge, frameListeners, pings, wakers>>

\* (mutant) the new bridge starts without listeners
RegisteredAnew(listeners) ==
  /\ bridge' = [state |-> "ready", age |-> "young"]
  /\ frameListeners' = {}

\* registerQianfanWsBridge makes a new bridge that takes over the listeners of
\* the one before.
Registered(listeners) ==
  /\ bridge' = [state |-> "ready", age |-> "young"]
  /\ frameListeners' = listeners

Older(epochs) == IF epochs = {} THEN {} ELSE {"old"}

\* A connection that broke while the hooks were installed is taken for a good
\* one; its disconnect event had no listener yet.  prewarmShopWsSend starts.
Attached ==
  /\ loop = "attaching"
  /\ loop' = "up"
  /\ Registered(frameListeners)
  /\ pings' = Older(pings)
  /\ wakers' = Older(wakers) \cup {"now"}
  /\ UNCHANGED <<envVars, alive>>

AttachFails ==
  /\ loop = "attaching" /\ ~alive
  /\ loop' = "asleep"
  /\ UNCHANGED <<envVars, alive, bridge, frameListeners, pings, wakers>>

\* (mutant) the rounds of the loop share one flag
UpAgain(epoch) == loop # "up"

\* requestReconnect and the disconnect handler of the loop's round of the given
\* epoch begin with: if (reconnectRequested) return.
ReconnectRequested(epoch) == epoch = "old" \/ loop # "up"

\* (mutant) the connection that is given up is not closed
RequestUnclosed(epoch) ==
  IF ReconnectRequested(epoch)
  THEN UNCHANGED connVars
  ELSE /\ bridge' = Closed
       /\ loop' = "asleep"
       /\ UNCHANGED <<alive, frameListeners>>

\* The bridge is closed by the name of the shop; only the round's own promise
\* wakes the loop.
RequestReconnect(epoch) ==
  IF ReconnectRequested(epoch)
  THEN UNCHANGED connVars
  ELSE /\ bridge' = Closed
       /\ IF epoch = "now" THEN loop' = "asleep" /\ alive' = FALSE
                           ELSE UNCHANGED <<loop, alive>>
       /\ UNCHANGED frameListeners

Disconnects ==
  /\ loop = "up" /\ ~alive
  /\ RequestReconnect("now")
  /\ UNCHANGED <<envVars, pings, wakers>>

(***************************************************************************)
(* The heartbeat                                                           *)
(***************************************************************************)
PingStarts ==
  /\ loop = "up" /\ "now" \notin pings
  /\ pings' = pings \cup {"now"}
  /\ UNCHANGED <<envVars, connVars, wakers>>

\* (mutant) a ping that is not answered counts as answered
PingTimesOut(epoch) == epoch = "old"

PingFails(epoch) == epoch = "old" \/ ~alive

\* isWsTrafficStale gives a new connection three minutes.
Stale == bridge.age = "aged"

PingEnds(epoch) ==
  /\ epoch \in pings
  /\ pings' = pings \ {epoch}
  /\ \/ PingFails(epoch) /\ RequestReconnect(epoch)
     \/ ~PingFails(epoch) /\ UNCHANGED connVars
     \/ ~PingFails(epoch) /\ Stale /\ RequestReconnect(epoch)
  /\ UNCHANGED <<envVars, wakers>>

(***************************************************************************)
(* prewarmShopWsSend: the last look at the socket, IMPAAS_WAKE_WAIT_MS     *)
(* after an earlier one, and what follows from it.                         *)
(***************************************************************************)

\* triggerShopReconnect calls what the present round of the loop registered.
TriggerReconnect == loop = "up" /\ RequestReconnect("now")

Prewarms(epoch) ==
  /\ epoch \in wakers
  /\ wakers' = wakers \ {epoch}
  /\ \/ (SocketSeen(epoch) \/ loop # "up") /\ UNCHANGED connVars
     \/ ~SocketSeen(epoch) /\ TriggerReconnect
  /\ UNCHANGED <<envVars, pings>>

(***************************************************************************)
(* fetchHttpTemplate: "Inspected target navigated or closed" is taken for  *)
(* a transport error as well as a broken connection.                       *)
(***************************************************************************)
FetchFails ==
  /\ loop = "up" /\ BridgeReady
  /\ ~alive \/ Reloads
  /\ bridge' = Closed
  /\ UNCHANGED <<envVars, loop, alive, frameListeners, pings, wakers>>

PageKeepsOn ==
  \/ PageCloses \/ PageOpens \/ SocketCloses \/ SocketOpens
  \/ ConnectionBreaks \/ Ages \/ AttachFails \/ Disconnects
  \/ PingStarts \/ FetchFails
  \/ \E epoch \in Epoch : PingEnds(epoch) \/ Prewarms(epoch)
=============================================================================
