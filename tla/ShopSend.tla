------------------------------- MODULE ShopSend -------------------------------
(***************************************************************************)
(* sendQianfanTextReply: a text goes to a buyer through the page of the    *)
(* shop, while ShopPage keeps the page within reach.  A send passes        *)
(*                                                                         *)
(*   "new"      prepareShopSendBridge: wait up to 4.5 s for a bridge       *)
(*   "fast"     phase A: write to the page's socket                        *)
(*   "wake"     phase B: socket shut, wait 1.2 s, ask for a reconnect      *)
(*   "await"    wait 4.5 s for the connection that was asked for           *)
(*   "again"    write to the socket again                                  *)
(*   "last"     phase C: may the probe be used?                            *)
(*   "probe"    the page is told to send a probe to the shop's own buyer   *)
(*   "caught"   the probe went out; it may have opened the socket          *)
(*   "ack"      the text was written, wait for the answer                  *)
(*   "done" or "failed"                                                    *)
(*                                                                         *)
(* A send keeps the bridge it found; a bridge that was replaced is "old"   *)
(* for it until it looks the bridge up again.                              *)
(***************************************************************************)
EXTENDS ShopPage, Sequences

IMPAAS_RECONNECT_WAIT_MS == 4500

VARIABLES
  step,    \* how far a send has come
  held,    \* whether the bridge a send holds is the shop's present one
  cooled,  \* canRunUiProbe
  probes   \* age of the connection at each probe sent since the last one that
           \* was allowed after a cooldown

sendVars == <<step, held, cooled, probes>>
vars == <<pageVars, sendVars>>

Step == {"new", "fast", "wake", "await", "again", "last", "probe", "caught",
         "ack", "done", "failed"}

Init ==
  /\ PageInit
  /\ step = [s \in Send |-> "new"]
  /\ held = [s \in Send |-> "now"]
  /\ cooled = TRUE
  /\ probes = <<>>

TypeOK ==
  /\ PageTypeOK
  /\ step \in [Send -> Step]
  /\ held \in [Send -> Epoch]
  /\ cooled \in BOOLEAN
  /\ probes \in Seq({"young", "aged"})

Goes(s, to) == step' = [step EXCEPT ![s] = to]
Looks(s) == held' = [held EXCEPT ![s] = "now"]

\* The bridge a send holds can be used.
Ready(s) == held[s] = "now" /\ BridgeReady

\* sendViaPageRuntime, with the bridge of the given epoch
Writable(epoch) == SocketSeen(epoch)

\* The text is written, and waitForSendAck adds its listener to the bridge.
Written(s) ==
  /\ Goes(s, "ack") /\ Looks(s)
  /\ frameListeners' = frameListeners \cup {s}
  /\ UNCHANGED <<loop, alive, bridge>>

NotWritten(s, to) == Goes(s, to) /\ UNCHANGED <<held, connVars>>

\* What a send leaves alone.
Aside == UNCHANGED <<envVars, pings, wakers>>
NoProbe == UNCHANGED <<cooled, probes>>

(***************************************************************************)
(* prepareShopSendBridge                                                   *)
(***************************************************************************)
Prepare(s) ==
  /\ step[s] = "new"
  /\ bridge.state # "none"
  /\ IF BridgeReady THEN Goes(s, "fast") ELSE Goes(s, "failed")
  /\ Looks(s)
  /\ UNCHANGED connVars /\ Aside /\ NoProbe

(***************************************************************************)
(* sendPayloadToImpaas                                                     *)
(***************************************************************************)

\* SEND_PAYLOAD_BUDGET_MS is looked at after phases A and B only.
OverBudget(s) == NotWritten(s, "failed")

Fast(s) ==
  /\ step[s] = "fast"
  /\ IF Writable(held[s])
     THEN Written(s)
     ELSE OverBudget(s) \/ (Goes(s, "wake") /\ Looks(s) /\ UNCHANGED connVars)
  /\ Aside /\ NoProbe

\* ensureImpaasWsReady: the reconnect hits the shop's present connection, even
\* if the bridge that was looked at is an old one.
Wake(s) ==
  /\ step[s] = "wake"
  /\ IF SocketSeen(held[s])
     THEN Goes(s, "again") /\ Looks(s) /\ UNCHANGED connVars
     ELSE \/ loop # "up" /\ NotWritten(s, "again")
          \/ TriggerReconnect /\ Goes(s, "await") /\ UNCHANGED held
  /\ Aside /\ NoProbe

Await(s) ==
  /\ step[s] = "await"
  /\ Goes(s, "again")
  /\ IF SocketSeen("now") THEN Looks(s) ELSE UNCHANGED held
  /\ UNCHANGED connVars /\ Aside /\ NoProbe

Again(s) ==
  /\ step[s] = "again"
  /\ IF Writable(held[s])
     THEN Written(s)
     ELSE OverBudget(s) \/ (Goes(s, "last") /\ Looks(s) /\ UNCHANGED connVars)
  /\ Aside /\ NoProbe

\* isPastWarmupWindow, canRunUiProbe, markUiProbeRan and the first check of
\* recoverImpaasWsViaUiProbe, without a pause between them.
MayProbe == bridge.age = "aged" /\ cooled

Last(s) ==
  /\ step[s] = "last"
  /\ IF MayProbe
     THEN /\ cooled' = FALSE
          /\ probes' = <<>>
          /\ Goes(s, IF Ready(s) THEN "probe" ELSE "failed")
     ELSE Goes(s, "failed") /\ NoProbe
  /\ UNCHANGED <<held, connVars>> /\ Aside

\* (mutant) the bridge is looked up again
ReachesAnyBridge(s) == Answers

\* sendBuyerTextViaUi, through the client of the bridge that was found before
Reaches(s) == held[s] = "now" /\ Answers

Probe(s) ==
  /\ step[s] = "probe"
  /\ \/ /\ Reaches(s)
        /\ probes' = Append(probes, bridge.age)
        /\ Goes(s, "caught")
     \/ Goes(s, "failed") /\ UNCHANGED probes
  /\ UNCHANGED <<held, cooled, connVars>> /\ Aside

\* retryWsSendAfterCapture
Caught(s) ==
  /\ step[s] = "caught"
  /\ IF Writable("now") THEN Written(s) ELSE NotWritten(s, "failed")
  /\ Aside /\ NoProbe

\* PROBE_COOLDOWN_MS is longer than the way from the mark to the probe.
Cools ==
  /\ ~cooled
  /\ \A s \in Send : step[s] # "probe"
  /\ cooled' = TRUE
  /\ UNCHANGED <<step, held, probes, pageVars>>

(***************************************************************************)
(* waitForSendAck: a frame that answers the write, the page's own record   *)
(* of it, or ACK_TIMEOUT_MS.  (The message list by HTTP confirms nothing:  *)
(* its items are never marked as the seller's.)                            *)
(***************************************************************************)
Acked(s) ==
  /\ step[s] = "ack"
  /\ Goes(s, "done") \/ Goes(s, "failed")
  /\ frameListeners' = frameListeners \ {s}
  /\ UNCHANGED <<loop, alive, bridge, held>> /\ Aside /\ NoProbe

(***************************************************************************)
(* The page of the shop beside its sends                                   *)
(***************************************************************************)

\* A reconnect asked for by a send makes the loop sleep for CDP_RECONNECT_MS
\* while the send waits for IMPAAS_RECONNECT_WAIT_MS.
LoopReattaches ==
  /\ Reattach
  /\ IMPAAS_RECONNECT_WAIT_MS < CDP_RECONNECT_MS => \A s \in Send : step[s] # "await"
  /\ UNCHANGED sendVars

LoopAttached ==
  /\ Attached
  /\ held' = [s \in Send |-> "old"]
  /\ UNCHANGED <<step, cooled, probes>>

SendStep(s) ==
  \/ Prepare(s) \/ Fast(s) \/ Wake(s) \/ Await(s) \/ Again(s)
  \/ Last(s) \/ Probe(s) \/ Caught(s) \/ Acked(s)

Next ==
  \/ \E s \in Send : SendStep(s)
  \/ Cools
  \/ LoopReattaches
  \/ LoopAttached
  \/ PageKeepsOn /\ UNCHANGED sendVars

\* Timers and promises of the process run when they are due.  Nothing is
\* assumed of the browser, of the page's socket, or of the disconnect event.
Fairness ==
  /\ \A s \in Send : WF_vars(SendStep(s))
  /\ WF_vars(LoopReattaches)
  /\ WF_vars(LoopAttached)
  /\ WF_vars(AttachFails /\ UNCHANGED sendVars)
  /\ WF_vars(PingStarts /\ UNCHANGED sendVars)
  /\ WF_vars(PingEnds("now") /\ UNCHANGED sendVars)
  /\ \A epoch \in Epoch : WF_vars(Prewarms(epoch) /\ UNCHANGED sendVars)

Spec == Init /\ [][Next]_vars /\ Fairness

(***************************************************************************)
(* Properties                                                              *)
(***************************************************************************)

\* Bridge and loop do not part: while the loop waits on a working connection
\* sends can use it, and what sends may use has a loop that watches over it.
\* Several callbacks close the bridge by the shop's name, those of earlier
\* connections too, and would leave a loop that waits for ever.  (Not when the
\* page is loaded anew during an HTTP poll, see PageComesBack.)
UpIsUsable ==
  /\ loop = "up" /\ alive /\ ~Reloads => BridgeReady
  /\ BridgeReady => loop = "up"

\* A send that waits for its answer hears the frames of the page that is
\* connected now, though the connection it wrote to may be gone.
AckHeard == \A s \in Send : step[s] = "ack" => s \in frameListeners

\* The probe bothers the shop's own buyer at most once per cooldown, and never
\* through a connection younger than 30 s, whatever was reconnected between
\* the checks and the probe.
ProbesWithinRules == probes \in {<<>>, <<"aged">>}

\* If the browser keeps showing the page, sends can reach it again and again,
\* however often connections break, silently or not.
PageComesBack == <>[]page => []<>Answers

===============================================================================
