---------------------------- MODULE ShopSendProofs ----------------------------
(***************************************************************************)
(* That bridge and loop do not part, that answers are heard and that       *)
(* probes keep to their rules, for any number of sends and of faults.      *)
(***************************************************************************)
EXTENDS ShopSend, SequenceTheorems, TLAPS

\* What the check of a send before its probe leaves behind until the probe is
\* sent: no cooldown ends, no other send gets there, and a bridge that is
\* still the one that was checked is as old as it was.
ProbeGranted(s) ==
  /\ ~cooled /\ probes = <<>>
  /\ held[s] = "now" => bridge.age = "aged"

OneProbe == \A s, t \in Send : step[s] = "probe" /\ step[t] = "probe" => s = t

SendInv ==
  /\ TypeOK
  /\ UpIsUsable
  /\ AckHeard
  /\ ProbesWithinRules
  /\ OneProbe
  /\ \A s \in Send : step[s] = "probe" => ProbeGranted(s)

LEMMA RequestKeeps ==
  ASSUME TypeOK, UpIsUsable, NEW epoch \in Epoch, RequestReconnect(epoch),
         UNCHANGED envVars, pings' \subseteq Epoch, wakers' \subseteq Epoch
  PROVE  /\ PageTypeOK' /\ UpIsUsable'
         /\ frameListeners' = frameListeners /\ bridge'.age = bridge.age
<1>1. CASE UNCHANGED connVars
  BY <1>1 DEF TypeOK, PageTypeOK, UpIsUsable, connVars, envVars, BridgeReady
<1>2. CASE /\ bridge' = Closed
           /\ loop' = "asleep" /\ alive' = FALSE
           /\ UNCHANGED frameListeners
  BY <1>2 DEF TypeOK, PageTypeOK, UpIsUsable, envVars, BridgeReady, Closed
<1> QED
  BY <1>1, <1>2 DEF RequestReconnect, ReconnectRequested, Epoch

LEMMA FaultCounted ==
  ASSUME TypeOK, Fails
  PROVE  faults' \in 0..MaxFault
BY PageAssumption DEF TypeOK, PageTypeOK, Fails

\* What a step of the page alone preserves.
LEMMA PageKeeps ==
  ASSUME TypeOK, UpIsUsable, PageKeepsOn
  PROVE  /\ PageTypeOK' /\ UpIsUsable'
         /\ frameListeners' = frameListeners
         /\ bridge'.age \in {bridge.age, "aged"}
<1> USE DEF TypeOK, PageTypeOK, UpIsUsable, BridgeReady, envVars, connVars
<1>1. CASE PageCloses
  BY <1>1, FaultCounted DEF PageCloses
<1>2. CASE PageOpens
  BY <1>2 DEF PageOpens
<1>3. CASE SocketCloses
  BY <1>3, FaultCounted DEF SocketCloses
<1>4. CASE SocketOpens
  BY <1>4 DEF SocketOpens
<1>5. CASE ConnectionBreaks
  BY <1>5, FaultCounted DEF ConnectionBreaks
<1>6. CASE Ages
  BY <1>6 DEF Ages
<1>7. CASE AttachFails
  BY <1>7 DEF AttachFails
<1>8. CASE PingStarts
  BY <1>8 DEF PingStarts, Epoch
<1>9. CASE FetchFails
  BY <1>9 DEF FetchFails, Closed
<1>10. CASE Disconnects
  <2>1. RequestReconnect("now") /\ "now" \in Epoch
    BY <1>10 DEF Disconnects, Epoch
  <2> QED
    BY <1>10, <2>1, RequestKeeps DEF Disconnects
<1>11. ASSUME NEW epoch \in Epoch, PingEnds(epoch)
       PROVE  /\ PageTypeOK' /\ UpIsUsable'
              /\ frameListeners' = frameListeners
              /\ bridge'.age \in {bridge.age, "aged"}
  <2>1. CASE UNCHANGED connVars
    BY <1>11, <2>1 DEF PingEnds
  <2>2. CASE RequestReconnect(epoch)
    BY <1>11, <2>2, RequestKeeps DEF PingEnds
  <2> QED
    BY <1>11, <2>1, <2>2 DEF PingEnds
<1>12. ASSUME NEW epoch \in Epoch, Prewarms(epoch)
       PROVE  /\ PageTypeOK' /\ UpIsUsable'
              /\ frameListeners' = frameListeners
              /\ bridge'.age \in {bridge.age, "aged"}
  <2>1. CASE UNCHANGED connVars
    BY <1>12, <2>1 DEF Prewarms
  <2>2. CASE RequestReconnect("now")
    <3>1. "now" \in Epoch
      BY DEF Epoch
    <3> QED
      BY <1>12, <2>2, <3>1, RequestKeeps DEF Prewarms
  <2> QED
    BY <1>12, <2>1, <2>2 DEF Prewarms, TriggerReconnect
<1> QED
  BY <1>1, <1>2, <1>3, <1>4, <1>5, <1>6, <1>7, <1>8, <1>9, <1>10, <1>11, <1>12
  DEF PageKeepsOn

LEMMA NoProbes == <<>> \in Seq({"young", "aged"}) /\ <<"aged">> \in Seq({"young", "aged"})
OBVIOUS

LEMMA Initially == Init => SendInv
<1> SUFFICES ASSUME Init
             PROVE  SendInv
  OBVIOUS
<1>1. TypeOK
  <2>1. PageTypeOK
    <3>1. faults \in 0..MaxFault
      BY PageAssumption DEF Init, PageInit
    <3> QED
      BY <3>1 DEF Init, PageInit, NoBridge, PageTypeOK
  <2> QED
    BY <2>1, NoProbes DEF Init, TypeOK, Step, Epoch
<1> QED
  BY <1>1 DEF Init, PageInit, NoBridge, SendInv, UpIsUsable, AckHeard, ProbesWithinRules,
    OneProbe, BridgeReady

LEMMA Inductive == SendInv /\ [Next]_vars => SendInv'
<1> SUFFICES ASSUME SendInv, [Next]_vars
             PROVE  SendInv'
  OBVIOUS
<1> USE DEF SendInv, TypeOK, PageTypeOK, UpIsUsable, AckHeard, ProbesWithinRules, OneProbe,
        ProbeGranted, BridgeReady, Step, Epoch, Goes, Looks, Aside, NoProbe,
        envVars, connVars, NotWritten, OverBudget
<1>1. ASSUME NEW s \in Send, Prepare(s)
      PROVE  SendInv'
  BY <1>1 DEF Prepare
<1>2. ASSUME NEW s \in Send, Fast(s)
      PROVE  SendInv'
  BY <1>2 DEF Fast, Written
<1>3. ASSUME NEW s \in Send, Wake(s)
      PROVE  SendInv'
  <2>1. CASE UNCHANGED connVars
    BY <1>3, <2>1 DEF Wake
  <2>2. CASE RequestReconnect("now")
    <3>1. /\ PageTypeOK' /\ UpIsUsable'
          /\ frameListeners' = frameListeners /\ bridge'.age = bridge.age
      BY <1>3, <2>2, RequestKeeps DEF Wake
    <3> QED
      BY <1>3, <3>1 DEF Wake
  <2> QED
    BY <1>3, <2>1, <2>2 DEF Wake, TriggerReconnect
<1>4. ASSUME NEW s \in Send, Await(s)
      PROVE  SendInv'
  BY <1>4 DEF Await
<1>5. ASSUME NEW s \in Send, Again(s)
      PROVE  SendInv'
  BY <1>5 DEF Again, Written
<1>6. ASSUME NEW s \in Send, Last(s)
      PROVE  SendInv'
  <2>1. CASE /\ MayProbe /\ cooled' = FALSE /\ probes' = <<>>
             /\ Goes(s, IF Ready(s) THEN "probe" ELSE "failed")
    <3>1. \A t \in Send : step[t] # "probe" /\ (t # s => step'[t] = step[t])
      BY <2>1 DEF MayProbe
    <3>2. step' \in [Send -> Step] /\ step'[s] \in {"probe", "failed"}
      BY <2>1
    <3> QED
      BY <1>6, <2>1, <3>1, <3>2, NoProbes, ZenonT(40) DEF Last, MayProbe
  <2>2. CASE Goes(s, "failed") /\ NoProbe
    BY <1>6, <2>2 DEF Last
  <2> QED
    BY <1>6, <2>1, <2>2 DEF Last
<1>7. ASSUME NEW s \in Send, Probe(s)
      PROVE  SendInv'
  <2>1. Append(<<>>, "aged") = <<"aged">>
    OBVIOUS
  <2>2. probes = <<>> /\ (held[s] = "now" => bridge.age = "aged")
    BY <1>7 DEF Probe
  <2>3. probes' \in {<<>>, <<"aged">>}
    BY <1>7, <2>1, <2>2 DEF Probe, Reaches
  <2> QED
    BY <1>7, <2>3, NoProbes DEF Probe
<1>8. ASSUME NEW s \in Send, Caught(s)
      PROVE  SendInv'
  BY <1>8 DEF Caught, Written
<1>9. ASSUME NEW s \in Send, Acked(s)
      PROVE  SendInv'
  BY <1>9 DEF Acked
<1>10. CASE Cools
  BY <1>10 DEF Cools, pageVars
<1>11. CASE LoopReattaches
  BY <1>11 DEF LoopReattaches, Reattach, sendVars
<1>12. CASE LoopAttached
  BY <1>12 DEF LoopAttached, Attached, Registered, Older
<1>13. CASE PageKeepsOn /\ UNCHANGED sendVars
  <2>1. /\ PageTypeOK' /\ UpIsUsable'
        /\ frameListeners' = frameListeners
        /\ bridge'.age \in {bridge.age, "aged"}
    BY <1>13, PageKeeps
  <2> QED
    BY <1>13, <2>1 DEF sendVars
<1>14. CASE UNCHANGED vars
  BY <1>14 DEF vars, pageVars, sendVars
<1> QED
  BY <1>1, <1>2, <1>3, <1>4, <1>5, <1>6, <1>7, <1>8, <1>9, <1>10, <1>11, <1>12,
     <1>13, <1>14 DEF Next, SendStep

THEOREM SendInvariant == Spec => []SendInv
<1>1. Init => SendInv
  BY Initially
<1>2. SendInv /\ [Next]_vars => SendInv'
  BY Inductive
<1> QED
  BY <1>1, <1>2, PTL DEF Spec

\* Every variable keeps its type, whatever is closed and reconnected.
THEOREM SendTyping == Spec => []TypeOK
<1>1. SendInv => TypeOK
  BY DEF SendInv
<1> QED
  BY <1>1, SendInvariant, PTL

\* A bridge that sends may use has a loop that watches over it, and a working
\* connection has a bridge unless the page is loaded anew during a poll:
\* registerQianfanWsBridge, requestReconnect, markBridgeCdpClosed.
THEOREM BridgeAndLoop == Spec => []UpIsUsable
<1>1. SendInv => UpIsUsable
  BY DEF SendInv
<1> QED
  BY <1>1, SendInvariant, PTL

\* A send in waitForSendAck hears the present page, however many connections
\* came and went since it wrote.
THEOREM AnswersAreHeard == Spec => []AckHeard
<1>1. SendInv => AckHeard
  BY DEF SendInv
<1> QED
  BY <1>1, SendInvariant, PTL

\* The UI probe of sendPayloadToImpaas goes out at most once per cooldown and
\* never on a young connection, for any number of sends.
THEOREM ProbesAreRare == Spec => []ProbesWithinRules
<1>1. SendInv => ProbesWithinRules
  BY DEF SendInv
<1> QED
  BY <1>1, SendInvariant, PTL
===============================================================================
