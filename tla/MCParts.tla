---------------------------------- MODULE MCParts ---------------------------------
(* Replies to the buyers of a shop, what the bot does by hand in the shop's page,  *)
(* the cookies of two shops, HTTP requests of the WeChat bot, the editors of its   *)
(* configuration, what the home page shows, a search for orders, the sessions of   *)
(* the protocol bridge and the configuration it is given: a run follows one of the *)
(* nine, which share no state.                                                     *)
EXTENDS ReplyTarget, ShopUi, ShopCookies, WxBot, HomeStatus, OrderQuery, BridgeSession,
        ProtocolConfig, TLC

CONSTANTS b1, b2, b3, r1, plain, xy, t1, t2, q1, q2, c1, c2, u1, e1, e2, d1, d2, d3, o1, o2, o3, k1, k2, k3, jade,
          Followed
VARIABLE followed
vars == <<targetVars, uiVars, cookieVars, wxVars, cfgVars, homeVars, orderVars, bridgeVars, setupVars,
          followed>>

\* Two buyers whose names have nothing in common, and one whose name is part of another's.
MCNick == [b \in Conv |-> CASE b = b1 -> {1} [] b = b2 -> {2} [] b = b3 -> {1, 3}]

\* The title of one shop is part of the title of the other.
MCShops == {plain, xy}
MCWithin == {<<plain, xy>>}
MCOrder == <<plain, xy>>
\* b3's row begins with the name of the buyer the probes are meant for, b1.
MCChatOf == t1 :> b2 @@ t2 :> b3

\* One shop lists two orders and the other none; a third is placed while they are read.
MCStart == plain :> <<o1, o2>> @@ xy :> <<>>
MCFilters == {{o1, o2, o3}}

\* The name of b1 is part of the name of b2, and b3's has nothing in common with them.
MCDialogBuyer == d1 :> b1 @@ d2 :> b2 @@ d3 :> b3
MCDialogShop == [d \in {d1, d2, d3} |-> plain]
MCPart == {<<b, b>> : b \in {b1, b2, b3}} \cup {<<b1, b2>>}
MCFamily == b1 :> b1 @@ b2 :> b1 @@ b3 :> b3

\* Two conversations of one shop, whose title is part of another's, and one of a third.
MCStores == {plain, xy, jade}
MCAkin == {<<s, s>> : s \in MCStores} \cup {<<plain, xy>>, <<xy, plain>>}
MCBrand == plain :> plain @@ xy :> plain @@ jade :> jade
MCStoreOf == k1 :> plain @@ k2 :> plain @@ k3 :> jade

MCLength == [v \in 1..MaxVersion |-> 2]

Init ==
  /\ followed \in Followed
  /\ TargetInit /\ (followed # "replies" => strict)
  /\ UiInit /\ rowsShown \in {{}, {b1, b2}, {b2, b3}}
  /\ (followed # "page" => rowsShown = {} /\ carries)
  /\ CookieInit
  /\ WxInit /\ (followed # "config" => cfg = getDefaultConfig)
  /\ HomeInit /\ (followed # "home" => accounts /\ wechat = "off")
  /\ OrderInit
  /\ BridgeInit /\ (followed # "bridge" => onlyNick = Nobody)
  /\ SetupInit /\ (followed # "setup" => ~tapOn)
Next ==
  \/ /\ followed = "replies" /\ TargetNext
     /\ UNCHANGED <<uiVars, cookieVars, wxVars, cfgVars, homeVars, orderVars, bridgeVars, setupVars, followed>>
  \/ /\ followed = "page" /\ UiNext
     /\ UNCHANGED <<targetVars, cookieVars, wxVars, cfgVars, homeVars, orderVars, bridgeVars, setupVars, followed>>
  \/ /\ followed = "cookies" /\ CookieNext
     /\ UNCHANGED <<targetVars, uiVars, wxVars, cfgVars, homeVars, orderVars, bridgeVars, setupVars, followed>>
  \/ /\ followed = "calls" /\ WxCallNext
     /\ UNCHANGED <<targetVars, uiVars, cookieVars, homeVars, orderVars, bridgeVars, setupVars, followed>>
  \/ /\ followed = "config" /\ ConfigNext
     /\ UNCHANGED <<targetVars, uiVars, cookieVars, wxVars, homeVars, orderVars, bridgeVars, setupVars, followed>>
  \/ /\ followed = "home" /\ HomeNext
     /\ UNCHANGED <<targetVars, uiVars, cookieVars, wxVars, cfgVars, orderVars, bridgeVars, setupVars, followed>>
  \/ /\ followed = "orders" /\ OrderNext
     /\ UNCHANGED <<targetVars, uiVars, cookieVars, wxVars, cfgVars, homeVars, bridgeVars, setupVars, followed>>
  \/ /\ followed = "bridge" /\ BridgeNext
     /\ UNCHANGED <<targetVars, uiVars, cookieVars, wxVars, cfgVars, homeVars, orderVars, setupVars, followed>>
  \/ /\ followed = "setup" /\ SetupNext
     /\ UNCHANGED <<targetVars, uiVars, cookieVars, wxVars, cfgVars, homeVars, orderVars, bridgeVars, followed>>
Spec == Init /\ [][Next]_vars

\* Of the parts that move.
TypeOK ==
  /\ followed = "replies" => TargetTypeOK
  /\ followed = "page" => UiTypeOK
  /\ followed = "cookies" => CookieTypeOK
  /\ followed \in {"calls", "config"} => WxTypeOK
  /\ followed = "home" => HomeTypeOK
  /\ followed = "orders" => OrderTypeOK
  /\ followed = "bridge" => BridgeTypeOK
  /\ followed = "setup" => SetupTypeOK

\* Neither replies, nor probes, nor what an order system sends reach a buyer they
\* are not meant for, and a shop is not served with what was seen of another, but
\* for the causes named in the four parts.
ReachesTheMeant == MeansTheBuyer /\ ProbeReachesOwn /\ BridgedToMeant /\ ActsForOwn

\* The home page's lamps and the table of orders show what is the case.
ShownIsTrue == LampsTellTruth /\ NoneMissed
==============================================================================
