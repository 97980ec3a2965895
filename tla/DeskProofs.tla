------------------------------- MODULE DeskProofs -------------------------------
(***************************************************************************)
(* What is proved of the window with its starts, and of the messages of a  *)
(* shop's chats, for any starts and any items said.                        *)
(***************************************************************************)
EXTENDS MCLoops, ProtocolProofs

-------------------------------------------------------------------------------
(***************************************************************************)
(* Starts and the client                                                   *)
(***************************************************************************)
\* Of two starts that are under way each has met the other.
AllMet == \A o, p \in UnderWay : o # p => o \in crossed

\* A start that has met nobody, and is ending the client, ends a plain one.
StopsPlain ==
  \A p \in Starts : starts[p] \in {"stopping", "restopping"} =>
    p \in crossed \/ qianfan \notin {"pending", "open"}

\* The types in four parts: the window, the workers and the application, the starts, the client.
Relay == {"stopped", "running", "attention", "needs_action"}
Boss  == {"stopped", "starting", "running", "degraded", "stopping"}
UiType     == /\ ui \in [relay : Relay, starting : BOOLEAN]
              /\ notifiers \in BOOLEAN /\ polling \in BOOLEAN
BackType   == boss \in Boss /\ workers \in BOOLEAN /\ stop \in BOOLEAN /\ app \in {"up", "quitting", "gone"}
StartsType == starts \in [Starts -> StartStages] /\ crossed \subseteq Starts
ClientType == /\ qianfan \in {"none", "plain", "pending", "open", "foreign"} /\ exe \subseteq Programs
              /\ kills \subseteq [hit : {"plain", "pending", "open"}, crossed : BOOLEAN]
DeskTypes  == UiType /\ BackType /\ StartsType /\ ClientType

DeskInv == DeskTypes /\ AllMet /\ StopsPlain /\ KillsArePlain

LEMMA DeskTyped == DeskTypes => DeskTypeOK
BY DEF DeskTypes, UiType, BackType, StartsType, ClientType, Relay, Boss, DeskTypeOK

LEMMA DeskInitially == DeskInit => DeskInv
<1> SUFFICES ASSUME DeskInit PROVE DeskInv
  OBVIOUS
<1>1. UiType /\ BackType
  BY DEF DeskInit, UiType, BackType, Relay, Boss
<1>2. StartsType /\ ClientType
  BY DEF DeskInit, StartsType, ClientType, StartStages
<1>3. AllMet /\ StopsPlain /\ KillsArePlain
  BY DEF DeskInit, AllMet, StopsPlain, KillsArePlain, UnderWay, Ended
<1> QED
  BY <1>1, <1>2, <1>3 DEF DeskInv, DeskTypes

LEMMA ShownType ==
  ASSUME NEW relay \in Relay, NEW starting \in BOOLEAN, Shown(relay, starting)
  PROVE  ui' \in [relay : Relay, starting : BOOLEAN]
BY DEF Shown

\* What is not touched keeps its type.
LEMMA TypesStay ==
  ASSUME DeskTypes
  PROVE  /\ UNCHANGED uiVars => UiType'
         /\ UNCHANGED <<boss, workers, stop, app>> => BackType'
         /\ UNCHANGED <<starts, crossed>> => StartsType'
         /\ UNCHANGED <<qianfan, exe, kills>> => ClientType'
BY DEF DeskTypes, UiType, BackType, StartsType, ClientType, uiVars

\* A start that is under way goes on or ends, and leaves the client as it is.
LEMMA GoesKeeps ==
  ASSUME DeskInv, NEW p \in UnderWay, NEW x \in StartStages \ {"none", "stopping", "restopping"},
         Goes(p, x), KeepClient, KeepRest
  PROVE  DeskInv'
<1>0. StartsType'
  BY DEF DeskInv, DeskTypes, StartsType, Goes, KeepClient
<1>1. DeskTypes'
  BY <1>0, TypesStay DEF DeskInv, DeskTypes, KeepClient, KeepRest
<1>2. UnderWay' \subseteq UnderWay
  BY DEF DeskInv, DeskTypes, StartsType, Goes, UnderWay
<1>3. AllMet'
  BY <1>2 DEF DeskInv, AllMet, KeepClient
<1>4. StopsPlain'
  BY DEF DeskInv, DeskTypes, StartsType, StopsPlain, Goes, KeepClient
<1>5. KillsArePlain'
  BY DEF DeskInv, KillsArePlain, KeepClient
<1> QED
  BY <1>1, <1>3, <1>4, <1>5 DEF DeskInv

\* What a start ends, looking at it.
LEMMA KillKeeps ==
  ASSUME DeskInv, NEW p \in Starts, Kill(p), Running, p \in crossed \/ qianfan = "plain",
         starts' \in [Starts -> StartStages], UnderWay' \subseteq UnderWay,
         \A o \in Starts \ {p} : starts'[o] = starts[o], KeepRest
  PROVE  DeskInv'
<1>1. qianfan \in {"plain", "pending", "open"}
  BY DEF Running
<1>6. StartsType'
  BY DEF DeskInv, DeskTypes, StartsType, Kill
<1>7. [hit |-> qianfan, crossed |-> p \in crossed] \in [hit : {"plain", "pending", "open"}, crossed : BOOLEAN]
  BY <1>1
<1>8. ClientType'
  BY <1>7 DEF DeskInv, DeskTypes, ClientType, Kill
<1>2. DeskTypes'
  BY <1>6, <1>8, TypesStay DEF DeskInv, DeskTypes, KeepRest
<1>3. AllMet'
  BY DEF DeskInv, AllMet, Kill
<1>4. StopsPlain'
  BY DEF DeskInv, StopsPlain, Kill
<1>5. KillsArePlain'
  <2> DEFINE n == [hit |-> qianfan, crossed |-> p \in crossed]
  <2>1. n.crossed = (p \in crossed) /\ n.hit = qianfan
    OBVIOUS
  <2>2. ~n.crossed => n.hit = "plain"
    BY <2>1
  <2>3. kills' = kills \cup {n}
    BY DEF Kill
  <2> HIDE DEF n
  <2> QED
    BY <2>2, <2>3 DEF DeskInv, KillsArePlain
<1> QED
  BY <1>2, <1>3, <1>4, <1>5 DEF DeskInv

\* What happens beside the starts and the client.
LEMMA BesideKeeps ==
  ASSUME DeskInv, DeskTypes', UNCHANGED <<qianfan, exe, kills>>, crossed \subseteq crossed',
         AllMet', \A p \in Starts : starts'[p] \in {"stopping", "restopping"} => starts[p] = starts'[p]
  PROVE  DeskInv'
BY DEF DeskInv, StopsPlain, KillsArePlain

LEMMA ClientKeeps ==
  ASSUME DeskInv, UserStartsClient \/ UserClosesClient \/ PortOpens
  PROVE  DeskInv'
<1>5. StartsType' /\ ClientType'
  BY DEF DeskInv, DeskTypes, StartsType, ClientType, UserStartsClient, UserClosesClient, PortOpens,
     KeepAllButClient, UnderWay
<1>1. DeskTypes'
  BY <1>5, TypesStay DEF DeskInv, DeskTypes, UserStartsClient, UserClosesClient, PortOpens, KeepAllButClient
<1>2. UnderWay' = UnderWay /\ crossed \subseteq crossed'
  BY DEF UserStartsClient, UserClosesClient, PortOpens, KeepAllButClient, UnderWay
<1>3. AllMet' /\ KillsArePlain'
  BY <1>2 DEF DeskInv, AllMet, KillsArePlain, UserStartsClient, UserClosesClient, PortOpens, KeepAllButClient
<1>4. StopsPlain'
  BY <1>2 DEF DeskInv, DeskTypes, StartsType, StopsPlain, UserStartsClient, UserClosesClient, PortOpens, KeepAllButClient,
     UnderWay, Ended
<1> QED
  BY <1>1, <1>3, <1>4 DEF DeskInv

LEMMA StartKeeps ==
  ASSUME DeskInv, NEW p \in Starts, StartStep(p) \/ ForceStopKills(p) \/ SpawnFails(p)
  PROVE  DeskInv'
<1>0. starts[p] \in StartStages /\ (starts[p] \notin Ended \cup {"none", "answered"} => p \in UnderWay)
  BY DEF DeskInv, DeskTypes, StartsType, UnderWay
<1>1. CASE StartBegins(p)
  BY <1>0, <1>1, GoesKeeps DEF StartBegins, Ended, StartStages
<1>2. CASE Check(p)
  BY <1>0, <1>2, GoesKeeps DEF Check, Ended, StartStages
<1>3. CASE EnsureDevToolsReady(p)
  BY <1>0, <1>3, GoesKeeps DEF EnsureDevToolsReady, Ended, StartStages
<1>4. ASSUME NEW x \in {"stopping", "restopping"}, Running, ~Spared, Kill(p), Goes(p, x), KeepRest, p \in UnderWay
      PROVE  DeskInv'
  <2>1. qianfan = "plain"
    BY <1>4 DEF Running, Spared, Probe, HasDebugArg
  <2>2. starts' \in [Starts -> StartStages] /\ UnderWay' \subseteq UnderWay
        /\ \A o \in Starts \ {p} : starts'[o] = starts[o]
    BY <1>4 DEF Goes, DeskInv, DeskTypes, StartsType, UnderWay, StartStages
  <2> QED
    BY <1>4, <2>1, <2>2, KillKeeps
<1>5. CASE KillIfNotInDebugMode(p)
  <2>1. CASE \E x \in {"failed", "shops", "attaching", "launching"} : Goes(p, x) /\ KeepClient
    BY <1>0, <1>5, <2>1, GoesKeeps DEF KillIfNotInDebugMode, Ended, StartStages
  <2>2. CASE app = "up" /\ Running /\ ~Spared /\ AutoClose /\ Kill(p) /\ Goes(p, "stopping")
    BY <1>0, <1>4, <1>5, <2>2 DEF KillIfNotInDebugMode, Ended
  <2> QED
    BY <1>5, <2>1, <2>2 DEF KillIfNotInDebugMode
<1>6. CASE ForceStopLooks(p) \/ ForceStopGivesUp(p)
  BY <1>0, <1>6, GoesKeeps DEF ForceStopLooks, ForceStopGivesUp, Ended, StartStages
<1>7. CASE LaunchClient(p)
  <2>1. CASE \E x \in {"failed", "attaching", "spawning"} : Goes(p, x) /\ KeepClient
    BY <1>0, <1>7, <2>1, GoesKeeps DEF LaunchClient, Ended, StartStages
  <2>2. CASE Running /\ ~Spared /\ AutoClose /\ Kill(p) /\ Goes(p, "restopping")
    BY <1>0, <1>4, <1>7, <2>2 DEF LaunchClient, Ended
  <2> QED
    BY <1>7, <2>1, <2>2 DEF LaunchClient
<1>8. CASE Spawn(p)
  <2>1. p \in UnderWay
    BY <1>0, <1>8 DEF Spawn, Ended
  <2>2. UnderWay' \subseteq UnderWay
    BY <1>8, <2>1 DEF Spawn, Goes, UnderWay, DeskInv, DeskTypes, StartsType
  <2>7. StartsType' /\ ClientType'
    BY <1>8 DEF Spawn, Goes, DeskInv, DeskTypes, StartsType, ClientType, StartStages
  <2>3. DeskTypes'
    BY <1>8, <2>7, TypesStay DEF Spawn, DeskInv, DeskTypes, KeepRest
  <2>4. AllMet' /\ KillsArePlain'
    BY <1>8, <2>2 DEF Spawn, DeskInv, AllMet, KillsArePlain
  <2>5. ASSUME NEW o \in Starts, starts'[o] \in {"stopping", "restopping"}
        PROVE  o \in crossed
    <3>1. o # p /\ o \in UnderWay
      BY <1>8, <2>5 DEF Spawn, Goes, DeskInv, DeskTypes, StartsType, UnderWay, Ended
    <3> QED
      BY <2>1, <3>1 DEF DeskInv, AllMet
  <2>6. StopsPlain'
    BY <1>8, <2>5 DEF StopsPlain, Spawn
  <2> QED
    BY <2>3, <2>4, <2>6 DEF DeskInv
<1>9. CASE WaitForProcessStart(p) \/ WaitForDevTools(p) \/ WaitForShopPages(p) \/ SpawnFails(p)
  BY <1>0, <1>9, GoesKeeps DEF WaitForProcessStart, WaitForDevTools, WaitForShopPages, SpawnFails, Ended, StartStages
<1>10. CASE StartAll(p) \/ StartAllEnds(p) \/ StartAnswered(p)
  <2> DEFINE X == {"done", "booting", "answered"}
  <2>7. PICK x \in X : Goes(p, x)
    BY <1>10 DEF StartAll, StartAllEnds, StartAnswered
  <2>6. UiType'
    <3>1. CASE UNCHANGED <<ui, notifiers>> /\ polling' \in BOOLEAN
      BY <3>1 DEF DeskInv, DeskTypes, UiType
    <3>2. CASE Shown(ui.relay, FALSE) /\ UNCHANGED <<notifiers, polling>>
      BY <3>2, ShownType DEF DeskInv, DeskTypes, UiType
    <3> QED
      BY <1>10, <3>1, <3>2 DEF StartAll, StartAllEnds, StartAnswered, uiVars, DeskInv, DeskTypes, UiType
  <2>8. BackType'
    BY <1>10 DEF StartAll, StartAllEnds, StartAnswered, KeepBack, DeskInv, DeskTypes, BackType, Boss
  <2>9. StartsType'
    BY <1>10, <2>7 DEF StartAll, StartAllEnds, StartAnswered, KeepBack, KeepClient, Goes, DeskInv, DeskTypes,
       StartsType, StartStages, Ended
  <2>1. DeskTypes'
    BY <1>10, <2>6, <2>8, <2>9, TypesStay
       DEF StartAll, StartAllEnds, StartAnswered, KeepBack, KeepClient, DeskInv, DeskTypes
  <2>2. UnderWay' \subseteq UnderWay
    <3>1. p \in UnderWay \/ x \notin {"booting"}
      BY <1>0, <1>10, <2>7 DEF StartAll, StartAllEnds, StartAnswered, Ended, Goes, DeskInv, DeskTypes, StartsType
    <3> QED
      BY <2>7, <3>1 DEF Goes, UnderWay, DeskInv, DeskTypes, StartsType, Ended
  <2>3. UNCHANGED <<qianfan, exe, kills, crossed>>
    BY <1>10 DEF StartAll, StartAllEnds, StartAnswered, KeepClient, KeepBack
  <2>4. AllMet'
    BY <2>2, <2>3 DEF DeskInv, AllMet
  <2>5. \A o \in Starts : starts'[o] \in {"stopping", "restopping"} => starts[o] = starts'[o]
    BY <1>10 DEF StartAll, StartAllEnds, StartAnswered, Goes, DeskInv, DeskTypes, StartsType
  <2> QED
    BY <2>1, <2>3, <2>4, <2>5, BesideKeeps
<1>11. CASE ForceStopKills(p)
  <2>1. p \in crossed \/ qianfan = "plain"
    BY <1>11 DEF ForceStopKills, DeskInv, StopsPlain, Running
  <2>2. starts' \in [Starts -> StartStages] /\ UnderWay' = UnderWay
    BY <1>11 DEF ForceStopKills, DeskInv, DeskTypes, StartsType, UnderWay
  <2> QED
    BY <1>11, <2>1, <2>2, KillKeeps DEF ForceStopKills
<1> QED
  BY <1>1, <1>2, <1>3, <1>5, <1>6, <1>7, <1>8, <1>9, <1>10, <1>11 DEF StartStep

LEMMA WindowKeeps ==
  ASSUME DeskInv, WorkersVary \/ WorkersSettle \/ WindowStep
  PROVE  DeskInv'
<1>0. ui.relay \in Relay /\ ui.starting \in BOOLEAN
  BY DEF DeskInv, DeskTypes, UiType
<1>6. UiType'
  <2>1. CASE UNCHANGED uiVars
    BY <2>1, TypesStay DEF DeskInv
  <2>2. ASSUME NEW relay \in Relay, NEW starting \in BOOLEAN, Shown(relay, starting),
               notifiers' \in BOOLEAN, polling' \in BOOLEAN
        PROVE  UiType'
    BY <2>2, ShownType DEF UiType
  <2>3. notifiers' \in BOOLEAN /\ polling' \in BOOLEAN
    BY DEF WorkersVary, WorkersSettle, WindowStep, HandleStopRelay, StopEnds, OnRuntimeStatus, OnLateStatus, PollsOn,
     RefreshBackendStatus, HandleCheckEnvironment, SaveNotifiers, BeforeQuit, Quit, DeskInv, DeskTypes, UiType, uiVars
  <2>4. CASE HandleStopRelay \/ StopEnds \/ OnLateStatus \/ HandleCheckEnvironment \/ SaveNotifiers \/ Quit
    <3>1. \E relay \in Relay, starting \in BOOLEAN : Shown(relay, starting)
      BY <1>0, <2>4 DEF HandleStopRelay, StopEnds, OnLateStatus, HandleCheckEnvironment, SaveNotifiers, Quit, Relay
    <3> QED
      BY <2>2, <2>3, <3>1
  <2>5. CASE OnRuntimeStatus \/ RefreshBackendStatus
    <3>1. \E relay \in Relay, starting \in BOOLEAN : Shown(relay, starting)
      BY <1>0, <2>5 DEF OnRuntimeStatus, RefreshBackendStatus, Relay
    <3> QED
      BY <2>2, <2>3, <3>1
  <2> QED
    BY <2>1, <2>4, <2>5 DEF WorkersVary, WorkersSettle, WindowStep, BeforeQuit
<1>7. BackType'
  BY DEF WorkersVary, WorkersSettle, WindowStep, HandleStopRelay, StopEnds, OnRuntimeStatus, OnLateStatus,
     RefreshBackendStatus, HandleCheckEnvironment, SaveNotifiers, BeforeQuit, Quit, KeepBack, DeskInv, DeskTypes,
     BackType, Boss
<1>2. UNCHANGED <<qianfan, exe, kills, crossed>>
  BY DEF WorkersVary, WorkersSettle, WindowStep, HandleStopRelay, StopEnds, OnRuntimeStatus, OnLateStatus,
     RefreshBackendStatus, HandleCheckEnvironment, SaveNotifiers, BeforeQuit, Quit, KeepClient, KeepBack
<1>3. starts' = starts \/ starts' = [p \in Starts |-> IF starts[p] = "none" THEN "none" ELSE "answered"]
  BY DEF WorkersVary, WorkersSettle, WindowStep, HandleStopRelay, StopEnds, OnRuntimeStatus, OnLateStatus,
     RefreshBackendStatus, HandleCheckEnvironment, SaveNotifiers, BeforeQuit, Quit
<1>4. UnderWay' \subseteq UnderWay
  BY <1>3 DEF UnderWay, Ended
<1>8. StartsType'
  BY <1>2, <1>3 DEF DeskInv, DeskTypes, StartsType, StartStages
<1>1. DeskTypes'
  BY <1>2, <1>6, <1>7, <1>8, TypesStay DEF DeskInv, DeskTypes
<1>5. AllMet'
  BY <1>2, <1>4 DEF DeskInv, AllMet
<1> QED
  BY <1>1, <1>2, <1>3, <1>5, BesideKeeps

LEMMA AskKeeps ==
  ASSUME DeskInv, NEW p \in Starts, HandleStartRelay(p)
  PROVE  DeskInv'
<1>0. ui.relay \in Relay /\ ui.starting \in BOOLEAN /\ "needs_action" \in Relay
  BY DEF DeskInv, DeskTypes, UiType, Relay
<1>5. UiType'
  <2>1. \E relay \in Relay, starting \in BOOLEAN : Shown(relay, starting)
    BY <1>0 DEF HandleStartRelay
  <2> QED
    BY <2>1, ShownType DEF HandleStartRelay, DeskInv, DeskTypes, UiType
<1>6. StartsType'
  BY DEF HandleStartRelay, DeskInv, DeskTypes, StartsType, Goes, StartStages, UnderWay
<1>1. DeskTypes'
  BY <1>5, <1>6, TypesStay DEF HandleStartRelay, DeskInv, DeskTypes
<1>2. UNCHANGED <<qianfan, exe, kills>> /\ crossed \subseteq crossed'
  BY DEF HandleStartRelay
<1>3. \A o \in Starts : starts'[o] \in {"stopping", "restopping"} => starts[o] = starts'[o]
  BY DEF HandleStartRelay, Goes, DeskInv, DeskTypes, StartsType
<1>4. AllMet'
  <2>1. CASE starts' = starts
    BY <1>2, <2>1 DEF DeskInv, AllMet, UnderWay
  <2>2. CASE starts'[p] = "asked"
    <3>1. UnderWay' \subseteq UnderWay \cup {p}
      BY DEF HandleStartRelay, Goes, DeskInv, DeskTypes, StartsType, UnderWay
    <3>2. UnderWay = {} \/ crossed' = crossed \cup UnderWay \cup {p}
      BY <2>2 DEF HandleStartRelay
    <3> QED
      BY <1>2, <3>1, <3>2 DEF AllMet
  <2> QED
    BY <2>1, <2>2 DEF HandleStartRelay, Goes, DeskInv, DeskTypes, StartsType
<1> QED
  BY <1>1, <1>2, <1>3, <1>4, BesideKeeps

LEMMA DeskStep == DeskInv /\ [DeskNext]_deskVars => DeskInv'
<1> SUFFICES ASSUME DeskInv, [DeskNext]_deskVars PROVE DeskInv'
  OBVIOUS
<1>1. CASE UNCHANGED deskVars
  <2>2. /\ UNCHANGED uiVars /\ UNCHANGED <<boss, workers, stop, app>>
        /\ UNCHANGED <<starts, crossed>> /\ UNCHANGED <<qianfan, exe, kills>>
    BY <1>1 DEF deskVars, uiVars
  <2>1. DeskTypes'
    BY <2>2, TypesStay DEF DeskInv, DeskTypes
  <2> QED
    BY <1>1, <2>1 DEF deskVars, DeskInv, AllMet, StopsPlain, KillsArePlain, UnderWay
<1>2. CASE DeskNext
  BY <1>2, ClientKeeps, StartKeeps, WindowKeeps, AskKeeps DEF DeskNext
<1> QED
  BY <1>1, <1>2

\* A start that meets no other ends no client but a plain one, for any number of
\* starts and whatever the user does to the client between the looks.
THEOREM PlainKillsOnly == DeskSpec => []KillsArePlain
<1>1. DeskInv => KillsArePlain
  BY DEF DeskInv
<1> QED
  BY <1>1, DeskInitially, DeskStep, PTL DEF DeskSpec

-------------------------------------------------------------------------------
(***************************************************************************)
(* The chats                                                               *)
(***************************************************************************)
\* The keys an item may have.
KeysOf(i) == {Key(i, "frame"), Key(i, "answer")}

ChatTypes ==
  /\ is \in [Item -> Traits]
  /\ said \subseteq Item /\ framed \subseteq said /\ old \subseteq said
  /\ template \in BOOLEAN /\ (polled = NotPolled \/ polled \subseteq said)
  /\ chatFaults \in 0..MaxChatFaults

\* What is handed on was said by a buyer, under a key of it.
HandedIsBuyers == \A m \in handed : m.item \in said /\ is[m.item].by = "CUSTOMER" /\ m.key \in KeysOf(m.item)

NotifiedWasSaid == \A k \in notified : \E i \in said : k \in KeysOf(i)

\* An item was told no oftener than it has keys that are notified.
ToldByKey ==
  /\ told \in [Item -> 0..2]
  /\ \A i \in Item :
       /\ told[i] >= 1 => is[i].by = "CUSTOMER" /\ KeysOf(i) \cap notified # {}
       /\ told[i] = 2 => KeysOf(i) \subseteq notified /\ Key(i, "frame") # Key(i, "answer")

ChatInv == ChatTypes /\ HandedIsBuyers /\ NotifiedWasSaid /\ ToldByKey

LEMMA ChatTyped == ChatInv => ChatTypeOK
<1> SUFFICES ASSUME ChatInv PROVE ChatTypeOK
  OBVIOUS
<1> DEFINE Keys == {Key(i, way) : i \in said, way \in {"frame", "answer"}}
<1>1. \A i \in said : KeysOf(i) \subseteq Keys
  BY DEF KeysOf
<1> HIDE DEF Keys
<1>2. notified \subseteq Keys
  BY <1>1 DEF ChatInv, NotifiedWasSaid
<1>3. {m.key : m \in handed} \subseteq Keys
  BY <1>1 DEF ChatInv, HandedIsBuyers
<1>4. {m.item : m \in handed} \subseteq {i \in said : is[i].by = "CUSTOMER"}
  BY DEF ChatInv, HandedIsBuyers
<1>5. notified \cup {m.key : m \in handed} \subseteq Keys
  BY <1>2, <1>3
<1> QED
  BY <1>4, <1>5 DEF ChatInv, ChatTypes, ToldByKey, ChatTypeOK, Keys

LEMMA ChatInitially == ChatInit => ChatInv
<1> SUFFICES ASSUME ChatInit PROVE ChatInv
  OBVIOUS
<1>4. 0 \in 0..MaxChatFaults
  BY ShopChatAssumption
<1>1. ChatTypes
  BY <1>4 DEF ChatInit, ChatTypes
<1>2. HandedIsBuyers /\ NotifiedWasSaid
  BY DEF ChatInit, HandedIsBuyers, NotifiedWasSaid
<1>3. ToldByKey
  BY DEF ChatInit, ToldByKey
<1> QED
  BY <1>1, <1>2, <1>3 DEF ChatInv

\* What has two keys has no id, and its frames have a time of their own.
LEMMA TwoKeys ==
  ASSUME NEW i \in Item, Key(i, "frame") # Key(i, "answer")
  PROVE  is[i].id = 0 /\ is[i].stamped
BY DEF Key

\* The parser lets through what a buyer said and nothing else.
LEMMA BuyersOnly ==
  ASSUME is \in [Item -> Traits], NEW some \in SUBSET Item, NEW i \in FromFrame(some) \cup FromAnswer(some)
  PROVE  i \in some /\ is[i].by = "CUSTOMER"
<1>1. i \in some /\ (i \in FromFrame(some) => BuyerItem(i))
  BY DEF FromFrame, Candidate, BuyerItem, FromAnswer
<1>2. /\ is[i].by \in Sender /\ is[i].mark \in {"typed", "deep", "uid", "bare"}
      /\ is[i].mark \in {"uid", "bare"} => is[i].by = "CUSTOMER"
  BY <1>1, ShopChatAssumption DEF Trait
<1>3. BuyerItem(i) => is[i].by = "CUSTOMER"
  BY <1>2 DEF BuyerItem, Direct, SenderType, BuyerUid, TypeInExtension
<1>4. Message(i, "answer").item = i
  BY DEF Message
<1>5. i \in FromAnswer(some) => TypeInExtension(i) \notin {"SYSTEM", "CSA"}
  BY <1>4 DEF FromAnswer, Ignored
<1> QED
  BY <1>1, <1>2, <1>3, <1>5 DEF TypeInExtension, Sender

\* Whatever is emitted of what the parser let through.
LEMMA EmitKeeps ==
  ASSUME HandedIsBuyers, is \in [Item -> Traits], said \subseteq Item, UNCHANGED <<is, said>>,
         NEW some \in SUBSET said, NEW way \in {"frame", "answer"},
         NEW new \in SUBSET {Message(i, way) : i \in FromFrame(some) \cup FromAnswer(some)},
         Emit(new)
  PROVE  HandedIsBuyers'
<1> SUFFICES ASSUME NEW n \in handed'
             PROVE  n.item \in said /\ is[n.item].by = "CUSTOMER" /\ n.key \in KeysOf(n.item)
  BY DEF HandedIsBuyers, KeysOf, Key
<1>1. CASE n \in handed
  BY <1>1 DEF HandedIsBuyers
<1>2. CASE n \notin handed
  <2>1. PICK m \in new : n = [item |-> m.item, key |-> m.key]
    BY <1>2 DEF Emit
  <2>2. PICK i \in FromFrame(some) \cup FromAnswer(some) : m = Message(i, way)
    BY <2>1
  <2>3. n.item = i /\ n.key = Key(i, way)
    BY <2>1, <2>2 DEF Message
  <2>4. i \in said /\ is[i].by = "CUSTOMER"
    BY BuyersOnly
  <2> QED
    BY <2>3, <2>4 DEF KeysOf
<1> QED
  BY <1>1, <1>2

\* Whoever is told once more is told under a key nobody was told under.
LEMMA TellKeeps ==
  ASSUME ChatInv, NEW m \in handed, Tell(m)
  PROVE  ToldByKey'
<1>1. notified' = notified \cup {m.key} /\ \A i \in Item : KeysOf(i)' = KeysOf(i)
  BY DEF Tell, KeysOf, Key
<1>2. CASE m.key \in notified
  BY <1>1, <1>2 DEF Tell, ChatInv, ToldByKey, KeysOf, Key
<1>3. CASE m.key \notin notified
  <2> DEFINE i == m.item
  <2>1. i \in Item /\ is[i].by = "CUSTOMER" /\ m.key \in KeysOf(i)
    BY DEF ChatInv, ChatTypes, HandedIsBuyers
  <2>2. told' = [told EXCEPT ![i] = told[i] + 1] /\ is' = is
    BY <1>3 DEF Tell
  <2>3. told[i] \in {0, 1}
    BY <1>3, <2>1 DEF ChatInv, ToldByKey
  <2>4. told[i] = 1 => KeysOf(i) \subseteq notified' /\ Key(i, "frame") # Key(i, "answer")
    <3> SUFFICES ASSUME told[i] = 1 PROVE KeysOf(i) \subseteq notified' /\ Key(i, "frame") # Key(i, "answer")
      OBVIOUS
    <3>1. PICK k \in KeysOf(i) : k \in notified
      BY <2>1 DEF ChatInv, ToldByKey
    <3>2. k # m.key
      BY <1>3, <3>1
    <3> QED
      BY <1>1, <2>1, <3>1, <3>2 DEF KeysOf
  <2>5. told' \in [Item -> 0..2] /\ told'[i] = told[i] + 1
    BY <2>1, <2>2, <2>3 DEF ChatInv, ToldByKey
  <2> HIDE DEF i
  <2>6. Key(i, "frame")' = Key(i, "frame") /\ Key(i, "answer")' = Key(i, "answer")
    BY <2>2 DEF Key
  <2>7. ASSUME NEW j \in Item
        PROVE  /\ told'[j] >= 1 => is'[j].by = "CUSTOMER" /\ KeysOf(j)' \cap notified' # {}
               /\ told'[j] = 2 => KeysOf(j)' \subseteq notified' /\ Key(j, "frame")' # Key(j, "answer")'
    <3>1. CASE j = i
      BY <1>1, <2>1, <2>2, <2>3, <2>4, <2>5, <2>6, <3>1
    <3>2. CASE j # i
      <4>1. told'[j] = told[j] /\ Key(j, "frame")' = Key(j, "frame") /\ Key(j, "answer")' = Key(j, "answer")
        BY <2>2, <3>2 DEF ChatInv, ToldByKey, Key
      <4> QED
        BY <1>1, <2>2, <4>1 DEF ChatInv, ToldByKey
    <3> QED
      BY <3>1, <3>2
  <2> QED
    BY <2>5, <2>7 DEF ToldByKey
<1> QED
  BY <1>2, <1>3

LEMMA ChatStep == ChatInv /\ [ChatNext]_chatVars => ChatInv'
<1> SUFFICES ASSUME ChatInv, [ChatNext]_chatVars PROVE ChatInv'
  OBVIOUS
<1>1. ASSUME ChatTypes', UNCHANGED <<is, told, notified>>, said \subseteq said', HandedIsBuyers'
      PROVE  ChatInv'
  BY <1>1 DEF ChatInv, NotifiedWasSaid, ToldByKey, KeysOf, Key
<1>2. ASSUME UNCHANGED is, said \subseteq said', handed' \subseteq handed
      PROVE  HandedIsBuyers'
  BY <1>2 DEF ChatInv, HandedIsBuyers, KeysOf, Key
<1>3. CASE UNCHANGED chatVars
  <2>1. ChatTypes' /\ UNCHANGED <<is, told, notified, said, handed>>
    BY <1>3 DEF chatVars, ChatInv, ChatTypes
  <2> QED
    BY <1>1, <1>2, <2>1
<1>4. ASSUME NEW i \in Item, Say(i) \/ Grows(i) PROVE ChatInv'
  <2>1. ChatTypes' /\ UNCHANGED <<is, told, notified, handed>> /\ said \subseteq said'
    BY <1>4 DEF Say, Grows, ChatInv, ChatTypes
  <2> QED
    BY <1>1, <1>2, <2>1
<1>5. ASSUME NEW some \in SUBSET (said \ framed) \ {{}}, Frame(some) PROVE ChatInv'
  <2>1. ChatTypes' /\ UNCHANGED <<is, told, notified, said>>
    BY <1>5 DEF Frame, ChatInv, ChatTypes
  <2>2. Emit({Message(i, "frame") : i \in FromFrame(some)})
    BY <1>5 DEF Frame
  <2>3. HandedIsBuyers'
    BY <2>1, <2>2, EmitKeeps DEF ChatInv, ChatTypes
  <2> QED
    BY <1>1, <2>1, <2>3
<1>6. ASSUME NEW some \in SUBSET (said \ framed) \ {{}}, FrameLost(some) PROVE ChatInv'
  <2>1. ChatTypes' /\ UNCHANGED <<is, told, notified, handed, said>>
    BY <1>6, ShopChatAssumption DEF FrameLost, ChatFault, ChatInv, ChatTypes
  <2> QED
    BY <1>1, <1>2, <2>1
<1>7. CASE PageRequests \/ PollEnds
  <2>1. ChatTypes' /\ UNCHANGED <<is, told, notified, said>>
    BY <1>7 DEF PageRequests, PollEnds, ChatInv, ChatTypes
  <2>2. PICK some \in SUBSET said : \E new \in SUBSET {Message(i, "answer") : i \in FromAnswer(some)} : Emit(new)
    <3>1. CASE PageRequests
      BY <3>1 DEF PageRequests, Recent
    <3>2. CASE PollEnds
      <4>1. polled \ old \in SUBSET said
        BY <3>2 DEF PollEnds, ChatInv, ChatTypes
      <4> QED
        BY <3>2, <4>1 DEF PollEnds
    <3> QED
      BY <1>7, <3>1, <3>2
  <2>3. HandedIsBuyers'
    BY <2>1, <2>2, EmitKeeps DEF ChatInv, ChatTypes
  <2> QED
    BY <1>1, <2>1, <2>3
<1>8. CASE PollStarts \/ PollFails \/ ListenerRestarts
  <2>2. chatFaults' \in 0..MaxChatFaults
    BY <1>8, ShopChatAssumption DEF PollStarts, PollFails, ListenerRestarts, ChatFault, ChatInv, ChatTypes
  <2>3. template' \in BOOLEAN /\ (polled' = NotPolled \/ polled' \subseteq said)
    BY <1>8 DEF PollStarts, PollFails, ListenerRestarts, Recent, ChatInv, ChatTypes
  <2>4. UNCHANGED <<is, told, notified, handed, said, framed, old>>
    BY <1>8 DEF PollStarts, PollFails, ListenerRestarts
  <2>1. ChatTypes' /\ UNCHANGED <<is, told, notified, handed, said>>
    BY <2>2, <2>3, <2>4 DEF ChatInv, ChatTypes
  <2> QED
    BY <1>1, <1>2, <2>1
<1>9. ASSUME NEW m \in handed, TellFails(m) PROVE ChatInv'
  <2>1. ChatTypes' /\ UNCHANGED <<is, told, notified, said>> /\ handed' \subseteq handed
    BY <1>9, ShopChatAssumption DEF TellFails, ChatFault, ChatInv, ChatTypes
  <2> QED
    BY <1>1, <1>2, <2>1
<1>10. ASSUME NEW m \in handed, Tell(m) PROVE ChatInv'
  <2>1. ChatTypes' /\ UNCHANGED <<is, said>> /\ handed' \subseteq handed
    BY <1>10 DEF Tell, ChatInv, ChatTypes
  <2>2. NotifiedWasSaid'
    BY <1>10 DEF Tell, ChatInv, NotifiedWasSaid, HandedIsBuyers, KeysOf, Key
  <2> QED
    BY <1>2, <1>10, <2>1, <2>2, TellKeeps DEF ChatInv
<1> QED
  BY <1>3, <1>4, <1>5, <1>6, <1>7, <1>8, <1>9, <1>10 DEF ChatNext

-------------------------------------------------------------------------------
(***************************************************************************)
(* The four together                                                       *)
(***************************************************************************)
AllInv == DeskInv /\ ChatInv /\ DaemonInv /\ ClientInv

LEMMA AllAlways == Spec => []AllInv
<1>1. Init => AllInv
  BY DeskInitially, ChatInitially, DaemonInitially, ClientInitially DEF Init, AllInv
<1>2. ASSUME AllInv, [Next]_vars PROVE AllInv'
  <2>1. [DeskNext]_deskVars /\ [ChatNext]_chatVars /\ [DaemonNext]_daemonVars /\ [ClientNext]_clientVars
    <3>1. CASE Next
      BY <3>1 DEF Next
    <3>2. CASE UNCHANGED vars
      BY <3>2 DEF vars
    <3> QED
      BY <1>2, <3>1, <3>2
  <2> QED
    BY <1>2, <2>1, DeskStep, ChatStep, DaemonStep, ClientStep DEF AllInv
<1> QED
  BY <1>1, <1>2, PTL DEF Spec

\* The type of every variable of the four parts, for any starts, items, shops, messages,
\* requests and faults.
THEOREM LoopsTyping == Spec => []TypeOK
<1>1. DeskInv /\ ChatInv => DeskTypeOK /\ ChatTypeOK
  BY DeskTyped, ChatTyped DEF DeskInv
<1>2. DaemonInv /\ ClientInv => DaemonTypeOK /\ ClientTypeOK
  BY DaemonTyped, ClientTyped
<1>3. AllInv => TypeOK
  BY <1>1, <1>2 DEF AllInv, TypeOK
<1> QED
  BY <1>3, AllAlways, PTL

\* What a buyer wrote is told once within the life of its key, and what is answered
\* as sent the platform has taken.
THEOREM ProtocolMessages == Spec => []MessagesSound
<1>1. AllInv => MessagesSound
  BY DEF AllInv, DaemonInv, ClientInv, MessagesSound
<1> QED
  BY <1>1, AllAlways, PTL

\* The receivers are told only what a buyer said, and once, however many items are
\* said, frames lost, requests repeated, notices failed and listeners restarted.
THEOREM BuyersToldOnce == Spec => []ToldBuyersOnce
<1>1. ChatInv => ToldBuyersOnce
  <2> SUFFICES ASSUME ChatInv, NEW i \in Item, told[i] > 0
               PROVE  is[i].by = "CUSTOMER" /\ told[i] <= IF is[i].id = 0 /\ is[i].stamped THEN 2 ELSE 1
    BY DEF ToldBuyersOnce
  <2>1. told[i] \in {1, 2} /\ (told[i] = 2 => is[i].id = 0 /\ is[i].stamped)
    BY TwoKeys DEF ChatInv, ToldByKey
  <2> QED
    BY <2>1 DEF ChatInv, ToldByKey
<1>2. AllInv => ToldBuyersOnce
  BY <1>1 DEF AllInv
<1> QED
  BY <1>2, AllAlways, PTL
===============================================================================
