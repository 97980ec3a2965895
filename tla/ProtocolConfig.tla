------------------------------ MODULE ProtocolConfig -----------------------------
(* The configuration with which a shop is served without its page. What the bot   *)
(* sees in the shops' pages -- the lists the page asks for, what the staff send,   *)
(* the sockets and the frame that signs on -- is kept in the bot's memory and,     *)
(* when the tap is on, recorded with the title of the page in one file for all     *)
(* shops and each day. An export fills the shop's row of a local file from the     *)
(* memory; the agent refreshes every row from the two newest files of the tap; the *)
(* bridge's service and the daemon read the row and refresh it once more.          *)
(* Titles are compared by inclusion, so a shop takes what is Akin for its own.     *)
(* Cookies, sequence numbers and what concerns images follow the same ways as the  *)
(* fields that are kept; of an address only its shop and kind are.                 *)
EXTENDS Naturals, Sequences, FiniteSets

CONSTANTS Stores, NoStore,       \* shops
          Akin,                  \* pairs of shops one of whose titles contains the other's
          Brand,                 \* of each shop: that of all shops linked with it by such pairs
          Talks, NoTalk, StoreOf, \* conversations, and the shop of each
          Tests,                 \* those with the buyer used for tests
          Familiar,              \* those a session context is stored for
          Lines,                 \* lines read of a file of the tap (8000)
          MaxCaptured, MaxExports, \* bounds of what is seen in the pages, of exports and refreshes,
          MaxSetup               \* and of both together

ASSUME SetupAssumption ==
  /\ NoStore \notin Stores /\ NoTalk \notin Talks
  /\ Akin \subseteq Stores \X Stores
  /\ \A a \in Akin : Brand[a[1]] = Brand[a[2]]
  /\ \A s, t \in Stores : <<s, s>> \in Akin /\ (<<s, t>> \in Akin => <<t, s>> \in Akin)
  /\ StoreOf \in [Talks -> Stores] /\ Tests \subseteq Talks /\ Familiar \subseteq Talks
  /\ Lines \in Nat \ {0} /\ {MaxCaptured, MaxExports, MaxSetup} \subseteq Nat

VARIABLES tapOn,     \* isProtocolTapEnabled
          seen,      \* of each shop: what the bot's memory holds of its page
          tap,       \* the newest file of the tap and the one before it
          localRow,  \* the shops' rows of qianfan-protocol-shops.local.json
          used,      \* the configuration a service or the daemon has just begun to use, and of which shop
          captured, exported
setupVars == <<tapOn, seen, tap, localRow, used, captured, exported>>

Ways == {"impaas", "apppush"}
NoUrl == [shop |-> NoStore, way |-> "unknown"]
Url == [shop : Stores, way : Ways] \cup {NoUrl}
TapRow == [kind : {"list", "send", "auth", "opens"}, shop : Stores, talk : Talks \cup {NoTalk},
           way : Ways \cup {"unknown"}]

\* open: the bot holds a page; list: whose messages were asked for last; last: to whom the
\* staff wrote last, over: over which socket; ways: the sockets seen to open. maps: the shop
\* whose tables are used, which hold to whom the staff wrote (sent) and the last list (asked).
Shut == [open |-> FALSE, list |-> NoTalk, last |-> NoTalk, over |-> NoUrl, ways |-> {},
         maps |-> NoStore, sent |-> {}, asked |-> NoTalk]

\* auth: whose authorization the HTTP requests carry; list: the conversation of the
\* list request; sample: of the sent message that serves as a pattern; cid and to: the
\* conversation and the receiver of test messages; url, send, push: addresses; tpl
\* and shake: whose frame signs on and whose headers open the socket.
Unset == [auth |-> NoStore, list |-> NoTalk, sample |-> NoTalk, cid |-> NoTalk, to |-> NoTalk,
          url |-> NoUrl, send |-> NoUrl, push |-> NoUrl, tpl |-> NoStore, shake |-> NoStore]
\* There is no row.
NoConfig == [Unset EXCEPT !.auth = "no row"]
NoUse == <<NoStore, NoConfig>>

SetupInit ==
  /\ tapOn \in BOOLEAN
  /\ seen = [s \in Stores |-> Shut] /\ tap = <<<<>>, <<>>>>
  /\ localRow = [s \in Stores |-> NoConfig] /\ used = NoUse
  /\ captured = 0 /\ exported = 0

----------------------------------------------------------------------------------
NothingBegun == used' = NoUse
Sees == captured < MaxCaptured /\ captured + exported < MaxSetup /\ captured' = captured + 1
Exports == exported < MaxExports /\ captured + exported < MaxSetup /\ exported' = exported + 1

\* What the bot sees. recordTap writes nothing when the tap is off.
recordTap(kind, s, t, w) ==
  /\ Sees
  /\ seen[s].open
  /\ tap' = IF tapOn
            THEN [tap EXCEPT ![1] = Append(@, [kind |-> kind, shop |-> s, talk |-> t, way |-> w])]
            ELSE tap
  /\ NothingBegun
  /\ UNCHANGED <<tapOn, localRow, exported>>

\* The page asks for the messages of a conversation.
captureHttpTemplate(s, t) == [seen EXCEPT ![s].list = t, ![seen[s].maps].asked = t]
SeesList(s, t) ==
  /\ recordTap("list", s, t, "unknown")
  /\ seen' = captureHttpTemplate(s, t)

\* The page sends a text; the address of a socket older than the bot is unknown.
captureManualSend(s, t, w) ==
  [seen EXCEPT ![s].last = t, ![s].over = IF w \in Ways THEN [shop |-> s, way |-> w] ELSE NoUrl,
               ![seen[s].maps].sent = @ \cup {t}]
SeesSend(s, t, w) ==
  /\ w \in seen[s].ways \cup {"unknown"}
  /\ recordTap("send", s, t, w)
  /\ seen' = captureManualSend(s, t, w)

\* The page opens a socket, or signs on over the one that asks for it.
SeesOpen(s, w) ==
  /\ recordTap("opens", s, NoTalk, w)
  /\ seen' = [seen EXCEPT ![s].ways = @ \cup {w}]
SeesAuth(s) ==
  /\ "apppush" \in seen[s].ways
  /\ recordTap("auth", s, NoTalk, "apppush")
  /\ UNCHANGED seen

\* The page of the shop itself or else of one whose title contains its title.
findBridgeByShopTitle(s) ==
  IF seen[s].open THEN {s} ELSE {p \in Stores : seen[p].open /\ <<s, p>> \in Akin}

\* The bot connects to a page, for the first time or again. What it holds of the page it
\* finds under the title is kept, be it that of another shop, whose tables are shared from
\* then on; the sockets are forgotten. A page that is closed is still held.
registerQianfanWsBridge(s) ==
  /\ IF seen[s].open THEN Sees ELSE UNCHANGED captured
  /\ seen' \in LET prev == findBridgeByShopTitle(s) IN
       IF prev = {} THEN {[seen EXCEPT ![s] = [@ EXCEPT !.open = TRUE, !.maps = s]]}
       ELSE {[seen EXCEPT ![s] = [seen[p] EXCEPT !.ways = {}, !.sent = seen[s].sent,
                                                 !.asked = seen[s].asked]] : p \in prev}
  /\ NothingBegun
  /\ UNCHANGED <<tapOn, tap, localRow, exported>>

\* The bot's process ends, and what is in memory with it.
BotRestarts ==
  /\ Sees
  /\ seen' = [s \in Stores |-> Shut]
  /\ NothingBegun
  /\ UNCHANGED <<tapOn, tap, localRow, exported>>

\* The first row of a new day begins a file; a third file is not read.
NewDay ==
  /\ tap[1] # <<>>
  /\ tap' = <<<<>>, tap[1]>>
  /\ NothingBegun
  /\ UNCHANGED <<tapOn, seen, localRow, captured, exported>>

----------------------------------------------------------------------------------
\* From memory to the local file.
\* What the bot's own process answers, or nothing when there is no page or the bot
\* cannot be reached.
loadLiveSnapshot(s) == findBridgeByShopTitle(s)
buildQianfanProtocolSnapshot(p) ==
  [seen[p] EXCEPT !.sent = seen[seen[p].maps].sent, !.asked = seen[seen[p].maps].asked]

KnownTalks(s) == {t \in Familiar : StoreOf[t] = s}
Either(preferred, other) == IF preferred # {} THEN preferred ELSE other

\* The only conversation that was written to, or the test buyer's, or another that a socket
\* of the page has, or one that was written to, or if there is none one that is stored.
pickAppCid(s, p) ==
  LET sent == buildQianfanProtocolSnapshot(p).sent IN
  IF Cardinality(sent) = 1 THEN sent
  ELSE Either(KnownTalks(s) \cap Tests,
         {t \in Talks : StoreOf[t] = p} \cup Either(sent, Either(KnownTalks(s), {NoTalk})))
pickTextSendSample(p, cid) ==
  LET snapshot == buildQianfanProtocolSnapshot(p) IN
  IF cid \in snapshot.sent THEN {cid}
  ELSE IF snapshot.last # NoTalk THEN {snapshot.last} ELSE Either(snapshot.sent, {NoTalk})
pickReceiverAppUids(sample, cid) ==
  IF sample # NoTalk THEN sample ELSE IF cid \in Familiar THEN cid ELSE NoTalk

\* The socket that was sent over last, or any that was seen, or any the page itself has.
serializeWsCandidates(p) == {[shop |-> p, way |-> w] : w \in seen[p].ways}
pickWsCandidate(p) ==
  IF seen[p].over # NoUrl THEN {seen[p].over}
  ELSE Either(serializeWsCandidates(p), {[shop |-> p, way |-> w] : w \in Ways})

pickMessageListTemplate(p) ==
  LET snapshot == buildQianfanProtocolSnapshot(p) IN
  IF snapshot.list # NoTalk THEN snapshot.list ELSE snapshot.asked
extractAuthFromSnapshot(p) ==
  IF pickMessageListTemplate(p) = NoTalk THEN NoStore ELSE StoreOf[pickMessageListTemplate(p)]
buildLiveProtocolConfig(p, cid, sample, url) ==
  [Unset EXCEPT !.auth = extractAuthFromSnapshot(p), !.list = pickMessageListTemplate(p),
                !.url = url, !.cid = cid, !.sample = sample, !.to = pickReceiverAppUids(sample, cid)]

\* A field that has a value keeps it unless the export is forced; the authorization
\* is always replaced.
mergeShopIntoLocal(old, new, force) ==
  IF old = NoConfig THEN new
  ELSE [f \in DOMAIN old |->
          IF new[f] # Unset[f] /\ (force \/ f = "auth" \/ old[f] = Unset[f]) THEN new[f] ELSE old[f]]

\* Asked for shop s, the export writes the row of the shop p whose page answered.
Export(s, p, force) ==
  /\ Exports
  /\ p \in loadLiveSnapshot(s)
  /\ \E cid \in pickAppCid(s, p), url \in pickWsCandidate(p) : \E sample \in pickTextSendSample(p, cid) :
       localRow' = [localRow EXCEPT ![p] =
                      mergeShopIntoLocal(@, buildLiveProtocolConfig(p, cid, sample, url), force)]
  /\ NothingBegun
  /\ UNCHANGED <<tapOn, seen, tap, captured>>

----------------------------------------------------------------------------------
\* From the tap. The rows of the newest file stand before those of the older one.
LastLines(rows) == SubSeq(rows, IF Len(rows) > Lines THEN Len(rows) - Lines + 1 ELSE 1, Len(rows))
readTapRows == LastLines(tap[1]) \o LastLines(tap[2])

\* The row at the first or the last of some places.
NoRow == [kind |-> "none", shop |-> NoStore, talk |-> NoTalk, way |-> "unknown"]
FirstOf(at) == IF at = {} THEN NoRow ELSE readTapRows[CHOOSE i \in at : \A j \in at : i <= j]
LastOf(at) == IF at = {} THEN NoRow ELSE readTapRows[CHOOSE i \in at : \A j \in at : j <= i]

\* (mutant) The title of the page is not looked at.
AnyTitle(rowTitle, shopTitle) == TRUE
shopTitleMatches(rowTitle, shopTitle) == <<rowTitle, shopTitle>> \in Akin
RowsOf(kind) == {i \in DOMAIN readTapRows : readTapRows[i].kind = kind}
OwnRows(s, kind) == {i \in RowsOf(kind) : shopTitleMatches(readTapRows[i].shop, s)}
WithTalk(at, talks) == {i \in at : readTapRows[i].talk \in talks}
WithWay(at, w) == {i \in at : readTapRows[i].way = w}

\* The last row that is preferred, or the last of all.
pickLatestTextSendSample(s) ==
  LastOf(Either(WithTalk(OwnRows(s, "send"), Tests), OwnRows(s, "send")))
\* The list requests of every shop are looked at.
pickLatestMessageListRequest(prefer) ==
  LastOf(Either(WithTalk(RowsOf("list"), {prefer}), RowsOf("list")))

UrlOf(r) == IF r.way \in Ways THEN [shop |-> r.shop, way |-> r.way] ELSE NoUrl
pickImpaasSendWsUrlFromTap(s) ==
  UrlOf(FirstOf(Either(WithWay(OwnRows(s, "send"), "impaas"), WithWay(OwnRows(s, "opens"), "impaas"))))
pickApppushSendWsUrlFromTap(s) == UrlOf(LastOf(WithWay(OwnRows(s, "send"), "apppush")))
pickApppushWsUrlFromTap(s) == UrlOf(FirstOf(WithWay(OwnRows(s, "opens"), "apppush")))

\* A socket that takes messages without signing on ranks above one that asks for it.
OrElse(u, v) == IF u # NoUrl THEN u ELSE v
Only(w, u) == IF u.way = w THEN u ELSE NoUrl
resolveProtocolWsEndpoints(c, s) ==
  [send |-> OrElse(Only("impaas", c.send), OrElse(Only("impaas", c.url),
              OrElse(pickImpaasSendWsUrlFromTap(s), OrElse(c.send, pickApppushSendWsUrlFromTap(s))))),
   push |-> OrElse(c.push, OrElse(Only("apppush", c.url),
              OrElse(pickApppushSendWsUrlFromTap(s), pickApppushWsUrlFromTap(s))))]

TakeList(c, s) ==
  LET prefer == IF c.cid # NoTalk THEN c.cid ELSE pickLatestTextSendSample(s).talk
      row == pickLatestMessageListRequest(prefer)
  IN  IF RowsOf("list") = {} THEN c ELSE [c EXCEPT !.list = row.talk, !.auth = row.shop]
TakeSample(c, s) ==
  LET row == pickLatestTextSendSample(s) IN
  IF OwnRows(s, "send") = {} THEN c
  ELSE [c EXCEPT !.sample = row.talk, !.cid = row.talk, !.to = row.talk,
                 !.send = OrElse(UrlOf(row), @)]
TakeEndpoints(c, s) ==
  LET found == resolveProtocolWsEndpoints(c, s)
      listen == OrElse(found.send, found.push)
  IN  [c EXCEPT !.send = found.send, !.push = found.push,
                !.url = IF listen # NoUrl /\ @.way # "impaas" THEN listen ELSE @]
TakeSignOn(c, s) ==
  LET auths == OwnRows(s, "auth")
      opens == OwnRows(s, "opens")
  IN  [c EXCEPT !.tpl = IF auths = {} THEN @ ELSE LastOf(auths).shop,
                !.auth = IF @ = NoStore THEN LastOf(auths).shop ELSE @,
                !.shake = IF opens = {} THEN @ ELSE LastOf(opens).shop]
applyTapToShopConfig(c, s) ==
  TakeSignOn(TakeEndpoints(TakeSample(TakeList(c, s), s), s), s)

\* The agent refreshes every row of the local file.
Refresh ==
  /\ Exports
  /\ localRow' = [s \in Stores |-> IF localRow[s] = NoConfig THEN NoConfig
                               ELSE applyTapToShopConfig(localRow[s], s)]
  /\ NothingBegun
  /\ UNCHANGED <<tapOn, seen, tap, captured>>

----------------------------------------------------------------------------------
\* To whoever uses it. The bridge's service also looks into the bot's memory, and
\* what it then lacks it takes from the row.
mergeLiveSnapshotHints(c, p) ==
  [c EXCEPT !.auth = IF extractAuthFromSnapshot(p) # NoStore THEN extractAuthFromSnapshot(p) ELSE @,
            !.send = CASE "impaas" \in seen[p].ways -> [shop |-> p, way |-> "impaas"]
                       [] OTHER -> IF seen[p].over.way = "impaas" THEN seen[p].over ELSE @]
mergeShopConfig(c, existing) ==
  [f \in DOMAIN c |->
     LET lacks == IF f = "to" THEN "cid" ELSE f IN
     IF f # "auth" /\ c[lacks] = Unset[lacks] THEN existing[f] ELSE c[f]]

ServiceStarts(s) ==
  /\ localRow[s] # NoConfig
  /\ \E c \in {localRow[s]} \cup {mergeLiveSnapshotHints(localRow[s], p) : p \in loadLiveSnapshot(s)} :
       used' = <<s, mergeShopConfig(applyTapToShopConfig(c, s), localRow[s])>>
  /\ UNCHANGED <<tapOn, seen, tap, localRow, captured, exported>>

\* The daemon refreshes the row twice when it makes a shop's worker.
DaemonLoads(s) ==
  /\ localRow[s] # NoConfig
  /\ used' = <<s, applyTapToShopConfig(applyTapToShopConfig(localRow[s], s), s)>>
  /\ UNCHANGED <<tapOn, seen, tap, localRow, captured, exported>>

SetupNext ==
  \/ \E t \in Talks : SeesList(StoreOf[t], t) \/ \E w \in Ways \cup {"unknown"} : SeesSend(StoreOf[t], t, w)
  \/ \E s \in Stores : SeesAuth(s) \/ registerQianfanWsBridge(s) \/ \E w \in Ways : SeesOpen(s, w)
  \/ NewDay \/ Refresh \/ BotRestarts
  \/ \E s, p \in Stores, force \in BOOLEAN : Export(s, p, force)
  \/ \E s \in Stores : ServiceStarts(s) \/ DaemonLoads(s)

----------------------------------------------------------------------------------
ShopConfig == [auth : Stores \cup {NoStore}, list : Talks \cup {NoTalk}, sample : Talks \cup {NoTalk},
           cid : Talks \cup {NoTalk}, to : Talks \cup {NoTalk}, url : Url, send : Url, push : Url,
           tpl : Stores \cup {NoStore}, shake : Stores \cup {NoStore}]

SetupTypeOK ==
  /\ tapOn \in BOOLEAN
  /\ \A s \in Stores :
       /\ seen[s].open \in BOOLEAN /\ seen[s].list \in Talks \cup {NoTalk}
       /\ {seen[s].last, seen[s].asked} \subseteq Talks \cup {NoTalk} /\ seen[s].sent \subseteq Talks
       /\ seen[s].over \in Url /\ seen[s].ways \subseteq Ways
       /\ seen[s].maps \in IF seen[s].open THEN Stores ELSE {NoStore}
  /\ \A d \in {1, 2} : \A i \in 1..Len(tap[d]) : tap[d][i] \in TapRow
  /\ localRow \in [Stores -> ShopConfig \cup {NoConfig}]
  /\ used \in (Stores \X ShopConfig) \cup {NoUse}
  /\ captured \in 0..MaxCaptured /\ exported \in 0..MaxExports

\* Whatever a shop's row or a service of it holds -- the pattern and the receiver of
\* its messages, its addresses, the frame that signs on -- was seen in a page of the shop's
\* brand. The list request and its authorization are too as long as the tap is off; the
\* tap's rows of them are taken whatever shop they are of.
ActsForOwn ==
  LET OfBrand(s, p) == p # NoStore => Brand[p] = Brand[s]
      TalkOfBrand(s, t) == t # NoTalk => OfBrand(s, StoreOf[t])
      FromBrand(s, c) ==
        /\ \A t \in {c.sample, c.cid, c.to} : TalkOfBrand(s, t)
        /\ \A p \in {c.url.shop, c.send.shop, c.push.shop, c.tpl, c.shake} : OfBrand(s, p)
        /\ tapOn \/ (OfBrand(s, c.auth) /\ TalkOfBrand(s, c.list))
  IN  /\ \A s \in Stores : localRow[s] # NoConfig => FromBrand(s, localRow[s])
      /\ used # NoUse => FromBrand(used[1], used[2])
==================================================================================
