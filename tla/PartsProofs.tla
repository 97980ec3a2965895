----------------------------- MODULE PartsProofs -----------------------------
(***************************************************************************)
(* The inductive invariants of the cookies, the WeChat bot, the home page  *)
(* and the search for orders, and the theorems about MCParts: what a run   *)
(* shows for a few buyers, shops, calls and orders holds for any.          *)
(***************************************************************************)
EXTENDS MCParts, ReachedProofs

-------------------------------------------------------------------------------
(***************************************************************************)
(* The cookies of the shops (ShopCookies)                                  *)
(***************************************************************************)
\* What is kept of a shop is its own; what is whole can read orders.
OwnCookies(s) == {c \in Cookies : c.of = s}
WholeCookies(s) == {c \in OwnCookies(s) : IsOrderCapable(c)}
BridgeOf(s) == [merged : OwnCookies(s), last : OwnCookies(s), ark : OwnCookies(s),
                recent : BOOLEAN, dirty : BOOLEAN]
EntryOf(s) == {NoEntry} \cup [known : {TRUE}, cookie : OwnCookies(s), fresh : BOOLEAN,
                              status : {"none", "ok", "failed"}]
Files == {f \in [Shops -> EntryType] : \A s \in Shops : f[s] \in EntryOf(s)}

CheckOf(s) == [kind : {"check"}, stage : {"collect"}, row : {s}, shop : {s}, own : BOOLEAN,
               cookie : OwnCookies(s)]
CheckSentOf(s) == [kind : {"check"}, stage : {"send"}, row : {s}, shop : {s}, own : BOOLEAN,
                   cookie : OwnCookies(s), file : Files]
UploadOf(s) == [kind : Uploads, stage : {"collect"}, row : {s}, shop : {s}, own : BOOLEAN,
                cookie : OwnCookies(s)]
UploadSentOf(s) == [kind : Uploads, stage : {"post", "verify"}, row : {s}, shop : {s},
                    own : BOOLEAN, cookie : WholeCookies(s)]
JobOf(s) == CheckOf(s) \cup CheckSentOf(s) \cup UploadOf(s) \cup UploadSentOf(s)
OwnJob(j) == j = Idle \/ \E s \in Shops : j \in JobOf(s)

PagesFit ==
  /\ jar \in [Shops -> Cookies] /\ \A s \in Shops : jar[s] \in OwnCookies(s)
  /\ DOMAIN bridge = Shops /\ \A s \in Shops : bridge[s] \in BridgeOf(s)
TimersFit ==
  /\ checkDue \subseteq Shops /\ uploadDue \subseteq Shops /\ buyerDue \in Shops \cup {NoShop}
  /\ cooling \subseteq Shops /\ recovered \subseteq Shops
JobsFit == DOMAIN jobs = JobIds /\ \A i \in JobIds : OwnJob(jobs[i])
EntriesFit == entries \in Files
ServerFit ==
  /\ DOMAIN cache = Shops /\ \A s \in Shops : cache[s] \in WholeCookies(s) \cup {Blank(s)}
  /\ DOMAIN tried = Shops /\ \A s \in Shops : tried[s] \in WholeCookies(s) \cup {Blank(s)}

\* What was harvested is of shops whose turn is over.
HarvestSigns ==
  /\ DOMAIN harvest = {"stage", "next", "here", "got"} /\ harvest.here \in BOOLEAN
  /\ harvest.stage \in {"jar", "quality", "restore", "post", "verify"}
  /\ harvest.next \in DOMAIN Order
  /\ \A s \in DOMAIN harvest.got :
       /\ s \in Shops /\ harvest.got[s] \in WholeCookies(s) /\ pageAt[s] = "desk"
       /\ harvest.stage \in {"jar", "quality", "restore"} => \E k \in 1..harvest.next - 1 : Order[k] = s
SyncTurns ==
  \/ DOMAIN harvest = {"stage", "next"} /\ harvest.stage = "syncCollect" /\ harvest.next \in DOMAIN Order
  \/ /\ DOMAIN harvest = {"stage", "next", "cookie", "file"} /\ harvest.stage = "syncSend"
     /\ harvest.next \in DOMAIN Order /\ harvest.cookie \in OwnCookies(Order[harvest.next])
     /\ harvest.file \in Files
HarvestFit ==
  /\ DOMAIN pageAt = Shops /\ \A s \in Shops : pageAt[s] \in {"desk", "sso", "quality"}
  /\ harvest = EmptyHarvest \/ HarvestSigns \/ SyncTurns

\* A token that was seen with the login is due to be uploaded, on its way, or has been sent.
WholeSeen(s) == \E b \in {bridge[s]} : HasArk(Headers(b)) /\ HasA1(Headers(b))
Carries(j, s) == j.kind \in Uploads /\ j.stage \in {"collect", "post"} /\ j.row = s /\ IsOrderCapable(j.cookie)
UnderWay(s) == (\E i \in JobIds : Carries(jobs[i], s)) \/ tried[s].ark # 0
SeenGoesOut ==
  \A s \in Shops : RowOf(s) = s /\ WholeSeen(s) =>
    IF s \in uploadDue THEN bridge[s].recent ELSE UnderWay(s)

CookieInv ==
  PagesFit /\ TimersFit /\ JobsFit /\ EntriesFit /\ ServerFit /\ HarvestFit /\ SeenGoesOut

-------------------------------------------------------------------------------
(* Rows, pages and bridges *)
LEMMA RowIsShop ==
  ASSUME NEW s \in Shops
  PROVE  RowOf(s) \in Shops
<1> DEFINE Shares(k) == PartOf(s, Order[k]) \/ PartOf(Order[k], s)
           at == {k \in DOMAIN Order : Shares(k)}
<1>1. at \subseteq Nat /\ DOMAIN Order = 1..Len(Order) /\ \A k \in DOMAIN Order : Order[k] \in Shops
  BY ShopCookiesAssumption
<1>2. at # {}
  BY ShopCookiesAssumption DEF PartOf
<1>3. PICK x \in at : \A y \in at : ~(<<y, x>> \in OpToRel(<, Nat))
  <2> HIDE DEF at
  <2> QED
    BY <1>1, <1>2, NatLessThanWellFounded, WFMin
<1>4. \A y \in at : ~(y < x)
  BY <1>1, <1>3 DEF OpToRel
<1>5. \E k \in DOMAIN Order : Shares(k) /\ \A j \in 1..k - 1 : ~Shares(j)
  <2>1. x \in DOMAIN Order /\ Shares(x)
    OBVIOUS
  <2>2. \A j \in 1..x - 1 : ~Shares(j)
    <3> TAKE j \in 1..x - 1
    <3> HIDE DEF Shares
    <3>1. j \in DOMAIN Order /\ j < x
      BY <1>1, <2>1
    <3>2. j \notin at
      BY <1>4, <3>1
    <3> QED
      BY <3>1, <3>2
  <2> QED
    BY <2>1, <2>2
<1> QED
  BY <1>1, <1>5 DEF RowOf

\* A page's row is the row of its title, and no other page's.
LEMMA PageIsOwn ==
  ASSUME NEW s \in Shops
  PROVE  PageRow(s) = s
<1>1. PartOf(s, s) /\ \A q \in Shops : PartOf(q, s) => PartOf(q, s)
  BY DEF PartOf
<1>2. \A r \in Shops : PartOf(r, s) /\ PartOf(s, r) => r = s
  BY ShopCookiesAssumption DEF PartOf
<1> DEFINE Whole(r) == PartOf(r, s) /\ \A q \in Shops : PartOf(q, s) => PartOf(q, r)
<1>3. Whole(s) /\ \A r \in Shops : Whole(r) => r = s
  BY <1>1, <1>2
<1>4. (CHOOSE r \in Shops : Whole(r)) = s
  <2> HIDE DEF Whole
  <2> QED
    BY <1>3
<1> QED
  BY <1>4 DEF PageRow

LEMMA BridgeIsExact ==
  ASSUME NEW row \in Shops
  PROVE  ExactBridge(row) = row
BY PageIsOwn DEF ExactBridge

(* Cookies *)
LEMMA Preferred ==
  ASSUME NEW s \in Shops, NEW c \in OwnCookies(s), NEW d \in Cookies
  PROVE  /\ PreferLongest(c, d) \in OwnCookies(s)
         /\ HasA1(c) => HasA1(PreferLongest(c, d))
         /\ HasArk(c) => HasArk(PreferLongest(c, d))
BY DEF PreferLongest, OwnCookies, Cookies, Longer, HasA1, HasArk

LEMMA OwnAreCookies ==
  ASSUME NEW s \in Shops
  PROVE  /\ OwnCookies(s) \subseteq Cookies /\ WholeCookies(s) \subseteq OwnCookies(s)
         /\ Blank(s) \in OwnCookies(s)
BY ShopCookiesAssumption DEF OwnCookies, WholeCookies, Cookies, Blank

LEMMA HeadersFit ==
  ASSUME NEW s \in Shops, NEW b \in BridgeOf(s)
  PROVE  Headers(b) \in OwnCookies(s)
<1>1. b.merged \in OwnCookies(s) /\ b.ark \in OwnCookies(s) /\ b.last \in OwnCookies(s)
  BY DEF BridgeOf
<1>2. PreferLongest(b.merged, b.ark) \in OwnCookies(s)
  BY <1>1, Preferred, OwnAreCookies
<1> QED
  BY <1>1, <1>2, Preferred, OwnAreCookies DEF Headers

LEMMA NewBridgeFits ==
  ASSUME NEW s \in Shops
  PROVE  NewBridge(s) \in BridgeOf(s) /\ ~HasArk(Headers(NewBridge(s)))
<1>1. NewBridge(s) \in BridgeOf(s)
  BY OwnAreCookies DEF NewBridge, BridgeOf
<1>2. PreferLongest(Blank(s), Blank(s)) = Blank(s)
  BY DEF PreferLongest, Blank, Longer
<1>3. Headers(NewBridge(s)) = Blank(s)
  BY <1>2 DEF Headers, NewBridge
<1> QED
  BY <1>1, <1>3 DEF HasArk, Blank

LEMMA CleanedFits ==
  ASSUME NEW s \in Shops, NEW b \in BridgeOf(s)
  PROVE  /\ Cleaned(b) \in BridgeOf(s) /\ Headers(Cleaned(b)) = Headers(b)
         /\ Cleaned(b).recent = b.recent
<1>1. /\ Cleaned(b) \in BridgeOf(s) /\ Cleaned(b).merged = b.merged /\ Cleaned(b).ark = b.ark
      /\ Cleaned(b).last = b.last /\ Cleaned(b).recent = b.recent
  BY DEF Cleaned, BridgeOf
<1> QED
  BY <1>1 DEF Headers

(* Jobs *)
LEMMA JobFields ==
  ASSUME NEW j, OwnJob(j), j # Idle
  PROVE  /\ j.shop \in Shops /\ j.row = j.shop /\ j \in JobOf(j.shop)
         /\ j.cookie \in OwnCookies(j.shop) /\ j.own \in BOOLEAN
         /\ j.kind \in {"check"} \cup Uploads
<1>1. PICK s \in Shops : j \in JobOf(s)
  BY DEF OwnJob
<1>2. /\ j.shop = s /\ j.row = s /\ j.cookie \in OwnCookies(s) /\ j.own \in BOOLEAN
      /\ j.kind \in {"check"} \cup Uploads
  BY <1>1, OwnAreCookies DEF JobOf, CheckOf, CheckSentOf, UploadOf, UploadSentOf
<1> QED
  BY <1>1, <1>2

LEMMA StartsFit ==
  ASSUME PagesFit, NEW s \in Shops, NEW kind \in {"check"} \cup Uploads
  PROVE  OwnJob(Collecting(kind, s, s))
<1>1. Headers(bridge[s]) \in OwnCookies(s)
  BY HeadersFit DEF PagesFit
<1>2. Collecting(kind, s, s) \in JobOf(s)
  BY <1>1 DEF Collecting, JobOf, CheckOf, UploadOf
<1> QED
  BY <1>2 DEF OwnJob

LEMMA CollectedFits ==
  ASSUME PagesFit, NEW j, OwnJob(j), j # Idle
  PROVE  /\ Collected(j) \in OwnCookies(j.shop)
         /\ IsOrderCapable(j.cookie) => IsOrderCapable(Collected(j))
<1>1. j.shop \in Shops /\ j.cookie \in OwnCookies(j.shop)
  BY JobFields
<1>2. jar[j.shop] \in Cookies
  BY <1>1 DEF PagesFit
<1> QED
  BY <1>1, <1>2, Preferred DEF Collected, IsOrderCapable

LEMMA BusyJob ==
  ASSUME JobsFit, NEW i \in JobIds, jobs[i].stage # "none"
  PROVE  jobs[i] # Idle /\ OwnJob(jobs[i])
BY DEF JobsFit, Idle

(* The collector's file *)
LEMMA NotedFits ==
  ASSUME NEW f \in Files, NEW s \in Shops, NEW c \in OwnCookies(s), NEW ok \in BOOLEAN
  PROVE  Noted(f, s, c, ok) \in Files
<1> DEFINE e == [known |-> TRUE, cookie |-> c, status |-> IF ok THEN "ok" ELSE "failed",
                 fresh |-> ok \/ (f[s].known /\ f[s].fresh)]
<1>1. Noted(f, s, c, ok) = [f EXCEPT ![s] = e]
  BY DEF Noted
<1>2. e \in EntryOf(s) /\ e \in EntryType
  BY OwnAreCookies DEF EntryOf, EntryType
<1> HIDE DEF e
<1> QED
  BY <1>1, <1>2 DEF Files

LEMMA AgedFits ==
  ASSUME NEW f \in Files
  PROVE  Aged(f) \in Files
<1> SUFFICES ASSUME NEW s \in Shops
             PROVE  Aged(f)[s] \in EntryOf(s) /\ Aged(f)[s] \in EntryType
  BY DEF Files, Aged
<1>1. f[s] \in EntryOf(s) /\ f[s] \in EntryType
  BY DEF Files
<1>2. CASE ~f[s].known
  BY <1>1, <1>2 DEF Aged
<1>3. CASE f[s].known
  <2> DEFINE e == [f[s] EXCEPT !.fresh = FALSE]
  <2>1. e \in EntryOf(s) /\ e \in EntryType
    BY <1>1, <1>3 DEF EntryOf, EntryType, NoEntry
  <2> QED
    BY <1>3, <2>1 DEF Aged
<1> QED
  BY <1>2, <1>3

(* What stays, and what moves alone *)
LEMMA PartsStay ==
  /\ PagesFit /\ UNCHANGED captureVars => PagesFit'
  /\ TimersFit /\ UNCHANGED <<timers, cooling, recovered>> => TimersFit'
  /\ JobsFit /\ UNCHANGED jobs => JobsFit'
  /\ EntriesFit /\ UNCHANGED entries => EntriesFit'
  /\ ServerFit /\ UNCHANGED serverVars => ServerFit'
  /\ HarvestFit /\ UNCHANGED harvestVars => HarvestFit'
  /\ SeenGoesOut /\ UNCHANGED <<bridge, uploadDue, jobs, tried>> => SeenGoesOut'
<1>1. PagesFit /\ UNCHANGED captureVars => PagesFit'
  BY DEF PagesFit, captureVars
<1>2. TimersFit /\ UNCHANGED <<timers, cooling, recovered>> => TimersFit'
  BY DEF TimersFit, timers
<1>3. JobsFit /\ UNCHANGED jobs => JobsFit'
  BY DEF JobsFit, OwnJob
<1>4. EntriesFit /\ UNCHANGED entries => EntriesFit'
  BY DEF EntriesFit
<1>5. ServerFit /\ UNCHANGED serverVars => ServerFit'
  BY DEF ServerFit, serverVars
<1>6. HarvestFit /\ UNCHANGED harvestVars => HarvestFit'
  BY DEF HarvestFit, harvestVars, HarvestSigns, SyncTurns
<1>7. SeenGoesOut /\ UNCHANGED <<bridge, uploadDue, jobs, tried>> => SeenGoesOut'
  BY DEF SeenGoesOut, WholeSeen, UnderWay, Carries, IsOrderCapable, HasA1, HasArk
<1> QED
  BY <1>1, <1>2, <1>3, <1>4, <1>5, <1>6, <1>7

LEMMA OneJob ==
  ASSUME JobsFit, NEW i \in JobIds, NEW q, OwnJob(q), jobs' = [jobs EXCEPT ![i] = q]
  PROVE  JobsFit'
BY DEF JobsFit, OwnJob

\* The bridges show no more than before, and nothing that was on its way is given up.
LEMMA SubmissionStays ==
  ASSUME SeenGoesOut, uploadDue' = uploadDue,
         \A s \in Shops : WholeSeen(s)' => WholeSeen(s) /\ (s \in uploadDue /\ bridge[s].recent => bridge'[s].recent),
         \A s \in Shops : UnderWay(s) => UnderWay(s)'
  PROVE  SeenGoesOut'
<1> SUFFICES ASSUME NEW s \in Shops, RowOf(s) = s, WholeSeen(s)'
             PROVE  IF s \in uploadDue THEN bridge'[s].recent ELSE UnderWay(s)'
  BY DEF SeenGoesOut
<1>1. WholeSeen(s) /\ (s \in uploadDue /\ bridge[s].recent => bridge'[s].recent)
  OBVIOUS
<1>2. IF s \in uploadDue THEN bridge[s].recent ELSE UnderWay(s)
  BY <1>1 DEF SeenGoesOut
<1> QED
  BY <1>1, <1>2

\* A bridge shows what it showed.
LEMMA SameSeen ==
  ASSUME NEW s \in Shops, bridge'[s] = bridge[s]
  PROVE  WholeSeen(s)' => WholeSeen(s)
BY DEF WholeSeen

LEMMA UnderWayStays ==
  ASSUME NEW s \in Shops, UnderWay(s),
         tried[s].ark # 0 => tried'[s].ark # 0,
         \A i \in JobIds : Carries(jobs[i], s) => Carries(jobs'[i], s) \/ tried'[s].ark # 0
  PROVE  UnderWay(s)'
<1>1. CASE tried[s].ark # 0
  BY <1>1 DEF UnderWay
<1>2. CASE \E i \in JobIds : Carries(jobs[i], s)
  <2>1. PICK i \in JobIds : Carries(jobs'[i], s) \/ tried'[s].ark # 0
    BY <1>2
  <2> QED
    BY <2>1 DEF UnderWay, Carries, IsOrderCapable, HasA1, HasArk
<1> QED
  BY <1>1, <1>2 DEF UnderWay

LEMMA IdleCarriesNothing == \A s : ~Carries(Idle, s)
BY DEF Carries, Idle, Uploads

(* The browser *)
LEMMA TokenRenewedKeeps ==
  ASSUME CookieInv, NEW s \in Shops, TokenRenewed(s)
  PROVE  CookieInv'
<1>1. PICK t \in Tokens : jar[s][t] < MaxVersion /\ jar' = [jar EXCEPT ![s][t] = @ + 1]
  BY DEF TokenRenewed
<1> DEFINE c == [jar[s] EXCEPT ![t] = @ + 1]
<1>2. jar[s] \in OwnCookies(s) /\ MaxVersion \in Nat
  BY ShopCookiesAssumption DEF CookieInv, PagesFit
<1>3. c \in OwnCookies(s)
  BY <1>1, <1>2 DEF OwnCookies, Cookies, Tokens
<1>4. jar' = [jar EXCEPT ![s] = c] /\ UNCHANGED bridge
  BY <1>1 DEF TokenRenewed
<1> HIDE DEF c
<1>5. PagesFit'
  BY <1>3, <1>4, OwnAreCookies DEF CookieInv, PagesFit
<1> QED
  BY <1>5, PartsStay DEF CookieInv, TokenRenewed, timers, checkVars, serverVars

LEMMA RequestSeenKeeps ==
  ASSUME CookieInv, NEW s \in Shops, RequestSeen(s)
  PROVE  CookieInv'
<1>1. PICK c \in Sent(s) :
        bridge' = [bridge EXCEPT ![s] =
         [merged |-> PreferLongest(@.merged, c),
          last |-> IF Size(c) >= Size(@.last) THEN c ELSE @.last,
          ark |-> IF HasArk(c) THEN PreferLongest(@.ark, c) ELSE @.ark,
          recent |-> TRUE, dirty |-> TRUE]]
  BY DEF RequestSeen
<1> DEFINE old == bridge[s]
           b == [merged |-> PreferLongest(old.merged, c),
                 last |-> IF Size(c) >= Size(old.last) THEN c ELSE old.last,
                 ark |-> IF HasArk(c) THEN PreferLongest(old.ark, c) ELSE old.ark,
                 recent |-> TRUE, dirty |-> TRUE]
<1>2. old \in BridgeOf(s) /\ DOMAIN bridge = Shops
  BY DEF CookieInv, PagesFit
<1>3. c \in OwnCookies(s) /\ c \in Cookies
  BY DEF Sent, OwnCookies
<1>4. /\ PreferLongest(old.merged, c) \in OwnCookies(s) /\ PreferLongest(old.ark, c) \in OwnCookies(s)
      /\ old.last \in OwnCookies(s) /\ old.ark \in OwnCookies(s)
  <2>1. old.merged \in OwnCookies(s) /\ old.last \in OwnCookies(s) /\ old.ark \in OwnCookies(s)
    BY <1>2 DEF BridgeOf
  <2> QED
    BY <1>3, <2>1, Preferred
<1>5. b \in BridgeOf(s) /\ b.recent
  BY <1>3, <1>4 DEF BridgeOf
<1>6. bridge' = [bridge EXCEPT ![s] = b]
  BY <1>1
<1> HIDE DEF b, old
<1>7. PagesFit'
  BY <1>2, <1>5, <1>6 DEF CookieInv, PagesFit, RequestSeen
<1>8. TimersFit'
  BY DEF CookieInv, TimersFit, RequestSeen, checkVars
<1>9. SeenGoesOut'
  <2> SUFFICES ASSUME NEW r \in Shops, RowOf(r) = r, WholeSeen(r)'
               PROVE  IF r \in uploadDue' THEN bridge'[r].recent ELSE UnderWay(r)'
    BY DEF SeenGoesOut
  <2>1. CASE r = s
    BY <1>2, <1>5, <1>6, <2>1 DEF RequestSeen
  <2>2. CASE r # s
    <3>1. bridge'[r] = bridge[r] /\ (r \in uploadDue' <=> r \in uploadDue)
      BY <1>2, <1>6, <2>2 DEF RequestSeen
    <3>2. WholeSeen(r)
      BY <3>1, SameSeen
    <3>3. IF r \in uploadDue THEN bridge[r].recent ELSE UnderWay(r)
      BY <3>2 DEF CookieInv, SeenGoesOut
    <3>4. UnderWay(r) => UnderWay(r)'
      BY DEF UnderWay, RequestSeen, serverVars, Carries, IsOrderCapable, HasA1, HasArk
    <3> QED
      BY <3>1, <3>3, <3>4
  <2> QED
    BY <2>1, <2>2
<1> QED
  BY <1>7, <1>8, <1>9, PartsStay DEF CookieInv, RequestSeen, checkVars

LEMMA BridgeReplacedKeeps ==
  ASSUME CookieInv, NEW s \in Shops, BridgeReplaced(s)
  PROVE  CookieInv'
<1>1. DOMAIN bridge = Shops /\ bridge' = [bridge EXCEPT ![s] = NewBridge(s)] /\ UNCHANGED jar
  BY DEF CookieInv, PagesFit, BridgeReplaced
<1>2. PagesFit'
  BY <1>1, NewBridgeFits DEF CookieInv, PagesFit
<1>3. \A i \in JobIds : jobs[i] # Idle =>
        LET j == [jobs[i] EXCEPT !.own = FALSE] IN OwnJob(j) /\ \A r : Carries(jobs[i], r) => Carries(j, r)
  <2> SUFFICES ASSUME NEW i \in JobIds, jobs[i] # Idle
               PROVE  LET j == [jobs[i] EXCEPT !.own = FALSE]
                      IN OwnJob(j) /\ \A r : Carries(jobs[i], r) => Carries(j, r)
    OBVIOUS
  <2> DEFINE j == [jobs[i] EXCEPT !.own = FALSE]
  <2>1. PICK r \in Shops : jobs[i] \in JobOf(r)
    BY DEF CookieInv, JobsFit, OwnJob
  <2>2. /\ j \in JobOf(r) /\ j.kind = jobs[i].kind /\ j.stage = jobs[i].stage /\ j.row = jobs[i].row
        /\ j.cookie = jobs[i].cookie
    <3>1. CASE jobs[i] \in CheckOf(r)
      BY <3>1 DEF CheckOf, JobOf
    <3>2. CASE jobs[i] \in CheckSentOf(r)
      BY <3>2 DEF CheckSentOf, JobOf
    <3>3. CASE jobs[i] \in UploadOf(r)
      BY <3>3 DEF UploadOf, JobOf
    <3>4. CASE jobs[i] \in UploadSentOf(r)
      BY <3>4 DEF UploadSentOf, JobOf
    <3> QED
      BY <2>1, <3>1, <3>2, <3>3, <3>4 DEF JobOf
  <2> QED
    BY <2>2 DEF OwnJob, Carries
<1>4. DOMAIN jobs = JobIds /\ \A i \in JobIds : OwnJob(jobs[i])
  BY DEF CookieInv, JobsFit
<1>5. /\ DOMAIN jobs' = JobIds
      /\ \A i \in JobIds : jobs'[i] = jobs[i] \/ (jobs[i] # Idle /\ jobs'[i] = [jobs[i] EXCEPT !.own = FALSE])
  BY DEF BridgeReplaced, Free
<1>6. JobsFit'
  <2>1. \A i \in JobIds : OwnJob(jobs'[i])
    BY <1>3, <1>4, <1>5
  <2> QED
    BY <1>5, <2>1 DEF JobsFit, OwnJob
<1>7. SeenGoesOut'
  <2>1. uploadDue' = uploadDue /\ tried' = tried
    BY DEF BridgeReplaced, timers, serverVars
  <2>2. \A r \in Shops : WholeSeen(r)' => WholeSeen(r) /\ (r \in uploadDue /\ bridge[r].recent => bridge'[r].recent)
    <3> TAKE r \in Shops
    <3>1. CASE r = s
      BY <1>1, <3>1, NewBridgeFits DEF WholeSeen
    <3>2. CASE r # s
      BY <1>1, <3>2 DEF WholeSeen
    <3> QED
      BY <3>1, <3>2
  <2>3. \A r \in Shops : UnderWay(r) => UnderWay(r)'
    BY <1>3, <1>5, <2>1, UnderWayStays
  <2> QED
    BY <2>1, <2>2, <2>3, SubmissionStays DEF CookieInv
<1> QED
  BY <1>2, <1>6, <1>7, PartsStay DEF CookieInv, BridgeReplaced, checkVars

LEMMA HeadersAgeKeeps ==
  ASSUME CookieInv, NEW s \in Shops, HeadersAge(s)
  PROVE  CookieInv'
<1> DEFINE b == [bridge[s] EXCEPT !.recent = FALSE]
<1>1. DOMAIN bridge = Shops /\ bridge' = [bridge EXCEPT ![s] = b] /\ UNCHANGED jar /\ bridge[s] \in BridgeOf(s)
  BY DEF CookieInv, PagesFit, HeadersAge
<1>2. b \in BridgeOf(s) /\ Headers(b) = Headers(bridge[s])
  BY <1>1 DEF BridgeOf, Headers
<1> HIDE DEF b
<1>3. PagesFit'
  BY <1>1, <1>2 DEF CookieInv, PagesFit
<1>4. SeenGoesOut'
  <2>1. uploadDue' = uploadDue /\ tried' = tried /\ jobs' = jobs /\ s \notin uploadDue
    BY DEF HeadersAge, timers, serverVars
  <2>2. \A r \in Shops : WholeSeen(r)' => WholeSeen(r) /\ (r \in uploadDue /\ bridge[r].recent => bridge'[r].recent)
    <3> TAKE r \in Shops
    <3>1. CASE r = s
      BY <1>1, <1>2, <2>1, <3>1 DEF WholeSeen
    <3>2. CASE r # s
      BY <1>1, <3>2 DEF WholeSeen
    <3> QED
      BY <3>1, <3>2
  <2>3. \A r \in Shops : UnderWay(r) => UnderWay(r)'
    BY <2>1, UnderWayStays
  <2> QED
    BY <2>1, <2>2, <2>3, SubmissionStays DEF CookieInv
<1> QED
  BY <1>3, <1>4, PartsStay DEF CookieInv, HeadersAge, timers, checkVars

(* Timers *)
LEMMA TimersKeep ==
  ASSUME CookieInv, NEW s \in Shops, BuyerMessage(s) \/ LoginRecovered(s) \/ CooldownEnds(s)
  PROVE  CookieInv'
<1>1. TimersFit'
  BY DEF CookieInv, TimersFit, BuyerMessage, LoginRecovered, CooldownEnds, timers, checkVars
<1>2. UNCHANGED <<captureVars, uploadDue, jobs, entries, serverVars, harvestVars>>
  BY DEF BuyerMessage, LoginRecovered, CooldownEnds, timers, checkVars
<1> QED
  BY <1>1, <1>2, PartsStay DEF CookieInv, captureVars, serverVars

LEMMA JobReplaced ==
  ASSUME JobsFit, NEW i \in JobIds, NEW q, jobs' = [jobs EXCEPT ![i] = q], NEW s \in Shops,
         tried[s].ark # 0 => tried'[s].ark # 0,
         Carries(jobs[i], s) => Carries(q, s) \/ tried'[s].ark # 0,
         UnderWay(s)
  PROVE  UnderWay(s)'
<1>1. \A j \in JobIds : Carries(jobs[j], s) => Carries(jobs'[j], s) \/ tried'[s].ark # 0
  BY DEF JobsFit
<1> QED
  BY <1>1, UnderWayStays

LEMMA CheckFiresKeeps ==
  ASSUME CookieInv, NEW s \in Shops, NEW i \in JobIds, CheckFires(s, i)
  PROVE  CookieInv'
<1>1. jobs[i] = Idle /\ (jobs' = jobs \/ jobs' = [jobs EXCEPT ![i] = Collecting("check", s, s)])
  BY DEF CheckFires, NextFree, Free
<1>2. OwnJob(Collecting("check", s, s))
  BY StartsFit DEF CookieInv
<1>3. JobsFit'
  BY <1>1, <1>2, OneJob, PartsStay DEF CookieInv
<1>4. TimersFit'
  BY DEF CookieInv, TimersFit, CheckFires, checkVars
<1>5. uploadDue' = uploadDue /\ tried' = tried /\ bridge' = bridge
  BY DEF CheckFires, captureVars, serverVars
<1>6. \A r \in Shops : UnderWay(r) => UnderWay(r)'
  BY <1>1, <1>5, JobReplaced, IdleCarriesNothing, UnderWayStays DEF CookieInv
<1>7. SeenGoesOut'
  BY <1>5, <1>6, SubmissionStays, SameSeen DEF CookieInv
<1> QED
  BY <1>3, <1>4, <1>7, PartsStay DEF CookieInv, CheckFires, checkVars

(* Starting an upload *)
LEMMA UploadStartsFits ==
  ASSUME CookieInv, NEW title \in Shops, NEW kind \in Uploads, NEW i \in JobIds, NextFree(i),
         UploadStarts(title, kind, i), tried' = tried
  PROVE  /\ JobsFit' /\ \A r \in Shops : UnderWay(r) => UnderWay(r)'
         /\ bridge[RowOf(title)].recent /\ kind = "passive" =>
              jobs' = [jobs EXCEPT ![i] = Collecting(kind, RowOf(title), RowOf(title))]
<1>1. RowOf(title) \in Shops /\ ExactBridge(RowOf(title)) = RowOf(title)
  BY RowIsShop, BridgeIsExact
<1>2. PICK row \in Shops : row = RowOf(title)
  BY <1>1
<1> DEFINE q == Collecting(kind, row, row)
<1>3. /\ jobs' = jobs \/ jobs' = [jobs EXCEPT ![i] = q]
      /\ bridge[row].recent /\ kind = "passive" => jobs' = [jobs EXCEPT ![i] = q]
  BY <1>1, <1>2 DEF UploadStarts
<1>4. OwnJob(q)
  BY StartsFit DEF CookieInv
<1>5. jobs[i] = Idle
  BY DEF NextFree, Free
<1> HIDE DEF q
<1>6. JobsFit'
  BY <1>3, <1>4, OneJob, PartsStay DEF CookieInv
<1>7. \A r \in Shops : UnderWay(r) => UnderWay(r)'
  BY <1>3, <1>5, JobReplaced, IdleCarriesNothing, UnderWayStays DEF CookieInv
<1> QED
  BY <1>2, <1>3, <1>6, <1>7 DEF q

LEMMA UploadFiresKeeps ==
  ASSUME CookieInv, NEW s \in Shops, NEW i \in JobIds, UploadFires(s, i)
  PROVE  CookieInv'
<1>1. /\ NextFree(i) /\ UploadStarts(s, "passive", i) /\ s \in uploadDue /\ uploadDue' = uploadDue \ {s}
      /\ tried' = tried /\ bridge' = bridge /\ "passive" \in Uploads
  BY DEF UploadFires, serverVars, captureVars, Uploads
<1>2. /\ JobsFit' /\ \A r \in Shops : UnderWay(r) => UnderWay(r)'
      /\ bridge[RowOf(s)].recent => jobs' = [jobs EXCEPT ![i] = Collecting("passive", RowOf(s), RowOf(s))]
  BY <1>1, UploadStartsFits
<1>3. TimersFit'
  BY DEF CookieInv, TimersFit, UploadFires, checkVars
<1>4. SeenGoesOut'
  <2> SUFFICES ASSUME NEW r \in Shops, RowOf(r) = r, WholeSeen(r)'
               PROVE  IF r \in uploadDue' THEN bridge'[r].recent ELSE UnderWay(r)'
    BY DEF SeenGoesOut
  <2>1. WholeSeen(r)
    BY <1>1, SameSeen
  <2>2. IF r \in uploadDue THEN bridge[r].recent ELSE UnderWay(r)
    BY <2>1 DEF CookieInv, SeenGoesOut
  <2>3. CASE r # s
    BY <1>1, <1>2, <2>2, <2>3
  <2>4. CASE r = s
    <3>1. jobs' = [jobs EXCEPT ![i] = Collecting("passive", s, s)] /\ s \notin uploadDue'
      BY <1>1, <1>2, <2>2, <2>4
    <3>2. jobs'[i] = Collecting("passive", s, s)
      BY <3>1 DEF CookieInv, JobsFit
    <3>3. HasArk(Headers(bridge[s])) /\ HasA1(Headers(bridge[s]))
      BY <2>1, <2>4 DEF WholeSeen
    <3>4. Carries(Collecting("passive", s, s), s)
      BY <1>1, <3>3 DEF Carries, Collecting, IsOrderCapable
    <3>5. UnderWay(s)'
      BY <3>2, <3>4 DEF UnderWay, Carries, IsOrderCapable, HasA1, HasArk
    <3> QED
      BY <2>4, <3>1, <3>5
  <2> QED
    BY <2>3, <2>4
<1> QED
  BY <1>2, <1>3, <1>4, PartsStay DEF CookieInv, UploadFires, checkVars

LEMMA BuyerUploadFiresKeeps ==
  ASSUME CookieInv, NEW i \in JobIds, BuyerUploadFires(i)
  PROVE  CookieInv'
<1>1. /\ NextFree(i) /\ UploadStarts(buyerDue, "buyer", i) /\ buyerDue \in Shops /\ uploadDue' = uploadDue
      /\ tried' = tried /\ bridge' = bridge /\ "buyer" \in Uploads
  BY DEF CookieInv, TimersFit, BuyerUploadFires, serverVars, captureVars, Uploads
<1>2. PICK s \in Shops : s = buyerDue
  BY <1>1
<1>3. JobsFit' /\ \A r \in Shops : UnderWay(r) => UnderWay(r)'
  BY <1>1, <1>2, UploadStartsFits
<1>4. TimersFit'
  BY DEF CookieInv, TimersFit, BuyerUploadFires, checkVars
<1>5. SeenGoesOut'
  BY <1>1, <1>3, SubmissionStays, SameSeen DEF CookieInv
<1> QED
  BY <1>3, <1>4, <1>5, PartsStay DEF CookieInv, BuyerUploadFires, checkVars

(* The collector's checks *)
LEMMA StageOf ==
  ASSUME NEW j, OwnJob(j)
  PROVE  /\ j.kind = "check" /\ j.stage = "send" => \E s \in Shops : j \in CheckSentOf(s)
         /\ j.kind \in Uploads /\ j.stage = "collect" => \E s \in Shops : j \in UploadOf(s)
         /\ j.kind \in Uploads /\ j.stage \in {"post", "verify"} => \E s \in Shops : j \in UploadSentOf(s)
         /\ j.kind = "check" => j # Idle /\ \A s : ~Carries(j, s)
         /\ j.kind \in Uploads => j # Idle
         /\ j.stage = "verify" => j # Idle /\ \A s : ~Carries(j, s)
BY DEF OwnJob, JobOf, CheckOf, CheckSentOf, UploadOf, UploadSentOf, Idle, Uploads, Carries

LEMMA CheckDecidesKeeps ==
  ASSUME CookieInv, NEW i \in JobIds, CheckDecides(i)
  PROVE  CookieInv'
<1>1. PICK j : j = jobs[i]
  OBVIOUS
<1>2. OwnJob(j) /\ j.kind = "check" /\ j # Idle /\ \A s : ~Carries(j, s)
  BY <1>1, StageOf DEF CookieInv, JobsFit, CheckDecides
<1>3. PICK s \in Shops : s = j.shop
  BY <1>2, JobFields
<1>4. PICK c \in OwnCookies(s) : c = Collected(j)
  BY <1>2, <1>3, CollectedFits DEF CookieInv
<1>5. PICK e \in EntryOf(s) : e = entries[s]
  BY DEF CookieInv, EntriesFit, Files
<1> DEFINE noted == [known |-> TRUE, cookie |-> c, status |-> IF e.known THEN e.status ELSE "none",
                    fresh |-> e.known /\ e.fresh]
<1>6. entries' = [entries EXCEPT ![s] = noted]
  BY <1>1, <1>3, <1>4, <1>5 DEF CheckDecides
<1>7. noted \in EntryOf(s) /\ noted \in EntryType
  <2>1. CASE e = NoEntry
    BY <2>1, OwnAreCookies DEF EntryOf, EntryType, NoEntry
  <2>2. CASE e # NoEntry
    <3>1. e.known = TRUE /\ e.status \in {"none", "ok", "failed"} /\ e.fresh \in BOOLEAN
      BY <1>5, <2>2 DEF EntryOf
    <3>2. noted = [known |-> TRUE, cookie |-> c, status |-> e.status, fresh |-> e.fresh]
      BY <3>1
    <3> QED
      BY <3>1, <3>2, OwnAreCookies DEF EntryOf, EntryType
  <2> QED
    BY <2>1, <2>2
<1> HIDE DEF noted
<1>8. entries' \in Files
  BY <1>6, <1>7 DEF CookieInv, EntriesFit, Files
<1>9. EntriesFit'
  BY <1>8 DEF EntriesFit
<1> DEFINE q == [kind |-> "check", stage |-> "send", row |-> s, shop |-> s, own |-> j.own,
                 cookie |-> c, file |-> entries']
<1>10. jobs' = [jobs EXCEPT ![i] = q] \/ jobs' = [jobs EXCEPT ![i] = Idle]
  BY <1>1, <1>3, <1>4 DEF CheckDecides
<1>11. OwnJob(q) /\ OwnJob(Idle)
  <2>1. q \in JobOf(s)
    BY <1>2, <1>8, JobFields DEF JobOf, CheckSentOf
  <2> QED
    BY <2>1 DEF OwnJob
<1> HIDE DEF q
<1>12. JobsFit'
  BY <1>10, <1>11, OneJob DEF CookieInv
<1>13. uploadDue' = uploadDue /\ tried' = tried /\ bridge' = bridge
  BY DEF CheckDecides, captureVars, timers, serverVars
<1>14. \A r \in Shops : UnderWay(r) => UnderWay(r)'
  BY <1>1, <1>2, <1>10, <1>13, JobReplaced DEF CookieInv
<1>15. SeenGoesOut'
  BY <1>13, <1>14, SubmissionStays, SameSeen DEF CookieInv
<1> QED
  BY <1>9, <1>12, <1>15, PartsStay DEF CookieInv, CheckDecides

\* Bridges that are cleaned show what they showed.
LEMMA CleanedKeeps ==
  ASSUME PagesFit, UNCHANGED jar, DOMAIN bridge' = Shops,
         \A s \in Shops : bridge'[s] = bridge[s] \/ bridge'[s] = Cleaned(bridge[s])
  PROVE  /\ PagesFit'
         /\ \A s \in Shops : WholeSeen(s)' => WholeSeen(s) /\ (s \in uploadDue /\ bridge[s].recent => bridge'[s].recent)
<1>1. \A s \in Shops : /\ bridge'[s] \in BridgeOf(s) /\ Headers(bridge'[s]) = Headers(bridge[s])
                       /\ bridge'[s].recent = bridge[s].recent
  BY CleanedFits DEF PagesFit
<1> QED
  BY <1>1 DEF PagesFit, WholeSeen

LEMMA CheckEndsKeeps ==
  ASSUME CookieInv, NEW i \in JobIds, CheckEnds(i)
  PROVE  CookieInv'
<1>1. PICK j : j = jobs[i]
  OBVIOUS
<1>2. OwnJob(j) /\ j.kind = "check" /\ j.stage = "send" /\ \A r : ~Carries(j, r)
  BY <1>1, StageOf DEF CookieInv, JobsFit, CheckEnds
<1>3. PICK s \in Shops : j \in CheckSentOf(s)
  BY <1>2, StageOf
<1>4. j.shop = s /\ j.cookie \in OwnCookies(s) /\ j.file \in Files
  BY <1>3 DEF CheckSentOf
<1>5. PICK ok \in BOOLEAN :
        /\ entries' = Noted(j.file, s, j.cookie, ok)
        /\ Cooled(s, ok)
        /\ bridge' = IF ok /\ j.own THEN [bridge EXCEPT ![s] = Cleaned(@)] ELSE bridge
  BY <1>1, <1>4 DEF CheckEnds, ControlAnswers
<1>6. EntriesFit'
  <2>1. Noted(j.file, s, j.cookie, ok) \in Files
    BY <1>4, NotedFits
  <2> QED
    BY <1>5, <2>1 DEF EntriesFit
<1>7. TimersFit'
  BY <1>1, <1>5 DEF CookieInv, TimersFit, CheckEnds, Cooled, timers
<1>8. jobs' = [jobs EXCEPT ![i] = Idle] /\ UNCHANGED <<jar, timers, serverVars>>
  BY DEF CheckEnds
<1>9. JobsFit'
  BY <1>8, OneJob DEF CookieInv, OwnJob
<1>10. DOMAIN bridge' = Shops /\ \A r \in Shops : bridge'[r] = bridge[r] \/ bridge'[r] = Cleaned(bridge[r])
  BY <1>5 DEF CookieInv, PagesFit
<1>11. /\ PagesFit'
       /\ \A r \in Shops : WholeSeen(r)' => WholeSeen(r) /\ (r \in uploadDue /\ bridge[r].recent => bridge'[r].recent)
  BY <1>8, <1>10, CleanedKeeps DEF CookieInv
<1>12. uploadDue' = uploadDue /\ tried' = tried
  BY <1>8 DEF timers, serverVars
<1>13. \A r \in Shops : UnderWay(r) => UnderWay(r)'
  BY <1>1, <1>2, <1>8, <1>12, JobReplaced DEF CookieInv
<1>14. SeenGoesOut'
  BY <1>11, <1>12, <1>13, SubmissionStays DEF CookieInv
<1> QED
  BY <1>6, <1>7, <1>8, <1>9, <1>11, <1>14, PartsStay DEF CookieInv, CheckEnds

LEMMA UploadsAgeKeeps ==
  ASSUME CookieInv, UploadsAge
  PROVE  CookieInv'
<1>1. EntriesFit'
  BY AgedFits DEF CookieInv, EntriesFit, UploadsAge
<1>2. \A i \in JobIds : jobs[i].stage = "send" =>
        LET j == [jobs[i] EXCEPT !.file = Aged(@)] IN OwnJob(j)
  <2> TAKE i \in JobIds
  <2> HAVE jobs[i].stage = "send"
  <2>1. PICK s \in Shops : jobs[i] \in CheckSentOf(s)
    BY DEF CookieInv, JobsFit, OwnJob, JobOf, CheckOf, CheckSentOf, UploadOf, UploadSentOf, Idle
  <2>2. jobs[i].file \in Files
    BY <2>1 DEF CheckSentOf
  <2>3. PICK f \in Files : f = Aged(jobs[i].file)
    BY <2>2, AgedFits
  <2>4. [jobs[i] EXCEPT !.file = f] \in JobOf(s)
    BY <2>1 DEF CheckSentOf, JobOf
  <2> QED
    BY <2>3, <2>4 DEF OwnJob
<1>3. /\ DOMAIN jobs' = JobIds
      /\ \A i \in JobIds : jobs'[i] = jobs[i] \/ (jobs[i].stage = "send" /\ jobs'[i] = [jobs[i] EXCEPT !.file = Aged(@)])
  BY DEF UploadsAge
<1>4. JobsFit'
  <2>1. \A i \in JobIds : OwnJob(jobs'[i])
    BY <1>2, <1>3 DEF CookieInv, JobsFit
  <2> QED
    BY <1>3, <2>1 DEF JobsFit, OwnJob
<1>5. uploadDue' = uploadDue /\ tried' = tried /\ bridge' = bridge
  BY DEF UploadsAge, captureVars, timers, serverVars
<1>6. \A i \in JobIds, r \in Shops : Carries(jobs[i], r) => Carries(jobs'[i], r)
  BY <1>3 DEF Carries
<1>7. SeenGoesOut'
  BY <1>5, <1>6, SubmissionStays, SameSeen, UnderWayStays DEF CookieInv
<1> QED
  BY <1>1, <1>4, <1>7, PartsStay DEF CookieInv, UploadsAge, timers

(* Uploads and what the order server is sent *)
OwnWhole(cookies) == \A s \in DOMAIN cookies : s \in Shops /\ cookies[s] \in WholeCookies(s)

LEMMA PostedKeeps ==
  ASSUME ServerFit, NEW cookies, OwnWhole(cookies), Posted(cookies), cache' = cache
  PROVE  /\ ServerFit'
         /\ \A s \in Shops : tried[s].ark # 0 \/ s \in DOMAIN cookies => tried'[s].ark # 0
<1>1. DOMAIN Payload(cookies) = DOMAIN cookies
  BY DEF Payload, OwnWhole, WholeCookies
<1>2. tried' = [s \in Shops |-> IF s \in DOMAIN cookies THEN cookies[s] ELSE tried[s]]
  BY <1>1 DEF Posted
<1>3. \A s \in DOMAIN cookies : cookies[s] \in WholeCookies(s) /\ cookies[s].ark # 0
  BY DEF OwnWhole, WholeCookies, IsOrderCapable, HasArk
<1> QED
  BY <1>2, <1>3 DEF ServerFit

LEMMA ConfirmedKeeps ==
  ASSUME CookieInv, NEW cookies, OwnWhole(cookies), NEW ok, NEW here \in BOOLEAN, Confirmed(cookies, ok, here),
         UNCHANGED <<jar, tried>>
  PROVE  /\ ServerFit' /\ PagesFit'
         /\ \A s \in Shops : WholeSeen(s)' => WholeSeen(s) /\ (s \in uploadDue /\ bridge[s].recent => bridge'[s].recent)
<1>1. ServerFit'
  BY DEF CookieInv, ServerFit, Confirmed, OwnWhole
<1>2. DOMAIN bridge' = Shops /\ \A s \in Shops : bridge'[s] = bridge[s] \/ bridge'[s] = Cleaned(bridge[s])
  BY DEF Confirmed
<1> QED
  BY <1>1, <1>2, CleanedKeeps DEF CookieInv

LEMMA UploadCollectsKeeps ==
  ASSUME CookieInv, NEW i \in JobIds, UploadCollects(i)
  PROVE  CookieInv'
<1>1. PICK j : j = jobs[i]
  OBVIOUS
<1>2. OwnJob(j) /\ j.kind \in Uploads /\ j.stage = "collect" /\ j # Idle
  BY <1>1, StageOf DEF CookieInv, JobsFit, UploadCollects
<1>3. PICK s \in Shops : j \in UploadOf(s)
  BY <1>2, StageOf
<1>4. j.row = s /\ j.shop = s
  BY <1>3 DEF UploadOf
<1>5. PICK c \in OwnCookies(s) : c = Collected(j) /\ (IsOrderCapable(j.cookie) => IsOrderCapable(c))
  BY <1>2, <1>4, CollectedFits DEF CookieInv
<1> DEFINE q == [j EXCEPT !.stage = "post", !.cookie = c]
<1>6. jobs' = IF IsOrderCapable(c) THEN [jobs EXCEPT ![i] = q] ELSE [jobs EXCEPT ![i] = Idle]
  <2>1. DOMAIN Uploadable([r \in {s} |-> c]) # {} <=> IsOrderCapable(c)
    BY DEF Uploadable, IsOrderCapable
  <2> QED
    BY <1>1, <1>4, <1>5, <2>1 DEF UploadCollects
<1>7. IsOrderCapable(c) => OwnJob(q) /\ Carries(q, s) /\ \A r : Carries(j, r) => r = s
  <2>1. IsOrderCapable(c) => q \in JobOf(s)
    BY <1>3 DEF UploadOf, UploadSentOf, JobOf, WholeCookies
  <2>2. q.kind \in Uploads /\ q.stage = "post" /\ q.row = s /\ q.cookie = c
    BY <1>3 DEF UploadOf
  <2> QED
    BY <1>4, <2>1, <2>2 DEF OwnJob, Carries
<1>8. ~IsOrderCapable(c) => \A r : ~Carries(j, r)
  BY <1>5 DEF Carries
<1> HIDE DEF q
<1>9. JobsFit'
  BY <1>6, <1>7, OneJob DEF CookieInv, OwnJob
<1>10. uploadDue' = uploadDue /\ tried' = tried /\ bridge' = bridge
  BY DEF UploadCollects, captureVars, timers, serverVars
<1>11. \A r \in Shops : UnderWay(r) => UnderWay(r)'
  BY <1>1, <1>6, <1>7, <1>8, <1>10, JobReplaced DEF CookieInv
<1>12. SeenGoesOut'
  BY <1>10, <1>11, SubmissionStays, SameSeen DEF CookieInv
<1> QED
  BY <1>9, <1>12, PartsStay DEF CookieInv, UploadCollects, checkVars

LEMMA UploadPostsKeeps ==
  ASSUME CookieInv, NEW i \in JobIds, UploadPosts(i)
  PROVE  CookieInv'
<1>1. PICK j : j = jobs[i]
  OBVIOUS
<1>2. OwnJob(j) /\ j.kind \in Uploads /\ j.stage = "post"
  BY <1>1 DEF CookieInv, JobsFit, UploadPosts
<1>3. PICK s \in Shops : j \in UploadSentOf(s)
  BY <1>2, StageOf
<1>4. j.row = s /\ j.cookie \in WholeCookies(s)
  BY <1>3 DEF UploadSentOf
<1> DEFINE cookies == [r \in {s} |-> j.cookie]
<1>5. OwnWhole(cookies) /\ DOMAIN cookies = {s}
  BY <1>4 DEF OwnWhole
<1>6. Posted(cookies) /\ cache' = cache
  BY <1>1, <1>4 DEF UploadPosts
<1> HIDE DEF cookies
<1>7. ServerFit' /\ \A r \in Shops : tried[r].ark # 0 \/ r = s => tried'[r].ark # 0
  BY <1>5, <1>6, PostedKeeps DEF CookieInv
<1> DEFINE q == [j EXCEPT !.stage = "verify"]
<1>8. jobs' = [jobs EXCEPT ![i] = q] \/ jobs' = [jobs EXCEPT ![i] = Idle]
  BY <1>1 DEF UploadPosts
<1>9. OwnJob(q)
  <2>1. q \in JobOf(s)
    BY <1>3 DEF UploadSentOf, JobOf
  <2> QED
    BY <2>1 DEF OwnJob
<1>10. \A r : Carries(j, r) => r = s
  BY <1>4 DEF Carries
<1> HIDE DEF q
<1>11. JobsFit'
  BY <1>8, <1>9, OneJob DEF CookieInv, OwnJob
<1>12. \A r \in Shops : UnderWay(r) => UnderWay(r)'
  BY <1>1, <1>7, <1>8, <1>10, JobReplaced DEF CookieInv
<1>13. uploadDue' = uploadDue /\ bridge' = bridge
  BY DEF UploadPosts, captureVars, timers
<1>14. SeenGoesOut'
  BY <1>12, <1>13, SubmissionStays, SameSeen DEF CookieInv
<1> QED
  BY <1>7, <1>11, <1>14, PartsStay DEF CookieInv, UploadPosts, checkVars

LEMMA UploadVerifiedKeeps ==
  ASSUME CookieInv, NEW i \in JobIds, UploadVerified(i)
  PROVE  CookieInv'
<1>1. PICK j : j = jobs[i]
  OBVIOUS
<1>2. OwnJob(j) /\ j.kind \in Uploads /\ j.stage = "verify" /\ \A r : ~Carries(j, r)
  BY <1>1, StageOf DEF CookieInv, JobsFit, UploadVerified
<1>3. PICK s \in Shops : j \in UploadSentOf(s)
  BY <1>2, StageOf
<1>4. j.row = s /\ j.cookie \in WholeCookies(s)
  BY <1>3 DEF UploadSentOf
<1> DEFINE cookies == [r \in {s} |-> j.cookie]
<1>5. OwnWhole(cookies)
  BY <1>4 DEF OwnWhole
<1>6. /\ \E ok : Confirmed(cookies, ok, TRUE)
      /\ jobs' = [jobs EXCEPT ![i] = Idle] /\ UNCHANGED <<jar, tried, timers>>
  BY <1>1, <1>4 DEF UploadVerified
<1> HIDE DEF cookies
<1>7. /\ ServerFit' /\ PagesFit'
      /\ \A r \in Shops : WholeSeen(r)' => WholeSeen(r) /\ (r \in uploadDue /\ bridge[r].recent => bridge'[r].recent)
  BY <1>5, <1>6, ConfirmedKeeps
<1>8. JobsFit'
  BY <1>6, OneJob DEF CookieInv, OwnJob
<1>9. \A r \in Shops : UnderWay(r) => UnderWay(r)'
  BY <1>1, <1>2, <1>6, JobReplaced DEF CookieInv
<1>10. SeenGoesOut'
  BY <1>6, <1>7, <1>9, SubmissionStays DEF CookieInv, timers
<1> QED
  BY <1>6, <1>7, <1>8, <1>10, PartsStay DEF CookieInv, UploadVerified, checkVars

(* The harvest *)
Turns == {"jar", "quality", "restore"}

LEMMA TurnOf ==
  ASSUME CookieInv, harvest.stage \in {"jar", "quality", "restore", "post", "verify"}
  PROVE  /\ HarvestSigns /\ harvest.next \in 1..Len(Order) /\ HarvestShop \in Shops
         /\ harvest.stage \in Turns => HarvestShop \notin DOMAIN harvest.got
<1>1. HarvestSigns
  BY DEF CookieInv, HarvestFit, SyncTurns, EmptyHarvest
<1>2. harvest.next \in 1..Len(Order) /\ HarvestShop \in Shops
  BY <1>1, ShopCookiesAssumption DEF HarvestSigns, HarvestShop
<1>3. harvest.stage \in Turns => HarvestShop \notin DOMAIN harvest.got
  <2> SUFFICES ASSUME harvest.stage \in Turns, HarvestShop \in DOMAIN harvest.got
               PROVE  FALSE
    OBVIOUS
  <2>1. PICK k \in 1..harvest.next - 1 : Order[k] = HarvestShop
    BY <1>1 DEF HarvestSigns, Turns
  <2>2. k \in DOMAIN Order /\ k # harvest.next /\ harvest.next \in DOMAIN Order
    BY <1>2, ShopCookiesAssumption
  <2> QED
    BY <2>1, <2>2, ShopCookiesAssumption DEF HarvestShop
<1> QED
  BY <1>1, <1>2, <1>3

\* Whatever is got of the shop whose turn it is, the next one's is not over.
LEMMA NextShopFits ==
  ASSUME CookieInv, harvest.stage \in Turns, NEW harvested, harvest' = NextShop(harvested),
         DOMAIN pageAt' = Shops, \A s \in Shops : pageAt'[s] \in {"desk", "sso", "quality"},
         \A s \in DOMAIN harvested :
           /\ s \in Shops /\ harvested[s] \in WholeCookies(s) /\ pageAt'[s] = "desk"
           /\ s \in DOMAIN harvest.got \/ s = HarvestShop
  PROVE  HarvestFit'
<1>1. HarvestSigns /\ harvest.next \in 1..Len(Order)
  BY TurnOf DEF Turns
<1>2. \A s \in DOMAIN harvested : \E k \in 1..harvest.next : Order[k] = s
  BY <1>1 DEF HarvestSigns, HarvestShop, Turns
<1>3. CASE harvest.next < Len(Order)
  <2>1. harvest' = [harvest EXCEPT !.stage = "jar", !.next = @ + 1, !.got = harvested]
    BY <1>3 DEF NextShop
  <2>2. /\ DOMAIN harvest' = {"stage", "next", "here", "got"} /\ harvest'.here = harvest.here
        /\ harvest'.stage = "jar" /\ harvest'.next = harvest.next + 1 /\ harvest'.got = harvested
    BY <1>1, <2>1 DEF HarvestSigns
  <2>3. harvest.next + 1 \in DOMAIN Order /\ (harvest.next + 1) - 1 = harvest.next
    BY <1>1, <1>3, ShopCookiesAssumption
  <2>4. HarvestSigns'
    BY <1>1, <1>2, <2>2, <2>3 DEF HarvestSigns, WholeCookies, OwnCookies, IsOrderCapable, HasA1, HasArk
  <2> QED
    BY <2>4 DEF HarvestFit
<1>4. CASE ~(harvest.next < Len(Order))
  <2>1. harvest' = [harvest EXCEPT !.stage = "post", !.got = harvested]
    BY <1>4 DEF NextShop
  <2>2. /\ DOMAIN harvest' = {"stage", "next", "here", "got"} /\ harvest'.here = harvest.here
        /\ harvest'.stage = "post" /\ harvest'.next = harvest.next /\ harvest'.got = harvested
    BY <1>1, <2>1 DEF HarvestSigns
  <2>3. HarvestSigns'
    BY <1>1, <2>2 DEF HarvestSigns, WholeCookies, OwnCookies, IsOrderCapable, HasA1, HasArk
  <2> QED
    BY <2>3 DEF HarvestFit
<1> QED
  BY <1>3, <1>4

LEMMA HarvestStartsKeeps ==
  ASSUME CookieInv, HarvestStarts \/ SyncStarts
  PROVE  CookieInv'
<1>1. 1 \in DOMAIN Order
  <2>1. PICK s \in Shops : TRUE
    BY ShopCookiesAssumption
  <2> QED
    BY <2>1, ShopCookiesAssumption
<1>2. /\ pageAt' = pageAt
      /\ \/ \E here \in BOOLEAN : harvest' = [stage |-> "jar", next |-> 1, here |-> here, got |-> NoCookies]
         \/ harvest' = [stage |-> "syncCollect", next |-> 1]
  BY DEF HarvestStarts, SyncStarts
<1>3. HarvestFit'
  <2>1. CASE harvest' = [stage |-> "syncCollect", next |-> 1]
    <3>1. SyncTurns'
      BY <1>1, <2>1 DEF SyncTurns
    <3> QED
      BY <1>2, <3>1 DEF CookieInv, HarvestFit
  <2>2. ASSUME NEW here \in BOOLEAN, harvest' = [stage |-> "jar", next |-> 1, here |-> here, got |-> NoCookies]
        PROVE  HarvestFit'
    <3>1. HarvestSigns'
      BY <1>1, <2>2 DEF HarvestSigns, NoCookies
    <3> QED
      BY <1>2, <3>1 DEF CookieInv, HarvestFit
  <2> QED
    BY <1>2, <2>1, <2>2
<1>4. UNCHANGED <<captureVars, timers, jobs, checkVars, serverVars>>
  BY DEF HarvestStarts, SyncStarts
<1> QED
  BY <1>3, <1>4, PartsStay DEF CookieInv, captureVars, timers, checkVars, serverVars

LEMMA PageDriven ==
  ASSUME CookieInv, harvest.stage \in Turns, NEW place \in {"desk", "sso", "quality"},
         pageAt' = [pageAt EXCEPT ![HarvestShop] = place]
  PROVE  /\ DOMAIN pageAt' = Shops /\ \A s \in Shops : pageAt'[s] \in {"desk", "sso", "quality"}
         /\ \A s \in DOMAIN harvest.got : s \in Shops /\ pageAt'[s] = "desk" /\ harvest.got[s] \in WholeCookies(s)
         /\ pageAt'[HarvestShop] = place
<1>1. HarvestSigns /\ HarvestShop \in Shops /\ HarvestShop \notin DOMAIN harvest.got
  BY TurnOf DEF Turns
<1> QED
  BY <1>1 DEF CookieInv, HarvestFit, HarvestSigns

LEMMA PageStays ==
  ASSUME CookieInv, harvest.stage \in Turns, pageAt' = pageAt
  PROVE  /\ DOMAIN pageAt' = Shops /\ \A s \in Shops : pageAt'[s] \in {"desk", "sso", "quality"}
         /\ \A s \in DOMAIN harvest.got : s \in Shops /\ pageAt'[s] = "desk" /\ harvest.got[s] \in WholeCookies(s)
<1>1. HarvestSigns
  BY TurnOf DEF Turns
<1> QED
  BY <1>1 DEF CookieInv, HarvestFit, HarvestSigns

LEMMA StageMoves ==
  ASSUME CookieInv, harvest.stage \in Turns, NEW place \in {"desk", "sso", "quality"},
         NEW turn \in Turns, pageAt' = [pageAt EXCEPT ![HarvestShop] = place],
         harvest' = [harvest EXCEPT !.stage = turn]
  PROVE  HarvestFit'
<1>1. HarvestSigns
  BY TurnOf DEF Turns
<1>2. /\ DOMAIN pageAt' = Shops /\ \A s \in Shops : pageAt'[s] \in {"desk", "sso", "quality"}
      /\ \A s \in DOMAIN harvest.got : s \in Shops /\ pageAt'[s] = "desk" /\ harvest.got[s] \in WholeCookies(s)
  BY PageDriven
<1>3. /\ DOMAIN harvest' = {"stage", "next", "here", "got"} /\ harvest'.here = harvest.here
      /\ harvest'.stage = turn /\ harvest'.next = harvest.next /\ harvest'.got = harvest.got
  BY <1>1 DEF HarvestSigns
<1>4. HarvestSigns'
  BY <1>1, <1>2, <1>3 DEF HarvestSigns, Turns, WholeCookies, OwnCookies, IsOrderCapable, HasA1, HasArk
<1> QED
  BY <1>2, <1>4 DEF HarvestFit

LEMMA HarvestTurnKeeps ==
  ASSUME CookieInv, HarvestSignsOn \/ HarvestOpensQuality \/ HarvestRestores \/ HarvestBreaks
  PROVE  CookieInv'
<1>1. harvest.stage \in Turns
  BY DEF HarvestSignsOn, HarvestOpensQuality, HarvestRestores, HarvestBreaks, Turns
<1>2. HarvestSigns /\ HarvestShop \in Shops
  BY <1>1, TurnOf DEF Turns
<1>3. HarvestFit'
  <2>1. CASE HarvestSignsOn
    <3>1. CASE pageAt' = [pageAt EXCEPT ![HarvestShop] = "sso"] /\ harvest' = [harvest EXCEPT !.stage = "quality"]
      BY <1>1, <3>1, StageMoves DEF Turns
    <3>2. CASE harvest' = NextShop(harvest.got) /\ pageAt' = pageAt
      BY <1>1, <3>2, PageStays, NextShopFits
    <3> QED
      BY <2>1, <3>1, <3>2 DEF HarvestSignsOn
  <2>2. CASE HarvestOpensQuality
    BY <1>1, <2>2, StageMoves DEF HarvestOpensQuality, Turns
  <2>3. CASE HarvestRestores
    <3>1. PICK probed \in BOOLEAN : harvest' = NextShop(Harvested(jar[HarvestShop], probed))
      BY <2>3 DEF HarvestRestores, Probes
    <3>2. pageAt' = [pageAt EXCEPT ![HarvestShop] = "desk"]
      BY <2>3 DEF HarvestRestores
    <3>3. PICK harvested : harvested = Harvested(jar[HarvestShop], probed)
      OBVIOUS
    <3>4. /\ DOMAIN pageAt' = Shops /\ \A s \in Shops : pageAt'[s] \in {"desk", "sso", "quality"}
          /\ \A s \in DOMAIN harvest.got : s \in Shops /\ pageAt'[s] = "desk" /\ harvest.got[s] \in WholeCookies(s)
          /\ pageAt'[HarvestShop] = "desk"
      BY <1>1, <3>2, PageDriven
    <3>5. \A s \in DOMAIN harvested :
             /\ s \in Shops /\ harvested[s] \in WholeCookies(s) /\ pageAt'[s] = "desk"
             /\ s \in DOMAIN harvest.got \/ s = HarvestShop
      <4>1. CASE harvested = harvest.got
        BY <3>4, <4>1
      <4>2. CASE IsOrderCapable(jar[HarvestShop])
        <5>1. jar[HarvestShop] \in WholeCookies(HarvestShop)
          BY <1>2, <4>2 DEF CookieInv, PagesFit, WholeCookies
        <5>2. harvested = harvest.got \/ harvested = [s \in DOMAIN harvest.got \cup {HarvestShop} |->
                                           IF s = HarvestShop THEN jar[HarvestShop] ELSE harvest.got[s]]
          BY <3>3 DEF Harvested
        <5> QED
          BY <1>2, <3>4, <4>1, <5>1, <5>2
      <4> QED
        BY <3>3, <4>1, <4>2 DEF Harvested
    <3> QED
      BY <1>1, <3>1, <3>3, <3>4, <3>5, NextShopFits
  <2>4. CASE HarvestBreaks
    <3>1. harvest' = NextShop(harvest.got) /\ pageAt' = pageAt
      BY <2>4 DEF HarvestBreaks
    <3> QED
      BY <1>1, <3>1, PageStays, NextShopFits
  <2> QED
    BY <2>1, <2>2, <2>3, <2>4
<1>4. UNCHANGED <<captureVars, timers, jobs, checkVars, serverVars>>
  BY DEF HarvestSignsOn, HarvestOpensQuality, HarvestRestores, HarvestBreaks
<1> QED
  BY <1>3, <1>4, PartsStay DEF CookieInv, captureVars, timers, checkVars, serverVars

LEMMA HarvestOver ==
  ASSUME CookieInv, harvest' = EmptyHarvest, pageAt' = pageAt
  PROVE  HarvestFit'
BY DEF CookieInv, HarvestFit, EmptyHarvest

LEMMA HarvestPostsKeeps ==
  ASSUME CookieInv, HarvestPosts
  PROVE  CookieInv'
<1>1. /\ harvest.stage = "post" /\ UNCHANGED <<captureVars, timers, jobs, checkVars, cache, pageAt>>
      /\ \/ harvest' = EmptyHarvest /\ tried' = tried
         \/ /\ Posted(harvest.got)
            /\ harvest' = [harvest EXCEPT !.stage = "verify"] \/ harvest' = EmptyHarvest
  BY DEF HarvestPosts
<1>2. HarvestSigns
  BY <1>1, TurnOf
<1>3. PICK harvested : harvested = harvest.got
  OBVIOUS
<1>4. OwnWhole(harvested)
  BY <1>2, <1>3 DEF OwnWhole, HarvestSigns
<1>5. ServerFit' /\ \A s \in Shops : tried[s].ark # 0 => tried'[s].ark # 0
  <2>1. CASE tried' = tried
    BY <1>1, <2>1, PartsStay DEF CookieInv, serverVars
  <2>2. CASE Posted(harvested)
    BY <1>1, <1>4, <2>2, PostedKeeps DEF CookieInv
  <2> QED
    BY <1>1, <1>3, <2>1, <2>2
<1>6. HarvestFit'
  <2>1. CASE harvest' = [harvest EXCEPT !.stage = "verify"]
    <3>1. /\ DOMAIN harvest' = {"stage", "next", "here", "got"} /\ harvest'.here = harvest.here
          /\ harvest'.stage = "verify" /\ harvest'.next = harvest.next /\ harvest'.got = harvest.got
      BY <1>2, <2>1 DEF HarvestSigns
    <3>2. HarvestSigns'
      BY <1>1, <1>2, <3>1 DEF HarvestSigns, WholeCookies, OwnCookies, IsOrderCapable, HasA1, HasArk
    <3> QED
      BY <1>1, <3>2 DEF CookieInv, HarvestFit
  <2> QED
    BY <1>1, <2>1, HarvestOver
<1>7. \A s \in Shops : UnderWay(s) => UnderWay(s)'
  BY <1>1, <1>5, UnderWayStays
<1>8. SeenGoesOut'
  BY <1>1, <1>7, SubmissionStays, SameSeen DEF CookieInv, timers, captureVars
<1> QED
  BY <1>1, <1>5, <1>6, <1>8, PartsStay DEF CookieInv, checkVars

LEMMA HarvestVerifiedKeeps ==
  ASSUME CookieInv, HarvestVerified
  PROVE  CookieInv'
<1>1. /\ harvest.stage = "verify" /\ UNCHANGED <<jar, timers, jobs, checkVars, tried, pageAt>>
      /\ harvest' = EmptyHarvest /\ \E ok : Confirmed(harvest.got, ok, harvest.here)
  BY DEF HarvestVerified
<1>2. HarvestSigns
  BY <1>1, TurnOf
<1>3. PICK harvested, here : harvested = harvest.got /\ here = harvest.here
  OBVIOUS
<1>4. OwnWhole(harvested) /\ here \in BOOLEAN
  BY <1>2, <1>3 DEF OwnWhole, HarvestSigns
<1>5. PICK ok : Confirmed(harvested, ok, here)
  BY <1>1, <1>3
<1>6. /\ ServerFit' /\ PagesFit'
      /\ \A s \in Shops : WholeSeen(s)' => WholeSeen(s) /\ (s \in uploadDue /\ bridge[s].recent => bridge'[s].recent)
  BY <1>1, <1>4, <1>5, ConfirmedKeeps
<1>7. \A s \in Shops : UnderWay(s) => UnderWay(s)'
  BY <1>1, UnderWayStays
<1>8. SeenGoesOut'
  BY <1>1, <1>6, <1>7, SubmissionStays DEF CookieInv, timers
<1> QED
  BY <1>1, <1>6, <1>8, HarvestOver, PartsStay DEF CookieInv, checkVars

(* Bringing the control centre up to date *)
LEMMA SyncNextFits ==
  ASSUME CookieInv, harvest.stage \in {"syncCollect", "syncSend"}, harvest' = SyncNext, pageAt' = pageAt
  PROVE  HarvestFit'
<1>1. SyncTurns
  BY DEF CookieInv, HarvestFit, HarvestSigns, EmptyHarvest
<1>2. CASE harvest.next < Len(Order)
  <2>1. harvest' = [stage |-> "syncCollect", next |-> harvest.next + 1]
    BY <1>2 DEF SyncNext
  <2>2. harvest.next + 1 \in DOMAIN Order
    BY <1>1, <1>2, ShopCookiesAssumption DEF SyncTurns
  <2>3. SyncTurns'
    BY <2>1, <2>2 DEF SyncTurns
  <2> QED
    BY <2>3 DEF CookieInv, HarvestFit
<1>3. CASE ~(harvest.next < Len(Order))
  BY <1>3, HarvestOver DEF SyncNext
<1> QED
  BY <1>2, <1>3

LEMMA SyncCollectsKeeps ==
  ASSUME CookieInv, SyncCollects
  PROVE  CookieInv'
<1>1. PICK s : s = HarvestShop
  OBVIOUS
<1>2. SyncTurns /\ harvest.next \in DOMAIN Order /\ s \in Shops
  <2>1. SyncTurns
    BY DEF CookieInv, HarvestFit, HarvestSigns, EmptyHarvest, SyncCollects
  <2> QED
    BY <1>1, <2>1, ShopCookiesAssumption DEF SyncTurns, HarvestShop
<1>3. PICK c : c = IF bridge[s].recent THEN PreferLongest(Headers(bridge[s]), jar[s]) ELSE Blank(s)
  OBVIOUS
<1>4. c \in OwnCookies(s)
  <2>1. Headers(bridge[s]) \in OwnCookies(s) /\ jar[s] \in Cookies
    BY <1>2, HeadersFit DEF CookieInv, PagesFit
  <2> QED
    BY <1>2, <1>3, <2>1, Preferred, OwnAreCookies
<1>5. /\ harvest.stage = "syncCollect" /\ UNCHANGED <<captureVars, timers, jobs, checkVars, serverVars, pageAt>>
      /\ \/ harvest' = SyncNext
         \/ harvest' = [stage |-> "syncSend", next |-> harvest.next, cookie |-> c, file |-> entries]
  BY <1>1, <1>3 DEF SyncCollects
<1>6. HarvestFit'
  <2>1. CASE harvest' = [stage |-> "syncSend", next |-> harvest.next, cookie |-> c, file |-> entries]
    <3>1. entries \in Files
      BY DEF CookieInv, EntriesFit
    <3>2. PICK k \in DOMAIN Order : k = harvest.next /\ Order[k] = s
      BY <1>1, <1>2 DEF HarvestShop
    <3>3. /\ DOMAIN harvest' = {"stage", "next", "cookie", "file"} /\ harvest'.stage = "syncSend"
          /\ harvest'.next = k /\ harvest'.cookie = c /\ harvest'.file = entries
      BY <2>1, <3>2
    <3>4. SyncTurns'
      BY <1>4, <3>1, <3>2, <3>3 DEF SyncTurns, OwnCookies
    <3> QED
      BY <1>5, <3>4 DEF CookieInv, HarvestFit
  <2> QED
    BY <1>5, <2>1, SyncNextFits
<1> QED
  BY <1>5, <1>6, PartsStay DEF CookieInv, captureVars, timers, checkVars, serverVars

LEMMA SyncEndsKeeps ==
  ASSUME CookieInv, SyncEnds
  PROVE  CookieInv'
<1>1. harvest.stage = "syncSend" /\ SyncTurns
  BY DEF CookieInv, HarvestFit, HarvestSigns, EmptyHarvest, SyncEnds
<1>2. PICK s \in Shops : s = HarvestShop
  BY <1>1, ShopCookiesAssumption DEF SyncTurns, HarvestShop
<1>3. harvest.cookie \in OwnCookies(s) /\ harvest.file \in Files
  BY <1>1, <1>2 DEF SyncTurns, HarvestShop
<1>4. PICK ok \in BOOLEAN : /\ entries' = Noted(harvest.file, s, harvest.cookie, ok) /\ Cooled(s, ok)
  BY <1>2 DEF SyncEnds, ControlAnswers
<1>5. EntriesFit'
  <2>1. Noted(harvest.file, s, harvest.cookie, ok) \in Files
    BY <1>3, NotedFits
  <2> QED
    BY <1>4, <2>1 DEF EntriesFit
<1>6. harvest' = SyncNext /\ UNCHANGED <<captureVars, timers, jobs, recovered, serverVars, pageAt>>
  BY DEF SyncEnds
<1>7. TimersFit'
  BY <1>4, <1>6 DEF CookieInv, TimersFit, Cooled, timers
<1>8. HarvestFit'
  BY <1>1, <1>6, SyncNextFits
<1> QED
  BY <1>5, <1>6, <1>7, <1>8, PartsStay DEF CookieInv, captureVars, timers, serverVars

(* The invariant *)
LEMMA CookieInitially ==
  ASSUME CookieInit
  PROVE  CookieInv
<1>1. PagesFit
  <2>1. \A s \in Shops : [Blank(s) EXCEPT !.a1 = 1] \in OwnCookies(s)
    BY ShopCookiesAssumption, SMTT(30) DEF Blank, OwnCookies, Cookies
  <2> QED
    BY <2>1, NewBridgeFits, OwnAreCookies DEF CookieInit, PagesFit
<1>2. TimersFit /\ JobsFit /\ EntriesFit /\ ServerFit /\ HarvestFit
  BY DEF CookieInit, TimersFit, JobsFit, OwnJob, EntriesFit, Files, EntryType, EntryOf, ServerFit, HarvestFit
<1>3. SeenGoesOut
  BY NewBridgeFits DEF CookieInit, SeenGoesOut, WholeSeen
<1> QED
  BY <1>1, <1>2, <1>3 DEF CookieInv

LEMMA CookieStep ==
  ASSUME CookieInv, [CookieNext]_cookieVars
  PROVE  CookieInv'
<1>1. CASE UNCHANGED cookieVars
  BY <1>1, PartsStay DEF CookieInv, cookieVars, captureVars, timers, checkVars, serverVars
<1>2. ASSUME NEW s \in Shops,
             \/ TokenRenewed(s) \/ RequestSeen(s) \/ BridgeReplaced(s) \/ HeadersAge(s)
             \/ BuyerMessage(s) \/ LoginRecovered(s) \/ CooldownEnds(s)
      PROVE  CookieInv'
  BY <1>2, TokenRenewedKeeps, RequestSeenKeeps, BridgeReplacedKeeps, HeadersAgeKeeps, TimersKeep
<1>3. ASSUME NEW s \in Shops, NEW i \in JobIds, CheckFires(s, i) \/ UploadFires(s, i)
      PROVE  CookieInv'
  BY <1>3, CheckFiresKeeps, UploadFiresKeeps
<1>4. ASSUME NEW i \in JobIds, BuyerUploadFires(i) \/ CheckStep(i) \/ UploadStep(i)
      PROVE  CookieInv'
  BY <1>4, BuyerUploadFiresKeeps, CheckDecidesKeeps, CheckEndsKeeps, UploadCollectsKeeps, UploadPostsKeeps,
     UploadVerifiedKeeps DEF CheckStep, UploadStep
<1>5. CASE UploadsAge \/ HarvestStarts \/ HarvestStep \/ SyncStarts \/ SyncStep
  BY <1>5, UploadsAgeKeeps, HarvestStartsKeeps, HarvestTurnKeeps, HarvestPostsKeeps, HarvestVerifiedKeeps,
     SyncCollectsKeeps, SyncEndsKeeps DEF HarvestStep, SyncStep
<1> QED
  BY <1>1, <1>2, <1>3, <1>4, <1>5 DEF CookieNext

LEMMA CookieSound ==
  ASSUME CookieInv
  PROVE  CookieTypeOK /\ CookiesSound
<1>1. CookieTypeOK
  <2>1. /\ checkDue \subseteq Shops /\ uploadDue \subseteq Shops /\ buyerDue \in Shops \cup {NoShop}
        /\ cooling \subseteq Shops /\ recovered \subseteq Shops
    BY DEF CookieInv, TimersFit
  <2>2. ASSUME NEW s \in Shops
        PROVE  /\ jar[s] \in Cookies /\ jar[s].of = s
               /\ bridge[s] \in BridgeType(s) /\ bridge[s].merged.of = s
               /\ entries[s] \in EntryType
               /\ entries[s].known => entries[s].cookie.of = s
               /\ pageAt[s] \in {"desk", "sso", "quality"}
    <3>1. jar[s] \in Cookies /\ jar[s].of = s
      BY DEF CookieInv, PagesFit, OwnCookies
    <3>2. bridge[s] \in BridgeOf(s)
      BY DEF CookieInv, PagesFit
    <3>3. bridge[s] \in BridgeType(s) /\ bridge[s].merged.of = s
      BY <3>2 DEF BridgeOf, BridgeType, OwnCookies
    <3>4. entries[s] \in EntryType /\ entries[s] \in EntryOf(s)
      BY DEF CookieInv, EntriesFit, Files
    <3>5. entries[s].known => entries[s].cookie.of = s
      <4>1. CASE entries[s] = NoEntry
        BY <4>1 DEF NoEntry
      <4>2. CASE entries[s] # NoEntry
        <5>1. entries[s].cookie \in OwnCookies(s)
          BY <3>4, <4>2 DEF EntryOf
        <5> QED
          BY <5>1 DEF OwnCookies
      <4> QED
        BY <4>1, <4>2
    <3> QED
      BY <3>1, <3>3, <3>4, <3>5 DEF CookieInv, HarvestFit
  <2>3. ASSUME NEW i \in JobIds
        PROVE  jobs[i] \in JobType
    <3>1. OwnJob(jobs[i])
      BY DEF CookieInv, JobsFit
    <3>2. CASE jobs[i] = Idle
      BY <3>2 DEF JobType
    <3>3. ASSUME NEW s \in Shops, jobs[i] \in JobOf(s)
          PROVE  jobs[i] \in JobType
      <4>1. CASE jobs[i] \in CheckOf(s)
        BY <4>1, OwnAreCookies DEF CheckOf, JobType
      <4>2. CASE jobs[i] \in CheckSentOf(s)
        BY <4>2, OwnAreCookies DEF CheckSentOf, JobType, Files
      <4>3. CASE jobs[i] \in UploadOf(s)
        BY <4>3, OwnAreCookies DEF UploadOf, JobType
      <4>4. CASE jobs[i] \in UploadSentOf(s)
        BY <4>4, OwnAreCookies DEF UploadSentOf, JobType
      <4> QED
        BY <3>3, <4>1, <4>2, <4>3, <4>4 DEF JobOf
    <3> QED
      BY <3>1, <3>2, <3>3 DEF OwnJob
  <2>4. harvest.stage \in {"none", "jar", "quality", "restore", "post", "verify", "syncCollect", "syncSend"}
    BY DEF CookieInv, HarvestFit, HarvestSigns, SyncTurns, EmptyHarvest
  <2> QED
    BY <2>1, <2>2, <2>3, <2>4 DEF CookieTypeOK
<1>2. OwnAndWhole
  BY DEF CookieInv, ServerFit, OwnAndWhole, WholeCookies, OwnCookies
<1>3. HarvestedIsHome
  BY TurnOf DEF HarvestedIsHome, HarvestSigns, WholeCookies, OwnCookies
<1>4. SeenIsSubmitted
  <2> SUFFICES ASSUME NEW s \in Shops, RowOf(s) = s,
                      Headers(bridge[s]).ark # 0, HasA1(Headers(bridge[s])), s \notin uploadDue,
                      \A i \in JobIds : jobs[i].kind \in Uploads => jobs[i].row # s
               PROVE  tried[s].ark # 0
    BY DEF SeenIsSubmitted
  <2>1. WholeSeen(s)
    BY DEF WholeSeen, HasArk
  <2>2. UnderWay(s)
    BY <2>1 DEF CookieInv, SeenGoesOut
  <2> QED
    BY <2>2 DEF UnderWay, Carries
<1> QED
  BY <1>1, <1>2, <1>3, <1>4 DEF CookiesSound, CookieAtHome

-------------------------------------------------------------------------------
(***************************************************************************)
(* The WeChat bot (WxBot)                                                  *)
(***************************************************************************)
\* Every handler asks the client for something of its own.
TypeOf(kind) == Handlers[kind].helper.type
KindOf(t) ==
  CASE t = 11028 -> "GetCurrentLoginInfo"
    [] t = 11087 -> "RefreshQRCode"
    [] t = 11104 -> "LogoutCurrent"
    [] t = 11136 -> "GetMiniProgramCode"
    [] t = 11112 -> "GetVoiceToText"
    [] t = 11030 -> "GetFriendList"
    [] t = 11029 -> "GetFriendInfo"
    [] t = 11031 -> "GetGroupList"
    [] t = 11032 -> "GetGroupMemberList"
    [] t = 11036 -> "SendTextMessage"
    [] t = 11037 -> "SendAtTextMessage"
    [] t = 11069 -> "InviteGroupMember"
    [] t = 11040 -> "SendImageMessage"
    [] t = 11041 -> "SendFileMessage"
    [] t = 11038 -> "SendCardMessage"
    [] t = 11072 -> "ModifyGroupName"

LEMMA TypesDiffer ==
  ASSUME NEW j \in CallKinds, NEW k \in CallKinds, TypeOf(j) = TypeOf(k)
  PROVE  j = k
<1>1. ASSUME NEW n \in DOMAIN Handlers PROVE KindOf(TypeOf(n)) = n
  <2>17. n \in {"GetCurrentLoginInfo", "RefreshQRCode", "LogoutCurrent", "GetMiniProgramCode", "GetVoiceToText", "GetFriendList",
                "GetFriendInfo", "GetGroupList", "GetGroupMemberList", "SendTextMessage", "SendAtTextMessage",
                "InviteGroupMember", "SendImageMessage", "SendFileMessage", "SendCardMessage", "ModifyGroupName"}
    BY <1>1 DEF Handlers
  <2>1. CASE n = "GetCurrentLoginInfo"
    BY <2>1 DEF KindOf, TypeOf, Handlers, Get, Post, Asks, Tells, GetCurrentLoginInfo, HelperGetCurrentLoginInfo
  <2>2. CASE n = "RefreshQRCode"
    BY <2>2 DEF KindOf, TypeOf, Handlers, Get, Post, Asks, Tells, RefreshQRCode, HelperRefreshQRCode
  <2>3. CASE n = "LogoutCurrent"
    BY <2>3 DEF KindOf, TypeOf, Handlers, Get, Post, Asks, Tells, LogoutCurrent, HelperLogoutCurrent
  <2>4. CASE n = "GetMiniProgramCode"
    BY <2>4 DEF KindOf, TypeOf, Handlers, Get, Post, Asks, Tells, GetMiniProgramCode, HelperGetMiniProgramCode
  <2>5. CASE n = "GetVoiceToText"
    BY <2>5 DEF KindOf, TypeOf, Handlers, Get, Post, Asks, Tells, GetVoiceToText, HelperGetVoiceToText
  <2>6. CASE n = "GetFriendList"
    BY <2>6 DEF KindOf, TypeOf, Handlers, Get, Post, Asks, Tells, GetFriendList, HelperGetFriendList
  <2>7. CASE n = "GetFriendInfo"
    BY <2>7 DEF KindOf, TypeOf, Handlers, Get, Post, Asks, Tells, GetFriendInfo, HelperGetFriendInfo
  <2>8. CASE n = "GetGroupList"
    BY <2>8 DEF KindOf, TypeOf, Handlers, Get, Post, Asks, Tells, GetGroupList, HelperGetGroupList
  <2>9. CASE n = "GetGroupMemberList"
    BY <2>9 DEF KindOf, TypeOf, Handlers, Get, Post, Asks, Tells, GetGroupMemberList, HelperGetGroupMemberList
  <2>10. CASE n = "SendTextMessage"
    BY <2>10 DEF KindOf, TypeOf, Handlers, Get, Post, Asks, Tells, SendTextMessage, HelperSendText
  <2>11. CASE n = "SendAtTextMessage"
    BY <2>11 DEF KindOf, TypeOf, Handlers, Get, Post, Asks, Tells, SendAtTextMessage, HelperSendAtText
  <2>12. CASE n = "InviteGroupMember"
    BY <2>12 DEF KindOf, TypeOf, Handlers, Get, Post, Asks, Tells, InviteGroupMember, HelperInviteGroupMember
  <2>13. CASE n = "SendImageMessage"
    BY <2>13 DEF KindOf, TypeOf, Handlers, Get, Post, Asks, Tells, SendImageMessage, HelperSendImage
  <2>14. CASE n = "SendFileMessage"
    BY <2>14 DEF KindOf, TypeOf, Handlers, Get, Post, Asks, Tells, SendFileMessage, HelperSendFile
  <2>15. CASE n = "SendCardMessage"
    BY <2>15 DEF KindOf, TypeOf, Handlers, Get, Post, Asks, Tells, SendCardMessage, HelperSendCard
  <2>16. CASE n = "ModifyGroupName"
    BY <2>16 DEF KindOf, TypeOf, Handlers, Get, Post, Asks, Tells, ModifyGroupName, HelperModifyGroupName
  <2> QED
    BY <2>1, <2>2, <2>3, <2>4, <2>5, <2>6, <2>7, <2>8, <2>9, <2>10, <2>11, <2>12, <2>13, <2>14, <2>15, <2>16, <2>17
<1> QED
  BY <1>1, WxHandlersAssumption

\* Every variable has its type: the calls and their table, the service, the configuration.
Chans == {"none", "open", "closed", "filled"}
WxKeys == {None} \cup ({TypeOf(kind) : kind \in CallKinds} \X (Clients \cup {None}))
CallRec == [kind : CallKinds \cup {None}, stage : Stages, key : WxKeys, chan : Chans,
            got : Calls \cup {None}, alone : BOOLEAN]
CallsType ==
  /\ calls \in [Calls -> CallRec] /\ pending \subseteq Calls /\ aged \subseteq Calls
  /\ \A a \in asked : a.of \in Clients /\ a.by \in Calls
ServiceType ==
  /\ service \in [running : BOOLEAN, cleanup : BOOLEAN, loaded : BOOLEAN,
                  phase : {"off", "injecting", "looping", "reconnecting", "failed", "stopped"}]
  /\ client \in Clients \cup {None} /\ connected \subseteq Clients

WaitsFor(kind) == Handlers[kind].helper.waits > 0
Idling == {"none", "registering", "refused", "lost"}

\* A call has a place in the table only once it has begun, and then that of its kind.
BegunOnly ==
  \A q \in Calls :
    /\ calls[q].stage \notin {"none", "lost"} => calls[q].kind \in CallKinds
    /\ calls[q].stage = "registering" \/ calls[q].alone => WaitsFor(calls[q].kind)
    /\ calls[q].stage \in Idling => ~calls[q].alone /\ q \notin pending
    /\ q \in pending => \E c \in Clients \cup {None} : calls[q].key = <<TypeOf(calls[q].kind), c>>

WaitsAlone(q) == calls[q].alone /\ calls[q].stage \in Waiting

\* Beside a call that has its question to itself nobody asks for the same,
OnlyOne ==
  \A q, p \in Calls :
    WaitsAlone(q) /\ p # q /\ calls[p].stage \in Waiting => calls[p].kind # calls[q].kind
\* whatever the client is asked of that kind the call has asked,
OwnQuestions ==
  \A q \in Calls : WaitsAlone(q) => \A a \in asked : a.type = TypeOf(calls[q].kind) => a.by = q
\* and what it has got, or ended with, is its own.
OwnAnswers ==
  \A q \in Calls \ aged :
    /\ WaitsAlone(q) => calls[q].chan = "open" \/ (calls[q].chan = "filled" /\ calls[q].got = q)
    /\ calls[q].alone /\ calls[q].stage = "ok" => calls[q].got = q /\ q \notin pending

CallsInv == CallsType /\ BegunOnly /\ PlaceIsOpen /\ OnlyOne /\ OwnQuestions /\ OwnAnswers
WxInv == CallsInv /\ ServiceType /\ ConfigTypeOK

\* What a call keeps when its stage, or its channel, changes.
Same(new, old) ==
  /\ new.kind = old.kind /\ new.key = old.key /\ new.got = old.got /\ new.alone = old.alone

LEMMA NewStage ==
  ASSUME NEW r \in CallRec, NEW x \in Stages
  PROVE  /\ [r EXCEPT !.stage = x] \in CallRec /\ Same([r EXCEPT !.stage = x], r)
         /\ [r EXCEPT !.stage = x].stage = x /\ [r EXCEPT !.stage = x].chan = r.chan
BY DEF CallRec, Same

LEMMA NewChan ==
  ASSUME NEW r \in CallRec, NEW x \in Chans
  PROVE  /\ [r EXCEPT !.chan = x] \in CallRec /\ Same([r EXCEPT !.chan = x], r)
         /\ [r EXCEPT !.chan = x].stage = r.stage /\ [r EXCEPT !.chan = x].chan = x
BY DEF CallRec, Same

LEMMA EndsEffect ==
  ASSUME CallsType, NEW q \in Calls, NEW x \in Stages
  PROVE  /\ Ends(q, x) \in [Calls -> CallRec]
         /\ \A p \in Calls : /\ Same(Ends(q, x)[p], calls[p]) /\ Ends(q, x)[p].chan = calls[p].chan
                             /\ Ends(q, x)[p].stage = IF p = q THEN x ELSE calls[p].stage
<1>1. Ends(q, x) = [p \in Calls |-> IF p = q THEN [calls[q] EXCEPT !.stage = x] ELSE calls[p]]
  BY DEF Ends, CallsType
<1>2. calls[q] \in CallRec
  BY DEF CallsType
<1> QED
  BY <1>1, <1>2, NewStage DEF CallsType, Same

LEMMA ClosedEffect ==
  ASSUME CallsType, NEW some \in SUBSET Calls
  PROVE  /\ Closed(some) \in [Calls -> CallRec]
         /\ \A p \in Calls : /\ Same(Closed(some)[p], calls[p]) /\ Closed(some)[p].stage = calls[p].stage
                             /\ Closed(some)[p].chan = IF p \in some THEN "closed" ELSE calls[p].chan
<1>1. \A p \in Calls : calls[p] \in CallRec
  BY DEF CallsType
<1>2. "closed" \in Chans
  BY DEF Chans
<1> QED
  BY <1>1, <1>2, NewChan DEF Closed, Same

\* A step that only moves calls on, or closes channels that nobody alone waits at.
LEMMA CallsMove ==
  ASSUME CallsInv, CallsType',
         \A p \in Calls :
           /\ Same(calls'[p], calls[p])
           /\ \/ calls'[p].stage = calls[p].stage
              \/ calls[p].stage \in Waiting /\ calls'[p].stage \in {"waiting", "ok", "error", "timeout"}
           /\ p \in pending' => p \in pending /\ calls'[p].chan = calls[p].chan
           /\ WaitsAlone(p)' /\ p \notin aged' => calls'[p].chan = calls[p].chan
           /\ calls'[p].stage = "ok" /\ calls[p].stage # "ok" /\ p \notin aged' => calls[p].chan \in {"closed", "filled"} \/ ~calls[p].alone,
         aged \subseteq aged',
         \A a \in asked' \ asked : \E q \in Calls : calls[q].stage \in Waiting /\ a.type = TypeOf(calls[q].kind) /\ a.by = q
  PROVE  CallsInv'
<1>1. BegunOnly'
  BY DEF CallsInv, CallsType, BegunOnly, Same, Waiting, Idling, WaitsFor, TypeOf
<1>2. PlaceIsOpen'
  BY DEF CallsInv, CallsType, PlaceIsOpen, Same
<1>3. \A p \in Calls : /\ calls'[p].stage \in Waiting => calls[p].stage \in Waiting
                       /\ WaitsAlone(p)' => WaitsAlone(p)
  BY DEF Waiting, WaitsAlone, Same
<1>4. OnlyOne'
  BY <1>3 DEF CallsInv, OnlyOne, Same
<1>5. OwnQuestions'
  <2> SUFFICES ASSUME NEW q \in Calls, WaitsAlone(q)', NEW a \in asked', a.type = TypeOf(calls'[q].kind)
               PROVE  a.by = q
    BY DEF OwnQuestions, TypeOf, CallsType
  <2>1. calls'[q].kind = calls[q].kind /\ WaitsAlone(q)
    BY <1>3 DEF Same
  <2>2. CASE a \in asked
    BY <2>1, <2>2 DEF CallsInv, OwnQuestions
  <2>3. CASE a \notin asked
    <3>1. PICK p \in Calls : calls[p].stage \in Waiting /\ a.type = TypeOf(calls[p].kind) /\ a.by = p
      BY <2>3
    <3>2. calls[p].kind \in CallKinds /\ calls[q].kind \in CallKinds
      BY <2>1, <3>1 DEF CallsInv, BegunOnly, Waiting, WaitsAlone
    <3>3. calls[p].kind = calls[q].kind
      BY <2>1, <3>1, <3>2, TypesDiffer
    <3> QED
      BY <2>1, <3>1, <3>3 DEF CallsInv, OnlyOne
  <2> QED
    BY <2>2, <2>3
<1>6. OwnAnswers'
  <2> SUFFICES ASSUME NEW q \in Calls, q \notin aged', calls'[q].alone
               PROVE  /\ calls'[q].stage \in Waiting => calls'[q].chan = "open" \/ (calls'[q].chan = "filled" /\ calls'[q].got = q)
                      /\ calls'[q].stage = "ok" => calls'[q].got = q /\ q \notin pending'
    BY DEF OwnAnswers, WaitsAlone
  <2>1. q \notin aged /\ calls[q].alone /\ calls'[q].got = calls[q].got /\ (q \in pending' => q \in pending)
    BY DEF Same
  <2>2. calls'[q].stage \in Waiting => calls'[q].chan = "open" \/ (calls'[q].chan = "filled" /\ calls'[q].got = q)
    BY <1>3, <2>1 DEF CallsInv, OwnAnswers, WaitsAlone
  <2>3. ASSUME calls'[q].stage = "ok" PROVE calls'[q].got = q /\ q \notin pending'
    <3>1. CASE calls[q].stage = "ok"
      BY <2>1, <3>1 DEF CallsInv, OwnAnswers
    <3>2. CASE calls[q].stage # "ok"
      <4>1. WaitsAlone(q) /\ calls[q].chan \in {"closed", "filled"}
        BY <2>1, <2>3, <3>2 DEF WaitsAlone
      <4> QED
        BY <2>1, <4>1 DEF CallsInv, OwnAnswers, PlaceIsOpen
    <3> QED
      BY <3>1, <3>2
  <2> QED
    BY <2>2, <2>3
<1> QED
  BY <1>1, <1>2, <1>4, <1>5, <1>6 DEF CallsInv

LEMMA EndingKeeps ==
  ASSUME CallsInv, NEW q \in Calls, SendFails(q) \/ UploadFails(q) \/ WaitForResponse(q) \/ WaitTimesOut(q)
  PROVE  CallsInv'
<1>1. PICK some \in SUBSET pending, x \in {"ok", "error", "timeout"} :
        /\ calls' = [Closed(some) EXCEPT ![q].stage = x] /\ pending' = pending \ some
        /\ some \subseteq At(KeyOf(q, client)) /\ UNCHANGED <<aged, asked>>
        /\ calls[q].stage \in Waiting
        /\ x = "ok" => calls[q].chan \in {"closed", "filled"}
        /\ some # {} => calls[q].stage = "asking" /\ WaitsFor(calls[q].kind)
  <2>1. CASE SendFails(q)
    BY <2>1 DEF SendFails, At, Waiting, WaitsFor
  <2>2. CASE UploadFails(q) \/ WaitForResponse(q) \/ WaitTimesOut(q)
    <3>1. Closed({}) = calls
      BY DEF Closed, CallsInv, CallsType
    <3>2. \E x \in {"ok", "error", "timeout"} :
            /\ calls' = [Closed({}) EXCEPT ![q].stage = x] /\ pending' = pending \ {}
            /\ UNCHANGED <<aged, asked>> /\ calls[q].stage \in Waiting
            /\ x = "ok" => calls[q].chan \in {"closed", "filled"}
      BY <2>2, <3>1 DEF UploadFails, WaitForResponse, WaitTimesOut, Ends, Waiting
    <3> QED
      BY <3>2
  <2> QED
    BY <2>1, <2>2
<1>2. /\ Closed(some) \in [Calls -> CallRec]
      /\ \A p \in Calls : /\ Same(Closed(some)[p], calls[p]) /\ Closed(some)[p].stage = calls[p].stage
                          /\ Closed(some)[p].chan = IF p \in some THEN "closed" ELSE calls[p].chan
  <2>1. CallsType /\ some \in SUBSET Calls
    BY DEF CallsInv, CallsType
  <2> QED
    BY <2>1, ClosedEffect
<1>3. calls' = [p \in Calls |-> IF p = q THEN [Closed(some)[q] EXCEPT !.stage = x] ELSE Closed(some)[p]]
  BY <1>1, <1>2
<1>4. /\ [Closed(some)[q] EXCEPT !.stage = x] \in CallRec /\ Same([Closed(some)[q] EXCEPT !.stage = x], Closed(some)[q])
      /\ [Closed(some)[q] EXCEPT !.stage = x].stage = x
      /\ [Closed(some)[q] EXCEPT !.stage = x].chan = Closed(some)[q].chan
  <2>1. Closed(some)[q] \in CallRec /\ x \in Stages
    BY <1>2 DEF Stages
  <2> QED
    BY <2>1, NewStage
<1>5. /\ calls' \in [Calls -> CallRec]
      /\ \A p \in Calls : /\ Same(calls'[p], calls[p])
                          /\ calls'[p].stage = IF p = q THEN x ELSE calls[p].stage
                          /\ calls'[p].chan = IF p \in some THEN "closed" ELSE calls[p].chan
  BY <1>2, <1>3, <1>4 DEF Same
<1>6. CallsType'
  BY <1>1, <1>5 DEF CallsInv, CallsType
<1>7. \A p \in some : ~WaitsAlone(p)'
  <2> SUFFICES ASSUME NEW p \in some, WaitsAlone(p)' PROVE FALSE
    OBVIOUS
  <2>1. p \in Calls /\ p # q /\ WaitsAlone(p) /\ calls[q].stage \in Waiting
    BY <1>1, <1>5 DEF WaitsAlone, Waiting, CallsInv, CallsType, Same
  <2>2. calls[p].key = KeyOf(q, client)
    BY <1>1 DEF At
  <2>3. TypeOf(calls[p].kind) = TypeOf(calls[q].kind)
    BY <2>1, <2>2 DEF KeyOf, TypeOf, CallsInv, BegunOnly
  <2>4. calls[p].kind \in CallKinds /\ calls[q].kind \in CallKinds
    BY <2>1 DEF CallsInv, BegunOnly, WaitsAlone, Waiting
  <2> QED
    BY <2>1, <2>3, <2>4, TypesDiffer DEF CallsInv, OnlyOne
<1>8. \A p \in Calls :
        /\ \/ calls'[p].stage = calls[p].stage
           \/ calls[p].stage \in Waiting /\ calls'[p].stage \in {"waiting", "ok", "error", "timeout"}
        /\ p \in pending' => p \in pending /\ calls'[p].chan = calls[p].chan
        /\ WaitsAlone(p)' /\ p \notin aged' => calls'[p].chan = calls[p].chan
        /\ calls'[p].stage = "ok" /\ calls[p].stage # "ok" /\ p \notin aged' => calls[p].chan \in {"closed", "filled"} \/ ~calls[p].alone
  BY <1>1, <1>5, <1>7
<1> QED
  BY <1>1, <1>5, <1>6, <1>8, CallsMove

LEMMA SendMessageKeeps ==
  ASSUME CallsInv, ServiceType, NEW q \in Calls, SendMessage(q)
  PROVE  CallsInv'
<1> DEFINE x == IF WaitsFor(calls[q].kind) THEN "waiting" ELSE "ok"
<1>1. /\ calls' = Ends(q, x) /\ UNCHANGED <<pending, aged>> /\ calls[q].stage = "asking" /\ client \in Clients
      /\ \A a \in asked' \ asked : a = [type |-> TypeOf(calls[q].kind), of |-> client, by |-> q]
  BY DEF SendMessage, WaitsFor, TypeOf, ServiceType
<1>2. x \in {"waiting", "ok"} /\ x \in Stages /\ (x = "ok" => ~calls[q].alone)
  BY <1>1 DEF CallsInv, BegunOnly, Stages
<1> HIDE DEF x
<1>3. /\ calls' \in [Calls -> CallRec]
      /\ \A p \in Calls : /\ Same(calls'[p], calls[p]) /\ calls'[p].chan = calls[p].chan
                          /\ calls'[p].stage = IF p = q THEN x ELSE calls[p].stage
  BY <1>1, <1>2, EndsEffect DEF CallsInv
<1>4. \A a \in asked' \ asked : a.type = TypeOf(calls[q].kind) /\ a.of \in Clients /\ a.by = q
  BY <1>1
<1>5. CallsType'
  BY <1>1, <1>3, <1>4 DEF CallsInv, CallsType
<1>6. \A p \in Calls :
        /\ \/ calls'[p].stage = calls[p].stage
           \/ calls[p].stage \in Waiting /\ calls'[p].stage \in {"waiting", "ok", "error", "timeout"}
        /\ p \in pending' => p \in pending /\ calls'[p].chan = calls[p].chan
        /\ WaitsAlone(p)' /\ p \notin aged' => calls'[p].chan = calls[p].chan
        /\ calls'[p].stage = "ok" /\ calls[p].stage # "ok" /\ p \notin aged' => calls[p].chan \in {"closed", "filled"} \/ ~calls[p].alone
  BY <1>1, <1>2, <1>3 DEF Waiting
<1>7. \A a \in asked' \ asked : \E o \in Calls : calls[o].stage \in Waiting /\ a.type = TypeOf(calls[o].kind) /\ a.by = o
  BY <1>1, <1>4 DEF Waiting
<1> QED
  BY <1>1, <1>3, <1>5, <1>6, <1>7, CallsMove

\* What leaves the calls where they are, or closes what is past its time.
LEMMA TimeKeeps ==
  ASSUME CallsInv, CleanupExpiredRequests \/ (\E q \in Calls : Ages(q)) \/ UNCHANGED <<calls, pending, aged, asked>>
  PROVE  CallsInv'
<1>1. PICK some \in SUBSET (pending \cap aged) :
        calls' = Closed(some) /\ pending' = pending \ some /\ aged \subseteq aged' /\ asked' = asked
  <2>1. CASE CleanupExpiredRequests
    BY <2>1 DEF CleanupExpiredRequests, Expired, Remaining
  <2>2. CASE (\E q \in Calls : Ages(q)) \/ UNCHANGED <<calls, pending, aged, asked>>
    <3>1. Closed({}) = calls
      BY DEF Closed, CallsInv, CallsType
    <3> QED
      BY <2>2, <3>1 DEF Ages
  <2> QED
    BY <2>1, <2>2
<1>2. aged' \subseteq Calls
  BY DEF CleanupExpiredRequests, Ages, CallsInv, CallsType
<1>3. CallsType /\ some \in SUBSET Calls
  BY DEF CallsInv, CallsType
<1>4. /\ calls' \in [Calls -> CallRec]
      /\ \A p \in Calls : /\ Same(calls'[p], calls[p]) /\ calls'[p].stage = calls[p].stage
                          /\ calls'[p].chan = IF p \in some THEN "closed" ELSE calls[p].chan
  BY <1>1, <1>3, ClosedEffect
<1>5. CallsType'
  BY <1>1, <1>2, <1>4 DEF CallsInv, CallsType
<1> QED
  BY <1>1, <1>4, <1>5, CallsMove

LEMMA RestartKeeps ==
  ASSUME CallsInv, Restart
  PROVE  CallsInv'
<1>1. pending' = {} /\ aged' = {} /\ asked' = {}
  BY DEF Restart
<1>2. \A p \in Calls : calls'[p] \in CallRec /\ calls'[p].stage \in {"none", "lost"} /\ ~calls'[p].alone
  <2>1. \A p \in Calls : calls'[p] = NoCall \/ calls'[p] = [NoCall EXCEPT !.stage = "lost"]
    BY DEF Restart
  <2>2. NoCall \in CallRec
    BY DEF NoCall, CallRec, Stages, WxKeys, Chans
  <2>3. /\ NoCall.stage = "none" /\ ~NoCall.alone /\ "lost" \in Stages
        /\ [NoCall EXCEPT !.stage = "lost"].stage = "lost" /\ ~[NoCall EXCEPT !.stage = "lost"].alone
    BY DEF NoCall, Stages
  <2>4. [NoCall EXCEPT !.stage = "lost"] \in CallRec
    BY <2>2, <2>3, NewStage
  <2> QED
    BY <2>1, <2>2, <2>3, <2>4
<1>3. calls' \in [Calls -> CallRec]
  BY <1>2 DEF Restart
<1>4. CallsType'
  BY <1>1, <1>3 DEF CallsType
<1> QED
  BY <1>1, <1>2, <1>4 DEF CallsInv, BegunOnly, PlaceIsOpen, OnlyOne, OwnQuestions, OwnAnswers, WaitsAlone, Idling, Waiting

LEMMA RequestArrivesKeeps ==
  ASSUME CallsInv, NEW q \in Calls, NEW kind \in CallKinds, NEW flaws, RequestArrives(q, kind, flaws)
  PROVE  CallsInv'
<1> DEFINE x == IF ~Passes(Handlers[kind], flaws) THEN "refused" ELSE IF WaitsFor(kind) THEN "registering" ELSE "asking"
<1>1. /\ calls' = [calls EXCEPT ![q].kind = kind, ![q].stage = x] /\ calls[q].stage = "none"
      /\ UNCHANGED <<pending, aged, asked>>
  BY DEF RequestArrives, WaitsFor
<1>2. x \in {"refused", "registering", "asking"} /\ (x = "registering" => WaitsFor(kind)) /\ (x = "asking" => ~WaitsFor(kind))
  OBVIOUS
<1> HIDE DEF x
<1>3. /\ calls' \in [Calls -> CallRec]
      /\ \A p \in Calls \ {q} : calls'[p] = calls[p]
      /\ calls'[q].kind = kind /\ calls'[q].stage = x /\ calls'[q].alone = calls[q].alone
  <2>1. calls' = [calls EXCEPT ![q] = [calls[q] EXCEPT !.kind = kind, !.stage = x]]
    BY <1>1 DEF CallsInv, CallsType
  <2>2. x \in Stages /\ calls[q] \in CallRec
    BY <1>2 DEF CallsInv, CallsType, Stages
  <2>3. [calls[q] EXCEPT !.kind = kind, !.stage = x] \in CallRec
    BY <2>2 DEF CallRec
  <2>4. /\ [calls[q] EXCEPT !.kind = kind, !.stage = x].kind = kind /\ [calls[q] EXCEPT !.kind = kind, !.stage = x].stage = x
        /\ [calls[q] EXCEPT !.kind = kind, !.stage = x].alone = calls[q].alone
    BY <2>2 DEF CallRec
  <2> QED
    BY <2>1, <2>3, <2>4 DEF CallsInv, CallsType
<1>4. ~calls[q].alone /\ q \notin pending
  BY <1>1 DEF CallsInv, BegunOnly, Idling
<1>5. CallsType'
  BY <1>1, <1>3 DEF CallsInv, CallsType
<1>6. BegunOnly'
  BY <1>1, <1>2, <1>3, <1>4 DEF CallsInv, BegunOnly, Idling, WaitsFor, TypeOf
<1>7. PlaceIsOpen'
  BY <1>1, <1>3, <1>4 DEF CallsInv, CallsType, PlaceIsOpen
<1>8. \A p \in Calls : WaitsAlone(p)' => p # q /\ WaitsAlone(p) /\ WaitsFor(calls[p].kind) /\ calls'[p] = calls[p]
  BY <1>3, <1>4 DEF WaitsAlone, CallsInv, BegunOnly
<1>9. OnlyOne'
  BY <1>2, <1>3, <1>8 DEF CallsInv, OnlyOne, Waiting
<1>10. OwnQuestions'
  BY <1>1, <1>8 DEF CallsInv, OwnQuestions, TypeOf
<1>11. OwnAnswers'
  BY <1>1, <1>3, <1>4, <1>8 DEF CallsInv, OwnAnswers
<1> QED
  BY <1>5, <1>6, <1>7, <1>9, <1>10, <1>11 DEF CallsInv

LEMMA ClientAnswersKeeps ==
  ASSUME CallsInv, NEW a \in asked, ClientAnswers(a)
  PROVE  CallsInv'
<1> DEFINE at == At(<<a.type, a.of>>)
<1>1. /\ pending' = pending \ at /\ UNCHANGED aged /\ asked' = asked \ {a}
      /\ calls' = [q \in Calls |-> IF q \notin at THEN calls[q]
                    ELSE IF q \in aged THEN [calls[q] EXCEPT !.chan = "closed"]
                    ELSE [calls[q] EXCEPT !.chan = "filled", !.got = a.by]]
  BY DEF ClientAnswers, HandleResponse
<1>2. at \subseteq pending /\ pending \subseteq Calls /\ a.by \in Calls /\ \A q \in at : calls[q].key = <<a.type, a.of>>
  BY DEF At, CallsInv, CallsType
<1> HIDE DEF at
<1>3. \A q \in Calls : calls[q] \in CallRec
  BY DEF CallsInv, CallsType
<1>4. ASSUME NEW q \in Calls
      PROVE  /\ calls'[q] \in CallRec
             /\ calls'[q].kind = calls[q].kind /\ calls'[q].key = calls[q].key /\ calls'[q].stage = calls[q].stage
             /\ calls'[q].alone = calls[q].alone
             /\ q \notin at => calls'[q] = calls[q]
             /\ q \in at /\ q \notin aged => calls'[q].chan = "filled" /\ calls'[q].got = a.by
             /\ q \in at /\ q \in aged => calls'[q].chan = "closed" /\ calls'[q].got = calls[q].got
  <2>1. CASE q \notin at
    BY <1>1, <1>3, <2>1
  <2>2. CASE q \in at /\ q \in aged
    <3>1. calls'[q] = [calls[q] EXCEPT !.chan = "closed"] /\ "closed" \in Chans
      BY <1>1, <2>2 DEF Chans
    <3>2. /\ [calls[q] EXCEPT !.chan = "closed"] \in CallRec /\ Same([calls[q] EXCEPT !.chan = "closed"], calls[q])
          /\ [calls[q] EXCEPT !.chan = "closed"].stage = calls[q].stage /\ [calls[q] EXCEPT !.chan = "closed"].chan = "closed"
      BY <1>3, <3>1, NewChan
    <3> QED
      BY <2>2, <3>1, <3>2 DEF Same
  <2>3. CASE q \in at /\ q \notin aged
    <3> DEFINE new == [calls[q] EXCEPT !.chan = "filled", !.got = a.by]
    <3>1. calls'[q] = new
      BY <1>1, <2>3
    <3>2. calls[q] \in CallRec /\ a.by \in Calls \cup {None}
      BY <1>2, <1>3
    <3>3. new \in CallRec
      BY <3>2 DEF CallRec, Chans
    <3>4. /\ new.kind = calls[q].kind /\ new.key = calls[q].key /\ new.stage = calls[q].stage
          /\ new.alone = calls[q].alone /\ new.chan = "filled" /\ new.got = a.by
      BY <3>2 DEF CallRec
    <3> HIDE DEF new
    <3> QED
      BY <2>3, <3>1, <3>3, <3>4
  <2> QED
    BY <2>1, <2>2, <2>3
<1>5. CallsType'
  <2>1. calls' \in [Calls -> CallRec]
    BY <1>1, <1>4
  <2> QED
    BY <1>1, <1>2, <2>1 DEF CallsInv, CallsType
<1>6. BegunOnly'
  <2> SUFFICES ASSUME NEW p \in Calls
               PROVE  /\ calls'[p].stage \notin {"none", "lost"} => calls'[p].kind \in CallKinds
                      /\ calls'[p].stage = "registering" \/ calls'[p].alone => WaitsFor(calls'[p].kind)
                      /\ calls'[p].stage \in Idling => ~calls'[p].alone /\ p \notin pending'
                      /\ p \in pending' => \E c \in Clients \cup {None} : calls'[p].key = <<TypeOf(calls'[p].kind), c>>
    BY DEF BegunOnly, Idling, WaitsFor, TypeOf
  <2>1. /\ calls'[p].kind = calls[p].kind /\ calls'[p].key = calls[p].key /\ calls'[p].stage = calls[p].stage
        /\ calls'[p].alone = calls[p].alone /\ (p \in pending' => p \in pending)
    BY <1>1, <1>4
  <2> QED
    BY <2>1 DEF CallsInv, BegunOnly
<1>7. PlaceIsOpen'
  <2>1. \A q \in pending' : q \in pending /\ calls'[q].chan = calls[q].chan /\ calls'[q].key = calls[q].key
    BY <1>1, <1>2, <1>4
  <2> QED
    BY <2>1 DEF CallsInv, PlaceIsOpen
<1>8. \A q \in Calls : WaitsAlone(q)' = WaitsAlone(q)
  BY <1>4 DEF WaitsAlone
<1>9. OnlyOne'
  BY <1>4, <1>8 DEF CallsInv, OnlyOne
<1>10. OwnQuestions'
  <2> SUFFICES ASSUME NEW q \in Calls, WaitsAlone(q)', NEW b \in asked', b.type = TypeOf(calls'[q].kind)
               PROVE  b.by = q
    BY DEF OwnQuestions, TypeOf
  <2>1. WaitsAlone(q) /\ b \in asked /\ b.type = TypeOf(calls[q].kind)
    BY <1>1, <1>4, <1>8
  <2> QED
    BY <2>1 DEF CallsInv, OwnQuestions
<1>11. OwnAnswers'
  <2> SUFFICES ASSUME NEW q \in Calls, q \notin aged'
               PROVE  /\ WaitsAlone(q)' => calls'[q].chan = "open" \/ (calls'[q].chan = "filled" /\ calls'[q].got = q)
                      /\ calls'[q].alone /\ calls'[q].stage = "ok" => calls'[q].got = q /\ q \notin pending'
    BY DEF OwnAnswers
  <2>4. WaitsAlone(q)' = WaitsAlone(q) /\ calls'[q].alone = calls[q].alone /\ calls'[q].stage = calls[q].stage /\ q \notin aged
    BY <1>1, <1>4, <1>8
  <2>1. CASE q \notin at
    BY <1>1, <1>4, <2>1, <2>4 DEF CallsInv, OwnAnswers
  <2>2. CASE q \in at
    <3>1. WaitsAlone(q) => a.by = q
      <4>1. calls[q].key[1] = a.type
        BY <1>2, <2>2
      <4>2. calls[q].key[1] = TypeOf(calls[q].kind)
        BY <1>2, <2>2 DEF CallsInv, BegunOnly
      <4> QED
        BY <4>1, <4>2 DEF CallsInv, OwnQuestions
    <3>2. calls'[q].chan = "filled" /\ calls'[q].got = a.by /\ q \notin pending'
      BY <1>1, <1>4, <2>2, <2>4
    <3>3. calls[q].alone /\ calls[q].stage = "ok" => FALSE
      BY <1>2, <2>2, <2>4 DEF CallsInv, OwnAnswers
    <3> QED
      BY <2>4, <3>1, <3>2, <3>3
  <2> QED
    BY <2>1, <2>2
<1> QED
  BY <1>5, <1>6, <1>7, <1>9, <1>10, <1>11 DEF CallsInv

\* A call takes its place in the table, from whoever has it.
LEMMA RegisterKeeps ==
  ASSUME CallsInv, ServiceType, NEW q \in Calls, RegisterRequest(q)
  PROVE  CallsInv'
<1> DEFINE key == KeyOf(q, client)
           at == At(key)
           own == [calls[q] EXCEPT !.stage = "asking", !.key = key, !.chan = "open", !.alone = Alone(q)]
           begun == [Closed(at) EXCEPT ![q].stage = "asking", ![q].key = key, ![q].chan = "open", ![q].alone = Alone(q)]
<1>0. \A p \in Calls : calls[p] \in CallRec
  BY DEF CallsInv, CallsType
<1>1. /\ calls[q].stage = "registering" /\ pending' = (pending \ at) \cup {q} /\ UNCHANGED <<aged, asked>>
      /\ calls' = [p \in Calls |-> IF p \in SameKind(q) THEN [begun[p] EXCEPT !.alone = FALSE] ELSE begun[p]]
  BY DEF RegisterRequest
<1>2. /\ at \subseteq pending /\ pending \subseteq Calls /\ q \notin pending /\ q \notin SameKind(q)
      /\ calls[q].kind \in CallKinds /\ WaitsFor(calls[q].kind)
  BY <1>1 DEF At, CallsInv, CallsType, BegunOnly, Idling, SameKind
<1>3. key = <<TypeOf(calls[q].kind), client>> /\ client \in Clients \cup {None} /\ key \in WxKeys
  BY <1>2 DEF KeyOf, TypeOf, ServiceType, WxKeys
<1>4. Alone(q) \in BOOLEAN
  BY DEF Alone
<1>5. /\ Closed(at) \in [Calls -> CallRec]
      /\ \A p \in Calls : /\ Same(Closed(at)[p], calls[p]) /\ Closed(at)[p].stage = calls[p].stage
                          /\ Closed(at)[p].chan = IF p \in at THEN "closed" ELSE calls[p].chan
  <2>1. CallsType /\ at \in SUBSET Calls
    BY <1>2 DEF CallsInv
  <2> QED
    BY <2>1, ClosedEffect
<1>6. Closed(at)[q] = calls[q]
  BY <1>2 DEF Closed
<1>7. begun = [Closed(at) EXCEPT ![q] = own]
  BY <1>5, <1>6
<1>8. /\ own \in CallRec /\ own.kind = calls[q].kind /\ own.stage = "asking" /\ own.key = key
      /\ own.chan = "open" /\ own.alone = Alone(q)
  <2>1. calls[q] \in CallRec /\ "asking" \in Stages /\ "open" \in Chans
    BY <1>0 DEF Stages, Chans
  <2> HIDE DEF key
  <2>2. own \in CallRec
    BY <1>3, <1>4, <2>1 DEF CallRec
  <2>3. /\ own.kind = calls[q].kind /\ own.stage = "asking" /\ own.key = key
        /\ own.chan = "open" /\ own.alone = Alone(q)
    BY <2>1 DEF CallRec
  <2> QED
    BY <2>2, <2>3
<1> HIDE DEF own, key, at, begun
<1>9. calls'[q] = own
  BY <1>1, <1>2, <1>5, <1>7
<1>10. ASSUME NEW p \in Calls, p # q
       PROVE  /\ calls'[p] \in CallRec
              /\ calls'[p].kind = calls[p].kind /\ calls'[p].key = calls[p].key /\ calls'[p].got = calls[p].got
              /\ calls'[p].stage = calls[p].stage
              /\ calls'[p].chan = IF p \in at THEN "closed" ELSE calls[p].chan
              /\ calls'[p].alone = IF p \in SameKind(q) THEN FALSE ELSE calls[p].alone
  <2>1. begun[p] = Closed(at)[p]
    BY <1>5, <1>7, <1>10
  <2>2. Closed(at)[p] \in CallRec /\ calls'[p] = IF p \in SameKind(q) THEN [Closed(at)[p] EXCEPT !.alone = FALSE] ELSE Closed(at)[p]
    BY <1>1, <1>5, <2>1
  <2>3. ASSUME NEW r \in CallRec
        PROVE  /\ [r EXCEPT !.alone = FALSE] \in CallRec /\ [r EXCEPT !.alone = FALSE].kind = r.kind
               /\ [r EXCEPT !.alone = FALSE].key = r.key /\ [r EXCEPT !.alone = FALSE].got = r.got
               /\ [r EXCEPT !.alone = FALSE].stage = r.stage /\ [r EXCEPT !.alone = FALSE].chan = r.chan
               /\ [r EXCEPT !.alone = FALSE].alone = FALSE
    BY DEF CallRec
  <2>4. /\ Closed(at)[p].kind = calls[p].kind /\ Closed(at)[p].key = calls[p].key /\ Closed(at)[p].got = calls[p].got
        /\ Closed(at)[p].alone = calls[p].alone /\ Closed(at)[p].stage = calls[p].stage
        /\ Closed(at)[p].chan = IF p \in at THEN "closed" ELSE calls[p].chan
    BY <1>5 DEF Same
  <2> QED
    BY <2>2, <2>3, <2>4
<1>11. CallsType'
  <2>1. calls' \in [Calls -> CallRec]
    BY <1>1, <1>8, <1>9, <1>10
  <2> QED
    BY <1>1, <1>2, <2>1 DEF CallsInv, CallsType
<1>12. BegunOnly'
  <2> SUFFICES ASSUME NEW p \in Calls
               PROVE  /\ calls'[p].stage \notin {"none", "lost"} => calls'[p].kind \in CallKinds
                      /\ calls'[p].stage = "registering" \/ calls'[p].alone => WaitsFor(calls'[p].kind)
                      /\ calls'[p].stage \in Idling => ~calls'[p].alone /\ p \notin pending'
                      /\ p \in pending' => \E c \in Clients \cup {None} : calls'[p].key = <<TypeOf(calls'[p].kind), c>>
    BY DEF BegunOnly, Idling, WaitsFor, TypeOf
  <2>1. CASE p = q
    BY <1>2, <1>3, <1>8, <1>9, <2>1 DEF Idling
  <2>2. CASE p # q
    BY <1>1, <1>10, <2>2, ZenonT(40) DEF CallsInv, BegunOnly
  <2> QED
    BY <2>1, <2>2
<1>13. PlaceIsOpen'
  <2>1. \A p \in pending \ at : p \in Calls /\ p # q /\ calls[p].key # key /\ calls'[p].chan = "open" /\ calls'[p].key = calls[p].key
    BY <1>2, <1>10 DEF CallsInv, PlaceIsOpen, At, at
  <2>2. calls'[q].chan = "open" /\ calls'[q].key = key
    BY <1>8, <1>9
  <2>3. pending' = (pending \ at) \cup {q}
    BY <1>1
  <2>4. \A p \in pending' : calls'[p].chan = "open"
    BY <2>1, <2>2, <2>3
  <2>5. ASSUME NEW p \in pending', NEW o \in pending', calls'[p].key = calls'[o].key
        PROVE  p = o
    <3>1. CASE p = q \/ o = q
      BY <2>1, <2>2, <2>3, <2>5, <3>1
    <3>2. CASE p # q /\ o # q
      <4>1. p \in pending /\ o \in pending /\ calls[p].key = calls[o].key
        BY <2>1, <2>3, <2>5, <3>2
      <4> QED
        BY <1>1, <4>1 DEF CallsInv, PlaceIsOpen
    <3> QED
      BY <3>1, <3>2
  <2> QED
    BY <2>4, <2>5 DEF PlaceIsOpen
\* Whoever is still alone wants something else than this call.
<1>14. ASSUME NEW p \in Calls, p # q, WaitsAlone(p)'
       PROVE  WaitsAlone(p) /\ calls[p].kind # calls[q].kind /\ p \notin at
  <2>1. WaitsAlone(p) /\ p \notin SameKind(q)
    BY <1>10, <1>14 DEF WaitsAlone
  <2>2. calls[p].kind # calls[q].kind
    BY <1>14, <2>1 DEF SameKind, WaitsAlone
  <2>3. calls[p].kind \in CallKinds
    BY <2>1 DEF WaitsAlone, Waiting, CallsInv, BegunOnly
  <2>4. p \in at => calls[p].key = key /\ \E c \in Clients \cup {None} : calls[p].key = <<TypeOf(calls[p].kind), c>>
    BY <1>2 DEF At, at, CallsInv, BegunOnly
  <2>5. p \in at => TypeOf(calls[p].kind) = TypeOf(calls[q].kind)
    BY <1>3, <2>4
  <2> QED
    BY <1>2, <2>1, <2>2, <2>3, <2>5, TypesDiffer
<1>15. WaitsAlone(q)' => Alone(q)
  BY <1>8, <1>9 DEF WaitsAlone
<1>16. OnlyOne'
  <2> SUFFICES ASSUME NEW o \in Calls, NEW p \in Calls, WaitsAlone(o)', p # o, calls'[p].stage \in Waiting,
                      calls'[p].kind = calls'[o].kind
               PROVE  FALSE
    BY DEF OnlyOne, Waiting
  <2>1. CASE o = q
    BY <1>8, <1>9, <1>10, <1>15, <2>1 DEF Alone, SameKind
  <2>2. CASE o # q /\ p = q
    BY <1>8, <1>9, <1>10, <1>14, <2>2
  <2>3. CASE o # q /\ p # q
    <3>1. WaitsAlone(o) /\ calls[p].stage \in Waiting /\ calls[p].kind = calls[o].kind
      BY <1>10, <1>14, <2>3
    <3> QED
      BY <3>1 DEF CallsInv, OnlyOne
  <2> QED
    BY <2>1, <2>2, <2>3
<1>17. OwnQuestions'
  <2> SUFFICES ASSUME NEW o \in Calls, WaitsAlone(o)', NEW a \in asked, a.type = TypeOf(calls'[o].kind)
               PROVE  a.by = o
    BY <1>1 DEF OwnQuestions, TypeOf
  <2>1. CASE o = q
    BY <1>8, <1>9, <1>15, <2>1 DEF Alone, TypeOf
  <2>2. CASE o # q
    BY <1>10, <1>14, <2>2, ZenonT(40) DEF CallsInv, OwnQuestions
  <2> QED
    BY <2>1, <2>2
<1>18. OwnAnswers'
  <2> SUFFICES ASSUME NEW o \in Calls, o \notin aged
               PROVE  /\ WaitsAlone(o)' => calls'[o].chan = "open" \/ (calls'[o].chan = "filled" /\ calls'[o].got = o)
                      /\ calls'[o].alone /\ calls'[o].stage = "ok" => calls'[o].got = o /\ o \notin pending'
    BY <1>1 DEF OwnAnswers
  <2>1. CASE o = q
    BY <1>8, <1>9, <2>1
  <2>2. CASE o # q
    <3>1. WaitsAlone(o)' => WaitsAlone(o) /\ calls'[o].chan = calls[o].chan /\ calls'[o].got = calls[o].got
      BY <1>10, <1>14, <2>2
    <3>2. calls'[o].alone /\ calls'[o].stage = "ok" => calls[o].alone /\ calls[o].stage = "ok" /\ calls'[o].got = calls[o].got
      BY <1>10, <2>2
    <3>3. o \notin pending => o \notin pending'
      BY <1>1, <2>2
    <3> QED
      BY <3>1, <3>2, <3>3 DEF CallsInv, OwnAnswers
  <2> QED
    BY <2>1, <2>2
<1> QED
  BY <1>11, <1>12, <1>13, <1>16, <1>17, <1>18 DEF CallsInv

-------------------------------------------------------------------------------
\* The configuration, and the service.
Hosts == {"", "here"}
LEMMA ConfigIs ==
  Config = [host : Hosts, port : {0, 5000}, auth : BOOLEAN, log_recv_callback : 0..2, callback_urls : SUBSET Urls]
BY DEF Config, Hosts

LEMMA UrlsOfConfig ==
  ASSUME NEW c \in Config
  PROVE  c.callback_urls \in SUBSET Urls
BY ConfigIs

LEMMA DefaultIsValid ==
  ASSUME NEW c \in {getDefaultConfig, [getDefaultConfig EXCEPT !.callback_urls = Urls]}
  PROVE  c \in Config /\ validateConfig(c) /\ c.callback_urls \in SUBSET Urls
<1>1. "here" \in Hosts
  BY DEF Hosts
<1>2. getDefaultConfig \in Config
  BY <1>1, ConfigIs DEF getDefaultConfig
<1>3. c \in Config /\ c.host = "here" /\ c.port = 5000 /\ c.log_recv_callback = 0
  <2>1. getDefaultConfig.host = "here" /\ getDefaultConfig.port = 5000 /\ getDefaultConfig.log_recv_callback = 0
    BY DEF getDefaultConfig
  <2>2. CASE c = getDefaultConfig
    BY <1>2, <2>1, <2>2
  <2>3. CASE c = [getDefaultConfig EXCEPT !.callback_urls = Urls]
    BY <1>2, <2>1, <2>3, ConfigIs
  <2> QED
    BY <2>2, <2>3
<1>4. c.host # ""
  BY <1>3
<1> QED
  BY <1>3, <1>4, UrlsOfConfig DEF validateConfig

EditorRec == [stage : {"none", "changed", "read", "ended"}, urls : SUBSET Urls]

LEMMA LoadKeeps == ConfigTypeOK /\ Load => ConfigTypeOK'
<1> SUFFICES ASSUME ConfigTypeOK, Load PROVE ConfigTypeOK'
  OBVIOUS
<1>1. [stage |-> "ended", urls |-> {}] \in EditorRec
  BY DEF EditorRec
<1>2. editors' \in [Editors -> EditorRec]
  BY <1>1 DEF ConfigTypeOK, Load, EditorRec
<1>3. cfg' \in Config /\ file' \in {c \in Config : validateConfig(c)}
  BY DEF ConfigTypeOK, Load
<1>4. urls' \subseteq Urls /\ posts' = {}
  BY UrlsOfConfig DEF ConfigTypeOK, Load
<1> QED
  BY <1>2, <1>3, <1>4 DEF ConfigTypeOK, EditorRec

LEMMA ConfigKeeps == ConfigTypeOK /\ [ConfigNext]_cfgVars => ConfigTypeOK'
<1> SUFFICES ASSUME ConfigTypeOK, [ConfigNext]_cfgVars PROVE ConfigTypeOK'
  OBVIOUS
<1>0. /\ cfg \in Config /\ file \in {c \in Config : validateConfig(c)} /\ urls \subseteq Urls /\ posts \subseteq Urls
      /\ editors \in [Editors -> EditorRec]
  BY DEF ConfigTypeOK, EditorRec
<1>1. ASSUME NEW e \in Editors, Begins(e) \/ Rejected(e) PROVE editors' \in [Editors -> EditorRec]
  <2>1. editors[e] \in EditorRec
    BY <1>0
  <2>2. [editors[e] EXCEPT !.stage = "changed"] \in EditorRec /\ [editors[e] EXCEPT !.stage = "ended"] \in EditorRec
    BY <2>1 DEF EditorRec
  <2>3. \E r \in EditorRec : editors' = [editors EXCEPT ![e] = r]
    BY <1>1, <2>2 DEF Begins, Rejected
  <2> QED
    BY <1>0, <2>3
<1>2. ASSUME cfg' \in Config, file' \in {c \in Config : validateConfig(c)}, urls' \subseteq Urls, posts' \subseteq Urls,
             editors' \in [Editors -> EditorRec]
      PROVE  ConfigTypeOK'
  BY <1>2 DEF ConfigTypeOK, EditorRec
<1>3. CASE UNCHANGED cfgVars
  BY <1>0, <1>2, <1>3 DEF cfgVars
<1>4. ASSUME NEW e \in Editors, NEW new \in Config, UpdateConfig(e, new) \/ UpdateConfigItem(e, new)
      PROVE  ConfigTypeOK'
  <2>1. editors' \in [Editors -> EditorRec]
    BY <1>1, <1>4 DEF UpdateConfig, UpdateConfigItem
  <2> QED
    BY <1>0, <1>2, <1>4, <2>1 DEF UpdateConfig, UpdateConfigItem, Saved
<1>5. ASSUME NEW e \in Editors, ItemRejected(e) \/ DeleteConfig(e) PROVE ConfigTypeOK'
  BY <1>0, <1>1, <1>2, <1>5, DefaultIsValid DEF ItemRejected, DeleteConfig
<1>6. ASSUME NEW e \in Editors, GetConfig(e) \/ SetCallbackURLs(e) PROVE ConfigTypeOK'
  <2>1. cfg.callback_urls \subseteq Urls /\ editors[e].urls \subseteq Urls
    BY <1>0, UrlsOfConfig DEF EditorRec
  <2>2. [stage |-> "read", urls |-> cfg.callback_urls] \in EditorRec /\ [stage |-> "ended", urls |-> {}] \in EditorRec
    BY <2>1 DEF EditorRec
  <2>3. editors' \in [Editors -> EditorRec]
    BY <1>0, <1>6, <2>2 DEF GetConfig, SetCallbackURLs
  <2> QED
    BY <1>0, <1>2, <1>6, <2>1, <2>3 DEF GetConfig, SetCallbackURLs
<1>7. CASE (\E u \in Urls : PostEnds(u)) \/ sendToCallbacks
  BY <1>0, <1>2, <1>7 DEF PostEnds, sendToCallbacks
<1>8. CASE ConfigRestart
  BY <1>8, LoadKeeps DEF ConfigRestart
<1> QED
  BY <1>3, <1>4, <1>5, <1>6, <1>7, <1>8 DEF ConfigNext

LEMMA ServiceKeeps ==
  ASSUME ServiceType, ServiceStep \/ Restart \/ UNCHANGED <<service, client, connected>>
  PROVE  ServiceType'
<1> DEFINE Phase == {"off", "injecting", "looping", "reconnecting", "failed", "stopped"}
           S == [running : BOOLEAN, cleanup : BOOLEAN, loaded : BOOLEAN, phase : Phase]
<1>1. service \in S
  BY DEF ServiceType
<1>2. \A x \in Phase : [service EXCEPT !.phase = x] \in S
  BY <1>1
<1>3. Off \in S /\ Stopped \in S
  BY <1>1 DEF Off, Stopped
<1>4. /\ [service EXCEPT !.phase = "injecting", !.running = TRUE, !.loaded = TRUE] \in S
      /\ [service EXCEPT !.phase = "looping", !.cleanup = TRUE] \in S
  BY <1>1
<1>5. service' = service \/ service' \in {Off, Stopped} \/ (\E x \in Phase : service' = [service EXCEPT !.phase = x])
      \/ service' = [service EXCEPT !.phase = "injecting", !.running = TRUE, !.loaded = TRUE]
      \/ service' = [service EXCEPT !.phase = "looping", !.cleanup = TRUE]
  BY DEF ServiceStep, Restart, InitializeFails, Initialize, InjectFails, HeartbeatStale, CleanupExpiredRequests,
     Injected, Reconnects, OnConnect, OnClose, ClientAnswers
<1> HIDE DEF S
<1>6. service' \in S
  BY <1>1, <1>2, <1>3, <1>4, <1>5
<1>7. client' \in Clients \cup {None} /\ connected' \subseteq Clients
  BY DEF ServiceType, ServiceStep, Restart, InitializeFails, Initialize, InjectFails, HeartbeatStale, CleanupExpiredRequests,
     Injected, Reconnects, OnConnect, OnClose, ClientAnswers
<1> QED
  BY <1>6, <1>7 DEF ServiceType, S

LEMMA WxInitially == WxInit => WxInv
<1> SUFFICES ASSUME WxInit PROVE WxInv
  OBVIOUS
<1>1. NoCall \in CallRec /\ NoCall.stage = "none" /\ ~NoCall.alone
  BY DEF NoCall, CallRec, Stages, WxKeys, Chans
<1>2. CallsType
  BY <1>1 DEF WxInit, CallsType
<1>3. CallsInv
  BY <1>1, <1>2 DEF WxInit, CallsInv, BegunOnly, PlaceIsOpen, OnlyOne, OwnQuestions, OwnAnswers, WaitsAlone, Waiting
<1>4. ServiceType
  BY DEF WxInit, ServiceType, Off
<1>5. editors \in [Editors -> EditorRec]
  BY DEF WxInit, ConfigInit, EditorRec
<1>7. file.callback_urls \subseteq Urls
  BY DefaultIsValid DEF WxInit, ConfigInit
<1>6. ConfigTypeOK
  BY <1>5, <1>7, DefaultIsValid DEF WxInit, ConfigInit, ConfigTypeOK, EditorRec
<1> QED
  BY <1>3, <1>4, <1>6 DEF WxInv

LEMMA WxStep == WxInv /\ [WxNext]_<<wxVars, cfgVars>> => WxInv'
<1> SUFFICES ASSUME WxInv, [WxNext]_<<wxVars, cfgVars>> PROVE WxInv'
  OBVIOUS
<1>0. CallsInv /\ ServiceType /\ ConfigTypeOK
  BY DEF WxInv
<1>1. CASE UNCHANGED <<wxVars, cfgVars>> \/ (ConfigNext /\ UNCHANGED wxVars)
  <2>1. UNCHANGED <<calls, pending, aged, asked>> /\ UNCHANGED <<service, client, connected>> /\ [ConfigNext]_cfgVars
    BY <1>1 DEF wxVars, cfgVars
  <2> QED
    BY <1>0, <2>1, TimeKeeps, ServiceKeeps, ConfigKeeps DEF WxInv
<1>2. ASSUME [ConfigNext]_cfgVars \/ Load, ServiceType', CallsInv' PROVE WxInv'
  BY <1>0, <1>2, ConfigKeeps, LoadKeeps DEF WxInv
<1>3. CASE ServiceStep
  <2>1. ServiceType' /\ UNCHANGED cfgVars
    BY <1>0, <1>3, ServiceKeeps DEF ServiceStep, InitializeFails, Initialize, InjectFails, HeartbeatStale,
       CleanupExpiredRequests, Injected, Reconnects, OnConnect, OnClose, ClientAnswers, Keep, cfgVars
  <2>2. CleanupExpiredRequests \/ (\E a \in asked : ClientAnswers(a)) \/ UNCHANGED <<calls, pending, aged, asked>>
    BY <1>3 DEF ServiceStep, InitializeFails, Initialize, InjectFails, HeartbeatStale,
       Injected, Reconnects, OnConnect, OnClose, Keep, askVars
  <2>3. CallsInv'
    BY <1>0, <2>2, TimeKeeps, ClientAnswersKeeps
  <2> QED
    BY <1>2, <2>1, <2>3
<1>4. CASE Restart
  BY <1>0, <1>2, <1>4, ServiceKeeps, RestartKeeps DEF Restart
<1>5. ASSUME NEW q \in Calls, CallStep(q) \/ UploadFails(q) \/ Ages(q) PROVE WxInv'
  <2>1. UNCHANGED <<service, client, connected>> /\ UNCHANGED cfgVars
    BY <1>5 DEF CallStep, RegisterRequest, SendMessage, SendFails, WaitForResponse, WaitTimesOut, UploadFails, Ages, cfgVars
  <2>2. CallsInv'
    BY <1>0, <1>5, RegisterKeeps, SendMessageKeeps, EndingKeeps, TimeKeeps DEF CallStep
  <2> QED
    BY <1>0, <1>2, <2>1, <2>2, ServiceKeeps
<1>6. ASSUME NEW q \in Calls, NEW kind \in CallKinds, NEW flaw \in Flaws \cup {"none"}, RequestArrives(q, kind, {flaw})
      PROVE  WxInv'
  <2>1. UNCHANGED <<service, client, connected>> /\ UNCHANGED cfgVars
    BY <1>6 DEF RequestArrives, cfgVars
  <2>2. CallsInv'
    BY <1>0, <1>6, RequestArrivesKeeps
  <2> QED
    BY <1>0, <1>2, <2>1, <2>2, ServiceKeeps
<1> QED
  BY <1>1, <1>3, <1>4, <1>5, <1>6 DEF WxNext, WxCallNext

LEMMA WxSound == WxInv => WxTypeOK /\ CallsServed
<1> SUFFICES ASSUME WxInv PROVE WxTypeOK /\ CallsServed
  OBVIOUS
<1>1. \A q \in Calls : calls[q].stage \in Stages /\ calls[q].chan \in Chans /\ calls[q].got \in Calls \cup {None}
  BY DEF WxInv, CallsInv, CallsType, CallRec
<1>2. WxTypeOK
  BY <1>1 DEF WxInv, CallsInv, CallsType, ServiceType, WxTypeOK, Chans
<1>3. PlaceIsOpen /\ AloneIsServed
  BY DEF WxInv, CallsInv, OwnAnswers, AloneIsServed
<1> QED
  BY <1>2, <1>3 DEF CallsServed

\* Whatever waits in the bot's response table is closed or filled once, and a call
\* that had its question to itself is answered with what it asked for or not at
\* all, for any calls, clients and configurations.
THEOREM WxCallsServed == WxSpec => []CallsServed
BY WxInitially, WxStep, WxSound, PTL DEF WxSpec

-------------------------------------------------------------------------------
(***************************************************************************)
(* The home page (HomeStatus)                                              *)
(***************************************************************************)
Process == {"new", "up", "hung", "stopping", "gone"}
Status == {"starting", "running", "degraded", "failed", "timeout", "stopping"}
Workings == [proc : Process, done : BOOLEAN, erred : BOOLEAN, status : Status,
             watch : 0..TimeoutPending, timer : BOOLEAN, recent : 0..MaxRecent]

Lives(r) == r.proc \in {"up", "hung"}
Restarting(r) == r.timer \/ r.proc = "stopping"

\* The newest message of all is as new as that of a worker that is watched.
FeedsLamp(r, age) == Lives(r) /\ r.watch <= heartbeatTimeoutMs => age <= r.watch

\* A worker that is silent for too long is restarted, or was given up; and then
\* it is shown as such, or has complained since.
SilenceSeen(r) ==
  r.watch > heartbeatTimeoutMs =>
    /\ Restarting(r) \/ r.recent >= MaxRecent
    /\ Restarting(r) \/ r.erred \/ r.status \in {"timeout", "failed"}

\* What a status says of a worker.
StatusTells(r) ==
  /\ r.status = "timeout" => r.timer
  /\ r.status = "failed" => r.recent >= MaxRecent \/ ~r.done
  /\ r.status = "degraded" => r.erred \/ r.timer \/ ~r.done
  /\ r.status = "starting" => ~r.done
  /\ r.status = "stopping" => r.proc \in {"stopping", "gone"}

NewIsWatched(r) == r.proc = "new" => r.watch <= heartbeatTimeoutMs

Sound(r, age) ==
  /\ r \in Workings
  /\ FeedsLamp(r, age) /\ SilenceSeen(r) /\ StatusTells(r) /\ NewIsWatched(r)

\* The listener is at work exactly when it said so last; a core worker that
\* lives, the callback worker and the listener apart, has begun.
ListenerTells ==
  /\ wk["listener"].done => qianfanReady /\ listenerReady
  /\ Lives(wk["listener"]) /\ listenerReady => wk["listener"].done
OthersBegan == \A w \in {"notifier", "other"} : Lives(wk[w]) => wk[w].done
ServesPort == Lives(wk["callback"]) /\ businessReady => port = "callback"

HomeInv ==
  /\ HomeTypeOK
  /\ wk \in [HomeWorker -> Workings]
  /\ \A w \in HomeWorker : Sound(wk[w], feed)
  /\ ListenerTells /\ OthersBegan /\ ServesPort

RestTyped ==
  /\ feed \in 0..Never
  /\ relay \in {"starting", "running", "degraded"}
  /\ boot \in {"none", "probe", "waitReused", "wait", "serve", "fail", "listening", "retry"}

LEMMA HomeConstants ==
  /\ heartbeatTimeoutMs \in Nat /\ MaxRecent \in Nat /\ MaxSilence \in Nat
  /\ WATCHDOG_WARN_MS \in Nat /\ WATCHDOG_NORMAL_MS \in Nat
  /\ heartbeatTimeoutMs < MaxSilence /\ heartbeatTimeoutMs <= WATCHDOG_WARN_MS
  /\ WATCHDOG_WARN_MS < MaxSilence
  /\ Never = MaxSilence + 1
  /\ Unwatched = heartbeatTimeoutMs + 2 /\ TimeoutPending = heartbeatTimeoutMs + 3
BY HomeAssumption DEF Never, Unwatched, TimeoutPending

LEMMA HomeParts ==
  HomeInv <=> /\ RestTyped /\ wk \in [HomeWorker -> Workings]
              /\ \A w \in HomeWorker : Sound(wk[w], feed)
              /\ ListenerTells /\ OthersBegan /\ ServesPort
BY DEF HomeInv, HomeTypeOK, RestTyped, Workings, Process, Status

LEMMA HomePartsNext ==
  ASSUME RestTyped', (wk \in [HomeWorker -> Workings])',
         (\A w \in HomeWorker : Sound(wk[w], feed))',
         ListenerTells', OthersBegan', ServesPort'
  PROVE  HomeInv'
BY DEF HomeInv, HomeTypeOK, RestTyped, Workings, Process, Status

\* A worker changes, and the newest message is not older than it was.
LEMMA OneChanges ==
  ASSUME HomeInv, NEW w \in HomeWorker, NEW r \in Workings,
         wk' = [wk EXCEPT ![w] = r], feed' \in Nat, feed' <= feed, Sound(r, feed')
  PROVE  /\ wk' \in [HomeWorker -> Workings]
         /\ \A v \in HomeWorker : Sound(wk'[v], feed')
         /\ wk'[w] = r /\ \A v \in HomeWorker \ {w} : wk'[v] = wk[v]
<1>1. wk \in [HomeWorker -> Workings] /\ (\A v \in HomeWorker : Sound(wk[v], feed)) /\ feed \in Nat
  BY HomeParts, HomeConstants DEF RestTyped
<1>2. wk'[w] = r /\ \A v \in HomeWorker \ {w} : wk'[v] = wk[v]
  BY <1>1
<1>3. ASSUME NEW v \in HomeWorker \ {w} PROVE Sound(wk[v], feed')
  <2>1. Sound(wk[v], feed) /\ wk[v] \in Workings
    BY <1>1
  <2>2. wk[v].watch \in Nat
    BY <2>1, HomeConstants DEF Workings
  <2> QED
    BY <2>1, <2>2, <1>1, HomeConstants DEF Sound, FeedsLamp
<1> QED
  BY <1>1, <1>2, <1>3

LEMMA NoneChanges ==
  ASSUME HomeInv, wk' = wk, feed' = feed
  PROVE  /\ wk' \in [HomeWorker -> Workings]
         /\ \A v \in HomeWorker : Sound(wk'[v], feed')
BY HomeParts

LEMMA WorkersNamed ==
  /\ {"listener", "callback", "notifier", "other"} = HomeWorker
  /\ {"running", "starting", "degraded", "failed"} \subseteq Status
  /\ "up" \in Process
BY DEF HomeWorker, Core, Status, Process

LEMMA TickedUp ==
  ASSUME HomeInv, NEW w \in HomeWorker, wk[w].proc = "up"
  PROVE  LET q == [wk[w] EXCEPT !.status = HeartbeatStatus(w), !.watch = 0]
         IN q \in Workings /\ Sound(q, 0) /\ q.done = wk[w].done
<1> DEFINE r == wk[w]
           s == HeartbeatStatus(w)
           q == [r EXCEPT !.status = s, !.watch = 0]
<1>1. r \in Workings /\ StatusTells(r) /\ r.status \in Status /\ ListenerTells
  BY HomeParts DEF Sound, Workings
<1>2. /\ s \in Status
      /\ \/ s = r.status \/ s = "running"
         \/ s = "degraded" /\ w = "listener" /\ ~Ready
  BY <1>1 DEF HeartbeatStatus, Is, Status
<1>3. s = "degraded" => s = r.status \/ ~r.done
  BY <1>1, <1>2 DEF ListenerTells, Ready
<1> HIDE DEF r, s
<1>4. q \in Workings
  <2>1. 0 \in 0..TimeoutPending
    BY HomeConstants
  <2> QED
    BY <1>1, <1>2, <2>1 DEF Workings
<1>5. /\ q.proc = r.proc /\ q.done = r.done /\ q.erred = r.erred /\ q.status = s
      /\ q.watch = 0 /\ q.timer = r.timer /\ q.recent = r.recent
  BY <1>1 DEF Workings
<1>6. r.proc = "up"
  BY DEF r
<1> HIDE DEF q
<1>7. FeedsLamp(q, 0) /\ SilenceSeen(q) /\ NewIsWatched(q)
  BY <1>5, HomeConstants DEF FeedsLamp, SilenceSeen, NewIsWatched
<1>8. StatusTells(q)
  BY <1>1, <1>2, <1>3, <1>5, <1>6 DEF StatusTells
<1> QED
  BY <1>4, <1>5, <1>7, <1>8 DEF Sound, q, r, s

LEMMA TickedDown ==
  ASSUME HomeInv, NEW w \in HomeWorker, wk[w].proc \in {"hung", "gone"}
  PROVE  LET q == Checked([wk[w] EXCEPT
                             !.watch = IF @ > heartbeatTimeoutMs THEN @ ELSE @ + 1])
         IN q \in Workings /\ Sound(q, Older(feed)) /\ q.done = wk[w].done /\ q.proc = wk[w].proc
<1> DEFINE r == wk[w]
           age == IF r.watch > heartbeatTimeoutMs THEN r.watch ELSE r.watch + 1
           x == [r EXCEPT !.watch = age]
           q == Checked(x)
<1>1. /\ r \in Workings /\ Sound(r, feed) /\ feed \in Nat
      /\ r.watch \in Nat /\ r.watch <= TimeoutPending /\ r.proc \in {"hung", "gone"}
  BY HomeParts, HomeConstants DEF RestTyped, Workings
<1>2. age \in 0..TimeoutPending
  BY <1>1, HomeConstants
<1>3. x = [wk[w] EXCEPT !.watch = IF @ > heartbeatTimeoutMs THEN @ ELSE @ + 1]
  BY <1>1 DEF Workings
<1> HIDE DEF r, age
<1>4. /\ x \in Workings
      /\ x.proc = r.proc /\ x.done = r.done /\ x.erred = r.erred /\ x.status = r.status
      /\ x.watch = age /\ x.timer = r.timer /\ x.recent = r.recent
  BY <1>1, <1>2 DEF Workings
<1> HIDE DEF x
<1> DEFINE y == [x EXCEPT !.watch = TimeoutPending, !.status = "timeout", !.timer = TRUE]
<1>5. /\ y \in Workings
      /\ y.proc = r.proc /\ y.done = r.done /\ y.status = "timeout" /\ y.timer = TRUE
      /\ y.watch = TimeoutPending
  <2>1. TimeoutPending \in 0..TimeoutPending /\ "timeout" \in Status
    BY HomeConstants DEF Status
  <2> QED
    BY <1>4, <2>1 DEF Workings
<1> HIDE DEF y
<1>6. CASE Overdue(x) /\ x.watch \notin {Unwatched, TimeoutPending}
  <2>1. q = y
    BY <1>6 DEF Checked, y
  <2>2. FeedsLamp(y, Older(feed)) /\ NewIsWatched(y)
    BY <1>1, <1>5, HomeConstants DEF FeedsLamp, NewIsWatched
  <2>3. SilenceSeen(y) /\ StatusTells(y)
    BY <1>5 DEF SilenceSeen, StatusTells, Restarting
  <2> QED
    BY <2>1, <2>2, <2>3, <1>3, <1>5 DEF Sound, r
<1>7. CASE ~(Overdue(x) /\ x.watch \notin {Unwatched, TimeoutPending})
  <2>1. q = x
    BY <1>7 DEF Checked
  <2>2. age > heartbeatTimeoutMs => age = r.watch
    BY <1>1, <1>4, <1>7, HomeConstants DEF Overdue, age
  <2>3. FeedsLamp(x, Older(feed))
    <3>1. Older(feed) <= feed + 1
      BY <1>1 DEF Older
    <3>2. Older(feed) \in Nat /\ age \in Nat
      BY <1>1, HomeConstants DEF Older, age
    <3>3. FeedsLamp(r, feed) /\ (age <= heartbeatTimeoutMs => r.watch <= heartbeatTimeoutMs /\ age = r.watch + 1)
      BY <1>1, HomeConstants DEF Sound, age
    <3> QED
      BY <1>1, <1>4, <3>1, <3>2, <3>3 DEF FeedsLamp, Lives
  <2>4. NewIsWatched(x)
    BY <1>1, <1>4 DEF NewIsWatched
  <2>5. SilenceSeen(x) /\ StatusTells(x)
    <3>1. SilenceSeen(r) /\ StatusTells(r)
      BY <1>1 DEF Sound
    <3> QED
      BY <3>1, <1>4, <2>2 DEF SilenceSeen, StatusTells, Restarting
  <2> QED
    BY <2>1, <2>3, <2>4, <2>5, <1>3, <1>4 DEF Sound, r
<1> QED
  BY <1>6, <1>7

LEMMA TickKeeps == HomeInv /\ Tick => HomeInv'
<1> SUFFICES ASSUME HomeInv, Tick PROVE HomeInv'
  OBVIOUS
<1>1. /\ wk \in [HomeWorker -> Workings] /\ RestTyped /\ feed \in Nat
      /\ ListenerTells /\ OthersBegan /\ ServesPort
  BY HomeParts, HomeConstants DEF RestTyped
<1>2. \A w \in HomeWorker : wk[w].proc = "up" \/ wk[w].proc \in {"hung", "gone"}
  BY <1>1 DEF Tick, Workings, Process
<1>3. feed' \in 0..Never /\ feed' <= Older(feed) /\ Older(feed) \in Nat /\ feed' \in Nat
  <2>1. feed' = 0 \/ feed' = Older(feed)
    BY DEF Tick
  <2>2. feed \in 0..Never
    BY <1>1 DEF RestTyped
  <2>3. Older(feed) \in 0..Never
    BY <2>2, HomeConstants DEF Older
  <2> QED
    BY <2>1, <2>3, HomeConstants
<1>4. ASSUME NEW w \in HomeWorker
      PROVE  wk'[w] \in Workings /\ Sound(wk'[w], feed') /\ wk'[w].done = wk[w].done
             /\ (Lives(wk'[w]) => Lives(wk[w]))
  <2>1. CASE wk[w].proc = "up"
    <3>1. wk'[w] = [wk[w] EXCEPT !.status = HeartbeatStatus(w), !.watch = 0]
      BY <2>1 DEF Tick
    <3>2. wk'[w] \in Workings /\ Sound(wk'[w], 0) /\ wk'[w].done = wk[w].done
      BY <2>1, <3>1, TickedUp
    <3>3. feed' = 0
      BY <2>1 DEF Tick
    <3> QED
      BY <3>2, <3>3, <2>1 DEF Lives
  <2>2. CASE wk[w].proc \in {"hung", "gone"}
    <3>1. wk'[w] = Checked([wk[w] EXCEPT !.watch = IF @ > heartbeatTimeoutMs THEN @ ELSE @ + 1])
      BY <2>2 DEF Tick
    <3>2. /\ wk'[w] \in Workings /\ Sound(wk'[w], Older(feed)) /\ wk'[w].done = wk[w].done
          /\ wk'[w].proc = wk[w].proc
      BY <2>2, <3>1, TickedDown
    <3>3. wk'[w].watch \in Nat
      BY <3>2, HomeConstants DEF Workings
    <3>4. Sound(wk'[w], feed')
      BY <3>2, <3>3, <1>3, HomeConstants DEF Sound, FeedsLamp
    <3> QED
      BY <3>2, <3>4 DEF Lives
  <2> QED
    BY <1>2, <2>1, <2>2
<1>5. wk' \in [HomeWorker -> Workings] /\ \A w \in HomeWorker : Sound(wk'[w], feed')
  <2>1. wk' = [w \in HomeWorker |-> wk'[w]]
    BY DEF Tick
  <2> QED
    BY <2>1, <1>4
<1>6. UNCHANGED <<listenerVars, relay, accounts, wechatVars, homeEvents>>
  BY DEF Tick
<1>7. RestTyped'
  BY <1>1, <1>3, <1>6 DEF RestTyped, wechatVars
<1>8. ListenerTells' /\ OthersBegan' /\ ServesPort'
  <2>1. {"listener", "notifier", "other", "callback"} \subseteq HomeWorker
    BY DEF HomeWorker, Core
  <2>2. \A w \in HomeWorker : wk'[w].done = wk[w].done /\ (Lives(wk'[w]) => Lives(wk[w]))
    BY <1>4
  <2>3. UNCHANGED <<qianfanReady, listenerReady, businessReady, port>>
    BY <1>6 DEF listenerVars, wechatVars
  <2>4. /\ wk'["listener"].done = wk["listener"].done
        /\ Lives(wk'["listener"]) => Lives(wk["listener"])
        /\ Lives(wk'["callback"]) => Lives(wk["callback"])
    BY <2>1, <2>2
  <2>5. ListenerTells'
    BY <1>1, <2>3, <2>4 DEF ListenerTells, Lives
  <2>6. OthersBegan'
    BY <1>1, <2>1, <2>2 DEF OthersBegan, Lives
  <2>7. ServesPort'
    BY <1>1, <2>3, <2>4 DEF ServesPort, Lives
  <2> QED
    BY <2>5, <2>6, <2>7
<1> QED
  BY <1>5, <1>7, <1>8, HomePartsNext


\* A worker whose process lives reports.
LEMMA ReportsKeeps ==
  ASSUME HomeInv, NEW w \in HomeWorker, NEW s \in {"running", "starting", "degraded", "failed"},
         Reports(w, s, [wk[w] EXCEPT !.proc = "up"])
  PROVE  /\ wk' \in [HomeWorker -> Workings] /\ \A v \in HomeWorker : Sound(wk'[v], feed')
         /\ wk'[w].done = (s = "running") /\ \A v \in HomeWorker \ {w} : wk'[v] = wk[v]
         /\ feed' = 0 /\ feed' \in 0..Never
<1> DEFINE d == s = "running"
           r == [wk[w] EXCEPT !.proc = "up"]
           q == [r EXCEPT !.status = s, !.watch = 0, !.erred = FALSE, !.done = d]
<1>1. /\ wk[w] \in Workings /\ feed \in Nat /\ s \in Status /\ d \in BOOLEAN
      /\ wk' = [wk EXCEPT ![w] = q] /\ feed' = 0
  BY HomeParts, HomeConstants, WorkersNamed DEF RestTyped, Reports
<1>2. r \in Workings /\ r.proc = "up"
  BY <1>1, WorkersNamed DEF Workings
<1> HIDE DEF d, r
<1>3. q \in Workings
  <2>1. 0 \in 0..TimeoutPending
    BY HomeConstants
  <2> QED
    BY <2>1, <1>1, <1>2 DEF Workings
<1>4. /\ q.proc = "up" /\ q.status = s /\ q.watch = 0 /\ q.erred = FALSE
      /\ q.done = d /\ q.timer = r.timer /\ q.recent = r.recent
  BY <1>2 DEF Workings
<1> HIDE DEF q
<1>5. FeedsLamp(q, 0) /\ SilenceSeen(q) /\ NewIsWatched(q)
  BY <1>4, HomeConstants DEF FeedsLamp, SilenceSeen, NewIsWatched
<1>6. StatusTells(q)
  BY <1>4 DEF StatusTells, d
<1>7. feed' \in Nat /\ feed' <= feed /\ Sound(q, feed')
  BY <1>1, <1>3, <1>5, <1>6 DEF Sound
<1>8. /\ wk' \in [HomeWorker -> Workings] /\ \A v \in HomeWorker : Sound(wk'[v], feed')
      /\ wk'[w] = q /\ \A v \in HomeWorker \ {w} : wk'[v] = wk[v]
  BY <1>1, <1>3, <1>7, OneChanges
<1>9. feed' \in 0..Never
  BY <1>1, HomeConstants
<1> QED
  BY <1>1, <1>4, <1>8, <1>9 DEF d

LEMMA UpIsSame ==
  ASSUME HomeInv, NEW w \in HomeWorker, wk[w].proc = "up"
  PROVE  [wk[w] EXCEPT !.proc = "up"] = wk[w]
BY HomeParts DEF Workings

LEMMA StartsWorkingKeeps ==
  ASSUME HomeInv, NEW w \in HomeWorker, StartsWorking(w)
  PROVE  HomeInv'
<1>1. w \in {"notifier", "other"} /\ Reports(w, "running", [wk[w] EXCEPT !.proc = "up"])
  BY DEF StartsWorking, Up
<1>2. /\ wk' \in [HomeWorker -> Workings] /\ \A v \in HomeWorker : Sound(wk'[v], feed')
      /\ wk'[w].done = ("running" = "running") /\ \A v \in HomeWorker \ {w} : wk'[v] = wk[v]
      /\ feed' \in 0..Never
  BY <1>1, ReportsKeeps
<1>3. UNCHANGED <<qianfanReady, listenerReady, relay, businessReady, boot, port>>
  BY DEF StartsWorking, listenerVars, wechatVars
<1>4. RestTyped'
  BY <1>2, <1>3, HomeParts DEF RestTyped
<1>5. /\ wk'["listener"] = wk["listener"] /\ wk'["callback"] = wk["callback"]
      /\ \A v \in {"notifier", "other"} : wk'[v] = wk[v] \/ wk'[v].done
  BY <1>1, <1>2, WorkersNamed
<1>6. ListenerTells' /\ OthersBegan' /\ ServesPort'
  BY <1>3, <1>5, HomeParts DEF ListenerTells, OthersBegan, ServesPort, Lives
<1> QED
  BY <1>2, <1>4, <1>6, HomePartsNext

LEMMA ListenerStartsKeeps == HomeInv /\ ListenerStarts => HomeInv'
<1> SUFFICES ASSUME HomeInv, ListenerStarts PROVE HomeInv'
  OBVIOUS
<1>1. Reports("listener", "starting", [wk["listener"] EXCEPT !.proc = "up"])
  BY DEF ListenerStarts, Up
<1>2. /\ wk' \in [HomeWorker -> Workings] /\ \A v \in HomeWorker : Sound(wk'[v], feed')
      /\ wk'["listener"].done = FALSE /\ \A v \in HomeWorker \ {"listener"} : wk'[v] = wk[v]
      /\ feed' \in 0..Never
  BY <1>1, ReportsKeeps, WorkersNamed
<1>3. /\ UNCHANGED <<relay, businessReady, boot, port>>
      /\ listenerReady' = FALSE
  BY DEF ListenerStarts, wechatVars
<1>4. RestTyped'
  BY <1>2, <1>3, HomeParts DEF RestTyped
<1>5. \A v \in {"notifier", "other", "callback"} : wk'[v] = wk[v]
  BY <1>2, WorkersNamed
<1>6. ListenerTells' /\ OthersBegan' /\ ServesPort'
  BY <1>2, <1>3, <1>5, HomeParts DEF ListenerTells, OthersBegan, ServesPort, Lives
<1> QED
  BY <1>2, <1>4, <1>6, HomePartsNext

LEMMA ListenerReportsKeeps ==
  ASSUME HomeInv, NEW p \in {"starting", "degraded", "failed", "running"}, ListenerReports(p)
  PROVE  HomeInv'
<1>1. Reports("listener", p, [wk["listener"] EXCEPT !.proc = "up"])
  BY UpIsSame, WorkersNamed DEF ListenerReports
<1>2. /\ wk' \in [HomeWorker -> Workings] /\ \A v \in HomeWorker : Sound(wk'[v], feed')
      /\ wk'["listener"].done = (p = "running")
      /\ \A v \in HomeWorker \ {"listener"} : wk'[v] = wk[v]
      /\ feed' \in 0..Never
  BY <1>1, ReportsKeeps, WorkersNamed
<1>3. /\ UNCHANGED <<relay, businessReady, boot, port>>
      /\ listenerReady' = (p = "running")
      /\ p = "running" => qianfanReady' = TRUE
  BY DEF ListenerReports, wechatVars
<1>4. RestTyped'
  BY <1>2, <1>3, HomeParts DEF RestTyped
<1>5. \A v \in {"notifier", "other", "callback"} : wk'[v] = wk[v]
  BY <1>2, WorkersNamed
<1>6. ListenerTells'
  BY <1>2, <1>3 DEF ListenerTells
<1>7. OthersBegan' /\ ServesPort'
  BY <1>3, <1>5, HomeParts DEF OthersBegan, ServesPort, Lives
<1> QED
  BY <1>2, <1>4, <1>6, <1>7, HomePartsNext

\* The callback worker reports, and says that it serves only when it has the port.
LEMMA CallbackReportsKeeps ==
  ASSUME HomeInv, NEW s \in {"running", "starting", "degraded", "failed"},
         Reports("callback", s, [wk["callback"] EXCEPT !.proc = "up"]),
         UNCHANGED <<listenerVars, relay>>,
         businessReady' => port' = "callback",
         boot' \in {"none", "probe", "waitReused", "wait", "serve", "fail", "listening", "retry"}
  PROVE  HomeInv'
<1>2. /\ wk' \in [HomeWorker -> Workings] /\ \A v \in HomeWorker : Sound(wk'[v], feed')
      /\ \A v \in HomeWorker \ {"callback"} : wk'[v] = wk[v]
      /\ feed' \in 0..Never
  BY ReportsKeeps, WorkersNamed
<1>3. UNCHANGED <<relay, qianfanReady, listenerReady>>
  BY DEF listenerVars
<1>4. RestTyped'
  BY <1>2, <1>3, HomeParts DEF RestTyped
<1>5. \A v \in {"notifier", "other", "listener"} : wk'[v] = wk[v]
  BY <1>2, WorkersNamed
<1>6. ListenerTells' /\ OthersBegan'
  BY <1>3, <1>5, HomeParts DEF ListenerTells, OthersBegan, Lives
<1>7. ServesPort'
  BY DEF ServesPort
<1> QED
  BY <1>2, <1>4, <1>6, <1>7, HomePartsNext

LEMMA CallbackStepsKeep ==
  HomeInv /\ (CallbackStarts \/ startCallbackServer \/ BootFails \/ Retry) => HomeInv'
<1> SUFFICES ASSUME HomeInv, CallbackStarts \/ startCallbackServer \/ BootFails \/ Retry
             PROVE  HomeInv'
  OBVIOUS
<1>1. CASE CallbackStarts
  BY <1>1, CallbackReportsKeeps DEF CallbackStarts, Up
<1>2. CASE startCallbackServer
  <2>1. CASE port = "free"
    <3>1. Reports("callback", "running", [wk["callback"] EXCEPT !.proc = "up"])
      BY <1>2, <2>1, UpIsSame, WorkersNamed DEF startCallbackServer, Booting
    <3> QED
      BY <1>2, <2>1, <3>1, CallbackReportsKeeps DEF startCallbackServer
  <2>2. CASE port # "free"
    <3>1. /\ UNCHANGED <<wk, feed, port, businessReady, listenerVars, relay>> /\ boot' = "fail"
      BY <1>2, <2>2 DEF startCallbackServer
    <3> QED
      BY <3>1, HomeParts, HomePartsNext
      DEF RestTyped, ListenerTells, OthersBegan, ServesPort, listenerVars
  <2> QED
    BY <2>1, <2>2
<1>3. CASE BootFails \/ Retry
  <2>1. Booting("fail") \/ Booting("retry")
    BY <1>3 DEF BootFails, Retry
  <2>2. [wk["callback"] EXCEPT !.proc = "up"] = wk["callback"]
    BY <2>1, UpIsSame, WorkersNamed DEF Booting
  <2> QED
    BY <1>3, <2>2, CallbackReportsKeeps DEF BootFails, Retry
<1> QED
  BY <1>1, <1>2, <1>3

LEMMA AroundKeeps ==
  HomeInv /\ (\/ BootEnds \/ Probe \/ waitForInjection \/ WechatExits \/ CliEnds
              \/ \E who \in {"bot", "another"} : UserLogsIn(who)) => HomeInv'
<1> SUFFICES ASSUME HomeInv,
                    \/ BootEnds \/ Probe \/ waitForInjection \/ WechatExits \/ CliEnds
                    \/ \E who \in {"bot", "another"} : UserLogsIn(who)
             PROVE  HomeInv'
  OBVIOUS
<1>1. /\ UNCHANGED <<wk, feed, qianfanReady, listenerReady, businessReady>>
      /\ relay' \in {relay, "running", "degraded"}
      /\ boot' \in {boot, "wait", "serve", "waitReused", "fail"}
      /\ port' = port \/ port = "cli"
  BY DEF BootEnds, Probe, waitForInjection, WechatExits, CliEnds, UserLogsIn, killExistingWechat,
         listenerVars, wechatVars
<1>2. RestTyped'
  BY <1>1, HomeParts DEF RestTyped
<1>3. ListenerTells' /\ OthersBegan' /\ ServesPort'
  BY <1>1, HomeParts DEF ListenerTells, OthersBegan, ServesPort
<1> QED
  BY <1>1, <1>2, <1>3, HomeParts, HomePartsNext


\* A worker changes without a report, and does not come to life.
LEMMA SilentChange ==
  ASSUME HomeInv, NEW w \in HomeWorker, NEW q,
         q \in Workings, Sound(q, feed), wk' = [wk EXCEPT ![w] = q],
         Lives(q) => Lives(wk[w]) /\ q.done = wk[w].done,
         q.done => wk[w].done,
         UNCHANGED <<feed, listenerVars, relay, businessReady>>,
         port' = port \/ (w = "callback" /\ ~Lives(q)) \/ port # "callback",
         boot' \in {boot, "none"}
  PROVE  HomeInv'
<1>1. feed \in Nat /\ feed' \in Nat /\ feed' <= feed /\ Sound(q, feed')
  BY HomeParts, HomeConstants DEF RestTyped
<1>2. /\ wk' \in [HomeWorker -> Workings] /\ \A v \in HomeWorker : Sound(wk'[v], feed')
      /\ wk'[w] = q /\ \A v \in HomeWorker \ {w} : wk'[v] = wk[v]
  BY <1>1, OneChanges
<1>3. RestTyped'
  BY <1>1, HomeParts DEF RestTyped
<1>4. \A v \in HomeWorker : /\ Lives(wk'[v]) => Lives(wk[v]) /\ wk'[v].done = wk[v].done
                            /\ wk'[v].done => wk[v].done
  BY <1>2
<1>5. UNCHANGED <<qianfanReady, listenerReady, businessReady>>
  BY DEF listenerVars
<1>6. ListenerTells'
  <2>1. /\ Lives(wk'["listener"]) => Lives(wk["listener"]) /\ wk'["listener"].done = wk["listener"].done
        /\ wk'["listener"].done => wk["listener"].done
    BY <1>4, WorkersNamed
  <2> QED
    BY <2>1, <1>5, HomeParts DEF ListenerTells, Lives
<1>7. OthersBegan'
  <2>1. \A v \in {"notifier", "other"} : Lives(wk'[v]) => Lives(wk[v]) /\ wk'[v].done = wk[v].done
    BY <1>4, WorkersNamed
  <2> QED
    BY <2>1, HomeParts DEF OthersBegan, Lives
<1>8. ServesPort'
  <2>1. Lives(wk'["callback"]) => Lives(wk["callback"])
    BY <1>4, WorkersNamed
  <2>2. w = "callback" => wk'["callback"] = q
    BY <1>2
  <2> QED
    BY <2>1, <2>2, <1>5, HomeParts DEF ServesPort, Lives
<1> QED
  BY <1>2, <1>3, <1>6, <1>7, <1>8, HomePartsNext

LEMMA FreesPort ==
  ASSUME NEW w \in HomeWorker, Frees(w)
  PROVE  /\ boot' \in {boot, "none"}
         /\ port' = port \/ w = "callback"
BY DEF Frees

LEMMA ExitsKeeps ==
  ASSUME HomeInv, NEW w \in HomeWorker, NEW crashed \in BOOLEAN,
         NEW s \in {wk[w].status, "degraded"}, Exits(w, crashed, s)
  PROVE  HomeInv'
<1> DEFINE r == wk[w]
           t == r.timer \/ crashed
           q == [r EXCEPT !.proc = "gone", !.status = s, !.timer = t]
<1>1. /\ r \in Workings /\ Sound(r, feed) /\ Lives(r) /\ s \in {r.status, "degraded"}
      /\ s = "degraded" => crashed
  BY HomeParts DEF Exits, Lives
<1>2. wk' = [wk EXCEPT ![w] = q]
  BY HomeParts DEF Exits
<1>3. UNCHANGED <<feed, listenerVars, relay, businessReady>> /\ boot' \in {boot, "none"}
      /\ (port' = port \/ w = "callback")
  BY FreesPort DEF Exits
<1>4. t \in BOOLEAN /\ (t <=> r.timer \/ crashed) /\ "gone" \in Process /\ s \in Status
  BY <1>1 DEF Process, Status, Workings
<1> HIDE DEF r, t
<1>5. /\ q \in Workings
      /\ q.proc = "gone" /\ q.done = r.done /\ q.erred = r.erred /\ q.status = s
      /\ q.watch = r.watch /\ q.timer = t /\ q.recent = r.recent
  BY <1>1, <1>4 DEF Workings
<1> HIDE DEF q
<1>6. FeedsLamp(q, feed) /\ NewIsWatched(q) /\ ~Lives(q)
  BY <1>5 DEF FeedsLamp, NewIsWatched, Lives
<1>7. SilenceSeen(q)
  <2>1. SilenceSeen(r)
    BY <1>1 DEF Sound
  <2>2. r.watch > heartbeatTimeoutMs => r.timer \/ (r.recent >= MaxRecent /\ (r.erred \/ r.status \in {"timeout", "failed"}))
    BY <2>1, <1>1 DEF SilenceSeen, Restarting, Lives
  <2>3. r.status = s \/ t
    BY <1>1, <1>4
  <2> QED
    BY <1>4, <1>5, <2>2, <2>3 DEF SilenceSeen, Restarting
<1>8. StatusTells(q)
  <2>1. StatusTells(r)
    BY <1>1 DEF Sound
  <2> QED
    BY <1>1, <1>4, <1>5, <2>1 DEF StatusTells
<1>9. Sound(q, feed)
  BY <1>5, <1>6, <1>7, <1>8 DEF Sound
<1> QED
  BY <1>2, <1>3, <1>5, <1>6, <1>9, SilentChange DEF r

LEMMA HangsKeeps ==
  ASSUME HomeInv, NEW w \in HomeWorker, Hangs(w) \/ Resumes(w) \/ Errs(w)
  PROVE  HomeInv'
<1> DEFINE r == wk[w]
<1>1. r \in Workings /\ Sound(r, feed) /\ Lives(r)
  BY HomeParts DEF Hangs, Resumes, Errs, Lives
<1>2. UNCHANGED <<feed, listenerVars, relay, businessReady, boot, port>>
  BY DEF Hangs, Resumes, Errs, wechatVars
<1>3. CASE Hangs(w) \/ Resumes(w)
  <2>1. PICK p \in {"up", "hung"} : wk' = [wk EXCEPT ![w].proc = p]
    BY <1>3 DEF Hangs, Resumes
  <2> DEFINE q == [r EXCEPT !.proc = p]
  <2>2. wk' = [wk EXCEPT ![w] = q]
    BY <2>1
  <2> HIDE DEF r
  <2>3. /\ q \in Workings
        /\ q.proc = p /\ q.done = r.done /\ q.erred = r.erred /\ q.status = r.status
        /\ q.watch = r.watch /\ q.timer = r.timer /\ q.recent = r.recent
    BY <1>1 DEF Workings, Process
  <2> HIDE DEF q
  <2>4. Sound(q, feed)
    BY <1>1, <2>3
    DEF Sound, FeedsLamp, NewIsWatched, SilenceSeen, StatusTells, Restarting, Lives
  <2> QED
    BY <1>1, <1>2, <2>2, <2>3, <2>4, SilentChange DEF r
<1>4. CASE Errs(w)
  <2> DEFINE q == [r EXCEPT !.status = "degraded", !.erred = TRUE]
  <2>1. wk' = [wk EXCEPT ![w] = q] /\ r.proc = "up"
    BY <1>4 DEF Errs
  <2> HIDE DEF r
  <2>2. /\ q \in Workings
        /\ q.proc = r.proc /\ q.done = r.done /\ q.erred = TRUE /\ q.status = "degraded"
        /\ q.watch = r.watch /\ q.timer = r.timer /\ q.recent = r.recent
    BY <1>1 DEF Workings, Status
  <2> HIDE DEF q
  <2>3. Sound(q, feed)
    BY <1>1, <2>2
    DEF Sound, FeedsLamp, NewIsWatched, SilenceSeen, StatusTells, Restarting, Lives
  <2>4. Lives(q)
    BY <2>1, <2>2 DEF Lives
  <2> QED
    BY <1>1, <1>2, <2>1, <2>2, <2>3, <2>4, SilentChange DEF r
<1> QED
  BY <1>3, <1>4

\* A worker is started, or given up, once its process is gone.
LEMMA StartedSound ==
  ASSUME NEW r \in Workings, NEW age
  PROVE  LET q == Started(r)
         IN q \in Workings /\ Sound(q, age) /\ ~Lives(q) /\ (q.done => r.done)
<1> DEFINE a == [r EXCEPT !.proc = "gone", !.status = "failed", !.watch = Unwatched]
           b == [r EXCEPT !.proc = "new", !.status = "starting", !.watch = 0,
                          !.done = FALSE, !.erred = FALSE]
<1>1. Unwatched \in 0..TimeoutPending /\ 0 \in 0..TimeoutPending
  BY HomeConstants
<1>2. /\ a \in Workings /\ a.proc = "gone" /\ a.status = "failed" /\ a.done = r.done
      /\ a.recent = r.recent
  BY <1>1 DEF Workings, Process, Status
<1>3. /\ b \in Workings /\ b.proc = "new" /\ b.status = "starting" /\ b.done = FALSE /\ b.watch = 0
  BY <1>1 DEF Workings, Process, Status
<1>4. CASE r.recent >= MaxRecent
  <2>1. Started(r) = a
    BY <1>4 DEF Started
  <2> HIDE DEF a
  <2>2. Sound(a, age)
    BY <1>2, <1>4 DEF Sound, FeedsLamp, NewIsWatched, SilenceSeen, StatusTells, Lives
  <2> QED
    BY <2>1, <2>2, <1>2 DEF Lives
<1>5. CASE ~(r.recent >= MaxRecent)
  <2>1. Started(r) = b
    BY <1>5 DEF Started
  <2> HIDE DEF b
  <2>2. Sound(b, age)
    BY <1>3, HomeConstants DEF Sound, FeedsLamp, NewIsWatched, SilenceSeen, StatusTells, Lives
  <2> QED
    BY <2>1, <2>2, <1>3 DEF Lives
<1> QED
  BY <1>4, <1>5


LEMMA StopEndsKeeps ==
  ASSUME HomeInv, NEW w \in HomeWorker, StopEnds(w)
  PROVE  HomeInv'
<1>1. wk[w] \in Workings
  BY HomeParts
<1> DEFINE q == Started(wk[w])
<1>2. wk' = [wk EXCEPT ![w] = q]
  BY DEF StopEnds
<1>3. UNCHANGED <<feed, listenerVars, relay, businessReady>> /\ boot' \in {boot, "none"}
      /\ (port' = port \/ w = "callback")
  BY FreesPort DEF StopEnds
<1>4. q \in Workings /\ Sound(q, feed) /\ ~Lives(q) /\ (q.done => wk[w].done)
  BY <1>1, StartedSound
<1> HIDE DEF q
<1> QED
  BY <1>2, <1>3, <1>4, SilentChange

LEMMA RestartFiresKeeps ==
  ASSUME HomeInv, NEW w \in HomeWorker, RestartFires(w)
  PROVE  HomeInv'
<1> DEFINE o == wk[w]
           r == [o EXCEPT !.timer = FALSE, !.recent = o.recent + 1]
           spent == [o EXCEPT !.timer = FALSE, !.status = "failed"]
           stopped == [r EXCEPT !.proc = "stopping", !.status = "stopping"]
           q == IF o.recent >= MaxRecent THEN spent
                ELSE IF o.proc = "gone" THEN Started(r) ELSE stopped
<1>1. /\ o \in Workings /\ Sound(o, feed) /\ o.timer /\ o.recent \in Nat /\ o.recent <= MaxRecent
      /\ wk \in [HomeWorker -> Workings]
  BY HomeParts, HomeConstants DEF RestartFires, Workings
<1>2. wk' = [wk EXCEPT ![w] = q]
  BY <1>1 DEF RestartFires
<1>3. UNCHANGED <<feed, listenerVars, relay, businessReady, boot, port>>
  BY DEF RestartFires, wechatVars
<1> HIDE DEF o
<1>4. CASE o.recent >= MaxRecent
  <2>1. q = spent
    BY <1>4
  <2>2. /\ spent \in Workings
        /\ spent.proc = o.proc /\ spent.done = o.done /\ spent.erred = o.erred
        /\ spent.status = "failed" /\ spent.watch = o.watch /\ spent.timer = FALSE
        /\ spent.recent = o.recent
    BY <1>1 DEF Workings, Status
  <2> HIDE DEF spent
  <2>3. Sound(spent, feed)
    BY <1>1, <1>4, <2>2
    DEF Sound, FeedsLamp, NewIsWatched, SilenceSeen, StatusTells, Restarting, Lives
  <2>4. Lives(spent) => Lives(o)
    BY <2>2 DEF Lives
  <2> HIDE DEF q
  <2> QED
    BY <1>2, <1>3, <2>1, <2>2, <2>3, <2>4, SilentChange DEF o
<1>5. CASE ~(o.recent >= MaxRecent)
  <2>1. o.recent + 1 \in 0..MaxRecent
    BY <1>1, <1>5, HomeConstants
  <2>2. r \in Workings /\ r.done = o.done /\ r.watch = o.watch
    BY <1>1, <2>1 DEF Workings
  <2> HIDE DEF r
  <2>3. CASE o.proc = "gone"
    <3>1. q = Started(r)
      BY <1>5, <2>3
    <3>2. q \in Workings /\ Sound(q, feed) /\ ~Lives(q) /\ (q.done => o.done)
      BY <2>2, <3>1, StartedSound
    <3> HIDE DEF q
    <3> QED
      BY <1>2, <1>3, <3>2, SilentChange DEF o
  <2>4. CASE o.proc # "gone"
    <3>1. q = stopped
      BY <1>5, <2>4
    <3>2. /\ stopped \in Workings /\ stopped.proc = "stopping" /\ stopped.status = "stopping"
          /\ stopped.done = o.done
      BY <2>2 DEF Workings, Process, Status
    <3> HIDE DEF stopped
    <3>3. Sound(stopped, feed) /\ ~Lives(stopped)
      BY <3>2 DEF Sound, FeedsLamp, NewIsWatched, SilenceSeen, StatusTells, Restarting, Lives
    <3> HIDE DEF q
    <3> QED
      BY <1>2, <1>3, <3>1, <3>2, <3>3, SilentChange DEF o
  <2> QED
    BY <2>3, <2>4
<1> QED
  BY <1>4, <1>5

LEMMA CliStartsKeeps == HomeInv /\ CliStarts => HomeInv'
<1> SUFFICES ASSUME HomeInv, CliStarts PROVE HomeInv'
  OBVIOUS
<1>1. UNCHANGED <<feed, listenerVars, relay, businessReady>> /\ port' = "cli"
  BY DEF CliStarts
<1>2. CASE port = "callback"
  <2> DEFINE r == wk["callback"]
             q == [r EXCEPT !.proc = "gone", !.timer = TRUE]
  <2>1. /\ r \in Workings /\ Sound(r, feed) /\ wk' = [wk EXCEPT !["callback"] = q]
        /\ boot' = "none"
    BY <1>2, HomeParts, WorkersNamed DEF CliStarts, ForcesPort
  <2> HIDE DEF r
  <2>2. /\ q \in Workings
        /\ q.proc = "gone" /\ q.done = r.done /\ q.erred = r.erred /\ q.status = r.status
        /\ q.watch = r.watch /\ q.timer = TRUE /\ q.recent = r.recent
    BY <2>1 DEF Workings, Process
  <2> HIDE DEF q
  <2>3. Sound(q, feed) /\ ~Lives(q)
    BY <2>1, <2>2
    DEF Sound, FeedsLamp, NewIsWatched, SilenceSeen, StatusTells, Restarting, Lives
  <2>4. "callback" \in HomeWorker
    BY WorkersNamed
  <2> QED
    BY <1>1, <2>1, <2>2, <2>3, <2>4, SilentChange DEF r
<1>3. CASE port # "callback"
  <2>1. UNCHANGED <<wk, boot>>
    BY <1>3 DEF CliStarts, ForcesPort
  <2>2. RestTyped' /\ ListenerTells' /\ OthersBegan' /\ ServesPort'
    BY <1>1, <1>3, <2>1, HomeParts
    DEF RestTyped, ListenerTells, OthersBegan, ServesPort, listenerVars
  <2> QED
    BY <1>1, <2>1, <2>2, HomeParts, HomePartsNext
<1> QED
  BY <1>2, <1>3

LEMMA HomeInitially == HomeInit => HomeInv
<1> SUFFICES ASSUME HomeInit PROVE HomeInv
  OBVIOUS
<1> DEFINE r == [proc |-> "new", done |-> FALSE, erred |-> FALSE, status |-> "starting",
                 watch |-> 0, timer |-> FALSE, recent |-> 0]
<1>1. wk = [w \in HomeWorker |-> r]
  BY DEF HomeInit
<1>2. 0 \in 0..TimeoutPending /\ 0 \in 0..MaxRecent /\ Never \in 0..Never
  BY HomeConstants
<1>3. r \in Workings
  BY <1>2 DEF Workings, Process, Status
<1>4. Sound(r, feed)
  BY <1>3, HomeConstants
  DEF Sound, FeedsLamp, NewIsWatched, SilenceSeen, StatusTells, Lives
<1>5. \A w \in HomeWorker : wk[w] = r
  BY <1>1
<1> HIDE DEF r
<1>6. wk \in [HomeWorker -> Workings] /\ \A w \in HomeWorker : Sound(wk[w], feed)
  BY <1>1, <1>3, <1>4
<1>7. RestTyped
  BY <1>2 DEF HomeInit, RestTyped
<1>8. ~r.done /\ ~Lives(r)
  BY DEF r, Lives
<1>9. ListenerTells /\ OthersBegan /\ ServesPort
  BY <1>5, <1>8, WorkersNamed DEF ListenerTells, OthersBegan, ServesPort
<1> QED
  BY <1>6, <1>7, <1>9, HomeParts

\* Every step of the home page's part keeps the invariant.
LEMMA HomeStep == HomeInv /\ [HomeNext]_homeVars => HomeInv'
<1> SUFFICES ASSUME HomeInv, [HomeNext]_homeVars PROVE HomeInv'
  OBVIOUS
<1>1. CASE UNCHANGED homeVars
  <2>1. UNCHANGED <<wk, feed, relay, boot, port, businessReady, qianfanReady, listenerReady>>
    BY <1>1 DEF homeVars, listenerVars, wechatVars
  <2> QED
    BY <2>1, HomeParts, HomePartsNext DEF RestTyped, ListenerTells, OthersBegan, ServesPort
<1>2. CASE Tick
  BY <1>2, TickKeeps
<1>3. ASSUME NEW w \in HomeWorker,
             \/ StartsWorking(w) \/ Hangs(w) \/ Resumes(w) \/ Errs(w)
             \/ RestartFires(w) \/ StopEnds(w)
             \/ \E crashed \in BOOLEAN, s \in {wk[w].status, "degraded"} : Exits(w, crashed, s)
      PROVE  HomeInv'
  BY <1>3, StartsWorkingKeeps, HangsKeeps, RestartFiresKeeps, StopEndsKeeps, ExitsKeeps
<1>4. CASE ListenerStarts \/ \E p \in {"starting", "degraded", "failed", "running"} : ListenerReports(p)
  BY <1>4, ListenerStartsKeeps, ListenerReportsKeeps
<1>5. CASE CallbackStarts \/ startCallbackServer \/ BootFails \/ Retry
  BY <1>5, CallbackStepsKeep
<1>6. CASE \/ BootEnds \/ Probe \/ waitForInjection \/ WechatExits \/ CliEnds
           \/ \E who \in {"bot", "another"} : UserLogsIn(who)
  BY <1>6, AroundKeeps
<1>7. CASE CliStarts
  BY <1>7, CliStartsKeeps
<1> QED
  BY <1>1, <1>2, <1>3, <1>4, <1>5, <1>6, <1>7 DEF HomeNext

(***************************************************************************)
(* What the lamps say                                                      *)
(***************************************************************************)
\* "Normal" is said of all only when every lamp says it.
LEMMA AllNormal ==
  computeOverallHealth = "normal" =>
    computeWatchdogHealth = "normal" /\ computeRelayHealth = "normal" /\ fullReady
BY DEF computeOverallHealth, Lamps, computeWatchdogHealth, computeQianfanHealth,
       computeWechatHealth, computeRelayHealth

LEMMA NormalIsTrue ==
  ASSUME HomeInv, computeOverallHealth = "normal", NEW w \in Core
  PROVE  \/ wk[w].proc = "up" /\ (wk[w].done \/ w = "callback")
         \/ wk[w].proc # "up" /\ wk[w].watch <= heartbeatTimeoutMs
         \/ BeingRestarted(w)
         \/ wk[w].erred /\ wk[w].recent >= MaxRecent
<1>1. /\ w \in HomeWorker /\ wk[w] \in Workings /\ Sound(wk[w], feed)
      /\ wk[w].watch \in Nat /\ heartbeatTimeoutMs \in Nat
  BY HomeParts, HomeConstants DEF HomeWorker, Workings
<1>2. listenerReady /\ wk[w].status \notin {"failed", "timeout"}
  BY <1>1, AllNormal DEF fullReady, ShownRunning, Ready, Is
<1>3. CASE wk[w].proc = "up"
  <2>1. w = "callback" \/ wk[w].done
    BY <1>2, <1>3, HomeParts DEF Core, ListenerTells, OthersBegan, Lives
  <2> QED
    BY <1>3, <2>1
<1>4. CASE wk[w].proc # "up" /\ wk[w].watch > heartbeatTimeoutMs
  BY <1>1, <1>2, <1>4 DEF Sound, SilenceSeen, Restarting, BeingRestarted
<1> QED
  BY <1>1, <1>3, <1>4

LEMMA ErrorIsTrue ==
  ASSUME HomeInv, computeOverallHealth = "error"
  PROVE  \E w \in Core :
           \/ wk[w].proc # "up" \/ ~wk[w].done \/ wk[w].erred
           \/ BeingRestarted(w) \/ wk[w].recent >= MaxRecent
<1> SUFFICES ASSUME \A w \in Core :
                      /\ wk[w].proc = "up" /\ wk[w].done /\ ~wk[w].erred
                      /\ ~BeingRestarted(w) /\ ~(wk[w].recent >= MaxRecent)
             PROVE  FALSE
  OBVIOUS
<1>1. ASSUME NEW w \in Core
      PROVE  /\ wk[w].status = "running"
             /\ wk[w].watch \in Nat /\ wk[w].watch <= heartbeatTimeoutMs /\ feed <= wk[w].watch
  <2>1. w \in HomeWorker /\ wk[w] \in Workings /\ Sound(wk[w], feed)
    BY HomeParts DEF HomeWorker
  <2>2. /\ wk[w].proc = "up" /\ wk[w].done /\ ~wk[w].erred /\ ~wk[w].timer
        /\ ~(wk[w].recent >= MaxRecent)
    BY DEF BeingRestarted
  <2>3. wk[w].status \in Status /\ wk[w].watch \in Nat
    BY <2>1, HomeConstants DEF Workings
  <2>4. wk[w].status = "running"
    BY <2>1, <2>2, <2>3 DEF Sound, StatusTells, Status
  <2>5. wk[w].watch <= heartbeatTimeoutMs
    BY <2>1, <2>2, <2>3, HomeConstants DEF Sound, SilenceSeen, Restarting
  <2> QED
    BY <2>1, <2>2, <2>3, <2>4, <2>5 DEF Sound, FeedsLamp, Lives
<1>2. {"listener", "callback", "notifier"} = Core
  BY DEF Core
<1>3. computeWatchdogHealth \in {"normal", "warning"}
  <2>1. feed \in Nat /\ feed <= WATCHDOG_WARN_MS /\ feed # Never
    <3>1. feed <= wk["listener"].watch /\ wk["listener"].watch <= heartbeatTimeoutMs
          /\ wk["listener"].watch \in Nat
      BY <1>1, <1>2
    <3> QED
      BY <3>1, HomeParts, HomeConstants DEF RestTyped
  <2>2. feed <= WATCHDOG_NORMAL_MS \/ feed \in (WATCHDOG_NORMAL_MS + 1)..WATCHDOG_WARN_MS
    BY <2>1, HomeConstants
  <2>3. \A m \in Nat : ~(feed \in (WATCHDOG_WARN_MS + 1)..m)
    BY <2>1, HomeConstants
  <2> QED
    BY <2>1, <2>2, <2>3, HomeConstants DEF computeWatchdogHealth
<1>4. computeQianfanHealth = "normal"
  BY <1>2, HomeParts DEF computeQianfanHealth, Ready, ListenerTells
<1>5. computeWechatHealth # "error"
  BY <1>1, <1>2 DEF computeWechatHealth, wechatReady, Is
<1>6. computeRelayHealth # "error"
  BY <1>1, <1>2, <1>3 DEF computeRelayHealth, Is
<1> QED
  BY <1>3, <1>4, <1>5, <1>6 DEF computeOverallHealth, Lamps

LEMMA HomeSound == HomeInv => HomeTypeOK /\ LampsTellTruth
<1> SUFFICES ASSUME HomeInv PROVE LampsTellTruth
  BY DEF HomeInv
<1>1. (wk["callback"].proc = "up" /\ businessReady) => port = "callback"
  BY HomeParts DEF ServesPort, Lives
<1> QED
  BY <1>1, NormalIsTrue, ErrorIsTrue DEF LampsTellTruth

-------------------------------------------------------------------------------
(***************************************************************************)
(* The search for orders (OrderQuery)                                      *)
(***************************************************************************)
\* An order that was listed when the search was made still is, further down at most.
StillListed == \A s \in OrderShops : \A o \in before[s] : o \in Entries(listing[s])

\* The pages read so far were full; what they do not have is on the pages to come.
PagesRead ==
  stage = "list" =>
    /\ Len(got) = page * Limit
    /\ \A o \in before[shop] : o \in Entries(got) \/
         \E j \in DOMAIN listing[shop] : j > page * Limit /\ listing[shop][j] = o

\* What no page had is behind the last of them, and then the list is longer than they were.
ListRead ==
  stage = "pool" => total > Len(got) \/ \A o \in before[shop] : o \in Entries(got)

\* Every entry that was taken is a runner's, and no other's, or has its row.
PoolWorks ==
  stage = "pool" =>
    /\ DOMAIN results = 1..Len(got) /\ next <= Len(got) + 1
    /\ \A r \in Runners : job[r] < next
    /\ \A q, r \in Runners : job[q] = job[r] /\ job[q] # 0 => q = r
    /\ \A k \in 1..Len(got) :
         \/ k >= next \/ \E r \in Runners : job[r] = k
         \/ results[k] \in Rows /\ results[k].order = got[k]

RunnersRest == stage # "pool" => \A r \in Runners : job[r] = 0

HasAll(figures, table, s) ==
  figures[s].ok /\ ~Cut(figures[s]) /\ ~byPhone =>
    \A o \in before[s] \cap wanted : \E k \in DOMAIN table[s] : table[s][k].order = o

CollectedHasAll == \A s \in OrderShops : HasAll(stat, collected, s)
NothingAsked == stage = "none" => ~busy /\ \A s \in OrderShops : ~stat[s].ok
BusyAsks == ~busy => stage = "none"

OrderInv ==
  /\ OrderTypeOK /\ StillListed /\ PagesRead /\ ListRead /\ PoolWorks /\ RunnersRest
  /\ CollectedHasAll /\ NothingAsked /\ BusyAsks
  /\ canExport => \A s \in OrderShops : HasAll(shownStat, shown, s)

LEMMA Inserted ==
  ASSUME NEW list \in Seq(Orders), NEW o \in Orders, NEW at \in 1..(Len(list) + 1),
         NEW longer, longer = SubSeq(list, 1, at - 1) \o <<o>> \o SubSeq(list, at, Len(list))
  PROVE  /\ longer \in Seq(Orders) /\ Len(longer) = Len(list) + 1
         /\ \A j \in 1..Len(list) : longer[IF j < at THEN j ELSE j + 1] = list[j]
<1> DEFINE front == SubSeq(list, 1, at - 1)
           back == SubSeq(list, at, Len(list))
           middle == front \o <<o>>
<1>1. /\ front \in Seq(Orders) /\ Len(front) = at - 1
      /\ \A j \in 1..(at - 1) : front[j] = list[j]
  OBVIOUS
<1>2. /\ back \in Seq(Orders) /\ Len(back) = Len(list) + 1 - at
      /\ \A j \in 1..(Len(list) + 1 - at) : back[j] = list[at + j - 1]
  OBVIOUS
<1>3. /\ <<o>> \in Seq(Orders) /\ Len(<<o>>) = 1
  OBVIOUS
<1>4. longer = middle \o back
  OBVIOUS
<1> HIDE DEF front, back
<1>5. /\ middle \in Seq(Orders) /\ Len(middle) = at
      /\ \A j \in 1..(at - 1) : middle[j] = front[j]
  BY <1>1, <1>3, ConcatProperties
<1> HIDE DEF middle
<1>6. /\ middle \o back \in Seq(Orders) /\ Len(middle \o back) = Len(list) + 1
      /\ \A j \in 1..(Len(list) + 1) :
           (middle \o back)[j] = IF j <= at THEN middle[j] ELSE back[j - at]
  <2>1. /\ middle \o back \in Seq(Orders)
        /\ Len(middle \o back) = Len(middle) + Len(back)
        /\ \A j \in 1..(Len(middle) + Len(back)) :
             (middle \o back)[j] = IF j <= Len(middle) THEN middle[j] ELSE back[j - Len(middle)]
    BY <1>2, <1>5, ConcatProperties
  <2>2. Len(middle) + Len(back) = Len(list) + 1
    BY <1>2, <1>5
  <2> QED
    BY <2>1, <2>2, <1>5
<1>7. ASSUME NEW j \in 1..Len(list)
      PROVE  longer[IF j < at THEN j ELSE j + 1] = list[j]
  <2>1. CASE j < at
    <3>1. j \in 1..(at - 1) /\ j \in 1..(Len(list) + 1) /\ j <= at
      BY <2>1
    <3> QED
      BY <2>1, <3>1, <1>1, <1>4, <1>5, <1>6
  <2>2. CASE j >= at
    <3>1. /\ j + 1 - at \in 1..(Len(list) + 1 - at) /\ at + (j + 1 - at) - 1 = j
          /\ j + 1 \in 1..(Len(list) + 1) /\ ~(j + 1 <= at) /\ ~(j < at)
      BY <2>2
    <3>2. (middle \o back)[j + 1] = back[j + 1 - at]
      BY <3>1, <1>6
    <3>3. back[j + 1 - at] = list[j]
      BY <3>1, <1>2
    <3> QED
      BY <3>1, <3>2, <3>3, <1>4
  <2>3. j < at \/ j >= at
    OBVIOUS
  <2> QED
    BY <2>1, <2>2, <2>3
<1> QED
  BY <1>4, <1>6, <1>7

LEMMA PageHas ==
  ASSUME NEW list \in Seq(Orders), NEW n \in Nat
  PROVE  /\ PageOf(list, n) \in Seq(Orders) /\ Len(PageOf(list, n)) <= Limit
         /\ (n + 1) * Limit = n * Limit + Limit
         /\ Len(PageOf(list, n)) = Limit \/ Len(list) < (n + 1) * Limit
         /\ \A j \in 1..Len(list) :
              j > n * Limit => list[j] \in Entries(PageOf(list, n)) \/ j > (n + 1) * Limit
<1> DEFINE start == n * Limit
           end == (n + 1) * Limit
           last == IF end < Len(list) THEN end ELSE Len(list)
           es == SubSeq(list, start + 1, last)
<1>1. start \in Nat /\ end \in Nat /\ end = start + Limit /\ Limit \in Nat \ {0}
  BY OrderQueryAssumption
<1>2. es = PageOf(list, n)
  BY DEF PageOf
<1> HIDE DEF start, end
<1>3. last \in Nat /\ last <= Len(list) /\ (last = end \/ (last = Len(list) /\ last <= end))
  BY <1>1
<1> HIDE DEF last
<1>4. \A j \in (start + 1)..last : list[j] \in Orders
  BY <1>1, <1>3
<1>5. /\ es \in Seq(Orders)
      /\ Len(es) = IF start + 1 <= last THEN last - (start + 1) + 1 ELSE 0
      /\ \A j \in 1..(last - (start + 1) + 1) : es[j] = list[start + 1 + j - 1]
  BY <1>1, <1>3, <1>4, SubSeqProperties
<1> HIDE DEF es
<1>6. Len(es) <= Limit /\ (Len(es) = Limit \/ Len(list) < end)
  BY <1>1, <1>3, <1>5 DEF last
<1>7. ASSUME NEW j \in 1..Len(list), j > start, ~(j > end)
      PROVE  list[j] \in Entries(es)
  <2>1. j - start \in 1..(last - (start + 1) + 1) /\ start + 1 + (j - start) - 1 = j
    BY <1>1, <1>3, <1>7
  <2>2. j - start \in 1..Len(es)
    BY <2>1, <1>5, <1>1, <1>3
  <2>3. es[j - start] = list[j]
    BY <2>1, <1>5
  <2> QED
    BY <2>2, <2>3, <1>5, LenProperties DEF Entries
<1> QED
  BY <1>1, <1>2, <1>5, <1>6, <1>7 DEF start, end

(***************************************************************************)
(* The steps.                                                              *)
(***************************************************************************)
LEMMA ShopDoneTyped ==
  ASSUME ShopDone
  PROVE  /\ shop' \in OrderShops /\ page' \in Nat /\ got' \in Seq(Orders) /\ total' \in Nat
         /\ next' \in Nat \ {0} /\ job' \in [Runners -> Nat] /\ \A r \in Runners : job'[r] = 0
         /\ results' \in Seq(Rows \cup {NotMade})
<1>1. (CHOOSE s \in OrderShops : TRUE) \in OrderShops
  BY OrderQueryAssumption
<1> QED
  BY <1>1, EmptySeq DEF ShopDone

LEMMA EmptyTables ==
  /\ TablesOK([s \in OrderShops |-> <<>>])
  /\ [s \in OrderShops |-> NotCollected] \in [OrderShops -> Stats]
BY DEF TablesOK, NotCollected, Stats

LEMMA OrderInitially == OrderInit => OrderInv
<1> SUFFICES ASSUME OrderInit PROVE OrderInv
  OBVIOUS
<1>1. shop \in OrderShops
  BY OrderQueryAssumption DEF OrderInit
<1>2. <<>> \in Seq(Orders) /\ <<>> \in Seq(Rows \cup {NotMade})
  BY EmptySeq
<1>3. OrderTypeOK
  <2>1. listing \in [OrderShops -> Seq(Orders)] /\ placed \in Nat /\ searches \in Nat
    BY OrderQueryAssumption DEF OrderInit
  <2>2. TablesOK(shown) /\ shownStat \in [OrderShops -> Stats]
    BY EmptyTables DEF OrderInit
  <2>3. TablesOK(collected) /\ stat \in [OrderShops -> Stats]
    BY EmptyTables DEF OrderInit
  <2>4. /\ busy \in BOOLEAN /\ canExport \in BOOLEAN /\ wanted \in SUBSET Orders /\ byPhone \in BOOLEAN
        /\ before \in [OrderShops -> SUBSET Orders] /\ todo \in SUBSET OrderShops /\ stage \in QueryStages
    BY DEF OrderInit, QueryStages
  <2>5. /\ page \in Nat /\ got \in Seq(Orders) /\ total \in Nat /\ next \in Nat \ {0}
        /\ job \in [Runners -> Nat] /\ results \in Seq(Rows \cup {NotMade})
    BY <1>2 DEF OrderInit
  <2> QED
    BY <1>1, <2>1, <2>2, <2>3, <2>4, <2>5 DEF OrderTypeOK
<1>4. \A s \in OrderShops : stat[s].ok = FALSE
  BY DEF OrderInit, NotCollected
<1>5. StillListed /\ PagesRead /\ ListRead /\ PoolWorks /\ RunnersRest
  BY DEF OrderInit, StillListed, PagesRead, ListRead, PoolWorks, RunnersRest
<1>6. CollectedHasAll /\ NothingAsked /\ BusyAsks /\ ~canExport
  BY <1>4 DEF OrderInit, CollectedHasAll, HasAll, NothingAsked, BusyAsks
<1> QED
  BY <1>3, <1>5, <1>6 DEF OrderInv

\* What hangs on the table of the page and on what it was asked for.
ShownHasAll == canExport => \A s \in OrderShops : HasAll(shownStat, shown, s)

LEMMA PlaceOrderKeeps ==
  ASSUME OrderInv, NEW s \in OrderShops, NEW o \in Orders, NEW at \in 1..(Len(listing[s]) + 1),
         PlaceOrder(s, at, o)
  PROVE  OrderInv'
<1> DEFINE list == listing[s]
           longer == SubSeq(list, 1, at - 1) \o <<o>> \o SubSeq(list, at, Len(list))
<1>1. list \in Seq(Orders) /\ OrderTypeOK
  BY DEF OrderInv, OrderTypeOK
<1>2. /\ longer \in Seq(Orders) /\ Len(longer) = Len(list) + 1
      /\ \A j \in 1..Len(list) : longer[IF j < at THEN j ELSE j + 1] = list[j]
  <2>1. at \in 1..(Len(list) + 1)
    OBVIOUS
  <2>2. longer = SubSeq(list, 1, at - 1) \o <<o>> \o SubSeq(list, at, Len(list))
    OBVIOUS
  <2> HIDE DEF list, longer
  <2> QED
    BY <1>1, <2>1, <2>2, Inserted, ZenonT(40)
<1>3. listing' = [listing EXCEPT ![s] = longer] /\ placed' = placed + 1
  BY DEF PlaceOrder
<1> HIDE DEF longer
<1>4. /\ UNCHANGED <<searches, busy, canExport, shown, shownStat>>
      /\ UNCHANGED <<wanted, byPhone, before, todo, stage, shop, page, got, total, next, job, results>>
      /\ UNCHANGED <<collected, stat>>
  BY DEF PlaceOrder, pageVars, queryVars
<1>5. OrderTypeOK'
  BY <1>1, <1>2, <1>3, <1>4 DEF OrderTypeOK, TablesOK
<1>6. \* Whatever was somewhere in a list is there or further down.
      ASSUME NEW t \in OrderShops, NEW j \in DOMAIN listing[t]
      PROVE  \E n \in DOMAIN listing'[t] : n >= j /\ listing'[t][n] = listing[t][j]
  <2>1. CASE t # s
    BY <2>1, <1>1, <1>3, <1>6 DEF OrderTypeOK
  <2>2. CASE t = s
    <3>1. j \in 1..Len(list) /\ listing'[s] = longer /\ DOMAIN longer = 1..(Len(list) + 1)
      BY <2>2, <1>1, <1>2, <1>3, <1>6, LenProperties DEF OrderTypeOK
    <3>2. \E n \in 1..(Len(list) + 1) : n >= j /\ longer[n] = list[j]
      <4>1. CASE j < at
        BY <4>1, <3>1, <1>2
      <4>2. CASE j >= at
        BY <4>2, <3>1, <1>2
      <4>3. j < at \/ j >= at
        BY <3>1
      <4> QED
        BY <4>1, <4>2, <4>3
    <3> QED
      BY <3>1, <3>2, <2>2
  <2> QED
    BY <2>1, <2>2
<1>7. StillListed'
  BY <1>4, <1>6 DEF OrderInv, StillListed, Entries
<1>8. PagesRead'
  <2> SUFFICES ASSUME stage = "list"
               PROVE  /\ Len(got) = page * Limit
                      /\ \A b \in before[shop] : b \in Entries(got) \/
                           \E j \in DOMAIN listing'[shop] : j > page * Limit /\ listing'[shop][j] = b
    BY <1>4 DEF PagesRead
  <2>1. Len(got) = page * Limit /\ page * Limit \in Nat /\ shop \in OrderShops
    BY <1>1, OrderQueryAssumption DEF OrderInv, PagesRead, OrderTypeOK
  <2>2. ASSUME NEW b \in before[shop], NEW j \in DOMAIN listing[shop], j > page * Limit, listing[shop][j] = b
        PROVE  \E n \in DOMAIN listing'[shop] : n > page * Limit /\ listing'[shop][n] = b
    <3>1. PICK n \in DOMAIN listing'[shop] : n >= j /\ listing'[shop][n] = listing[shop][j]
      BY <1>6, <2>1
    <3>2. j \in Nat /\ n \in Nat
      <4>1. listing[shop] \in Seq(Orders) /\ listing'[shop] \in Seq(Orders)
        BY <1>1, <1>5, <2>1, <1>4 DEF OrderTypeOK
      <4> QED
        BY <4>1, <2>2, LenProperties
    <3> QED
      BY <3>1, <3>2, <2>1, <2>2
  <2> QED
    BY <2>1, <2>2 DEF OrderInv, PagesRead
<1>9. ListRead' /\ PoolWorks' /\ RunnersRest' /\ CollectedHasAll' /\ NothingAsked' /\ BusyAsks'
  BY <1>4 DEF OrderInv, ListRead, PoolWorks, RunnersRest, CollectedHasAll, HasAll, NothingAsked, BusyAsks
<1>10. ShownHasAll'
  BY <1>4 DEF OrderInv, ShownHasAll, HasAll
<1> QED
  BY <1>5, <1>7, <1>8, <1>9, <1>10 DEF OrderInv, ShownHasAll

LEMMA SearchKeeps ==
  ASSUME OrderInv, NEW titles \in SUBSET OrderShops, NEW filter \in SUBSET Orders, NEW phone \in BOOLEAN,
         Search(titles, filter, phone)
  PROVE  OrderInv'
<1>1. /\ ~busy /\ ~canExport' /\ busy' = TRUE /\ canExport' = FALSE /\ searches' = searches + 1
      /\ wanted' = filter /\ byPhone' = phone /\ todo' = titles /\ stage' = "next"
      /\ before' = [s \in OrderShops |-> Entries(listing[s])]
      /\ UNCHANGED <<listing, placed, shown, shownStat, shop, page, got, total, next, job, results>>
      /\ UNCHANGED <<collected, stat>>
  BY DEF Search
<1>2. OrderTypeOK
  BY DEF OrderInv
<1>3. stage = "none" /\ \A s \in OrderShops : ~stat[s].ok
  BY <1>1 DEF OrderInv, BusyAsks, NothingAsked
<1>4. \A s \in OrderShops : Entries(listing[s]) \in SUBSET Orders
  BY <1>2, LenProperties DEF OrderTypeOK, Entries
<1>5. OrderTypeOK'
  <2>1. before' \in [OrderShops -> SUBSET Orders]
    BY <1>1, <1>4
  <2>2. busy' \in BOOLEAN /\ canExport' \in BOOLEAN
    BY <1>1
  <2>3. byPhone' \in BOOLEAN
    BY <1>1
  <2>4. wanted' \in SUBSET Orders /\ todo' \in SUBSET OrderShops /\ stage' \in QueryStages
    BY <1>1 DEF QueryStages
  <2>5. searches' \in Nat
    BY <1>1, <1>2 DEF OrderTypeOK
  <2> QED
    BY <1>1, <1>2, <2>1, <2>2, <2>3, <2>4, <2>5 DEF OrderTypeOK, TablesOK
<1>6. StillListed' /\ PagesRead' /\ ListRead' /\ PoolWorks'
  BY <1>1 DEF StillListed, PagesRead, ListRead, PoolWorks
<1>7. RunnersRest' /\ CollectedHasAll' /\ NothingAsked' /\ BusyAsks'
  BY <1>1, <1>3 DEF OrderInv, RunnersRest, CollectedHasAll, HasAll, NothingAsked, BusyAsks
<1> QED
  BY <1>1, <1>5, <1>6, <1>7 DEF OrderInv

\* What is left of a query that is over.
LEMMA OverKeeps ==
  ASSUME OrderInv, QueryDone, TablesOK(shown)', shownStat' \in [OrderShops -> Stats], canExport' \in BOOLEAN,
         UNCHANGED <<listing, placed, searches, wanted, byPhone, before>>, ShownHasAll'
  PROVE  OrderInv'
<1>1. /\ shop' \in OrderShops /\ page' \in Nat /\ got' \in Seq(Orders) /\ total' \in Nat
      /\ next' \in Nat \ {0} /\ job' \in [Runners -> Nat] /\ \A r \in Runners : job'[r] = 0
      /\ results' \in Seq(Rows \cup {NotMade})
  BY ShopDoneTyped DEF QueryDone
<1>2. /\ stage' = "none" /\ busy' = FALSE /\ todo' = {}
      /\ collected' = [s \in OrderShops |-> <<>>] /\ stat' = [s \in OrderShops |-> NotCollected]
  BY DEF QueryDone
<1>3. TablesOK(collected)' /\ stat' \in [OrderShops -> Stats]
  BY <1>2, EmptyTables DEF TablesOK
<1>4. \A s \in OrderShops : stat'[s].ok = FALSE
  BY <1>2 DEF NotCollected
<1>5. OrderTypeOK'
  <2>1. OrderTypeOK
    BY DEF OrderInv
  <2> QED
    BY <1>1, <1>2, <1>3, <2>1 DEF OrderTypeOK, QueryStages
<1>6. StillListed' /\ PagesRead' /\ ListRead' /\ PoolWorks' /\ RunnersRest'
  BY <1>1, <1>2 DEF OrderInv, StillListed, PagesRead, ListRead, PoolWorks, RunnersRest
<1>7. CollectedHasAll' /\ NothingAsked' /\ BusyAsks'
  BY <1>2, <1>4 DEF CollectedHasAll, HasAll, NothingAsked, BusyAsks
<1> QED
  BY <1>5, <1>6, <1>7 DEF OrderInv, ShownHasAll

LEMMA QueryFailsKeeps == OrderInv /\ QueryFails => OrderInv'
<1> SUFFICES ASSUME OrderInv, QueryFails PROVE OrderInv'
  OBVIOUS
<1>1. QueryDone /\ UNCHANGED <<listing, placed, searches, wanted, byPhone, before>>
  BY DEF QueryFails
<1>2. UNCHANGED <<canExport, shown, shownStat, byPhone, before, wanted>>
  BY DEF QueryFails
<1>3. TablesOK(shown)' /\ shownStat' \in [OrderShops -> Stats] /\ canExport' \in BOOLEAN
  BY <1>2 DEF OrderInv, OrderTypeOK, TablesOK
<1>4. ShownHasAll'
  BY <1>2 DEF OrderInv, ShownHasAll, HasAll
<1> QED
  BY <1>1, <1>3, <1>4, OverKeeps

LEMMA AnswerKeeps == OrderInv /\ Answer => OrderInv'
<1> SUFFICES ASSUME OrderInv, Answer PROVE OrderInv'
  OBVIOUS
<1>1. QueryDone /\ UNCHANGED <<listing, placed, searches, wanted, byPhone, before>>
  BY DEF Answer
<1>2. CASE /\ shown' = collected /\ shownStat' = stat
           /\ canExport' = (\E s \in OrderShops : DOMAIN collected[s] # {})
  <2>1. TablesOK(shown)' /\ shownStat' \in [OrderShops -> Stats] /\ canExport' \in BOOLEAN
    BY <1>2 DEF OrderInv, OrderTypeOK, TablesOK
  <2>2. ShownHasAll'
    BY <1>1, <1>2 DEF OrderInv, CollectedHasAll, ShownHasAll, HasAll
  <2> QED
    BY <1>1, <2>1, <2>2, OverKeeps
<1>3. CASE UNCHANGED <<canExport, shown, shownStat>>
  <2>1. TablesOK(shown)' /\ shownStat' \in [OrderShops -> Stats] /\ canExport' \in BOOLEAN
    BY <1>3 DEF OrderInv, OrderTypeOK, TablesOK
  <2>2. ShownHasAll'
    BY <1>1, <1>3 DEF OrderInv, ShownHasAll, HasAll
  <2> QED
    BY <1>1, <2>1, <2>2, OverKeeps
<1> QED
  BY <1>2, <1>3 DEF Answer

\* What is left of a step that is not the page's, nor changes what it asked for.
LEMMA ServerSteps ==
  ASSUME OrderInv, UNCHANGED <<listing, placed, searches, pageVars, wanted, byPhone, before>>
  PROVE  /\ StillListed' /\ ShownHasAll'
         /\ listing' \in [OrderShops -> Seq(Orders)] /\ placed' \in Nat /\ searches' \in Nat
         /\ busy' \in BOOLEAN /\ canExport' \in BOOLEAN
         /\ TablesOK(shown)' /\ shownStat' \in [OrderShops -> Stats]
         /\ wanted' \in SUBSET Orders /\ byPhone' \in BOOLEAN /\ before' \in [OrderShops -> SUBSET Orders]
         /\ stage # "none" => busy'
<1>1. UNCHANGED <<busy, canExport, shown, shownStat>>
  BY DEF pageVars
<1>2. OrderTypeOK
  BY DEF OrderInv
<1> QED
  BY <1>1, <1>2 DEF OrderInv, OrderTypeOK, TablesOK, StillListed, ShownHasAll, HasAll, BusyAsks

LEMMA LeaveOutKeeps ==
  ASSUME OrderInv, NEW s \in OrderShops, LeaveOut(s)
  PROVE  OrderInv'
<1>1. /\ stage = "next" /\ todo' = todo \ {s}
      /\ UNCHANGED <<listing, placed, searches, pageVars, wanted, byPhone, before>>
      /\ UNCHANGED <<stage, shop, page, got, total, next, job, results, collected, stat>>
  BY DEF LeaveOut
<1>2. OrderTypeOK'
  <2>1. OrderTypeOK
    BY DEF OrderInv
  <2> QED
    BY <1>1, <2>1, ServerSteps DEF OrderTypeOK, TablesOK
<1>3. PagesRead' /\ ListRead' /\ PoolWorks' /\ RunnersRest' /\ CollectedHasAll'
  BY <1>1 DEF OrderInv, PagesRead, ListRead, PoolWorks, RunnersRest, CollectedHasAll, HasAll
<1>4. NothingAsked' /\ BusyAsks'
  BY <1>1, ServerSteps DEF NothingAsked, BusyAsks
<1> QED
  BY <1>1, <1>2, <1>3, <1>4, ServerSteps DEF OrderInv, ShownHasAll

LEMMA CollectShopKeeps ==
  ASSUME OrderInv, NEW s \in OrderShops, CollectShop(s)
  PROVE  OrderInv'
<1>1. /\ stage = "next" /\ todo' = todo \ {s} /\ stage' = "list" /\ shop' = s
      /\ page' = 0 /\ got' = <<>> /\ total' = 0
      /\ UNCHANGED <<listing, placed, searches, pageVars, wanted, byPhone, before>>
      /\ UNCHANGED <<next, job, results, collected, stat>>
  BY DEF CollectShop
<1>2. OrderTypeOK /\ <<>> \in Seq(Orders)
  BY EmptySeq DEF OrderInv
<1>3. OrderTypeOK'
  BY <1>1, <1>2, ServerSteps DEF OrderTypeOK, TablesOK, QueryStages
<1>4. PagesRead'
  <2>1. /\ Len(got') = 0 /\ page' * Limit = 0 /\ listing'[s] = listing[s] /\ before'[s] = before[s]
        /\ listing[s] \in Seq(Orders)
    BY <1>1, <1>2, EmptySeq, OrderQueryAssumption DEF OrderTypeOK
  <2>2. ASSUME NEW b \in before[s]
        PROVE  \E j \in DOMAIN listing[s] : j > 0 /\ listing[s][j] = b
    BY <2>1, LenProperties DEF OrderInv, StillListed, Entries
  <2> QED
    BY <1>1, <2>1, <2>2 DEF PagesRead
<1>5. ListRead' /\ PoolWorks' /\ RunnersRest' /\ CollectedHasAll'
  BY <1>1 DEF OrderInv, ListRead, PoolWorks, RunnersRest, CollectedHasAll, HasAll
<1>6. NothingAsked' /\ BusyAsks'
  BY <1>1, ServerSteps DEF NothingAsked, BusyAsks
<1> QED
  BY <1>1, <1>3, <1>4, <1>5, <1>6, ServerSteps DEF OrderInv, ShownHasAll

LEMMA ListFailsKeeps == OrderInv /\ ListFails => OrderInv'
<1> SUFFICES ASSUME OrderInv, ListFails PROVE OrderInv'
  OBVIOUS
<1>1. /\ stage = "list" /\ stage' = "next" /\ ShopDone
      /\ UNCHANGED <<listing, placed, searches, pageVars, wanted, byPhone, before>>
      /\ UNCHANGED <<todo, collected, stat>>
  BY DEF ListFails
<1>2. OrderTypeOK
  BY DEF OrderInv
<1>3. OrderTypeOK'
  BY <1>1, <1>2, ServerSteps, ShopDoneTyped DEF OrderTypeOK, TablesOK, QueryStages
<1>4. PagesRead' /\ ListRead' /\ PoolWorks' /\ RunnersRest' /\ CollectedHasAll'
  BY <1>1, ShopDoneTyped DEF OrderInv, PagesRead, ListRead, PoolWorks, RunnersRest, CollectedHasAll, HasAll
<1>5. NothingAsked' /\ BusyAsks'
  BY <1>1, ServerSteps DEF NothingAsked, BusyAsks
<1> QED
  BY <1>1, <1>3, <1>4, <1>5, ServerSteps DEF OrderInv, ShownHasAll

LEMMA ReadPageKeeps == OrderInv /\ ReadPage => OrderInv'
<1> SUFFICES ASSUME OrderInv, ReadPage PROVE OrderInv'
  OBVIOUS
<1> DEFINE list == listing[shop]
           es == PageOf(list, page)
<1>1. /\ stage = "list" /\ page' = page + 1 /\ got' = got \o es /\ total' = Len(list)
      /\ UNCHANGED <<listing, placed, searches, pageVars, wanted, byPhone, before>>
      /\ UNCHANGED <<todo, shop, job, collected, stat>>
  BY DEF ReadPage
<1>2. OrderTypeOK /\ list \in Seq(Orders) /\ page \in Nat /\ shop \in OrderShops /\ got \in Seq(Orders)
  BY DEF OrderInv, OrderTypeOK
<1>3. /\ es \in Seq(Orders) /\ Len(es) <= Limit /\ (page + 1) * Limit = page * Limit + Limit
      /\ Len(es) = Limit \/ Len(list) < (page + 1) * Limit
      /\ \A j \in 1..Len(list) :
           j > page * Limit => list[j] \in Entries(es) \/ j > (page + 1) * Limit
  BY <1>2, PageHas
<1>4. /\ Len(got) = page * Limit
      /\ \A o \in before[shop] : o \in Entries(got) \/ \E j \in DOMAIN list : j > page * Limit /\ list[j] = o
  BY <1>1 DEF OrderInv, PagesRead
<1>5. page * Limit \in Nat /\ (page + 1) * Limit \in Nat /\ Limit \in Nat \ {0}
  BY <1>2, OrderQueryAssumption
<1>6. IF LastPage(es, got', total', page')
      THEN stage' = "pool" /\ next' = 1 /\ results' = [k \in 1..Len(got') |-> NotMade]
      ELSE UNCHANGED <<stage, next, results>>
  BY DEF ReadPage
<1> HIDE DEF es
<1>7. /\ got' \in Seq(Orders) /\ Len(got') = Len(got) + Len(es)
      /\ Entries(got) \subseteq Entries(got') /\ Entries(es) \subseteq Entries(got')
  <2>1. /\ got \o es \in Seq(Orders) /\ Len(got \o es) = Len(got) + Len(es)
        /\ \A j \in 1..(Len(got) + Len(es)) :
             (got \o es)[j] = IF j <= Len(got) THEN got[j] ELSE es[j - Len(got)]
    BY <1>2, <1>3, ConcatProperties
  <2>2. /\ Len(got) \in Nat /\ Len(es) \in Nat /\ DOMAIN got = 1..Len(got)
        /\ DOMAIN es = 1..Len(es) /\ DOMAIN (got \o es) = 1..(Len(got) + Len(es))
    BY <1>2, <1>3, <2>1, LenProperties
  <2>3. ASSUME NEW j \in 1..Len(got) PROVE got[j] \in Entries(got')
    <3>1. j \in 1..(Len(got) + Len(es)) /\ j <= Len(got)
      BY <2>2
    <3> QED
      BY <3>1, <2>1, <2>2, <1>1 DEF Entries
  <2>4. ASSUME NEW j \in 1..Len(es) PROVE es[j] \in Entries(got')
    <3>1. /\ Len(got) + j \in 1..(Len(got) + Len(es)) /\ ~(Len(got) + j <= Len(got))
          /\ Len(got) + j - Len(got) = j
      BY <2>2
    <3>2. (got \o es)[Len(got) + j] = es[Len(got) + j - Len(got)]
      BY <3>1, <2>1
    <3>3. (got \o es)[Len(got) + j] = es[j]
      BY <3>1, <3>2
    <3>4. Len(got) + j \in DOMAIN got' /\ got' = got \o es
      BY <3>1, <2>2, <1>1
    <3> QED
      BY <3>3, <3>4 DEF Entries
  <2> QED
    BY <2>1, <2>2, <2>3, <2>4, <1>1 DEF Entries
<1>8. \A o \in before[shop] :
        o \in Entries(got') \/ \E j \in DOMAIN list : j > (page + 1) * Limit /\ list[j] = o
  BY <1>2, <1>3, <1>4, <1>7, LenProperties
<1>9. stage' = "list" => Len(es) = Limit
  <2>1. Len(es) \in Nat
    BY <1>3, LenProperties
  <2> QED
    BY <1>3, <1>5, <1>6, <2>1 DEF LastPage
<1>10. PagesRead'
  BY <1>1, <1>2, <1>3, <1>4, <1>5, <1>7, <1>8, <1>9 DEF PagesRead
<1>11. ListRead'
  <2>1. ASSUME NEW j \in DOMAIN list, j > (page + 1) * Limit
        PROVE  Len(list) > Len(got')
    <3>1. j \in Nat /\ j <= Len(list) /\ Len(list) \in Nat
      BY <1>2, LenProperties
    <3> QED
      BY <3>1, <2>1, <1>3, <1>4, <1>5, <1>7
  <2> QED
    BY <1>1, <1>8, <2>1 DEF ListRead
<1>12. /\ next' \in Nat \ {0} /\ stage' \in QueryStages /\ stage' \in {"list", "pool"}
       /\ results' \in Seq(Rows \cup {NotMade})
       /\ stage' = "pool" => DOMAIN results' = 1..Len(got')
  <2>1. Len(got') \in Nat
    BY <1>7, LenProperties
  <2>2. [k \in 1..Len(got') |-> NotMade] \in Seq(Rows \cup {NotMade})
    BY <2>1
  <2> QED
    BY <1>1, <1>2, <1>6, <2>2, SMTT(30) DEF OrderTypeOK, QueryStages
<1>13. OrderTypeOK'
  <2>1. /\ page' \in Nat /\ total' \in Nat /\ shop' \in OrderShops /\ todo' \in SUBSET OrderShops
        /\ job' \in [Runners -> Nat] /\ TablesOK(collected)' /\ stat' \in [OrderShops -> Stats]
    BY <1>1, <1>2, LenProperties DEF OrderTypeOK, TablesOK
  <2>2. UNCHANGED <<listing, placed, searches, pageVars, wanted, byPhone, before>>
    BY <1>1
  <2>3. got' \in Seq(Orders) /\ next' \in Nat \ {0} /\ stage' \in QueryStages /\ results' \in Seq(Rows \cup {NotMade})
    BY <1>7, <1>12
  <2> HIDE DEF list
  <2> QED
    BY <2>1, <2>2, <2>3, ServerSteps DEF OrderTypeOK
<1>14. PoolWorks' /\ RunnersRest'
  <2>1. \A r \in Runners : job'[r] = 0
    BY <1>1 DEF OrderInv, RunnersRest
  <2>2. Len(got') \in Nat
    BY <1>7, LenProperties
  <2>3. stage' = "pool" => next' = 1
    BY <1>1, <1>6
  <2>4. PoolWorks'
    <3> SUFFICES ASSUME stage' = "pool"
                 PROVE  /\ DOMAIN results' = 1..Len(got') /\ next' <= Len(got') + 1
                        /\ \A r \in Runners : job'[r] < next'
                        /\ \A q, r \in Runners : job'[q] = job'[r] /\ job'[q] # 0 => q = r
                        /\ \A k \in 1..Len(got') : k >= next'
      BY DEF PoolWorks
    <3>1. DOMAIN results' = 1..Len(got') /\ next' = 1
      BY <1>12, <2>3
    <3> HIDE DEF list
    <3> QED
      BY <3>1, <2>1, <2>2
  <2> QED
    BY <2>1, <2>4 DEF RunnersRest
<1>15. CollectedHasAll' /\ NothingAsked' /\ BusyAsks'
  BY <1>1, <1>12, ServerSteps DEF OrderInv, CollectedHasAll, HasAll, NothingAsked, BusyAsks
<1> QED
  BY <1>1, <1>10, <1>11, <1>13, <1>14, <1>15, ServerSteps DEF OrderInv, ShownHasAll

LEMMA TakeKeeps ==
  ASSUME OrderInv, NEW r \in Runners, Take(r)
  PROVE  OrderInv'
<1>1. /\ stage = "pool" /\ next <= Len(got) /\ job' = [job EXCEPT ![r] = next] /\ next' = next + 1
      /\ UNCHANGED <<listing, placed, searches, pageVars, wanted, byPhone, before>>
      /\ UNCHANGED <<todo, stage, shop, page, got, total, results, collected, stat>>
  BY DEF Take
<1>2. OrderTypeOK /\ next \in Nat \ {0} /\ job \in [Runners -> Nat] /\ Len(got) \in Nat
  BY LenProperties DEF OrderInv, OrderTypeOK
<1>3. OrderTypeOK'
  BY <1>1, <1>2, ServerSteps DEF OrderTypeOK, TablesOK
<1>4. PoolWorks'
  <2>1. /\ DOMAIN results = 1..Len(got) /\ \A q \in Runners : job[q] < next
        /\ \A p, q \in Runners : job[p] = job[q] /\ job[p] # 0 => p = q
        /\ \A k \in 1..Len(got) : \/ k >= next \/ \E q \in Runners : job[q] = k
                                  \/ results[k] \in Rows /\ results[k].order = got[k]
    BY <1>1 DEF OrderInv, PoolWorks
  <2>2. job'[r] = next /\ \A q \in Runners \ {r} : job'[q] = job[q]
    BY <1>1, <1>2
  <2>3. job[r] = 0
    BY DEF Take
  <2>4. ASSUME NEW k \in 1..Len(got)
        PROVE  k >= next' \/ (\E q \in Runners : job'[q] = k) \/ (results[k] \in Rows /\ results[k].order = got[k])
    <3>1. CASE k = next
      BY <3>1, <2>2
    <3>2. CASE k # next
      <4>1. ASSUME NEW q \in Runners, job[q] = k PROVE job'[q] = k
        BY <4>1, <2>2, <2>3, <2>4
      <4> QED
        BY <3>2, <4>1, <2>1, <1>1, <1>2
    <3> QED
      BY <3>1, <3>2
  <2>5. \A q \in Runners : job'[q] < next'
    BY <1>1, <1>2, <2>1, <2>2
  <2>6. \A p, q \in Runners : job'[p] = job'[q] /\ job'[p] # 0 => p = q
    BY <1>2, <2>1, <2>2
  <2>7. next' <= Len(got) + 1
    BY <1>1, <1>2
  <2> QED
    BY <1>1, <2>1, <2>4, <2>5, <2>6, <2>7 DEF PoolWorks
<1>5. PagesRead' /\ ListRead' /\ RunnersRest' /\ CollectedHasAll'
  BY <1>1 DEF OrderInv, PagesRead, ListRead, RunnersRest, CollectedHasAll, HasAll
<1>6. NothingAsked' /\ BusyAsks'
  BY <1>1, ServerSteps DEF NothingAsked, BusyAsks
<1> QED
  BY <1>1, <1>3, <1>4, <1>5, <1>6, ServerSteps DEF OrderInv, ShownHasAll

LEMMA MakeRowKeeps ==
  ASSUME OrderInv, NEW r \in Runners, NEW phone \in BOOLEAN, MakeRow(r, phone)
  PROVE  OrderInv'
<1> DEFINE row == mergeOrderRow(got[job[r]], phone)
<1>1. /\ stage = "pool" /\ job[r] # 0 /\ results' = [results EXCEPT ![job[r]] = row]
      /\ job' = [job EXCEPT ![r] = 0]
      /\ UNCHANGED <<listing, placed, searches, pageVars, wanted, byPhone, before>>
      /\ UNCHANGED <<todo, stage, shop, page, got, total, next, collected, stat>>
  BY DEF MakeRow
<1>2. /\ OrderTypeOK /\ next \in Nat \ {0} /\ job \in [Runners -> Nat] /\ got \in Seq(Orders)
      /\ Len(got) \in Nat /\ results \in Seq(Rows \cup {NotMade})
  BY LenProperties DEF OrderInv, OrderTypeOK
<1>3. /\ DOMAIN results = 1..Len(got) /\ next <= Len(got) + 1 /\ \A q \in Runners : job[q] < next
      /\ \A p, q \in Runners : job[p] = job[q] /\ job[p] # 0 => p = q
      /\ \A k \in 1..Len(got) : \/ k >= next \/ \E q \in Runners : job[q] = k
                                \/ results[k] \in Rows /\ results[k].order = got[k]
  BY <1>1 DEF OrderInv, PoolWorks
<1>4. job[r] \in 1..Len(got) /\ got[job[r]] \in Orders
  BY <1>1, <1>2, <1>3
<1>5. row \in Rows /\ row.order = got[job[r]]
  BY <1>4 DEF mergeOrderRow, Rows
<1> HIDE DEF row
<1>6. /\ results'[job[r]] = row /\ \A k \in 1..Len(got) : k # job[r] => results'[k] = results[k]
      /\ DOMAIN results' = 1..Len(got) /\ results' \in Seq(Rows \cup {NotMade})
  BY <1>1, <1>2, <1>3, <1>4, <1>5
<1>7. job'[r] = 0 /\ \A q \in Runners \ {r} : job'[q] = job[q]
  BY <1>1, <1>2
<1>8. OrderTypeOK'
  <2>1. job' \in [Runners -> Nat]
    BY <1>1, <1>2
  <2> QED
    BY <1>1, <1>2, <1>6, <2>1, ServerSteps DEF OrderTypeOK, TablesOK
<1>9. PoolWorks'
  <2>1. ASSUME NEW k \in 1..Len(got)
        PROVE  k >= next \/ (\E q \in Runners : job'[q] = k) \/ (results'[k] \in Rows /\ results'[k].order = got[k])
    <3>1. CASE k = job[r]
      BY <3>1, <1>5, <1>6
    <3>2. CASE k # job[r]
      BY <3>2, <1>3, <1>6, <1>7
    <3> QED
      BY <3>1, <3>2
  <2>2. \A q \in Runners : job'[q] < next
    BY <1>2, <1>3, <1>7
  <2>3. \A p, q \in Runners : job'[p] = job'[q] /\ job'[p] # 0 => p = q
    BY <1>3, <1>7
  <2> QED
    BY <1>1, <1>3, <1>6, <2>1, <2>2, <2>3 DEF PoolWorks
<1>10. PagesRead' /\ ListRead' /\ RunnersRest' /\ CollectedHasAll'
  BY <1>1 DEF OrderInv, PagesRead, ListRead, RunnersRest, CollectedHasAll, HasAll
<1>11. NothingAsked' /\ BusyAsks'
  BY <1>1, ServerSteps DEF NothingAsked, BusyAsks
<1> QED
  BY <1>1, <1>8, <1>9, <1>10, <1>11, ServerSteps DEF OrderInv, ShownHasAll

LEMMA PoolEndsKeeps == OrderInv /\ PoolEnds => OrderInv'
<1> SUFFICES ASSUME OrderInv, PoolEnds PROVE OrderInv'
  OBVIOUS
<1> DEFINE orderRows == filterOrders(results)
           figures == [ok |-> TRUE, listed |-> Len(got), total |-> total]
<1>1. /\ stage = "pool" /\ next > Len(got) /\ \A r \in Runners : job[r] = 0
      /\ stage' = "next" /\ ShopDone
      /\ collected' = [collected EXCEPT ![shop] = orderRows] /\ stat' = [stat EXCEPT ![shop] = figures]
      /\ UNCHANGED <<listing, placed, searches, pageVars, wanted, byPhone, before>>
      /\ UNCHANGED todo
  BY DEF PoolEnds
<1>2. /\ OrderTypeOK /\ shop \in OrderShops /\ got \in Seq(Orders) /\ Len(got) \in Nat
      /\ DOMAIN got = 1..Len(got) /\ total \in Nat /\ next \in Nat /\ stat \in [OrderShops -> Stats]
      /\ TablesOK(collected)
  BY LenProperties DEF OrderInv, OrderTypeOK
<1>3. DOMAIN results = 1..Len(got) /\ \A k \in 1..Len(got) : results[k] \in Rows /\ results[k].order = got[k]
  BY <1>1, <1>2 DEF OrderInv, PoolWorks
<1>4. /\ DOMAIN orderRows = {n \in 1..Len(got) : results[n].order \in wanted /\ (byPhone => results[n].phone)}
      /\ \A k \in DOMAIN orderRows : orderRows[k] = results[k]
  BY <1>3 DEF filterOrders
<1>5. figures \in Stats /\ figures.ok /\ figures.listed = Len(got) /\ figures.total = total
  BY <1>2 DEF Stats
<1> HIDE DEF orderRows, figures
<1>6. /\ collected'[shop] = orderRows /\ stat'[shop] = figures
      /\ \A s \in OrderShops : s # shop => collected'[s] = collected[s] /\ stat'[s] = stat[s]
      /\ DOMAIN collected' = OrderShops /\ stat' \in [OrderShops -> Stats]
  BY <1>1, <1>2, <1>5 DEF TablesOK
<1>7. TablesOK(collected)'
  <2>1. \A k \in DOMAIN orderRows : orderRows[k] \in Rows
    BY <1>3, <1>4
  <2>2. \A s \in OrderShops : \A k \in DOMAIN collected'[s] : collected'[s][k] \in Rows
    BY <1>2, <1>6, <2>1 DEF TablesOK
  <2> QED
    BY <1>6, <2>2 DEF TablesOK
<1>8. OrderTypeOK'
  <2>1. todo' \in SUBSET OrderShops /\ stage' \in QueryStages
    BY <1>1, <1>2 DEF OrderTypeOK, QueryStages
  <2> QED
    BY <1>1, <1>6, <1>7, <2>1, ServerSteps, ShopDoneTyped DEF OrderTypeOK
<1>9. CollectedHasAll'
  <2>1. UNCHANGED <<before, wanted, byPhone>>
    BY <1>1
  <2>2. ASSUME NEW s \in OrderShops, s # shop PROVE HasAll(stat', collected', s)
    BY <2>1, <2>2, <1>6 DEF OrderInv, CollectedHasAll, HasAll, Cut
  <2>3. HasAll(stat', collected', shop)
    <3> SUFFICES ASSUME ~Cut(figures), ~byPhone, NEW o \in before[shop] \cap wanted
                 PROVE  \E k \in DOMAIN orderRows : orderRows[k].order = o
      BY <1>6 DEF HasAll
    <3>1. \A b \in before[shop] : b \in Entries(got)
      BY <1>1, <1>2, <1>5 DEF OrderInv, ListRead, Cut
    <3>2. PICK k \in 1..Len(got) : got[k] = o
      BY <3>1, <1>2 DEF Entries
    <3> QED
      BY <3>2, <1>3, <1>4
  <2> QED
    BY <2>1, <2>2, <2>3 DEF CollectedHasAll, HasAll
<1>10. PagesRead' /\ ListRead' /\ PoolWorks' /\ RunnersRest'
  BY <1>1, ShopDoneTyped DEF PagesRead, ListRead, PoolWorks, RunnersRest
<1>11. NothingAsked' /\ BusyAsks'
  BY <1>1, ServerSteps DEF NothingAsked, BusyAsks
<1> QED
  BY <1>1, <1>8, <1>9, <1>10, <1>11, ServerSteps DEF OrderInv, ShownHasAll

LEMMA OrderStep ==
  ASSUME OrderInv, [OrderNext]_orderVars
  PROVE  OrderInv'
<1>1. ASSUME UNCHANGED orderVars PROVE OrderInv'
  <2>1. /\ UNCHANGED <<listing, placed, searches, busy, canExport, shown, shownStat>>
        /\ UNCHANGED <<wanted, byPhone, before, todo, stage, shop, page, got, total, next, job, results>>
        /\ UNCHANGED <<collected, stat>>
    BY <1>1 DEF orderVars, pageVars, queryVars
  <2>2. OrderTypeOK'
    BY <2>1 DEF OrderInv, OrderTypeOK, TablesOK
  <2>3. StillListed' /\ PagesRead' /\ ListRead' /\ PoolWorks' /\ RunnersRest'
    BY <2>1 DEF OrderInv, StillListed, PagesRead, ListRead, PoolWorks, RunnersRest
  <2>4. CollectedHasAll' /\ NothingAsked' /\ BusyAsks' /\ ShownHasAll'
    BY <2>1 DEF OrderInv, CollectedHasAll, NothingAsked, BusyAsks, ShownHasAll, HasAll
  <2> QED
    BY <2>2, <2>3, <2>4 DEF OrderInv, ShownHasAll
<1>2. ASSUME NEW s \in OrderShops, NEW o \in Orders, NEW at \in 1..(Len(listing[s]) + 1), PlaceOrder(s, at, o)
      PROVE  OrderInv'
  BY <1>2, PlaceOrderKeeps
<1>3. ASSUME NEW titles \in SUBSET OrderShops, NEW filter \in Filters, NEW phone \in BOOLEAN,
             Search(titles, filter, phone)
      PROVE  OrderInv'
  BY <1>3, SearchKeeps, OrderQueryAssumption
<1>4. ASSUME QueryFails \/ Answer \/ ListFails \/ ReadPage \/ PoolEnds PROVE OrderInv'
  BY <1>4, QueryFailsKeeps, AnswerKeeps, ListFailsKeeps, ReadPageKeeps, PoolEndsKeeps
<1>5. ASSUME NEW s \in OrderShops, LeaveOut(s) \/ CollectShop(s) PROVE OrderInv'
  BY <1>5, LeaveOutKeeps, CollectShopKeeps
<1>6. ASSUME NEW r \in Runners, Take(r) PROVE OrderInv'
  BY <1>6, TakeKeeps
<1>7. ASSUME NEW r \in Runners, NEW phone \in BOOLEAN, MakeRow(r, phone)
      PROVE  OrderInv'
  BY <1>7, MakeRowKeeps
<1> QED
  BY <1>1, <1>2, <1>3, <1>4, <1>5, <1>6, <1>7 DEF OrderNext

LEMMA OrderSound == OrderInv => OrderTypeOK /\ NoneMissed
BY DEF OrderInv, NoneMissed, HasAll

(* The variables keep to their ranges: what the page and the server keep of a search. *)
THEOREM OrderTyping == OrderSpec => []OrderTypeOK
BY OrderInitially, OrderStep, OrderSound, PTL DEF OrderSpec

(***************************************************************************)
(* What may be exported answers the last search.  The list only grows, so  *)
(* that what it moves under the pages it moves on to pages not yet read;   *)
(* every page but the last is full, so that what is behind the last shows  *)
(* in the total; and the pool ends when each entry has its own row.        *)
(***************************************************************************)
THEOREM NothingMissed == OrderSpec => []NoneMissed
BY OrderInitially, OrderStep, OrderSound, PTL DEF OrderSpec


-------------------------------------------------------------------------------
(***************************************************************************)
(* The parts together (MCParts)                                            *)
(***************************************************************************)
PartsInv ==
  /\ TargetInv /\ UiInv /\ BridgeInv /\ SetupInv
  /\ CookieInv /\ WxInv /\ HomeInv /\ OrderInv

LEMMA PartsInitially ==
  ASSUME Init
  PROVE  PartsInv
BY TargetInitially, UiInitially, BridgeInitially, SetupInitially, CookieInitially, WxInitially, HomeInitially,
   OrderInitially DEF Init, PartsInv

\* A step of a part is one of its own; the others stand still.
LEMMA PartsMove ==
  ASSUME [Next]_vars
  PROVE  /\ [TargetNext]_targetVars /\ [UiNext]_uiVars /\ [BridgeNext]_bridgeVars /\ [SetupNext]_setupVars
         /\ [CookieNext]_cookieVars /\ [WxNext]_<<wxVars, cfgVars>> /\ [HomeNext]_homeVars
         /\ [OrderNext]_orderVars
<1>1. CASE UNCHANGED vars
  BY <1>1 DEF vars
<1>2. CASE Next
  BY <1>2 DEF Next, WxNext
<1> QED
  BY <1>1, <1>2

LEMMA PartsStep ==
  ASSUME PartsInv, [Next]_vars
  PROVE  PartsInv'
<1>1. TargetInv' /\ UiInv'
  BY PartsMove, TargetStep, UiStep DEF PartsInv
<1>2. BridgeInv' /\ SetupInv'
  BY PartsMove, BridgeStep, SetupStep DEF PartsInv
<1>3. CookieInv' /\ WxInv'
  BY PartsMove, CookieStep, WxStep DEF PartsInv
<1>4. HomeInv' /\ OrderInv'
  BY PartsMove, HomeStep, OrderStep DEF PartsInv
<1> QED
  BY <1>1, <1>2, <1>3, <1>4 DEF PartsInv

LEMMA PartsSound ==
  ASSUME PartsInv
  PROVE  /\ TypeOK /\ ReachesTheMeant /\ FailureToldOnce /\ CookiesSound /\ CallsServed
         /\ ShownIsTrue
<1>1. TargetTypeOK /\ MeansTheBuyer /\ FailureToldOnce
  BY TargetSound DEF PartsInv
<1>2. UiTypeOK /\ ProbeReachesOwn
  BY DEF PartsInv, UiInv
<1>3. BridgeTypeOK /\ BridgedToMeant /\ SetupTypeOK /\ ActsForOwn
  BY BridgeSound, SetupSound DEF PartsInv
<1>4. CookieTypeOK /\ CookiesSound /\ WxTypeOK /\ CallsServed
  BY CookieSound, WxSound DEF PartsInv
<1>5. HomeTypeOK /\ LampsTellTruth /\ OrderTypeOK /\ NoneMissed
  BY HomeSound, OrderSound DEF PartsInv
<1> QED
  BY <1>1, <1>2, <1>3, <1>4, <1>5 DEF TypeOK, ReachesTheMeant, ShownIsTrue

(* The invariants of the eight components hold side by side in whatever part is followed. *)
THEOREM PartsInductive == Spec => []PartsInv
BY PartsInitially, PartsStep, PTL DEF Spec

(* The variables of every part keep to their ranges: records of replies, files, *)
(* calls, cookies, rows and worker states are never of another shape.          *)
THEOREM PartsTyping == Spec => []TypeOK
BY PartsInductive, PartsSound, PTL

(***************************************************************************)
(* A reply goes to the buyer whose notice was quoted, the probe to the     *)
(* configured chat, what the order system sends to the family of names it  *)
(* means, and the bridge acts for the shop it was asked for, but for the   *)
(* causes the four properties name (a lost counter file, a page disturbed, *)
(* names that go together, a brand that is shared): for any number of      *)
(* buyers, replies, dialogs, callers, shops and accidents.                 *)
(***************************************************************************)
THEOREM BuyersReached == Spec => []ReachesTheMeant
BY PartsInductive, PartsSound, PTL

(***************************************************************************)
(* Who replied learns of a failure once unless the worker died, and a      *)
(* reply that is over and went to nobody was told of or is on record       *)
(* (claimReceipt, markReceiptSent): for any replies and accidents.         *)
(***************************************************************************)
THEOREM FailuresToldOnce == Spec => []FailureToldOnce
BY PartsInductive, PartsSound, PTL

(***************************************************************************)
(* The order server gets only whole cookies, each of the shop it is sent   *)
(* for, the harvest counts no page that is not home, and a token that was  *)
(* seen with the login is uploaded, on its way or due: for any shops,      *)
(* titles, jobs and versions (shop-cookie-uploader, cookie collector).     *)
(***************************************************************************)
THEOREM CookiesAreSound == Spec => []CookiesSound
BY PartsInductive, PartsSound, PTL

(***************************************************************************)
(* Whatever waits in the bot's response table is closed or filled once,    *)
(* and a call that had its question to itself is answered with what it     *)
(* asked for or not at all, for any calls, clients and configurations.     *)
(***************************************************************************)
THEOREM CallsAreServed == Spec => []CallsServed
BY PartsInductive, PartsSound, PTL

(***************************************************************************)
(* The home page shows no lamp as normal that is not, and none as failed   *)
(* for nothing, and the table of orders misses no order that was listed    *)
(* when the search was made: for any timeouts, fuse, shops and pages.      *)
(***************************************************************************)
THEOREM ShownTrue == Spec => []ShownIsTrue
BY PartsInductive, PartsSound, PTL
===============================================================================
