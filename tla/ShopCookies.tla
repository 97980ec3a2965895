----------------------------- MODULE ShopCookies -----------------------------
(***************************************************************************)
(* The login cookies of the shops.  Requests of a shop page, seen over     *)
(* DevTools, add to what its bridge knows of the cookie and start two      *)
(* debounced jobs: a check, which passes a changed cookie to the control   *)
(* centre, and an upload to the order server.  A buyer's message starts    *)
(* them too.  An operator's order harvests every shop: it drives the page  *)
(* through the single sign-on and uploads what the jar then holds.         *)
(***************************************************************************)
EXTENDS Naturals, FiniteSets, Sequences

CONSTANTS Shops,       \* the canonical shops, each named by its title
          Within,      \* the pairs of titles the first of which is part of the second
          Order,       \* the canonical shops in their order
          JobIds,      \* bound: jobs that run at a time, 1 to some number
          MaxVersion,  \* bound: versions of a token
          MaxCookieEvents,   \* bound: events from outside (see CookieEvent)
          Length,      \* the length of the value a version of a token has
          NoShop

\* No title is part of itself as of another, nor two titles of each other; the order names each shop once.
ASSUME ShopCookiesAssumption ==
  /\ Within \subseteq Shops \X Shops /\ \A p \in Within : p[1] # p[2] /\ <<p[2], p[1]>> \notin Within
  /\ Shops # {} /\ NoShop \notin Shops /\ MaxVersion \in Nat \ {0} /\ MaxCookieEvents \in Nat
  /\ Order \in Seq(Shops) /\ \A s \in Shops : \E k \in DOMAIN Order : Order[k] = s
  /\ \A j, k \in DOMAIN Order : Order[j] = Order[k] => j = k
  /\ Length \in [1..MaxVersion -> Nat]

VARIABLES jar,        \* the browser's cookie of each shop
          bridge,     \* what the bridge of each shop has seen
          checkDue, uploadDue, buyerDue,   \* debounce timers
          jobs,       \* running checks and uploads
          entries,    \* the collector's state file
          cooling, recovered,              \* failureCooldownUntil, loginRecoveredShops
          cache,      \* shop-cookie-upload-cache.json
          tried,      \* what the order server was last sent of each shop
          harvest,    \* the operator's order for every shop that is under way
          pageAt,     \* where each shop's page has been driven to
          cookieEvents \* how many events from outside have happened

captureVars == <<jar, bridge>>
timers == <<checkDue, uploadDue, buyerDue>>
checkVars == <<entries, cooling, recovered>>
serverVars == <<cache, tried>>
harvestVars == <<harvest, pageAt>>
cookieVars == <<captureVars, timers, jobs, checkVars, serverVars, harvestVars, cookieEvents>>

(***************************************************************************)
(* A cookie: whose it is, and the version of its two tokens, 0 for none.   *)
(***************************************************************************)
Tokens == {"a1", "ark"}
Cookies == [of : Shops, a1 : 0..MaxVersion, ark : 0..MaxVersion]
Blank(s) == [of |-> s, a1 |-> 0, ark |-> 0]
HasA1(c) == c.a1 # 0
HasArk(c) == c.ark # 0
IsOrderCapable(c) == HasA1(c) /\ HasArk(c)

LengthOf(v) == IF v = 0 THEN 0 ELSE Length[v]
Longer(old, new) == IF new # 0 /\ LengthOf(new) >= LengthOf(old) THEN new ELSE old
PreferLongest(c, d) == [c EXCEPT !.a1 = Longer(@, d.a1), !.ark = Longer(@, d.ark)]
Size(c) == LengthOf(c.a1) + LengthOf(c.ark)

(* A title is taken for the first row it shares a part with, a page for the row it shares most with. *)
PartOf(a, b) == a = b \/ <<a, b>> \in Within
RowOf(title) ==
  LET Shares(k) == PartOf(title, Order[k]) \/ PartOf(Order[k], title)
  IN Order[CHOOSE k \in DOMAIN Order : Shares(k) /\ \A j \in 1..k - 1 : ~Shares(j)]
PageRow(page) ==
  CHOOSE r \in Shops : PartOf(r, page) /\ \A q \in Shops : PartOf(q, page) => PartOf(q, r)

NewBridge(s) == [merged |-> Blank(s), last |-> Blank(s), ark |-> Blank(s),
                 recent |-> FALSE, dirty |-> FALSE]
Headers(b) == PreferLongest(PreferLongest(b.merged, b.ark), b.last)

Idle == [kind |-> "idle", stage |-> "none"]
Free(i) == jobs[i] = Idle
NextFree(i) == Free(i) /\ \A j \in JobIds : j < i => ~Free(j)
(* A job reads the headers its bridge has when it starts; "own" says the bridge is still the page's. *)
Collecting(kind, row, s) ==
  [kind |-> kind, stage |-> "collect", row |-> row, shop |-> s, own |-> TRUE,
   cookie |-> Headers(bridge[s])]

NoEntry == [known |-> FALSE]
EmptyHarvest == [stage |-> "none"]

CookieInit ==
  /\ jar = [s \in Shops |-> [Blank(s) EXCEPT !.a1 = 1]]      \* logged in, as a page must be
  /\ bridge = [s \in Shops |-> NewBridge(s)]
  /\ checkDue = {} /\ uploadDue = {} /\ buyerDue = NoShop
  /\ jobs = [i \in JobIds |-> Idle]
  /\ entries = [s \in Shops |-> NoEntry]
  /\ cooling = {} /\ recovered = {}
  /\ cache = [s \in Shops |-> Blank(s)]
  /\ tried = [s \in Shops |-> Blank(s)]
  /\ harvest = EmptyHarvest
  /\ pageAt = [s \in Shops |-> "desk"]
  /\ cookieEvents = 0

(* A page sends a request, a buyer writes, a time runs out, an order is given. *)
CookieEvent == cookieEvents < MaxCookieEvents /\ cookieEvents' = cookieEvents + 1

(***************************************************************************)
(* The browser and the connection to it.                                   *)
(***************************************************************************)
(* A login or a visit to the order pages renews a token. *)
TokenRenewed(s) ==
  /\ \E t \in Tokens : /\ jar[s][t] < MaxVersion
                       /\ jar' = [jar EXCEPT ![s][t] = @ + 1]
  /\ UNCHANGED <<bridge, timers, jobs, checkVars, serverVars, harvestVars, cookieEvents>>

(* The page sends a request with those cookies of its jar that its host gets. *)
Sent(s) == {c \in Cookies : /\ c.of = s /\ c # Blank(s)
                            /\ \A t \in Tokens : c[t] \in {0, jar[s][t]}}

(* noteBridgeRequestCookie: remember, mark, and start both debounced jobs. *)
RequestSeen(s) ==
  /\ \E c \in Sent(s) :
       bridge' = [bridge EXCEPT ![s] =
         [merged |-> PreferLongest(@.merged, c),
          last |-> IF Size(c) >= Size(@.last) THEN c ELSE @.last,
          ark |-> IF HasArk(c) THEN PreferLongest(@.ark, c) ELSE @.ark,
          recent |-> TRUE, dirty |-> TRUE]]
  /\ checkDue' = checkDue \cup {s}
  /\ uploadDue' = uploadDue \cup {s}
  /\ CookieEvent
  /\ UNCHANGED <<jar, buyerDue, jobs, checkVars, serverVars, harvestVars>>

(* The page is attached anew: another bridge object, which has seen nothing. *)
BridgeReplaced(s) ==
  /\ bridge' = [bridge EXCEPT ![s] = NewBridge(s)]
  /\ jobs' = [i \in JobIds |-> IF ~Free(i) /\ jobs[i].shop = s THEN [jobs[i] EXCEPT !.own = FALSE]
                               ELSE jobs[i]]
  /\ CookieEvent
  /\ UNCHANGED <<jar, timers, checkVars, serverVars, harvestVars>>

(* Five minutes without a request; the 5 s timers it started have long fired. *)
HeadersAge(s) ==
  /\ s \notin checkDue \cup uploadDue /\ bridge[s].recent
  /\ bridge' = [bridge EXCEPT ![s].recent = FALSE]
  /\ CookieEvent
  /\ UNCHANGED <<jar, timers, jobs, checkVars, serverVars, harvestVars>>

Cleaned(b) == [b EXCEPT !.dirty = FALSE]

(***************************************************************************)
(* Checks: a changed cookie goes to the control centre.                    *)
(***************************************************************************)
(* onBuyerMessage of the collector and the uploader's trigger, one global timer. *)
BuyerMessage(s) ==
  /\ bridge[s].dirty
  /\ checkDue' = checkDue \cup {s}
  /\ buyerDue' = IF buyerDue = NoShop THEN s ELSE buyerDue
  /\ CookieEvent
  /\ UNCHANGED <<captureVars, uploadDue, jobs, checkVars, serverVars, harvestVars>>

LoginRecovered(s) ==
  /\ recovered' = recovered \cup {s}
  /\ CookieEvent
  /\ UNCHANGED <<captureVars, timers, jobs, entries, cooling, serverVars, harvestVars>>

CheckGoesOn(s) == s \notin cooling /\ bridge[s].recent

CheckFires(s, i) ==
  /\ s \in checkDue /\ NextFree(i)
  /\ checkDue' = checkDue \ {s}
  /\ jobs' = IF CheckGoesOn(s) THEN [jobs EXCEPT ![i] = Collecting("check", s, s)] ELSE jobs
  /\ UNCHANGED <<captureVars, uploadDue, buyerDue, checkVars, serverVars, harvestVars, cookieEvents>>

(* What a job has when its page's jar is read: the headers, completed by the jar. *)
Collected(job) == PreferLongest(job.cookie, jar[job.shop])

(* shouldUploadCookie: what the file says of the last upload decides. *)
ShouldUpload(e, s, c) ==
  \/ s \in recovered
  \/ ~e.known
  \/ e.known /\ (e.status = "failed" \/ e.cookie # c \/ ~e.fresh)

(* The cookie is recorded before it is sent; the file as it is now is what the answer is noted in. *)
CheckDecides(i) ==
  LET s == jobs[i].shop
      c == Collected(jobs[i])
      e == entries[s]
      seen == [known |-> TRUE, cookie |-> c, status |-> IF e.known THEN e.status ELSE "none",
               fresh |-> e.known /\ e.fresh]
  IN /\ jobs[i].kind = "check" /\ jobs[i].stage = "collect"
     /\ entries' = [entries EXCEPT ![s] = seen]
     /\ jobs' = [jobs EXCEPT ![i] =
          IF ShouldUpload(e, s, c)
          THEN [kind |-> "check", stage |-> "send", row |-> s, shop |-> s, own |-> @.own,
                cookie |-> c, file |-> entries']
          ELSE Idle]
     /\ UNCHANGED <<captureVars, timers, cooling, recovered, serverVars, harvestVars, cookieEvents>>

(* The centre of this machine takes a cookie or the one in the cloud does, or none. *)
ControlAnswers == BOOLEAN

(* handleCookieUploadResult: the answer is noted in the file as it was read. *)
Noted(file, s, c, ok) ==
  [file EXCEPT ![s] = [known |-> TRUE, cookie |-> c, status |-> IF ok THEN "ok" ELSE "failed",
                       fresh |-> ok \/ (@.known /\ @.fresh)]]
Cooled(s, ok) == cooling' = IF ok THEN cooling \ {s} ELSE cooling \cup {s}

CheckEnds(i) ==
  LET job == jobs[i]
      s == job.shop
  IN /\ job.kind = "check" /\ job.stage = "send"
     /\ \E ok \in ControlAnswers :
          /\ entries' = Noted(job.file, s, job.cookie, ok)
          /\ Cooled(s, ok)
          /\ bridge' = IF ok /\ job.own THEN [bridge EXCEPT ![s] = Cleaned(@)] ELSE bridge
     /\ recovered' = recovered \ {s}
     /\ jobs' = [jobs EXCEPT ![i] = Idle]
     /\ UNCHANGED <<jar, timers, serverVars, harvestVars, cookieEvents>>

CooldownEnds(s) ==
  /\ s \in cooling
  /\ cooling' = cooling \ {s}
  /\ CookieEvent
  /\ UNCHANGED <<captureVars, timers, jobs, entries, recovered, serverVars, harvestVars>>

(* Ten minutes pass since the uploads the file, and the copies of it in hand, tell of. *)
Aged(file) == [s \in Shops |-> IF file[s].known THEN [file[s] EXCEPT !.fresh = FALSE] ELSE file[s]]
UploadsAge ==
  /\ entries # Aged(entries)
  /\ entries' = Aged(entries)
  /\ jobs' = [i \in JobIds |-> IF jobs[i].stage = "send" THEN [jobs[i] EXCEPT !.file = Aged(@)]
                               ELSE jobs[i]]
  /\ CookieEvent
  /\ UNCHANGED <<captureVars, timers, cooling, recovered, serverVars, harvestVars>>

(***************************************************************************)
(* Uploads of one shop to the order server.                                *)
(***************************************************************************)
(* The bridge of the page that is taken for this row and no other (findExactBridgeForShop). *)
\* (mutant) any bridge whose title contains the row's
AnyBridge(row) ==
  CHOOSE s \in Shops : PartOf(row, s) /\ \A t \in Shops : PartOf(row, t) => PartOf(t, s)
ExactBridge(row) == CHOOSE s \in Shops : PageRow(s) = row

\* (mutant) whatever asks for it, a clean bridge is passed over
UploadStartsDirty(title, kind, i) ==
  LET row == RowOf(title)
      s == ExactBridge(row)
  IN jobs' = IF ~bridge[s].recent \/ ~bridge[s].dirty THEN jobs
             ELSE [jobs EXCEPT ![i] = Collecting(kind, row, s)]

(* runShopCookieUploadForShop: a title names a row, the row an exact bridge. *)
UploadStarts(title, kind, i) ==
  LET row == RowOf(title)
      s == ExactBridge(row)
  IN jobs' = IF ~bridge[s].recent \/ (kind = "buyer" /\ ~bridge[s].dirty) THEN jobs
             ELSE [jobs EXCEPT ![i] = Collecting(kind, row, s)]

UploadFires(s, i) ==
  /\ s \in uploadDue /\ NextFree(i)
  /\ uploadDue' = uploadDue \ {s}
  /\ UploadStarts(s, "passive", i)
  /\ UNCHANGED <<captureVars, checkDue, buyerDue, checkVars, serverVars, harvestVars, cookieEvents>>

BuyerUploadFires(i) ==
  /\ buyerDue # NoShop /\ NextFree(i)
  /\ buyerDue' = NoShop
  /\ UploadStarts(buyerDue, "buyer", i)
  /\ UNCHANGED <<captureVars, checkDue, uploadDue, checkVars, serverVars, harvestVars, cookieEvents>>

Uploads == {"passive", "buyer"}

(* filterUploadableCookies: what lacks a token stays here. *)
Uploadable(cookies) ==
  [s \in {t \in DOMAIN cookies : HasA1(cookies[t]) /\ HasArk(cookies[t])} |-> cookies[s]]
UploadCollects(i) ==
  LET job == jobs[i]
      c == Collected(job)
  IN /\ job.kind \in Uploads /\ job.stage = "collect"
     /\ jobs' = [jobs EXCEPT ![i] = IF DOMAIN Uploadable([s \in {job.row} |-> c]) # {}
                                    THEN [job EXCEPT !.stage = "post", !.cookie = c] ELSE Idle]
     /\ UNCHANGED <<captureVars, timers, checkVars, serverVars, harvestVars, cookieEvents>>

(* buildUploadPayload: only what can read orders goes out. *)
Payload(cookies) == [s \in {t \in DOMAIN cookies : IsOrderCapable(cookies[t])} |-> cookies[s]]
Posted(cookies) ==
  tried' = [s \in Shops |-> IF s \in DOMAIN Payload(cookies) THEN cookies[s] ELSE tried[s]]

(* parseUploadResponse: what the server says it took. *)
Answers(submitted) == SUBSET submitted
(* applyStatusToShopResults: what it says it lacks is a failure, what it says it has a success, *)
(* though it may have had it from before.                                                       *)
Verified(submitted, ok) ==
  {(ok \ lacking) \cup holding : lacking \in SUBSET submitted, holding \in SUBSET submitted}

(* After the post and the status query: every submitted shop is cached, and its bridge clean, if *)
(* any succeeded; the process of the window has no bridges to clean.                             *)
Confirmed(cookies, ok, here) ==
  /\ cache' = IF ok = {} THEN cache
              ELSE [s \in Shops |-> IF s \in DOMAIN cookies THEN cookies[s] ELSE cache[s]]
  /\ bridge' = [s \in Shops |-> IF here /\ ok # {} /\ PageRow(s) \in DOMAIN cookies
                                THEN Cleaned(bridge[s]) ELSE bridge[s]]

(* A post that gets no answer ends the job; an answered one has its status asked for. *)
UploadPosts(i) ==
  LET job == jobs[i]
      cookies == [s \in {job.row} |-> job.cookie]
  IN /\ job.kind \in Uploads /\ job.stage = "post"
     /\ Posted(cookies)
     /\ \E answered \in BOOLEAN :
          jobs' = [jobs EXCEPT ![i] = IF answered THEN [@ EXCEPT !.stage = "verify"] ELSE Idle]
     /\ UNCHANGED <<captureVars, timers, checkVars, cache, harvestVars, cookieEvents>>

UploadVerified(i) ==
  LET job == jobs[i]
  IN /\ job.kind \in Uploads /\ job.stage = "verify"
     /\ \E answer \in Answers({job.row}) : \E ok \in Verified({job.row}, answer) :
          Confirmed([s \in {job.row} |-> job.cookie], ok, TRUE)
     /\ jobs' = [jobs EXCEPT ![i] = Idle]
     /\ UNCHANGED <<jar, timers, checkVars, tried, harvestVars, cookieEvents>>

(***************************************************************************)
(* An order to upload every shop, by way of the single sign-on.            *)
(***************************************************************************)
NoCookies == [s \in {} |-> Blank(s)]

HarvestStarts ==
  /\ harvest = EmptyHarvest
  /\ \E here \in BOOLEAN :      \* asked of this process over HTTP, or of the window's
       harvest' = [stage |-> "jar", next |-> 1, here |-> here, got |-> NoCookies]
  /\ CookieEvent
  /\ UNCHANGED <<captureVars, timers, jobs, checkVars, serverVars, pageAt>>

NextShop(got) ==
  IF harvest.next < Len(Order)
  THEN [harvest EXCEPT !.stage = "jar", !.next = @ + 1, !.got = got]
  ELSE [harvest EXCEPT !.stage = "post", !.got = got]

HarvestShop == Order[harvest.next]

(* fetchServiceTicket: a login is exchanged for a ticket, or the exchange fails (see HarvestSignsOn). *)
TicketGiven(c) == HasA1(c)
(* probeQualityApi: a script tries the cookie out. *)
Probes == BOOLEAN

(* harvestArkCookieForShop: a page without a1 is left alone, a ticket drives it to the sign-on; *)
(* a page that is not at its desk is not found.                                                *)
HarvestSignsOn ==
  /\ harvest.stage = "jar"
  /\ \/ /\ pageAt[HarvestShop] = "desk" /\ TicketGiven(jar[HarvestShop])
        /\ pageAt' = [pageAt EXCEPT ![HarvestShop] = "sso"]
        /\ harvest' = [harvest EXCEPT !.stage = "quality"]
     \/ /\ harvest' = NextShop(harvest.got)     \* no page, no a1, or no ticket
        /\ UNCHANGED pageAt
  /\ UNCHANGED <<captureVars, timers, jobs, checkVars, serverVars, cookieEvents>>

HarvestOpensQuality ==
  /\ harvest.stage = "quality"
  /\ pageAt' = [pageAt EXCEPT ![HarvestShop] = "quality"]
  /\ harvest' = [harvest EXCEPT !.stage = "restore"]
  /\ UNCHANGED <<captureVars, timers, jobs, checkVars, serverVars, cookieEvents>>

(* What is harvested counts if it is whole and the probe could use it. *)
Harvested(c, probed) ==
  IF IsOrderCapable(c) /\ probed
  THEN [s \in DOMAIN harvest.got \cup {HarvestShop} |-> IF s = HarvestShop THEN c ELSE harvest.got[s]]
  ELSE harvest.got

\* (mutant) the page is not driven home
HarvestStays ==
  /\ harvest.stage = "restore"
  /\ \E probed \in Probes : harvest' = NextShop(Harvested(jar[HarvestShop], probed))
  /\ UNCHANGED <<captureVars, timers, jobs, checkVars, serverVars, pageAt, cookieEvents>>

(* The jar is read and the page driven home; a probe has the last word on the cookie. *)
HarvestRestores ==
  /\ harvest.stage = "restore"
  /\ pageAt' = [pageAt EXCEPT ![HarvestShop] = "desk"]
  /\ \E probed \in Probes : harvest' = NextShop(Harvested(jar[HarvestShop], probed))
  /\ UNCHANGED <<captureVars, timers, jobs, checkVars, serverVars, cookieEvents>>

(* A command to the page fails: the next shop's turn, and the page stays where it was driven to. *)
HarvestBreaks ==
  /\ harvest.stage \in {"quality", "restore"}
  /\ harvest' = NextShop(harvest.got)
  /\ UNCHANGED <<captureVars, timers, jobs, checkVars, serverVars, pageAt, cookieEvents>>

HarvestPosts ==
  /\ harvest.stage = "post"
  /\ \/ /\ harvest.got = NoCookies
        /\ harvest' = EmptyHarvest
        /\ UNCHANGED tried
     \/ /\ harvest.got # NoCookies
        /\ Posted(harvest.got)
        /\ \E answered \in BOOLEAN :
             harvest' = IF answered THEN [harvest EXCEPT !.stage = "verify"] ELSE EmptyHarvest
  /\ UNCHANGED <<captureVars, timers, jobs, checkVars, cache, pageAt, cookieEvents>>

HarvestVerified ==
  /\ harvest.stage = "verify"
  /\ \E answer \in Answers(DOMAIN harvest.got) : \E ok \in Verified(DOMAIN harvest.got, answer) :
       Confirmed(harvest.got, ok, harvest.here)
  /\ harvest' = EmptyHarvest
  /\ UNCHANGED <<jar, timers, jobs, checkVars, tried, pageAt, cookieEvents>>

(***************************************************************************)
(* An order to bring the control centre up to date, one shop after another.*)
(***************************************************************************)
SyncStarts ==
  /\ harvest = EmptyHarvest
  /\ harvest' = [stage |-> "syncCollect", next |-> 1]
  /\ CookieEvent
  /\ UNCHANGED <<captureVars, timers, jobs, checkVars, serverVars, pageAt>>

SyncNext == IF harvest.next < Len(Order) THEN [stage |-> "syncCollect", next |-> harvest.next + 1]
            ELSE EmptyHarvest

(* Where no request was seen of late, what is collected is a refusal, and goes on as a cookie without tokens. *)
SyncCollects ==
  LET s == HarvestShop
      c == IF bridge[s].recent THEN PreferLongest(Headers(bridge[s]), jar[s]) ELSE Blank(s)
  IN /\ harvest.stage = "syncCollect"
     /\ harvest' \in {SyncNext, [stage |-> "syncSend", next |-> harvest.next, cookie |-> c,
                                file |-> entries]}
     /\ UNCHANGED <<captureVars, timers, jobs, checkVars, serverVars, pageAt, cookieEvents>>

SyncEnds ==
  /\ harvest.stage = "syncSend"
  /\ \E ok \in ControlAnswers :
       /\ entries' = Noted(harvest.file, HarvestShop, harvest.cookie, ok)
       /\ Cooled(HarvestShop, ok)
  /\ harvest' = SyncNext
  /\ UNCHANGED <<captureVars, timers, jobs, recovered, serverVars, pageAt, cookieEvents>>

(***************************************************************************)
(* The specification.                                                      *)
(***************************************************************************)
CheckStep(i) == CheckDecides(i) \/ CheckEnds(i)
UploadStep(i) == UploadCollects(i) \/ UploadPosts(i) \/ UploadVerified(i)
HarvestStep == \/ HarvestSignsOn \/ HarvestOpensQuality \/ HarvestRestores \/ HarvestBreaks
               \/ HarvestPosts \/ HarvestVerified
SyncStep == SyncCollects \/ SyncEnds

CookieNext ==
  \/ \E s \in Shops : \/ TokenRenewed(s) \/ RequestSeen(s) \/ BridgeReplaced(s) \/ HeadersAge(s)
                       \/ BuyerMessage(s) \/ LoginRecovered(s) \/ CooldownEnds(s)
  \/ \E s \in Shops, i \in JobIds : CheckFires(s, i) \/ UploadFires(s, i)
  \/ \E i \in JobIds : BuyerUploadFires(i) \/ CheckStep(i) \/ UploadStep(i)
  \/ UploadsAge \/ HarvestStarts \/ HarvestStep \/ SyncStarts \/ SyncStep

(***************************************************************************)
(* Properties.                                                             *)
(***************************************************************************)
BridgeType(s) ==
  [merged : Cookies, last : Cookies, ark : Cookies, recent : BOOLEAN, dirty : BOOLEAN]
EntryType == {NoEntry} \cup [known : {TRUE}, cookie : Cookies, fresh : BOOLEAN,
                             status : {"none", "ok", "failed"}]
JobType ==
  {Idle} \cup [kind : {"check"} \cup Uploads, stage : {"collect", "post", "verify"}, row : Shops,
              shop : Shops, own : BOOLEAN, cookie : Cookies]
         \cup [kind : {"check"}, stage : {"send"}, row : Shops, shop : Shops, own : BOOLEAN,
              cookie : Cookies, file : [Shops -> EntryType]]

(* Types, and that what is seen of a page, recorded of it and sent under its *)
(* name never comes from another page (noteBridgeRequestCookie, saveState). *)
CookieTypeOK ==
  /\ checkDue \subseteq Shops /\ uploadDue \subseteq Shops /\ buyerDue \in Shops \cup {NoShop}
  /\ cooling \subseteq Shops /\ recovered \subseteq Shops
  /\ \A s \in Shops : /\ jar[s] \in Cookies /\ jar[s].of = s
                       /\ bridge[s] \in BridgeType(s) /\ bridge[s].merged.of = s
                       /\ entries[s] \in EntryType
                       /\ entries[s].known => entries[s].cookie.of = s
                       /\ pageAt[s] \in {"desk", "sso", "quality"}
  /\ \A i \in JobIds : jobs[i] \in JobType
  /\ harvest.stage \in {"none", "jar", "quality", "restore", "post", "verify",
                       "syncCollect", "syncSend"}

(* What the order server is sent of a shop, and what is cached of it, is a  *)
(* cookie of that very shop which can read orders: rows are found by parts  *)
(* of titles, and one shop's title is part of another's.  The server never  *)
(* loses a usable cookie to a useless one (isOrderCapableCookie).           *)
OwnAndWhole ==
  \A s \in Shops : \A c \in {cache[s], tried[s]} :
    c = Blank(s) \/ (c.of = s /\ IsOrderCapable(c))

(* The harvest drives a page through the sign-on and brings it home before   *)
(* its cookie counts: a page that was left elsewhere has lost its harvest    *)
(* (harvestArkCookieForShop restores the address on its way out only, and a  *)
(* page that is elsewhere is not found by the next order).                   *)
HarvestedIsHome ==
  harvest.stage \in {"jar", "quality", "restore", "post", "verify"} =>
    \A s \in DOMAIN harvest.got : pageAt[s] = "desk" /\ harvest.got[s].of = s

(* A cookie is of the shop it is kept, sent or counted for.                  *)
CookieAtHome == OwnAndWhole /\ HarvestedIsHome

(* A token that a request has shown, together with the login, does not stay  *)
(* here: once no timer and no upload of the shop is left, the order server    *)
(* has been sent one, though checks and uploads clear each other's marks.     *)
(* (A shop whose title is first taken for another row is left out: README.)   *)
SeenIsSubmitted ==
  \A s \in {r \in Shops : RowOf(r) = r} :
    /\ Headers(bridge[s]).ark # 0 /\ HasA1(Headers(bridge[s]))
    /\ s \notin uploadDue
    /\ \A i \in JobIds : jobs[i].kind \in Uploads => jobs[i].row # s
    => tried[s].ark # 0

(* A token once seen gets to the order server, and only as its shop's own.   *)
CookiesSound == CookieAtHome /\ SeenIsSubmitted

=============================================================================
