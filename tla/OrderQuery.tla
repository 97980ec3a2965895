------------------------------ MODULE OrderQuery ------------------------------
(***************************************************************************)
(* The order collector: a page asks the server for the orders of some      *)
(* shops; the server lists each shop page by page, and several runners     *)
(* fetch and decrypt the details of what was listed.  Meanwhile buyers go  *)
(* on ordering, so that the list moves under the pages that are read.      *)
(***************************************************************************)
EXTENDS Naturals, Sequences, FiniteSets

CONSTANTS Orders,
          Start,     \* what the platform lists of each shop at first
          Limit,     \* entries of a page of the list
          MaxPages,  \* pages that are read at most
          Runners,   \* the runners of a pool
          Filters,   \* the sets of orders that what a search is for may match
          MaxNew,    \* bound: orders placed later
          MaxSearch  \* bound: searches made

OrderShops == DOMAIN Start

ASSUME OrderQueryAssumption ==
  /\ OrderShops # {} /\ Start \in [OrderShops -> Seq(Orders)]
  /\ Limit \in Nat \ {0} /\ MaxPages \in Nat \ {0} /\ {MaxNew, MaxSearch} \subseteq Nat
  /\ Filters \subseteq SUBSET Orders

VARIABLES listing,   \* external: the platform's list of each shop in the range of dates, which grows
          placed,    \* orders placed since
          searches,  \* searches made
          \* the page
          busy,      \* its search button is disabled
          canExport, \* its export button is not
          shown,     \* the rows of its table, by shop
          shownStat, \* the figures that came with them
          \* the query under way
          wanted, byPhone,  \* what it is for
          before,    \* history: what the platform listed when the search was made
          todo,      \* its shops still to collect
          stage,     \* where it is: "none", "next", "list", "pool"
          shop,      \* the shop it collects
          page,      \* pages of its list read
          got,       \* the entries they had
          total,     \* what the last of them said the list holds
          next,      \* the first entry no runner has taken
          job,       \* the entry a runner has, 0 for none
          results,   \* the rows made of the entries
          collected, \* the rows of the shops, as far as they are collected
          stat       \* the figures of them

queryVars == <<wanted, byPhone, before, todo, stage, shop, page, got, total, next, job, results,
               collected, stat>>
pageVars == <<busy, canExport, shown, shownStat>>
orderVars == <<listing, placed, searches, pageVars, queryVars>>

QueryStages == {"none", "next", "list", "pool"}
NotCollected == [ok |-> FALSE, listed |-> 0, total |-> 0]
NotMade == [order |-> "none", phone |-> FALSE]
Stats == [ok : BOOLEAN, listed : Nat, total : Nat]
Rows == [order : Orders, phone : BOOLEAN]

OrderInit ==
  /\ listing = Start /\ placed = 0 /\ searches = 0
  /\ busy = FALSE /\ canExport = FALSE
  /\ shown = [s \in OrderShops |-> <<>>] /\ shownStat = [s \in OrderShops |-> NotCollected]
  /\ wanted = {} /\ byPhone = FALSE /\ before = [s \in OrderShops |-> {}] /\ todo = {} /\ stage = "none"
  /\ shop = (CHOOSE s \in OrderShops : TRUE) /\ page = 0 /\ got = <<>> /\ total = 0
  /\ next = 1 /\ job = [r \in Runners |-> 0] /\ results = <<>>
  /\ collected = [s \in OrderShops |-> <<>>] /\ stat = [s \in OrderShops |-> NotCollected]

Entries(list) == {list[k] : k \in DOMAIN list}

(* Buyers order; wherever the platform puts the order, what comes after it moves on. *)
PlaceOrder(s, at, o) ==
  /\ placed < MaxNew /\ placed' = placed + 1
  /\ \A t \in OrderShops : o \notin Entries(listing[t])
  /\ listing' = [listing EXCEPT ![s] = SubSeq(@, 1, at - 1) \o <<o>> \o SubSeq(@, at, Len(@))]
  /\ UNCHANGED <<searches, pageVars, queryVars>>

(***************************************************************************)
(* The page                                                                *)
(***************************************************************************)
Search(titles, filter, phone) ==
  /\ ~busy /\ titles # {} /\ searches < MaxSearch
  /\ searches' = searches + 1 /\ busy' = TRUE /\ canExport' = FALSE
  /\ wanted' = filter /\ byPhone' = phone
  /\ before' = [s \in OrderShops |-> Entries(listing[s])]
  /\ todo' = titles /\ stage' = "next"
  /\ UNCHANGED <<listing, placed, shown, shownStat, shop, page, got, total, next, job, results,
                 collected, stat>>

(***************************************************************************)
(* A query that is refused, or in which a request fails other than by an   *)
(* answer that says so, is lost as a whole, with what it had collected;    *)
(* the page keeps the rows of an earlier one on show.                      *)
(***************************************************************************)
ShopDone ==
  /\ shop' = (CHOOSE s \in OrderShops : TRUE) /\ page' = 0 /\ got' = <<>> /\ total' = 0
  /\ next' = 1 /\ job' = [r \in Runners |-> 0] /\ results' = <<>>
QueryDone ==
  /\ stage' = "none" /\ busy' = FALSE /\ todo' = {} /\ ShopDone
  /\ collected' = [s \in OrderShops |-> <<>>] /\ stat' = [s \in OrderShops |-> NotCollected]

QueryFails ==
  /\ stage # "none" /\ QueryDone
  /\ UNCHANGED <<listing, placed, searches, canExport, shown, shownStat, wanted, byPhone, before>>

(* A shop that is disabled or has no seller is not asked for. *)
LeaveOut(s) ==
  /\ stage = "next" /\ s \in todo /\ todo' = todo \ {s}
  /\ UNCHANGED <<listing, placed, searches, pageVars, wanted, byPhone, before, stage, shop, page, got,
                 total, next, job, results, collected, stat>>

CollectShop(s) ==
  /\ stage = "next" /\ s \in todo /\ todo' = todo \ {s}
  /\ stage' = "list" /\ shop' = s /\ page' = 0 /\ got' = <<>> /\ total' = 0
  /\ UNCHANGED <<listing, placed, searches, pageVars, wanted, byPhone, before, next, job, results,
                 collected, stat>>

(* The answer: the query has succeeded if any shop has, and only then the page takes its rows. *)
Answer ==
  /\ stage = "next" /\ todo = {} /\ QueryDone
  /\ IF \E s \in OrderShops : stat[s].ok
     THEN /\ shown' = collected /\ shownStat' = stat
          /\ canExport' = (\E s \in OrderShops : DOMAIN collected[s] # {})
     ELSE UNCHANGED <<canExport, shown, shownStat>>
  /\ UNCHANGED <<listing, placed, searches, wanted, byPhone, before>>

(***************************************************************************)
(* The list of a shop                                                      *)
(***************************************************************************)
ListFails ==
  /\ stage = "list" /\ stage' = "next" /\ ShopDone
  /\ UNCHANGED <<listing, placed, searches, pageVars, wanted, byPhone, before, todo, collected, stat>>

\* (mutant) the number of the page is not passed on
FirstPage(list, n) == SubSeq(list, 1, IF Limit < Len(list) THEN Limit ELSE Len(list))

PageOf(list, n) ==
  LET end == (n + 1) * Limit IN SubSeq(list, n * Limit + 1, IF end < Len(list) THEN end ELSE Len(list))

LastPage(entries, all, held, pages) ==
  \/ Len(entries) < Limit
  \/ held > 0 /\ Len(all) >= held
  \/ pages = MaxPages

ReadPage ==
  LET entries == PageOf(listing[shop], page) IN
  /\ stage = "list" /\ page' = page + 1
  /\ got' = got \o entries /\ total' = Len(listing[shop])
  /\ IF LastPage(entries, got', total', page')
     THEN stage' = "pool" /\ next' = 1 /\ results' = [k \in 1..Len(got') |-> NotMade]
     ELSE UNCHANGED <<stage, next, results>>
  /\ UNCHANGED <<listing, placed, searches, pageVars, wanted, byPhone, before, todo, shop, job,
                 collected, stat>>

(***************************************************************************)
(* The pool: a runner takes the next entry, asks for its details and what  *)
(* they hide, and makes a row of it.  Details that are refused are done    *)
(* without, and of what is hidden the phone number is told or not.         *)
(***************************************************************************)
Take(r) ==
  /\ stage = "pool" /\ job[r] = 0 /\ next <= Len(got)
  /\ job' = [job EXCEPT ![r] = next] /\ next' = next + 1
  /\ UNCHANGED <<listing, placed, searches, pageVars, wanted, byPhone, before, todo, stage, shop, page,
                 got, total, results, collected, stat>>

mergeOrderRow(item, phone) == [order |-> item, phone |-> phone]

MakeRow(r, phone) ==
  /\ stage = "pool" /\ job[r] # 0
  /\ results' = [results EXCEPT ![job[r]] = mergeOrderRow(got[job[r]], phone)]
  /\ job' = [job EXCEPT ![r] = 0]
  /\ UNCHANGED <<listing, placed, searches, pageVars, wanted, byPhone, before, todo, stage, shop, page,
                 got, total, next, collected, stat>>

\* The rows that the search is for, each with its place in the list.
filterOrders(list) ==
  [k \in {n \in DOMAIN list : list[n].order \in wanted /\ (byPhone => list[n].phone)} |-> list[k]]

PoolEnds ==
  /\ stage = "pool" /\ next > Len(got) /\ \A r \in Runners : job[r] = 0
  /\ stage' = "next" /\ ShopDone
  /\ collected' = [collected EXCEPT ![shop] = filterOrders(results)]
  /\ stat' = [stat EXCEPT ![shop] = [ok |-> TRUE, listed |-> Len(got), total |-> total]]
  /\ UNCHANGED <<listing, placed, searches, pageVars, wanted, byPhone, before, todo>>

OrderNext ==
  \/ \E s \in OrderShops, o \in Orders : \E at \in 1..(Len(listing[s]) + 1) : PlaceOrder(s, at, o)
  \/ \E titles \in SUBSET OrderShops, filter \in Filters, phone \in BOOLEAN : Search(titles, filter, phone)
  \/ QueryFails \/ Answer \/ ListFails \/ ReadPage \/ PoolEnds
  \/ \E s \in OrderShops : LeaveOut(s) \/ CollectShop(s)
  \/ \E r \in Runners : Take(r) \/ \E phone \in BOOLEAN : MakeRow(r, phone)

OrderSpec == OrderInit /\ [][OrderNext]_orderVars

(***************************************************************************)
(* Properties                                                              *)
(***************************************************************************)
TablesOK(table) ==
  /\ DOMAIN table = OrderShops
  /\ \A s \in OrderShops : \A k \in DOMAIN table[s] : table[s][k] \in Rows

(* The variables range over what the page and the server keep in them. *)
OrderTypeOK ==
  /\ listing \in [OrderShops -> Seq(Orders)] /\ placed \in Nat /\ searches \in Nat
  /\ busy \in BOOLEAN /\ canExport \in BOOLEAN
  /\ TablesOK(shown) /\ shownStat \in [OrderShops -> Stats]
  /\ wanted \in SUBSET Orders /\ byPhone \in BOOLEAN /\ before \in [OrderShops -> SUBSET Orders]
  /\ todo \in SUBSET OrderShops /\ stage \in QueryStages /\ shop \in OrderShops
  /\ page \in Nat /\ got \in Seq(Orders) /\ total \in Nat /\ next \in Nat \ {0}
  /\ job \in [Runners -> Nat] /\ results \in Seq(Rows \cup {NotMade})
  /\ TablesOK(collected) /\ stat \in [OrderShops -> Stats]

(* That the list was cut at the last page that may be read, as the figures tell who reads them. *)
Cut(figures) == figures.total > figures.listed

(***************************************************************************)
(* What may be exported answers the last search: of every shop that was    *)
(* collected it has each order that the search is for and the platform     *)
(* listed when it was made, or the figures of the answer tell that the     *)
(* list was cut, however many orders are placed between two pages, and     *)
(* whichever runner makes a row when.  (A search for a whole phone number  *)
(* finds only what was decrypted.)                                         *)
(***************************************************************************)
NoneMissed ==
  canExport /\ ~byPhone =>
    \A s \in OrderShops : shownStat[s].ok /\ ~Cut(shownStat[s]) =>
      \A o \in before[s] \cap wanted : \E k \in DOMAIN shown[s] : shown[s][k].order = o

===============================================================================
