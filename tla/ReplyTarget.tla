----------------------------- MODULE ReplyTarget -----------------------------
(***************************************************************************)
(* Which buyer of a shop a text written in WeChat goes to, and whether the *)
(* one who wrote it learns that it did not go.  A notice carries a reply   *)
(* id; the callback of the robot's own message maps the notice's WeChat    *)
(* id to it; the receiver of the notice quotes it, or types the id.  Two   *)
(* programs handle his reply:                                              *)
(*                                                                         *)
(*   strict   wechat-to-qianfan-reply.js: everything the quote says is     *)
(*            compared with the pending row, and the text goes to the      *)
(*            conversation of the row (strictTarget)                       *)
(*   ~strict  the workers: wechat-reply looks the row up, qianfan-sender   *)
(*            asks the shop's page which conversation is the buyer's       *)
(*                                                                         *)
(* ReplyRelay shows how often a text is sent; here it is sent once.        *)
(***************************************************************************)
EXTENDS Integers, FiniteSets, Sequences, Functions

CONSTANTS
  Conv,        \* conversations of the shop with its buyers
  Nick,        \* the buyer's nickname, as the set of its syllables
  Receiver,    \* authorized receivers of notices
  Modes,       \* how receivers reply, see Mode
  NoConv,      \* no conversation
  Lists,       \* bound: what the page lists
  MaxNotice, MaxReply,   \* bounds
  MaxAccidents    \* bound: notices, replies, lists and accidents together

(***************************************************************************)
(* A reply quotes a notice: "whole" with its id and text, "bare" without   *)
(* the text, "copied" without the id, "forwarded" with the id of another   *)
(* message that has the notice's text; "stray" quotes some other message,  *)
(* "number" types the reply id, "wordless" quotes and says nothing.        *)
(***************************************************************************)
Mode == {"whole", "bare", "copied", "forwarded", "stray", "number", "wordless"}
QuotesNotice(mode) == mode \in {"whole", "bare", "wordless"}
QuotesSome(mode) == QuotesNotice(mode) \/ mode \in {"forwarded", "stray"}
ShowsText(mode) == mode \in {"whole", "copied", "forwarded", "wordless"}

ASSUME ReplyTargetAssumption ==
  /\ Nick \in [Conv -> SUBSET {1, 2, 3}] /\ NoConv \notin Conv
  /\ Modes \subseteq Mode /\ Lists \subseteq SUBSET Conv \ {{}} /\ {MaxNotice, MaxReply, MaxAccidents} \subseteq Nat

VARIABLES
  strict,
  counter,     \* reply-id-counter.json
  rows,        \* pending-notifications.json
  sentMap, sentIds,  \* sent-notification-map.json, by WeChat id and by reply id
  recorded,      \* idempotency keys of notices the persistence worker has recorded
  notices,     \* what the receivers have on their phones
  echoes,      \* callbacks of the robot's own messages under way
  known,       \* conversations with a session context
  listed,      \* lastMessageListRequest: what the page last listed
  replies,     \* what the receivers wrote and how far it has come
  claims,      \* failure-receipts by key
  told,        \* how many receipts of a key the receiver has got
  sent,        \* texts at buyers: the reply and the conversation
  lost         \* files that were cut off while they were written

fileVars == <<counter, rows, sentMap, sentIds, recorded, claims>>
targetVars == <<strict, fileVars, notices, echoes, known, listed, replies, told, sent, lost>>

Wx == (1..MaxNotice) \X Receiver
FirstId == 1001
Ids == FirstId..(FirstId + MaxNotice)
Why == {"invalid", "missing", "failed"}
Key == [id : Ids \cup {0}, from : Receiver, why : Why]
ReplyAt == {"got", "look", "ready", "refused", "claimed", "marking", "over", "cut"}
File == {"counter", "pending", "map"}

NoEntries == [w \in {} |-> 0]

TargetInit ==
  /\ strict \in BOOLEAN
  /\ counter = FirstId /\ rows = <<>>
  /\ sentMap = NoEntries /\ sentIds = NoEntries /\ recorded = {}
  /\ notices = <<>> /\ echoes = {} /\ known = {} /\ listed = {}
  /\ replies = <<>> /\ claims = NoEntries /\ told = [k \in Key |-> 0]
  /\ sent = {} /\ lost = {}

TargetTypeOK ==
  /\ strict \in BOOLEAN /\ counter \in Ids
  /\ rows \in Seq([id : Ids, conv : Conv])
  /\ DOMAIN sentMap \subseteq Wx
  /\ Range(sentMap) \cup Range(sentIds) \subseteq
       [id : Ids, conv : Conv \cup {NoConv}, to : Receiver]
  /\ DOMAIN sentIds \subseteq Ids /\ recorded \subseteq Ids \X Receiver
  /\ notices \in Seq([id : Ids, conv : Conv, to : SUBSET Receiver])
  /\ echoes \subseteq Wx /\ known \subseteq Conv /\ listed \subseteq Conv
  /\ replies \in Seq([mode : Mode, notice : 1..MaxNotice, from : Receiver, at : ReplyAt,
                      id : Ids \cup {0}, conv : Conv \cup {NoConv}, tries : 0..3, why : Why \cup {"none"}])
  /\ DOMAIN claims \subseteq Key /\ Range(claims) \subseteq {"sending", "stale", "sent", "failed"}
  /\ told \in [Key -> Nat]
  /\ sent \subseteq (1..MaxReply) \X Conv /\ lost \subseteq File \cup {"reply worker"}

Happens ==
  Len(notices) + Len(replies) + Cardinality(lost) + (IF listed = {} THEN 0 ELSE 1) < MaxAccidents

Put(f, x, y) == [z \in DOMAIN f \cup {x} |-> IF z = x THEN y ELSE f[z]]

(***************************************************************************)
(* qianfan-data-store.js                                                   *)
(***************************************************************************)

\* (mutant) the next id is not written
SameReplyId == counter' = counter

NextReplyId == counter' = counter + 1

\* The latest row of an id.
FindPendingByReplyId(id) ==
  LET matches == {i \in DOMAIN rows : rows[i].id = id}
  IN IF matches = {} THEN NoConv
     ELSE rows[CHOOSE i \in matches : \A j \in matches : j <= i].conv

\* buyerNickMatches: the same, or one is part of the other
NickMatches(c, d) == Nick[c] \subseteq Nick[d] \/ Nick[d] \subseteq Nick[c]

LookupSentNotificationForQuote(wx, from) ==
  IF wx \in DOMAIN sentMap /\ sentMap[wx].to = from THEN sentMap[wx].id ELSE 0

\* readJson takes a file that was cut off for one that is not there.
CutOff(file) ==
  /\ Happens /\ file \notin lost
  /\ lost' = lost \cup {file}
  /\ \/ file = "counter" /\ counter' = FirstId /\ UNCHANGED <<rows, sentMap, sentIds>>
     \/ file = "pending" /\ rows' = <<>> /\ UNCHANGED <<counter, sentMap, sentIds>>
     \/ file = "map" /\ sentMap' = NoEntries /\ sentIds' = NoEntries /\ UNCHANGED <<counter, rows>>
  /\ UNCHANGED <<strict, recorded, claims, notices, echoes, known, listed, replies, told, sent>>

(***************************************************************************)
(* The notifier, the robot's callbacks and the shop's page                 *)
(***************************************************************************)

\* sendBuyerNotification: one id, the same notice to each receiver
Notify(c, to) ==
  /\ Happens /\ Len(notices) < MaxNotice
  /\ NextReplyId
  /\ rows' = Append(rows, [id |-> counter, conv |-> c])
  /\ known' = known \cup {c}
  /\ notices' = Append(notices, [id |-> counter, conv |-> c, to |-> to])
  /\ echoes' = echoes \cup {Len(notices) + 1} \X to
  /\ UNCHANGED <<strict, sentMap, sentIds, recorded, claims, listed, replies, told, sent, lost>>

\* flushMergeBucket takes up a row that a crash or a refused notice left open
\* and sends the notice of the same id again.
NotifyAgain(n, to) ==
  /\ Happens /\ Len(notices) < MaxNotice
  /\ [id |-> notices[n].id, conv |-> notices[n].conv] \in Range(rows)
  /\ notices' = Append(notices, [notices[n] EXCEPT !.to = to])
  /\ echoes' = echoes \cup {Len(notices) + 1} \X to
  /\ UNCHANGED <<strict, fileVars, known, listed, replies, told, sent, lost>>

\* parseRobotNotificationForMap and recordSentNotification: the notice does
\* not name its conversation, the row that has the id by then does.  The
\* persistence worker records one notice of an id and a receiver and answers the
\* second request of the same key from its cache.
Echo(wx) ==
  /\ wx \in echoes
  /\ LET id == notices[wx[1]].id
         row == FindPendingByReplyId(id)
         before == IF id \in DOMAIN sentIds THEN sentIds[id].conv ELSE NoConv
         entry == [id |-> id, to |-> wx[2], conv |-> IF row = NoConv THEN before ELSE row]
     IN \/ /\ strict \/ <<id, wx[2]>> \notin recorded
           /\ sentMap' = Put(sentMap, wx, entry) /\ sentIds' = Put(sentIds, id, entry)
           /\ recorded' = IF strict THEN recorded ELSE recorded \cup {<<id, wx[2]>>}
        \/ ~strict /\ <<id, wx[2]>> \in recorded /\ UNCHANGED <<sentMap, sentIds, recorded>>
  /\ echoes' = echoes \ {wx}
  /\ UNCHANGED <<strict, counter, rows, claims, notices, known, listed, replies, told, sent, lost>>

\* captureHttpTemplate: the page lists one conversation, or a batch of them
PageLists(some) ==
  /\ Happens /\ listed = {}
  /\ listed' = some
  /\ UNCHANGED <<strict, fileVars, notices, echoes, known, replies, told, sent, lost>>

\* Bound: replies of one behaviour are made in the same way, by MaxReply at most.
Reply(n, from, mode) ==
  /\ Happens /\ Len(replies) < MaxReply
  /\ \A i \in DOMAIN replies : replies[i].mode = mode
  /\ from \in notices[n].to
  /\ replies' = Append(replies, [mode |-> mode, notice |-> n, from |-> from, at |-> "got",
                                 id |-> 0, conv |-> NoConv, tries |-> 0, why |-> "none"])
  /\ UNCHANGED <<strict, fileVars, notices, echoes, known, listed, told, sent, lost>>

(***************************************************************************)
(* parseAuthorizedWechatReply: the id a reply means, 0 if it is refused    *)
(***************************************************************************)
TextId(r) == IF ShowsText(r.mode) THEN notices[r.notice].id ELSE 0

ParsedId(r) ==
  LET mapped == IF QuotesNotice(r.mode)
                THEN LookupSentNotificationForQuote(<<r.notice, r.from>>, r.from) ELSE 0
      conflict == mapped # 0 /\ TextId(r) # 0 /\ TextId(r) # mapped
  IN CASE r.mode = "wordless" \/ conflict -> 0
       [] mapped # 0 -> mapped
       [] r.mode = "number" -> notices[r.notice].id
       [] OTHER -> TextId(r)

\* The id that is named in the receipt of a refused reply.
RefusedId(r) ==
  IF r.mode # "wordless" THEN 0
  ELSE LET mapped == LookupSentNotificationForQuote(<<r.notice, r.from>>, r.from)
       IN IF mapped # 0 THEN mapped ELSE TextId(r)

(***************************************************************************)
(* The way with a target lock                                              *)
(***************************************************************************)

\* (mutant) the buyer named in the quote is not compared
MatchesById(r, c) ==
  QuotesSome(r.mode) =>
    /\ <<r.notice, r.from>> \in DOMAIN sentMap /\ QuotesNotice(r.mode)
    /\ sentMap[<<r.notice, r.from>>].conv \in {NoConv, c}

\* assertPendingMatchesReply
MatchesReply(r, c) ==
  /\ ShowsText(r.mode) => NickMatches(notices[r.notice].conv, c)
  /\ QuotesSome(r.mode) =>
       LET wx == <<r.notice, r.from>>
       IN /\ QuotesNotice(r.mode) /\ wx \in DOMAIN sentMap
          /\ sentMap[wx].to = r.from /\ sentMap[wx].id = r.id
          /\ sentMap[wx].conv \in {NoConv, c}

Moves(i, r) == replies' = [replies EXCEPT ![i] = r]
OnlyReplies == UNCHANGED <<strict, counter, rows, sentMap, sentIds, recorded, notices, echoes, known,
                           listed, lost>>

\* A receipt without a record of it.
Receipt(k) == told' = [told EXCEPT ![k] = @ + 1]
ReceiptKey(r) == [id |-> r.id, from |-> r.from, why |-> r.why]

\* handleCallback, from the callback to the receipt; the bridge may be gone, the
\* answer of the shop may stay out, and the receipt may fail to be sent.
StrictReply(i) ==
  /\ strict /\ replies[i].at = "got"
  /\ LET id == ParsedId(replies[i])
         r == [replies[i] EXCEPT !.id = id, !.at = "over", !.why = "invalid"]
         c == FindPendingByReplyId(id)
         goes == id # 0 /\ c # NoConv /\ MatchesReply(r, c)
     IN \/ /\ goes
           /\ Moves(i, [r EXCEPT !.conv = c, !.why = "none"])
           /\ sent' = sent \cup {<<i, c>>} /\ UNCHANGED told
        \/ /\ Moves(i, [r EXCEPT !.conv = c])
           /\ UNCHANGED sent
           /\ Receipt(ReceiptKey(r)) \/ UNCHANGED told
  /\ OnlyReplies /\ UNCHANGED claims

(***************************************************************************)
(* The workers                                                             *)
(***************************************************************************)
Refused(r, id, why) == [r EXCEPT !.at = "refused", !.id = id, !.why = why]

Parse(i) ==
  /\ ~strict /\ replies[i].at = "got"
  /\ LET r == replies[i]
     IN Moves(i, IF ParsedId(r) = 0 THEN Refused(r, RefusedId(r), "invalid")
                 ELSE [r EXCEPT !.at = "look", !.id = ParsedId(r)])
  /\ OnlyReplies /\ UNCHANGED <<claims, told, sent>>

\* loadPendingReply looks three times.
Look(i) ==
  /\ replies[i].at = "look"
  /\ LET r == replies[i]
         c == FindPendingByReplyId(r.id)
     IN Moves(i, CASE c # NoConv -> [r EXCEPT !.at = "ready", !.conv = c]
                   [] c = NoConv /\ r.tries < 2 -> [r EXCEPT !.tries = @ + 1]
                   [] OTHER -> Refused(r, r.id, "missing"))
  /\ OnlyReplies /\ UNCHANGED <<claims, told, sent>>

\* pickBuyerMessageForNick in a list of messages of some conversations
Picked(some, c) ==
  LET named == {d \in some : NickMatches(d, c)} IN IF named = {} THEN some ELSE named

\* fetchMessageListRaw repeats the request of the page.
AsListed(c) == Picked(listed, c)

\* fetchMessageListForAppCid asks for c itself, unless the request it imitates
\* was for a batch.
AsHinted(c) == IF Cardinality(listed) = 1 THEN {c} ELSE AsListed(c)

\* A session context of a buyer who has that name.
AsKnown(c) == {d \in known : NickMatches(d, c)}

\* resolveReplyContextForSend: the conversation it may come up with for the
\* buyer of c.  Each of the two requests to the page may fail, or both may take
\* too long.
Resolved(c) == AsListed(c) \cup AsHinted(c) \cup AsKnown(c) \cup {c}

\* sendQianfanReplyRequest, and the result on its way back to wechat-reply
Send(i) ==
  /\ replies[i].at = "ready"
  /\ LET r == replies[i]
     IN \E d \in Resolved(r.conv) :
          /\ known' = known \cup {d}
          /\ \/ sent' = sent \cup {<<i, d>>} /\ Moves(i, [r EXCEPT !.at = "over"])
             \/ Moves(i, Refused(r, r.id, "failed")) /\ UNCHANGED sent
  /\ UNCHANGED <<strict, fileVars, notices, echoes, listed, told, lost>>

(***************************************************************************)
(* sendFailureReceiptWithDedup                                             *)
(***************************************************************************)
ClaimOf(k) == IF k \in DOMAIN claims THEN claims[k] ELSE "none"
Claims(k, status) == claims' = Put(claims, k, status)

\* (mutant) only a receipt that was sent holds back another
Unsent(k) == ClaimOf(k) # "sent"

\* failureReceipt.ensureNotSent
EnsureNotSent(k) == ClaimOf(k) \notin {"sending", "sent"}

Claim(i) ==
  /\ replies[i].at = "refused"
  /\ LET r == replies[i]
     IN IF EnsureNotSent(ReceiptKey(r))
        THEN Moves(i, [r EXCEPT !.at = "claimed"]) /\ Claims(ReceiptKey(r), "sending")
        ELSE Moves(i, [r EXCEPT !.at = "over"]) /\ UNCHANGED claims
  /\ OnlyReplies /\ UNCHANGED <<told, sent>>

Tell(i) ==
  /\ replies[i].at = "claimed"
  /\ LET r == replies[i]
     IN \/ Receipt(ReceiptKey(r)) /\ Moves(i, [r EXCEPT !.at = "marking"]) /\ UNCHANGED claims
        \/ /\ Claims(ReceiptKey(r), "failed") /\ Moves(i, [r EXCEPT !.at = "over"])
           /\ UNCHANGED told
  /\ OnlyReplies /\ UNCHANGED sent

MarkSent(i) ==
  /\ replies[i].at = "marking"
  /\ Claims(ReceiptKey(replies[i]), "sent")
  /\ Moves(i, [replies[i] EXCEPT !.at = "over"])
  /\ OnlyReplies /\ UNCHANGED <<told, sent>>

\* FAILURE_RECEIPT_STALE_SENDING_MS is longer than sendWxText may take.
GoesStale(k) ==
  /\ ClaimOf(k) = "sending"
  /\ \A i \in DOMAIN replies :
       replies[i].at \in {"claimed", "marking"} => ReceiptKey(replies[i]) # k
  /\ Claims(k, "stale")
  /\ OnlyReplies /\ UNCHANGED <<replies, told, sent>>

\* The reply worker is restarted; what it had begun is not taken up again.
WorkerDies ==
  /\ ~strict /\ Happens /\ "reply worker" \notin lost
  /\ lost' = lost \cup {"reply worker"}
  /\ replies' = [i \in DOMAIN replies |->
       IF replies[i].at \in {"look", "refused", "claimed", "marking"}
       THEN [replies[i] EXCEPT !.at = "cut"] ELSE replies[i]]
  /\ UNCHANGED <<strict, fileVars, notices, echoes, known, listed, told, sent>>

WorkerStep(i) == Parse(i) \/ Look(i) \/ Send(i) \/ Claim(i) \/ Tell(i) \/ MarkSent(i)

TargetNext ==
  \/ \E c \in Conv, to \in SUBSET Receiver \ {{}} : Notify(c, to)
  \/ \E n \in DOMAIN notices, to \in SUBSET Receiver \ {{}} : NotifyAgain(n, to)
  \/ \E wx \in Wx : Echo(wx)
  \/ \E some \in Lists : PageLists(some)
  \/ \E n \in DOMAIN notices, from \in Receiver, mode \in Modes : Reply(n, from, mode)
  \/ \E file \in File : CutOff(file)
  \/ \E i \in DOMAIN replies : StrictReply(i) \/ WorkerStep(i)
  \/ \E k \in DOMAIN claims : GoesStale(k)
  \/ WorkerDies

(***************************************************************************)
(* Properties                                                              *)
(***************************************************************************)
Meant(i) == notices[replies[i].notice].conv

\* The text of a reply goes to the buyer of the notice that was answered, as
\* long as no file is cut off.  (The one-click program keeps to it, the workers
\* do not.)
SentToMeant == lost = {} => \A s \in sent : s[2] = Meant(s[1])

\* The target lock: whatever files are cut off and whenever the callbacks come,
\* a reply that shows the text of its notice never reaches a buyer whose name
\* does not fit, and unless the counter starts again no reply of any kind
\* reaches another buyer.
LockHolds ==
  strict => \A s \in sent :
    \/ s[2] = Meant(s[1])
    \/ /\ "counter" \in lost
       /\ ShowsText(replies[s[1]].mode) => NickMatches(s[2], Meant(s[1]))

\* What wechat-reply hands to the sender is the row of the notice that was
\* answered, unless the counter starts again: rows are lost, callbacks come
\* late, but an id stands for one conversation.
HandsOverMeant ==
  ~strict /\ "counter" \notin lost =>
    \A i \in DOMAIN replies : replies[i].at = "ready" => replies[i].conv = Meant(i)

\* Either program means the buyer whose notice was answered.
MeansTheBuyer == LockHolds /\ HandsOverMeant

\* A receiver whose text went to nobody gets to know of it, once per reason:
\* no failure is silent while the reply worker lives and WeChat takes the
\* receipt, and two failures of a kind at the same time do not make two receipts.
FailureToldOnce ==
  ~strict =>
    /\ "reply worker" \notin lost => \A k \in Key : told[k] <= 1
    /\ \A i \in DOMAIN replies :
         replies[i].at = "over" /\ ~(\E s \in sent : s[1] = i) =>
           \/ told[ReceiptKey(replies[i])] >= 1
           \/ ClaimOf(ReceiptKey(replies[i])) \in {"sending", "failed", "stale"}
===============================================================================
