---------------------------- MODULE ReachedProofs ----------------------------
(***************************************************************************)
(* That what is sent reaches the buyer, or serves the shop, that is meant: *)
(* the inductive invariants of quoted replies, of what the bot does by     *)
(* hand in the shop's page, of the sessions of the protocol bridge and of  *)
(* the configuration the bridge is given.  The theorems about the four of  *)
(* them together are in PartsProofs.                                       *)
(***************************************************************************)
EXTENDS ReplyTarget, ShopUi, BridgeSession, ProtocolConfig, SequenceTheorems,
        WellFoundedInduction, TLAPS

(* A number that is chosen as the least or the greatest of some is one of them. *)
LEMMA LeastOf ==
  ASSUME NEW at, at \subseteq Nat, at # {}
  PROVE  (CHOOSE i \in at : \A j \in at : i <= j) \in at
<1>1. PICK x \in at : \A y \in at : ~(<<y, x>> \in OpToRel(<, Nat))
  BY NatLessThanWellFounded, WFMin
<1>2. \A y \in at : ~(y < x)
  BY <1>1 DEF OpToRel
<1>3. \A y \in at : x <= y
  BY <1>2
<1> QED
  BY <1>3

LEMMA GreatestOf ==
  ASSUME NEW n \in Nat, NEW at, at \subseteq 1..n, at # {}
  PROVE  (CHOOSE i \in at : \A j \in at : j <= i) \in at
<1> DEFINE back == {m \in 0..n : n - m \in at}
<1>1. back \subseteq Nat /\ back # {}
  <2>1. PICK y \in at : TRUE
    OBVIOUS
  <2>2. n - y \in 0..n /\ n - (n - y) = y
    BY <2>1
  <2>3. n - y \in back
    BY <2>1, <2>2
  <2>4. back \subseteq Nat
    OBVIOUS
  <2> QED
    BY <2>3, <2>4
<1>2. PICK m \in back : \A k \in back : ~(<<k, m>> \in OpToRel(<, Nat))
  BY <1>1, NatLessThanWellFounded, WFMin
<1>3. \A k \in back : ~(k < m)
  BY <1>1, <1>2 DEF OpToRel
<1>4. \A j \in at : j <= n - m
  <2> TAKE j \in at
  <2>1. j \in 1..n /\ n - j \in 0..n /\ n - (n - j) = j
    OBVIOUS
  <2>2. n - j \in back
    BY <2>1
  <2>3. ~(n - j < m) /\ m \in 0..n
    BY <1>2, <1>3, <2>2
  <2> QED
    BY <2>1, <2>3
<1>5. n - m \in at
  BY <1>2
<1> QED
  BY <1>4, <1>5

-------------------------------------------------------------------------------
(***************************************************************************)
(* Quoted replies (ReplyTarget)                                            *)
(***************************************************************************)
SomeConv == Conv \cup {NoConv}
Entry == [id : Ids, conv : SomeConv, to : Receiver]
PendingRow == [id : Ids, conv : Conv]
Notice == [id : Ids, conv : Conv, to : SUBSET Receiver]
ReplyRecord == [mode : Mode, notice : 1..MaxNotice, from : Receiver, at : ReplyAt,
                id : Ids \cup {0}, conv : SomeConv, tries : 0..3, why : Why \cup {"none"}]

\* Every id that was given out is smaller than the counter, which counts the notices.
NoticesFit ==
  /\ strict \in BOOLEAN /\ counter \in FirstId..(FirstId + Len(notices))
  /\ rows \in Seq(PendingRow) /\ notices \in Seq(Notice) /\ Len(notices) <= MaxNotice
  /\ known \subseteq Conv /\ listed \subseteq Conv /\ lost \subseteq File \cup {"reply worker"}

\* The map tells of a notice the id it has.
MapFits ==
  /\ echoes \subseteq Wx /\ \A wx \in echoes : wx[1] \in 1..Len(notices)
  /\ DOMAIN sentMap \subseteq Wx
  /\ \A wx \in DOMAIN sentMap :
       sentMap[wx] \in Entry /\ wx[1] \in 1..Len(notices) /\ sentMap[wx].id = notices[wx[1]].id
  /\ DOMAIN sentIds \subseteq Ids /\ \A id \in DOMAIN sentIds : sentIds[id] \in Entry
  /\ recorded \subseteq Ids \X Receiver

\* Until the counter starts again, an id stands for one conversation.
IdsStand ==
  "counter" \notin lost =>
    /\ \A i \in 1..Len(rows) : rows[i].id < counter
    /\ \A n \in 1..Len(notices) : notices[n].id < counter
    /\ \A i \in 1..Len(rows), n \in 1..Len(notices) :
         rows[i].id = notices[n].id => rows[i].conv = notices[n].conv

\* A reply has the id of its notice when its row is looked up, and its conversation
\* when it is handed over; one that is refused has a reason.
ReplyFits(r) ==
  /\ r \in ReplyRecord /\ r.notice \in 1..Len(notices)
  /\ r.at \in {"refused", "claimed", "marking"} => r.why \in Why
  /\ r.at = "look" => ~strict /\ r.id = notices[r.notice].id
  /\ r.at = "ready" => /\ ~strict /\ r.conv # NoConv /\ r.id \in Ids
                       /\ "counter" \notin lost => r.conv = notices[r.notice].conv
  /\ r.at \in {"refused", "claimed", "marking"} => ~strict
RepliesFit ==
  /\ replies \in Seq(ReplyRecord) /\ Len(replies) <= MaxReply
  /\ \A i \in 1..Len(replies) : ReplyFits(replies[i])

SentFit ==
  /\ sent \subseteq (1..MaxReply) \X Conv
  /\ \A s \in sent : s[1] \in 1..Len(replies)
  /\ LockHolds

Went(i) == \E s \in sent : s[1] = i
Writing(k, i) == replies[i].at \in {"claimed", "marking"} /\ ReceiptKey(replies[i]) = k

\* What is marked as told was told, and whose reply went to nobody was told or is
\* marked as one who was not.
TellsAll ==
  /\ \A k \in Key : ClaimOf(k) = "sent" => told[k] >= 1
  /\ \A k \in Key, i \in 1..Len(replies) :
       replies[i].at = "marking" /\ ReceiptKey(replies[i]) = k => told[k] >= 1
  /\ \A i \in 1..Len(replies) : replies[i].at = "over" /\ ~Went(i) => replies[i].why \in Why
  /\ \A k \in Key, i \in 1..Len(replies) :
       replies[i].at = "over" /\ ~Went(i) /\ ReceiptKey(replies[i]) = k =>
         told[k] >= 1 \/ ClaimOf(k) \in {"sending", "failed", "stale"}

\* As long as the worker lives a key is claimed by one reply at most, and
\* nobody was told but by the one that is marked or is about to be.
TellsOnce ==
  "reply worker" \notin lost =>
    \A k \in Key :
      /\ told[k] <= 1 /\ ClaimOf(k) # "stale"
      /\ told[k] = 1 => \/ ClaimOf(k) = "sent"
                        \/ \E i \in 1..Len(replies) : Writing(k, i) /\ replies[i].at = "marking"
      /\ ClaimOf(k) = "sending" => \E i \in 1..Len(replies) : Writing(k, i)
      /\ \A i \in 1..Len(replies) : Writing(k, i) => ClaimOf(k) = "sending"
      /\ \A i, j \in 1..Len(replies) : Writing(k, i) /\ Writing(k, j) => i = j

ClaimsFit ==
  /\ DOMAIN claims \subseteq Key
  /\ \A k \in DOMAIN claims : claims[k] \in {"sending", "stale", "sent", "failed"}
  /\ told \in [Key -> Nat]
ReceiptsFit == ClaimsFit /\ (~strict => TellsAll /\ TellsOnce)

TargetInv == NoticesFit /\ MapFits /\ IdsStand /\ RepliesFit /\ SentFit /\ ReceiptsFit

\* The row that is found for an id has it.
LEMMA FoundRow ==
  ASSUME NoticesFit, NEW id
  PROVE  /\ FindPendingByReplyId(id) \in SomeConv
         /\ FindPendingByReplyId(id) # NoConv =>
              \E i \in 1..Len(rows) : rows[i].id = id /\ rows[i].conv = FindPendingByReplyId(id)
<1> DEFINE at == {i \in DOMAIN rows : rows[i].id = id}
           last == CHOOSE i \in at : \A j \in at : j <= i
<1>1. rows \in Seq(PendingRow) /\ DOMAIN rows = 1..Len(rows) /\ Len(rows) \in Nat
  <2>1. rows \in Seq(PendingRow)
    BY DEF NoticesFit
  <2> QED
    BY <2>1, LenProperties
<1>2. CASE at = {}
  BY <1>2 DEF FindPendingByReplyId, SomeConv
<1>3. CASE at # {}
  <2>1. at \subseteq 1..Len(rows)
    BY <1>1
  <2> HIDE DEF at
  <2>2. last \in at
    BY <1>1, <1>3, <2>1, GreatestOf
  <2>3. FindPendingByReplyId(id) = rows[last].conv
    BY <1>3 DEF FindPendingByReplyId, at
  <2> HIDE DEF last
  <2>4. rows[last] \in PendingRow /\ last \in 1..Len(rows) /\ rows[last].id = id
    BY <1>1, <2>1, <2>2 DEF at
  <2> QED
    BY <2>3, <2>4 DEF PendingRow, SomeConv
<1> QED
  BY <1>2, <1>3

LEMMA FoundIsMeant ==
  ASSUME NoticesFit, IdsStand, "counter" \notin lost, NEW n \in 1..Len(notices),
         FindPendingByReplyId(notices[n].id) # NoConv
  PROVE  FindPendingByReplyId(notices[n].id) = notices[n].conv
BY FoundRow DEF IdsStand

\* The map is asked for a notice that the receiver has quoted.
LEMMA Mapped ==
  ASSUME NoticesFit, MapFits, NEW n \in 1..Len(notices), NEW from
  PROVE  LookupSentNotificationForQuote(<<n, from>>, from) \in {0, notices[n].id}
BY DEF MapFits, LookupSentNotificationForQuote

LEMMA NoticeIds ==
  ASSUME NoticesFit, NEW n \in 1..Len(notices)
  PROVE  /\ n \in 1..MaxNotice /\ notices[n] \in Notice /\ notices[n].id \in Ids
         /\ notices[n].id # 0 /\ notices[n].conv \in Conv
<1>1. notices \in Seq(Notice) /\ Len(notices) <= MaxNotice
  BY DEF NoticesFit
<1>2. MaxNotice \in Nat
  BY ReplyTargetAssumption
<1>3. notices[n] \in Notice /\ n \in 1..MaxNotice
  BY <1>1, <1>2, ElementOfSeq, LenProperties
<1>4. 0 \notin Ids
  BY <1>2 DEF Ids, FirstId
<1> QED
  BY <1>3, <1>4 DEF Notice

\* Every kind of reply that is not refused has the id of its notice.
LEMMA ParsedIsNotices ==
  ASSUME NoticesFit, MapFits, NEW r, r \in ReplyRecord, r.notice \in 1..Len(notices)
  PROVE  /\ ParsedId(r) \in {0, notices[r.notice].id}
         /\ RefusedId(r) \in {0, notices[r.notice].id}
<1> DEFINE id == notices[r.notice].id
           mapped == LookupSentNotificationForQuote(<<r.notice, r.from>>, r.from)
<1>1. mapped \in {0, id}
  BY Mapped
<1>2. TextId(r) \in {0, id}
  BY DEF TextId
<1> HIDE DEF mapped
<1> QED
  BY <1>1, <1>2 DEF ParsedId, RefusedId, mapped

(***************************************************************************)
(* The notices                                                             *)
(***************************************************************************)

\* The notices that replies are about stay what they are.
NoticesStay ==
  /\ \A n \in 1..Len(notices) :
       n \in 1..Len(notices') /\ notices'[n].id = notices[n].id /\ notices'[n].conv = notices[n].conv
  /\ lost \subseteq lost'

LEMMA ReplyStays ==
  ASSUME NoticesStay, UNCHANGED strict, NEW r, ReplyFits(r)
  PROVE  ReplyFits(r)'
BY DEF NoticesStay, ReplyFits

LEMMA LockStays ==
  ASSUME NoticesStay, UNCHANGED strict, RepliesFit, SentFit,
         \A i \in 1..Len(replies) :
           replies'[i].notice = replies[i].notice /\ replies'[i].mode = replies[i].mode
  PROVE  \A s \in sent : strict' => \/ s[2] = Meant(s[1])'
                                    \/ /\ "counter" \in lost'
                                       /\ ShowsText(replies'[s[1]].mode) => NickMatches(s[2], Meant(s[1])')
<1> TAKE s \in sent
<1>1. s[1] \in 1..Len(replies)
  BY DEF SentFit
<1>2. Meant(s[1])' = Meant(s[1]) /\ replies'[s[1]].mode = replies[s[1]].mode
  BY <1>1 DEF Meant, NoticesStay, RepliesFit, ReplyFits
<1>3. strict => \/ s[2] = Meant(s[1])
                \/ /\ "counter" \in lost
                   /\ ShowsText(replies[s[1]].mode) => NickMatches(s[2], Meant(s[1]))
  BY DEF SentFit, LockHolds
<1> QED
  BY <1>2, <1>3 DEF NoticesStay

LEMMA AroundReplies ==
  ASSUME NoticesStay, "reply worker" \in lost' => "reply worker" \in lost,
         UNCHANGED <<strict, replies, sent, claims, told>>, RepliesFit, SentFit, ReceiptsFit
  PROVE  RepliesFit' /\ SentFit' /\ ReceiptsFit'
<1>1. RepliesFit'
  BY ReplyStays DEF RepliesFit
<1>2. LockHolds'
  BY LockStays DEF LockHolds
<1>3. SentFit'
  BY <1>2 DEF SentFit
<1>4. ClaimsFit'
  BY DEF ReceiptsFit, ClaimsFit
<1>5. ~strict => TellsAll'
  BY DEF ReceiptsFit, TellsAll, ClaimOf, Went, ReceiptKey
<1>6. ~strict => TellsOnce'
  BY ZenonT(40) DEF ReceiptsFit, TellsOnce, ClaimOf, Writing, ReceiptKey, NoticesStay
<1> QED
  BY <1>1, <1>3, <1>4, <1>5, <1>6 DEF ReceiptsFit

LEMMA NotifyKeeps ==
  ASSUME TargetInv, NEW c \in Conv, NEW to \in SUBSET Receiver \ {{}}, Notify(c, to)
  PROVE  TargetInv'
<1> DEFINE many == Len(notices)
           put == Len(rows)
           new == [id |-> counter, conv |-> c, to |-> to]
           row == [id |-> counter, conv |-> c]
<1>1. /\ notices' = Append(notices, new) /\ rows' = Append(rows, row) /\ many < MaxNotice
      /\ counter' = counter + 1 /\ known' = known \cup {c} /\ echoes' = echoes \cup {many + 1} \X to
      /\ UNCHANGED <<strict, sentMap, sentIds, recorded, claims, listed, replies, told, sent, lost>>
  BY DEF Notify, NextReplyId
<1>2. /\ notices \in Seq(Notice) /\ rows \in Seq(PendingRow) /\ many \in Nat /\ put \in Nat
      /\ many <= MaxNotice /\ MaxNotice \in Nat /\ counter \in FirstId..(FirstId + many)
  BY ReplyTargetAssumption, LenProperties DEF TargetInv, NoticesFit
<1>3. new \in Notice /\ row \in PendingRow /\ counter \in Ids
  BY <1>1, <1>2 DEF Notice, PendingRow, Ids, FirstId
<1>3a. new.id = counter /\ new.conv = c /\ row.id = counter /\ row.conv = c
  OBVIOUS
<1> HIDE DEF new, row, many, put
<1>4. /\ notices' \in Seq(Notice) /\ Len(notices') = many + 1 /\ notices'[many + 1] = new
      /\ \A i \in 1..many : notices'[i] = notices[i]
  BY <1>1, <1>2, <1>3, AppendProperties DEF many
<1>5. /\ rows' \in Seq(PendingRow) /\ Len(rows') = put + 1 /\ rows'[put + 1] = row
      /\ \A i \in 1..put : rows'[i] = rows[i]
  BY <1>1, <1>2, <1>3, AppendProperties DEF put
<1>6. NoticesStay
  BY <1>1, <1>2, <1>4 DEF NoticesStay, many
<1>7. RepliesFit' /\ SentFit' /\ ReceiptsFit'
  BY <1>1, <1>6, AroundReplies DEF TargetInv
<1>8. NoticesFit'
  <2>1. counter' \in FirstId..(FirstId + Len(notices')) /\ Len(notices') <= MaxNotice
    BY <1>1, <1>2, <1>4 DEF FirstId
  <2>2. strict' \in BOOLEAN /\ known' \subseteq Conv /\ listed' \subseteq Conv
        /\ lost' \subseteq File \cup {"reply worker"}
    BY <1>1 DEF TargetInv, NoticesFit
  <2> QED
    BY <1>4, <1>5, <2>1, <2>2 DEF NoticesFit
<1>9. MapFits'
  <2>1. echoes' \subseteq Wx /\ \A wx \in echoes' : wx[1] \in 1..Len(notices')
    BY <1>1, <1>2, <1>4 DEF TargetInv, MapFits, Wx, many
  <2>2. \A wx \in DOMAIN sentMap : wx[1] \in 1..Len(notices') /\ sentMap[wx].id = notices'[wx[1]].id
    BY <1>2, <1>4 DEF TargetInv, MapFits, many
  <2> QED
    BY <1>1, <2>1, <2>2 DEF TargetInv, MapFits
<1>10. ASSUME "counter" \notin lost
       PROVE  /\ \A i \in 1..(put + 1) : rows'[i].id < counter + 1
              /\ \A j \in 1..(many + 1) : notices'[j].id < counter + 1
              /\ \A i \in 1..(put + 1), j \in 1..(many + 1) :
                   rows'[i].id = notices'[j].id => rows'[i].conv = notices'[j].conv
  <2>0. IdsStand
    BY DEF TargetInv
  <2>1. /\ \A i \in 1..put : rows[i].id < counter
        /\ \A j \in 1..many : notices[j].id < counter
        /\ \A i \in 1..put, j \in 1..many : rows[i].id = notices[j].id => rows[i].conv = notices[j].conv
    BY <1>10, <2>0 DEF IdsStand, put, many
  <2>2. \A i \in 1..put : rows[i].id \in Nat
    <3>1. \A i \in 1..put : rows[i] \in PendingRow
      BY <1>2, ElementOfSeq DEF put
    <3> QED
      BY <3>1, ReplyTargetAssumption DEF PendingRow, Ids, FirstId
  <2>3. \A j \in 1..many : notices[j].id \in Nat
    <3>1. \A i \in 1..many : notices[i] \in Notice
      BY <1>2, ElementOfSeq DEF many
    <3> QED
      BY <3>1, ReplyTargetAssumption DEF Notice, Ids, FirstId
  <2>4. counter \in Nat
    BY <1>2 DEF FirstId
  <2>5. \A i \in 1..(put + 1) : i \in 1..put \/ i = put + 1
    BY <1>2
  <2>6. \A i \in 1..(many + 1) : i \in 1..many \/ i = many + 1
    BY <1>2
  <2>7. \A i \in 1..(put + 1) : rows'[i].id < counter + 1
    BY <1>3a, <1>5, <2>1, <2>2, <2>4, <2>5
  <2>8. \A j \in 1..(many + 1) : notices'[j].id < counter + 1
    BY <1>3a, <1>4, <2>1, <2>3, <2>4, <2>6
  <2>9. ASSUME NEW i \in 1..(put + 1), NEW j \in 1..(many + 1), rows'[i].id = notices'[j].id
        PROVE  rows'[i].conv = notices'[j].conv
    <3>1. CASE i \in 1..put /\ j \in 1..many
      BY <2>9, <3>1, <2>1, <1>4, <1>5
    <3>2. CASE i \in 1..put /\ j = many + 1
      BY <2>9, <3>2, <2>1, <2>2, <2>4, <1>3a, <1>4, <1>5
    <3>3. CASE i = put + 1 /\ j \in 1..many
      BY <2>9, <3>3, <2>1, <2>3, <2>4, <1>3a, <1>4, <1>5
    <3>4. CASE i = put + 1 /\ j = many + 1
      BY <3>4, <1>3a, <1>4, <1>5
    <3> QED
      BY <2>5, <2>6, <3>1, <3>2, <3>3, <3>4
  <2> QED
    BY <2>7, <2>8, <2>9
<1>11. IdsStand'
  <2>1. counter' = counter + 1 /\ Len(rows') = put + 1 /\ Len(notices') = many + 1 /\ lost' = lost
    BY <1>1, <1>4, <1>5
  <2> QED
    BY <1>10, <2>1 DEF IdsStand
<1> QED
  BY <1>7, <1>8, <1>9, <1>11 DEF TargetInv

LEMMA NotifyAgainKeeps ==
  ASSUME TargetInv, NEW k \in DOMAIN notices, NEW to \in SUBSET Receiver \ {{}}, NotifyAgain(k, to)
  PROVE  TargetInv'
<1> DEFINE n == Len(notices)
           new == [notices[k] EXCEPT !.to = to]
<1>1. /\ notices' = Append(notices, new) /\ n < MaxNotice /\ echoes' = echoes \cup {n + 1} \X to
      /\ UNCHANGED <<strict, counter, rows, sentMap, sentIds, recorded, claims, known, listed,
                     replies, told, sent, lost>>
  BY DEF NotifyAgain, fileVars
<1>2. /\ notices \in Seq(Notice) /\ n \in Nat /\ k \in 1..n
      /\ n <= MaxNotice /\ MaxNotice \in Nat /\ counter \in FirstId..(FirstId + n)
  BY ReplyTargetAssumption, LenProperties DEF TargetInv, NoticesFit
<1>3. notices[k] \in Notice
  BY <1>2, ElementOfSeq
<1>4. new \in Notice /\ new.id = notices[k].id /\ new.conv = notices[k].conv
  BY <1>3 DEF Notice
<1> HIDE DEF new, n
<1>5. /\ notices' \in Seq(Notice) /\ Len(notices') = n + 1 /\ notices'[n + 1] = new
      /\ \A i \in 1..n : notices'[i] = notices[i]
  BY <1>1, <1>2, <1>4, AppendProperties DEF n
<1>6. NoticesStay
  BY <1>1, <1>2, <1>5 DEF NoticesStay, n
<1>7. RepliesFit' /\ SentFit' /\ ReceiptsFit'
  BY <1>1, <1>6, AroundReplies DEF TargetInv
<1>8. NoticesFit'
  <2>1. counter' \in FirstId..(FirstId + Len(notices')) /\ Len(notices') <= MaxNotice
    BY <1>1, <1>2, <1>5 DEF FirstId
  <2>2. strict' \in BOOLEAN /\ known' \subseteq Conv /\ listed' \subseteq Conv
        /\ lost' \subseteq File \cup {"reply worker"} /\ rows' \in Seq(PendingRow)
    BY <1>1 DEF TargetInv, NoticesFit
  <2> QED
    BY <1>5, <2>1, <2>2 DEF NoticesFit
<1>9. MapFits'
  <2>1. echoes' \subseteq Wx /\ \A wx \in echoes' : wx[1] \in 1..Len(notices')
    BY <1>1, <1>2, <1>5 DEF TargetInv, MapFits, Wx, n
  <2>2. \A wx \in DOMAIN sentMap : wx[1] \in 1..Len(notices') /\ sentMap[wx].id = notices'[wx[1]].id
    BY <1>2, <1>5 DEF TargetInv, MapFits, n
  <2> QED
    BY <1>1, <2>1, <2>2 DEF TargetInv, MapFits
<1>10. IdsStand'
  <2>1. \A j \in 1..(n + 1) : \E i \in 1..n :
          notices'[j].id = notices[i].id /\ notices'[j].conv = notices[i].conv
    <3> TAKE j \in 1..(n + 1)
    <3>1. CASE j \in 1..n
      BY <1>5, <3>1
    <3>2. CASE j = n + 1
      BY <1>2, <1>4, <1>5, <3>2
    <3> QED
      BY <1>2, <3>1, <3>2
  <2>2. SUFFICES ASSUME "counter" \notin lost
        PROVE  /\ \A i \in 1..Len(rows) : rows[i].id < counter
               /\ \A j \in 1..(n + 1) : notices'[j].id < counter
               /\ \A i \in 1..Len(rows), j \in 1..(n + 1) :
                    rows[i].id = notices'[j].id => rows[i].conv = notices'[j].conv
    BY <1>1, <1>5 DEF IdsStand
  <2>3. /\ \A i \in 1..Len(rows) : rows[i].id < counter
        /\ \A i \in 1..n : notices[i].id < counter
        /\ \A i \in 1..Len(rows), m \in 1..n : rows[i].id = notices[m].id => rows[i].conv = notices[m].conv
    BY <2>2 DEF TargetInv, IdsStand, n
  <2> QED
    BY <2>1, <2>3
<1> QED
  BY <1>7, <1>8, <1>9, <1>10 DEF TargetInv

LEMMA EchoKeeps ==
  ASSUME TargetInv, NEW wx \in Wx, Echo(wx)
  PROVE  TargetInv'
<1> DEFINE id == notices[wx[1]].id
           row == FindPendingByReplyId(id)
           before == IF id \in DOMAIN sentIds THEN sentIds[id].conv ELSE NoConv
           conv == IF row = NoConv THEN before ELSE row
           entry == [id |-> id, to |-> wx[2], conv |-> conv]
<1>1. /\ wx \in echoes /\ echoes' = echoes \ {wx}
      /\ UNCHANGED <<strict, counter, rows, claims, notices, known, listed, replies, told, sent, lost>>
  BY DEF Echo
<1>2. NoticesStay
  BY <1>1 DEF NoticesStay
<1>3. RepliesFit' /\ SentFit' /\ ReceiptsFit'
  BY <1>1, <1>2, AroundReplies DEF TargetInv
<1>4. NoticesFit' /\ IdsStand'
  BY <1>1 DEF TargetInv, NoticesFit, IdsStand
<1>5. wx[1] \in 1..Len(notices) /\ wx[2] \in Receiver
  BY <1>1 DEF TargetInv, MapFits, Wx
<1>6. id \in Ids /\ row \in SomeConv
  BY <1>5, NoticeIds, FoundRow DEF TargetInv
<1>7. conv \in SomeConv
  BY <1>6 DEF TargetInv, MapFits, Entry, SomeConv
<1>8. \/ /\ sentMap' = Put(sentMap, wx, entry) /\ sentIds' = Put(sentIds, id, entry)
         /\ recorded' \in {recorded, recorded \cup {<<id, wx[2]>>}}
      \/ UNCHANGED <<sentMap, sentIds, recorded>>
  BY DEF Echo
<1> HIDE DEF row, before, conv
<1>9. entry \in Entry /\ entry.id = id
  BY <1>5, <1>6, <1>7 DEF Entry
<1> HIDE DEF entry
<1>10. MapFits'
  <2>1. echoes' \subseteq Wx /\ \A x \in echoes' : x[1] \in 1..Len(notices')
    BY <1>1 DEF TargetInv, MapFits
  <2>2. recorded' \subseteq Ids \X Receiver
    BY <1>5, <1>6, <1>8 DEF TargetInv, MapFits
  <2>3. /\ DOMAIN sentMap' \subseteq Wx
        /\ \A x \in DOMAIN sentMap' :
             sentMap'[x] \in Entry /\ x[1] \in 1..Len(notices) /\ sentMap'[x].id = notices[x[1]].id
    <3>1. CASE sentMap' = Put(sentMap, wx, entry)
      BY <1>5, <1>9, <3>1 DEF TargetInv, MapFits, Put
    <3>2. CASE UNCHANGED sentMap
      BY <3>2 DEF TargetInv, MapFits
    <3> QED
      BY <1>8, <3>1, <3>2
  <2>4. DOMAIN sentIds' \subseteq Ids /\ \A x \in DOMAIN sentIds' : sentIds'[x] \in Entry
    <3>1. CASE sentIds' = Put(sentIds, id, entry)
      BY <1>6, <1>9, <3>1 DEF TargetInv, MapFits, Put
    <3>2. CASE UNCHANGED sentIds
      BY <3>2 DEF TargetInv, MapFits
    <3> QED
      BY <1>8, <3>1, <3>2
  <2> QED
    BY <1>1, <2>1, <2>2, <2>3, <2>4 DEF MapFits
<1> QED
  BY <1>3, <1>4, <1>10 DEF TargetInv

LEMMA PageListsKeeps ==
  ASSUME TargetInv, NEW some \in Lists, PageLists(some)
  PROVE  TargetInv'
<1>1. /\ listed' = some
      /\ UNCHANGED <<strict, counter, rows, sentMap, sentIds, recorded, claims, notices, echoes, known,
                     replies, told, sent, lost>>
  BY DEF PageLists, fileVars
<1>2. NoticesStay
  BY <1>1 DEF NoticesStay
<1>3. RepliesFit' /\ SentFit' /\ ReceiptsFit'
  BY <1>1, <1>2, AroundReplies DEF TargetInv
<1>4. some \subseteq Conv
  BY ReplyTargetAssumption
<1>5. NoticesFit'
  BY <1>1, <1>4 DEF TargetInv, NoticesFit
<1>6. IdsStand' /\ MapFits'
  BY <1>1 DEF TargetInv, IdsStand, MapFits
<1> QED
  BY <1>3, <1>5, <1>6 DEF TargetInv

LEMMA CutOffKeeps ==
  ASSUME TargetInv, NEW file \in File, CutOff(file)
  PROVE  TargetInv'
<1>1. /\ lost' = lost \cup {file} /\ file \in {"counter", "pending", "map"}
      /\ UNCHANGED <<strict, recorded, claims, notices, echoes, known, listed, replies, told, sent>>
      /\ \/ file = "counter" /\ counter' = FirstId /\ UNCHANGED <<rows, sentMap, sentIds>>
         \/ file = "pending" /\ rows' = <<>> /\ UNCHANGED <<counter, sentMap, sentIds>>
         \/ file = "map" /\ sentMap' = NoEntries /\ sentIds' = NoEntries /\ UNCHANGED <<counter, rows>>
  BY DEF CutOff, File
<1>2. NoticesStay /\ ("reply worker" \in lost' => "reply worker" \in lost)
  BY <1>1 DEF NoticesStay
<1>3. RepliesFit' /\ SentFit' /\ ReceiptsFit'
  BY <1>1, <1>2, AroundReplies DEF TargetInv
<1>4. Len(notices) \in Nat /\ <<>> \in Seq(PendingRow) /\ Len(<<>>) = 0
  <2>1. notices \in Seq(Notice)
    BY DEF TargetInv, NoticesFit
  <2> QED
    BY <2>1, LenProperties, EmptySeq
<1>5. counter' \in FirstId..(FirstId + Len(notices)) /\ rows' \in Seq(PendingRow)
  <2>1. FirstId \in FirstId..(FirstId + Len(notices))
    BY <1>4 DEF FirstId
  <2> QED
    BY <1>1, <1>4, <2>1 DEF TargetInv, NoticesFit
<1>6. NoticesFit'
  BY <1>1, <1>5 DEF TargetInv, NoticesFit
<1>7. IdsStand'
  <2>1. "counter" \notin lost' => /\ "counter" \notin lost /\ UNCHANGED counter
                                  /\ rows' = rows \/ rows' = <<>>
    BY <1>1
  <2> QED
    BY <1>1, <1>4, <2>1 DEF TargetInv, IdsStand
<1>8. MapFits'
  BY <1>1 DEF TargetInv, MapFits, NoEntries
<1> QED
  BY <1>3, <1>6, <1>7, <1>8 DEF TargetInv

(***************************************************************************)
(* The replies                                                             *)
(***************************************************************************)

\* One reply moves on; whom it answers and how stays.
Moved(i, q) ==
  /\ i \in 1..Len(replies) /\ q \in ReplyRecord
  /\ q.mode = replies[i].mode /\ q.notice = replies[i].notice /\ q.from = replies[i].from
  /\ Moves(i, q)
  /\ UNCHANGED <<strict, counter, rows, sentMap, sentIds, recorded, notices, echoes, listed, lost>>
  /\ known' \subseteq Conv

LEMMA MovedReply ==
  ASSUME RepliesFit, NEW i, NEW q, Moved(i, q)
  PROVE  /\ replies' \in Seq(ReplyRecord) /\ Len(replies') = Len(replies) /\ replies'[i] = q
         /\ \A j \in 1..Len(replies) \ {i} : replies'[j] = replies[j]
         /\ \A j \in 1..Len(replies) :
              replies'[j].notice = replies[j].notice /\ replies'[j].mode = replies[j].mode
         /\ NoticesStay
<1>1. replies \in Seq(ReplyRecord) /\ replies' = [replies EXCEPT ![i] = q]
  BY DEF RepliesFit, Moved, Moves
<1>2. i \in 1..Len(replies) /\ q \in ReplyRecord
  BY DEF Moved
<1>3. /\ replies' \in Seq(ReplyRecord) /\ Len(replies') = Len(replies)
      /\ \A j \in 1..Len(replies) : replies'[j] = IF j = i THEN q ELSE replies[j]
  BY <1>1, <1>2, ExceptSeq
<1>4. NoticesStay
  BY DEF Moved, NoticesStay
<1> QED
  BY <1>2, <1>3, <1>4 DEF Moved

LEMMA MovedKeeps ==
  ASSUME TargetInv, NEW i, NEW q, Moved(i, q), ReplyFits(q)
  PROVE  /\ NoticesFit' /\ MapFits' /\ IdsStand' /\ RepliesFit'
         /\ sent' = sent => SentFit'
<1>1. /\ UNCHANGED <<strict, counter, rows, sentMap, sentIds, recorded, notices, echoes, listed, lost>>
      /\ known' \subseteq Conv
  BY DEF Moved
<1>2. NoticesFit' /\ MapFits' /\ IdsStand'
  BY <1>1 DEF TargetInv, NoticesFit, MapFits, IdsStand
<1>3. /\ replies' \in Seq(ReplyRecord) /\ Len(replies') = Len(replies) /\ replies'[i] = q
      /\ \A j \in 1..Len(replies) \ {i} : replies'[j] = replies[j]
      /\ \A j \in 1..Len(replies) :
           replies'[j].notice = replies[j].notice /\ replies'[j].mode = replies[j].mode
      /\ NoticesStay
  BY MovedReply DEF TargetInv
<1>4. RepliesFit'
  <2>1. \A j \in 1..Len(replies) : ReplyFits(replies'[j])
    BY <1>3 DEF TargetInv, RepliesFit
  <2> QED
    BY <1>1, <1>3, <2>1, ReplyStays DEF TargetInv, RepliesFit
<1>5. ASSUME sent' = sent PROVE SentFit'
  <2>1. LockHolds'
    BY <1>1, <1>3, <1>5, LockStays DEF TargetInv, LockHolds
  <2> QED
    BY <1>3, <1>5, <2>1 DEF TargetInv, SentFit
<1> QED
  BY <1>2, <1>4, <1>5

LEMMA KeyFits ==
  ASSUME NEW r \in ReplyRecord, r.why \in Why
  PROVE  ReceiptKey(r) \in Key
BY DEF ReplyRecord, ReceiptKey, Key, Why

\* A reply moves that has no receipt to do with.
LEMMA QuietKeeps ==
  ASSUME TargetInv, NEW i, NEW q, Moved(i, q), UNCHANGED <<claims, told>>, sent \subseteq sent',
         replies[i].at \notin {"claimed", "marking"}, q.at \notin {"claimed", "marking"},
         q.at = "over" => \E s \in sent' : s[1] = i
  PROVE  ReceiptsFit'
<1>1. /\ Len(replies') = Len(replies) /\ replies'[i] = q /\ i \in 1..Len(replies)
      /\ \A j \in 1..Len(replies) \ {i} : replies'[j] = replies[j]
  BY MovedReply DEF TargetInv, Moved
<1>2. UNCHANGED <<strict, lost>>
  BY DEF Moved
<1>3. ClaimsFit'
  BY DEF TargetInv, ReceiptsFit, ClaimsFit
<1>4. \A k : ClaimOf(k)' = ClaimOf(k)
  BY DEF ClaimOf
<1>5. \A k, j : j \in 1..Len(replies) =>
        (Writing(k, j)' <=> Writing(k, j)) /\ (Writing(k, j) => replies'[j] = replies[j])
  BY <1>1 DEF Writing, ReceiptKey
<1>6. ASSUME ~strict PROVE TellsAll' /\ TellsOnce'
  <2>0. TellsAll /\ TellsOnce
    BY <1>6 DEF TargetInv, ReceiptsFit
  <2>1. TellsOnce'
    BY <1>1, <1>2, <1>4, <1>5, <2>0 DEF TellsOnce
  <2>2. \A j \in 1..Len(replies) :
          replies'[j].at = "marking" \/ (replies'[j].at = "over" /\ ~Went(j)') =>
            /\ replies'[j] = replies[j] /\ ReceiptKey(replies[j])' = ReceiptKey(replies[j])
            /\ Went(j) => Went(j)'
    BY <1>1 DEF Went, ReceiptKey
  <2>4. TellsAll'
    BY <1>1, <1>4, <2>0, <2>2 DEF TellsAll
  <2> QED
    BY <2>1, <2>4
<1> QED
  BY <1>2, <1>3, <1>6 DEF ReceiptsFit

LEMMA StepOf ==
  ASSUME TargetInv, NEW i \in DOMAIN replies
  PROVE  i \in 1..Len(replies) /\ ReplyFits(replies[i]) /\ replies[i] \in ReplyRecord
         /\ Len(replies) <= MaxReply /\ i \in 1..MaxReply
<1>1. replies \in Seq(ReplyRecord) /\ Len(replies) <= MaxReply /\ MaxReply \in Nat
  BY ReplyTargetAssumption DEF TargetInv, RepliesFit
<1>2. i \in 1..Len(replies) /\ Len(replies) \in Nat
  BY <1>1, LenProperties
<1> QED
  BY <1>1, <1>2 DEF TargetInv, RepliesFit, ReplyFits

LEMMA ParseKeeps ==
  ASSUME TargetInv, NEW i \in DOMAIN replies, Parse(i)
  PROVE  TargetInv'
<1> DEFINE r == replies[i]
           q == IF ParsedId(r) = 0 THEN Refused(r, RefusedId(r), "invalid")
                ELSE [r EXCEPT !.at = "look", !.id = ParsedId(r)]
<1>1. /\ ~strict /\ r.at = "got" /\ Moves(i, q) /\ UNCHANGED <<claims, told, sent>>
      /\ UNCHANGED <<strict, counter, rows, sentMap, sentIds, recorded, notices, echoes, known,
                     listed, lost>>
  BY DEF Parse, OnlyReplies
<1>2. i \in 1..Len(replies) /\ ReplyFits(r) /\ r \in ReplyRecord
  BY StepOf
<1>3. /\ ParsedId(r) \in {0, notices[r.notice].id} /\ RefusedId(r) \in {0, notices[r.notice].id}
      /\ notices[r.notice].id \in Ids
  BY <1>2, ParsedIsNotices, NoticeIds DEF TargetInv, ReplyFits
<1> HIDE DEF r
<1>4. /\ q \in ReplyRecord /\ q.mode = r.mode /\ q.notice = r.notice /\ q.from = r.from
      /\ \/ q.at = "refused" /\ q.why \in Why
         \/ q.at = "look" /\ q.id = notices[r.notice].id
  <2>1. CASE ParsedId(r) = 0
    BY <1>2, <1>3, <2>1 DEF ReplyRecord, Refused, ReplyAt, Why
  <2>2. CASE ParsedId(r) # 0
    BY <1>2, <1>3, <2>2 DEF ReplyRecord, ReplyAt
  <2> QED
    BY <2>1, <2>2
<1> HIDE DEF q
<1>5. Moved(i, q)
  BY <1>1, <1>2, <1>4 DEF Moved, r, TargetInv, NoticesFit
<1>6. ReplyFits(q)
  BY <1>1, <1>2, <1>4 DEF ReplyFits
<1>7. ReceiptsFit'
  BY <1>1, <1>4, <1>5, QuietKeeps DEF r
<1> QED
  BY <1>1, <1>5, <1>6, <1>7, MovedKeeps DEF TargetInv

LEMMA LookKeeps ==
  ASSUME TargetInv, NEW i \in DOMAIN replies, Look(i)
  PROVE  TargetInv'
<1> DEFINE r == replies[i]
           c == FindPendingByReplyId(r.id)
           q == CASE c # NoConv -> [r EXCEPT !.at = "ready", !.conv = c]
                  [] c = NoConv /\ r.tries < 2 -> [r EXCEPT !.tries = @ + 1]
                  [] OTHER -> Refused(r, r.id, "missing")
<1>1. /\ r.at = "look" /\ Moves(i, q) /\ UNCHANGED <<claims, told, sent>>
      /\ UNCHANGED <<strict, counter, rows, sentMap, sentIds, recorded, notices, echoes, known,
                     listed, lost>>
  BY DEF Look, OnlyReplies
<1>2. i \in 1..Len(replies) /\ ReplyFits(r) /\ r \in ReplyRecord
  BY StepOf
<1>3. /\ ~strict /\ r.notice \in 1..Len(notices) /\ r.id = notices[r.notice].id /\ r.id \in Ids
      /\ c \in SomeConv
  BY <1>1, <1>2, NoticeIds, FoundRow DEF ReplyFits, TargetInv
<1>4. c # NoConv /\ "counter" \notin lost => c = notices[r.notice].conv
  BY <1>3, FoundIsMeant DEF TargetInv
<1> HIDE DEF r, c
<1>5. /\ q \in ReplyRecord /\ q.mode = r.mode /\ q.notice = r.notice /\ q.from = r.from /\ q.id = r.id
      /\ \/ q.at = "refused" /\ q.why \in Why
         \/ q.at = "look"
         \/ q.at = "ready" /\ q.conv = c /\ c # NoConv
  <2>1. CASE c # NoConv
    BY <1>2, <1>3, <2>1 DEF ReplyRecord, ReplyAt
  <2>2. CASE c = NoConv /\ r.tries < 2
    BY <1>1, <1>2, <1>3, <2>2 DEF ReplyRecord, ReplyAt
  <2>3. CASE c = NoConv /\ ~(r.tries < 2)
    BY <1>2, <1>3, <2>3 DEF ReplyRecord, Refused, ReplyAt, Why
  <2> QED
    BY <2>1, <2>2, <2>3
<1> HIDE DEF q
<1>6. Moved(i, q)
  BY <1>1, <1>2, <1>5 DEF Moved, r, TargetInv, NoticesFit
<1>7. ReplyFits(q)
  BY <1>3, <1>4, <1>5 DEF ReplyFits
<1>8. ReceiptsFit'
  BY <1>1, <1>5, <1>6, QuietKeeps DEF r
<1> QED
  BY <1>1, <1>6, <1>7, <1>8, MovedKeeps DEF TargetInv

LEMMA ResolvedTyped ==
  ASSUME NoticesFit, NEW c \in Conv
  PROVE  Resolved(c) \subseteq Conv
BY DEF NoticesFit, Resolved, AsListed, AsHinted, AsKnown, Picked

LEMMA SendKeeps ==
  ASSUME TargetInv, NEW i \in DOMAIN replies, Send(i)
  PROVE  TargetInv'
<1> DEFINE r == replies[i]
<1>1. PICK d \in Resolved(r.conv) :
        /\ known' = known \cup {d}
        /\ \/ sent' = sent \cup {<<i, d>>} /\ Moves(i, [r EXCEPT !.at = "over"])
           \/ Moves(i, Refused(r, r.id, "failed")) /\ UNCHANGED sent
  BY DEF Send
<1>2. /\ r.at = "ready" /\ UNCHANGED <<strict, counter, rows, sentMap, sentIds, recorded, claims, notices,
                                       echoes, listed, told, lost>>
  BY DEF Send, fileVars
<1>3. i \in 1..Len(replies) /\ ReplyFits(r) /\ r \in ReplyRecord /\ i \in 1..MaxReply
  BY StepOf
<1>4. ~strict /\ r.conv \in Conv /\ r.id \in Ids
  BY <1>2, <1>3 DEF ReplyFits, ReplyRecord, SomeConv
<1>5. d \in Conv
  BY <1>1, <1>4, ResolvedTyped DEF TargetInv
<1>6. known' \subseteq Conv
  BY <1>1, <1>5 DEF TargetInv, NoticesFit
<1>7. CASE sent' = sent \cup {<<i, d>>} /\ Moves(i, [r EXCEPT !.at = "over"])
  <2> DEFINE q == [r EXCEPT !.at = "over"]
  <2> HIDE DEF r
  <2>1. /\ q \in ReplyRecord /\ q.mode = r.mode /\ q.notice = r.notice /\ q.from = r.from
        /\ q.at = "over"
    BY <1>3 DEF ReplyRecord, ReplyAt
  <2>2. Moves(i, q)
    BY <1>7
  <2> HIDE DEF q
  <2>3. Moved(i, q)
    BY <1>2, <1>3, <1>6, <2>1, <2>2 DEF Moved, r
  <2>4. ReplyFits(q)
    BY <1>3, <2>1 DEF ReplyFits
  <2>5. ReceiptsFit'
    <3>1. \E s \in sent' : s[1] = i
      <4>1. <<i, d>> \in sent' /\ <<i, d>>[1] = i
        BY <1>7
      <4> QED
        BY <4>1
    <3>2. sent \subseteq sent'
      BY <1>7
    <3> QED
      BY <1>2, <2>1, <2>3, <3>1, <3>2, QuietKeeps DEF r
  <2>6. SentFit'
    <3>1. Len(replies') = Len(replies)
      BY <2>3, MovedReply DEF TargetInv
    <3>2. <<i, d>> \in (1..MaxReply) \X Conv /\ <<i, d>>[1] = i
      BY <1>3, <1>5
    <3>3. LockHolds'
      BY <1>2, <1>4 DEF LockHolds
    <3> QED
      BY <1>3, <1>7, <3>1, <3>2, <3>3 DEF TargetInv, SentFit
  <2> QED
    BY <2>3, <2>4, <2>5, <2>6, MovedKeeps DEF TargetInv
<1>8. CASE Moves(i, Refused(r, r.id, "failed")) /\ UNCHANGED sent
  <2> DEFINE q == Refused(r, r.id, "failed")
  <2> HIDE DEF r
  <2>1. /\ q \in ReplyRecord /\ q.mode = r.mode /\ q.notice = r.notice /\ q.from = r.from
        /\ q.at = "refused" /\ q.why \in Why
    BY <1>3 DEF ReplyRecord, ReplyAt, Refused, Why
  <2>2. Moves(i, q)
    BY <1>8
  <2> HIDE DEF q
  <2>3. Moved(i, q)
    BY <1>2, <1>3, <1>6, <2>1, <2>2 DEF Moved, r
  <2>4. ReplyFits(q)
    BY <1>3, <1>4, <2>1 DEF ReplyFits
  <2>5. ReceiptsFit'
    BY <1>2, <1>8, <2>1, <2>3, QuietKeeps DEF r
  <2> QED
    BY <1>8, <2>3, <2>4, <2>5, MovedKeeps DEF TargetInv
<1> QED
  BY <1>1, <1>7, <1>8

LEMMA ReplyKeeps ==
  ASSUME TargetInv, NEW n \in DOMAIN notices, NEW from \in Receiver, NEW mode \in Modes,
         Reply(n, from, mode)
  PROVE  TargetInv'
<1> DEFINE q == [mode |-> mode, notice |-> n, from |-> from, at |-> "got",
                 id |-> 0, conv |-> NoConv, tries |-> 0, why |-> "none"]
           many == Len(replies)
<1>1. /\ replies' = Append(replies, q) /\ many < MaxReply
      /\ UNCHANGED <<strict, counter, rows, sentMap, sentIds, recorded, claims, notices, echoes,
                     known, listed, told, sent, lost>>
  BY DEF Reply, fileVars
<1>2. replies \in Seq(ReplyRecord) /\ many \in Nat /\ MaxReply \in Nat
  BY ReplyTargetAssumption, LenProperties DEF TargetInv, RepliesFit
<1>3. n \in 1..Len(notices) /\ n \in 1..MaxNotice
  <2>1. notices \in Seq(Notice)
    BY DEF TargetInv, NoticesFit
  <2>2. n \in 1..Len(notices)
    BY <2>1, LenProperties
  <2> QED
    BY <2>2, NoticeIds DEF TargetInv
<1>4. q \in ReplyRecord
  BY <1>3, ReplyTargetAssumption DEF ReplyRecord, SomeConv, ReplyAt
<1>5. q.at = "got" /\ q.notice = n
  OBVIOUS
<1> HIDE DEF q, many
<1>6. ReplyFits(q)
  BY <1>3, <1>4, <1>5 DEF ReplyFits
<1>7. /\ replies' \in Seq(ReplyRecord) /\ Len(replies') = many + 1 /\ replies'[many + 1] = q
      /\ \A j \in 1..many : replies'[j] = replies[j]
  BY <1>1, <1>2, <1>4, AppendProperties DEF many
<1>8. \A j \in 1..Len(replies') : j \in 1..many \/ j = many + 1
  BY <1>2, <1>7
<1>9. NoticesStay
  BY <1>1 DEF NoticesStay
<1>10. NoticesFit' /\ MapFits' /\ IdsStand'
  BY <1>1 DEF TargetInv, NoticesFit, MapFits, IdsStand
<1>11. RepliesFit'
  <2>1. \A j \in 1..Len(replies') : ReplyFits(replies'[j])
    BY <1>6, <1>7, <1>8 DEF TargetInv, RepliesFit, many
  <2>2. Len(replies') <= MaxReply
    BY <1>1, <1>2, <1>7
  <2> QED
    BY <1>1, <1>7, <1>9, <2>1, <2>2, ReplyStays DEF RepliesFit
<1>12. SentFit'
  <2>1. \A s \in sent : s[1] \in 1..Len(replies')
    BY <1>2, <1>7 DEF TargetInv, SentFit, many
  <2>2. \A j \in 1..Len(replies) :
          replies'[j].notice = replies[j].notice /\ replies'[j].mode = replies[j].mode
    BY <1>7 DEF many
  <2>3. LockHolds'
    BY <1>1, <1>9, <2>2, LockStays DEF TargetInv, LockHolds
  <2> QED
    BY <1>1, <2>1, <2>3 DEF TargetInv, SentFit
<1>13. ReceiptsFit'
  <2>1. ClaimsFit'
    BY <1>1 DEF TargetInv, ReceiptsFit, ClaimsFit
  <2>2. ASSUME ~strict PROVE TellsAll' /\ TellsOnce'
    <3>1. TellsAll /\ TellsOnce
      BY <2>2 DEF TargetInv, ReceiptsFit
    <3>2. many \in Nat /\ 1..many \subseteq 1..(many + 1)
      BY <1>2
    <3>3. TellsAll'
      <4>1. \A k : ClaimOf(k)' = ClaimOf(k)
        BY <1>1 DEF ClaimOf
      <4>2. \A j \in 1..Len(replies') :
              replies'[j].at \in {"marking", "over"} =>
                /\ j \in 1..Len(replies) /\ replies'[j] = replies[j] /\ Went(j)' = Went(j)
                /\ ReceiptKey(replies[j])' = ReceiptKey(replies[j])
        BY <1>1, <1>5, <1>7, <1>8 DEF ReceiptKey, Went, many
      <4> QED
        BY <1>1, <3>1, <4>1, <4>2 DEF TellsAll
    <3>4. \A k \in Key : \A j \in 1..Len(replies') :
            Writing(k, j)' => j \in 1..many /\ Writing(k, j) /\ replies'[j] = replies[j]
      BY <1>5, <1>7, <1>8 DEF Writing, ReceiptKey
    <3>5. \A k \in Key : \A j \in 1..many :
            Writing(k, j) => j \in 1..Len(replies') /\ Writing(k, j)' /\ replies'[j] = replies[j]
      BY <1>7, <3>2 DEF Writing, ReceiptKey
    <3>6. \A k : ClaimOf(k)' = ClaimOf(k)
      BY <1>1 DEF ClaimOf
    <3>7. TellsOnce'
      <4> SUFFICES ASSUME "reply worker" \notin lost, NEW k \in Key
          PROVE  /\ told[k] <= 1 /\ ClaimOf(k) # "stale"
                 /\ told[k] = 1 => \/ ClaimOf(k) = "sent"
                                   \/ \E j \in 1..Len(replies') : Writing(k, j)' /\ replies'[j].at = "marking"
                 /\ ClaimOf(k) = "sending" => \E j \in 1..Len(replies') : Writing(k, j)'
                 /\ \A j \in 1..Len(replies') : Writing(k, j)' => ClaimOf(k) = "sending"
                 /\ \A j, h \in 1..Len(replies') : Writing(k, j)' /\ Writing(k, h)' => j = h
        BY <1>1, <3>6 DEF TellsOnce
      <4>1. /\ told[k] <= 1 /\ ClaimOf(k) # "stale"
            /\ told[k] = 1 => \/ ClaimOf(k) = "sent"
                              \/ \E j \in 1..many : Writing(k, j) /\ replies[j].at = "marking"
            /\ ClaimOf(k) = "sending" => \E j \in 1..many : Writing(k, j)
            /\ \A j \in 1..many : Writing(k, j) => ClaimOf(k) = "sending"
            /\ \A j, h \in 1..many : Writing(k, j) /\ Writing(k, h) => j = h
        BY <3>1 DEF TellsOnce, many
      <4> QED
        BY <3>4, <3>5, <4>1
    <3> QED
      BY <3>3, <3>7
  <2> QED
    BY <1>1, <2>1, <2>2 DEF ReceiptsFit
<1> QED
  BY <1>10, <1>11, <1>12, <1>13 DEF TargetInv

\* The way with a target lock.
LEMMA StrictReplyKeeps ==
  ASSUME TargetInv, NEW i \in DOMAIN replies, StrictReply(i)
  PROVE  TargetInv'
<1> DEFINE g == replies[i]
           id == ParsedId(g)
           r == [g EXCEPT !.id = id, !.at = "over", !.why = "invalid"]
           c == FindPendingByReplyId(id)
           p == [r EXCEPT !.conv = c, !.why = "none"]
           q == [r EXCEPT !.conv = c]
           goes == id # 0 /\ c # NoConv /\ MatchesReply(r, c)
<1>1. /\ strict /\ g.at = "got"
      /\ \/ goes /\ Moves(i, p) /\ sent' = sent \cup {<<i, c>>} /\ UNCHANGED told
         \/ Moves(i, q) /\ UNCHANGED sent /\ (Receipt(ReceiptKey(r)) \/ UNCHANGED told)
      /\ UNCHANGED <<strict, counter, rows, sentMap, sentIds, recorded, notices, echoes, known,
                     listed, lost, claims>>
  BY DEF StrictReply, OnlyReplies
<1>2. i \in 1..Len(replies) /\ ReplyFits(g) /\ g \in ReplyRecord /\ i \in 1..MaxReply
  BY StepOf
<1>3. /\ g.notice \in 1..Len(notices) /\ id \in {0, notices[g.notice].id}
      /\ notices[g.notice].id \in Ids /\ c \in SomeConv
  BY <1>2, ParsedIsNotices, NoticeIds, FoundRow DEF TargetInv, ReplyFits
<1>4. id # 0 /\ c # NoConv /\ "counter" \notin lost => c = notices[g.notice].conv
  BY <1>3, FoundIsMeant DEF TargetInv
<1> HIDE DEF g, id, c
<1>5. /\ r \in ReplyRecord /\ r.mode = g.mode /\ r.notice = g.notice /\ r.from = g.from
      /\ r.at = "over" /\ r.id = id
  BY <1>2, <1>3 DEF ReplyRecord, ReplyAt, Why
<1> HIDE DEF r
<1>6. /\ p \in ReplyRecord /\ p.mode = g.mode /\ p.notice = g.notice /\ p.from = g.from /\ p.at = "over"
      /\ q \in ReplyRecord /\ q.mode = g.mode /\ q.notice = g.notice /\ q.from = g.from /\ q.at = "over"
  BY <1>3, <1>5 DEF ReplyRecord
<1>7. goes /\ ShowsText(g.mode) => NickMatches(c, notices[g.notice].conv)
  BY <1>5 DEF MatchesReply, NickMatches
<1> HIDE DEF p, q
<1>8. ASSUME NEW x \in {p, q}, Moves(i, x), ClaimsFit', SentFit' PROVE TargetInv'
  <2>1. /\ x \in ReplyRecord /\ x.mode = g.mode /\ x.notice = g.notice /\ x.from = g.from
        /\ x.at = "over"
    BY <1>6
  <2>2. Moved(i, x)
    BY <1>1, <1>2, <1>8, <2>1 DEF Moved, g, TargetInv, NoticesFit
  <2>3. ReplyFits(x)
    BY <1>3, <2>1 DEF ReplyFits
  <2>4. ReceiptsFit'
    BY <1>1, <1>8 DEF ReceiptsFit
  <2> QED
    BY <1>8, <2>2, <2>3, <2>4, MovedKeeps DEF TargetInv
<1>9. ASSUME NEW x \in {p, q}, Moves(i, x), UNCHANGED sent PROVE SentFit'
  <2>1. /\ x \in ReplyRecord /\ x.mode = g.mode /\ x.notice = g.notice /\ x.from = g.from
        /\ x.at = "over"
    BY <1>6
  <2>2. Moved(i, x)
    BY <1>1, <1>2, <1>9, <2>1 DEF Moved, g, TargetInv, NoticesFit
  <2>3. ReplyFits(x)
    BY <1>3, <2>1 DEF ReplyFits
  <2> QED
    BY <1>9, <2>2, <2>3, MovedKeeps
<1>10. CASE goes /\ Moves(i, p) /\ sent' = sent \cup {<<i, c>>} /\ UNCHANGED told
  <2>1. Moved(i, p)
    BY <1>1, <1>2, <1>6, <1>10 DEF Moved, g, TargetInv, NoticesFit
  <2>2. /\ Len(replies') = Len(replies) /\ NoticesStay
        /\ \A j \in 1..Len(replies) :
             replies'[j].notice = replies[j].notice /\ replies'[j].mode = replies[j].mode
    BY <2>1, MovedReply DEF TargetInv
  <2>3. <<i, c>> \in (1..MaxReply) \X Conv /\ <<i, c>>[1] = i /\ <<i, c>>[2] = c
    BY <1>2, <1>3, <1>10 DEF SomeConv
  <2>4. \/ c = Meant(i)'
        \/ "counter" \in lost' /\ (ShowsText(replies'[i].mode) => NickMatches(c, Meant(i)'))
    BY <1>1, <1>2, <1>4, <1>7, <1>10, <2>2 DEF Meant, g
  <2>5. \A s \in sent' : \/ s[2] = Meant(s[1])'
                         \/ /\ "counter" \in lost'
                            /\ ShowsText(replies'[s[1]].mode) => NickMatches(s[2], Meant(s[1])')
    <3> TAKE s \in sent'
    <3>1. CASE s \in sent
      BY <1>1, <2>2, <3>1, LockStays DEF TargetInv
    <3>2. CASE s = <<i, c>>
      BY <2>3, <2>4, <3>2
    <3> QED
      BY <1>10, <3>1, <3>2
  <2>6. LockHolds'
    BY <2>5 DEF LockHolds
  <2>7. SentFit'
    BY <1>2, <1>10, <2>2, <2>3, <2>6 DEF TargetInv, SentFit
  <2>8. ClaimsFit'
    BY <1>1, <1>10 DEF TargetInv, ReceiptsFit, ClaimsFit
  <2> QED
    BY <1>8, <1>10, <2>7, <2>8
<1>11. CASE Moves(i, q) /\ UNCHANGED sent /\ (Receipt(ReceiptKey(r)) \/ UNCHANGED told)
  <2>1. told' \in [Key -> Nat]
    BY <1>11 DEF TargetInv, ReceiptsFit, ClaimsFit, Receipt
  <2>2. ClaimsFit'
    BY <1>1, <2>1 DEF TargetInv, ReceiptsFit, ClaimsFit
  <2> QED
    BY <1>8, <1>9, <1>11, <2>2
<1> QED
  BY <1>1, <1>10, <1>11

LEMMA WorkerDiesKeeps ==
  ASSUME TargetInv, WorkerDies
  PROVE  TargetInv'
<1> DEFINE cut(r) == r.at \in {"look", "refused", "claimed", "marking"}
           e(j) == IF cut(replies[j]) THEN [replies[j] EXCEPT !.at = "cut"] ELSE replies[j]
<1>1. /\ ~strict /\ lost' = lost \cup {"reply worker"} /\ replies' = [j \in DOMAIN replies |-> e(j)]
      /\ UNCHANGED <<strict, counter, rows, sentMap, sentIds, recorded, claims, notices, echoes,
                     known, listed, told, sent>>
  BY DEF WorkerDies, fileVars
<1>2. /\ replies \in Seq(ReplyRecord) /\ Len(replies) \in Nat /\ DOMAIN replies = 1..Len(replies)
      /\ \A j \in 1..Len(replies) : replies[j] \in ReplyRecord /\ ReplyFits(replies[j])
  BY LenProperties DEF TargetInv, RepliesFit, ReplyFits
<1>3. ASSUME NEW r \in ReplyRecord
      PROVE  LET q == IF cut(r) THEN [r EXCEPT !.at = "cut"] ELSE r
             IN /\ q \in ReplyRecord /\ q.mode = r.mode /\ q.notice = r.notice
                /\ (q = r /\ ~cut(r)) \/ q.at = "cut"
  BY <1>3 DEF ReplyRecord, ReplyAt
<1>4. \A j \in 1..Len(replies) : /\ e(j) \in ReplyRecord
                                 /\ e(j).mode = replies[j].mode /\ e(j).notice = replies[j].notice
                                 /\ (e(j) = replies[j] /\ ~cut(replies[j])) \/ e(j).at = "cut"
  BY <1>2, <1>3
<1> HIDE DEF e, cut
<1>5. [j \in 1..Len(replies) |-> e(j)] \in Seq(ReplyRecord)
  BY <1>2, <1>4, IsASeq
<1>6. replies' \in Seq(ReplyRecord) /\ DOMAIN replies' = 1..Len(replies)
  BY <1>1, <1>2, <1>5
<1>7. Len(replies') = Len(replies)
  BY <1>2, <1>6, LenProperties
<1>8. \A j \in 1..Len(replies) : replies'[j] = e(j)
  BY <1>1, <1>2
<1>9. NoticesStay
  BY <1>1 DEF NoticesStay
<1>10. NoticesFit' /\ MapFits' /\ IdsStand'
  BY <1>1 DEF TargetInv, NoticesFit, MapFits, IdsStand
<1>11. RepliesFit'
  <2>1. \A j \in 1..Len(replies') : ReplyFits(replies'[j])
    <3> TAKE j \in 1..Len(replies')
    <3>1. CASE e(j) = replies[j]
      BY <1>2, <1>7, <1>8, <3>1
    <3>2. CASE e(j).at = "cut"
      BY <1>2, <1>4, <1>7, <1>8, <3>2 DEF ReplyFits
    <3> QED
      BY <1>4, <1>7, <3>1, <3>2
  <2> QED
    BY <1>1, <1>6, <1>7, <1>9, <2>1, ReplyStays DEF TargetInv, RepliesFit
<1>12. SentFit'
  <2>1. LockHolds'
    BY <1>1 DEF LockHolds
  <2> QED
    BY <1>1, <1>7, <2>1 DEF TargetInv, SentFit
<1>13. ReceiptsFit'
  <2>1. ClaimsFit' /\ TellsAll
    BY <1>1 DEF TargetInv, ReceiptsFit, ClaimsFit
  <2>2. TellsOnce'
    BY <1>1 DEF TellsOnce
  <2>3. TellsAll'
    <3>1. \A k : ClaimOf(k)' = ClaimOf(k)
      BY <1>1 DEF ClaimOf
    <3>2. \A j \in 1..Len(replies') : replies'[j].at # "marking"
      BY <1>4, <1>7, <1>8 DEF cut
    <3>3. \A j \in 1..Len(replies') :
            replies'[j].at = "over" =>
              /\ replies'[j] = replies[j] /\ Went(j)' = Went(j)
              /\ ReceiptKey(replies[j])' = ReceiptKey(replies[j])
      BY <1>1, <1>4, <1>7, <1>8 DEF Went, ReceiptKey
    <3> QED
      BY <1>1, <1>7, <2>1, <3>1, <3>2, <3>3 DEF TellsAll
  <2> QED
    BY <2>1, <2>2, <2>3 DEF ReceiptsFit
<1> QED
  BY <1>10, <1>11, <1>12, <1>13 DEF TargetInv

(***************************************************************************)
(* The receipts                                                            *)
(***************************************************************************)
LEMMA ClaimPut ==
  ASSUME NEW k, NEW status, Claims(k, status)
  PROVE  \A x : ClaimOf(x)' = IF x = k THEN status ELSE ClaimOf(x)
BY DEF Claims, Put, ClaimOf

LEMMA ClaimsTyped ==
  ASSUME ClaimsFit, NEW k \in Key, NEW status \in {"sending", "stale", "sent", "failed"}, Claims(k, status)
  PROVE  /\ DOMAIN claims' \subseteq Key
         /\ \A x \in DOMAIN claims' : claims'[x] \in {"sending", "stale", "sent", "failed"}
BY DEF ClaimsFit, Claims, Put

\* A reply with a receipt goes on to at.
Goes(i, at) ==
  /\ ~strict /\ i \in 1..Len(replies) /\ at \in {"claimed", "marking", "over"}
  /\ replies[i].at \in {"refused", "claimed", "marking"}
  /\ Moves(i, [replies[i] EXCEPT !.at = at])
  /\ UNCHANGED <<sent, known>> /\ OnlyReplies

LEMMA ReceiptMoves ==
  ASSUME TargetInv, NEW i, NEW at, Goes(i, at)
  PROVE  /\ NoticesFit' /\ MapFits' /\ IdsStand' /\ RepliesFit' /\ SentFit'
         /\ Len(replies') = Len(replies) /\ i \in 1..Len(replies) /\ UNCHANGED <<strict, lost, sent>>
         /\ ReceiptKey(replies[i]) \in Key /\ replies[i].why \in Why
         /\ \A j \in 1..Len(replies) : /\ ReceiptKey(replies[j])' = ReceiptKey(replies[j])
                                       /\ replies'[j].why = replies[j].why
         /\ \A j \in 1..Len(replies) \ {i} : replies'[j] = replies[j]
         /\ replies'[i].at = at
<1> DEFINE r == replies[i]
           q == [r EXCEPT !.at = at]
<1>1. /\ ~strict /\ at \in {"claimed", "marking", "over"} /\ Moves(i, q) /\ UNCHANGED sent
      /\ UNCHANGED <<strict, counter, rows, sentMap, sentIds, recorded, notices, echoes, known,
                     listed, lost>>
      /\ r.at \in {"refused", "claimed", "marking"} /\ i \in 1..Len(replies)
  BY DEF Goes, OnlyReplies
<1>2. ReplyFits(r) /\ r \in ReplyRecord /\ r.why \in Why
  BY <1>1 DEF TargetInv, RepliesFit, ReplyFits
<1> HIDE DEF r
<1>3. /\ q \in ReplyRecord /\ q.mode = r.mode /\ q.notice = r.notice /\ q.from = r.from
      /\ q.at = at /\ q.why = r.why /\ q.id = r.id
  BY <1>1, <1>2 DEF ReplyRecord, ReplyAt
<1> HIDE DEF q
<1>4. Moved(i, q)
  BY <1>1, <1>3 DEF Moved, r, TargetInv, NoticesFit
<1>5. ReplyFits(q)
  BY <1>1, <1>2, <1>3 DEF ReplyFits
<1>6. /\ Len(replies') = Len(replies) /\ replies'[i] = q
      /\ \A j \in 1..Len(replies) \ {i} : replies'[j] = replies[j]
  BY <1>4, MovedReply DEF TargetInv
<1>7. NoticesFit' /\ MapFits' /\ IdsStand' /\ RepliesFit' /\ SentFit'
  BY <1>1, <1>4, <1>5, MovedKeeps
<1>8. ReceiptKey(replies[i]) \in Key
  BY <1>2, KeyFits DEF r
<1>9. \A j \in 1..Len(replies) : /\ ReceiptKey(replies[j])' = ReceiptKey(replies[j])
                                 /\ replies'[j].why = replies[j].why
  BY <1>3, <1>6 DEF ReceiptKey, r
<1> QED
  BY <1>1, <1>2, <1>3, <1>6, <1>7, <1>8, <1>9 DEF r

LEMMA AtLeast == \A a, b \in Nat : (a = b => a >= b) /\ (b >= 1 /\ a >= b => a >= 1)
OBVIOUS

\* Who writes a receipt after the step, and what is told and claimed of a key.
LEMMA ReceiptsAfter ==
  ASSUME TargetInv, NEW i, NEW at, Goes(i, at), ClaimsFit',
         NEW k, k = ReceiptKey(replies[i]),
         \A x \in Key \ {k} : ClaimOf(x)' = ClaimOf(x) /\ told'[x] = told[x],
         told'[k] >= told[k],
         ClaimOf(k)' # "none" \/ told'[k] >= 1,
         ClaimOf(k)' = "sent" \/ at = "marking" => told'[k] >= 1,
         "reply worker" \notin lost =>
           /\ told'[k] <= 1 /\ ClaimOf(k)' # "stale"
           /\ told'[k] = 1 => \/ ClaimOf(k)' = "sent"
                              \/ \E j \in 1..Len(replies) : Writing(k, j)' /\ replies'[j].at = "marking"
           /\ ClaimOf(k)' = "sending" <=> \E j \in 1..Len(replies) : Writing(k, j)'
           /\ \A j, h \in 1..Len(replies) : Writing(k, j)' /\ Writing(k, h)' => j = h
  PROVE  TargetInv'
<1>1. /\ NoticesFit' /\ MapFits' /\ IdsStand' /\ RepliesFit' /\ SentFit'
      /\ Len(replies') = Len(replies) /\ i \in 1..Len(replies) /\ UNCHANGED <<strict, lost, sent>>
      /\ k \in Key /\ replies[i].why \in Why
      /\ \A j \in 1..Len(replies) : /\ ReceiptKey(replies[j])' = ReceiptKey(replies[j])
                                    /\ replies'[j].why = replies[j].why
      /\ \A j \in 1..Len(replies) \ {i} : replies'[j] = replies[j]
      /\ replies'[i].at = at
  BY ReceiptMoves
<1>2. TellsAll /\ TellsOnce /\ ~strict
  BY DEF TargetInv, ReceiptsFit, Goes
<1>4. told \in [Key -> Nat] /\ told' \in [Key -> Nat]
  BY DEF TargetInv, ReceiptsFit, ClaimsFit
<1>5. ASSUME NEW x \in Key PROVE told'[x] \in Nat /\ told[x] \in Nat /\ told'[x] >= told[x]
  <2>1. told'[x] \in Nat /\ told[x] \in Nat
    BY <1>4
  <2>2. CASE x = k
    BY <2>1, <2>2
  <2>3. CASE x # k
    <3>1. told'[x] = told[x]
      BY <2>3
    <3> QED
      BY <2>1, <3>1, AtLeast, Zenon
  <2> QED
    BY <2>2, <2>3
<1>6. told'[k] >= 1 \/ ClaimOf(k)' \in {"sending", "stale", "failed"}
  <2>1. ClaimOf(k)' \in {"none", "sending", "stale", "sent", "failed"}
    BY DEF ClaimsFit, ClaimOf
  <2> QED
    BY <2>1
<1>7. TellsAll'
  <2>1. \A x \in Key : ClaimOf(x)' = "sent" => told'[x] >= 1
    <3> TAKE x \in Key
    <3>1. CASE x = k
      BY <3>1
    <3>2. CASE x # k
      BY <1>2, <3>2 DEF TellsAll
    <3> QED
      BY <3>1, <3>2
  <2>2. ASSUME NEW x \in Key, NEW j \in 1..Len(replies), replies'[j].at = "marking", ReceiptKey(replies[j])' = x
        PROVE  told'[x] >= 1
    <3>1. CASE j = i
      BY <1>1, <2>2, <3>1
    <3>2. CASE j # i
      <4>1. told[x] >= 1
        BY <1>1, <1>2, <2>2, <3>2 DEF TellsAll
      <4> QED
        BY <1>5, <4>1, AtLeast, Zenon
    <3> QED
      BY <3>1, <3>2
  <2>3. ASSUME NEW j \in 1..Len(replies), replies'[j].at = "over", ~Went(j)'
        PROVE  replies'[j].why \in Why
    <3>1. CASE j = i
      BY <1>1, <3>1
    <3>2. CASE j # i
      BY <1>1, <1>2, <2>3, <3>2 DEF TellsAll, Went
    <3> QED
      BY <3>1, <3>2
  <2>4. ASSUME NEW x \in Key, NEW j \in 1..Len(replies), replies'[j].at = "over", ~Went(j)',
               ReceiptKey(replies[j])' = x
        PROVE  told'[x] >= 1 \/ ClaimOf(x)' \in {"sending", "failed", "stale"}
    <3>1. CASE x = k
      BY <1>6, <3>1
    <3>2. CASE x # k
      <4>1. j # i /\ replies'[j] = replies[j] /\ ReceiptKey(replies[j]) = x /\ ~Went(j)
        BY <1>1, <2>4, <3>2 DEF Went
      <4>2. told[x] >= 1 \/ ClaimOf(x) \in {"sending", "failed", "stale"}
        BY <1>2, <2>4, <4>1 DEF TellsAll
      <4>3. told'[x] = told[x] /\ ClaimOf(x)' = ClaimOf(x)
        BY <3>2
      <4> QED
        BY <4>2, <4>3
    <3> QED
      BY <3>1, <3>2
  <2>5. Len(replies') = Len(replies)
    BY <1>1
  <2> QED
    BY <2>1, <2>2, <2>3, <2>4, <2>5 DEF TellsAll
<1>8. TellsOnce'
  <2> SUFFICES ASSUME "reply worker" \notin lost, NEW x \in Key
      PROVE  /\ told'[x] <= 1 /\ ClaimOf(x)' # "stale"
             /\ told'[x] = 1 => \/ ClaimOf(x)' = "sent"
                                \/ \E j \in 1..Len(replies) : Writing(x, j)' /\ replies'[j].at = "marking"
             /\ ClaimOf(x)' = "sending" => \E j \in 1..Len(replies) : Writing(x, j)'
             /\ \A j \in 1..Len(replies) : Writing(x, j)' => ClaimOf(x)' = "sending"
             /\ \A j, h \in 1..Len(replies) : Writing(x, j)' /\ Writing(x, h)' => j = h
    BY <1>1 DEF TellsOnce
  <2>1. CASE x = k
    <3> QED
      BY <2>1
  <2>2. CASE x # k
    <3>1. ClaimOf(x)' = ClaimOf(x) /\ told'[x] = told[x]
      BY <2>2
    <3>2. \A j \in 1..Len(replies) : (Writing(x, j)' <=> Writing(x, j)) /\ (Writing(x, j) => replies'[j] = replies[j])
      BY <1>1, <2>2 DEF Writing
    <3>3. /\ told[x] <= 1 /\ ClaimOf(x) # "stale"
          /\ told[x] = 1 => \/ ClaimOf(x) = "sent"
                            \/ \E j \in 1..Len(replies) : Writing(x, j) /\ replies[j].at = "marking"
          /\ ClaimOf(x) = "sending" => \E j \in 1..Len(replies) : Writing(x, j)
          /\ \A j \in 1..Len(replies) : Writing(x, j) => ClaimOf(x) = "sending"
          /\ \A j, h \in 1..Len(replies) : Writing(x, j) /\ Writing(x, h) => j = h
      BY <1>2 DEF TellsOnce
    <3> QED
      BY <3>1, <3>2, <3>3
  <2> QED
    BY <2>1, <2>2
<1> QED
  BY <1>1, <1>7, <1>8 DEF TargetInv, ReceiptsFit

LEMMA WritingAfter ==
  ASSUME TargetInv, NEW i, NEW at, Goes(i, at), NEW k, k = ReceiptKey(replies[i])
  PROVE  /\ \A j \in 1..Len(replies) \ {i} : Writing(k, j)' <=> Writing(k, j)
         /\ Writing(k, i)' <=> at \in {"claimed", "marking"}
         /\ Writing(k, i) <=> replies[i].at \in {"claimed", "marking"}
         /\ i \in 1..Len(replies) /\ k \in Key /\ ~strict
         /\ TellsAll /\ TellsOnce /\ ClaimsFit
BY ReceiptMoves DEF Writing, Goes, TargetInv, ReceiptsFit

\* What the keys say while the worker lives.
LEMMA KeyOnce ==
  ASSUME TellsOnce, NEW k \in Key, "reply worker" \notin lost
  PROVE  /\ told[k] <= 1 /\ ClaimOf(k) # "stale"
         /\ told[k] = 1 => \/ ClaimOf(k) = "sent"
                           \/ \E j \in 1..Len(replies) : Writing(k, j) /\ replies[j].at = "marking"
         /\ ClaimOf(k) = "sending" <=> \E j \in 1..Len(replies) : Writing(k, j)
         /\ \A j, h \in 1..Len(replies) : Writing(k, j) /\ Writing(k, h) => j = h
BY DEF TellsOnce

LEMMA ClaimKeeps ==
  ASSUME TargetInv, NEW i \in DOMAIN replies, Claim(i)
  PROVE  TargetInv'
<1>1. i \in 1..Len(replies) /\ ReplyFits(replies[i])
  BY StepOf
<1>2. replies[i].at = "refused" /\ ~strict /\ OnlyReplies /\ UNCHANGED <<told, sent>>
  BY <1>1 DEF Claim, ReplyFits
<1>3. PICK k : k = ReceiptKey(replies[i])
  OBVIOUS
<1>4. UNCHANGED known
  BY <1>2 DEF OnlyReplies
<1>5. ClaimsFit /\ (\A x \in Key : told'[x] >= told[x])
  BY <1>2 DEF TargetInv, ReceiptsFit, ClaimsFit
<1>6. CASE EnsureNotSent(k)
  <2>1. Goes(i, "claimed") /\ Claims(k, "sending")
    BY <1>1, <1>2, <1>3, <1>4, <1>6 DEF Claim, Goes
  <2>2. /\ \A j \in 1..Len(replies) \ {i} : Writing(k, j)' <=> Writing(k, j)
        /\ Writing(k, i)' /\ i \in 1..Len(replies) /\ k \in Key
        /\ TellsAll /\ TellsOnce
    BY <1>3, <2>1, WritingAfter
  <2>3. \A x : ClaimOf(x)' = IF x = k THEN "sending" ELSE ClaimOf(x)
    BY <2>1, ClaimPut
  <2>4. ClaimsFit'
    BY <1>2, <1>5, <2>1, <2>2, ClaimsTyped DEF ClaimsFit
  <2>5. ASSUME "reply worker" \notin lost
        PROVE  /\ told'[k] <= 1 /\ told'[k] # 1
               /\ \A j, h \in 1..Len(replies) : Writing(k, j)' /\ Writing(k, h)' => j = h
    <3>1. ClaimOf(k) \notin {"sending", "sent"}
      BY <1>6 DEF EnsureNotSent
    <3>2. \A j \in 1..Len(replies) : ~Writing(k, j)
      BY <2>2, <2>5, <3>1, KeyOnce
    <3>3. told[k] <= 1 /\ told[k] # 1
      BY <2>2, <2>5, <3>1, <3>2, KeyOnce
    <3> QED
      BY <1>2, <2>2, <3>2, <3>3
  <2>6. \A x \in Key \ {k} : ClaimOf(x)' = ClaimOf(x) /\ told'[x] = told[x]
    BY <1>2, <2>3
  <2>7. told'[k] >= told[k] /\ ClaimOf(k)' = "sending"
    BY <1>5, <2>2, <2>3
  <2>8. "reply worker" \notin lost =>
          /\ told'[k] <= 1 /\ ClaimOf(k)' # "stale"
          /\ told'[k] = 1 => \/ ClaimOf(k)' = "sent"
                             \/ \E j \in 1..Len(replies) : Writing(k, j)' /\ replies'[j].at = "marking"
          /\ ClaimOf(k)' = "sending" <=> \E j \in 1..Len(replies) : Writing(k, j)'
          /\ \A j, h \in 1..Len(replies) : Writing(k, j)' /\ Writing(k, h)' => j = h
    BY <2>2, <2>5, <2>7
  <2>9. ClaimOf(k)' # "none" \/ told'[k] >= 1
    BY <2>7
  <2>10. ClaimOf(k)' = "sent" \/ "claimed" = "marking" => told'[k] >= 1
    BY <2>7
  <2> QED
    BY <1>3, <2>1, <2>4, <2>6, <2>7, <2>8, <2>9, <2>10, ReceiptsAfter
<1>7. CASE ~EnsureNotSent(k)
  <2>1. Goes(i, "over") /\ UNCHANGED claims
    BY <1>1, <1>2, <1>3, <1>4, <1>7 DEF Claim, Goes
  <2>2. /\ \A j \in 1..Len(replies) : Writing(k, j)' <=> Writing(k, j)
        /\ i \in 1..Len(replies) /\ k \in Key
        /\ TellsAll /\ TellsOnce
    BY <1>2, <1>3, <2>1, WritingAfter
  <2>3. \A x : ClaimOf(x)' = ClaimOf(x)
    BY <2>1 DEF ClaimOf
  <2>4. ClaimsFit'
    BY <1>2, <1>5, <2>1 DEF ClaimsFit
  <2>5. ClaimOf(k)' \in {"sending", "sent"}
    BY <1>7, <2>3 DEF EnsureNotSent
  <2>6. ClaimOf(k)' = "sent" => told'[k] >= 1
    BY <1>2, <2>2, <2>3 DEF TellsAll
  <2>7. ASSUME "reply worker" \notin lost
        PROVE  /\ told'[k] <= 1
               /\ told'[k] = 1 => \/ ClaimOf(k)' = "sent"
                                  \/ \E j \in 1..Len(replies) : Writing(k, j)' /\ replies'[j].at = "marking"
               /\ ClaimOf(k)' = "sending" <=> \E j \in 1..Len(replies) : Writing(k, j)'
               /\ \A j, h \in 1..Len(replies) : Writing(k, j)' /\ Writing(k, h)' => j = h
    <3>1. /\ told[k] <= 1
          /\ told[k] = 1 => \/ ClaimOf(k) = "sent"
                            \/ \E j \in 1..Len(replies) : Writing(k, j) /\ replies[j].at = "marking"
          /\ ClaimOf(k) = "sending" <=> \E j \in 1..Len(replies) : Writing(k, j)
          /\ \A j, h \in 1..Len(replies) : Writing(k, j) /\ Writing(k, h) => j = h
      BY <2>2, <2>7, KeyOnce
    <3>2. told'[k] <= 1 /\ told'[k] = told[k]
      BY <1>2, <3>1
    <3>3. \A j \in 1..Len(replies) : Writing(k, j) /\ replies[j].at = "marking" => replies'[j] = replies[j]
      BY <1>2, <2>1, ReceiptMoves
    <3> QED
      BY <2>2, <2>3, <3>1, <3>2, <3>3
  <2>8. \A x \in Key \ {k} : ClaimOf(x)' = ClaimOf(x) /\ told'[x] = told[x]
    BY <1>2, <2>3
  <2>9. told'[k] >= told[k]
    BY <1>5, <2>2
  <2>10. "reply worker" \notin lost =>
          /\ told'[k] <= 1 /\ ClaimOf(k)' # "stale"
          /\ told'[k] = 1 => \/ ClaimOf(k)' = "sent"
                             \/ \E j \in 1..Len(replies) : Writing(k, j)' /\ replies'[j].at = "marking"
          /\ ClaimOf(k)' = "sending" <=> \E j \in 1..Len(replies) : Writing(k, j)'
          /\ \A j, h \in 1..Len(replies) : Writing(k, j)' /\ Writing(k, h)' => j = h
    BY <2>5, <2>7
  <2>11. ClaimOf(k)' # "none" \/ told'[k] >= 1
    BY <2>5
  <2>12. ClaimOf(k)' = "sent" \/ "over" = "marking" => told'[k] >= 1
    BY <2>6
  <2> QED
    BY <1>3, <2>1, <2>4, <2>8, <2>9, <2>10, <2>11, <2>12, ReceiptsAfter
<1> QED
  BY <1>6, <1>7

LEMMA TellKeeps ==
  ASSUME TargetInv, NEW i \in DOMAIN replies, Tell(i)
  PROVE  TargetInv'
<1>1. i \in 1..Len(replies) /\ ReplyFits(replies[i])
  BY StepOf
<1>2. replies[i].at = "claimed" /\ ~strict /\ OnlyReplies /\ UNCHANGED sent
  BY <1>1 DEF Tell, ReplyFits
<1>3. PICK k : k = ReceiptKey(replies[i])
  OBVIOUS
<1>4. UNCHANGED known
  BY <1>2 DEF OnlyReplies
<1>5. ClaimsFit /\ told \in [Key -> Nat]
  BY DEF TargetInv, ReceiptsFit, ClaimsFit
<1>6. k \in Key
  BY <1>1, <1>2, <1>3, KeyFits DEF ReplyFits
<1>7. Writing(k, i)
  BY <1>2, <1>3 DEF Writing
<1>8. ASSUME "reply worker" \notin lost
      PROVE  told[k] = 0 /\ \A j \in 1..Len(replies) \ {i} : ~Writing(k, j)
  <2>1. /\ told[k] <= 1
        /\ told[k] = 1 => \/ ClaimOf(k) = "sent"
                          \/ \E j \in 1..Len(replies) : Writing(k, j) /\ replies[j].at = "marking"
        /\ ClaimOf(k) = "sending" <=> \E j \in 1..Len(replies) : Writing(k, j)
        /\ \A j, h \in 1..Len(replies) : Writing(k, j) /\ Writing(k, h) => j = h
    BY <1>2, <1>6, <1>8, KeyOnce DEF TargetInv, ReceiptsFit
  <2>2. ClaimOf(k) = "sending" /\ \A j \in 1..Len(replies) : Writing(k, j) => j = i
    BY <1>1, <1>7, <2>1
  <2>3. told[k] # 1
    BY <1>2, <2>1, <2>2
  <2>4. told[k] \in Nat
    BY <1>5, <1>6
  <2> QED
    BY <2>1, <2>2, <2>3, <2>4
<1>9. CASE Receipt(k) /\ Moves(i, [replies[i] EXCEPT !.at = "marking"]) /\ UNCHANGED claims
  <2>1. Goes(i, "marking")
    BY <1>1, <1>2, <1>4, <1>9 DEF Goes
  <2>2. /\ \A j \in 1..Len(replies) \ {i} : Writing(k, j)' <=> Writing(k, j)
        /\ Writing(k, i)'
    BY <1>3, <2>1, WritingAfter
  <2>3. \A x : ClaimOf(x)' = ClaimOf(x)
    BY <1>9 DEF ClaimOf
  <2>4. /\ told' \in [Key -> Nat] /\ told'[k] = told[k] + 1 /\ told[k] \in Nat
        /\ \A x \in Key \ {k} : told'[x] = told[x]
    BY <1>5, <1>6, <1>9 DEF Receipt
  <2>5. ClaimsFit'
    BY <1>5, <1>9, <2>4 DEF ClaimsFit
  <2>6. ASSUME "reply worker" \notin lost
        PROVE  /\ told'[k] = 1 /\ told'[k] <= 1 /\ ClaimOf(k)' = "sending"
               /\ \A j, h \in 1..Len(replies) : Writing(k, j)' /\ Writing(k, h)' => j = h
    <3>1. ClaimOf(k) = "sending"
      BY <1>1, <1>2, <1>6, <1>7, <2>6, KeyOnce DEF TargetInv, ReceiptsFit
    <3>2. told[k] = 0
      BY <1>8, <2>6
    <3>3. told'[k] = 1 /\ told'[k] <= 1
      BY <2>4, <3>2
    <3> QED
      BY <1>8, <2>2, <2>3, <2>6, <3>1, <3>3
  <2>7. told'[k] >= told[k] /\ told'[k] >= 1
    BY <2>4
  <2>8. replies'[i].at = "marking"
    BY <2>1, ReceiptMoves
  <2>9. "reply worker" \notin lost =>
          /\ told'[k] <= 1 /\ ClaimOf(k)' # "stale"
          /\ told'[k] = 1 => \/ ClaimOf(k)' = "sent"
                             \/ \E j \in 1..Len(replies) : Writing(k, j)' /\ replies'[j].at = "marking"
          /\ ClaimOf(k)' = "sending" <=> \E j \in 1..Len(replies) : Writing(k, j)'
          /\ \A j, h \in 1..Len(replies) : Writing(k, j)' /\ Writing(k, h)' => j = h
    <3> SUFFICES ASSUME "reply worker" \notin lost
        PROVE  /\ told'[k] <= 1 /\ ClaimOf(k)' # "stale"
               /\ \E j \in 1..Len(replies) : Writing(k, j)' /\ replies'[j].at = "marking"
               /\ ClaimOf(k)' = "sending" /\ \E j \in 1..Len(replies) : Writing(k, j)'
               /\ \A j, h \in 1..Len(replies) : Writing(k, j)' /\ Writing(k, h)' => j = h
      OBVIOUS
    <3>1. told'[k] <= 1
      BY <2>6
    <3>2. \E j \in 1..Len(replies) : Writing(k, j)' /\ replies'[j].at = "marking"
      BY <1>1, <2>2, <2>8
    <3> QED
      BY <2>6, <3>1, <3>2
  <2>10. ClaimOf(k)' # "none" \/ told'[k] >= 1
    BY <2>7
  <2>11. ClaimOf(k)' = "sent" \/ "marking" = "marking" => told'[k] >= 1
    BY <2>7
  <2>12. \A x \in Key \ {k} : ClaimOf(x)' = ClaimOf(x) /\ told'[x] = told[x]
    BY <2>3, <2>4
  <2> QED
    BY <1>3, <2>1, <2>5, <2>7, <2>9, <2>10, <2>11, <2>12, ReceiptsAfter
<1>10. CASE Claims(k, "failed") /\ Moves(i, [replies[i] EXCEPT !.at = "over"]) /\ UNCHANGED told
  <2>1. Goes(i, "over")
    BY <1>1, <1>2, <1>4, <1>10 DEF Goes
  <2>2. /\ \A j \in 1..Len(replies) \ {i} : Writing(k, j)' <=> Writing(k, j)
        /\ ~Writing(k, i)'
    BY <1>3, <2>1, WritingAfter
  <2>3. \A x : ClaimOf(x)' = IF x = k THEN "failed" ELSE ClaimOf(x)
    BY <1>10, ClaimPut
  <2>4. ClaimsFit'
    BY <1>5, <1>6, <1>10, ClaimsTyped DEF ClaimsFit
  <2>5. ASSUME "reply worker" \notin lost
        PROVE  told'[k] <= 1 /\ told'[k] # 1 /\ \A j \in 1..Len(replies) : ~Writing(k, j)'
    <3>1. told'[k] = 0
      BY <1>8, <1>10, <2>5
    <3>2. told'[k] <= 1 /\ told'[k] # 1
      BY <3>1
    <3>3. \A j \in 1..Len(replies) : ~Writing(k, j)'
      BY <1>8, <2>2, <2>5
    <3> QED
      BY <3>2, <3>3
  <2>6. /\ \A x \in Key \ {k} : ClaimOf(x)' = ClaimOf(x) /\ told'[x] = told[x]
        /\ told'[k] >= told[k] /\ ClaimOf(k)' = "failed"
    BY <1>5, <1>6, <1>10, <2>3
  <2>7. "reply worker" \notin lost =>
          /\ told'[k] <= 1 /\ ClaimOf(k)' # "stale"
          /\ told'[k] = 1 => \/ ClaimOf(k)' = "sent"
                             \/ \E j \in 1..Len(replies) : Writing(k, j)' /\ replies'[j].at = "marking"
          /\ ClaimOf(k)' = "sending" <=> \E j \in 1..Len(replies) : Writing(k, j)'
          /\ \A j, h \in 1..Len(replies) : Writing(k, j)' /\ Writing(k, h)' => j = h
    BY <2>5, <2>6
  <2>8. ClaimOf(k)' # "none" \/ told'[k] >= 1
    BY <2>6
  <2>9. ClaimOf(k)' = "sent" \/ "over" = "marking" => told'[k] >= 1
    BY <2>6
  <2> QED
    BY <1>3, <2>1, <2>4, <2>6, <2>7, <2>8, <2>9, ReceiptsAfter
<1> QED
  BY <1>2, <1>3, <1>9, <1>10 DEF Tell

LEMMA MarkSentKeeps ==
  ASSUME TargetInv, NEW i \in DOMAIN replies, MarkSent(i)
  PROVE  TargetInv'
<1>1. i \in 1..Len(replies) /\ ReplyFits(replies[i])
  BY StepOf
<1>2. replies[i].at = "marking" /\ ~strict /\ OnlyReplies /\ UNCHANGED <<told, sent>>
  BY <1>1 DEF MarkSent, ReplyFits
<1>3. PICK k : k = ReceiptKey(replies[i])
  OBVIOUS
<1>4. Claims(k, "sent") /\ Moves(i, [replies[i] EXCEPT !.at = "over"]) /\ UNCHANGED known
  BY <1>2, <1>3 DEF MarkSent, OnlyReplies
<1>5. ClaimsFit /\ told \in [Key -> Nat] /\ TellsAll /\ TellsOnce
  BY <1>2 DEF TargetInv, ReceiptsFit, ClaimsFit
<1>6. k \in Key
  BY <1>1, <1>2, <1>3, KeyFits DEF ReplyFits
<1>7. Writing(k, i) /\ told[k] >= 1
  BY <1>1, <1>2, <1>3, <1>5, <1>6 DEF Writing, TellsAll
<1>8. Goes(i, "over")
  BY <1>1, <1>2, <1>4 DEF Goes
<1>9. /\ \A j \in 1..Len(replies) \ {i} : Writing(k, j)' <=> Writing(k, j)
      /\ ~Writing(k, i)'
  BY <1>3, <1>8, WritingAfter
<1>10. \A x : ClaimOf(x)' = IF x = k THEN "sent" ELSE ClaimOf(x)
  BY <1>4, ClaimPut
<1>11. ClaimsFit'
  BY <1>2, <1>4, <1>5, <1>6, ClaimsTyped DEF ClaimsFit
<1>12. ASSUME "reply worker" \notin lost
       PROVE  told'[k] <= 1 /\ \A j \in 1..Len(replies) : ~Writing(k, j)'
  BY <1>1, <1>2, <1>5, <1>6, <1>7, <1>9, <1>12, KeyOnce
<1>13. /\ \A x \in Key \ {k} : ClaimOf(x)' = ClaimOf(x) /\ told'[x] = told[x]
       /\ told'[k] >= told[k] /\ told'[k] >= 1 /\ ClaimOf(k)' = "sent"
  BY <1>2, <1>5, <1>6, <1>7, <1>10
<1>14. "reply worker" \notin lost =>
          /\ told'[k] <= 1 /\ ClaimOf(k)' # "stale"
          /\ told'[k] = 1 => \/ ClaimOf(k)' = "sent"
                             \/ \E j \in 1..Len(replies) : Writing(k, j)' /\ replies'[j].at = "marking"
          /\ ClaimOf(k)' = "sending" <=> \E j \in 1..Len(replies) : Writing(k, j)'
          /\ \A j, h \in 1..Len(replies) : Writing(k, j)' /\ Writing(k, h)' => j = h
  BY <1>12, <1>13
<1>15. ClaimOf(k)' # "none" \/ told'[k] >= 1
  BY <1>13
<1>16. ClaimOf(k)' = "sent" \/ "over" = "marking" => told'[k] >= 1
  BY <1>13
<1> QED
  BY <1>3, <1>8, <1>11, <1>13, <1>14, <1>15, <1>16, ReceiptsAfter

LEMMA GoesStaleKeeps ==
  ASSUME TargetInv, NEW k \in DOMAIN claims, GoesStale(k)
  PROVE  TargetInv'
<1>1. /\ ClaimOf(k) = "sending" /\ Claims(k, "stale")
      /\ UNCHANGED <<strict, counter, rows, sentMap, sentIds, recorded, notices, echoes, known, listed,
                     lost, replies, told, sent>>
  BY DEF GoesStale, OnlyReplies
<1>2. \A i \in 1..Len(replies) : ~Writing(k, i)
  <2>1. DOMAIN replies = 1..Len(replies)
    BY LenProperties DEF TargetInv, RepliesFit
  <2> QED
    BY <2>1 DEF GoesStale, Writing
<1>3. NoticesStay
  BY <1>1 DEF NoticesStay
<1>4. NoticesFit' /\ MapFits' /\ IdsStand'
  BY <1>1 DEF TargetInv, NoticesFit, MapFits, IdsStand
<1>5. RepliesFit'
  BY <1>1, <1>3, ReplyStays DEF TargetInv, RepliesFit
<1>6. LockHolds'
  BY <1>1, <1>3, LockStays DEF TargetInv, LockHolds
<1>7. SentFit'
  BY <1>1, <1>6 DEF TargetInv, SentFit
<1>8. k \in Key /\ ClaimsFit
  BY DEF TargetInv, ReceiptsFit, ClaimsFit
<1>9. ClaimsFit'
  BY <1>1, <1>8, ClaimsTyped DEF ClaimsFit
<1>10. \A x : ClaimOf(x)' = IF x = k THEN "stale" ELSE ClaimOf(x)
  BY <1>1, ClaimPut
<1>11. ASSUME ~strict PROVE TellsAll' /\ TellsOnce'
  <2>1. TellsAll /\ TellsOnce
    BY <1>11 DEF TargetInv, ReceiptsFit
  <2>2. "reply worker" \in lost
    BY <1>1, <1>2, <1>8, <2>1, KeyOnce
  <2>3. TellsOnce'
    BY <1>1, <2>2 DEF TellsOnce
  <2>4. \A j \in 1..Len(replies) : ReceiptKey(replies[j])' = ReceiptKey(replies[j]) /\ Went(j)' = Went(j)
    BY <1>1 DEF ReceiptKey, Went
  <2>5. TellsAll'
    BY <1>1, <1>10, <2>1, <2>4 DEF TellsAll
  <2> QED
    BY <2>3, <2>5
<1> QED
  BY <1>1, <1>4, <1>5, <1>7, <1>9, <1>11 DEF TargetInv, ReceiptsFit

LEMMA TargetInitially == ASSUME TargetInit PROVE TargetInv
<1> USE ReplyTargetAssumption
<1>1. /\ strict \in BOOLEAN /\ counter = FirstId /\ rows = <<>> /\ sentMap = NoEntries
      /\ sentIds = NoEntries /\ recorded = {} /\ notices = <<>> /\ echoes = {} /\ known = {}
      /\ listed = {} /\ replies = <<>> /\ claims = NoEntries /\ told = [k \in Key |-> 0]
      /\ sent = {} /\ lost = {}
  BY DEF TargetInit
<1>2. /\ <<>> \in Seq(PendingRow) /\ <<>> \in Seq(Notice) /\ <<>> \in Seq(ReplyRecord)
      /\ Len(<<>>) = 0 /\ 1..0 = {}
  BY EmptySeq
<1>3. NoticesFit
  BY <1>1, <1>2 DEF NoticesFit, FirstId
<1>4. MapFits /\ IdsStand
  BY <1>1, <1>2 DEF MapFits, IdsStand, NoEntries
<1>5. RepliesFit
  BY <1>1, <1>2 DEF RepliesFit
<1>6. SentFit
  BY <1>1 DEF SentFit, LockHolds
<1>7. ReceiptsFit
  <2>1. \A k : ClaimOf(k) = "none"
    BY <1>1 DEF ClaimOf, NoEntries
  <2>2. ClaimsFit
    BY <1>1 DEF ClaimsFit, NoEntries
  <2>3. \A i \in 1..Len(replies) : FALSE
    BY <1>1, <1>2
  <2>4. TellsAll
    BY <2>1, <2>3 DEF TellsAll
  <2>5. \A k \in Key : told[k] = 0 /\ told[k] <= 1 /\ told[k] # 1
    BY <1>1
  <2>6. TellsOnce
    BY <2>1, <2>3, <2>5 DEF TellsOnce
  <2> QED
    BY <2>2, <2>4, <2>6 DEF ReceiptsFit
<1> QED
  BY <1>3, <1>4, <1>5, <1>6, <1>7 DEF TargetInv

LEMMA TargetStep == ASSUME TargetInv, [TargetNext]_targetVars PROVE TargetInv'
<1>1. ASSUME UNCHANGED targetVars PROVE TargetInv'
  <2>1. UNCHANGED <<strict, counter, rows, sentMap, sentIds, recorded, claims, notices, echoes, known,
                    listed, replies, told, sent, lost>>
    BY <1>1 DEF targetVars, fileVars
  <2>2. NoticesStay
    BY <2>1 DEF NoticesStay
  <2>3. RepliesFit' /\ SentFit' /\ ReceiptsFit'
    BY <2>1, <2>2, AroundReplies DEF TargetInv
  <2> QED
    BY <2>1, <2>3 DEF TargetInv, NoticesFit, MapFits, IdsStand
<1>2. ASSUME NEW i \in DOMAIN replies, WorkerStep(i) PROVE TargetInv'
  BY <1>2, ParseKeeps, LookKeeps, SendKeeps, ClaimKeeps, TellKeeps, MarkSentKeeps DEF WorkerStep
<1> QED
  BY <1>1, <1>2, NotifyKeeps, NotifyAgainKeeps, EchoKeeps, PageListsKeeps, ReplyKeeps, CutOffKeeps,
     StrictReplyKeeps, GoesStaleKeeps, WorkerDiesKeeps DEF TargetNext

LEMMA TargetSound == ASSUME TargetInv PROVE TargetTypeOK /\ MeansTheBuyer /\ FailureToldOnce
<1> USE ReplyTargetAssumption
<1>1. notices \in Seq(Notice) /\ rows \in Seq(PendingRow) /\ replies \in Seq(ReplyRecord)
      /\ DOMAIN replies = 1..Len(replies) /\ Len(notices) \in Nat /\ Len(notices) <= MaxNotice
  BY LenProperties DEF TargetInv, NoticesFit, RepliesFit
<1>2. counter \in Ids
  <2>1. counter \in FirstId..(FirstId + Len(notices)) /\ MaxNotice \in Nat
    BY DEF TargetInv, NoticesFit
  <2> QED
    BY <1>1, <2>1 DEF Ids, FirstId
<1>3. Range(sentMap) \cup Range(sentIds) \subseteq [id : Ids, conv : Conv \cup {NoConv}, to : Receiver]
  BY DEF TargetInv, MapFits, Range, Entry, SomeConv
<1>4. Range(claims) \subseteq {"sending", "stale", "sent", "failed"}
  BY DEF TargetInv, ReceiptsFit, ClaimsFit, Range
<1>5. /\ rows \in Seq([id : Ids, conv : Conv])
      /\ notices \in Seq([id : Ids, conv : Conv, to : SUBSET Receiver])
      /\ replies \in Seq([mode : Mode, notice : 1..MaxNotice, from : Receiver, at : ReplyAt,
                          id : Ids \cup {0}, conv : Conv \cup {NoConv}, tries : 0..3,
                          why : Why \cup {"none"}])
  BY <1>1 DEF PendingRow, Notice, ReplyRecord, SomeConv
<1>6. strict \in BOOLEAN /\ known \subseteq Conv /\ listed \subseteq Conv
      /\ lost \subseteq File \cup {"reply worker"}
  BY DEF TargetInv, NoticesFit
<1>7. DOMAIN sentMap \subseteq Wx /\ DOMAIN sentIds \subseteq Ids /\ recorded \subseteq Ids \X Receiver
      /\ echoes \subseteq Wx
  BY DEF TargetInv, MapFits
<1>8. DOMAIN claims \subseteq Key /\ told \in [Key -> Nat] /\ sent \subseteq (1..MaxReply) \X Conv
  BY DEF TargetInv, ReceiptsFit, ClaimsFit, SentFit
<1>9. TargetTypeOK
  BY <1>2, <1>3, <1>4, <1>5, <1>6, <1>7, <1>8 DEF TargetTypeOK
<1>10. MeansTheBuyer
  <2>1. HandsOverMeant
    BY <1>1 DEF TargetInv, RepliesFit, ReplyFits, HandsOverMeant, Meant
  <2> QED
    BY <2>1 DEF TargetInv, SentFit, MeansTheBuyer
<1>11. FailureToldOnce
  <2> SUFFICES ASSUME ~strict
      PROVE  /\ "reply worker" \notin lost => \A k \in Key : told[k] <= 1
             /\ \A i \in DOMAIN replies :
                  replies[i].at = "over" /\ ~(\E s \in sent : s[1] = i) =>
                    \/ told[ReceiptKey(replies[i])] >= 1
                    \/ ClaimOf(ReceiptKey(replies[i])) \in {"sending", "failed", "stale"}
    BY DEF FailureToldOnce
  <2>1. TellsAll /\ TellsOnce
    BY DEF TargetInv, ReceiptsFit
  <2>2. "reply worker" \notin lost => \A k \in Key : told[k] <= 1
    BY <2>1 DEF TellsOnce
  <2>3. ASSUME NEW i \in DOMAIN replies, replies[i].at = "over", ~(\E s \in sent : s[1] = i)
        PROVE  \/ told[ReceiptKey(replies[i])] >= 1
               \/ ClaimOf(ReceiptKey(replies[i])) \in {"sending", "failed", "stale"}
    <3>1. i \in 1..Len(replies) /\ replies[i].why \in Why /\ ~Went(i)
      BY <1>1, <2>1, <2>3 DEF TellsAll, Went
    <3>2. ReceiptKey(replies[i]) \in Key
      BY <3>1, StepOf, KeyFits
    <3> QED
      BY <2>1, <2>3, <3>1, <3>2 DEF TellsAll
  <2> QED
    BY <2>2, <2>3
<1> QED
  BY <1>9, <1>10, <1>11

-------------------------------------------------------------------------------
(***************************************************************************)
(* What the bot does in the page (ShopUi)                                  *)
(***************************************************************************)
\* A script that clicked away goes back to a chat somebody wanted open.
GoesBackToGoal == \A a \in Answered : clicks[a] = "away" => ChatOf[a] \in goals

\* Between its clicks and the key nobody took the page from a probe, or it knows.
ProbeAtOwn ==
  /\ RowsOfName = {Own} /\ prober \in {"typing", "pressing"} /\ ~disturbed => current = Own
  /\ prober = "pressing" => current \in Chats

UiInv == UiTypeOK /\ GoesBackToGoal /\ ProbeAtOwn /\ ProbeReachesOwn

LEMMA UiInitially == UiInit => UiInv
<1> SUFFICES ASSUME UiInit PROVE UiInv
  OBVIOUS
<1>1. UiTypeOK
  <2>1. /\ chain \in [Answered -> {"unanswered", "open", "opening", "read", "over"}]
        /\ clicks \in [Answered -> {"none", "away"}]
    BY DEF UiInit
  <2>2. uiActs \in 0..MaxUiActs
    BY ShopUiAssumption DEF UiInit
  <2>3. /\ rowsShown \subseteq Chats /\ carries \in BOOLEAN /\ disturbed \in BOOLEAN
        /\ goals \subseteq Chats /\ {current, draft} \subseteq Chats \cup {NoChat}
        /\ prober \in {"none", "away", "typing", "pressing"}
        /\ probedChats \subseteq [chat : Chats, alone : BOOLEAN]
        /\ current \in goals \cup {NoChat}
    BY DEF UiInit
  <2> QED
    BY <2>1, <2>2, <2>3 DEF UiTypeOK
<1> QED
  BY <1>1 DEF UiInit, UiInv, GoesBackToGoal, ProbeAtOwn, ProbeReachesOwn

\* What does not touch the page's chat, nor whom the probe was sent to.
LEMMA ChainAloneKeeps ==
  ASSUME UiInv, NEW a \in Answered, NEW to \in {"unanswered", "open", "opening", "read", "over"},
         ChainGoes(a, to), UNCHANGED <<rowsShown, carries, clickVars, clicks, probeVars, uiActs>>
  PROVE  UiInv'
<1>1. UNCHANGED <<rowsShown, carries, current, goals, draft, disturbed, clicks, prober,
                  probedChats, uiActs>>
  BY DEF clickVars, probeVars
<1>2. chain' \in [Answered -> {"unanswered", "open", "opening", "read", "over"}]
  BY DEF UiInv, UiTypeOK, ChainGoes
<1> QED
  BY <1>1, <1>2 DEF UiInv, UiTypeOK, GoesBackToGoal, ProbeAtOwn, ProbeReachesOwn, RowsOfName

LEMMA UiStep == UiInv /\ [UiNext]_uiVars => UiInv'
<1> SUFFICES ASSUME UiInv, [UiNext]_uiVars PROVE UiInv'
  OBVIOUS
<1> USE ShopUiAssumption
<1>1. CASE UNCHANGED uiVars
  <2>1. UNCHANGED <<rowsShown, carries, current, goals, draft, disturbed, chain, clicks, prober,
                    probedChats, uiActs>>
    BY <1>1 DEF uiVars, clickVars, syncVars, probeVars
  <2> QED
    BY <2>1 DEF UiInv, UiTypeOK, GoesBackToGoal, ProbeAtOwn, ProbeReachesOwn, RowsOfName
<1>2. ASSUME NEW c \in Chats, UserOpens(c) PROVE UiInv'
  <2>1. /\ UNCHANGED <<rowsShown, carries, chain, clicks, prober, probedChats>>
        /\ uiActs < MaxUiActs /\ uiActs' = uiActs + 1
        /\ goals' = goals \cup {c} /\ disturbed' = (disturbed \/ prober # "none")
        /\ current' = c /\ draft' = IF carries /\ draft # NoChat THEN c ELSE draft
    BY <1>2 DEF UserOpens, UiAct, Opens, Probing, syncVars, probeVars
  <2>2. UiTypeOK'
    BY <2>1 DEF UiInv, UiTypeOK
  <2> QED
    BY <2>1, <2>2 DEF UiInv, GoesBackToGoal, ProbeAtOwn, ProbeReachesOwn, RowsOfName
<1>3. CASE PageLoads
  <2>1. /\ UNCHANGED <<rowsShown, carries, goals, disturbed, probedChats>>
        /\ uiActs < MaxUiActs /\ uiActs' = uiActs + 1
        /\ current' = NoChat /\ draft' = NoChat /\ prober' = "none"
        /\ clicks' = [a \in Answered |-> "none"]
        /\ chain' = [a \in Answered |-> IF chain[a] = "opening" THEN "read" ELSE chain[a]]
    BY <1>3 DEF PageLoads, UiAct
  <2>2. chain' \in [Answered -> {"unanswered", "open", "opening", "read", "over"}]
        /\ clicks' \in [Answered -> {"none", "away"}]
    BY <2>1 DEF UiInv, UiTypeOK
  <2>3. UiTypeOK'
    BY <2>1, <2>2 DEF UiInv, UiTypeOK
  <2> QED
    BY <2>1, <2>3 DEF UiInv, GoesBackToGoal, ProbeAtOwn, ProbeReachesOwn, RowsOfName
<1>4. ASSUME NEW a \in Answered, Announces(a) \/ OpeningTimesOut(a) \/ Reads(a) PROVE UiInv'
  BY <1>4, ChainAloneKeeps DEF Announces, OpeningTimesOut, Reads
<1>5. ASSUME NEW a \in Answered, OpensAnew(a) PROVE UiInv'
  <2>1. ChatOf[a] \in Chats
    OBVIOUS
  <2>2. CASE RowOfChat(ChatOf[a]) # {}
    <3>1. /\ UNCHANGED <<rowsShown, carries, prober, probedChats, uiActs>>
          /\ chain' = [chain EXCEPT ![a] = "opening"] /\ clicks' = [clicks EXCEPT ![a] = "away"]
          /\ goals' = goals \cup {ChatOf[a]} /\ disturbed' = (disturbed \/ prober # "none")
      BY <1>5, <2>2 DEF OpensAnew, ChainGoes, Probing, probeVars
    <3>2. current' \in Chats /\ draft' \in Chats \cup {NoChat}
      <4>1. \E c \in rowsShown \cup {ChatOf[a]} : Opens(c)
        BY <1>5, <2>2 DEF OpensAnew, ClicksAway
      <4> QED
        BY <4>1, <2>1 DEF Opens, UiInv, UiTypeOK
    <3>3. /\ chain' \in [Answered -> {"unanswered", "open", "opening", "read", "over"}]
          /\ clicks' \in [Answered -> {"none", "away"}] /\ clicks'[a] = "away"
          /\ \A b \in Answered : clicks'[b] = "away" => b = a \/ clicks[b] = "away"
      BY <3>1 DEF UiInv, UiTypeOK
    <3>4. UiTypeOK'
      BY <2>1, <3>1, <3>2, <3>3 DEF UiInv, UiTypeOK
    <3>5. GoesBackToGoal'
      BY <3>1, <3>3 DEF UiInv, GoesBackToGoal
    <3> QED
      BY <3>1, <3>2, <3>4, <3>5 DEF UiInv, ProbeAtOwn, ProbeReachesOwn, RowsOfName
  <2>3. CASE RowOfChat(ChatOf[a]) = {}
    BY <1>5, <2>3, ChainAloneKeeps DEF OpensAnew
  <2> QED
    BY <2>2, <2>3
<1>6. ASSUME NEW a \in Answered, ScriptEnds(a) PROVE UiInv'
  <2>1. /\ UNCHANGED <<rowsShown, carries, prober, probedChats, uiActs, goals>>
        /\ clicks[a] = "away" /\ clicks' = [clicks EXCEPT ![a] = "none"]
        /\ chain' = [chain EXCEPT ![a] = IF @ = "opening" THEN "read" ELSE @]
        /\ disturbed' = (disturbed \/ prober # "none")
        /\ current' = ChatOf[a] /\ draft' = IF carries /\ draft # NoChat THEN ChatOf[a] ELSE draft
    BY <1>6 DEF ScriptEnds, ClicksBack, Opens, Probing, probeVars
  <2>2. ChatOf[a] \in Chats /\ ChatOf[a] \in goals
    BY <2>1 DEF UiInv, GoesBackToGoal
  <2>3. /\ chain' \in [Answered -> {"unanswered", "open", "opening", "read", "over"}]
        /\ clicks' \in [Answered -> {"none", "away"}]
        /\ \A b \in Answered : clicks'[b] = "away" => clicks[b] = "away"
    BY <2>1 DEF UiInv, UiTypeOK
  <2>4. UiTypeOK'
    BY <2>1, <2>2, <2>3 DEF UiInv, UiTypeOK
  <2> QED
    BY <2>1, <2>3, <2>4 DEF UiInv, GoesBackToGoal, ProbeAtOwn, ProbeReachesOwn, RowsOfName
<1>7. CASE ProbeStarts
  <2>1. /\ UNCHANGED <<rowsShown, carries, chain, clicks, probedChats, uiActs, goals>>
        /\ disturbed' = FALSE /\ prober = "none"
        /\ \/ RowsOfName # {} /\ prober' = "away" /\ \E other \in rowsShown : Opens(other)
           \/ RowsOfName = {} /\ prober' = "typing" /\ UNCHANGED <<current, draft>>
    BY <1>7 DEF ProbeStarts, Probing, syncVars
  <2>2. current' \in Chats \cup {NoChat} /\ draft' \in Chats \cup {NoChat}
    BY <2>1 DEF Opens, UiInv, UiTypeOK
  <2>3. UiTypeOK'
    BY <2>1, <2>2 DEF UiInv, UiTypeOK
  <2> QED
    BY <2>1, <2>3 DEF UiInv, GoesBackToGoal, ProbeAtOwn, ProbeReachesOwn, RowsOfName
<1>8. CASE ProbePicks
  <2>1. PICK c \in RowsOfName : ClicksBack(c) /\ goals' = goals \cup {c}
    BY <1>8 DEF ProbePicks
  <2>2. /\ UNCHANGED <<disturbed, rowsShown, carries, chain, clicks, probedChats, uiActs>>
        /\ prober' = "typing" /\ c \in Chats
        /\ current' = c /\ draft' = IF carries /\ draft # NoChat THEN c ELSE draft
    BY <1>8, <2>1 DEF ProbePicks, ClicksBack, Opens, syncVars, RowsOfName
  <2>3. UiTypeOK'
    BY <2>1, <2>2 DEF UiInv, UiTypeOK
  <2> QED
    BY <2>1, <2>2, <2>3 DEF UiInv, GoesBackToGoal, ProbeAtOwn, ProbeReachesOwn, RowsOfName
<1>9. CASE ProbeTypes
  <2>1. /\ UNCHANGED <<current, goals, disturbed, rowsShown, carries, chain, clicks, probedChats, uiActs>>
        /\ prober = "typing" /\ prober' \in {"none", "pressing"} /\ draft' \in {draft, current}
        /\ prober' = "pressing" => current # NoChat
    BY <1>9 DEF ProbeTypes, syncVars
  <2> QED
    BY <2>1 DEF UiInv, UiTypeOK, GoesBackToGoal, ProbeAtOwn, ProbeReachesOwn, RowsOfName
<1>10. CASE ProbePresses
  <2>1. /\ UNCHANGED <<current, goals, disturbed, rowsShown, carries, chain, clicks, uiActs>>
        /\ prober = "pressing" /\ prober' = "none" /\ draft' \in {draft, NoChat}
        /\ \/ probedChats' = probedChats
           \/ draft = current /\ probedChats' = probedChats \cup {[chat |-> current, alone |-> ~disturbed]}
    BY <1>10 DEF ProbePresses, syncVars
  <2> DEFINE p == [chat |-> current, alone |-> ~disturbed]
  <2>a. /\ current \in Chats /\ disturbed \in BOOLEAN
        /\ probedChats \subseteq [chat : Chats, alone : BOOLEAN]
    BY <2>1 DEF UiInv, UiTypeOK, ProbeAtOwn
  <2>b. /\ p \in [chat : Chats, alone : BOOLEAN]
        /\ p.alone /\ RowsOfName = {Own} => p.chat = Own
    BY <2>a, <2>1 DEF UiInv, ProbeAtOwn
  <2>c. probedChats' = probedChats \/ probedChats' = probedChats \cup {p}
    BY <2>1
  <2> HIDE DEF p
  <2>2. UiTypeOK'
    BY <2>1, <2>a, <2>b, <2>c DEF UiInv, UiTypeOK
  <2>3. ProbeReachesOwn'
    BY <2>1, <2>b, <2>c DEF UiInv, ProbeReachesOwn, RowsOfName
  <2> QED
    BY <2>1, <2>2, <2>3 DEF UiInv, GoesBackToGoal, ProbeAtOwn, RowsOfName
<1> QED
  BY <1>1, <1>2, <1>3, <1>4, <1>5, <1>6, <1>7, <1>8, <1>9, <1>10 DEF UiNext, FinalizeSendAfterAck

-------------------------------------------------------------------------------
(***************************************************************************)
(* The sessions of the protocol bridge (BridgeSession)                     *)
(***************************************************************************)
\* Nobody, or one of the buyers whose names go together with b's.
OfFamily(p, b) == p # Nobody => Family[p] = Family[b]
ConvOf(c, b) == c # NoDialog => Family[DialogBuyer[c]] = Family[b]

\* What the files say of a conversation is said of its buyer, or of one of his family.
ContextFits(ctx) ==
  \A c \in Dialogs : OfFamily(ctx[c].nick, DialogBuyer[c]) /\ OfFamily(ctx[c].to, DialogBuyer[c])
ReceiversFit(map) == \A c \in Dialogs : OfFamily(map[c], DialogBuyer[c])

\* So is what the order system was told.
HoldsFit == \A b \in Customers : \A h \in holds[b] : ConvOf(h.conv, b) /\ OfFamily(h.to, b)

\* And what it asks for.
RequestFits(req) ==
  /\ ConvOf(req.conv, req.buyer) /\ OfFamily(req.to, req.buyer)
  /\ req.conv # NoDialog => DialogShop[req.conv] = req.shop

\* And what is found for it.
SessionFits(session, req) ==
  /\ session \in Session
  /\ ConvOf(session.conv, req.buyer) /\ OfFamily(session.to, req.buyer) /\ OfFamily(session.nick, req.buyer)
  /\ session.conv # NoDialog => DialogShop[session.conv] = req.shop

CallsFit ==
  \A k \in Callers :
    /\ call[k].stage # "free" => RequestFits(call[k].req)
    /\ call[k].stage = "sending" => SessionFits(call[k].session, call[k].req)

BridgeInv ==
  /\ BridgeTypeOK /\ ContextFits(context) /\ \A copy \in recorder : ContextFits(copy)
  /\ ReceiversFit(receivers) /\ HoldsFit /\ CallsFit /\ BridgedToMeant

LEMMA PartOfFamily ==
  ASSUME NEW a \in Customers, NEW b \in Customers, buyerNickMatches(a, b)
  PROVE  Family[a] = Family[b]
BY BridgeAssumption DEF buyerNickMatches

LEMMA DialogsTyped ==
  /\ Nobody \notin Customers /\ NoDialog \notin Dialogs
  /\ \A c \in Dialogs : DialogBuyer[c] \in Customers /\ DialogShop[c] \in BridgeShops
BY BridgeAssumption

LEMMA FirstRequest == (CHOOSE r \in Request : TRUE) \in Request
<1>1. PICK c \in Dialogs : TRUE
  BY BridgeAssumption
<1>2. DialogBuyer[c] \in Customers /\ DialogShop[c] \in BridgeShops
  BY DialogsTyped
<1>3. [buyer |-> DialogBuyer[c], shop |-> DialogShop[c], uid |-> TRUE, nick |-> TRUE,
       conv |-> NoDialog, to |-> Nobody] \in Request
  BY <1>2 DEF Request, Person
<1> QED
  BY <1>3

(***************************************************************************)
(* What is found in files that fit, for a request that fits, fits it,      *)
(* whichever of the rows comes first.                                      *)
(***************************************************************************)
LEMMA ResolvedFits ==
  ASSUME NEW req \in Request, RequestFits(req),
         NEW ctx \in Contexts, ContextFits(ctx), NEW map \in [Dialogs -> Person], ReceiversFit(map),
         NEW found \in resolveSessionFromStore(req, ctx, map)
  PROVE  SessionFits(found, req)
<1> DEFINE ofShop == {c \in Dialogs : DialogShop[c] = req.shop}
           byRow  == {c \in ofShop : Fits(req, ctx[c])}
           byMap  == {c \in ofShop : req.uid /\ map[c] = req.buyer}
<1>1. /\ req.buyer \in Customers /\ req.buyer # Nobody /\ req.conv \in Dialogs \cup {NoDialog}
      /\ req.to \in Person
  BY DialogsTyped DEF Request
<1>2. \A c \in Dialogs : /\ ctx[c].nick \in Person /\ ctx[c].to \in Person
                         /\ OfFamily(ctx[c].nick, DialogBuyer[c]) /\ OfFamily(ctx[c].to, DialogBuyer[c])
  BY DEF Contexts, ContextFits
<1>3. OfFamily(req.buyer, req.buyer) /\ OfFamily(Nobody, req.buyer)
  BY DEF OfFamily
<1>4. CASE req.conv # NoDialog
  <2> DEFINE to == IF req.to # Nobody THEN req.to ELSE ToOr(req, ctx[req.conv].to)
             nick == NickOr(req, ctx[req.conv].nick)
  <2>1. found = [conv |-> req.conv, nick |-> nick, to |-> to]
    BY <1>4 DEF resolveSessionFromStore
  <2>2. req.conv \in Dialogs /\ Family[DialogBuyer[req.conv]] = Family[req.buyer]
    BY <1>1, <1>4 DEF RequestFits, ConvOf
  <2>3. to \in Person /\ OfFamily(to, req.buyer)
    BY <1>1, <1>2, <1>3, <2>2 DEF ToOr, Person, RequestFits, OfFamily
  <2>4. nick \in Person /\ OfFamily(nick, req.buyer)
    BY <1>1, <1>2, <1>3, <2>2 DEF NickOr, Person, OfFamily
  <2> HIDE DEF to, nick
  <2> QED
    BY <1>4, <2>1, <2>2, <2>3, <2>4 DEF SessionFits, Session, ConvOf, RequestFits
<1>5. CASE req.conv = NoDialog /\ byRow # {}
  <2>1. PICK c \in byRow :
          found = [conv |-> c, to |-> ctx[c].to,
                   nick |-> IF req.uid /\ ctx[c].to = req.buyer THEN NickOr(req, ctx[c].nick) ELSE ctx[c].nick]
    BY <1>5 DEF resolveSessionFromStore
  <2>2. c \in Dialogs /\ DialogShop[c] = req.shop /\ Fits(req, ctx[c])
    OBVIOUS
  <2>3. Family[DialogBuyer[c]] = Family[req.buyer]
    <3>1. CASE ctx[c].to = req.buyer
      BY <3>1, <1>1, <1>2, <2>2 DEF OfFamily
    <3>2. CASE ctx[c].nick # Nobody /\ <<req.buyer, ctx[c].nick>> \in Part
      <4>1. ctx[c].nick \in Customers
        BY <3>2, <1>2, <2>2 DEF Person
      <4>2. Family[req.buyer] = Family[ctx[c].nick]
        BY <3>2, <4>1, <1>1, PartOfFamily DEF buyerNickMatches
      <4> QED
        BY <3>2, <4>2, <1>2, <2>2 DEF OfFamily
    <3> QED
      BY <2>2, <3>1, <3>2 DEF Fits
  <2>4. /\ ctx[c].to \in Person /\ OfFamily(ctx[c].to, req.buyer)
        /\ ctx[c].nick \in Person /\ OfFamily(ctx[c].nick, req.buyer)
    BY <1>2, <2>2, <2>3 DEF OfFamily
  <2>5. found.nick \in Person /\ OfFamily(found.nick, req.buyer)
    BY <1>1, <1>3, <2>1, <2>4 DEF NickOr, Person
  <2> QED
    BY <2>1, <2>2, <2>3, <2>4, <2>5 DEF SessionFits, Session, ConvOf
<1>6. CASE req.conv = NoDialog /\ byRow = {} /\ byMap # {}
  <2>1. PICK c \in byMap : found = [conv |-> c, to |-> req.buyer, nick |-> NickOr(req, Nobody)]
    BY <1>6 DEF resolveSessionFromStore
  <2>2. c \in Dialogs /\ DialogShop[c] = req.shop /\ map[c] = req.buyer
    OBVIOUS
  <2>3. Family[DialogBuyer[c]] = Family[req.buyer]
    BY <1>1, <2>2 DEF ReceiversFit, OfFamily
  <2>4. NickOr(req, Nobody) \in Person /\ OfFamily(NickOr(req, Nobody), req.buyer)
    BY <1>1, <1>3 DEF NickOr, Person
  <2> QED
    BY <1>1, <1>3, <2>1, <2>2, <2>3, <2>4 DEF SessionFits, Session, ConvOf, Person
<1>7. CASE req.conv = NoDialog /\ byRow = {} /\ byMap = {}
  <2> DEFINE to == IF req.uid THEN req.buyer ELSE Nobody
  <2>1. found = [conv |-> NoDialog, to |-> to, nick |-> NickOr(req, Nobody)]
    BY <1>7 DEF resolveSessionFromStore
  <2>2. /\ NickOr(req, Nobody) \in Person /\ OfFamily(NickOr(req, Nobody), req.buyer)
        /\ to \in Person /\ OfFamily(to, req.buyer)
    BY <1>1, <1>3 DEF NickOr, Person
  <2> QED
    BY <2>1, <2>2 DEF SessionFits, Session, ConvOf
<1> QED
  BY <1>4, <1>5, <1>6, <1>7

LEMMA EmptyFilesFit ==
  /\ NoContext \in Contexts /\ ContextFits(NoContext)
  /\ NoReceivers \in [Dialogs -> Person] /\ ReceiversFit(NoReceivers)
BY DEF NoContext, NoReceivers, Unwritten, Contexts, Person, ContextFits, ReceiversFit, OfFamily

LEMMA FoundFits ==
  ASSUME BridgeInv, NEW req \in Request, RequestFits(req), NEW found \in Found(req)
  PROVE  SessionFits(found, req)
<1>1. PICK ctx \in {context, NoContext}, map \in {receivers, NoReceivers} :
        found \in resolveSessionFromStore(req, ctx, map)
  BY DEF Found
<1>2. ctx \in Contexts /\ ContextFits(ctx) /\ map \in [Dialogs -> Person] /\ ReceiversFit(map)
  BY EmptyFilesFit DEF BridgeInv, BridgeTypeOK
<1> QED
  BY <1>1, <1>2, ResolvedFits

\* A request says what is so of the buyer that it means.
LEMMA AskedFits ==
  ASSUME BridgeInv, NEW b \in Customers, NEW s \in BridgeShops, NEW uid \in BOOLEAN, NEW nick \in BOOLEAN,
         NEW met \in Known(b, s)
  PROVE  /\ RequestOf(b, s, uid, nick, met) \in Request
         /\ RequestFits(RequestOf(b, s, uid, nick, met))
<1>1. /\ met.conv \in Dialogs \cup {NoDialog} /\ met.to \in Person
      /\ ConvOf(met.conv, b) /\ OfFamily(met.to, b)
      /\ met.conv # NoDialog => DialogShop[met.conv] = s
  <2>1. CASE met \in {[conv |-> c, to |-> Nobody] : c \in {d \in Dialogs : DialogBuyer[d] = b /\ DialogShop[d] = s}}
    BY <2>1 DEF ConvOf, OfFamily, Person
  <2>2. CASE met \in {h \in holds[b] : h.conv # NoDialog => DialogShop[h.conv] = s}
    BY <2>2 DEF BridgeInv, BridgeTypeOK, HoldsFit
  <2>3. CASE met = [conv |-> NoDialog, to |-> Nobody]
    BY <2>3 DEF ConvOf, OfFamily, Person
  <2> QED
    BY <2>1, <2>2, <2>3 DEF Known
<1> QED
  BY <1>1 DEF RequestOf, Request, RequestFits

LEMMA TargetFits ==
  ASSUME NEW req \in Request, RequestFits(req), NEW found, SessionFits(found, req)
  PROVE  SessionFits(Target(req, found), req)
<1>1. /\ req.buyer \in Customers /\ req.conv \in Dialogs \cup {NoDialog} /\ req.to \in Person
  BY DEF Request
<1>2. /\ found.conv \in Dialogs \cup {NoDialog} /\ found.to \in Person /\ found.nick \in Person
      /\ ConvOf(found.conv, req.buyer) /\ OfFamily(found.to, req.buyer) /\ OfFamily(found.nick, req.buyer)
      /\ found.conv # NoDialog => DialogShop[found.conv] = req.shop
  BY DEF SessionFits, Session
<1>3. NickOr(req, found.nick) \in Person /\ OfFamily(NickOr(req, found.nick), req.buyer)
  BY <1>1, <1>2 DEF NickOr, Person, OfFamily
<1> QED
  BY <1>1, <1>2, <1>3 DEF Target, SessionFits, Session, RequestFits

(***************************************************************************)
(* The steps.                                                              *)
(***************************************************************************)
CallRecords == [stage : {"free", "sending", "image"}, type : {"alone", "preface"},
                req : Request, session : Session]

\* What has to hold of one request; the configuration does not change.
CallFits(c) ==
  /\ c \in CallRecords
  /\ c.stage # "free" => RequestFits(c.req)
  /\ c.stage = "sending" =>
       /\ SessionFits(c.session, c.req)
       /\ c.session.conv \in Dialogs /\ c.session.to \in Customers
       /\ onlyNick # Nobody => Family[onlyNick] = Family[c.req.buyer]

LEMMA EachCallFits ==
  ASSUME BridgeInv
  PROVE  \A k \in Callers : CallFits(call[k])
BY DEF BridgeInv, BridgeTypeOK, CallsFit, BridgedToMeant, CallFits, CallRecords

LEMMA FreeCallFits == CallFits(FreeCall)
BY FirstRequest DEF FreeCall, NoSession, CallFits, CallRecords, Session, Person

\* One request changes, to one that fits.
LEMMA CallsStayFit ==
  ASSUME BridgeInv, onlyNick' = onlyNick, NEW k \in Callers, NEW c, CallFits(c),
         call' = [call EXCEPT ![k] = c]
  PROVE  call' \in [Callers -> CallRecords] /\ CallsFit' /\ BridgedToMeant'
<1>1. call \in [Callers -> CallRecords] /\ \A j \in Callers : CallFits(call[j])
  BY EachCallFits DEF BridgeInv, BridgeTypeOK, CallRecords
<1>2. c \in CallRecords
  BY DEF CallFits
<1>3. \A j \in Callers : CallFits(call'[j])
  BY <1>1
<1>4. call' \in [Callers -> CallRecords]
  BY <1>1, <1>2
<1>5. CallsFit'
  BY <1>3 DEF CallsFit, CallFits
<1>6. BridgedToMeant'
  BY <1>3, DialogsTyped DEF BridgedToMeant, CallFits, SessionFits, ConvOf, OfFamily
<1> QED
  BY <1>4, <1>5, <1>6

LEMMA StartsFits ==
  ASSUME BridgeInv, onlyNick' = onlyNick, NEW k \in Callers, NEW type \in {"alone", "preface"},
         NEW req \in Request, RequestFits(req), Starts(k, type, req)
  PROVE  call' \in [Callers -> CallRecords] /\ CallsFit' /\ BridgedToMeant'
<1>1. PICK found \in Found(req) :
        call' = [call EXCEPT ![k] =
          IF /\ Allowed(Target(req, found).nick)
             /\ Target(req, found).conv # NoDialog /\ Target(req, found).to # Nobody
          THEN [stage |-> "sending", type |-> type, req |-> req, session |-> Target(req, found)]
          ELSE FreeCall]
  BY DEF Starts
<1> DEFINE target == Target(req, found)
           under == [stage |-> "sending", type |-> type, req |-> req, session |-> target]
<1>2. SessionFits(target, req)
  BY FoundFits, TargetFits
<1>3. ASSUME Allowed(target.nick), target.conv # NoDialog, target.to # Nobody
      PROVE  CallFits(under)
  <2>1. target \in Session /\ target.conv \in Dialogs /\ target.to \in Customers /\ target.nick \in Person
    BY <1>2, <1>3 DEF SessionFits, Session, Person
  <2>2. ASSUME onlyNick # Nobody PROVE Family[onlyNick] = Family[req.buyer]
    <3>1. /\ onlyNick \in Customers /\ target.nick \in Customers
          /\ buyerNickMatches(onlyNick, target.nick)
      BY <1>3, <2>1, <2>2 DEF Allowed, BridgeInv, BridgeTypeOK, Person
    <3>2. target.nick # Nobody
      BY <3>1, DialogsTyped
    <3> QED
      BY <3>1, <3>2, <1>2, PartOfFamily DEF SessionFits, OfFamily
  <2> HIDE DEF target
  <2> QED
    BY <1>2, <2>1, <2>2 DEF CallFits, CallRecords
<1>4. CASE Allowed(target.nick) /\ target.conv # NoDialog /\ target.to # Nobody
  <2>1. call' = [call EXCEPT ![k] = under]
    BY <1>1, <1>4
  <2> HIDE DEF under, target
  <2> QED
    BY <1>3, <1>4, <2>1, CallsStayFit
<1>5. CASE ~(Allowed(target.nick) /\ target.conv # NoDialog /\ target.to # Nobody)
  <2>1. call' = [call EXCEPT ![k] = FreeCall]
    BY <1>1, <1>5
  <2> QED
    BY <2>1, FreeCallFits, CallsStayFit
<1> QED
  BY <1>4, <1>5

\* The invariant from its parts, for a step that leaves alone what it is not about.
LEMMA PartsAreAll ==
  ASSUME BridgeInv,
         context' \in Contexts, ContextFits(context'), recorder' \in SUBSET Contexts,
         \A copy \in recorder' : ContextFits(copy),
         receivers' \in [Dialogs -> Person], ReceiversFit(receivers'),
         holds' \in [Customers -> SUBSET [conv : Dialogs \cup {NoDialog}, to : Person]], HoldsFit',
         call' \in [Callers -> CallRecords], CallsFit', BridgedToMeant',
         onlyNick' = onlyNick, requested' \in Nat, reads' \in Nat
  PROVE  BridgeInv'
BY DEF BridgeInv, BridgeTypeOK, ContextFits, ReceiversFit, CallRecords

LEMMA HoldsStay == BridgeInv /\ holds' = holds => HoldsFit'
BY DEF BridgeInv, HoldsFit

LEMMA CallsStay ==
  ASSUME BridgeInv, call' = call, onlyNick' = onlyNick
  PROVE  call' \in [Callers -> CallRecords] /\ CallsFit' /\ BridgedToMeant'
BY DEF BridgeInv, BridgeTypeOK, CallRecords, CallsFit, BridgedToMeant

LEMMA NowFit ==
  ASSUME BridgeInv
  PROVE  /\ context \in Contexts /\ ContextFits(context)
         /\ recorder \in SUBSET Contexts /\ \A copy \in recorder : ContextFits(copy)
         /\ receivers \in [Dialogs -> Person] /\ ReceiversFit(receivers)
         /\ holds \in [Customers -> SUBSET [conv : Dialogs \cup {NoDialog}, to : Person]]
         /\ requested \in Nat /\ reads \in Nat
BY DEF BridgeInv, BridgeTypeOK

LEMMA RecorderReadsKeeps == BridgeInv /\ RecorderReads => BridgeInv'
<1> SUFFICES ASSUME BridgeInv, RecorderReads PROVE BridgeInv'
  OBVIOUS
<1>1. PICK copy \in {context, NoContext} : recorder' = {copy}
  BY DEF RecorderReads
<1>2. recorder' \in SUBSET Contexts /\ \A c \in recorder' : ContextFits(c)
  BY <1>1, NowFit, EmptyFilesFit
<1>3. reads' \in Nat /\ UNCHANGED <<context, receivers, holds, call, onlyNick, requested>>
  BY NowFit DEF RecorderReads
<1> QED
  BY <1>2, <1>3, NowFit, HoldsStay, CallsStay, PartsAreAll

\* A row that fits its conversation, in a file that fits.
LEMMA RowWritten ==
  ASSUME NEW ctx \in Contexts, ContextFits(ctx), NEW c \in Dialogs, NEW nick \in Person, NEW to \in Person,
         OfFamily(nick, DialogBuyer[c]), OfFamily(to, DialogBuyer[c])
  PROVE  /\ [ctx EXCEPT ![c] = Row(nick, to)] \in Contexts
         /\ ContextFits([ctx EXCEPT ![c] = Row(nick, to)])
<1> DEFINE new == [ctx EXCEPT ![c] = Row(nick, to)]
<1>1. new \in Contexts
  BY DEF Contexts, Row
<1>2. new[c] = Row(nick, to) /\ \A d \in Dialogs \ {c} : new[d] = ctx[d]
  BY DEF Contexts
<1>3. Row(nick, to).nick = nick /\ Row(nick, to).to = to
  BY DEF Row
<1> HIDE DEF new
<1>4. ContextFits(new)
  BY <1>2, <1>3 DEF ContextFits
<1> QED
  BY <1>1, <1>4 DEF new

LEMMA ReceiverWritten ==
  ASSUME NEW map \in [Dialogs -> Person], ReceiversFit(map), NEW c \in Dialogs, NEW to \in Person,
         OfFamily(to, DialogBuyer[c])
  PROVE  [map EXCEPT ![c] = to] \in [Dialogs -> Person] /\ ReceiversFit([map EXCEPT ![c] = to])
BY DEF ReceiversFit

LEMMA SaveSessionContextKeeps ==
  ASSUME BridgeInv, NEW c \in Dialogs, NEW met \in BOOLEAN, NEW nick \in {DialogBuyer[c], Nobody},
         saveSessionContext(c, nick, met)
  PROVE  BridgeInv'
<1> DEFINE to == IF met THEN DialogBuyer[c] ELSE Nobody
<1>1. /\ nick \in Person /\ OfFamily(nick, DialogBuyer[c])
      /\ to \in Person /\ OfFamily(to, DialogBuyer[c])
  BY DialogsTyped DEF Person, OfFamily
<1>2. PICK copy \in recorder : context' = [copy EXCEPT ![c] = Row(nick, to)]
  BY DEF saveSessionContext
<1>3. copy \in Contexts /\ ContextFits(copy)
  BY NowFit
<1>4. /\ recorder' = {} /\ UNCHANGED <<holds, call, onlyNick, requested, reads>>
      /\ IF met THEN \E file \in {receivers, NoReceivers} : receivers' = [file EXCEPT ![c] = to]
                  ELSE UNCHANGED receivers
  BY DEF saveSessionContext
<1> HIDE DEF to
<1>5. context' \in Contexts /\ ContextFits(context')
  BY <1>1, <1>2, <1>3, RowWritten
<1>6. receivers' \in [Dialogs -> Person] /\ ReceiversFit(receivers')
  <2>1. CASE met
    <3>1. PICK file \in {receivers, NoReceivers} : receivers' = [file EXCEPT ![c] = to]
      BY <1>4, <2>1
    <3>2. file \in [Dialogs -> Person] /\ ReceiversFit(file)
      BY NowFit, EmptyFilesFit
    <3> QED
      BY <1>1, <3>1, <3>2, ReceiverWritten
  <2>2. CASE ~met
    BY <1>4, <2>2, NowFit
  <2> QED
    BY <2>1, <2>2
<1>7. /\ recorder' \in SUBSET Contexts /\ \A d \in recorder' : ContextFits(d)
  BY <1>4
<1>8. requested' \in Nat /\ reads' \in Nat
  BY <1>4, NowFit
<1> QED
  BY <1>4, <1>5, <1>6, <1>7, <1>8, NowFit, HoldsStay, CallsStay, PartsAreAll

LEMMA OpenSessionKeeps ==
  ASSUME BridgeInv, NEW req \in Request, RequestFits(req), OpenSession(req)
  PROVE  BridgeInv'
<1>1. PICK found \in Found(req) :
        holds' = [holds EXCEPT ![req.buyer] = @ \cup {[conv |-> found.conv, to |-> found.to]}]
  BY DEF OpenSession
<1>2. SessionFits(found, req) /\ req.buyer \in Customers
  BY FoundFits DEF Request
<1>3. [conv |-> found.conv, to |-> found.to] \in [conv : Dialogs \cup {NoDialog}, to : Person]
  BY <1>2 DEF SessionFits, Session
<1>4. holds' \in [Customers -> SUBSET [conv : Dialogs \cup {NoDialog}, to : Person]]
  BY <1>1, <1>2, <1>3, NowFit
<1>5. HoldsFit'
  <2> SUFFICES ASSUME NEW b \in Customers, NEW h \in holds'[b]
               PROVE  ConvOf(h.conv, b) /\ OfFamily(h.to, b)
    BY DEF HoldsFit
  <2>1. CASE h \in holds[b]
    BY <2>1 DEF BridgeInv, HoldsFit
  <2>2. CASE b = req.buyer /\ h = [conv |-> found.conv, to |-> found.to]
    BY <2>2, <1>2 DEF SessionFits
  <2> QED
    BY <1>1, <1>2, <2>1, <2>2, NowFit
<1>6. /\ UNCHANGED <<context, receivers, recorder, call, onlyNick, reads>> /\ requested' \in Nat
  BY NowFit DEF OpenSession, Counted
<1> QED
  BY <1>4, <1>5, <1>6, NowFit, CallsStay, PartsAreAll

LEMMA BridgeSendKeeps ==
  ASSUME BridgeInv, NEW req \in Request, RequestFits(req), NEW k \in Callers,
         NEW type \in {"alone", "preface"}, BridgeSend(k, type, req)
  PROVE  BridgeInv'
<1>1. /\ Starts(k, type, req) /\ UNCHANGED <<context, receivers, recorder, holds, onlyNick, reads>>
      /\ requested' \in Nat
  BY NowFit DEF BridgeSend, Counted
<1>2. call' \in [Callers -> CallRecords] /\ CallsFit' /\ BridgedToMeant'
  BY <1>1, StartsFits
<1> QED
  BY <1>1, <1>2, NowFit, HoldsStay, PartsAreAll

LEMMA AfterPartFits ==
  ASSUME BridgeInv, onlyNick' = onlyNick, NEW k \in Callers, call[k].stage = "sending", AfterPart(k)
  PROVE  call' \in [Callers -> CallRecords] /\ CallsFit' /\ BridgedToMeant'
<1> DEFINE c == call[k]
           c2 == IF c.type = "preface" THEN [c EXCEPT !.stage = "image"] ELSE FreeCall
<1>1. CallFits(c)
  BY EachCallFits
<1>2. CallFits(c2)
  <2>1. CASE c.type = "preface"
    BY <1>1, <2>1 DEF CallFits, CallRecords
  <2>2. CASE c.type # "preface"
    BY <2>2, FreeCallFits
  <2> QED
    BY <2>1, <2>2
<1>3. call' = [call EXCEPT ![k] = c2]
  BY DEF AfterPart
<1> HIDE DEF c2
<1> QED
  BY <1>2, <1>3, CallsStayFit

LEMMA SendTakenKeeps ==
  ASSUME BridgeInv, NEW k \in Callers, SendTaken(k)
  PROVE  BridgeInv'
<1> DEFINE session == call[k].session
<1>1. /\ call[k].stage = "sending" /\ AfterPart(k) /\ persistSession(session)
      /\ UNCHANGED <<recorder, holds, onlyNick, requested, reads>>
  BY DEF SendTaken
<1>2. CallFits(call[k])
  BY EachCallFits
<1>3. /\ session.conv \in Dialogs /\ session.nick \in Person /\ session.to \in Person
      /\ OfFamily(session.nick, DialogBuyer[session.conv]) /\ OfFamily(session.to, DialogBuyer[session.conv])
  BY <1>1, <1>2, DialogsTyped DEF CallFits, SessionFits, Session, ConvOf, OfFamily
<1> HIDE DEF session
<1>4. context' \in Contexts /\ ContextFits(context')
  <2>1. PICK file \in {context, NoContext} :
          context' = [file EXCEPT ![session.conv] = Row(session.nick, session.to)]
    BY <1>1 DEF persistSession
  <2>2. file \in Contexts /\ ContextFits(file)
    BY NowFit, EmptyFilesFit
  <2> QED
    BY <1>3, <2>1, <2>2, RowWritten
<1>5. receivers' \in [Dialogs -> Person] /\ ReceiversFit(receivers')
  <2>1. PICK file \in {receivers, NoReceivers} : receivers' = [file EXCEPT ![session.conv] = session.to]
    BY <1>1 DEF persistSession
  <2>2. file \in [Dialogs -> Person] /\ ReceiversFit(file)
    BY NowFit, EmptyFilesFit
  <2> QED
    BY <1>3, <2>1, <2>2, ReceiverWritten
<1>6. call' \in [Callers -> CallRecords] /\ CallsFit' /\ BridgedToMeant'
  BY <1>1, AfterPartFits
<1> QED
  BY <1>1, <1>4, <1>5, <1>6, NowFit, HoldsStay, PartsAreAll

LEMMA CallStepsKeep ==
  ASSUME BridgeInv, NEW k \in Callers, NotTaken(k) \/ SendThrows(k) \/ ImageFollows(k)
  PROVE  BridgeInv'
<1>1. UNCHANGED <<context, receivers, recorder, holds, onlyNick, requested, reads>>
  BY DEF NotTaken, SendThrows, ImageFollows
<1>2. call' \in [Callers -> CallRecords] /\ CallsFit' /\ BridgedToMeant'
  <2>1. CASE NotTaken(k)
    BY <2>1, <1>1, AfterPartFits DEF NotTaken
  <2>2. CASE SendThrows(k)
    BY <2>2, <1>1, FreeCallFits, CallsStayFit DEF SendThrows
  <2>3. CASE ImageFollows(k)
    <3>1. call[k].stage = "image" /\ Starts(k, "alone", call[k].req)
      BY <2>3 DEF ImageFollows
    <3>2. call[k].req \in Request /\ RequestFits(call[k].req)
      BY <3>1, EachCallFits DEF CallFits, CallRecords
    <3> QED
      BY <1>1, <3>1, <3>2, StartsFits
  <2> QED
    BY <2>1, <2>2, <2>3
<1> QED
  BY <1>1, <1>2, NowFit, HoldsStay, PartsAreAll

LEMMA BridgeInitially == BridgeInit => BridgeInv
<1> SUFFICES ASSUME BridgeInit PROVE BridgeInv
  OBVIOUS
<1>1. /\ context \in Contexts /\ ContextFits(context) /\ recorder = {}
      /\ receivers \in [Dialogs -> Person] /\ ReceiversFit(receivers)
  BY EmptyFilesFit DEF BridgeInit
<1>2. holds \in [Customers -> SUBSET [conv : Dialogs \cup {NoDialog}, to : Person]] /\ HoldsFit
  BY DEF BridgeInit, HoldsFit
<1>3. call \in [Callers -> CallRecords] /\ \A k \in Callers : call[k].stage = "free"
  BY FreeCallFits DEF BridgeInit, CallFits, FreeCall
<1>4. CallsFit /\ BridgedToMeant
  BY <1>3 DEF CallsFit, BridgedToMeant
<1>5. onlyNick \in Person /\ requested \in Nat /\ reads \in Nat
  BY BridgeAssumption DEF BridgeInit, Person
<1> QED
  BY <1>1, <1>2, <1>3, <1>4, <1>5 DEF BridgeInv, BridgeTypeOK, CallRecords

LEMMA BridgeStep ==
  ASSUME BridgeInv, [BridgeNext]_bridgeVars
  PROVE  BridgeInv'
<1>1. ASSUME UNCHANGED bridgeVars PROVE BridgeInv'
  <2>1. UNCHANGED <<context, receivers, recorder, holds, call, onlyNick, requested, reads>>
    BY <1>1 DEF bridgeVars
  <2> QED
    BY <2>1, NowFit, HoldsStay, CallsStay, PartsAreAll
<1>2. ASSUME RecorderReads PROVE BridgeInv'
  BY <1>2, RecorderReadsKeeps
<1>3. ASSUME NEW c \in Dialogs, NEW met \in BOOLEAN, NEW nick \in {DialogBuyer[c], Nobody},
             saveSessionContext(c, nick, met)
      PROVE  BridgeInv'
  BY <1>3, SaveSessionContextKeeps
<1>4. ASSUME NEW b \in Customers, NEW s \in BridgeShops, NEW uid \in BOOLEAN, NEW nick \in BOOLEAN,
             NEW met \in Known(b, s), OpenSession(RequestOf(b, s, uid, nick, met))
      PROVE  BridgeInv'
  BY <1>4, AskedFits, OpenSessionKeeps
<1>5. ASSUME NEW b \in Customers, NEW s \in BridgeShops, NEW uid \in BOOLEAN, NEW nick \in BOOLEAN,
             NEW met \in Known(b, s), NEW k \in Callers, NEW type \in {"alone", "preface"},
             BridgeSend(k, type, RequestOf(b, s, uid, nick, met))
      PROVE  BridgeInv'
  BY <1>5, AskedFits, BridgeSendKeeps
<1>6. ASSUME NEW k \in Callers, SendTaken(k) \/ NotTaken(k) \/ SendThrows(k) \/ ImageFollows(k)
      PROVE  BridgeInv'
  BY <1>6, SendTakenKeeps, CallStepsKeep
<1> QED
  BY <1>1, <1>2, <1>3, <1>4, <1>5, <1>6 DEF BridgeNext

LEMMA BridgeSound == BridgeInv => BridgeTypeOK /\ BridgedToMeant
BY DEF BridgeInv

(* The variables keep to their ranges: what the files, the order system and the bridge keep. *)
THEOREM BridgeTyping == BridgeSpec => []BridgeTypeOK
BY BridgeInitially, BridgeStep, BridgeSound, PTL DEF BridgeSpec

(***************************************************************************)
(* What is sent goes to the family of names of the buyer that is meant,    *)
(* and to him if the configuration allows only one: nothing that is ever   *)
(* written to the two files, or told to the order system and sent back by  *)
(* it, says of a conversation what is not so of its buyer's family.        *)
(***************************************************************************)
THEOREM BridgeSendsToMeant == BridgeSpec => []BridgedToMeant
BY BridgeInitially, BridgeStep, BridgeSound, PTL DEF BridgeSpec

-------------------------------------------------------------------------------
(***************************************************************************)
(* The configuration the bridge is given (ProtocolConfig)                  *)
(***************************************************************************)
SameBrand(s, p) == p # NoStore => Brand[p] = Brand[s]
TalkIsBrands(s, t) == t # NoTalk => SameBrand(s, StoreOf[t])

SomeTalk == Talks \cup {NoTalk}
SomeStore == Stores \cup {NoStore}
Seen == [open : BOOLEAN, list : SomeTalk, last : SomeTalk, over : Url, ways : SUBSET Ways,
         maps : SomeStore, sent : SUBSET Talks, asked : SomeTalk]

\* What is held of a page was seen in pages of its brand.
SeenOfBrand(s, b) ==
  /\ TalkIsBrands(s, b.list) /\ TalkIsBrands(s, b.last) /\ TalkIsBrands(s, b.asked)
  /\ \A t \in b.sent : TalkIsBrands(s, t)
  /\ SameBrand(s, b.over.shop) /\ SameBrand(s, b.maps)
  /\ b.open <=> b.maps # NoStore

\* A row of the tap about a conversation is of the page of its shop.
RowFits(r) == r \in TapRow /\ (r.kind \in {"list", "send"} => r.talk \in Talks /\ StoreOf[r.talk] = r.shop)

FitsShop(s, c) ==
  /\ c \in ShopConfig
  /\ TalkIsBrands(s, c.sample) /\ TalkIsBrands(s, c.cid) /\ TalkIsBrands(s, c.to)
  /\ SameBrand(s, c.url.shop) /\ SameBrand(s, c.send.shop) /\ SameBrand(s, c.push.shop)
  /\ SameBrand(s, c.tpl) /\ SameBrand(s, c.shake)
  /\ tapOn \/ (SameBrand(s, c.auth) /\ TalkIsBrands(s, c.list))

SeenFits == seen \in [Stores -> Seen] /\ \A s \in Stores : SeenOfBrand(s, seen[s])
TapFits ==
  /\ tapOn \in BOOLEAN /\ tap \in Seq(TapRow) \X Seq(TapRow)
  /\ \A i \in 1..Len(tap[1]) : RowFits(tap[1][i])
  /\ \A i \in 1..Len(tap[2]) : RowFits(tap[2][i])
  /\ ~tapOn => tap[1] = <<>> /\ tap[2] = <<>>
RowsFit ==
  /\ localRow \in [Stores -> ShopConfig \cup {NoConfig}]
  /\ \A s \in Stores : localRow[s] = NoConfig \/ FitsShop(s, localRow[s])
UseFits == used = NoUse \/ \E s \in Stores : \E c \in ShopConfig : used = <<s, c>> /\ FitsShop(s, c)
CountsFit == captured \in 0..MaxCaptured /\ exported \in 0..MaxExports

SetupInv == SeenFits /\ TapFits /\ RowsFit /\ UseFits /\ CountsFit

LEMMA AkinSame ==
  ASSUME NEW s \in Stores, NEW p, <<p, s>> \in Akin \/ <<s, p>> \in Akin
  PROVE  p \in Stores /\ Brand[p] = Brand[s]
<1>1. p \in Stores
  BY SetupAssumption
<1>2. \A a \in Akin : Brand[a[1]] = Brand[a[2]]
  BY SetupAssumption
<1>3. Brand[p] = Brand[s] \/ Brand[s] = Brand[p]
  BY <1>2
<1> QED
  BY <1>1, <1>3

LEMMA LastLinesFit ==
  ASSUME NEW lines \in Seq(TapRow), \A i \in 1..Len(lines) : RowFits(lines[i])
  PROVE  /\ LastLines(lines) \in Seq(TapRow)
         /\ \A i \in 1..Len(LastLines(lines)) : RowFits(LastLines(lines)[i])
<1> DEFINE first == IF Len(lines) > Lines THEN Len(lines) - Lines + 1 ELSE 1
           part == SubSeq(lines, first, Len(lines))
<1>1. Lines \in Nat \ {0} /\ Len(lines) \in Nat
  BY SetupAssumption
<1>2. first \in 1..(Len(lines) + 1)
  BY <1>1
<1> HIDE DEF first
<1>3. part \in Seq(TapRow) /\ Len(part) = Len(lines) - first + 1
      /\ \A i \in 1..(Len(lines) - first + 1) : part[i] = lines[first + i - 1]
  BY <1>1, <1>2, SubSeqProperties
<1>4. \A i \in 1..Len(part) : first + i - 1 \in 1..Len(lines)
  BY <1>1, <1>2, <1>3
<1> QED
  BY <1>3, <1>4 DEF LastLines, first

LEMMA TapRowsFit ==
  ASSUME TapFits
  PROVE  /\ readTapRows \in Seq(TapRow) /\ DOMAIN readTapRows = 1..Len(readTapRows)
         /\ \A i \in DOMAIN readTapRows : RowFits(readTapRows[i])
         /\ ~tapOn => DOMAIN readTapRows = {}
<1> DEFINE a == LastLines(tap[1])
           b == LastLines(tap[2])
<1>1. /\ a \in Seq(TapRow) /\ \A i \in 1..Len(a) : RowFits(a[i])
      /\ b \in Seq(TapRow) /\ \A i \in 1..Len(b) : RowFits(b[i])
  BY LastLinesFit DEF TapFits
<1>2. ~tapOn => a = <<>> /\ b = <<>>
  <2>1. Lines \in Nat
    BY SetupAssumption
  <2>2. LastLines(<<>>) = <<>>
    BY <2>1 DEF LastLines
  <2> QED
    BY <2>2 DEF TapFits
<1> HIDE DEF a, b
<1>3. /\ a \o b \in Seq(TapRow) /\ Len(a \o b) = Len(a) + Len(b)
      /\ \A i \in 1..(Len(a) + Len(b)) : (a \o b)[i] = IF i <= Len(a) THEN a[i] ELSE b[i - Len(a)]
  BY <1>1, ConcatProperties
<1>4. \A i \in 1..Len(a \o b) : RowFits((a \o b)[i])
  <2> TAKE i \in 1..Len(a \o b)
  <2>1. Len(a) \in Nat /\ Len(b) \in Nat
    BY <1>1
  <2>2. i <= Len(a) => i \in 1..Len(a)
    BY <2>1
  <2>3. ~(i <= Len(a)) => i - Len(a) \in 1..Len(b)
    BY <2>1, <1>3
  <2> QED
    BY <1>1, <1>3, <2>2, <2>3
<1>5. readTapRows = a \o b
  BY DEF readTapRows, a, b
<1> QED
  BY <1>2, <1>3, <1>4, <1>5

\* What is taken from some rows of the tap is one of them.
LEMMA RowTaken ==
  ASSUME TapFits, NEW at \in SUBSET DOMAIN readTapRows, at # {}
  PROVE  /\ \E i \in at : FirstOf(at) = readTapRows[i] /\ RowFits(readTapRows[i])
         /\ \E i \in at : LastOf(at) = readTapRows[i] /\ RowFits(readTapRows[i])
<1>1. PICK n \in Nat : DOMAIN readTapRows = 1..n
  <2>1. readTapRows \in Seq(TapRow) /\ DOMAIN readTapRows = 1..Len(readTapRows)
    BY TapRowsFit
  <2>2. Len(readTapRows) \in Nat
    BY <2>1
  <2> QED
    BY <2>1, <2>2
<1>2. (CHOOSE i \in at : \A j \in at : i <= j) \in at
  BY <1>1, LeastOf
<1>3. (CHOOSE i \in at : \A j \in at : j <= i) \in at
  BY <1>1, GreatestOf
<1> QED
  BY <1>2, <1>3, TapRowsFit DEF FirstOf, LastOf

LEMMA OwnRowsFit ==
  ASSUME TapFits, NEW s \in Stores, NEW kind, NEW i \in OwnRows(s, kind)
  PROVE  /\ i \in DOMAIN readTapRows /\ RowFits(readTapRows[i]) /\ readTapRows[i].kind = kind
         /\ readTapRows[i].shop \in Stores /\ SameBrand(s, readTapRows[i].shop)
<1>1. /\ i \in DOMAIN readTapRows /\ RowFits(readTapRows[i]) /\ readTapRows[i].kind = kind
      /\ <<readTapRows[i].shop, s>> \in Akin
  BY TapRowsFit DEF OwnRows, RowsOf, shopTitleMatches
<1> QED
  BY <1>1, AkinSame DEF SameBrand


UrlFits(s, u) == u \in Url /\ SameBrand(s, u.shop)

LEMMA NoUrlFits == \A s \in Stores : UrlFits(s, NoUrl)
BY DEF UrlFits, NoUrl, Url, SameBrand

LEMMA MadeUrlFits ==
  ASSUME NEW s \in Stores, NEW p \in Stores, SameBrand(s, p), NEW w \in Ways
  PROVE  UrlFits(s, [shop |-> p, way |-> w])
BY DEF UrlFits, Url

LEMMA UrlOfFits ==
  ASSUME NEW s \in Stores, NEW r, r.shop \in Stores, SameBrand(s, r.shop)
  PROVE  UrlFits(s, UrlOf(r))
<1>1. CASE r.way \in Ways
  BY <1>1, MadeUrlFits DEF UrlOf
<1>2. CASE r.way \notin Ways
  BY <1>2, NoUrlFits DEF UrlOf
<1> QED
  BY <1>1, <1>2

LEMMA NoRowUrl == UrlOf(NoRow) = NoUrl
BY DEF UrlOf, NoRow, Ways

\* The row of a shop that is taken from some places is of a page of its brand.
LEMMA OwnTaken ==
  ASSUME TapFits, NEW s \in Stores, NEW kind, NEW at, at \subseteq OwnRows(s, kind), at # {},
         NEW r \in {FirstOf(at), LastOf(at)}
  PROVE  RowFits(r) /\ r.kind = kind /\ r.shop \in Stores /\ SameBrand(s, r.shop)
<1>1. \A i \in at : /\ i \in DOMAIN readTapRows /\ readTapRows[i].kind = kind
                    /\ readTapRows[i].shop \in Stores /\ SameBrand(s, readTapRows[i].shop)
  BY OwnRowsFit
<1>2. at \in SUBSET DOMAIN readTapRows
  BY <1>1
<1>3. \E i \in at : r = readTapRows[i] /\ RowFits(readTapRows[i])
  BY <1>2, RowTaken
<1> QED
  BY <1>1, <1>3

LEMMA TakenUrlFits ==
  ASSUME TapFits, NEW s \in Stores, NEW kind, NEW at, at \subseteq OwnRows(s, kind)
  PROVE  UrlFits(s, UrlOf(FirstOf(at))) /\ UrlFits(s, UrlOf(LastOf(at)))
<1>1. CASE at = {}
  BY <1>1, NoRowUrl, NoUrlFits DEF FirstOf, LastOf
<1>2. CASE at # {}
  <2>1. ASSUME NEW r \in {FirstOf(at), LastOf(at)} PROVE UrlFits(s, UrlOf(r))
    BY <1>2, OwnTaken, UrlOfFits
  <2> QED
    BY <2>1
<1> QED
  BY <1>1, <1>2

LEMMA TapUrlsFit ==
  ASSUME TapFits, NEW s \in Stores
  PROVE  /\ UrlFits(s, pickImpaasSendWsUrlFromTap(s))
         /\ UrlFits(s, pickApppushSendWsUrlFromTap(s))
         /\ UrlFits(s, pickApppushWsUrlFromTap(s))
<1>1. \A kind, w : WithWay(OwnRows(s, kind), w) \subseteq OwnRows(s, kind)
  BY DEF WithWay
<1>2. UrlFits(s, pickImpaasSendWsUrlFromTap(s))
  <2>1. CASE WithWay(OwnRows(s, "send"), "impaas") # {}
    BY <1>1, <2>1, TakenUrlFits DEF pickImpaasSendWsUrlFromTap, Either
  <2>2. CASE WithWay(OwnRows(s, "send"), "impaas") = {}
    BY <1>1, <2>2, TakenUrlFits DEF pickImpaasSendWsUrlFromTap, Either
  <2> QED
    BY <2>1, <2>2
<1> QED
  BY <1>1, <1>2, TakenUrlFits DEF pickApppushSendWsUrlFromTap, pickApppushWsUrlFromTap

LEMMA SampleRow ==
  ASSUME TapFits, NEW s \in Stores, OwnRows(s, "send") # {}
  PROVE  LET r == pickLatestTextSendSample(s)
         IN /\ r.talk \in Talks /\ SameBrand(s, StoreOf[r.talk])
            /\ r.shop \in Stores /\ SameBrand(s, r.shop)
<1> DEFINE own == OwnRows(s, "send")
           at == Either(WithTalk(own, Tests), own)
<1>1. at \subseteq own /\ at # {}
  BY DEF Either, WithTalk
<1>2. pickLatestTextSendSample(s) = LastOf(at)
  BY DEF pickLatestTextSendSample
<1> HIDE DEF at
<1>3. RowFits(LastOf(at)) /\ LastOf(at).kind = "send" /\ LastOf(at).shop \in Stores
      /\ SameBrand(s, LastOf(at).shop)
  BY <1>1, OwnTaken
<1> QED
  BY <1>2, <1>3 DEF RowFits

\* An address is taken if there is one, or else another.
LEMMA OrElseFits ==
  ASSUME NEW s \in Stores, NEW u, NEW v, UrlFits(s, u), UrlFits(s, v)
  PROVE  UrlFits(s, OrElse(u, v))
BY DEF OrElse

LEMMA OnlyFits ==
  ASSUME NEW s \in Stores, NEW u, UrlFits(s, u), NEW w
  PROVE  UrlFits(s, Only(w, u))
BY NoUrlFits DEF Only

LEMMA EndpointsFit ==
  ASSUME TapFits, NEW s \in Stores, NEW c, FitsShop(s, c)
  PROVE  LET found == resolveProtocolWsEndpoints(c, s)
         IN UrlFits(s, found.send) /\ UrlFits(s, found.push)
<1>1. UrlFits(s, c.send) /\ UrlFits(s, c.url) /\ UrlFits(s, c.push)
  BY DEF FitsShop, ShopConfig, UrlFits
<1> DEFINE e == OrElse(c.send, pickApppushSendWsUrlFromTap(s))
           d == OrElse(pickImpaasSendWsUrlFromTap(s), e)
           b == OrElse(Only("impaas", c.url), d)
           y == OrElse(pickApppushSendWsUrlFromTap(s), pickApppushWsUrlFromTap(s))
           x == OrElse(Only("apppush", c.url), y)
<1>2. UrlFits(s, e)
  BY <1>1, TapUrlsFit, OrElseFits
<1>3. UrlFits(s, y)
  BY TapUrlsFit, OrElseFits
<1>4. UrlFits(s, Only("impaas", c.url)) /\ UrlFits(s, Only("impaas", c.send))
      /\ UrlFits(s, Only("apppush", c.url))
  BY <1>1, OnlyFits
<1> HIDE DEF e, y
<1>5. UrlFits(s, d) /\ UrlFits(s, x)
  BY <1>2, <1>3, <1>4, TapUrlsFit, OrElseFits
<1> HIDE DEF d, x
<1>6. UrlFits(s, b)
  BY <1>4, <1>5, OrElseFits
<1> HIDE DEF b
<1>7. UrlFits(s, OrElse(Only("impaas", c.send), b)) /\ UrlFits(s, OrElse(c.push, x))
  BY <1>1, <1>4, <1>5, <1>6, OrElseFits
<1> QED
  BY <1>7 DEF resolveProtocolWsEndpoints, b, d, e, x, y

LEMMA NoTalkFits == \A s : TalkIsBrands(s, NoTalk) /\ SameBrand(s, NoStore)
BY DEF TalkIsBrands, SameBrand

LEMMA TakeListFits ==
  ASSUME TapFits, NEW s \in Stores, NEW c, FitsShop(s, c)
  PROVE  FitsShop(s, TakeList(c, s))
<1>1. CASE RowsOf("list") = {}
  BY <1>1 DEF TakeList
<1>2. CASE RowsOf("list") # {}
  <2> DEFINE prefer == IF c.cid # NoTalk THEN c.cid ELSE pickLatestTextSendSample(s).talk
             at == Either(WithTalk(RowsOf("list"), {prefer}), RowsOf("list"))
             row == pickLatestMessageListRequest(prefer)
             q == [c EXCEPT !.list = row.talk, !.auth = row.shop]
  <2>1. at \in SUBSET DOMAIN readTapRows /\ at # {} /\ at \subseteq RowsOf("list")
    BY <1>2 DEF Either, WithTalk, RowsOf
  <2>2. \E i \in at : row = readTapRows[i] /\ RowFits(readTapRows[i])
    BY <2>1, RowTaken DEF pickLatestMessageListRequest
  <2>3. row.talk \in SomeTalk /\ row.shop \in SomeStore
    BY <2>2 DEF RowFits, TapRow, SomeTalk, SomeStore
  <2>4. tapOn
    BY <1>2, TapRowsFit DEF RowsOf, TapFits
  <2>5. TakeList(c, s) = q
    BY <1>2 DEF TakeList
  <2> HIDE DEF row
  <2>6. /\ q \in ShopConfig
        /\ q.sample = c.sample /\ q.cid = c.cid /\ q.to = c.to /\ q.url = c.url
        /\ q.send = c.send /\ q.push = c.push /\ q.tpl = c.tpl /\ q.shake = c.shake
    BY <2>3 DEF FitsShop, ShopConfig, SomeTalk, SomeStore
  <2> HIDE DEF q
  <2> QED
    BY <2>4, <2>5, <2>6 DEF FitsShop
<1> QED
  BY <1>1, <1>2

LEMMA TakeSampleFits ==
  ASSUME TapFits, NEW s \in Stores, NEW c, FitsShop(s, c)
  PROVE  FitsShop(s, TakeSample(c, s))
<1>1. CASE OwnRows(s, "send") = {}
  BY <1>1 DEF TakeSample
<1>2. CASE OwnRows(s, "send") # {}
  <2> DEFINE row == pickLatestTextSendSample(s)
             u == OrElse(UrlOf(row), c.send)
             q == [c EXCEPT !.sample = row.talk, !.cid = row.talk, !.to = row.talk, !.send = u]
  <2>1. /\ row.talk \in Talks /\ SameBrand(s, StoreOf[row.talk])
        /\ row.shop \in Stores /\ SameBrand(s, row.shop)
    BY <1>2, SampleRow
  <2>2. UrlFits(s, u)
    <3>1. UrlFits(s, c.send)
      BY DEF FitsShop, ShopConfig, UrlFits
    <3>2. UrlFits(s, UrlOf(row))
      BY <2>1, UrlOfFits
    <3> QED
      BY <3>1, <3>2, OrElseFits
  <2>3. TakeSample(c, s) = q
    BY <1>2 DEF TakeSample
  <2> HIDE DEF row, u
  <2>4. /\ q \in ShopConfig
        /\ q.sample = row.talk /\ q.cid = row.talk /\ q.to = row.talk /\ q.url = c.url
        /\ q.send = u /\ q.push = c.push /\ q.tpl = c.tpl /\ q.shake = c.shake
        /\ q.auth = c.auth /\ q.list = c.list
    BY <2>1, <2>2 DEF FitsShop, ShopConfig, UrlFits
  <2> HIDE DEF q
  <2> QED
    BY <2>1, <2>2, <2>3, <2>4 DEF FitsShop, UrlFits, TalkIsBrands
<1> QED
  BY <1>1, <1>2

LEMMA TakeEndpointsFits ==
  ASSUME TapFits, NEW s \in Stores, NEW c, FitsShop(s, c)
  PROVE  FitsShop(s, TakeEndpoints(c, s))
<1> DEFINE found == resolveProtocolWsEndpoints(c, s)
           snd == found.send
           psh == found.push
           listen == OrElse(snd, psh)
           u == IF listen # NoUrl /\ c.url.way # "impaas" THEN listen ELSE c.url
           q == [c EXCEPT !.send = snd, !.push = psh, !.url = u]
<1>1. UrlFits(s, snd) /\ UrlFits(s, psh) /\ UrlFits(s, c.url)
  BY EndpointsFit DEF FitsShop, ShopConfig, UrlFits
<1>2. TakeEndpoints(c, s) = q
  BY DEF TakeEndpoints, FitsShop, ShopConfig
<1> HIDE DEF snd, psh
<1>3. UrlFits(s, u)
  BY <1>1, OrElseFits
<1> HIDE DEF u
<1>4. /\ q \in ShopConfig
      /\ q.sample = c.sample /\ q.cid = c.cid /\ q.to = c.to /\ q.url = u
      /\ q.send = snd /\ q.push = psh /\ q.tpl = c.tpl /\ q.shake = c.shake
      /\ q.auth = c.auth /\ q.list = c.list
  BY <1>1, <1>3 DEF FitsShop, ShopConfig, UrlFits
<1> HIDE DEF q
<1> QED
  BY <1>1, <1>2, <1>3, <1>4 DEF FitsShop, UrlFits

LEMMA TakeSignOnFits ==
  ASSUME TapFits, NEW s \in Stores, NEW c, FitsShop(s, c)
  PROVE  FitsShop(s, TakeSignOn(c, s))
<1> DEFINE auths == OwnRows(s, "auth")
           opens == OwnRows(s, "opens")
           t == IF auths = {} THEN c.tpl ELSE LastOf(auths).shop
           a == IF c.auth = NoStore THEN LastOf(auths).shop ELSE c.auth
           k == IF opens = {} THEN c.shake ELSE LastOf(opens).shop
           q == [c EXCEPT !.tpl = t, !.auth = a, !.shake = k]
<1>1. auths # {} => LastOf(auths).shop \in Stores /\ SameBrand(s, LastOf(auths).shop)
  BY OwnTaken
<1>2. opens # {} => LastOf(opens).shop \in Stores /\ SameBrand(s, LastOf(opens).shop)
  BY OwnTaken
<1>3. auths = {} => LastOf(auths).shop = NoStore
  BY DEF LastOf, NoRow
<1>4. /\ c.tpl \in SomeStore /\ c.auth \in SomeStore /\ c.shake \in SomeStore
      /\ SameBrand(s, c.tpl) /\ SameBrand(s, c.shake)
  BY DEF FitsShop, ShopConfig, SomeStore
<1>5. TakeSignOn(c, s) = q
  BY DEF TakeSignOn, FitsShop, ShopConfig
<1>6. t \in SomeStore /\ a \in SomeStore /\ k \in SomeStore /\ SameBrand(s, t) /\ SameBrand(s, k)
      /\ (SameBrand(s, c.auth) => SameBrand(s, a))
  BY <1>1, <1>2, <1>3, <1>4, NoTalkFits DEF SomeStore
<1> HIDE DEF t, a, k
<1>7. /\ q \in ShopConfig
      /\ q.sample = c.sample /\ q.cid = c.cid /\ q.to = c.to /\ q.url = c.url
      /\ q.send = c.send /\ q.push = c.push /\ q.tpl = t /\ q.shake = k
      /\ q.auth = a /\ q.list = c.list
  BY <1>6 DEF FitsShop, ShopConfig, SomeStore
<1> HIDE DEF q
<1> QED
  BY <1>5, <1>6, <1>7 DEF FitsShop

\* A configuration that is refreshed from the tap is the shop's still.
LEMMA RefreshedFits ==
  ASSUME TapFits, NEW s \in Stores, NEW c, FitsShop(s, c)
  PROVE  FitsShop(s, applyTapToShopConfig(c, s))
<1>1. FitsShop(s, TakeList(c, s))
  BY TakeListFits
<1>2. FitsShop(s, TakeSample(TakeList(c, s), s))
  BY <1>1, TakeSampleFits
<1>3. FitsShop(s, TakeEndpoints(TakeSample(TakeList(c, s), s), s))
  BY <1>2, TakeEndpointsFits
<1> QED
  BY <1>3, TakeSignOnFits DEF applyTapToShopConfig


LEMMA SamePasses ==
  ASSUME NEW s, NEW p, Brand[p] = Brand[s], NEW q, SameBrand(p, q)
  PROVE  SameBrand(s, q)
BY DEF SameBrand

LEMMA TalkPasses ==
  ASSUME NEW s, NEW p, Brand[p] = Brand[s], NEW t, TalkIsBrands(p, t)
  PROVE  TalkIsBrands(s, t)
BY DEF TalkIsBrands, SameBrand

\* The page that answers for a shop is of its brand.
LEMMA PageAnswers ==
  ASSUME SeenFits, NEW s \in Stores, NEW p \in loadLiveSnapshot(s)
  PROVE  p \in Stores /\ seen[p].open /\ Brand[p] = Brand[s]
<1>1. (p = s /\ seen[s].open) \/ (p \in Stores /\ seen[p].open /\ <<s, p>> \in Akin)
  BY DEF loadLiveSnapshot, findBridgeByShopTitle
<1> QED
  BY <1>1, AkinSame

LEMMA SnapshotFits ==
  ASSUME SeenFits, NEW p \in Stores, seen[p].open
  PROVE  LET b == buildQianfanProtocolSnapshot(p)
         IN /\ b.list \in SomeTalk /\ TalkIsBrands(p, b.list)
            /\ b.last \in SomeTalk /\ TalkIsBrands(p, b.last)
            /\ b.asked \in SomeTalk /\ TalkIsBrands(p, b.asked)
            /\ b.sent \in SUBSET Talks /\ \A t \in b.sent : TalkIsBrands(p, t)
<1> DEFINE m == seen[p].maps
           b == buildQianfanProtocolSnapshot(p)
<1>1. /\ seen[p] \in Seen /\ SeenOfBrand(p, seen[p]) /\ m \in Stores /\ Brand[m] = Brand[p]
  BY DEF SeenFits, SeenOfBrand, Seen, SomeStore, SameBrand
<1>2. seen[m] \in Seen /\ SeenOfBrand(m, seen[m])
  BY <1>1 DEF SeenFits
<1>3. /\ b.list = seen[p].list /\ b.last = seen[p].last
      /\ b.asked = seen[m].asked /\ b.sent = seen[m].sent
  BY <1>1 DEF buildQianfanProtocolSnapshot, Seen
<1> HIDE DEF b, m
<1>4. TalkIsBrands(m, seen[m].asked) /\ \A t \in seen[m].sent : TalkIsBrands(m, t)
  BY <1>2 DEF SeenOfBrand
<1>5. TalkIsBrands(p, seen[m].asked) /\ \A t \in seen[m].sent : TalkIsBrands(p, t)
  BY <1>1, <1>4, TalkPasses
<1>6. /\ seen[p].list \in SomeTalk /\ seen[p].last \in SomeTalk
      /\ seen[m].asked \in SomeTalk /\ seen[m].sent \in SUBSET Talks
      /\ TalkIsBrands(p, seen[p].list) /\ TalkIsBrands(p, seen[p].last)
  BY <1>1, <1>2 DEF Seen, SeenOfBrand
<1> QED
  BY <1>3, <1>5, <1>6 DEF b

LEMMA CidFits ==
  ASSUME SeenFits, NEW s \in Stores, NEW p \in loadLiveSnapshot(s), NEW cid \in pickAppCid(s, p)
  PROVE  cid \in SomeTalk /\ TalkIsBrands(p, cid)
<1> DEFINE pageSent == buildQianfanProtocolSnapshot(p).sent
<1>1. p \in Stores /\ seen[p].open /\ Brand[p] = Brand[s]
  BY PageAnswers
<1>2. pageSent \in SUBSET Talks /\ \A t \in pageSent : TalkIsBrands(p, t)
  BY <1>1, SnapshotFits
<1> HIDE DEF pageSent
<1>3. KnownTalks(s) \subseteq Talks /\ \A t \in KnownTalks(s) : TalkIsBrands(p, t)
  BY <1>1, SetupAssumption DEF KnownTalks, TalkIsBrands, SameBrand
<1>4. \A t \in Talks : StoreOf[t] = p => TalkIsBrands(p, t)
  BY DEF TalkIsBrands, SameBrand
<1>5. \/ cid \in pageSent \/ cid \in KnownTalks(s) \/ cid = NoTalk \/ (cid \in Talks /\ StoreOf[cid] = p)
  BY DEF pickAppCid, Either, pageSent
<1> QED
  BY <1>2, <1>3, <1>4, <1>5, NoTalkFits DEF SomeTalk

LEMMA SampleFits ==
  ASSUME SeenFits, NEW p \in Stores, seen[p].open, NEW cid, NEW t \in pickTextSendSample(p, cid)
  PROVE  t \in SomeTalk /\ TalkIsBrands(p, t)
<1> DEFINE b == buildQianfanProtocolSnapshot(p)
<1>1. /\ b.last \in SomeTalk /\ TalkIsBrands(p, b.last)
      /\ b.sent \in SUBSET Talks /\ \A x \in b.sent : TalkIsBrands(p, x)
  BY SnapshotFits
<1> HIDE DEF b
<1>2. t \in b.sent \/ t = b.last \/ t = NoTalk
  BY DEF pickTextSendSample, Either, b
<1> QED
  BY <1>1, <1>2, NoTalkFits DEF SomeTalk

LEMMA CandidateFits ==
  ASSUME SeenFits, NEW p \in Stores, NEW u \in pickWsCandidate(p)
  PROVE  UrlFits(p, u)
<1>1. seen[p] \in Seen /\ SeenOfBrand(p, seen[p])
  BY DEF SeenFits
<1>2. u = seen[p].over \/ \E w \in Ways : u = [shop |-> p, way |-> w]
  BY <1>1 DEF pickWsCandidate, serializeWsCandidates, Either, Seen
<1>3. UrlFits(p, seen[p].over)
  BY <1>1 DEF UrlFits, Seen, SeenOfBrand
<1>4. SameBrand(p, p)
  BY DEF SameBrand
<1> QED
  BY <1>2, <1>3, <1>4, MadeUrlFits

LEMMA TemplateFits ==
  ASSUME SeenFits, NEW p \in Stores, seen[p].open
  PROVE  /\ pickMessageListTemplate(p) \in SomeTalk /\ TalkIsBrands(p, pickMessageListTemplate(p))
         /\ extractAuthFromSnapshot(p) \in SomeStore /\ SameBrand(p, extractAuthFromSnapshot(p))
<1>1. pickMessageListTemplate(p) \in SomeTalk /\ TalkIsBrands(p, pickMessageListTemplate(p))
  BY SnapshotFits DEF pickMessageListTemplate
<1> QED
  BY <1>1, NoTalkFits, SetupAssumption DEF extractAuthFromSnapshot, TalkIsBrands, SomeTalk, SomeStore

LEMMA UnsetTyped == Unset \in ShopConfig
BY DEF Unset, ShopConfig, Url, NoUrl

LEMMA LiveConfigFits ==
  ASSUME SeenFits, NEW s \in Stores, NEW p \in loadLiveSnapshot(s), NEW cid \in pickAppCid(s, p),
         NEW url \in pickWsCandidate(p), NEW sample \in pickTextSendSample(p, cid)
  PROVE  FitsShop(p, buildLiveProtocolConfig(p, cid, sample, url))
<1> DEFINE a == extractAuthFromSnapshot(p)
           l == pickMessageListTemplate(p)
           t == pickReceiverAppUids(sample, cid)
           q == [Unset EXCEPT !.auth = a, !.list = l, !.url = url, !.cid = cid, !.sample = sample, !.to = t]
<1>1. p \in Stores /\ seen[p].open
  BY PageAnswers
<1>2. cid \in SomeTalk /\ TalkIsBrands(p, cid) /\ sample \in SomeTalk /\ TalkIsBrands(p, sample)
  BY <1>1, CidFits, SampleFits
<1>3. t \in SomeTalk /\ TalkIsBrands(p, t)
  BY <1>2, NoTalkFits DEF pickReceiverAppUids, SomeTalk
<1>4. UrlFits(p, url)
  BY <1>1, CandidateFits
<1>5. l \in SomeTalk /\ TalkIsBrands(p, l) /\ a \in SomeStore /\ SameBrand(p, a)
  BY <1>1, TemplateFits
<1>6. q = buildLiveProtocolConfig(p, cid, sample, url)
  BY DEF buildLiveProtocolConfig
<1> HIDE DEF a, l, t
<1>7. /\ q \in ShopConfig
      /\ q.sample = sample /\ q.cid = cid /\ q.to = t /\ q.url = url
      /\ q.send = NoUrl /\ q.push = NoUrl /\ q.tpl = NoStore /\ q.shake = NoStore
      /\ q.auth = a /\ q.list = l
  BY <1>2, <1>3, <1>4, <1>5, UnsetTyped, ZenonT(40) DEF ShopConfig, Unset, UrlFits, SomeTalk, SomeStore
<1> HIDE DEF q
<1>8. SameBrand(p, NoUrl.shop)
  BY DEF NoUrl, SameBrand
<1> QED
  BY <1>2, <1>3, <1>4, <1>5, <1>6, <1>7, <1>8, NoTalkFits DEF FitsShop, UrlFits

LEMMA ConfigFields ==
  \A c \in ShopConfig :
    DOMAIN c = {"auth", "list", "sample", "cid", "to", "url", "send", "push", "tpl", "shake"}
BY DEF ShopConfig

LEMMA MergedFits ==
  ASSUME NEW s \in Stores, NEW old, old = NoConfig \/ FitsShop(s, old), NEW new, FitsShop(s, new),
         NEW force \in BOOLEAN
  PROVE  FitsShop(s, mergeShopIntoLocal(old, new, force))
<1>1. CASE old = NoConfig
  BY <1>1 DEF mergeShopIntoLocal
<1>2. CASE old # NoConfig
  <2> DEFINE Takes(f) == new[f] # Unset[f] /\ (force \/ f = "auth" \/ old[f] = Unset[f])
             q == [f \in DOMAIN old |-> IF Takes(f) THEN new[f] ELSE old[f]]
  <2>1. mergeShopIntoLocal(old, new, force) = q
    BY <1>2 DEF mergeShopIntoLocal
  <2>2. FitsShop(s, old) /\ old \in ShopConfig /\ new \in ShopConfig
    BY <1>2 DEF FitsShop
  <2>3. DOMAIN old = {"auth", "list", "sample", "cid", "to", "url", "send", "push", "tpl", "shake"}
    BY <2>2, ConfigFields
  <2> HIDE DEF Takes
  <2>4. q \in ShopConfig
    BY <2>2, <2>3 DEF ShopConfig
  <2>5. /\ q.sample \in {old.sample, new.sample} /\ q.cid \in {old.cid, new.cid}
        /\ q.to \in {old.to, new.to} /\ q.url \in {old.url, new.url}
        /\ q.send \in {old.send, new.send} /\ q.push \in {old.push, new.push}
        /\ q.tpl \in {old.tpl, new.tpl} /\ q.shake \in {old.shake, new.shake}
        /\ q.auth \in {old.auth, new.auth} /\ q.list \in {old.list, new.list}
    BY <2>3
  <2> HIDE DEF q
  <2> QED
    BY <2>1, <2>2, <2>4, <2>5 DEF FitsShop
<1> QED
  BY <1>1, <1>2

LEMMA HintsFit ==
  ASSUME SeenFits, NEW s \in Stores, NEW p \in loadLiveSnapshot(s), NEW c, FitsShop(s, c)
  PROVE  FitsShop(s, mergeLiveSnapshotHints(c, p))
<1> DEFINE x == extractAuthFromSnapshot(p)
           a == IF x # NoStore THEN x ELSE c.auth
           u == CASE "impaas" \in seen[p].ways -> [shop |-> p, way |-> "impaas"]
                  [] OTHER -> IF seen[p].over.way = "impaas" THEN seen[p].over ELSE c.send
           q == [c EXCEPT !.auth = a, !.send = u]
<1>1. p \in Stores /\ seen[p].open /\ Brand[p] = Brand[s]
  BY PageAnswers
<1>2. c \in ShopConfig /\ c.auth \in SomeStore /\ UrlFits(s, c.send)
  BY DEF FitsShop, ShopConfig, SomeStore, UrlFits
<1>3. x \in SomeStore /\ SameBrand(s, x)
  BY <1>1, TemplateFits, SamePasses
<1>4. UrlFits(s, seen[p].over)
  BY <1>1, SamePasses DEF UrlFits, Seen, SeenOfBrand, SeenFits
<1>5. mergeLiveSnapshotHints(c, p) = q
  BY <1>2 DEF mergeLiveSnapshotHints, ShopConfig
<1> HIDE DEF x
<1>6. a \in SomeStore /\ (SameBrand(s, c.auth) => SameBrand(s, a))
  BY <1>2, <1>3
<1>7. UrlFits(s, u)
  <2>1. UrlFits(s, [shop |-> p, way |-> "impaas"])
    BY <1>1, MadeUrlFits DEF SameBrand, Ways
  <2> QED
    BY <2>1, <1>2, <1>4
<1> HIDE DEF a, u
<1>8. /\ q \in ShopConfig
      /\ q.sample = c.sample /\ q.cid = c.cid /\ q.to = c.to /\ q.url = c.url
      /\ q.send = u /\ q.push = c.push /\ q.tpl = c.tpl /\ q.shake = c.shake
      /\ q.auth = a /\ q.list = c.list
  BY <1>2, <1>6, <1>7 DEF ShopConfig, UrlFits, SomeStore
<1> HIDE DEF q
<1> QED
  BY <1>5, <1>6, <1>7, <1>8 DEF FitsShop, UrlFits

LEMMA CompletedFits ==
  ASSUME NEW s \in Stores, NEW c, FitsShop(s, c), NEW row, FitsShop(s, row)
  PROVE  FitsShop(s, mergeShopConfig(c, row))
<1> DEFINE Lacks(f) == f # "auth" /\ c[IF f = "to" THEN "cid" ELSE f] = Unset[IF f = "to" THEN "cid" ELSE f]
           q == [f \in DOMAIN c |-> IF Lacks(f) THEN row[f] ELSE c[f]]
<1>1. mergeShopConfig(c, row) = q
  BY DEF mergeShopConfig
<1>2. c \in ShopConfig /\ row \in ShopConfig
  BY DEF FitsShop
<1>3. DOMAIN c = {"auth", "list", "sample", "cid", "to", "url", "send", "push", "tpl", "shake"}
  BY <1>2, ConfigFields
<1> HIDE DEF Lacks
<1>4. q \in ShopConfig
  BY <1>2, <1>3 DEF ShopConfig
<1>5. /\ q.sample \in {c.sample, row.sample} /\ q.cid \in {c.cid, row.cid}
      /\ q.to \in {c.to, row.to} /\ q.url \in {c.url, row.url}
      /\ q.send \in {c.send, row.send} /\ q.push \in {c.push, row.push}
      /\ q.tpl \in {c.tpl, row.tpl} /\ q.shake \in {c.shake, row.shake}
      /\ q.auth \in {c.auth, row.auth} /\ q.list \in {c.list, row.list}
  BY <1>3
<1> HIDE DEF q
<1> QED
  BY <1>1, <1>2, <1>4, <1>5 DEF FitsShop

(***************************************************************************)
(* The steps                                                               *)
(***************************************************************************)
LEMMA FitsStays ==
  ASSUME tapOn' = tapOn, NEW s, NEW c, FitsShop(s, c)
  PROVE  FitsShop(s, c)'
BY DEF FitsShop

LEMMA RowsStay == ASSUME RowsFit, UNCHANGED <<tapOn, localRow>> PROVE RowsFit'
BY FitsStays DEF RowsFit

LEMMA NothingUsed == ASSUME NothingBegun PROVE UseFits'
BY DEF NothingBegun, UseFits

LEMMA CountsStay ==
  ASSUME CountsFit, \/ Sees /\ UNCHANGED exported
                    \/ Exports /\ UNCHANGED captured
                    \/ UNCHANGED <<captured, exported>>
  PROVE  CountsFit'
BY SetupAssumption DEF CountsFit, Sees, Exports

LEMMA PageSeen ==
  ASSUME SetupInv, Sees, NothingBegun, UNCHANGED <<tapOn, localRow, exported>>
  PROVE  RowsFit' /\ UseFits' /\ CountsFit'
<1>1. RowsFit'
  BY RowsStay DEF SetupInv
<1>2. CountsFit'
  BY CountsStay DEF SetupInv
<1> QED
  BY <1>1, <1>2, NothingUsed

LEMMA RecordFits ==
  ASSUME TapFits, NEW kind \in {"list", "send", "auth", "opens"}, NEW s \in Stores, NEW t \in SomeTalk,
         NEW w \in Ways \cup {"unknown"}, recordTap(kind, s, t, w),
         kind \in {"list", "send"} => t \in Talks /\ StoreOf[t] = s
  PROVE  TapFits'
<1> DEFINE r == [kind |-> kind, shop |-> s, talk |-> t, way |-> w]
<1>1. RowFits(r)
  BY DEF RowFits, TapRow, SomeTalk
<1>2. UNCHANGED tapOn
  BY DEF recordTap
<1>3. CASE ~tapOn
  <2>1. tap' = tap
    BY <1>3 DEF recordTap
  <2> QED
    BY <1>2, <2>1 DEF TapFits
<1>4. CASE tapOn
  <2> DEFINE one == tap[1]
             two == tap[2]
  <2>1. /\ tap = <<one, two>> /\ one \in Seq(TapRow) /\ two \in Seq(TapRow)
        /\ \A i \in 1..Len(one) : RowFits(one[i])
        /\ \A i \in 1..Len(two) : RowFits(two[i])
    BY DEF TapFits
  <2>2. tap' = <<Append(one, r), two>>
    <3>1. tap' = [tap EXCEPT ![1] = Append(one, r)]
      BY <1>4 DEF recordTap
    <3> HIDE DEF one, two
    <3> QED
      BY <2>1, <3>1
  <2>3. r \in TapRow
    BY <1>1 DEF RowFits
  <2> HIDE DEF one, two, r
  <2>4. /\ Append(one, r) \in Seq(TapRow) /\ Len(Append(one, r)) = Len(one) + 1
        /\ \A i \in 1..Len(one) : Append(one, r)[i] = one[i]
        /\ Append(one, r)[Len(one) + 1] = r
    BY <2>1, <2>3, AppendProperties
  <2>5. \A i \in 1..Len(Append(one, r)) : RowFits(Append(one, r)[i])
    <3> TAKE i \in 1..Len(Append(one, r))
    <3>1. i \in 1..Len(one) \/ i = Len(one) + 1
      BY <2>1, <2>4
    <3> QED
      BY <1>1, <2>1, <2>4, <3>1
  <2> QED
    BY <1>2, <1>4, <2>1, <2>2, <2>4, <2>5 DEF TapFits
<1> QED
  BY <1>3, <1>4 DEF TapFits

\* What is held of one page changes, and stays of its brand.
LEMMA OneSeen ==
  ASSUME NEW f \in [Stores -> Seen], \A s \in Stores : SeenOfBrand(s, f[s]),
         NEW p \in Stores, NEW b \in Seen, SeenOfBrand(p, b)
  PROVE  /\ [f EXCEPT ![p] = b] \in [Stores -> Seen]
         /\ \A s \in Stores : SeenOfBrand(s, [f EXCEPT ![p] = b][s])
         /\ [f EXCEPT ![p] = b][p] = b
         /\ \A s \in Stores \ {p} : [f EXCEPT ![p] = b][s] = f[s]
OBVIOUS

LEMMA OwnTalk ==
  ASSUME NEW s \in Stores, NEW p, Brand[s] = Brand[p], NEW t \in Talks, StoreOf[t] = s
  PROVE  TalkIsBrands(p, t)
BY DEF TalkIsBrands, SameBrand

LEMMA OpenPage ==
  ASSUME SeenFits, NEW s \in Stores, seen[s].open
  PROVE  /\ seen[s] \in Seen /\ SeenOfBrand(s, seen[s])
         /\ seen[s].maps \in Stores /\ Brand[seen[s].maps] = Brand[s]
BY DEF SeenFits, SeenOfBrand, SameBrand, Seen, SomeStore

LEMMA ListKeeps ==
  ASSUME SetupInv, NEW t \in Talks, SeesList(StoreOf[t], t)
  PROVE  SeenFits' /\ TapFits'
<1> DEFINE s == StoreOf[t]
           m == seen[s].maps
           b == [seen[s] EXCEPT !.list = t]
           g == [seen EXCEPT ![s] = b]
           e == [g[m] EXCEPT !.asked = t]
           h == [g EXCEPT ![m] = e]
<1>1. s \in Stores /\ t \in SomeTalk
  BY SetupAssumption DEF SomeTalk
<1>2. recordTap("list", s, t, "unknown")
  BY DEF SeesList
<1>3. TapFits'
  BY <1>1, <1>2, RecordFits DEF SetupInv
<1>4. /\ seen[s] \in Seen /\ SeenOfBrand(s, seen[s]) /\ m \in Stores /\ Brand[m] = Brand[s]
      /\ seen \in [Stores -> Seen] /\ \A x \in Stores : SeenOfBrand(x, seen[x])
  BY <1>1, <1>2, OpenPage DEF recordTap, SetupInv, SeenFits
<1>5. seen' = h
  BY <1>4 DEF SeesList, captureHttpTemplate
<1>6. TalkIsBrands(s, t) /\ TalkIsBrands(m, t)
  BY <1>1, <1>4, OwnTalk
<1> HIDE DEF s, m
<1>7. b \in Seen /\ SeenOfBrand(s, b)
  BY <1>1, <1>4, <1>6 DEF Seen, SeenOfBrand
<1> HIDE DEF b
<1>8. g \in [Stores -> Seen] /\ \A x \in Stores : SeenOfBrand(x, g[x])
  BY <1>1, <1>4, <1>7, OneSeen
<1> HIDE DEF g
<1>9. e \in Seen /\ SeenOfBrand(m, e)
  <2>1. g[m] \in Seen /\ SeenOfBrand(m, g[m])
    BY <1>4, <1>8
  <2> QED
    BY <1>1, <1>6, <2>1 DEF Seen, SeenOfBrand
<1> HIDE DEF e
<1>10. h \in [Stores -> Seen] /\ \A x \in Stores : SeenOfBrand(x, h[x])
  BY <1>4, <1>8, <1>9, OneSeen
<1> QED
  BY <1>3, <1>5, <1>10 DEF SeenFits, SeenOfBrand, TalkIsBrands, SameBrand

LEMMA SetupSendKeeps ==
  ASSUME SetupInv, NEW t \in Talks, NEW w \in Ways \cup {"unknown"}, SeesSend(StoreOf[t], t, w)
  PROVE  SeenFits' /\ TapFits'
<1> DEFINE s == StoreOf[t]
           m == seen[s].maps
           u == IF w \in Ways THEN [shop |-> s, way |-> w] ELSE NoUrl
           b == [seen[s] EXCEPT !.last = t, !.over = u]
           g == [seen EXCEPT ![s] = b]
           e == [g[m] EXCEPT !.sent = @ \cup {t}]
           h == [g EXCEPT ![m] = e]
<1>1. s \in Stores /\ t \in SomeTalk
  BY SetupAssumption DEF SomeTalk
<1>2. recordTap("send", s, t, w)
  BY DEF SeesSend
<1>3. TapFits'
  BY <1>1, <1>2, RecordFits DEF SetupInv
<1>4. /\ seen[s] \in Seen /\ SeenOfBrand(s, seen[s]) /\ m \in Stores /\ Brand[m] = Brand[s]
      /\ seen \in [Stores -> Seen] /\ \A x \in Stores : SeenOfBrand(x, seen[x])
  BY <1>1, <1>2, OpenPage DEF recordTap, SetupInv, SeenFits
<1>5. seen' = h
  BY <1>4 DEF SeesSend, captureManualSend
<1>6. TalkIsBrands(s, t) /\ TalkIsBrands(m, t)
  BY <1>1, <1>4, OwnTalk
<1>6a. UrlFits(s, u)
  BY <1>1, MadeUrlFits, NoUrlFits DEF SameBrand
<1> HIDE DEF s, m, u
<1>7. b \in Seen /\ SeenOfBrand(s, b)
  BY <1>1, <1>4, <1>6, <1>6a DEF Seen, SeenOfBrand, UrlFits
<1> HIDE DEF b
<1>8. g \in [Stores -> Seen] /\ \A x \in Stores : SeenOfBrand(x, g[x])
  BY <1>1, <1>4, <1>7, OneSeen
<1> HIDE DEF g
<1>9. e \in Seen /\ SeenOfBrand(m, e)
  <2>1. g[m] \in Seen /\ SeenOfBrand(m, g[m])
    BY <1>4, <1>8
  <2> QED
    BY <1>1, <1>6, <2>1 DEF Seen, SeenOfBrand
<1> HIDE DEF e
<1>10. h \in [Stores -> Seen] /\ \A x \in Stores : SeenOfBrand(x, h[x])
  BY <1>4, <1>8, <1>9, OneSeen
<1> QED
  BY <1>3, <1>5, <1>10 DEF SeenFits, SeenOfBrand, TalkIsBrands, SameBrand

LEMMA OpenKeeps ==
  ASSUME SetupInv, NEW s \in Stores, NEW w \in Ways, SeesOpen(s, w)
  PROVE  SeenFits' /\ TapFits'
<1> DEFINE b == [seen[s] EXCEPT !.ways = @ \cup {w}]
           h == [seen EXCEPT ![s] = b]
<1>1. recordTap("opens", s, NoTalk, w)
  BY DEF SeesOpen
<1>2. TapFits'
  BY <1>1, RecordFits DEF SetupInv, SomeTalk
<1>3. seen' = h
  BY DEF SeesOpen
<1>4. /\ seen[s] \in Seen /\ SeenOfBrand(s, seen[s])
      /\ seen \in [Stores -> Seen] /\ \A x \in Stores : SeenOfBrand(x, seen[x])
  BY DEF SetupInv, SeenFits
<1>5. b \in Seen /\ SeenOfBrand(s, b)
  BY <1>4 DEF Seen, SeenOfBrand
<1> HIDE DEF b
<1>6. h \in [Stores -> Seen] /\ \A x \in Stores : SeenOfBrand(x, h[x])
  BY <1>4, <1>5, OneSeen
<1> QED
  BY <1>2, <1>3, <1>6 DEF SeenFits, SeenOfBrand, TalkIsBrands, SameBrand

LEMMA AuthKeeps ==
  ASSUME SetupInv, NEW s \in Stores, SeesAuth(s)
  PROVE  SeenFits' /\ TapFits'
<1>1. recordTap("auth", s, NoTalk, "apppush") /\ UNCHANGED seen
  BY DEF SeesAuth
<1>2. TapFits'
  BY <1>1, RecordFits DEF SetupInv, SomeTalk, Ways
<1> QED
  BY <1>1, <1>2 DEF SetupInv, SeenFits, SeenOfBrand, TalkIsBrands, SameBrand

LEMMA ConnectKeeps ==
  ASSUME SetupInv, NEW s \in Stores, registerQianfanWsBridge(s)
  PROVE  SeenFits'
<1>1. /\ seen[s] \in Seen /\ SeenOfBrand(s, seen[s])
      /\ seen \in [Stores -> Seen] /\ \A x \in Stores : SeenOfBrand(x, seen[x])
  BY DEF SetupInv, SeenFits
<1>2. \E b \in Seen : SeenOfBrand(s, b) /\ seen' = [seen EXCEPT ![s] = b]
  <2>1. CASE findBridgeByShopTitle(s) = {}
    <3> DEFINE b == [seen[s] EXCEPT !.open = TRUE, !.maps = s]
    <3>1. seen' = [seen EXCEPT ![s] = b]
      BY <2>1 DEF registerQianfanWsBridge
    <3>2. b \in Seen
      BY <1>1 DEF Seen, SomeStore
    <3>3. SeenOfBrand(s, b)
      BY <1>1, SetupAssumption DEF Seen, SeenOfBrand, SameBrand
    <3> QED
      BY <3>1, <3>2, <3>3
  <2>2. CASE findBridgeByShopTitle(s) # {}
    <3>1. PICK p \in findBridgeByShopTitle(s) :
            seen' = [seen EXCEPT ![s] = [seen[p] EXCEPT !.ways = {}, !.sent = seen[s].sent,
                                                        !.asked = seen[s].asked]]
      BY <2>2 DEF registerQianfanWsBridge
    <3> DEFINE b == [seen[p] EXCEPT !.ways = {}, !.sent = seen[s].sent, !.asked = seen[s].asked]
    <3>2. p \in Stores /\ seen[p].open /\ Brand[p] = Brand[s]
      BY PageAnswers DEF loadLiveSnapshot, SetupInv
    <3>3. seen[p] \in Seen /\ SeenOfBrand(p, seen[p])
      BY <1>1, <3>2
    <3>4. SeenOfBrand(s, seen[p])
      BY <3>2, <3>3 DEF SeenOfBrand, TalkIsBrands, SameBrand
    <3>5. b \in Seen
      BY <1>1, <3>3 DEF Seen
    <3>6. SeenOfBrand(s, b)
      BY <1>1, <3>3, <3>4 DEF Seen, SeenOfBrand
    <3> HIDE DEF b
    <3> QED
      BY <3>1, <3>5, <3>6 DEF b
  <2> QED
    BY <2>1, <2>2
<1>3. PICK b \in Seen : SeenOfBrand(s, b) /\ seen' = [seen EXCEPT ![s] = b]
  BY <1>2
<1>4. [seen EXCEPT ![s] = b] \in [Stores -> Seen]
      /\ \A x \in Stores : SeenOfBrand(x, [seen EXCEPT ![s] = b][x])
  BY <1>1, <1>3, OneSeen
<1> QED
  BY <1>3, <1>4 DEF SeenFits, SeenOfBrand, TalkIsBrands, SameBrand

LEMMA ShutFits == Shut \in Seen /\ \A s : SeenOfBrand(s, Shut)
<1>1. Shut \in Seen
  BY DEF Shut, Seen, SomeTalk, SomeStore, Url
<1>2. \A s : SeenOfBrand(s, Shut)
  BY DEF Shut, SeenOfBrand, TalkIsBrands, SameBrand, NoUrl
<1> QED
  BY <1>1, <1>2

LEMMA SetupRestartKeeps ==
  ASSUME BotRestarts
  PROVE  SeenFits'
<1>1. seen' = [s \in Stores |-> Shut]
  BY DEF BotRestarts
<1>2. seen' \in [Stores -> Seen] /\ \A s \in Stores : SeenOfBrand(s, seen'[s])
  BY <1>1, ShutFits
<1> QED
  BY <1>2 DEF SeenFits, SeenOfBrand, TalkIsBrands, SameBrand

LEMMA DayKeeps ==
  ASSUME TapFits, NewDay
  PROVE  TapFits'
<1> DEFINE one == tap[1]
<1>1. tap' = <<<<>>, one>> /\ UNCHANGED tapOn /\ one # <<>>
  BY DEF NewDay
<1>2. one \in Seq(TapRow) /\ \A i \in 1..Len(one) : RowFits(one[i])
  BY DEF TapFits
<1>3. tapOn
  BY <1>1 DEF TapFits
<1> HIDE DEF one
<1>4. \A i \in 1..Len(<<>>) : RowFits(<<>>[i])
  OBVIOUS
<1>5. <<>> \in Seq(TapRow)
  OBVIOUS
<1>6. tap'[1] = <<>> /\ tap'[2] = one /\ tap' \in Seq(TapRow) \X Seq(TapRow) /\ tapOn' = tapOn
  BY <1>1, <1>2, <1>5
<1> QED
  BY <1>2, <1>3, <1>4, <1>6 DEF TapFits

LEMMA ExportKeeps ==
  ASSUME SetupInv, NEW s \in Stores, NEW p \in Stores, NEW force \in BOOLEAN, Export(s, p, force)
  PROVE  RowsFit'
<1>1. p \in loadLiveSnapshot(s) /\ UNCHANGED tapOn
  BY DEF Export
<1>2. PICK cid \in pickAppCid(s, p), url \in pickWsCandidate(p) : \E sample \in pickTextSendSample(p, cid) :
        localRow' = [localRow EXCEPT ![p] =
                       mergeShopIntoLocal(@, buildLiveProtocolConfig(p, cid, sample, url), force)]
  BY DEF Export
<1>3. PICK sample \in pickTextSendSample(p, cid) :
        localRow' = [localRow EXCEPT ![p] =
                       mergeShopIntoLocal(@, buildLiveProtocolConfig(p, cid, sample, url), force)]
  BY <1>2
<1> DEFINE new == buildLiveProtocolConfig(p, cid, sample, url)
           old == localRow[p]
           c == mergeShopIntoLocal(old, new, force)
<1>4. FitsShop(p, new)
  BY <1>1, LiveConfigFits DEF SetupInv
<1>5. old = NoConfig \/ FitsShop(p, old)
  BY DEF SetupInv, RowsFit
<1> HIDE DEF new, old
<1>6. FitsShop(p, c) /\ c \in ShopConfig
  BY <1>4, <1>5, MergedFits DEF FitsShop
<1>7. localRow' = [localRow EXCEPT ![p] = c]
  BY <1>3 DEF new, old, SetupInv, RowsFit
<1> HIDE DEF c
<1>8. localRow' \in [Stores -> ShopConfig \cup {NoConfig}]
      /\ \A x \in Stores : localRow'[x] = NoConfig \/ FitsShop(x, localRow'[x])
  BY <1>6, <1>7 DEF SetupInv, RowsFit
<1> QED
  BY <1>1, <1>8 DEF RowsFit, FitsShop

LEMMA RefreshKeeps ==
  ASSUME SetupInv, Refresh
  PROVE  RowsFit'
<1> DEFINE g == [s \in Stores |-> IF localRow[s] = NoConfig THEN NoConfig
                               ELSE applyTapToShopConfig(localRow[s], s)]
<1>1. localRow' = g /\ UNCHANGED tapOn
  BY DEF Refresh
<1>2. \A s \in Stores : g[s] = NoConfig \/ (FitsShop(s, g[s]) /\ g[s] \in ShopConfig)
  <2> TAKE s \in Stores
  <2>1. CASE localRow[s] = NoConfig
    BY <2>1
  <2>2. CASE localRow[s] # NoConfig
    <3>1. FitsShop(s, localRow[s])
      BY <2>2 DEF SetupInv, RowsFit
    <3>2. FitsShop(s, applyTapToShopConfig(localRow[s], s))
      BY <3>1, RefreshedFits DEF SetupInv
    <3> QED
      BY <2>2, <3>2 DEF FitsShop
  <2> QED
    BY <2>1, <2>2
<1>3. g \in [Stores -> ShopConfig \cup {NoConfig}]
  BY <1>2
<1> HIDE DEF g
<1> QED
  BY <1>1, <1>2, <1>3 DEF RowsFit, FitsShop

LEMMA UsedFits ==
  ASSUME NEW s \in Stores, NEW c, FitsShop(s, c), used' = <<s, c>>, UNCHANGED tapOn
  PROVE  UseFits'
<1>1. c \in ShopConfig
  BY DEF FitsShop
<1>2. FitsShop(s, c)'
  BY FitsStays
<1> QED
  BY <1>1, <1>2 DEF UseFits

LEMMA SetupServiceKeeps ==
  ASSUME SetupInv, NEW s \in Stores, ServiceStarts(s)
  PROVE  UseFits'
<1> DEFINE row == localRow[s]
<1>1. FitsShop(s, row) /\ UNCHANGED tapOn
  BY DEF ServiceStarts, SetupInv, RowsFit
<1>2. PICK c \in {row} \cup {mergeLiveSnapshotHints(row, p) : p \in loadLiveSnapshot(s)} :
        used' = <<s, mergeShopConfig(applyTapToShopConfig(c, s), row)>>
  BY DEF ServiceStarts
<1> HIDE DEF row
<1>3. FitsShop(s, c)
  BY <1>1, <1>2, HintsFit DEF SetupInv
<1>4. FitsShop(s, applyTapToShopConfig(c, s))
  BY <1>3, RefreshedFits DEF SetupInv
<1>5. FitsShop(s, mergeShopConfig(applyTapToShopConfig(c, s), row))
  BY <1>1, <1>4, CompletedFits
<1> QED
  BY <1>1, <1>2, <1>5, UsedFits

LEMMA DaemonKeeps ==
  ASSUME SetupInv, NEW s \in Stores, DaemonLoads(s)
  PROVE  UseFits'
<1>1. FitsShop(s, localRow[s]) /\ UNCHANGED tapOn
  BY DEF DaemonLoads, SetupInv, RowsFit
<1>2. FitsShop(s, applyTapToShopConfig(localRow[s], s))
  BY <1>1, RefreshedFits DEF SetupInv
<1>3. FitsShop(s, applyTapToShopConfig(applyTapToShopConfig(localRow[s], s), s))
  BY <1>2, RefreshedFits DEF SetupInv
<1> QED
  BY <1>1, <1>3, UsedFits DEF DaemonLoads

LEMMA SeenStays == ASSUME SeenFits, UNCHANGED seen PROVE SeenFits'
BY DEF SeenFits, SeenOfBrand, TalkIsBrands, SameBrand

LEMMA TapStays == ASSUME TapFits, UNCHANGED <<tapOn, tap>> PROVE TapFits'
BY DEF TapFits

LEMMA UseStays == ASSUME UseFits, UNCHANGED <<tapOn, used>> PROVE UseFits'
BY FitsStays DEF UseFits

LEMMA SetupInitially == ASSUME SetupInit PROVE SetupInv
<1>1. SeenFits
  <2>1. \A s \in Stores : seen[s] = Shut
    BY DEF SetupInit
  <2>2. seen \in [Stores -> Seen]
    BY ShutFits DEF SetupInit
  <2> QED
    BY <2>1, <2>2, ShutFits DEF SeenFits
<1>2. TapFits
  <2>1. \A i \in 1..Len(<<>>) : RowFits(<<>>[i])
    OBVIOUS
  <2>2. <<>> \in Seq(TapRow)
    OBVIOUS
  <2>3. tap[1] = <<>> /\ tap[2] = <<>> /\ tap \in Seq(TapRow) \X Seq(TapRow) /\ tapOn \in BOOLEAN
    BY <2>2 DEF SetupInit
  <2> QED
    BY <2>1, <2>3 DEF TapFits
<1>3. RowsFit /\ UseFits
  BY DEF SetupInit, RowsFit, UseFits
<1>4. CountsFit
  BY SetupAssumption DEF SetupInit, CountsFit
<1> QED
  BY <1>1, <1>2, <1>3, <1>4 DEF SetupInv

LEMMA SetupStep == ASSUME SetupInv, [SetupNext]_setupVars PROVE SetupInv'
<1>0. SeenFits /\ TapFits /\ RowsFit /\ UseFits /\ CountsFit
  BY DEF SetupInv
<1>a. ASSUME SeenFits', TapFits', RowsFit', UseFits', CountsFit' PROVE SetupInv'
  BY <1>a DEF SetupInv
<1>1. ASSUME NEW t \in Talks, SeesList(StoreOf[t], t) PROVE SetupInv'
  <2>1. Sees /\ NothingBegun /\ UNCHANGED <<tapOn, localRow, exported>>
    BY <1>1 DEF SeesList, recordTap
  <2>2. RowsFit' /\ UseFits' /\ CountsFit'
    BY <2>1, PageSeen
  <2>3. SeenFits' /\ TapFits'
    BY <1>1, ListKeeps
  <2> QED
    BY <2>2, <2>3, <1>a
<1>2. ASSUME NEW t \in Talks, NEW w \in Ways \cup {"unknown"}, SeesSend(StoreOf[t], t, w) PROVE SetupInv'
  <2>1. Sees /\ NothingBegun /\ UNCHANGED <<tapOn, localRow, exported>>
    BY <1>2 DEF SeesSend, recordTap
  <2>2. RowsFit' /\ UseFits' /\ CountsFit'
    BY <2>1, PageSeen
  <2>3. SeenFits' /\ TapFits'
    BY <1>2, SetupSendKeeps
  <2> QED
    BY <2>2, <2>3, <1>a
<1>3. ASSUME NEW s \in Stores, SeesAuth(s) PROVE SetupInv'
  <2>1. Sees /\ NothingBegun /\ UNCHANGED <<tapOn, localRow, exported>>
    BY <1>3 DEF SeesAuth, recordTap
  <2>2. RowsFit' /\ UseFits' /\ CountsFit'
    BY <2>1, PageSeen
  <2>3. SeenFits' /\ TapFits'
    BY <1>3, AuthKeeps
  <2> QED
    BY <2>2, <2>3, <1>a
<1>4. ASSUME NEW s \in Stores, NEW w \in Ways, SeesOpen(s, w) PROVE SetupInv'
  <2>1. Sees /\ NothingBegun /\ UNCHANGED <<tapOn, localRow, exported>>
    BY <1>4 DEF SeesOpen, recordTap
  <2>2. RowsFit' /\ UseFits' /\ CountsFit'
    BY <2>1, PageSeen
  <2>3. SeenFits' /\ TapFits'
    BY <1>4, OpenKeeps
  <2> QED
    BY <2>2, <2>3, <1>a
<1>5. ASSUME NEW s \in Stores, registerQianfanWsBridge(s) PROVE SetupInv'
  <2>1. (Sees \/ UNCHANGED captured) /\ UNCHANGED exported
    BY <1>5 DEF registerQianfanWsBridge
  <2>2. NothingBegun /\ UNCHANGED <<tapOn, tap, localRow>>
    BY <1>5 DEF registerQianfanWsBridge
  <2>3. SeenFits'
    BY <1>5, ConnectKeeps
  <2>4. CountsFit'
    BY <2>1, <1>0, CountsStay
  <2>5. TapFits' /\ RowsFit'
    BY <2>2, <1>0, TapStays, RowsStay
  <2> QED
    BY <2>2, <2>3, <2>4, <2>5, <1>a, NothingUsed
<1>6. ASSUME NewDay PROVE SetupInv'
  <2>1. NothingBegun /\ UNCHANGED <<tapOn, seen, localRow, captured, exported>>
    BY <1>6 DEF NewDay
  <2>2. TapFits'
    BY <1>6, <1>0, DayKeeps
  <2> QED
    BY <2>1, <2>2, <1>0, <1>a, SeenStays, RowsStay, NothingUsed, CountsStay
<1>7. ASSUME Refresh PROVE SetupInv'
  <2>1. NothingBegun /\ Exports /\ UNCHANGED <<tapOn, seen, tap, captured>>
    BY <1>7 DEF Refresh
  <2>2. RowsFit'
    BY <1>7, <1>0, RefreshKeeps
  <2> QED
    BY <2>1, <2>2, <1>0, <1>a, SeenStays, TapStays, NothingUsed, CountsStay
<1>8. ASSUME BotRestarts PROVE SetupInv'
  <2>1. NothingBegun /\ Sees /\ UNCHANGED <<tapOn, tap, localRow, exported>>
    BY <1>8 DEF BotRestarts
  <2>2. SeenFits'
    BY <1>8, <1>0, SetupRestartKeeps
  <2>3. RowsFit' /\ UseFits' /\ CountsFit'
    BY <2>1, PageSeen
  <2> QED
    BY <2>1, <2>2, <2>3, <1>0, <1>a, TapStays
<1>9. ASSUME NEW s \in Stores, NEW p \in Stores, NEW force \in BOOLEAN, Export(s, p, force) PROVE SetupInv'
  <2>1. Exports /\ UNCHANGED <<tapOn, seen, tap, captured>> /\ NothingBegun
    BY <1>9 DEF Export
  <2>3. RowsFit'
    BY <1>9, ExportKeeps
  <2> QED
    BY <2>1, <2>3, <1>0, <1>a, SeenStays, TapStays, NothingUsed, CountsStay
<1>10. ASSUME NEW s \in Stores, ServiceStarts(s) PROVE SetupInv'
  <2>1. UNCHANGED <<tapOn, seen, tap, localRow, captured, exported>>
    BY <1>10 DEF ServiceStarts
  <2>3. UseFits'
    BY <1>10, SetupServiceKeeps
  <2> QED
    BY <2>1, <2>3, <1>0, <1>a, SeenStays, TapStays, RowsStay, CountsStay
<1>11. ASSUME NEW s \in Stores, DaemonLoads(s) PROVE SetupInv'
  <2>1. UNCHANGED <<tapOn, seen, tap, localRow, captured, exported>>
    BY <1>11 DEF DaemonLoads
  <2>3. UseFits'
    BY <1>11, DaemonKeeps
  <2> QED
    BY <2>1, <2>3, <1>0, <1>a, SeenStays, TapStays, RowsStay, CountsStay
<1>12. ASSUME UNCHANGED setupVars PROVE SetupInv'
  BY <1>12, <1>0, <1>a, SeenStays, TapStays, RowsStay, UseStays, CountsStay DEF setupVars
<1> QED
  BY <1>1, <1>2, <1>3, <1>4, <1>5, <1>6, <1>7, <1>8, <1>9, <1>10, <1>11, <1>12 DEF SetupNext

LEMMA SetupSound == ASSUME SetupInv PROVE SetupTypeOK /\ ActsForOwn
<1>1. ASSUME NEW s \in Stores
      PROVE  /\ seen[s].open \in BOOLEAN /\ seen[s].list \in Talks \cup {NoTalk}
             /\ {seen[s].last, seen[s].asked} \subseteq Talks \cup {NoTalk} /\ seen[s].sent \subseteq Talks
             /\ seen[s].over \in Url /\ seen[s].ways \subseteq Ways
             /\ seen[s].maps \in IF seen[s].open THEN Stores ELSE {NoStore}
  <2>1. seen[s] \in Seen /\ (seen[s].open <=> seen[s].maps # NoStore)
    BY <1>1 DEF SetupInv, SeenFits, SeenOfBrand
  <2> QED
    BY <2>1 DEF Seen, SomeTalk, SomeStore
<1>2. \A d \in {1, 2} : \A i \in 1..Len(tap[d]) : tap[d][i] \in TapRow
  BY DEF SetupInv, TapFits, RowFits
<1>3. used \in (Stores \X ShopConfig) \cup {NoUse}
  BY DEF SetupInv, UseFits
<1>4. SetupTypeOK
  BY <1>1, <1>2, <1>3 DEF SetupTypeOK, SetupInv, TapFits, RowsFit, CountsFit
<1>5. ASSUME NEW s \in Stores, NEW c, FitsShop(s, c)
      PROVE  /\ \A t \in {c.sample, c.cid, c.to} : t # NoTalk => SameBrand(s, StoreOf[t])
             /\ \A p \in {c.url.shop, c.send.shop, c.push.shop, c.tpl, c.shake} : SameBrand(s, p)
             /\ tapOn \/ (SameBrand(s, c.auth) /\ TalkIsBrands(s, c.list))
  BY <1>5 DEF FitsShop, TalkIsBrands
<1>6. \A s \in Stores : localRow[s] # NoConfig => FitsShop(s, localRow[s])
  BY DEF SetupInv, RowsFit
<1>7. used # NoUse => used[1] \in Stores /\ FitsShop(used[1], used[2])
  BY DEF SetupInv, UseFits
<1>8. ActsForOwn
  BY <1>5, <1>6, <1>7 DEF ActsForOwn, SameBrand, TalkIsBrands
<1> QED
  BY <1>4, <1>8
===============================================================================
