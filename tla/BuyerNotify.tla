------------------------------ MODULE BuyerNotify ------------------------------
(***************************************************************************)
(* The way of a buyer's message from the shop page to the people who are   *)
(* notified in WeChat:                                                     *)
(*                                                                         *)
(*   qianfan-listener --buyerMessage.ensureDedup (check)--> persistence    *)
(*   qianfan-listener --buyer-message.detected--> wechat-notifier          *)
(*   wechat-notifier --buyerMessage.ensureDedup (claim)--> persistence     *)
(*   wechat-notifier: merge what one buyer writes within MERGE_MS, look    *)
(*     for an open row to resume, allocate a reply id, save the row, send  *)
(*     to every target in at most two rounds, mark or release the messages *)
(*                                                                         *)
(* Persistence handles one request after the other.  A requester that does *)
(* not want to wait any longer goes on; the request is handled all the     *)
(* same.  The listener sees a message again and again (WebSocket, then an  *)
(* HTTP poll every 25 s) until it finds it in the notified set.            *)
(***************************************************************************)
EXTENDS Integers, Sequences, FiniteSets

CONSTANTS
  Message,     \* buyer messages, each with its own msgId
  Conv,        \* conversations: shop and appCid
  ConvOf,      \* the conversation of a message
  Copy,        \* sightings of a message that may be under way at a time
  MsgOf,       \* the message a sighting is of
  TargetOrder, \* getLiveNotifyTargets: who is notified, in this order, each once
  Fault,       \* the kinds of fault a behaviour may have
  MaxFault,    \* bound on the faults of a behaviour
  None

FaultKind == {"crashListener", "crashNotifier", "crashPersistence",
              "refused",   \* wxbot answers with an error, nothing is sent
              "unknown",   \* the answer takes more than 8 s, the text is sent
              "late",      \* persistence takes more than 10 s
              "slow"}      \* a claim gets 120 s old while it is worked on

ASSUME NotifyAssumption ==
  /\ ConvOf \in [Message -> Conv]
  /\ MsgOf \in [Copy -> Message]
  /\ TargetOrder \in Seq(STRING)
  /\ \A n, k \in DOMAIN TargetOrder : TargetOrder[n] = TargetOrder[k] => n = k
  /\ Fault \subseteq FaultKind /\ MaxFault \in Nat
  /\ None \notin Message \cup Copy

VARIABLES
  at,         \* how far a sighting has come
  bucket,     \* mergeBuckets: sightings merged but not yet flushed
  job,        \* the flush a sighting is the primary one of
  queueSeen,  \* queueSeenKeys
  inbox,      \* requests to persistence, oldest first
  half,       \* markNotified is between its two files
  claim,      \* buyer-notify-claims.json
  notified,   \* the notified set's file
  rows,       \* pending-replies file, a list
  found,      \* idempotency cache of pendingReply.findOpenForBuyer
  cached,     \* idempotency cache of markNotified and markPartial
  nextId,     \* reply-id file
  notices,    \* what the targets really got
  down,       \* workers that are not running
  faults

files == <<claim, notified, rows, found, cached, nextId>>
vars == <<at, bucket, job, queueSeen, inbox, half, files, notices, down, faults>>

Worker == {"listener", "notifier", "persistence"}
Elems(s) == {s[i] : i \in DOMAIN s}
Target == Elems(TargetOrder)

NoId == 0      \* what nextReplyId becomes when it is not answered: NaN, then null
Row == [id: Nat, msg: Message, status: {"notifying", "notified", "notify_partial",
        "notify_failed"}, told: SUBSET Target]
NoRow == [id |-> NoId, msg |-> None, status |-> "none", told |-> {}]

Asking == {"lookup", "alloc", "open", "record", "mark", "close", "release", "partial"}
Job == [batch: Seq(Copy), step: Asking \cup {"send"}, i: Nat, id: Nat,
        told: SUBSET Target, todo: SUBSET Target, failed: SUBSET Target, round: 1..2]
NoJob == [batch |-> <<>>, step |-> "none"]

Request == [op: Asking \cup {"check", "claim"}, msg: Message,
            row: Row \cup {NoRow}, by: Copy \cup {None}]

Waiting == {"check", "claim"}
Stage == Waiting \cup {"idle", "passed", "granted", "queued", "flush"}
InNotifier == {"claim", "granted", "queued", "flush"}

Init ==
  /\ at = [c \in Copy |-> "idle"]
  /\ bucket = [v \in Conv |-> <<>>]
  /\ job = [c \in Copy |-> NoJob]
  /\ queueSeen = {}
  /\ inbox = <<>> /\ half = FALSE
  /\ claim = [m \in Message |-> "none"]
  /\ notified = {} /\ rows = <<>> /\ cached = {}
  /\ found = [m \in Message |-> None]
  /\ nextId = 1
  /\ notices = {}
  /\ down = {} /\ faults = 0

TypeOK ==
  /\ at \in [Copy -> Stage]
  /\ bucket \in [Conv -> Seq(Copy)]
  /\ job \in [Copy -> Job \cup {NoJob}]
  /\ \A c \in Copy : (job[c] # NoJob) <=> (at[c] = "flush")
  /\ queueSeen \subseteq Message
  /\ inbox \in Seq(Request) /\ half \in BOOLEAN
  /\ claim \in [Message -> {"none", "claimed", "stale", "partial", "notified"}]
  /\ notified \subseteq Message
  /\ rows \in Seq(Row)
  /\ found \in [Message -> Row \cup {NoRow, None}]
  /\ cached \subseteq {"mark", "partial"} \X Message
  /\ nextId \in Nat \ {0}
  /\ notices \subseteq [to: Target, id: Nat, msgs: SUBSET Message,
                        by: Copy, round: 1..2]
  /\ down \subseteq Worker
  /\ faults \in 0..MaxFault

(***************************************************************************)
(* Requests to persistence.  What is sent to a process that is not running *)
(* is dropped.                                                             *)
(***************************************************************************)
Ask(queue, op, m, row, c) ==
  IF "persistence" \in down THEN queue
  ELSE Append(queue, [op |-> op, msg |-> m, row |-> row, by |-> c])

\* Nobody waits for the answers to the requests of these sightings any more.
Abandon(queue, cs) ==
  [n \in DOMAIN queue |->
     IF queue[n].by \in cs THEN [queue[n] EXCEPT !.by = None] ELSE queue[n]]

Faulty(kind) ==
  /\ kind \in Fault /\ faults < MaxFault
  /\ faults' = faults + 1

Goes(cs, stage) == at' = [c \in Copy |-> IF c \in cs THEN stage ELSE at[c]]

(***************************************************************************)
(* qianfan-listener                                                        *)
(***************************************************************************)
Emit(c) ==
  /\ at[c] = "idle"
  /\ "listener" \notin down
  /\ MsgOf[c] \notin notified
  /\ Goes({c}, "check")
  /\ inbox' = Ask(inbox, "check", MsgOf[c], NoRow, c)
  /\ UNCHANGED <<bucket, job, queueSeen, half, files, notices, down, faults>>

\* The session context is saved, the message is published.
Publish(c) ==
  /\ at[c] = "passed"
  /\ IF "notifier" \in down
     THEN /\ Goes({c}, "idle")
          /\ UNCHANGED inbox
     ELSE /\ Goes({c}, "claim")
          /\ inbox' = Ask(inbox, "claim", MsgOf[c], NoRow, c)
  /\ UNCHANGED <<bucket, job, queueSeen, half, files, notices, down, faults>>

(***************************************************************************)
(* wechat-notifier: the merge buckets                                      *)
(***************************************************************************)
Queue(c) ==
  /\ at[c] = "granted"
  /\ IF MsgOf[c] \in queueSeen
     THEN /\ Goes({c}, "idle")
          /\ UNCHANGED <<bucket, queueSeen>>
     ELSE /\ Goes({c}, "queued")
          /\ bucket' = [bucket EXCEPT ![ConvOf[MsgOf[c]]] = Append(@, c)]
          /\ queueSeen' = queueSeen \cup {MsgOf[c]}
  /\ UNCHANGED <<job, inbox, half, files, notices, down, faults>>

(***************************************************************************)
(* flushMergeBucket, from one await to the next.  Then(j, answer) is the   *)
(* flush after the answer to what it is waiting for.                       *)
(***************************************************************************)
AllTold(j) == Target \subseteq j.told
At(j, step, i) == [j EXCEPT !.step = step, !.i = i]

\* The loop over the messages: mark them if everybody was told, save the row.
Closing(j, i) == At(j, IF AllTold(j) THEN "mark" ELSE "close", i)

Resuming(j, row) ==
  LET known == [j EXCEPT !.told = row.told, !.todo = Target \ row.told]
  IN IF row.id = NoId THEN At(known, "alloc", 1)
     ELSE [At(known, "open", 1) EXCEPT !.id = row.id]

\* The rounds over the targets: after the first, the ones that failed.
Sending(j) ==
  CASE j.todo # {} -> At(j, "send", 1)
    [] j.todo = {} /\ j.failed # {} /\ j.round = 1 ->
         [At(j, "send", 1) EXCEPT !.todo = j.failed, !.failed = {}, !.round = 2]
    [] OTHER -> Closing(j, 1)

\* The target whose turn it is: a round keeps the order of the targets.
Turn(todo) ==
  LET left == {n \in DOMAIN TargetOrder : TargetOrder[n] \in todo}
  IN TargetOrder[CHOOSE n \in left : \A k \in left : n <= k]
Told(j) == Sending([j EXCEPT !.todo = @ \ {Turn(j.todo)}, !.told = @ \cup {Turn(j.todo)}])

\* (mutant) a target counts as told although the send failed
ToldAnyway(j) == Told(j)
Failed(j) == Sending([j EXCEPT !.todo = @ \ {Turn(j.todo)}, !.failed = @ \cup {Turn(j.todo)}])

LastOne(j) == j.i = Len(j.batch)

\* (mutant) the row is not saved before the notice is sent
SentUnsaved(j, answer) ==
  CASE j.step = "lookup" -> Resuming(j, answer)
    [] j.step = "alloc"  -> Sending([j EXCEPT !.id = answer.id])
    [] j.step = "record" -> Told(j)
    [] OTHER -> NoJob

Then(j, answer) ==
  CASE j.step = "lookup" -> Resuming(j, answer)
    [] j.step = "alloc" -> [At(j, "open", 1) EXCEPT !.id = answer.id]
    [] j.step = "open" -> Sending(j)
    [] j.step = "record" -> Told(j)
    [] j.step = "mark" -> At(j, "close", j.i)
    [] j.step = "close" /\ ~LastOne(j) -> Closing(j, j.i + 1)
    [] j.step = "close" /\ LastOne(j) /\ j.told = {} -> At(j, "release", 1)
    [] j.step = "close" /\ LastOne(j) /\ j.told # {} /\ ~AllTold(j) -> At(j, "partial", 1)
    [] j.step \in {"release", "partial"} /\ ~LastOne(j) -> At(j, j.step, j.i + 1)
    [] OTHER -> NoJob

RowOf(j) ==
  [id |-> j.id, told |-> j.told,
   msg |-> MsgOf[IF j.step = "open" THEN j.batch[Len(j.batch)] ELSE j.batch[j.i]],
   status |-> CASE j.step = "open" -> "notifying"
                [] AllTold(j) -> "notified"
                [] j.told = {} -> "notify_failed"
                [] OTHER -> "notify_partial"]

Subject(j) ==
  IF j.step \in {"lookup", "alloc", "open"} THEN MsgOf[j.batch[Len(j.batch)]]
  ELSE MsgOf[j.batch[j.i]]

\* (mutant) the waiters of the merged messages are not resolved
WaitersForgotten(c, j, queue) ==
  /\ job' = [job EXCEPT ![c] = j]
  /\ UNCHANGED <<at, queueSeen>>
  /\ inbox' = IF j.step \in Asking THEN Ask(queue, j.step, Subject(j), RowOf(j), c) ELSE queue

\* The flush of c goes on as j: it asks what j asks for.  The messages are
\* taken out of queueSeenKeys one by one, at the beginning of the loop's rounds.
Becomes(c, j, queue) ==
  /\ job' = [job EXCEPT ![c] = j]
  /\ Goes(IF j = NoJob THEN Elems(job[c].batch) ELSE {}, "idle")
  /\ inbox' = IF j.step \in Asking
              THEN Ask(queue, j.step, Subject(j),
                       IF j.step \in {"open", "close"} THEN RowOf(j) ELSE NoRow, c)
              ELSE queue
  /\ queueSeen' = IF j.step = "mark" \/ (j.step = "close" /\ ~AllTold(j))
                  THEN queueSeen \ {Subject(j)} ELSE queueSeen

Flush(v) ==
  /\ bucket[v] # <<>>
  /\ LET c == bucket[v][Len(bucket[v])]
         j == [batch |-> bucket[v], step |-> "lookup", i |-> 1, id |-> NoId, told |-> {},
               todo |-> {}, failed |-> {}, round |-> 1]
     IN /\ job' = [job EXCEPT ![c] = j]
        /\ Goes({c}, "flush")
        /\ inbox' = Ask(inbox, "lookup", MsgOf[c], NoRow, c)
  /\ bucket' = [bucket EXCEPT ![v] = <<>>]
  /\ UNCHANGED <<queueSeen, half, files, notices, down, faults>>

\* deliverToTarget: what was sent is recorded before the target counts as told.
Deliver(c, outcome) ==
  LET j == job[c]
      notice == [to |-> Turn(j.todo), id |-> j.id, by |-> c, round |-> j.round,
                 msgs |-> {MsgOf[d] : d \in Elems(j.batch)}]
  IN /\ at[c] = "flush" /\ j.step = "send"
     /\ IF outcome = "ok" THEN UNCHANGED faults ELSE Faulty(outcome)
     /\ notices' = IF outcome = "refused" THEN notices ELSE notices \cup {notice}
     /\ Becomes(c, IF outcome = "ok" THEN At(j, "record", 1) ELSE Failed(j), inbox)
     /\ UNCHANGED <<bucket, half, files, down>>

(***************************************************************************)
(* persistence: handlePersistRequest                                       *)
(***************************************************************************)
\* (mutant) the claims are not looked at
WithoutClaims(m) == m \in notified
Blocked(m) == m \in notified \/ claim[m] \in {"claimed", "notified"}

\* findOpenPendingForBuyer: the last open row of the conversation
OpenRow(m) ==
  LET open == {n \in DOMAIN rows :
                 /\ ConvOf[rows[n].msg] = ConvOf[m]
                 /\ rows[n].status # "notified"}
  IN IF open = {} THEN NoRow
     ELSE rows[CHOOSE n \in open : \A k \in open : k <= n]

Lookup(m) == IF found[m] = None THEN OpenRow(m) ELSE found[m]

\* appendPending
Saved(row) ==
  LET same == {n \in DOMAIN rows : rows[n].id = row.id /\ rows[n].msg = row.msg}
  IN IF same = {} THEN Append(rows, row)
     ELSE [rows EXCEPT ![CHOOSE n \in same : \A k \in same : n <= k] = row]

\* The requester c, if it still waits, gets the answer.
Answer(r, answer) ==
  IF r.by = None
  THEN /\ inbox' = Tail(inbox)
       /\ UNCHANGED <<at, job, queueSeen>>
  ELSE Becomes(r.by, Then(job[r.by], answer), Tail(inbox))

Handles(op) == "persistence" \notin down /\ inbox # <<>> /\ Head(inbox).op = op

PersistCheck ==
  /\ Handles("check")
  /\ LET r == Head(inbox)
     IN Goes({r.by}, IF Blocked(r.msg) THEN "idle" ELSE "passed")
  /\ inbox' = Tail(inbox)
  /\ UNCHANGED <<bucket, job, queueSeen, half, files, notices, down, faults>>

PersistClaim ==
  /\ Handles("claim")
  /\ LET r == Head(inbox)
     IN /\ Goes({r.by}, IF Blocked(r.msg) THEN "idle" ELSE "granted")
        /\ claim' = IF Blocked(r.msg) THEN claim ELSE [claim EXCEPT ![r.msg] = "claimed"]
  /\ inbox' = Tail(inbox)
  /\ UNCHANGED <<bucket, job, queueSeen, half, notified, rows, found, cached, nextId,
                 notices, down, faults>>

PersistLookup ==
  /\ Handles("lookup")
  /\ LET r == Head(inbox)
     IN /\ found' = [found EXCEPT ![r.msg] = Lookup(r.msg)]
        /\ Answer(r, Lookup(r.msg))
  /\ UNCHANGED <<bucket, half, claim, notified, rows, cached, nextId, notices, down, faults>>

\* (mutant) the next id is not written back
AllocUnsaved ==
  /\ Handles("alloc")
  /\ Answer(Head(inbox), [NoRow EXCEPT !.id = nextId])
  /\ UNCHANGED <<bucket, half, files, notices, down, faults>>

PersistAlloc ==
  /\ Handles("alloc")
  /\ nextId' = nextId + 1
  /\ Answer(Head(inbox), [NoRow EXCEPT !.id = nextId])
  /\ UNCHANGED <<bucket, half, claim, notified, rows, found, cached, notices, down, faults>>

PersistRow ==
  /\ Handles("open") \/ Handles("close")
  /\ rows' = Saved(Head(inbox).row)
  /\ Answer(Head(inbox), NoRow)
  /\ UNCHANGED <<bucket, half, claim, notified, found, cached, nextId, notices, down, faults>>

\* (mutant) the claim is written before the notified set
ClaimedFirst ==
  /\ Handles("mark") /\ ~half /\ <<"mark", Head(inbox).msg>> \notin cached
  /\ claim' = [claim EXCEPT ![Head(inbox).msg] = "notified"]
  /\ half' = TRUE
  /\ UNCHANGED <<at, bucket, job, queueSeen, inbox, notified, rows, found, cached, nextId,
                 notices, down, faults>>

\* markNotified writes the notified set, then the claims.
PersistNotified ==
  /\ Handles("mark") /\ ~half /\ <<"mark", Head(inbox).msg>> \notin cached
  /\ notified' = notified \cup {Head(inbox).msg}
  /\ half' = TRUE
  /\ UNCHANGED <<at, bucket, job, queueSeen, inbox, claim, rows, found, cached, nextId,
                 notices, down, faults>>

PersistMarked ==
  /\ Handles("mark")
  /\ half \/ <<"mark", Head(inbox).msg>> \in cached
  /\ LET m == Head(inbox).msg
     IN /\ claim' = IF half THEN [claim EXCEPT ![m] = "notified"] ELSE claim
        /\ cached' = cached \cup {<<"mark", m>>}
  /\ half' = FALSE
  /\ Answer(Head(inbox), NoRow)
  /\ UNCHANGED <<bucket, notified, rows, found, nextId, notices, down, faults>>

\* notification.recordSuccess: the map from WeChat messages to reply ids
PersistRecord ==
  /\ Handles("record")
  /\ Answer(Head(inbox), NoRow)
  /\ UNCHANGED <<bucket, half, files, notices, down, faults>>

PersistRelease ==
  /\ Handles("release")
  /\ LET m == Head(inbox).msg
     IN claim' = IF claim[m] \in {"claimed", "stale"}
                 THEN [claim EXCEPT ![m] = "none"] ELSE claim
  /\ Answer(Head(inbox), NoRow)
  /\ UNCHANGED <<bucket, half, notified, rows, found, cached, nextId, notices, down, faults>>

PersistPartial ==
  /\ Handles("partial")
  /\ LET m == Head(inbox).msg
     IN /\ claim' = IF <<"partial", m>> \in cached THEN claim
                    ELSE [claim EXCEPT ![m] = "partial"]
        /\ cached' = cached \cup {<<"partial", m>>}
  /\ Answer(Head(inbox), NoRow)
  /\ UNCHANGED <<bucket, half, notified, rows, found, nextId, notices, down, faults>>

(***************************************************************************)
(* Time, crashes and restarts                                              *)
(***************************************************************************)
Asked(c) == \E n \in DOMAIN inbox : inbox[n].by = c

\* The request of c was lost, or takes longer than c waits.
TimesOut(c) ==
  \/ at[c] \in Waiting
  \/ at[c] = "flush" /\ job[c].step \in Asking

Timeout(c) ==
  /\ TimesOut(c)
  /\ IF Asked(c) THEN Faulty("late") ELSE UNCHANGED faults
  /\ IF at[c] = "flush"
     THEN Becomes(c, Then(job[c], NoRow), Abandon(inbox, {c}))
     ELSE /\ Goes({c}, "idle")
          /\ inbox' = Abandon(inbox, {c})
          /\ UNCHANGED <<job, queueSeen>>
  /\ UNCHANGED <<bucket, half, files, notices, down>>

Held(m) == \E c \in Copy : MsgOf[c] = m /\ at[c] \in InNotifier

\* (mutant) a claim never gets too old
NeverExpires(m) == claim[m] = "stale" /\ UNCHANGED vars

Expire(m) ==
  /\ claim[m] = "claimed"
  /\ IF Held(m) THEN Faulty("slow") ELSE UNCHANGED faults
  /\ claim' = [claim EXCEPT ![m] = "stale"]
  /\ UNCHANGED <<at, bucket, job, queueSeen, inbox, half, notified, rows, found, cached,
                 nextId, notices, down>>

Loses(cs) ==
  /\ Goes(cs, "idle")
  /\ inbox' = Abandon(inbox, cs)

CrashListener ==
  /\ "listener" \notin down /\ Faulty("crashListener")
  /\ down' = down \cup {"listener"}
  /\ Loses({c \in Copy : at[c] \in {"check", "passed"}})
  /\ UNCHANGED <<bucket, job, queueSeen, half, files, notices>>

CrashNotifier ==
  /\ "notifier" \notin down /\ Faulty("crashNotifier")
  /\ down' = down \cup {"notifier"}
  /\ Loses({c \in Copy : at[c] \in InNotifier})
  /\ bucket' = [v \in Conv |-> <<>>]
  /\ job' = [c \in Copy |-> NoJob]
  /\ queueSeen' = {}
  /\ UNCHANGED <<half, files, notices>>

CrashPersistence ==
  /\ "persistence" \notin down /\ Faulty("crashPersistence")
  /\ down' = down \cup {"persistence"}
  /\ inbox' = <<>> /\ half' = FALSE
  /\ UNCHANGED <<at, bucket, job, queueSeen, files, notices>>

Restart(w) ==
  /\ w \in down
  /\ down' = down \ {w}
  /\ UNCHANGED <<at, bucket, job, queueSeen, inbox, half, files, notices, faults>>

Persist ==
  \/ PersistCheck \/ PersistClaim \/ PersistLookup \/ PersistAlloc \/ PersistRow
  \/ PersistNotified \/ PersistMarked \/ PersistRecord \/ PersistRelease \/ PersistPartial

Next ==
  \/ \E c \in Copy : Emit(c) \/ Publish(c) \/ Queue(c) \/ Timeout(c)
  \/ \E c \in Copy, o \in {"ok", "refused", "unknown"} : Deliver(c, o)
  \/ \E v \in Conv : Flush(v)
  \/ \E m \in Message : Expire(m)
  \/ Persist
  \/ CrashListener \/ CrashNotifier \/ CrashPersistence
  \/ \E w \in Worker : Restart(w)

Spec == Init /\ [][Next]_vars

(***************************************************************************)
(* Properties                                                              *)
(***************************************************************************)
\* t has a notice of what the buyer of conversation v wrote.
Reached(v, t) == \E n \in notices : n.to = t /\ \E m \in n.msgs : ConvOf[m] = v

\* A message is marked as notified only when every target has a notice of its
\* buyer: the mark of flushMergeBucket rests on whom the row it resumed
\* remembers, across crashes, refused sends and answers that came too late.
NotifiedReachedAll == \A m \in notified, t \in Target : Reached(ConvOf[m], t)

\* ... and when every target has got this very message.  (The row that is
\* resumed may be that of an earlier message of the same buyer: its targets are
\* taken for told, and do not get the later message.)
MessageReachedAll ==
  \A m \in notified, t \in Target : \E n \in notices : n.to = t /\ m \in n.msgs

\* What blocks further notifications for good - a claim with status notified -
\* is on disk only after the notified set itself, whatever crashes in between:
\* the listener's poll and the claims never disagree for ever.
BlockedOnlyIfNotified ==
  \A m \in Message : claim[m] = "notified" => m \in notified

\* The reply id of a notice names one conversation: a reply that quotes it
\* can not reach another buyer.
IdNamesOneConversation ==
  \A n, k \in notices : n.id = k.id /\ n.id # NoId =>
    \A m \in n.msgs, w \in k.msgs : ConvOf[m] = ConvOf[w]

\* A reply that quotes a notice finds its row: the row was asked for before
\* the first target got the notice, and persistence answers in that order.
NoticeAnswerable ==
  \A n \in notices : n.id # NoId =>
    \/ \E k \in DOMAIN rows : rows[k].id = n.id
    \/ \E k \in DOMAIN inbox : inbox[k].op = "open" /\ inbox[k].row.id = n.id

\* No target gets a message twice: what a notice has told is not told again by the
\* retry for the targets that were refused.
NoTargetTwice ==
  \A n, k \in notices : n.to = k.to /\ n.msgs \cap k.msgs # {} => n = k

\* A notice stands for one buyer, can be answered, and comes once.  The last only
\* where one person is notified, and wxbot answers each send in time: who retries
\* does not know whom the message has reached.
NoticesSound == IdNamesOneConversation /\ NoticeAnswerable /\ NoTargetTwice

\* Every message is notified in the end: whatever crashed, timed out or failed
\* before, no claim, row, queue entry or cached answer keeps it out for ever.
EveryMessageNotified == \A m \in Message : <>(m \in notified)

(***************************************************************************)
(* Fairness: processes are scheduled, timers fire, wxbot answers once it   *)
(* does not fail any more, crashed workers are restarted by the supervisor *)
(* and the listener polls as long as a message is not notified.            *)
(***************************************************************************)
Fairness ==
  /\ WF_vars(Persist)
  /\ \A c \in Copy :
       /\ WF_vars(Emit(c)) /\ WF_vars(Publish(c)) /\ WF_vars(Queue(c))
       /\ WF_vars(Deliver(c, "ok"))
       /\ WF_vars(Timeout(c) /\ ~Asked(c))
  /\ \A v \in Conv : WF_vars(Flush(v))
  /\ \A m \in Message : WF_vars(Expire(m) /\ ~Held(m))
  /\ \A w \in Worker : WF_vars(Restart(w))

FairSpec == Spec /\ Fairness
==============================================================================
