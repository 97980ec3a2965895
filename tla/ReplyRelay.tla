------------------------------ MODULE ReplyRelay ------------------------------
(***************************************************************************)
(* The way of one WeChat reply to the Qianfan buyer, through four worker   *)
(* processes that share nothing but the supervisor's message bus:          *)
(*                                                                         *)
(*   wechat-reply --wechatReply.ensureDedup--> persistence   (claim)       *)
(*   wechat-reply --qianfan.send.request--> qianfan-sender                 *)
(*   qianfan-sender --qianfanSend.recordPending--> persistence  (ledger)   *)
(*   qianfan-sender --qianfan.send.execute--> qianfan-listener             *)
(*   qianfan-listener --qianfan.send.result--> persistence                 *)
(*                                                                         *)
(* The claim on (replyId, text) is a lease of QIANFAN_SEND_PENDING_STALE_MS*)
(* kept in a file; nobody releases it when the attempt succeeds, a failed  *)
(* result deletes it.  Requests to persistence time out at the requester,  *)
(* but are still executed when persistence gets to them.                   *)
(*                                                                         *)
(* Time is counted in ticks: a tick is any amount of time that is short    *)
(* against the timeouts.  The bus hops between running workers take none.  *)
(***************************************************************************)
EXTENDS Integers, Sequences, FiniteSets

CONSTANTS
  Attempt,    \* one delivery of a WeChat message by the callback server
  Msg,        \* WeChat messages, named by their wxMsgId
  Key,        \* (replyId, normalised text): qianfanSendPendingKey
  MsgOf,      \* the message an attempt delivers
  KeyOf,      \* the key of a message
  Req,        \* ticks a requester waits for persistence      (10 s)
  SendMax,    \* ticks sendQianfanReplyRequest takes at most  (12 s + 36 s)
  TTL,        \* ticks a claim or a pending row stays fresh   (120 s)
  MaxCrash,   \* bound on the worker crashes of a behaviour
  Prompt      \* TRUE: persistence answers before any timer advances

ASSUME DataAssumption ==
  /\ MsgOf \in [Attempt -> Msg]
  /\ KeyOf \in [Msg -> Key]
  /\ Prompt \in BOOLEAN
  /\ MaxCrash \in Nat

\* The lease outlasts the longest attempt it protects.
ASSUME TimeAssumption ==
  /\ Req \in Nat /\ SendMax \in Nat /\ TTL \in Nat
  /\ Req + SendMax + Req <= TTL

VARIABLES
  pc,         \* how far an attempt has come
  timer,      \* ticks since the attempt entered its present stage
  wire,       \* what the attempt's payload did: "none", "late", "sent"
  inbox,      \* messages on their way to persistence, oldest first
  job,        \* durable writes left of the result persistence is handling
  claim,      \* wechat-reply-dedup.json, content key -> age of the claim
  wxClaim,    \* wechat-reply-dedup.json, wxMsgId key -> age of the claim
  ledger,     \* qianfan-send-pending.json
  processed,  \* persistence's in-memory set of handled wxMsgIds
  rows,       \* wxMsgIds that have a row in sent-replies.json
  dead,       \* attempts that have a dead letter
  cache,      \* idempotency.json, keys of results already computed
  up,         \* workers that are running
  crashes

durable == <<claim, wxClaim, ledger, rows, dead, cache>>
vars == <<pc, timer, wire, inbox, job, durable, processed, up, crashes>>

Worker == {"reply", "sender", "listener", "persistence"}

K(a) == KeyOf[MsgOf[a]]

Expired == TTL + 1
Age     == 0..Expired
\* (mutant) a lease shorter than the attempts it protects
FreshTooShort(age) == age <= SendMax
Fresh(age) == age <= TTL
Older(age) == IF age = Expired THEN age ELSE age + 1

\* Stages an attempt waits in, and the worker that would lose it.
Place == [lookup  |-> "reply",  dedup   |-> "reply",
          gate    |-> "sender", sending |-> "listener"]
Limit == [dedup |-> Req, gate |-> Req, sending |-> SendMax]
Hops    == {"request", "execute"}
Active  == Hops \cup {"gate", "sending"}
Settled == {"missing", "unclaimed", "duplicate", "inflight", "already",
            "gateFailed", "failed", "acked", "lost"}
Stage   == {"idle", "lookup", "dedup"} \cup Active \cup Settled


\* The keys of idempotency.json are a kind and what it was computed for.
Kind   == {"success", "sentRow", "handled", "fail", "failRow", "sendDead",
           "missing", "unclaimed"}
Op     == {"dedup", "pend", "ok", "fail", "missing", "unclaimed"}
Item   == [op: Op, a: Attempt]
Effect == {"markSent", "rowSent", "markHandled",
           "markFailed", "freeClaim", "rowFailed", "deadLetter"}
Write  == Effect \cup Kind
Row    == [status: {"none", "pending", "sent", "failed"},
           age: Age, wx: Msg \cup {"none"}]
NoRow  == [status |-> "none", age |-> 0, wx |-> "none"]

TypeOK ==
  /\ pc \in [Attempt -> Stage]
  /\ timer \in [Attempt -> Nat]
  /\ wire \in [Attempt -> {"none", "late", "sent"}]
  /\ inbox \in Seq(Item)
  /\ job \in Seq(Write) /\ (job # <<>> => inbox # <<>>)
  /\ claim \in [Key -> Age]
  /\ wxClaim \in [Msg -> Age]
  /\ ledger \in [Key -> Row]
  /\ processed \subseteq Msg
  /\ rows \subseteq Msg
  /\ dead \subseteq Attempt
  /\ cache \subseteq (Kind \X (Key \cup Msg))
  /\ up \subseteq Worker
  /\ crashes \in Nat

Init ==
  /\ pc = [a \in Attempt |-> "idle"]
  /\ timer = [a \in Attempt |-> 0]
  /\ wire = [a \in Attempt |-> "none"]
  /\ inbox = <<>> /\ job = <<>>
  /\ claim = [k \in Key |-> Expired]
  /\ wxClaim = [m \in Msg |-> Expired]
  /\ ledger = [k \in Key |-> NoRow]
  /\ processed = {} /\ rows = {} /\ dead = {} /\ cache = {}
  /\ up = Worker
  /\ crashes = 0

(***************************************************************************)
(* The bus.  A message to a worker that is not running is dropped.         *)
(***************************************************************************)
Move(a, s) ==
  /\ pc' = [pc EXCEPT ![a] = s]
  /\ timer' = [timer EXCEPT ![a] = 0]

Post(queue, op, a) ==
  IF "persistence" \in up THEN Append(queue, [op |-> op, a |-> a]) ELSE queue

(***************************************************************************)
(* wechat-reply: look the open reply up, claim the text, hand it on.       *)
(***************************************************************************)
Deliver(a) ==
  /\ pc[a] = "idle"
  /\ Move(a, IF "reply" \in up THEN "lookup" ELSE "lost")
  /\ UNCHANGED <<wire, inbox, job, durable, processed, up, crashes>>

LookupFound(a) ==
  /\ pc[a] = "lookup" /\ "persistence" \in up
  /\ Move(a, "dedup")
  /\ inbox' = Post(inbox, "dedup", a)
  /\ UNCHANGED <<wire, job, durable, processed, up, crashes>>

\* (mutant) the text is claimed before the reply id is looked up
ClaimedBeforeLookup(a) ==
  /\ pc[a] = "lookup"
  /\ Move(a, "missing")
  /\ inbox' = Post(inbox, "dedup", a)
  /\ UNCHANGED <<wire, job, durable, processed, up, crashes>>

\* No such reply id, or three lookups that timed out.
LookupMissing(a) ==
  /\ pc[a] = "lookup"
  /\ Move(a, "missing")
  /\ inbox' = Post(inbox, "missing", a)
  /\ UNCHANGED <<wire, job, durable, processed, up, crashes>>

DedupTimeout(a) ==
  /\ pc[a] = "dedup" /\ timer[a] = Req
  /\ Move(a, "unclaimed")
  /\ inbox' = Post(inbox, "unclaimed", a)
  /\ UNCHANGED <<wire, job, durable, processed, up, crashes>>

(***************************************************************************)
(* qianfan-sender: write the attempt into the ledger before it may run.    *)
(***************************************************************************)
SenderReceive(a) ==
  /\ pc[a] = "request"
  /\ IF "sender" \in up
       THEN Move(a, "gate") /\ inbox' = Post(inbox, "pend", a)
       ELSE Move(a, "lost") /\ UNCHANGED inbox
  /\ UNCHANGED <<wire, job, durable, processed, up, crashes>>

\* (mutant) a refused send is not reported
RefusedSilently(a) ==
  /\ pc[a] = "gate" /\ timer[a] = Req
  /\ Move(a, "gateFailed")
  /\ UNCHANGED <<wire, inbox, job, durable, processed, up, crashes>>

\* The send is refused and reported as an ordinary failure (persist_failed).
GateTimeout(a) ==
  /\ pc[a] = "gate" /\ timer[a] = Req
  /\ Move(a, "gateFailed")
  /\ inbox' = Post(inbox, "fail", a)
  /\ UNCHANGED <<wire, job, durable, processed, up, crashes>>

(***************************************************************************)
(* qianfan-listener: put the text on the shop's WebSocket, await the ACK.  *)
(***************************************************************************)
ListenerReceive(a) ==
  /\ pc[a] = "execute"
  /\ Move(a, IF "listener" \in up THEN "sending" ELSE "lost")
  /\ UNCHANGED <<wire, inbox, job, durable, processed, up, crashes>>

WireSend(a) ==
  /\ pc[a] = "sending" /\ wire[a] = "none"
  /\ wire' = [wire EXCEPT ![a] = "sent"]
  /\ UNCHANGED <<pc, timer, inbox, job, durable, processed, up, crashes>>

SendAck(a) ==
  /\ pc[a] = "sending" /\ wire[a] = "sent"
  /\ Move(a, "acked")
  /\ inbox' = Post(inbox, "ok", a)
  /\ UNCHANGED <<wire, job, durable, processed, up, crashes>>

\* Not ready, no socket, or no ACK for what went out.
SendFail(a) ==
  /\ pc[a] = "sending"
  /\ Move(a, "failed")
  /\ inbox' = Post(inbox, "fail", a)
  /\ UNCHANGED <<wire, job, durable, processed, up, crashes>>

\* (mutant) the timeout never fires
WaitsForever(a) ==
  /\ pc[a] = "sending" /\ timer[a] > SendMax
  /\ Move(a, "failed")
  /\ inbox' = Post(inbox, "fail", a)
  /\ UNCHANGED <<wire, job, durable, processed, up, crashes>>

\* withTimeout gives up waiting; the send it waited for runs on.
SendTimeout(a) ==
  /\ pc[a] = "sending" /\ timer[a] = SendMax
  /\ Move(a, "failed")
  /\ wire' = [wire EXCEPT ![a] = IF @ = "none" THEN "late" ELSE @]
  /\ inbox' = Post(inbox, "fail", a)
  /\ UNCHANGED <<job, durable, processed, up, crashes>>

LateSend(a) ==
  /\ wire[a] = "late"
  /\ wire' = [wire EXCEPT ![a] = "sent"]
  /\ UNCHANGED <<pc, timer, inbox, job, durable, processed, up, crashes>>

(***************************************************************************)
(* persistence: one message at a time, oldest first.  A message is taken   *)
(* off the inbox with its last write.  The reply count that                *)
(* pendingReply.resolve adds to is not kept.                               *)
(***************************************************************************)
Serving(ops) ==
  /\ "persistence" \in up /\ inbox # <<>> /\ job = <<>>
  /\ Head(inbox).op \in ops

\* (mutant) only copies of the message itself are repetitions
RepeatsMessage(a) == Fresh(wxClaim[MsgOf[a]]) \/ MsgOf[a] \in processed

Duplicate(a) ==
  Fresh(claim[K(a)]) \/ Fresh(wxClaim[MsgOf[a]]) \/ MsgOf[a] \in processed

\* wechatReply.ensureDedup
PersistDedup ==
  /\ Serving({"dedup"})
  /\ LET a   == Head(inbox).a
         dup == Duplicate(a)
     IN /\ IF dup THEN UNCHANGED <<claim, wxClaim>>
                  ELSE /\ claim' = [claim EXCEPT ![K(a)] = 0]
                       /\ wxClaim' = [wxClaim EXCEPT ![MsgOf[a]] = 0]
        /\ IF pc[a] # "dedup" THEN UNCHANGED <<pc, timer>>
           ELSE Move(a, IF dup THEN "duplicate" ELSE "request")
  /\ inbox' = Tail(inbox)
  /\ UNCHANGED <<wire, job, ledger, processed, rows, dead, cache,
                 up, crashes>>

\* (mutant) a row that is sent may be sent again
SentMayRepeat(row) ==
  IF row.status = "pending" /\ Fresh(row.age) THEN "inflight" ELSE "execute"

\* What recordPending answers for a row: may the send go ahead?
GateVerdict(row) ==
  IF row.status = "sent" THEN "already"
  ELSE IF row.status = "pending" /\ Fresh(row.age) THEN "inflight"
  ELSE "execute"

\* qianfanSend.recordPending, and what the sender does with the answer: a
\* row that is already sent is reported as a success once more.
PersistPend ==
  /\ Serving({"pend"})
  /\ LET a   == Head(inbox).a
         row == ledger[K(a)]
         v   == GateVerdict(row)
     IN /\ ledger' = IF v # "execute" THEN ledger
                     ELSE [ledger EXCEPT ![K(a)] =
                             [status |-> "pending", age |-> row.age,
                              wx |-> MsgOf[a]]]
        /\ IF pc[a] # "gate" THEN UNCHANGED <<pc, timer>> ELSE Move(a, v)
        /\ inbox' = IF pc[a] = "gate" /\ v = "already"
                      THEN Append(Tail(inbox), [op |-> "ok", a |-> a])
                      ELSE Tail(inbox)
  /\ UNCHANGED <<wire, job, claim, wxClaim, processed, rows, dead,
                 cache, up, crashes>>

CacheKey(kind, a) ==
  <<kind, IF kind \in {"handled", "missing", "unclaimed"}
            THEN MsgOf[a] ELSE K(a)>>

\* handlePersistRequest: an action whose key is cached is not executed.
Once(kind, a, effects) ==
  IF CacheKey(kind, a) \in cache THEN <<>> ELSE Append(effects, kind)

Plan(op, a) ==
  CASE op = "ok"   -> Once("success", a, <<"markSent">>)
                        \o Once("sentRow", a, <<"rowSent">>)
                        \o Once("handled", a, <<"markHandled">>)
    [] op = "fail" -> Once("fail", a, <<"markFailed", "freeClaim">>)
                        \o Once("failRow", a, <<"rowFailed">>)
                        \o Once("sendDead", a, <<"deadLetter">>)
    [] OTHER       -> Once(op, a, <<"deadLetter">>)

PersistBegin ==
  /\ Serving(Op \ {"dedup", "pend"})
  /\ LET plan == Plan(Head(inbox).op, Head(inbox).a)
     IN /\ job' = plan
        /\ inbox' = IF plan = <<>> THEN Tail(inbox) ELSE inbox
  /\ UNCHANGED <<pc, timer, wire, durable, processed, up, crashes>>

\* One durable write, and the in-memory set that goes with it.
ApplyWrite(w, a) ==
  LET k == K(a)  m == MsgOf[a]  wx == ledger[k].wx IN
  /\ ledger' =
       IF w \in {"markSent", "markFailed"} /\ ledger[k].status # "none"
         THEN [ledger EXCEPT ![k].status =
                                IF w = "markSent" THEN "sent" ELSE "failed"]
         ELSE ledger
  /\ claim' = IF w = "freeClaim" THEN [claim EXCEPT ![k] = Expired] ELSE claim
  /\ wxClaim' =
       CASE w = "markHandled"                -> [wxClaim EXCEPT ![m] = 0]
         [] w = "freeClaim" /\ wx # "none"   -> [wxClaim EXCEPT ![wx] = Expired]
         [] OTHER                            -> wxClaim
  /\ processed' =
       CASE w = "markHandled" -> processed \cup {m}
         [] w = "freeClaim"   -> processed \ {wx}
         [] OTHER             -> processed
  /\ rows' = IF w \in {"rowSent", "rowFailed"} THEN rows \cup {m} ELSE rows
  /\ dead' = IF w = "deadLetter" THEN dead \cup {a} ELSE dead
  /\ cache' = IF w \in Kind THEN cache \cup {CacheKey(w, a)} ELSE cache

\* (mutant) the message is taken off the inbox with the first write
TakenTooEarly ==
  /\ "persistence" \in up /\ job # <<>>
  /\ ApplyWrite(Head(job), Head(inbox).a)
  /\ job' = Tail(job)
  /\ inbox' = Tail(inbox)
  /\ UNCHANGED <<pc, timer, wire, up, crashes>>

PersistWrite ==
  /\ "persistence" \in up /\ job # <<>>
  /\ ApplyWrite(Head(job), Head(inbox).a)
  /\ job' = Tail(job)
  /\ inbox' = IF Tail(job) = <<>> THEN Tail(inbox) ELSE inbox
  /\ UNCHANGED <<pc, timer, wire, up, crashes>>

(***************************************************************************)
(* A worker process dies and the supervisor starts it again.  What it held *)
(* in memory is gone, what was on its way to it is gone; files stay.       *)
(***************************************************************************)
Crash(w) ==
  /\ w \in up /\ crashes < MaxCrash
  /\ up' = up \ {w}
  /\ crashes' = crashes + 1
  /\ LET held(a) == pc[a] \in DOMAIN Place /\ Place[pc[a]] = w
     IN /\ pc' = [a \in Attempt |-> IF held(a) THEN "lost" ELSE pc[a]]
        /\ timer' = [a \in Attempt |-> IF held(a) THEN 0 ELSE timer[a]]
  /\ wire' = [a \in Attempt |->
                IF w = "listener" /\ wire[a] = "late" THEN "none" ELSE wire[a]]
  /\ IF w = "persistence"
       THEN inbox' = <<>> /\ job' = <<>> /\ processed' = {}
       ELSE UNCHANGED <<inbox, job, processed>>
  /\ UNCHANGED durable

\* persistence fills its set from every row of sent-replies.json.
Restart(w) ==
  /\ w \in Worker \ up
  /\ up' = up \cup {w}
  /\ processed' = IF w = "persistence" THEN rows ELSE processed
  /\ UNCHANGED <<pc, timer, wire, inbox, job, durable, crashes>>

(***************************************************************************)
(* Time passes only when no timer is overdue and no hop is under way.      *)
(***************************************************************************)
Timed(a) == pc[a] \in DOMAIN Limit

Tick ==
  /\ \A a \in Attempt : /\ pc[a] \notin Hops
                        /\ Timed(a) => timer[a] < Limit[pc[a]]
  /\ Prompt => inbox = <<>>
  /\ timer' = [a \in Attempt |-> IF Timed(a) THEN timer[a] + 1 ELSE timer[a]]
  /\ claim' = [k \in Key |-> Older(claim[k])]
  /\ wxClaim' = [m \in Msg |-> Older(wxClaim[m])]
  /\ ledger' = [k \in Key |-> IF ledger[k].status = "none" THEN ledger[k]
                              ELSE [ledger[k] EXCEPT !.age = Older(@)]]
  /\ UNCHANGED <<pc, wire, inbox, job, processed, rows, dead, cache,
                 up, crashes>>

AttemptStep(a) ==
  \/ Deliver(a) \/ LookupFound(a) \/ LookupMissing(a) \/ DedupTimeout(a)
  \/ SenderReceive(a) \/ GateTimeout(a)
  \/ ListenerReceive(a) \/ WireSend(a) \/ SendAck(a) \/ SendFail(a)
  \/ SendTimeout(a) \/ LateSend(a)

PersistStep == PersistDedup \/ PersistPend \/ PersistBegin \/ PersistWrite

Next ==
  \/ \E a \in Attempt : AttemptStep(a)
  \/ PersistStep
  \/ \E w \in Worker : Crash(w) \/ Restart(w)
  \/ Tick

Spec == Init /\ [][Next]_vars

(***************************************************************************)
(* Fairness: workers handle what reaches them, timers fire, time passes,   *)
(* and the supervisor restarts what died.  Nothing makes an ACK arrive.    *)
(***************************************************************************)
Fairness ==
  /\ \A a \in Attempt :
       /\ WF_vars(LookupFound(a) \/ LookupMissing(a))
       /\ WF_vars(SenderReceive(a)) /\ WF_vars(ListenerReceive(a))
       /\ WF_vars(DedupTimeout(a)) /\ WF_vars(GateTimeout(a))
       /\ WF_vars(SendTimeout(a))
  /\ WF_vars(PersistStep)
  /\ \A w \in Worker : WF_vars(Restart(w))
  /\ WF_vars(Tick)

FairSpec == Spec /\ Fairness

(***************************************************************************)
(* Safety                                                                  *)
(***************************************************************************)

\* Two attempts to send the same text for the same reply id are never under
\* way together, from the moment one has taken the claim until its result is
\* published: a second copy, or a user's retry, waits for the first to end.
OneAtATime ==
  \A a, b \in Attempt :
    a # b /\ K(a) = K(b) => ~(pc[a] \in Active /\ pc[b] \in Active)

\* While an attempt is with the listener its row in the ledger is pending: no
\* late result, late request or restart has turned it into something that
\* would let another one pass, or make its own result mean nothing.
LedgerShowsSend ==
  \A a \in Attempt :
    pc[a] \in {"execute", "sending"} => ledger[K(a)].status = "pending"

\* A row that says "sent" is taken back only by an attempt that never reached
\* the gate because persistence was slow (persist_failed); a send that really
\* ran and failed never takes back another one's success.
SentTakenBackOnlyByRefusal ==
  [][\A k \in Key :
       ledger[k].status = "sent" /\ ledger'[k].status # "sent"
         => pc[Head(inbox).a] = "gateFailed"]_vars

\* The promise of SendSlot: only one attempt holds a key, and no verdict is
\* written behind its back.
Holder(k) == IF \E a \in Attempt : K(a) = k /\ pc[a] \in Active
               THEN CHOOSE a \in Attempt : K(a) = k /\ pc[a] \in Active
               ELSE "nobody"

Slot == INSTANCE SendSlot WITH
          Nobody  <- "nobody",
          holder  <- [k \in Key |-> Holder(k)],
          verdict <- [k \in Key |-> ledger[k].status]

KeepsSlot == Slot!Spec

\* With a healthy persistence worker: the buyer's side acknowledges the text
\* of one reply at most once, however often WeChat or the user repeats it.
AckedOnce ==
  \A a, b \in Attempt :
    a # b /\ K(a) = K(b) => ~(pc[a] = "acked" /\ pc[b] = "acked")

\* The same for copies of one WeChat message.
MessageAckedOnce ==
  \A a, b \in Attempt :
    a # b /\ MsgOf[a] = MsgOf[b] => ~(pc[a] = "acked" /\ pc[b] = "acked")

\* A reply that is dropped without a word repeats one that was handed on.
DroppedHasOriginal ==
  \A b \in Attempt : pc[b] = "duplicate" =>
    \E a \in Attempt :
      /\ a # b /\ K(a) = K(b)
      /\ pc[a] \in (Active \cup Settled) \ {"missing", "unclaimed", "duplicate"}

(***************************************************************************)
(* Why the two invariants hold: the parts of an inductive invariant.       *)
(***************************************************************************)
Result(item) == item.op \in {"ok", "fail"}

\* The claim of a running attempt is never older than its stage allows.
LeaseRunning ==
  \A a \in Attempt :
    /\ Timed(a) => timer[a] <= Limit[pc[a]]
    /\ pc[a] = "request" => claim[K(a)] = 0
    /\ pc[a] = "gate"    => claim[K(a)] <= timer[a]
    /\ pc[a] = "execute" => claim[K(a)] <= Req
    /\ pc[a] = "sending" => claim[K(a)] <= Req + timer[a]

\* The results that persistence has not handled yet belong to attempts that
\* have ended, one for a key.
ResultsAreOver ==
  \A i \in 1..Len(inbox) : Result(inbox[i]) =>
    /\ \A a \in Attempt : pc[a] \in Active => K(a) # K(inbox[i].a)
    /\ \A j \in 1..Len(inbox) :
         j # i /\ Result(inbox[j]) => K(inbox[j].a) # K(inbox[i].a)

\* A claim request that persistence will see before such a result, and whose
\* requester still waits, comes while the lease is running.
OvertakenInTime ==
  \A i, j \in 1..Len(inbox) :
    /\ i < j /\ Result(inbox[j]) /\ K(inbox[j].a) = K(inbox[i].a)
    /\ inbox[i].op = "dedup" /\ pc[inbox[i].a] = "dedup"
    => claim[K(inbox[i].a)] <= Req + SendMax + timer[inbox[i].a]

\* Claim requests come from attempts that have looked their reply id up.
RequestsAreKnown ==
  \A i \in 1..Len(inbox) :
    inbox[i].op = "dedup" => pc[inbox[i].a] \notin {"idle", "lookup"}

\* Verdicts are written for a result, and the claim freed for a failed one.
WritesHaveCause ==
  \A i \in 1..Len(job) :
    job[i] \in {"markSent", "markFailed", "freeClaim"} => Result(Head(inbox))

\* One attempt at a time because its lease cannot end before it does.
RelayInv ==
  /\ LeaseRunning /\ OneAtATime /\ ResultsAreOver /\ OvertakenInTime
  /\ RequestsAreKnown /\ WritesHaveCause /\ LedgerShowsSend

\* However slow persistence is, as long as no worker crashes no failed reply is
\* forgotten: once its result is handled there is a dead letter for the text,
\* and if the result was taken for a repeated one the first letter is there.
FailureOnRecord ==
  \A a \in Attempt :
    crashes = 0 /\ pc[a] \in {"missing", "unclaimed", "failed", "gateFailed"} =>
      \/ \E i \in DOMAIN inbox : inbox[i].a = a
      \/ \E b \in dead : K(b) = K(a)

\* With a healthy persistence worker every delivered reply comes to an end
\* that the code reports: it is not forgotten in a timer or a queue.
Ends == {"missing", "duplicate", "inflight", "already", "failed", "acked"}
EveryReplyEnds == \A a \in Attempt : pc[a] = "lookup" ~> pc[a] \in Ends
=============================================================================
