--------------------------- MODULE ReplyRelayProofs ---------------------------
(***************************************************************************)
(* That one text is never on its way to the buyer twice at once, for any   *)
(* set of attempts, messages and keys, any crashes and any delays; that    *)
(* the four workers thereby keep the promise of SendSlot: the attempts     *)
(* that are under way are the holders, and the ledger's verdicts change    *)
(* only where the slot allows it; and who alone may take back a "sent".    *)
(*                                                                         *)
(* Then, that no failed reply is forgotten, and, with a persistence worker *)
(* that answers in time, that a text is acknowledged once and none is      *)
(* dropped as a repetition of nothing.                                     *)
(***************************************************************************)
EXTENDS ReplyRelay, SequenceTheorems, TLAPS

USE DEF Result

(***************************************************************************)
(* Lemmas about the operators.                                             *)
(***************************************************************************)
LEMMA KeyType == \A a \in Attempt : K(a) \in Key /\ MsgOf[a] \in Msg
BY DataAssumption DEF K

LEMMA LimitCases ==
  /\ DOMAIN Limit = {"dedup", "gate", "sending"}
  /\ Limit["dedup"] = Req /\ Limit["gate"] = Req /\ Limit["sending"] = SendMax
BY DEF Limit

LEMMA AgeType ==
  /\ 0 \in Age /\ Expired \in Age /\ Age \subseteq Nat
  /\ \A x \in Age : Older(x) \in Age /\ Older(x) <= x + 1 /\ Older(x) >= x
BY TimeAssumption DEF Age, Expired, Older

LEMMA PostType ==
  ASSUME NEW q \in Seq(Item), NEW a \in Attempt, NEW op \in Op
  PROVE  Post(q, op, a) \in Seq(Item) /\ (q # <<>> => Post(q, op, a) # <<>>)
<1>1. [op |-> op, a |-> a] \in Item
  BY DEF Item
<1>2. /\ Append(q, [op |-> op, a |-> a]) \in Seq(Item)
      /\ Append(q, [op |-> op, a |-> a]) # <<>>
  BY <1>1, AppendProperties
<1> QED
  BY <1>2 DEF Post

LEMMA OnceType ==
  ASSUME NEW kind \in Kind, NEW a, NEW effects \in Seq(Effect)
  PROVE  Once(kind, a, effects) \in Seq(Write)
<1>1. effects \in Seq(Write) /\ kind \in Write
  BY DEF Write
<1>2. Append(effects, kind) \in Seq(Write)
  BY <1>1
<1> QED
  BY <1>2 DEF Once

LEMMA ConcatType ==
  ASSUME NEW S, NEW x \in Seq(S), NEW y \in Seq(S), NEW z \in Seq(S)
  PROVE  x \o y \o z \in Seq(S)
OBVIOUS

\* A handler plans only writes, and verdicts only for a result.
LEMMA PlanType ==
  ASSUME NEW op \in Op \ {"dedup", "pend"}, NEW a \in Attempt
  PROVE  /\ Plan(op, a) \in Seq(Write)
         /\ op \notin {"ok", "fail"} => \A i \in 1..Len(Plan(op, a)) :
              Plan(op, a)[i] \notin {"markSent", "markFailed", "freeClaim"}
<1>1. /\ {"success", "sentRow", "handled", "fail", "failRow", "sendDead",
           "missing", "unclaimed"} \subseteq Kind
      /\ <<"markSent">> \in Seq(Effect) /\ <<"rowSent">> \in Seq(Effect)
      /\ <<"markHandled">> \in Seq(Effect) /\ <<"rowFailed">> \in Seq(Effect)
      /\ <<"markFailed", "freeClaim">> \in Seq(Effect)
      /\ <<"deadLetter">> \in Seq(Effect)
  BY DEF Kind, Effect
<1>2. CASE op = "ok"
  <2> DEFINE x == Once("success", a, <<"markSent">>)
             y == Once("sentRow", a, <<"rowSent">>)
             z == Once("handled", a, <<"markHandled">>)
  <2>1. x \in Seq(Write) /\ y \in Seq(Write) /\ z \in Seq(Write)
    BY <1>1, OnceType
  <2> HIDE DEF x, y, z
  <2>2. Plan(op, a) = x \o y \o z
    BY <1>2 DEF Plan, x, y, z
  <2> QED
    BY <1>2, <2>1, <2>2, ConcatType
<1>3. CASE op = "fail"
  <2> DEFINE x == Once("fail", a, <<"markFailed", "freeClaim">>)
             y == Once("failRow", a, <<"rowFailed">>)
             z == Once("sendDead", a, <<"deadLetter">>)
  <2>1. x \in Seq(Write) /\ y \in Seq(Write) /\ z \in Seq(Write)
    BY <1>1, OnceType
  <2> HIDE DEF x, y, z
  <2>2. Plan(op, a) = x \o y \o z
    BY <1>3 DEF Plan, x, y, z
  <2> QED
    BY <1>3, <2>1, <2>2, ConcatType
<1>4. CASE op \in {"missing", "unclaimed"}
  <2>1. Plan(op, a) = Once(op, a, <<"deadLetter">>)
    BY <1>4 DEF Plan
  <2>2. Plan(op, a) \in Seq(Write)
    BY <1>1, <1>4, <2>1, OnceType
  <2>3. ASSUME NEW i \in 1..Len(Plan(op, a))
        PROVE  Plan(op, a)[i] \in {"deadLetter", op}
    BY <2>1 DEF Once
  <2> QED
    BY <1>4, <2>2, <2>3
<1> QED
  BY <1>2, <1>3, <1>4 DEF Op

LEMMA MoveType ==
  ASSUME TypeOK, NEW a \in Attempt, NEW s \in Stage, Move(a, s)
  PROVE  pc' \in [Attempt -> Stage] /\ timer' \in [Attempt -> Nat]
BY DEF TypeOK, Move

(***************************************************************************)
(* Types                                                                   *)
(***************************************************************************)
LEMMA TypeInit == Init => TypeOK
BY AgeType DEF Init, TypeOK, Stage, Row, NoRow

LEMMA StageType ==
  /\ {"idle", "lookup", "dedup"} \subseteq Stage
  /\ Active \subseteq Stage /\ Settled \subseteq Stage
  /\ Active = {"request", "execute", "gate", "sending"}
BY DEF Stage, Active, Hops

LEMMA TypeAttempt ==
  ASSUME TypeOK, NEW a \in Attempt, AttemptStep(a)
  PROVE  TypeOK'
<1> USE StageType
<1>0. /\ inbox \in Seq(Item)
      /\ \A op \in Op : /\ Post(inbox, op, a) \in Seq(Item)
                        /\ inbox # <<>> => Post(inbox, op, a) # <<>>
  BY PostType DEF TypeOK
<1>1. CASE Deliver(a)
  <2>1. pc' \in [Attempt -> Stage] /\ timer' \in [Attempt -> Nat]
    BY <1>1, MoveType DEF Deliver, Settled
  <2> QED
    BY <1>1, <2>1 DEF Deliver, TypeOK, durable
<1>2. CASE LookupFound(a)
  <2>1. pc' \in [Attempt -> Stage] /\ timer' \in [Attempt -> Nat]
    BY <1>2, MoveType DEF LookupFound
  <2> QED
    BY <1>0, <1>2, <2>1 DEF LookupFound, TypeOK, durable, Op
<1>3. CASE LookupMissing(a)
  <2>1. pc' \in [Attempt -> Stage] /\ timer' \in [Attempt -> Nat]
    BY <1>3, MoveType DEF LookupMissing, Settled
  <2> QED
    BY <1>0, <1>3, <2>1 DEF LookupMissing, TypeOK, durable, Op
<1>4. CASE DedupTimeout(a)
  <2>1. pc' \in [Attempt -> Stage] /\ timer' \in [Attempt -> Nat]
    BY <1>4, MoveType DEF DedupTimeout, Settled
  <2> QED
    BY <1>0, <1>4, <2>1 DEF DedupTimeout, TypeOK, durable, Op
<1>5. CASE SenderReceive(a)
  <2>1. pc' \in [Attempt -> Stage] /\ timer' \in [Attempt -> Nat]
    BY <1>5, MoveType DEF SenderReceive, Settled
  <2> QED
    BY <1>0, <1>5, <2>1 DEF SenderReceive, TypeOK, durable, Op
<1>6. CASE GateTimeout(a)
  <2>1. pc' \in [Attempt -> Stage] /\ timer' \in [Attempt -> Nat]
    BY <1>6, MoveType DEF GateTimeout, Settled
  <2> QED
    BY <1>0, <1>6, <2>1 DEF GateTimeout, TypeOK, durable, Op
<1>7. CASE ListenerReceive(a)
  <2>1. pc' \in [Attempt -> Stage] /\ timer' \in [Attempt -> Nat]
    BY <1>7, MoveType DEF ListenerReceive, Settled
  <2> QED
    BY <1>7, <2>1 DEF ListenerReceive, TypeOK, durable
<1>8. CASE WireSend(a) \/ LateSend(a)
  BY <1>8 DEF WireSend, LateSend, TypeOK, durable
<1>9. CASE SendAck(a)
  <2>1. pc' \in [Attempt -> Stage] /\ timer' \in [Attempt -> Nat]
    BY <1>9, MoveType DEF SendAck, Settled
  <2> QED
    BY <1>0, <1>9, <2>1 DEF SendAck, TypeOK, durable, Op
<1>10. CASE SendFail(a)
  <2>1. pc' \in [Attempt -> Stage] /\ timer' \in [Attempt -> Nat]
    BY <1>10, MoveType DEF SendFail, Settled
  <2> QED
    BY <1>0, <1>10, <2>1 DEF SendFail, TypeOK, durable, Op
<1>11. CASE SendTimeout(a)
  <2>1. pc' \in [Attempt -> Stage] /\ timer' \in [Attempt -> Nat]
    BY <1>11, MoveType DEF SendTimeout, Settled
  <2>2. wire' \in [Attempt -> {"none", "late", "sent"}]
    BY <1>11 DEF SendTimeout, TypeOK
  <2> QED
    BY <1>0, <1>11, <2>1, <2>2 DEF SendTimeout, TypeOK, durable, Op
<1> QED
  BY <1>1, <1>2, <1>3, <1>4, <1>5, <1>6, <1>7, <1>8, <1>9, <1>10, <1>11
     DEF AttemptStep

LEMMA HeadType ==
  ASSUME TypeOK, inbox # <<>>
  PROVE  /\ Head(inbox) \in Item /\ Tail(inbox) \in Seq(Item)
         /\ Head(inbox).a \in Attempt /\ Head(inbox).op \in Op
         /\ Head(inbox) = inbox[1] /\ Len(inbox) \in Nat /\ Len(inbox) >= 1
<1>1. inbox \in Seq(Item)
  BY DEF TypeOK
<1>2. Head(inbox) \in Item /\ Tail(inbox) \in Seq(Item)
  BY <1>1
<1> QED
  BY <1>1, <1>2 DEF Item

LEMMA TypePersist ==
  ASSUME TypeOK, PersistStep
  PROVE  TypeOK'
<1> DEFINE a == Head(inbox).a
<1> USE StageType
<1>1. CASE PersistDedup
  <2>1. a \in Attempt /\ inbox' \in Seq(Item)
    BY <1>1, HeadType DEF PersistDedup, Serving
  <2>2. K(a) \in Key /\ MsgOf[a] \in Msg
    BY <2>1, KeyType
  <2>3. claim' \in [Key -> Age] /\ wxClaim' \in [Msg -> Age]
    BY <1>1, <2>1, <2>2, AgeType DEF PersistDedup, TypeOK
  <2>4. pc' \in [Attempt -> Stage] /\ timer' \in [Attempt -> Nat]
    <3>1. \/ UNCHANGED <<pc, timer>>
          \/ \E s \in {"duplicate", "request"} : Move(a, s)
      BY <1>1 DEF PersistDedup
    <3> QED
      BY <2>1, <3>1, MoveType DEF TypeOK, Settled
  <2> QED
    BY <1>1, <2>1, <2>3, <2>4 DEF PersistDedup, Serving, TypeOK
<1>2. CASE PersistPend
  <2>1. a \in Attempt /\ Tail(inbox) \in Seq(Item)
    BY <1>2, HeadType DEF PersistPend, Serving
  <2>2. K(a) \in Key /\ MsgOf[a] \in Msg
    BY <2>1, KeyType
  <2>3. GateVerdict(ledger[K(a)]) \in {"already", "inflight", "execute"}
    BY DEF GateVerdict
  <2>4. ledger[K(a)] \in Row
    BY <2>2 DEF TypeOK
  <2>5. [status |-> "pending", age |-> ledger[K(a)].age, wx |-> MsgOf[a]] \in Row
    BY <2>2, <2>4 DEF Row
  <2>6. ledger' \in [Key -> Row]
    <3>1. \/ ledger' = ledger
          \/ ledger' = [ledger EXCEPT ![K(a)] = [status |-> "pending",
                            age |-> ledger[K(a)].age, wx |-> MsgOf[a]]]
      BY <1>2 DEF PersistPend
    <3>2. ledger \in [Key -> Row]
      BY DEF TypeOK
    <3> QED
      BY <2>2, <2>5, <3>1, <3>2
  <2>7. pc' \in [Attempt -> Stage] /\ timer' \in [Attempt -> Nat]
    <3>1. \/ UNCHANGED <<pc, timer>>
          \/ Move(a, GateVerdict(ledger[K(a)]))
      BY <1>2 DEF PersistPend
    <3> QED
      BY <2>1, <2>3, <3>1, MoveType DEF TypeOK, Settled
  <2>8. [op |-> "ok", a |-> a] \in Item
    BY <2>1 DEF Item, Op
  <2>9. inbox' \in Seq(Item)
    BY <1>2, <2>1, <2>8 DEF PersistPend
  <2> QED
    BY <1>2, <2>6, <2>7, <2>9 DEF PersistPend, Serving, TypeOK
<1>3. CASE PersistBegin
  <2>1. /\ a \in Attempt /\ inbox \in Seq(Item) /\ Tail(inbox) \in Seq(Item)
        /\ Head(inbox).op \in Op \ {"dedup", "pend"}
    BY <1>3, HeadType DEF PersistBegin, Serving, TypeOK
  <2>2. /\ job' \in Seq(Write) /\ inbox' \in Seq(Item)
        /\ job' # <<>> => inbox' # <<>>
    BY <1>3, <2>1, PlanType DEF PersistBegin, Serving
  <2> QED
    BY <1>3, <2>2 DEF PersistBegin, TypeOK, durable
<1>4. CASE PersistWrite
  <2> DEFINE w == Head(job)
             k == K(a)
             m == MsgOf[a]
             key == CacheKey(w, a)
  <2>1. /\ a \in Attempt /\ inbox \in Seq(Item) /\ Tail(inbox) \in Seq(Item)
        /\ inbox # <<>> /\ job \in Seq(Write) /\ job # <<>>
    BY <1>4, HeadType DEF PersistWrite, TypeOK
  <2>2. /\ job' \in Seq(Write) /\ inbox' \in Seq(Item)
        /\ job' # <<>> => inbox' # <<>>
    BY <1>4, <2>1 DEF PersistWrite
  <2>3. k \in Key /\ m \in Msg
    BY <2>1, KeyType
  <2>4. w \in Kind => key \in Kind \X (Key \cup Msg)
    BY <2>3 DEF CacheKey
  <2>5. ApplyWrite(w, a)
    BY <1>4 DEF PersistWrite
  <2>6. ledger' \in [Key -> Row]
    <3>1. ledger[k] \in Row
      BY <2>3 DEF TypeOK
    <3>2. \A s \in {"sent", "failed"} : [ledger[k] EXCEPT !.status = s] \in Row
      BY <3>1 DEF Row
    <3>3. \A s \in {"sent", "failed"} :
            [ledger EXCEPT ![k].status = s] \in [Key -> Row]
      BY <2>3, <3>2 DEF TypeOK
    <3> QED
      BY <2>5, <3>3 DEF ApplyWrite, TypeOK
  <2>7. claim' \in [Key -> Age]
    BY <2>5, <2>3, AgeType DEF ApplyWrite, TypeOK
  <2>8. wxClaim' \in [Msg -> Age]
    <3>1. ledger[k] \in Row
      BY <2>3 DEF TypeOK
    <3>2. ledger[k].wx # "none" => ledger[k].wx \in Msg
      BY <3>1 DEF Row
    <3> QED
      BY <2>5, <2>3, <3>2, AgeType DEF ApplyWrite, TypeOK
  <2>9. processed' \subseteq Msg /\ rows' \subseteq Msg /\ dead' \subseteq Attempt
    BY <2>1, <2>3, <2>5 DEF ApplyWrite, TypeOK
  <2>10. cache' \subseteq Kind \X (Key \cup Msg)
    BY <2>4, <2>5 DEF ApplyWrite, TypeOK
  <2> QED
    BY <1>4, <2>2, <2>6, <2>7, <2>8, <2>9, <2>10 DEF PersistWrite, TypeOK
<1> QED
  BY <1>1, <1>2, <1>3, <1>4 DEF PersistStep

LEMMA TypeStep == TypeOK /\ [Next]_vars => TypeOK'
<1> SUFFICES ASSUME TypeOK, [Next]_vars PROVE TypeOK'
  OBVIOUS
<1> USE StageType
<1>1. ASSUME NEW a \in Attempt, AttemptStep(a) PROVE TypeOK'
  BY <1>1, TypeAttempt
<1>2. CASE PersistStep
  BY <1>2, TypePersist
<1>3. ASSUME NEW w \in Worker, Crash(w) PROVE TypeOK'
  <2>1. pc' \in [Attempt -> Stage] /\ timer' \in [Attempt -> Nat]
    BY <1>3 DEF Crash, TypeOK, Settled
  <2>2. wire' \in [Attempt -> {"none", "late", "sent"}]
    BY <1>3 DEF Crash, TypeOK
  <2>3. /\ inbox' \in Seq(Item) /\ job' \in Seq(Write)
        /\ job' # <<>> => inbox' # <<>>
        /\ processed' \subseteq Msg
    <3>1. CASE w = "persistence"
      BY <1>3, <3>1 DEF Crash
    <3>2. CASE w # "persistence"
      BY <1>3, <3>2 DEF Crash, TypeOK
    <3> QED
      BY <3>1, <3>2
  <2> QED
    BY <1>3, <2>1, <2>2, <2>3 DEF Crash, TypeOK, durable
<1>4. ASSUME NEW w \in Worker, Restart(w) PROVE TypeOK'
  BY <1>4 DEF Restart, TypeOK, durable
<1>5. CASE Tick
  <2>1. ledger' \in [Key -> Row]
    <3> SUFFICES ASSUME NEW k \in Key
                 PROVE  ledger[k] \in Row
                        /\ [ledger[k] EXCEPT !.age = Older(@)] \in Row
      BY <1>5 DEF Tick, TypeOK
    <3>1. ledger[k] \in Row
      BY DEF TypeOK
    <3> QED
      BY <3>1, AgeType DEF Row
  <2>2. claim' \in [Key -> Age] /\ wxClaim' \in [Msg -> Age]
    BY <1>5, AgeType DEF Tick, TypeOK
  <2>3. timer' \in [Attempt -> Nat]
    BY <1>5 DEF Tick, TypeOK
  <2> QED
    BY <1>5, <2>1, <2>2, <2>3 DEF Tick, TypeOK
<1>6. CASE UNCHANGED vars
  BY <1>6 DEF TypeOK, vars, durable
<1> QED
  BY <1>1, <1>2, <1>3, <1>4, <1>5, <1>6 DEF Next

\* Every variable keeps its type, whatever crashes and however late messages
\* are handled.
THEOREM Typing == Spec => []TypeOK
BY TypeInit, TypeStep, PTL DEF Spec

(***************************************************************************)
(* One attempt at a time: RelayInv is inductive.                           *)
(***************************************************************************)
LEMMA RelayInit == Init => RelayInv
<1> SUFFICES ASSUME Init PROVE RelayInv
  OBVIOUS
<1>1. /\ \A a \in Attempt : pc[a] = "idle"
      /\ inbox = <<>> /\ job = <<>> /\ Len(inbox) = 0 /\ Len(job) = 0
  BY DEF Init
<1>2. LeaseRunning
  BY <1>1, LimitCases DEF LeaseRunning, Timed
<1>3. OneAtATime /\ LedgerShowsSend
  BY <1>1, StageType DEF OneAtATime, LedgerShowsSend
<1>4. ResultsAreOver /\ OvertakenInTime /\ RequestsAreKnown /\ WritesHaveCause
  BY <1>1 DEF ResultsAreOver, OvertakenInTime, RequestsAreKnown, WritesHaveCause
<1> QED
  BY <1>2, <1>3, <1>4 DEF RelayInv

LEMMA ItemTypes ==
  ASSUME TypeOK
  PROVE  \A i \in 1..Len(inbox) : inbox[i] \in Item /\ inbox[i].a \in Attempt
<1>1. \A i \in 1..Len(inbox) : inbox[i] \in Item
  BY DEF TypeOK
<1> QED
  BY <1>1 DEF Item

\* What an attempt may have used of its lease when its result is posted.
LEMMA LeaseBound ==
  ASSUME TypeOK, LeaseRunning, NEW a \in Attempt, pc[a] \in Active
  PROVE  claim[K(a)] \in Nat /\ claim[K(a)] <= Req + SendMax
<1> USE StageType, LimitCases, TimeAssumption
<1>1. claim[K(a)] \in Nat /\ timer[a] \in Nat
  BY KeyType, AgeType DEF TypeOK
<1>2. CASE pc[a] = "request"
  BY <1>1, <1>2 DEF LeaseRunning
<1>3. CASE pc[a] = "gate"
  <2>1. claim[K(a)] <= timer[a] /\ timer[a] <= Req
    BY <1>3 DEF LeaseRunning, Timed
  <2> QED
    BY <1>1, <2>1
<1>4. CASE pc[a] = "execute"
  BY <1>1, <1>4 DEF LeaseRunning
<1>5. CASE pc[a] = "sending"
  <2>1. claim[K(a)] <= Req + timer[a] /\ timer[a] <= SendMax
    BY <1>5 DEF LeaseRunning, Timed
  <2> QED
    BY <1>1, <2>1
<1> QED
  BY <1>2, <1>3, <1>4, <1>5

LEMMA TailProps ==
  ASSUME TypeOK, inbox # <<>>
  PROVE  /\ Len(Tail(inbox)) = Len(inbox) - 1 /\ Len(inbox) \in Nat
         /\ \A i \in 1..Len(Tail(inbox)) :
              i + 1 \in 1..Len(inbox) /\ Tail(inbox)[i] = inbox[i + 1]
BY DEF TypeOK

\* An attempt goes to another stage, at most posting one message.
LEMMA MoveInv ==
  ASSUME TypeOK, RelayInv,
         NEW a \in Attempt, NEW s \in Stage, NEW op \in Op, Move(a, s),
         UNCHANGED <<claim, ledger, job>>,
         s \in Active => pc[a] \in Active /\ s \in {"gate", "sending"},
         s = "gate" => pc[a] = "request",
         s = "sending" => pc[a] = "execute",
         s # "idle", s = "lookup" => pc[a] = "idle", s = "dedup" => pc[a] = "lookup",
         \/ inbox' = inbox
         \/ /\ inbox' = Append(inbox, [op |-> op, a |-> a])
            /\ op \in {"ok", "fail"} => pc[a] \in {"gate", "sending"} /\ s \notin Active
            /\ op = "dedup" => s = "dedup"
  PROVE  RelayInv'
<1> USE StageType, LimitCases, KeyType, TimeAssumption
<1>0. /\ pc' = [pc EXCEPT ![a] = s] /\ timer' = [timer EXCEPT ![a] = 0]
      /\ pc \in [Attempt -> Stage] /\ timer \in [Attempt -> Nat]
      /\ claim \in [Key -> Age] /\ Age \subseteq Nat
  BY AgeType DEF Move, TypeOK
<1>1. LeaseRunning'
  BY <1>0 DEF LeaseRunning, Timed, RelayInv
<1>2. OneAtATime'
  BY <1>0 DEF OneAtATime, RelayInv
<1>3. LedgerShowsSend'
  BY <1>0 DEF LedgerShowsSend, RelayInv
<1>4. CASE inbox' = inbox
  <2>1. ResultsAreOver'
    BY <1>0, <1>4 DEF ResultsAreOver, RelayInv
  <2>2. OvertakenInTime'
    BY <1>0, <1>4, SMTT(30) DEF OvertakenInTime, RequestsAreKnown, RelayInv
  <2>3. RequestsAreKnown' /\ WritesHaveCause'
    BY <1>0, <1>4 DEF RequestsAreKnown, WritesHaveCause, RelayInv
  <2> QED
    BY <1>1, <1>2, <1>3, <2>1, <2>2, <2>3 DEF RelayInv
<1>5. CASE /\ inbox' = Append(inbox, [op |-> op, a |-> a])
           /\ op \in {"ok", "fail"} => pc[a] \in {"gate", "sending"} /\ s \notin Active
           /\ op = "dedup" => s = "dedup"
  <2> DEFINE n == Len(inbox)
             new == [op |-> op, a |-> a]
  <2>1. /\ n \in Nat /\ Len(inbox') = n + 1 /\ inbox'[n + 1] = new
        /\ \A i \in 1..n : inbox'[i] = inbox[i]
        /\ \A i \in 1..n : inbox[i].a \in Attempt
        /\ new.op = op /\ new.a = a
    <3>1. inbox \in Seq(Item) /\ new \in Item
      BY DEF TypeOK, Item
    <3>2. \A i \in 1..n : inbox[i] \in Item
      BY <3>1
    <3>3. \A item \in Item : item.a \in Attempt
      BY DEF Item
    <3> QED
      BY <1>5, <3>1, <3>2, <3>3, AppendProperties
  <2> HIDE DEF n, new
  <2>2. ResultsAreOver'
    BY <1>0, <1>5, <2>1 DEF n, ResultsAreOver, OneAtATime, RelayInv
  <2>3. OvertakenInTime'
    <3> SUFFICES ASSUME NEW i \in 1..n + 1, NEW j \in 1..n + 1, i < j,
                        Result(inbox'[j]), K(inbox'[j].a) = K(inbox'[i].a),
                        inbox'[i].op = "dedup", pc'[inbox'[i].a] = "dedup"
                 PROVE  claim[K(inbox'[i].a)] <= Req + SendMax + timer'[inbox'[i].a]
      BY <1>0, <2>1 DEF OvertakenInTime
    <3>1. i \in 1..n /\ inbox'[i] = inbox[i] /\ inbox[i].a \in Attempt
      BY <2>1
    <3>2. inbox[i].a # a
      BY <1>0, <3>1 DEF n, RequestsAreKnown, RelayInv
    <3>3. pc[inbox[i].a] = "dedup" /\ timer'[inbox[i].a] = timer[inbox[i].a]
      BY <1>0, <3>1, <3>2
    <3>4. CASE j \in 1..n
      BY <2>1, <3>1, <3>3, <3>4 DEF n, OvertakenInTime, RelayInv
    <3>5. CASE j = n + 1
      <4>1. K(a) = K(inbox[i].a) /\ pc[a] \in {"gate", "sending"}
        BY <1>5, <2>1, <3>1, <3>5
      <4>2. claim[K(a)] \in Nat /\ claim[K(a)] <= Req + SendMax
        BY <4>1, LeaseBound DEF RelayInv
      <4>3. timer[inbox[i].a] \in Nat
        BY <1>0, <3>1
      <4>4. claim[K(a)] <= Req + SendMax + timer[inbox[i].a]
        BY <4>2, <4>3, SMTT(30)
      <4> QED
        BY <3>1, <3>3, <4>1, <4>4
    <3> QED
      BY <2>1, <3>4, <3>5
  <2>4. RequestsAreKnown'
    BY <1>0, <1>5, <2>1 DEF n, RequestsAreKnown, RelayInv
  <2>5. WritesHaveCause'
    BY <1>5, <2>1 DEF n, WritesHaveCause, RelayInv, TypeOK
  <2> QED
    BY <1>1, <1>2, <1>3, <2>2, <2>3, <2>4, <2>5 DEF RelayInv
<1> QED
  BY <1>4, <1>5

LEMMA InvAttempt ==
  ASSUME TypeOK, RelayInv, NEW a \in Attempt, AttemptStep(a)
  PROVE  RelayInv'
<1> USE StageType
<1>1. CASE Deliver(a)
  BY <1>1, MoveInv DEF Deliver, Settled, durable, Op
<1>2. CASE LookupFound(a)
  BY <1>2, MoveInv DEF LookupFound, Post, durable, Op
<1>3. CASE LookupMissing(a)
  BY <1>3, MoveInv DEF LookupMissing, Post, Settled, durable, Op
<1>4. CASE DedupTimeout(a)
  BY <1>4, MoveInv DEF DedupTimeout, Post, Settled, durable, Op
<1>5. CASE SenderReceive(a)
  BY <1>5, MoveInv DEF SenderReceive, Post, Settled, durable, Op
<1>6. CASE GateTimeout(a)
  BY <1>6, MoveInv DEF GateTimeout, Post, Settled, durable, Op
<1>7. CASE ListenerReceive(a)
  BY <1>7, MoveInv DEF ListenerReceive, Settled, durable, Op
<1>8. CASE WireSend(a) \/ LateSend(a)
  BY <1>8 DEF WireSend, LateSend, durable, RelayInv, LeaseRunning, Timed,
     OneAtATime, ResultsAreOver, OvertakenInTime, RequestsAreKnown,
     WritesHaveCause, LedgerShowsSend
<1>9. CASE SendAck(a)
  BY <1>9, MoveInv DEF SendAck, Post, Settled, durable, Op
<1>10. CASE SendFail(a)
  BY <1>10, MoveInv DEF SendFail, Post, Settled, durable, Op
<1>11. CASE SendTimeout(a)
  BY <1>11, MoveInv DEF SendTimeout, Post, Settled, durable, Op
<1> QED
  BY <1>1, <1>2, <1>3, <1>4, <1>5, <1>6, <1>7, <1>8, <1>9, <1>10, <1>11
     DEF AttemptStep


\* A message is taken off the inbox and at most one attempt moves on.
LEMMA TakenInv ==
  ASSUME TypeOK, RelayInv, inbox # <<>>, inbox' = Tail(inbox),
         NEW a \in Attempt, a = Head(inbox).a,
         \/ UNCHANGED <<pc, timer>>
         \/ \E s \in Stage : Move(a, s) /\ pc[a] \notin {"idle", "lookup"}
                             /\ s \notin {"idle", "lookup", "dedup"}
  PROVE  RequestsAreKnown'
<1> SUFFICES ASSUME NEW i \in 1..Len(Tail(inbox)), inbox[i + 1].op = "dedup"
             PROVE  pc'[inbox[i + 1].a] \notin {"idle", "lookup"}
  BY TailProps DEF RequestsAreKnown
<1>1. inbox[i + 1].a \in Attempt /\ pc \in [Attempt -> Stage]
  BY TailProps, ItemTypes DEF TypeOK
<1>2. pc[inbox[i + 1].a] \notin {"idle", "lookup"}
  BY TailProps DEF RequestsAreKnown, RelayInv
<1> QED
  BY <1>1, <1>2 DEF Move

LEMMA InvDedup ==
  ASSUME TypeOK, RelayInv, PersistDedup
  PROVE  RelayInv'
<1> USE StageType, LimitCases, KeyType, TimeAssumption
<1>0. PICK a \in Attempt : a = Head(inbox).a
  BY HeadType DEF PersistDedup, Serving
<1>1. /\ inbox # <<>> /\ inbox' = Tail(inbox) /\ K(a) \in Key
      /\ job = <<>> /\ job' = <<>> /\ ledger' = ledger
      /\ inbox[1].op = "dedup" /\ inbox[1].a = a
      /\ pc \in [Attempt -> Stage] /\ timer \in [Attempt -> Nat]
      /\ claim \in [Key -> Nat] /\ claim[K(a)] \in Nat
  BY <1>0, HeadType, AgeType DEF PersistDedup, Serving, TypeOK
<1>2. \/ UNCHANGED <<claim, pc, timer>>
      \/ UNCHANGED claim /\ pc[a] = "dedup" /\ Move(a, "duplicate")
      \/ /\ claim' = [claim EXCEPT ![K(a)] = 0] /\ claim[K(a)] > TTL
         /\ \/ UNCHANGED <<pc, timer>>
            \/ pc[a] = "dedup" /\ Move(a, "request")
  <2>1. \/ UNCHANGED claim /\ (pc[a] # "dedup" => UNCHANGED <<pc, timer>>)
             /\ (pc[a] = "dedup" => Move(a, "duplicate"))
        \/ /\ claim' = [claim EXCEPT ![K(a)] = 0] /\ ~Fresh(claim[K(a)])
           /\ pc[a] # "dedup" => UNCHANGED <<pc, timer>>
           /\ pc[a] = "dedup" => Move(a, "request")
    BY <1>0 DEF PersistDedup, Duplicate
  <2>2. ~Fresh(claim[K(a)]) => claim[K(a)] > TTL
    BY <1>1 DEF Fresh
  <2> QED
    BY <2>1, <2>2
<1>3. \A b \in Attempt : pc[b] \in Active => claim[K(b)] <= TTL
  <2> SUFFICES ASSUME NEW b \in Attempt, pc[b] \in Active
               PROVE  claim[K(b)] <= TTL
    OBVIOUS
  <2>1. claim[K(b)] \in Nat /\ claim[K(b)] <= Req + SendMax
    BY LeaseBound DEF RelayInv
  <2> QED
    BY <2>1
<1>4. LeaseRunning'
  <2> SUFFICES ASSUME NEW b \in Attempt
               PROVE  /\ Timed(b)' => timer'[b] <= Limit[pc'[b]]
                      /\ pc'[b] = "request" => claim'[K(b)] = 0
                      /\ pc'[b] = "gate"    => claim'[K(b)] <= timer'[b]
                      /\ pc'[b] = "execute" => claim'[K(b)] <= Req
                      /\ pc'[b] = "sending" => claim'[K(b)] <= Req + timer'[b]
    BY DEF LeaseRunning
  <2>1. /\ timer[b] \in Nat /\ claim[K(b)] \in Nat /\ K(b) \in Key
        /\ claim'[K(b)] \in {0, claim[K(b)]}
    BY <1>1, <1>2
  <2>2. CASE b = a /\ pc[a] = "dedup" /\ Move(a, "request")
    BY <1>1, <1>2, <2>1, <2>2 DEF Move, Timed
  <2>3. CASE b = a /\ pc[a] = "dedup" /\ Move(a, "duplicate")
    BY <1>1, <1>2, <2>1, <2>3 DEF Move, Timed
  <2>4. CASE pc'[b] = pc[b] /\ timer'[b] = timer[b]
    BY <1>1, <2>1, <2>4 DEF LeaseRunning, RelayInv, Timed
  <2>5. \/ b = a /\ pc[a] = "dedup"
           /\ (Move(a, "request") \/ Move(a, "duplicate"))
        \/ pc'[b] = pc[b] /\ timer'[b] = timer[b]
    BY <1>1, <1>2 DEF Move
  <2>6. claim'[K(b)] # claim[K(b)] => claim'[K(b)] = 0
    BY <2>1
  <2> QED
    BY <2>2, <2>3, <2>4, <2>5
<1>5. OneAtATime'
  BY <1>1, <1>2, <1>3 DEF OneAtATime, RelayInv, Move
<1>6. LedgerShowsSend'
  BY <1>1, <1>2 DEF LedgerShowsSend, RelayInv, Move
<1>7. RequestsAreKnown'
  BY <1>0, <1>1, <1>2, TakenInv DEF Settled
<1>8. WritesHaveCause'
  BY <1>1 DEF WritesHaveCause
<1>9. ResultsAreOver'
  <2> SUFFICES ASSUME NEW i \in 1..Len(Tail(inbox)), Result(inbox[i + 1])
               PROVE  /\ \A b \in Attempt :
                           pc'[b] \in Active => K(b) # K(inbox[i + 1].a)
                      /\ \A j \in 1..Len(Tail(inbox)) :
                           j # i /\ Result(inbox[j + 1])
                             => K(inbox[j + 1].a) # K(inbox[i + 1].a)
    BY <1>1, TailProps DEF ResultsAreOver
  <2>1. /\ \A b \in Attempt : pc[b] \in Active => K(b) # K(inbox[i + 1].a)
        /\ \A j \in 1..Len(Tail(inbox)) :
             j # i /\ Result(inbox[j + 1])
               => K(inbox[j + 1].a) # K(inbox[i + 1].a)
    BY <1>1, TailProps DEF ResultsAreOver, RelayInv
  <2>2. pc[a] = "dedup" /\ K(inbox[i + 1].a) = K(a) => claim[K(a)] <= TTL
    <3> SUFFICES ASSUME pc[a] = "dedup", K(inbox[i + 1].a) = K(a)
                 PROVE  claim[K(a)] <= TTL
      OBVIOUS
    <3>1. 1 \in 1..Len(inbox) /\ i + 1 \in 1..Len(inbox) /\ 1 < i + 1
      BY <1>1, TailProps
    <3>2. claim[K(a)] <= Req + SendMax + timer[a]
      BY <1>1, <3>1 DEF OvertakenInTime, RelayInv
    <3>3. timer[a] <= Req
      BY <1>1 DEF LeaseRunning, Timed, RelayInv
    <3>4. timer[a] \in Nat /\ claim[K(a)] \in Nat
      BY <1>1
    <3> QED
      BY <3>2, <3>3, <3>4
  <2>3. K(a) \in Key /\ claim[K(a)] \in Nat
    BY <1>1
  <2>4. \A b \in Attempt : pc'[b] \in Active /\ pc[b] \notin Active =>
          b = a /\ pc[a] = "dedup" /\ claim[K(a)] > TTL
    BY <1>1, <1>2 DEF Move, Settled
  <2>5. \A b \in Attempt : pc'[b] \in Active => K(b) # K(inbox[i + 1].a)
    BY <2>1, <2>2, <2>3, <2>4
  <2> QED
    BY <2>1, <2>5
<1>10. OvertakenInTime'
  <2> SUFFICES ASSUME NEW i \in 1..Len(Tail(inbox)), NEW j \in 1..Len(Tail(inbox)),
                      i < j, Result(inbox[j + 1]),
                      K(inbox[j + 1].a) = K(inbox[i + 1].a),
                      inbox[i + 1].op = "dedup", pc'[inbox[i + 1].a] = "dedup"
               PROVE  claim'[K(inbox[i + 1].a)]
                        <= Req + SendMax + timer'[inbox[i + 1].a]
    <3>1. OvertakenInTime' =
            \A i, j \in 1..Len(Tail(inbox)) :
              (/\ i < j /\ Result(Tail(inbox)[j])
               /\ K(Tail(inbox)[j].a) = K(Tail(inbox)[i].a)
               /\ Tail(inbox)[i].op = "dedup" /\ pc'[Tail(inbox)[i].a] = "dedup")
              => claim'[K(Tail(inbox)[i].a)]
                   <= Req + SendMax + timer'[Tail(inbox)[i].a]
      BY <1>1 DEF OvertakenInTime
    <3> QED
      BY <1>1, <3>1, TailProps
  <2> DEFINE b == inbox[i + 1].a
  <2>1. /\ b \in Attempt /\ K(b) \in Key /\ i + 1 < j + 1
        /\ i + 1 \in 1..Len(inbox) /\ j + 1 \in 1..Len(inbox)
    BY <1>1, TailProps, ItemTypes, SMTT(30)
  <2>2. pc[b] = "dedup" /\ timer'[b] = timer[b] /\ timer[b] \in Nat
        /\ claim[K(b)] \in Nat /\ claim'[K(b)] \in {0, claim[K(b)]}
    BY <1>1, <1>2, <2>1 DEF Move
  <2>3. claim[K(b)] <= Req + SendMax + timer[b]
    BY <2>1, <2>2 DEF OvertakenInTime, RelayInv
  <2> QED
    BY <2>2, <2>3
<1> QED
  BY <1>4, <1>5, <1>6, <1>7, <1>8, <1>9, <1>10 DEF RelayInv

LEMMA InvPend ==
  ASSUME TypeOK, RelayInv, PersistPend
  PROVE  RelayInv'
<1> USE StageType, LimitCases, KeyType, TimeAssumption
<1>0. PICK a \in Attempt : a = Head(inbox).a
  BY HeadType DEF PersistPend, Serving
<1> DEFINE v == GateVerdict(ledger[K(a)])
           new == [op |-> "ok", a |-> a]
<1>1. /\ inbox # <<>> /\ K(a) \in Key /\ v \in {"already", "inflight", "execute"}
      /\ job = <<>> /\ job' = <<>> /\ claim' = claim
      /\ inbox[1].op = "pend" /\ inbox[1].a = a
      /\ pc \in [Attempt -> Stage] /\ timer \in [Attempt -> Nat]
      /\ claim \in [Key -> Nat] /\ ledger \in [Key -> Row]
      /\ new \in Item /\ new.op = "ok" /\ new.a = a
      /\ Tail(inbox) \in Seq(Item)
  BY <1>0, HeadType, AgeType DEF PersistPend, Serving, TypeOK, GateVerdict, Item, Op
<1>2. /\ \/ pc[a] = "gate" /\ Move(a, v)
         \/ pc[a] # "gate" /\ UNCHANGED <<pc, timer>>
      /\ \/ inbox' = Tail(inbox)
         \/ inbox' = Append(Tail(inbox), new) /\ pc[a] = "gate" /\ Move(a, "already")
      /\ \/ v # "execute" /\ ledger' = ledger
         \/ ledger' = [ledger EXCEPT ![K(a)] =
                         [status |-> "pending", age |-> ledger[K(a)].age,
                          wx |-> MsgOf[a]]]
  BY <1>0 DEF PersistPend
<1> HIDE DEF v, new
<1>3. LeaseRunning'
  <2> SUFFICES ASSUME NEW b \in Attempt
               PROVE  /\ Timed(b)' => timer'[b] <= Limit[pc'[b]]
                      /\ pc'[b] = "request" => claim[K(b)] = 0
                      /\ pc'[b] = "gate"    => claim[K(b)] <= timer'[b]
                      /\ pc'[b] = "execute" => claim[K(b)] <= Req
                      /\ pc'[b] = "sending" => claim[K(b)] <= Req + timer'[b]
    BY <1>1 DEF LeaseRunning
  <2>1. timer[b] \in Nat /\ claim[K(b)] \in Nat
    BY <1>1
  <2>2. CASE b = a /\ pc[a] = "gate" /\ Move(a, v)
    <3>1. claim[K(a)] <= timer[a] /\ timer[a] <= Req
      BY <2>2 DEF LeaseRunning, RelayInv, Timed
    <3>2. claim[K(b)] <= Req /\ timer'[b] = 0 /\ pc'[b] = v
      BY <1>1, <2>1, <2>2, <3>1 DEF Move
    <3> QED
      BY <1>1, <3>2 DEF Timed
  <2>3. CASE pc'[b] = pc[b] /\ timer'[b] = timer[b]
    BY <2>3 DEF LeaseRunning, RelayInv, Timed
  <2> QED
    BY <1>1, <1>2, <2>2, <2>3 DEF Move
<1>4. OneAtATime'
  BY <1>1, <1>2 DEF OneAtATime, RelayInv, Move
<1>5. LedgerShowsSend'
  <2> SUFFICES ASSUME NEW b \in Attempt, pc'[b] \in {"execute", "sending"}
               PROVE  ledger'[K(b)].status = "pending"
    BY DEF LedgerShowsSend
  <2>1. \/ pc[b] \in {"execute", "sending"}
        \/ b = a /\ v = "execute"
    BY <1>1, <1>2 DEF Move
  <2>2. CASE b = a /\ v = "execute"
    BY <1>1, <1>2, <2>2
  <2>3. CASE pc[b] \in {"execute", "sending"}
    <3>1. ledger[K(b)].status = "pending" /\ K(b) \in Key
      BY <2>3 DEF LedgerShowsSend, RelayInv
    <3>2. CASE K(b) = K(a)
      <4>1. [status |-> "pending", age |-> ledger[K(a)].age,
             wx |-> MsgOf[a]].status = "pending"
        OBVIOUS
      <4> QED
        BY <1>1, <1>2, <3>1, <3>2, <4>1
    <3>3. CASE K(b) # K(a)
      BY <1>1, <1>2, <3>1, <3>3
    <3> QED
      BY <3>2, <3>3
  <2> QED
    BY <2>1, <2>2, <2>3
<1>6. WritesHaveCause'
  BY <1>1 DEF WritesHaveCause
<1> DEFINE n == Len(Tail(inbox))
<1>7. /\ n \in Nat /\ Len(inbox') \in {n, n + 1}
      /\ \A i \in 1..n : /\ inbox'[i] = inbox[i + 1] /\ i + 1 \in 1..Len(inbox)
                         /\ inbox[i + 1].a \in Attempt
      /\ Len(inbox') = n + 1 =>
           inbox'[n + 1] = new /\ pc[a] = "gate" /\ Move(a, "already")
  <2>1. /\ n \in Nat
        /\ \A i \in 1..n : /\ Tail(inbox)[i] = inbox[i + 1]
                           /\ i + 1 \in 1..Len(inbox) /\ inbox[i + 1].a \in Attempt
    BY <1>1, TailProps, ItemTypes
  <2>2. CASE inbox' = Tail(inbox)
    BY <2>1, <2>2
  <2>3. CASE inbox' = Append(Tail(inbox), new) /\ pc[a] = "gate" /\ Move(a, "already")
    BY <1>1, <2>1, <2>3, AppendProperties
  <2> QED
    BY <1>2, <2>2, <2>3
<1> HIDE DEF n
<1>8. \A b \in Attempt :
        \/ pc'[b] = pc[b] /\ timer'[b] = timer[b]
        \/ pc[b] = "gate" /\ pc'[b] \in {"already", "inflight", "execute"}
  BY <1>1, <1>2 DEF Move
<1>9. ResultsAreOver'
  <2> SUFFICES ASSUME NEW i \in 1..Len(inbox'), Result(inbox'[i])
               PROVE  /\ \A b \in Attempt :
                           pc'[b] \in Active => K(b) # K(inbox'[i].a)
                      /\ \A j \in 1..Len(inbox') :
                           j # i /\ Result(inbox'[j])
                             => K(inbox'[j].a) # K(inbox'[i].a)
    BY DEF ResultsAreOver
  <2>1. \A j \in 1..n : Result(inbox[j + 1]) =>
          /\ \A b \in Attempt : pc[b] \in Active => K(b) # K(inbox[j + 1].a)
          /\ \A l \in 1..n : l # j /\ Result(inbox[l + 1])
                             => K(inbox[l + 1].a) # K(inbox[j + 1].a)
    <3> SUFFICES ASSUME NEW j \in 1..n, Result(inbox[j + 1])
                 PROVE  /\ \A b \in Attempt :
                             pc[b] \in Active => K(b) # K(inbox[j + 1].a)
                        /\ \A l \in 1..n : l # j /\ Result(inbox[l + 1])
                             => K(inbox[l + 1].a) # K(inbox[j + 1].a)
      OBVIOUS
    <3>1. j + 1 \in 1..Len(inbox)
      BY <1>7
    <3>2. \A l \in 1..n : l # j => l + 1 \in 1..Len(inbox) /\ l + 1 # j + 1
      BY <1>7
    <3> QED
      BY <3>1, <3>2 DEF ResultsAreOver, RelayInv
  <2>2. CASE i \in 1..n
    <3>1. Result(inbox[i + 1]) /\ inbox'[i].a = inbox[i + 1].a
      BY <1>7, <2>2
    <3>2. \A b \in Attempt : pc'[b] \in Active => K(b) # K(inbox[i + 1].a)
      BY <1>8, <2>1, <2>2, <3>1
    <3>3. \A j \in 1..n : j # i /\ Result(inbox'[j]) => K(inbox'[j].a) # K(inbox[i + 1].a)
      BY <1>7, <2>1, <2>2, <3>1
    <3>4. Len(inbox') = n + 1 => K(inbox'[n + 1].a) # K(inbox[i + 1].a)
      BY <1>1, <1>7, <2>1, <2>2, <3>1
    <3> QED
      BY <1>7, <3>1, <3>2, <3>3, <3>4
  <2>3. CASE i = n + 1 /\ Len(inbox') = n + 1
    <3>1. \A b \in Attempt : pc'[b] \in Active => K(b) # K(a)
      BY <1>1, <1>7, <1>8, <2>3 DEF OneAtATime, RelayInv, Move
    <3>2. \A j \in 1..n : Result(inbox[j + 1]) => K(inbox[j + 1].a) # K(a)
      BY <1>7, <2>1, <2>3
    <3>3. inbox'[i].a = a /\ \A j \in 1..Len(inbox') : j # i => j \in 1..n
      BY <1>1, <1>7, <2>3
    <3> QED
      BY <1>7, <3>1, <3>2, <3>3
  <2> QED
    BY <1>7, <2>2, <2>3
<1>10. OvertakenInTime'
  <2> SUFFICES ASSUME NEW i \in 1..Len(inbox'), NEW j \in 1..Len(inbox'), i < j,
                      Result(inbox'[j]), K(inbox'[j].a) = K(inbox'[i].a),
                      inbox'[i].op = "dedup", pc'[inbox'[i].a] = "dedup"
               PROVE  claim[K(inbox'[i].a)] <= Req + SendMax + timer'[inbox'[i].a]
    BY <1>1 DEF OvertakenInTime
  <2>0. i \in 1..n /\ inbox'[i] = inbox[i + 1] /\ inbox[i + 1].a \in Attempt
    BY <1>7
  <2>1. PICK b \in Attempt : b = inbox'[i].a /\ b = inbox[i + 1].a
    BY <2>0
  <2>2. /\ pc[b] = "dedup" /\ timer'[b] = timer[b] /\ timer[b] \in Nat
        /\ claim[K(b)] \in Nat
    BY <1>1, <1>8, <2>1
  <2>3. CASE j \in 1..n
    <3>1. i + 1 \in 1..Len(inbox) /\ j + 1 \in 1..Len(inbox) /\ i + 1 < j + 1
      BY <1>7, <2>0, <2>3
    <3>2. claim[K(b)] <= Req + SendMax + timer[b]
      BY <1>7, <2>0, <2>1, <2>2, <2>3, <3>1 DEF OvertakenInTime, RelayInv
    <3> QED
      BY <2>1, <2>2, <3>2
  <2>4. CASE j = n + 1 /\ Len(inbox') = n + 1
    <3>1. pc[a] = "gate" /\ K(a) = K(b)
      BY <1>1, <1>7, <2>1, <2>4
    <3>2. claim[K(b)] <= Req + SendMax
      BY <3>1, LeaseBound DEF RelayInv
    <3>3. claim[K(b)] <= Req + SendMax + timer'[b]
      BY <2>2, <3>2
    <3> QED
      BY <2>1, <3>3
  <2> QED
    BY <1>7, <2>3, <2>4
<1>11. RequestsAreKnown'
  <2> SUFFICES ASSUME NEW i \in 1..Len(inbox'), inbox'[i].op = "dedup"
               PROVE  pc'[inbox'[i].a] \notin {"idle", "lookup"}
    BY DEF RequestsAreKnown
  <2>1. i \in 1..n
    BY <1>1, <1>7
  <2>2. /\ inbox'[i] = inbox[i + 1] /\ inbox[i + 1].a \in Attempt
        /\ i + 1 \in 1..Len(inbox)
    BY <1>7, <2>1
  <2>3. PICK b \in Attempt : b = inbox[i + 1].a
    BY <2>2
  <2>4. pc[b] \notin {"idle", "lookup"}
    BY <2>2, <2>3 DEF RequestsAreKnown, RelayInv
  <2>5. pc'[b] \notin {"idle", "lookup"}
    BY <1>8, <2>4
  <2> QED
    BY <2>2, <2>3, <2>5
<1> QED
  BY <1>3, <1>4, <1>5, <1>6, <1>9, <1>10, <1>11 DEF RelayInv

\* Persistence works on the message at the head: it may take it off the inbox
\* and, if that is a result, free the claim on its text.
LEMMA HandledInv ==
  ASSUME TypeOK, RelayInv, inbox # <<>>, UNCHANGED <<pc, timer>>,
         inbox' \in {inbox, Tail(inbox)},
         \/ claim' = claim
         \/ /\ Result(Head(inbox))
            /\ claim' = [claim EXCEPT ![K(Head(inbox).a)] = Expired]
  PROVE  /\ LeaseRunning' /\ OneAtATime' /\ ResultsAreOver'
         /\ OvertakenInTime' /\ RequestsAreKnown'
<1> USE StageType, LimitCases, KeyType, TimeAssumption
<1>1. PICK d \in {0, 1} :
        /\ Len(inbox') \in Nat
        /\ \A i \in 1..Len(inbox') : inbox'[i] = inbox[i + d]
                                     /\ i + d \in 1..Len(inbox)
                                     /\ inbox[i + d].a \in Attempt
  <2>1. CASE inbox' = inbox
    BY <2>1, ItemTypes DEF TypeOK
  <2>2. CASE inbox' = Tail(inbox)
    BY <2>2, ItemTypes, TailProps
  <2> QED
    BY <2>1, <2>2
<1>2. PICK h \in Attempt : h = Head(inbox).a /\ h = inbox[1].a /\ Head(inbox) = inbox[1]
  BY HeadType
<1>3. claim \in [Key -> Nat] /\ timer \in [Attempt -> Nat] /\ 1 \in 1..Len(inbox)
  <2>1. claim \in [Key -> Nat] /\ timer \in [Attempt -> Nat]
    BY AgeType DEF TypeOK
  <2>2. Len(inbox) \in Nat /\ Len(inbox) >= 1
    BY HeadType
  <2> QED
    BY <2>1, <2>2
<1>4. \A k \in Key : claim'[k] # claim[k] => Result(inbox[1]) /\ k = K(h)
  BY <1>2, <1>3
<1>5. LeaseRunning'
  <2>1. \A b \in Attempt : pc[b] \in Active => claim'[K(b)] = claim[K(b)]
    BY <1>2, <1>3, <1>4 DEF ResultsAreOver, RelayInv
  <2> QED
    BY <2>1 DEF LeaseRunning, RelayInv, Timed
<1>6. OneAtATime'
  BY DEF OneAtATime, RelayInv
<1>7. ResultsAreOver'
  <2> SUFFICES ASSUME NEW i \in 1..Len(inbox'), Result(inbox'[i])
               PROVE  /\ \A b \in Attempt : pc[b] \in Active => K(b) # K(inbox'[i].a)
                      /\ \A j \in 1..Len(inbox') :
                           j # i /\ Result(inbox'[j])
                             => K(inbox'[j].a) # K(inbox'[i].a)
    BY DEF ResultsAreOver
  <2>1. /\ i + d \in 1..Len(inbox) /\ inbox'[i] = inbox[i + d]
        /\ \A j \in 1..Len(inbox') : j # i => j + d # i + d
                                              /\ j + d \in 1..Len(inbox)
                                              /\ inbox'[j] = inbox[j + d]
    BY <1>1, SMTT(30)
  <2>2. /\ \A b \in Attempt : pc[b] \in Active => K(b) # K(inbox[i + d].a)
        /\ \A l \in 1..Len(inbox) : l # i + d /\ Result(inbox[l])
             => K(inbox[l].a) # K(inbox[i + d].a)
    BY <2>1 DEF ResultsAreOver, RelayInv
  <2> QED
    BY <2>1, <2>2
<1>8. OvertakenInTime'
  <2> SUFFICES ASSUME NEW i \in 1..Len(inbox'), NEW j \in 1..Len(inbox'), i < j,
                      Result(inbox'[j]), K(inbox'[j].a) = K(inbox'[i].a),
                      inbox'[i].op = "dedup", pc[inbox'[i].a] = "dedup"
               PROVE  claim'[K(inbox'[i].a)] <= Req + SendMax + timer[inbox'[i].a]
    BY DEF OvertakenInTime
  <2>1. /\ i + d \in 1..Len(inbox) /\ inbox'[i] = inbox[i + d]
        /\ j + d \in 1..Len(inbox) /\ inbox'[j] = inbox[j + d]
        /\ i + d < j + d /\ j + d # 1 /\ inbox[i + d].a \in Attempt
    BY <1>1
  <2>2. PICK b \in Attempt : b = inbox[i + d].a
    BY <2>1
  <2>3. claim[K(b)] <= Req + SendMax + timer[b]
    BY <2>1, <2>2 DEF OvertakenInTime, RelayInv
  <2>4. claim'[K(b)] = claim[K(b)]
    <3>1. Result(inbox[1]) => K(inbox[j + d].a) # K(inbox[1].a)
      BY <1>3, <2>1 DEF ResultsAreOver, RelayInv
    <3>2. K(inbox[j + d].a) = K(b) /\ K(b) \in Key
      BY <2>1, <2>2
    <3> QED
      BY <1>2, <1>4, <3>1, <3>2
  <2> QED
    BY <2>1, <2>2, <2>3, <2>4
<1>9. RequestsAreKnown'
  BY <1>1 DEF RequestsAreKnown, RelayInv
<1> QED
  BY <1>5, <1>6, <1>7, <1>8, <1>9

LEMMA InvBegin ==
  ASSUME TypeOK, RelayInv, PersistBegin
  PROVE  RelayInv'
<1>1. /\ inbox # <<>> /\ inbox' \in {inbox, Tail(inbox)}
      /\ Head(inbox).op \in Op \ {"dedup", "pend"} /\ Head(inbox).a \in Attempt
      /\ job' = Plan(Head(inbox).op, Head(inbox).a)
      /\ job' # <<>> => inbox' = inbox
      /\ UNCHANGED <<pc, timer, claim, ledger>>
  BY HeadType DEF PersistBegin, Serving, durable
<1>2. LedgerShowsSend'
  BY <1>1 DEF LedgerShowsSend, RelayInv
<1>3. WritesHaveCause'
  <2>1. ASSUME NEW i \in 1..Len(job'),
               job'[i] \in {"markSent", "markFailed", "freeClaim"}
        PROVE  Result(Head(inbox))
    BY <1>1, <2>1, PlanType
  <2>2. job' = <<>> => Len(job') = 0
    OBVIOUS
  <2> QED
    BY <1>1, <2>1, <2>2 DEF WritesHaveCause
<1> QED
  BY <1>1, <1>2, <1>3, HandledInv DEF RelayInv

LEMMA InvWrite ==
  ASSUME TypeOK, RelayInv, PersistWrite
  PROVE  RelayInv'
<1> USE StageType, KeyType
<1>1. /\ inbox # <<>> /\ inbox' \in {inbox, Tail(inbox)}
      /\ job # <<>> /\ job \in Seq(Write) /\ job' = Tail(job)
      /\ job' # <<>> => inbox' = inbox
      /\ UNCHANGED <<pc, timer>>
  BY DEF PersistWrite, TypeOK
<1>2. PICK h \in Attempt : h = Head(inbox).a /\ h = inbox[1].a /\ Head(inbox) = inbox[1]
  BY <1>1, HeadType
<1>3. ApplyWrite(Head(job), h) /\ Head(job) = job[1] /\ 1 \in 1..Len(job)
  BY <1>1, <1>2 DEF PersistWrite
<1>4. Head(job) \in {"markSent", "markFailed", "freeClaim"} => Result(Head(inbox))
  BY <1>3 DEF WritesHaveCause, RelayInv
<1>5. \/ claim' = claim
      \/ Result(Head(inbox)) /\ claim' = [claim EXCEPT ![K(h)] = Expired]
  BY <1>3, <1>4 DEF ApplyWrite
<1>6. LedgerShowsSend'
  <2>1. \/ ledger' = ledger
        \/ /\ Result(Head(inbox))
           /\ \E s \in {"sent", "failed"} : ledger' = [ledger EXCEPT ![K(h)].status = s]
    BY <1>3, <1>4 DEF ApplyWrite
  <2>2. CASE ledger' = ledger
    BY <1>1, <2>2 DEF LedgerShowsSend, RelayInv
  <2>3. CASE /\ Result(Head(inbox))
             /\ \E s \in {"sent", "failed"} : ledger' = [ledger EXCEPT ![K(h)].status = s]
    <3>1. 1 \in 1..Len(inbox)
      BY <1>1, HeadType
    <3>2. \A b \in Attempt : pc[b] \in Active => K(b) # K(h) /\ K(b) \in Key
      BY <1>2, <2>3, <3>1 DEF ResultsAreOver, RelayInv
    <3>3. \A k \in Key : k # K(h) => ledger'[k] = ledger[k]
      BY <2>3 DEF TypeOK
    <3> QED
      BY <1>1, <3>2, <3>3 DEF LedgerShowsSend, RelayInv
  <2> QED
    BY <2>1, <2>2, <2>3
<1>7. WritesHaveCause'
  <2>1. \A i \in 1..Len(job') : i + 1 \in 1..Len(job) /\ job'[i] = job[i + 1]
    BY <1>1
  <2>2. job' = <<>> => Len(job') = 0
    OBVIOUS
  <2> QED
    BY <1>1, <2>1, <2>2 DEF WritesHaveCause, RelayInv
<1> QED
  BY <1>1, <1>2, <1>5, <1>6, <1>7, HandledInv DEF RelayInv

LEMMA InvCrash ==
  ASSUME TypeOK, RelayInv, NEW w \in Worker, Crash(w)
  PROVE  RelayInv'
<1> USE StageType, LimitCases, KeyType
<1>1. /\ \A b \in Attempt : \/ pc'[b] = pc[b] /\ timer'[b] = timer[b]
                            \/ pc'[b] = "lost"
      /\ \/ inbox' = inbox /\ job' = job
         \/ inbox' = <<>> /\ job' = <<>>
      /\ UNCHANGED <<claim, ledger>>
  BY DEF Crash, durable, TypeOK
<1>2. LeaseRunning'
  BY <1>1 DEF LeaseRunning, RelayInv, Timed
<1>3. OneAtATime' /\ LedgerShowsSend'
  BY <1>1 DEF OneAtATime, LedgerShowsSend, RelayInv
<1>4. CASE inbox' = <<>> /\ job' = <<>>
  <2>1. Len(inbox') = 0 /\ Len(job') = 0
    BY <1>4
  <2> QED
    BY <1>2, <1>3, <2>1 DEF RelayInv, ResultsAreOver, OvertakenInTime,
       RequestsAreKnown, WritesHaveCause
<1>5. CASE inbox' = inbox /\ job' = job
  <2>1. ResultsAreOver' /\ RequestsAreKnown' /\ WritesHaveCause'
    BY <1>1, <1>5, ItemTypes DEF ResultsAreOver, RequestsAreKnown,
       WritesHaveCause, RelayInv
  <2>2. OvertakenInTime'
    BY <1>1, <1>5, ItemTypes DEF OvertakenInTime, RelayInv
  <2> QED
    BY <1>2, <1>3, <2>1, <2>2 DEF RelayInv
<1> QED
  BY <1>1, <1>4, <1>5

LEMMA InvTick ==
  ASSUME TypeOK, RelayInv, Tick
  PROVE  RelayInv'
<1> USE StageType, LimitCases, KeyType
<1>1. /\ \A b \in Attempt : pc[b] \notin {"request", "execute"}
      /\ \A b \in Attempt : Timed(b) => timer[b] < Limit[pc[b]] /\ timer'[b] = timer[b] + 1
      /\ \A b \in Attempt : timer[b] \in Nat /\ claim[K(b)] \in Nat
                            /\ claim'[K(b)] \in Nat /\ claim'[K(b)] <= claim[K(b)] + 1
      /\ UNCHANGED <<pc, inbox, job>>
      /\ \A k \in Key : ledger'[k].status = ledger[k].status
  <2>1. /\ claim \in [Key -> Age] /\ timer \in [Attempt -> Nat]
        /\ \A k \in Key : claim'[k] = Older(claim[k])
    BY DEF Tick, TypeOK
  <2>2. \A b \in Attempt : /\ timer[b] \in Nat /\ claim[K(b)] \in Nat
                           /\ claim'[K(b)] \in Nat /\ claim'[K(b)] <= claim[K(b)] + 1
    BY <2>1, AgeType
  <2>3. \A b \in Attempt : /\ pc[b] \notin {"request", "execute"}
                           /\ Timed(b) => /\ timer[b] < Limit[pc[b]]
                                          /\ timer'[b] = timer[b] + 1
    BY <2>1 DEF Tick, Hops
  <2>4. \A k \in Key : ledger'[k].status = ledger[k].status
    <3> SUFFICES ASSUME NEW k \in Key
                 PROVE  [ledger[k] EXCEPT !.age = Older(@)].status = ledger[k].status
      BY DEF Tick
    <3>1. ledger[k] \in Row
      BY DEF TypeOK
    <3> QED
      BY <3>1 DEF Row
  <2> QED
    BY <2>2, <2>3, <2>4 DEF Tick
<1>2. LeaseRunning'
  <2> SUFFICES ASSUME NEW b \in Attempt
               PROVE  /\ Timed(b) => timer'[b] <= Limit[pc[b]]
                      /\ pc[b] = "gate"    => claim'[K(b)] <= timer'[b]
                      /\ pc[b] = "sending" => claim'[K(b)] <= Req + timer'[b]
    BY <1>1 DEF LeaseRunning, Timed
  <2>1. /\ timer[b] \in Nat /\ claim[K(b)] \in Nat
        /\ claim'[K(b)] \in Nat /\ claim'[K(b)] <= claim[K(b)] + 1
    BY <1>1
  <2>2. CASE pc[b] = "dedup"
    BY <1>1, <2>1, <2>2, TimeAssumption DEF Timed
  <2>3. CASE pc[b] = "gate"
    <3>1. timer[b] < Req /\ timer'[b] = timer[b] + 1 /\ claim[K(b)] <= timer[b]
      BY <1>1, <2>3 DEF Timed, LeaseRunning, RelayInv
    <3> QED
      BY <2>1, <2>3, <3>1, TimeAssumption
  <2>4. CASE pc[b] = "sending"
    <3>1. timer[b] < SendMax /\ timer'[b] = timer[b] + 1 /\ claim[K(b)] <= Req + timer[b]
      BY <1>1, <2>4 DEF Timed, LeaseRunning, RelayInv
    <3> QED
      BY <2>1, <2>4, <3>1, TimeAssumption
  <2> QED
    BY <2>2, <2>3, <2>4 DEF Timed
<1>3. OvertakenInTime'
  <2> SUFFICES ASSUME NEW i \in 1..Len(inbox), NEW j \in 1..Len(inbox), i < j,
                      Result(inbox[j]), K(inbox[j].a) = K(inbox[i].a),
                      inbox[i].op = "dedup", pc[inbox[i].a] = "dedup"
               PROVE  claim'[K(inbox[i].a)] <= Req + SendMax + timer'[inbox[i].a]
    BY <1>1 DEF OvertakenInTime
  <2>1. PICK b \in Attempt : b = inbox[i].a
    BY ItemTypes
  <2>2. claim[K(b)] <= Req + SendMax + timer[b]
    BY <2>1 DEF OvertakenInTime, RelayInv
  <2>3. timer'[b] = timer[b] + 1
    BY <1>1, <2>1 DEF Timed
  <2>4. claim'[K(b)] <= Req + SendMax + timer'[b]
    BY <1>1, <2>2, <2>3, TimeAssumption, SMTT(30)
  <2> QED
    BY <2>1, <2>4
<1>4. OneAtATime' /\ ResultsAreOver' /\ RequestsAreKnown' /\ WritesHaveCause'
  BY <1>1 DEF OneAtATime, ResultsAreOver, RequestsAreKnown, WritesHaveCause, RelayInv
<1>5. LedgerShowsSend'
  BY <1>1 DEF LedgerShowsSend, RelayInv
<1> QED
  BY <1>2, <1>3, <1>4, <1>5 DEF RelayInv

LEMMA RelayStep == TypeOK /\ RelayInv /\ [Next]_vars => RelayInv'
<1> SUFFICES ASSUME TypeOK, RelayInv, [Next]_vars PROVE RelayInv'
  OBVIOUS
<1>1. ASSUME NEW a \in Attempt, AttemptStep(a) PROVE RelayInv'
  BY <1>1, InvAttempt
<1>2. CASE PersistStep
  BY <1>2, InvDedup, InvPend, InvBegin, InvWrite DEF PersistStep
<1>3. ASSUME NEW w \in Worker, Crash(w) PROVE RelayInv'
  BY <1>3, InvCrash
<1>4. CASE UNCHANGED <<pc, timer, inbox, job, claim, ledger>>
  BY <1>4 DEF RelayInv, LeaseRunning, Timed, OneAtATime, ResultsAreOver,
     OvertakenInTime, RequestsAreKnown, WritesHaveCause, LedgerShowsSend
<1>5. ASSUME NEW w \in Worker, Restart(w) PROVE RelayInv'
  BY <1>4, <1>5 DEF Restart, durable
<1>6. CASE Tick
  BY <1>6, InvTick
<1>7. CASE UNCHANGED vars
  BY <1>4, <1>7 DEF vars, durable
<1> QED
  BY <1>1, <1>2, <1>3, <1>5, <1>6, <1>7 DEF Next

\* The strengthening holds in every reachable state.
THEOREM Relaying == Spec => []RelayInv
<1>1. Init => TypeOK /\ RelayInv
  BY TypeInit, RelayInit
<1>2. TypeOK /\ RelayInv /\ [Next]_vars => (TypeOK /\ RelayInv)'
  BY TypeStep, RelayStep
<1> QED
  BY <1>1, <1>2, PTL DEF Spec

\* However late persistence answers and whatever crashes, two attempts to send
\* the same text for one reply id are never under way together: the lease of
\* the claim outlasts every attempt it was given to.
THEOREM NeverTwoAtOnce == Spec => []OneAtATime
<1>1. RelayInv => OneAtATime
  BY DEF RelayInv
<1> QED
  BY <1>1, Relaying, PTL

\* Nothing that is handled late, repeated or restarted turns the ledger row of
\* an attempt that is with the listener into anything but "pending".
THEOREM LedgerIsTrue == Spec => []LedgerShowsSend
<1>1. RelayInv => LedgerShowsSend
  BY DEF RelayInv
<1> QED
  BY <1>1, Relaying, PTL

-------------------------------------------------------------------------------
Holding(k)  == \E a \in Attempt : K(a) = k /\ pc[a] \in Active
Holders     == [k \in Key |-> Holder(k)]
Verdicts    == [k \in Key |-> ledger[k].status]

(***************************************************************************)
(* Who holds a key                                                         *)
(***************************************************************************)
LEMMA HolderIs ==
  ASSUME OneAtATime, NEW a \in Attempt, pc[a] \in Active
  PROVE  Holder(K(a)) = a
<1> DEFINE c == CHOOSE b \in Attempt : K(b) = K(a) /\ pc[b] \in Active
<1>1. c \in Attempt /\ K(c) = K(a) /\ pc[c] \in Active
  OBVIOUS
<1>2. c = a
  BY <1>1 DEF OneAtATime
<1> QED
  BY <1>2 DEF Holder

LEMMA HolderIsNext ==
  ASSUME OneAtATime', NEW a \in Attempt, pc'[a] \in Active
  PROVE  Holder(K(a))' = a
<1> DEFINE c == CHOOSE b \in Attempt : K(b) = K(a) /\ pc'[b] \in Active
<1>1. c \in Attempt /\ K(c) = K(a) /\ pc'[c] \in Active
  OBVIOUS
<1>2. c = a
  BY <1>1 DEF OneAtATime
<1> QED
  BY <1>2 DEF Holder, K

LEMMA NobodyHolds ==
  ASSUME NEW k
  PROVE  /\ ~Holding(k) => Holder(k) = "nobody"
         /\ ~Holding(k)' => Holder(k)' = "nobody"
BY DEF Holding, Holder, K

\* A step after which only old holders hold is a Leave of the slot.
LEMMA Leaving ==
  ASSUME OneAtATime, OneAtATime',
         \A a \in Attempt : pc'[a] \in Active => pc[a] \in Active
  PROVE  LET keys == {k \in Key : ~Holding(k)'}
         IN  Holders' = [k \in Key |-> IF k \in keys THEN "nobody" ELSE Holders[k]]
<1> SUFFICES ASSUME NEW k \in Key, Holding(k)'
             PROVE  Holder(k)' = Holder(k)
  BY NobodyHolds DEF Holders
<1>1. PICK a \in Attempt : K(a) = k /\ pc'[a] \in Active
  BY DEF Holding, K
<1>2. Holder(K(a))' = a
  BY <1>1, HolderIsNext
<1>3. Holder(K(a)) = a
  BY <1>1, HolderIs
<1> QED
  BY <1>1, <1>2, <1>3

\* A step that leaves every stage alone leaves every holder alone.
LEMMA Staying ==
  ASSUME pc' = pc
  PROVE  Holders' = Holders
BY DEF Holders, Holder, K

LEMMA SlotLeave ==
  ASSUME RelayInv, RelayInv',
         \A a \in Attempt : pc'[a] \in Active => pc[a] \in Active,
         Verdicts' = Verdicts
  PROVE  Slot!Next
<1> DEFINE keys == {k \in Key : ~Holding(k)'}
<1>1. Holders' = [k \in Key |-> IF k \in keys THEN "nobody" ELSE Holders[k]]
  BY Leaving DEF RelayInv
<1> HIDE DEF keys
<1>2. keys \in SUBSET Key
  BY DEF keys
<1>3. Slot!Leave(keys)
  BY <1>1, <1>2 DEF Slot!Leave, Holders, Verdicts
<1> QED
  BY <1>2, <1>3 DEF Slot!Next

(***************************************************************************)
(* Every step of the relay is a step of the slots.                         *)
(***************************************************************************)
LEMMA SlotAttempt ==
  ASSUME TypeOK, RelayInv, RelayInv', NEW a \in Attempt, AttemptStep(a)
  PROVE  Slot!Next
<1>1. ledger' = ledger
  BY DEF AttemptStep, Deliver, LookupFound, LookupMissing, DedupTimeout,
     SenderReceive, GateTimeout, ListenerReceive, WireSend, SendAck, SendFail,
     SendTimeout, LateSend, durable
<1>2. \A b \in Attempt : pc'[b] \in Active => pc[b] \in Active
  <2>1. pc \in [Attempt -> Stage]
    BY DEF TypeOK
  <2> QED
    BY <2>1, StageType DEF AttemptStep, Deliver, LookupFound, LookupMissing,
       DedupTimeout, SenderReceive, GateTimeout, ListenerReceive, WireSend,
       SendAck, SendFail, SendTimeout, LateSend, Move
<1> QED
  BY <1>1, <1>2, SlotLeave DEF Verdicts

LEMMA SlotDedup ==
  ASSUME TypeOK, RelayInv, RelayInv', PersistDedup
  PROVE  Slot!Next
<1>1. PICK a \in Attempt : a = Head(inbox).a
  BY HeadType DEF PersistDedup, Serving
<1>2. /\ pc \in [Attempt -> Stage] /\ K(a) \in Key
      /\ Verdicts' = Verdicts
  BY KeyType DEF PersistDedup, TypeOK, Verdicts
<1>3. CASE pc[a] = "dedup" /\ ~Duplicate(a)
  <2>1. pc' = [pc EXCEPT ![a] = "request"]
    BY <1>1, <1>3 DEF PersistDedup, Move
  <2>2. pc'[a] \in Active /\ pc[a] \notin Active
    BY <1>2, <1>3, <2>1, StageType
  <2>3. ASSUME NEW b \in Attempt, K(b) = K(a) PROVE pc[b] \notin Active
    BY <1>2, <2>1, <2>2, <2>3 DEF OneAtATime, RelayInv
  <2>4. Holder(K(a)) = "nobody"
    BY <2>3, NobodyHolds DEF Holding
  <2>5. Holder(K(a))' = a
    BY <2>2, HolderIsNext DEF RelayInv
  <2>6. ASSUME NEW k \in Key, k # K(a) PROVE Holder(k)' = Holder(k)
    <3>1. \A b \in Attempt : K(b) = k => pc'[b] = pc[b]
      BY <1>2, <2>1, <2>6
    <3>2. CASE Holding(k)
      <4>1. PICK b \in Attempt : K(b) = k /\ pc[b] \in Active
        BY <3>2 DEF Holding
      <4>2. Holder(K(b)) = b
        BY <4>1, HolderIs DEF RelayInv
      <4>3. Holder(K(b))' = b
        BY <3>1, <4>1, HolderIsNext DEF RelayInv
      <4> QED
        BY <4>1, <4>2, <4>3
    <3>3. CASE ~Holding(k)
      <4>1. ~Holding(k)'
        BY <3>1, <3>3 DEF Holding, K
      <4> QED
        BY <3>3, <4>1, NobodyHolds
    <3> QED
      BY <3>2, <3>3
  <2>7. Holders' = [Holders EXCEPT ![K(a)] = a]
    BY <1>2, <2>5, <2>6 DEF Holders
  <2>8. Slot!Take(K(a), a)
    BY <1>2, <2>4, <2>7 DEF Slot!Take, Holders, Verdicts
  <2> QED
    BY <1>2, <2>8 DEF Slot!Next
<1>4. CASE ~(pc[a] = "dedup" /\ ~Duplicate(a))
  <2>1. \A b \in Attempt : pc'[b] \in Active => pc[b] \in Active
    BY <1>1, <1>2, <1>4, StageType DEF PersistDedup, Move
  <2> QED
    BY <1>2, <2>1, SlotLeave
<1> QED
  BY <1>3, <1>4

LEMMA SlotPend ==
  ASSUME TypeOK, RelayInv, RelayInv', PersistPend
  PROVE  Slot!Next
<1>1. PICK a \in Attempt : a = Head(inbox).a
  BY HeadType DEF PersistPend, Serving
<1> DEFINE k == K(a)
           v == GateVerdict(ledger[k])
<1>2. pc \in [Attempt -> Stage] /\ k \in Key /\ ledger \in [Key -> Row]
  BY KeyType DEF TypeOK
<1>3. pc' = pc \/ (pc[a] = "gate" /\ pc' = [pc EXCEPT ![a] = v])
  BY <1>1 DEF PersistPend, Move
<1>4. CASE v # "execute"
  <2>1. Verdicts' = Verdicts
    BY <1>1, <1>4 DEF PersistPend, Verdicts
  <2>2. \A b \in Attempt : pc'[b] \in Active => pc[b] \in Active
    BY <1>2, <1>3, StageType
  <2> QED
    BY <2>1, <2>2, SlotLeave
<1>5. CASE v = "execute"
  <2>1. ledger[k].status # "sent"
    BY <1>5 DEF GateVerdict
  <2>2. ledger' = [ledger EXCEPT ![k] = [status |-> "pending",
                                  age |-> ledger[k].age, wx |-> MsgOf[a]]]
    BY <1>1, <1>5 DEF PersistPend
  <2>3. Verdicts' = [Verdicts EXCEPT ![k] = "pending"]
    BY <1>2, <2>2 DEF Verdicts
  <2>4. \A b \in Attempt : pc'[b] \in Active <=> pc[b] \in Active
    BY <1>2, <1>3, <1>5, StageType
  <2>5. Holders' = Holders
    <3>1. ASSUME NEW l \in Key PROVE Holder(l)' = Holder(l)
      <4>1. CASE Holding(l)
        <5>1. PICK b \in Attempt : K(b) = l /\ pc[b] \in Active
          BY <4>1 DEF Holding
        <5>2. Holder(K(b)) = b /\ Holder(K(b))' = b
          BY <2>4, <5>1, HolderIs, HolderIsNext DEF RelayInv
        <5> QED
          BY <5>1, <5>2
      <4>2. CASE ~Holding(l)
        <5>1. ~Holding(l)'
          BY <2>4, <4>2 DEF Holding, K
        <5> QED
          BY <4>2, <5>1, NobodyHolds
      <4> QED
        BY <4>1, <4>2
    <3> QED
      BY <3>1 DEF Holders
  <2>6. Slot!Open(k)
    BY <1>2, <2>1, <2>3, <2>5 DEF Slot!Open, Holders, Verdicts
  <2> QED
    BY <1>2, <2>6 DEF Slot!Next
<1> QED
  BY <1>4, <1>5

LEMMA SlotWrite ==
  ASSUME TypeOK, RelayInv, PersistWrite
  PROVE  Slot!Next \/ UNCHANGED Slot!slotVars
<1>1. /\ inbox # <<>> /\ job # <<>> /\ job \in Seq(Write)
      /\ pc' = pc /\ ledger \in [Key -> Row]
  BY DEF PersistWrite, TypeOK
<1>2. PICK a \in Attempt : a = Head(inbox).a /\ a = inbox[1].a
                           /\ Head(inbox) = inbox[1] /\ 1 \in 1..Len(inbox)
  BY <1>1, HeadType
<1> DEFINE k == K(a)
<1>3. ApplyWrite(Head(job), a) /\ Head(job) = job[1] /\ 1 \in 1..Len(job) /\ k \in Key
  BY <1>1, <1>2, KeyType DEF PersistWrite
<1>4. Holders' = Holders
  BY <1>1, Staying
<1>5. CASE /\ Head(job) \in {"markSent", "markFailed"}
           /\ ledger[k].status # "none"
  <2>1. Result(inbox[1])
    BY <1>2, <1>3, <1>5 DEF WritesHaveCause, RelayInv
  <2>2. \A b \in Attempt : pc[b] \in Active => K(b) # k
    BY <1>2, <2>1 DEF ResultsAreOver, RelayInv
  <2>3. Holder(k) = "nobody"
    BY <2>2, NobodyHolds DEF Holding
  <2>4. PICK s \in {"sent", "failed"} : ledger' = [ledger EXCEPT ![k].status = s]
    BY <1>3, <1>5 DEF ApplyWrite
  <2>5. Verdicts' = [Verdicts EXCEPT ![k] = s]
    <3>1. ledger[k] \in Row
      BY <1>1, <1>3
    <3>2. [ledger[k] EXCEPT !.status = s].status = s
      BY <3>1 DEF Row
    <3> QED
      BY <1>1, <1>3, <2>4, <3>2 DEF Verdicts
  <2>6. Slot!Judge(k, s)
    BY <1>3, <1>4, <1>5, <2>3, <2>5 DEF Slot!Judge, Holders, Verdicts
  <2> QED
    BY <1>3, <2>6 DEF Slot!Next
<1>6. CASE ~(/\ Head(job) \in {"markSent", "markFailed"}
             /\ ledger[k].status # "none")
  <2>1. Verdicts' = Verdicts
    BY <1>3, <1>6 DEF ApplyWrite, Verdicts
  <2> QED
    BY <1>4, <2>1 DEF Slot!slotVars, Holders, Verdicts
<1> QED
  BY <1>5, <1>6

LEMMA SlotStep ==
  ASSUME TypeOK, RelayInv, RelayInv', [Next]_vars
  PROVE  Slot!Next \/ UNCHANGED Slot!slotVars
<1>1. ASSUME NEW a \in Attempt, AttemptStep(a) PROVE Slot!Next
  BY <1>1, SlotAttempt
<1>2. CASE PersistDedup
  BY <1>2, SlotDedup
<1>3. CASE PersistPend
  BY <1>3, SlotPend
<1>4. CASE PersistWrite
  BY <1>4, SlotWrite
<1>5. ASSUME NEW w \in Worker, Crash(w) PROVE Slot!Next
  <2>1. \A a \in Attempt : pc'[a] \in Active => pc[a] \in Active
    BY <1>5, StageType DEF Crash
  <2>2. Verdicts' = Verdicts
    BY <1>5 DEF Crash, durable, Verdicts
  <2> QED
    BY <2>1, <2>2, SlotLeave
<1>6. CASE pc' = pc /\ Verdicts' = Verdicts
  BY <1>6, Staying DEF Slot!slotVars, Holders, Verdicts
<1>7. CASE PersistBegin
  BY <1>6, <1>7 DEF PersistBegin, durable, Verdicts
<1>8. ASSUME NEW w \in Worker, Restart(w)
      PROVE  Slot!Next \/ UNCHANGED Slot!slotVars
  BY <1>6, <1>8 DEF Restart, durable, Verdicts
<1>9. CASE Tick
  <2>1. ASSUME NEW k \in Key
        PROVE  [ledger[k] EXCEPT !.age = Older(@)].status = ledger[k].status
    <3>1. ledger[k] \in Row
      BY DEF TypeOK
    <3> QED
      BY <3>1 DEF Row
  <2>2. Verdicts' = Verdicts
    BY <1>9, <2>1 DEF Tick, Verdicts
  <2> QED
    BY <1>6, <1>9, <2>2 DEF Tick
<1>10. CASE UNCHANGED vars
  BY <1>6, <1>10 DEF vars, durable, Verdicts
<1> QED
  BY <1>1, <1>2, <1>3, <1>4, <1>5, <1>7, <1>8, <1>9, <1>10
     DEF Next, PersistStep

\* The relay implements the slots: one attempt holds a (replyId, text) from
\* the claim to its result, and no verdict is written while somebody holds
\* it, whatever crashes and however late persistence is.
THEOREM SlotsAreKept == Spec => KeepsSlot
<1>1. Init => Slot!Init
  <2> SUFFICES ASSUME Init PROVE Slot!Init
    OBVIOUS
  <2>1. \A a \in Attempt : pc[a] \notin Active
    BY StageType DEF Init
  <2>2. \A k \in Key : Holder(k) = "nobody" /\ ledger[k].status = "none"
    BY <2>1, NobodyHolds DEF Init, NoRow, Holding
  <2> QED
    BY <2>2 DEF Slot!Init
<1>2. TypeOK /\ RelayInv /\ RelayInv' /\ [Next]_vars => [Slot!Next]_(Slot!slotVars)
  BY SlotStep
<1> QED
  BY <1>1, <1>2, Typing, Relaying, PTL DEF Spec, KeepsSlot, Slot!Spec

(***************************************************************************)
(* Who takes back a "sent"                                                 *)
(***************************************************************************)

\* A failed result that is not handled yet stands for a send that was refused,
\* or for one that ran, and then nothing has made its row "sent" meanwhile.
FailureIsFirst ==
  \A i \in 1..Len(inbox) : inbox[i].op = "fail" =>
    LET a == inbox[i].a
    IN  /\ pc[a] \in {"failed", "gateFailed"}
        /\ pc[a] = "failed" => ledger[K(a)].status # "sent"

VerdictsHaveCause ==
  \A i \in 1..Len(job) :
    /\ job[i] = "markSent"   => Head(inbox).op = "ok"
    /\ job[i] = "markFailed" => Head(inbox).op = "fail"

VerdictInv == FailureIsFirst /\ VerdictsHaveCause

LEMMA OnceIn ==
  ASSUME NEW S, NEW kind \in S, NEW a, NEW effects \in Seq(S)
  PROVE  Once(kind, a, effects) \in Seq(S)
<1>1. Append(effects, kind) \in Seq(S)
  OBVIOUS
<1> QED
  BY <1>1 DEF Once

\* What a handler plans for a result.
LEMMA PlanVerdicts ==
  ASSUME NEW op \in Op \ {"dedup", "pend"}, NEW a \in Attempt,
         NEW i \in 1..Len(Plan(op, a))
  PROVE  /\ Plan(op, a)[i] = "markSent"   => op = "ok"
         /\ Plan(op, a)[i] = "markFailed" => op = "fail"
<1>1. CASE op = "ok"
  <2> DEFINE x == Once("success", a, <<"markSent">>)
             y == Once("sentRow", a, <<"rowSent">>)
             z == Once("handled", a, <<"markHandled">>)
             S == Write \ {"markFailed"}
  <2>1. x \in Seq(S) /\ y \in Seq(S) /\ z \in Seq(S)
    <3>1. /\ {"success", "sentRow", "handled"} \subseteq S
          /\ <<"markSent">> \in Seq(S) /\ <<"rowSent">> \in Seq(S)
          /\ <<"markHandled">> \in Seq(S)
      BY DEF Write, Kind, Effect
    <3> HIDE DEF S
    <3> QED
      BY <3>1, OnceIn
  <2> HIDE DEF x, y, z, S
  <2>2. Plan(op, a) = x \o y \o z
    BY <1>1 DEF Plan, x, y, z
  <2>3. Plan(op, a) \in Seq(S)
    BY <2>1, <2>2, ConcatType
  <2>4. Plan(op, a)[i] \in S
    BY <2>3
  <2> QED
    BY <1>1, <2>4 DEF S
<1>2. CASE op = "fail"
  <2> DEFINE x == Once("fail", a, <<"markFailed", "freeClaim">>)
             y == Once("failRow", a, <<"rowFailed">>)
             z == Once("sendDead", a, <<"deadLetter">>)
             S == Write \ {"markSent"}
  <2>1. x \in Seq(S) /\ y \in Seq(S) /\ z \in Seq(S)
    <3>1. /\ {"fail", "failRow", "sendDead"} \subseteq S
          /\ <<"markFailed", "freeClaim">> \in Seq(S) /\ <<"rowFailed">> \in Seq(S)
          /\ <<"deadLetter">> \in Seq(S)
      BY DEF Write, Kind, Effect
    <3> HIDE DEF S
    <3> QED
      BY <3>1, OnceIn
  <2> HIDE DEF x, y, z, S
  <2>2. Plan(op, a) = x \o y \o z
    BY <1>2 DEF Plan, x, y, z
  <2>3. Plan(op, a) \in Seq(S)
    BY <2>1, <2>2, ConcatType
  <2>4. Plan(op, a)[i] \in S
    BY <2>3
  <2> QED
    BY <1>2, <2>4 DEF S
<1>3. CASE op \notin {"ok", "fail"}
  BY <1>3, PlanType
<1> QED
  BY <1>1, <1>2, <1>3

\* Attempts that have ended stay where they are.
LEMMA SettledStay ==
  ASSUME TypeOK, [Next]_vars, NEW a \in Attempt,
         pc[a] \in {"failed", "gateFailed"}
  PROVE  pc'[a] = pc[a]
<1> USE StageType
<1>0. pc \in [Attempt -> Stage]
  BY DEF TypeOK
<1>1. ASSUME NEW b \in Attempt, AttemptStep(b) PROVE pc'[a] = pc[a]
  BY <1>0, <1>1 DEF AttemptStep, Deliver, LookupFound, LookupMissing,
     DedupTimeout, SenderReceive, GateTimeout, ListenerReceive, WireSend,
     SendAck, SendFail, SendTimeout, LateSend, Move
<1>2. CASE PersistDedup
  BY <1>0, <1>2 DEF PersistDedup, Move
<1>3. CASE PersistPend
  BY <1>0, <1>3 DEF PersistPend, Move
<1>4. ASSUME NEW w \in Worker, Crash(w) PROVE pc'[a] = pc[a]
  BY <1>4 DEF Crash, Place
<1>5. CASE UNCHANGED pc
  BY <1>5
<1> QED
  BY <1>1, <1>2, <1>3, <1>4, <1>5
     DEF Next, PersistStep, PersistBegin, PersistWrite, Restart, Tick, vars

\* The messages a step leaves in the inbox, and the one it may add.
LEMMA FailuresKept ==
  ASSUME TypeOK, VerdictInv, [Next]_vars,
         \A i \in 1..Len(inbox') : inbox'[i].op = "fail" =>
           \/ \E j \in 1..Len(inbox) :
                /\ inbox'[i] = inbox[j]
                /\ ledger'[K(inbox[j].a)].status = "sent"
                     => ledger[K(inbox[j].a)].status = "sent"
           \/ LET a == inbox'[i].a
              IN  /\ pc'[a] \in {"failed", "gateFailed"}
                  /\ pc'[a] = "failed" => ledger'[K(a)].status # "sent"
  PROVE  FailureIsFirst'
<1> SUFFICES ASSUME NEW i \in 1..Len(inbox'), inbox'[i].op = "fail",
                    NEW j \in 1..Len(inbox), inbox'[i] = inbox[j],
                    ledger'[K(inbox[j].a)].status = "sent"
                      => ledger[K(inbox[j].a)].status = "sent"
             PROVE  LET a == inbox[j].a
                    IN  /\ pc'[a] \in {"failed", "gateFailed"}
                        /\ pc'[a] = "failed" => ledger'[K(a)].status # "sent"
  BY DEF FailureIsFirst, K
<1>1. PICK a \in Attempt : a = inbox[j].a
  BY ItemTypes
<1>2. /\ pc[a] \in {"failed", "gateFailed"}
      /\ pc[a] = "failed" => ledger[K(a)].status # "sent"
  BY <1>1 DEF VerdictInv, FailureIsFirst
<1>3. pc'[a] = pc[a]
  BY <1>2, SettledStay
<1> QED
  BY <1>1, <1>2, <1>3

LEMMA FailuresAttempt ==
  ASSUME TypeOK, RelayInv, VerdictInv, NEW a \in Attempt, AttemptStep(a)
  PROVE  FailureIsFirst'
<1> DEFINE n == Len(inbox)
<1>1. /\ pc \in [Attempt -> Stage] /\ inbox \in Seq(Item) /\ n \in Nat
      /\ ledger' = ledger /\ [Next]_vars
  BY DEF TypeOK, Next, AttemptStep, Deliver, LookupFound, LookupMissing,
     DedupTimeout, SenderReceive, GateTimeout, ListenerReceive, WireSend,
     SendAck, SendFail, SendTimeout, LateSend, durable
<1>2. CASE inbox' = inbox
  BY <1>1, <1>2, FailuresKept
<1>3. ASSUME NEW op \in Op, inbox' = Append(inbox, [op |-> op, a |-> a]),
             op = "fail" => /\ pc'[a] \in {"failed", "gateFailed"}
                            /\ pc'[a] = "failed" => pc[a] = "sending"
      PROVE  FailureIsFirst'
  <2>1. /\ Len(inbox') = n + 1
        /\ \A i \in 1..n + 1 : i \in 1..n \/ i = n + 1
        /\ \A i \in 1..n : inbox'[i] = inbox[i]
        /\ inbox'[n + 1].op = op /\ inbox'[n + 1].a = a
    BY <1>1, <1>3, AppendProperties
  <2>2. pc[a] = "sending" => ledger'[K(a)].status # "sent"
    BY <1>1 DEF LedgerShowsSend, RelayInv
  <2> HIDE DEF n
  <2>3. ASSUME NEW i \in 1..Len(inbox'), inbox'[i].op = "fail"
        PROVE  \/ \E j \in 1..n :
                    /\ inbox'[i] = inbox[j]
                    /\ ledger'[K(inbox[j].a)].status = "sent"
                         => ledger[K(inbox[j].a)].status = "sent"
               \/ LET b == inbox'[i].a
                  IN  /\ pc'[b] \in {"failed", "gateFailed"}
                      /\ pc'[b] = "failed" => ledger'[K(b)].status # "sent"
    BY <1>1, <1>3, <2>1, <2>2, <2>3
  <2> QED
    BY <1>1, <2>3, FailuresKept DEF n
<1>4. CASE LookupFound(a) \/ LookupMissing(a) \/ DedupTimeout(a)
  BY <1>2, <1>3, <1>4 DEF LookupFound, LookupMissing, DedupTimeout, Post, Op
<1>5. CASE SenderReceive(a)
  BY <1>2, <1>3, <1>5 DEF SenderReceive, Post, Op
<1>6. CASE GateTimeout(a)
  BY <1>1, <1>2, <1>3, <1>6 DEF GateTimeout, Post, Op, Move
<1>7. CASE SendAck(a)
  BY <1>2, <1>3, <1>7 DEF SendAck, Post, Op
<1>8. CASE SendFail(a) \/ SendTimeout(a)
  BY <1>1, <1>2, <1>3, <1>8 DEF SendFail, SendTimeout, Post, Op, Move
<1>9. CASE Deliver(a) \/ ListenerReceive(a) \/ WireSend(a) \/ LateSend(a)
  BY <1>2, <1>9 DEF Deliver, ListenerReceive, WireSend, LateSend
<1> QED
  BY <1>4, <1>5, <1>6, <1>7, <1>8, <1>9 DEF AttemptStep

LEMMA VerdictAttempt ==
  ASSUME TypeOK, RelayInv, VerdictInv, NEW a \in Attempt, AttemptStep(a)
  PROVE  VerdictInv'
<1>1. FailureIsFirst'
  BY FailuresAttempt
<1>2. job' = job /\ (job # <<>> => inbox # <<>>) /\ job \in Seq(Write)
  BY DEF TypeOK, AttemptStep, Deliver, LookupFound, LookupMissing, DedupTimeout,
     SenderReceive, GateTimeout, ListenerReceive, WireSend, SendAck, SendFail,
     SendTimeout, LateSend
<1>3. inbox' = inbox \/ \E op \in Op : inbox' = Append(inbox, [op |-> op, a |-> a])
  BY DEF AttemptStep, Deliver, LookupFound, LookupMissing, DedupTimeout,
     SenderReceive, GateTimeout, ListenerReceive, WireSend, SendAck, SendFail,
     SendTimeout, LateSend, Post, Op
<1>4. job # <<>> => Head(inbox') = Head(inbox)
  <2>1. inbox \in Seq(Item) /\ \A op \in Op : [op |-> op, a |-> a] \in Item
    BY DEF TypeOK, Item
  <2>2. ASSUME NEW new \in Item, inbox # <<>> PROVE Head(Append(inbox, new)) = Head(inbox)
    BY <2>1, <2>2
  <2> QED
    <3>1. CASE inbox' = inbox
      BY <3>1
    <3>2. CASE \E op \in Op : inbox' = Append(inbox, [op |-> op, a |-> a])
      BY <1>2, <2>1, <2>2, <3>2
    <3> QED
      BY <1>3, <3>1, <3>2
<1>5. VerdictsHaveCause'
  <2>1. \A i \in 1..Len(job) : job # <<>>
    BY <1>2
  <2> QED
    BY <1>2, <1>4, <2>1 DEF VerdictsHaveCause, VerdictInv
<1> QED
  BY <1>1, <1>5 DEF VerdictInv

\* Handling a message leaves the others, and no verdict of "sent" but for it.
LEMMA FailuresTaken ==
  ASSUME TypeOK, RelayInv, VerdictInv, [Next]_vars, inbox # <<>>,
         inbox' \in {inbox, Tail(inbox)},
         \A i \in 1..Len(inbox) : inbox[i].op = "fail" =>
           (ledger'[K(inbox[i].a)].status = "sent"
              => ledger[K(inbox[i].a)].status = "sent")
  PROVE  FailureIsFirst'
<1>1. \A i \in 1..Len(inbox') : \E j \in 1..Len(inbox) : inbox'[i] = inbox[j]
  BY TailProps
<1> QED
  BY <1>1, FailuresKept

LEMMA VerdictPersist ==
  ASSUME TypeOK, RelayInv, VerdictInv, PersistStep
  PROVE  VerdictInv'
<1>0. [Next]_vars
  BY DEF Next
<1>1. CASE PersistDedup
  <2>1. /\ inbox # <<>> /\ inbox' = Tail(inbox) /\ ledger' = ledger
        /\ job' = <<>>
    BY <1>1 DEF PersistDedup, Serving
  <2>2. FailureIsFirst'
    BY <1>0, <2>1, FailuresTaken
  <2> QED
    BY <2>1, <2>2 DEF VerdictInv, VerdictsHaveCause
<1>2. CASE PersistPend
  <2>1. PICK a \in Attempt : a = Head(inbox).a
    BY <1>2, HeadType DEF PersistPend, Serving
  <2>2. /\ inbox # <<>> /\ Tail(inbox) \in Seq(Item) /\ job' = <<>>
        /\ inbox' \in {Tail(inbox), Append(Tail(inbox), [op |-> "ok", a |-> a])}
    BY <1>2, <2>1, HeadType DEF PersistPend, Serving
  <2>3. \A k \in Key : ledger'[k].status \in {ledger[k].status, "pending"}
    <3>1. ledger \in [Key -> Row] /\ K(a) \in Key
      BY KeyType DEF TypeOK
    <3> QED
      BY <1>2, <2>1, <3>1 DEF PersistPend
  <2>4. ASSUME NEW i \in 1..Len(inbox'), inbox'[i].op = "fail"
        PROVE  \E j \in 1..Len(inbox) :
                 /\ inbox'[i] = inbox[j]
                 /\ ledger'[K(inbox[j].a)].status = "sent"
                      => ledger[K(inbox[j].a)].status = "sent"
    <3>1. \A j \in 1..Len(inbox) : K(inbox[j].a) \in Key
      BY ItemTypes, KeyType
    <3>2. \E j \in 1..Len(inbox) : inbox'[i] = inbox[j]
      <4>1. CASE inbox' = Tail(inbox)
        BY <2>2, <4>1, TailProps
      <4>2. CASE inbox' = Append(Tail(inbox), [op |-> "ok", a |-> a])
        <5>1. i \in 1..Len(Tail(inbox)) /\ inbox'[i] = Tail(inbox)[i]
          BY <2>2, <2>4, <4>2
        <5> QED
          BY <2>2, <5>1, TailProps
      <4> QED
        BY <2>2, <4>1, <4>2
    <3> QED
      BY <2>3, <3>1, <3>2
  <2>5. FailureIsFirst'
    BY <1>0, <2>4, FailuresKept
  <2> QED
    BY <2>2, <2>5 DEF VerdictInv, VerdictsHaveCause
<1>3. CASE PersistBegin
  <2>1. /\ inbox # <<>> /\ inbox' \in {inbox, Tail(inbox)} /\ ledger' = ledger
        /\ Head(inbox).op \in Op \ {"dedup", "pend"} /\ Head(inbox).a \in Attempt
        /\ job' = Plan(Head(inbox).op, Head(inbox).a)
        /\ job' # <<>> => inbox' = inbox
    BY <1>3, HeadType DEF PersistBegin, Serving, durable
  <2>2. FailureIsFirst'
    BY <1>0, <2>1, FailuresTaken
  <2>3. VerdictsHaveCause'
    <3> SUFFICES ASSUME NEW i \in 1..Len(job')
                 PROVE  /\ job'[i] = "markSent"   => Head(inbox').op = "ok"
                        /\ job'[i] = "markFailed" => Head(inbox').op = "fail"
      BY DEF VerdictsHaveCause
    <3>1. job' # <<>>
      OBVIOUS
    <3> QED
      BY <2>1, <3>1, PlanVerdicts
  <2> QED
    BY <2>2, <2>3 DEF VerdictInv
<1>4. CASE PersistWrite
  <2>1. /\ inbox # <<>> /\ inbox' \in {inbox, Tail(inbox)} /\ job # <<>>
        /\ job \in Seq(Write) /\ job' = Tail(job)
        /\ job' # <<>> => inbox' = inbox
    BY <1>4 DEF PersistWrite, TypeOK
  <2>2. PICK a \in Attempt : /\ a = Head(inbox).a /\ a = inbox[1].a
                             /\ Head(inbox) = inbox[1] /\ 1 \in 1..Len(inbox)
    BY <2>1, HeadType
  <2>3. ApplyWrite(Head(job), a) /\ Head(job) = job[1] /\ 1 \in 1..Len(job)
    BY <1>4, <2>1, <2>2 DEF PersistWrite
  <2>4. ASSUME NEW i \in 1..Len(inbox), inbox[i].op = "fail",
               ledger'[K(inbox[i].a)].status = "sent",
               ledger[K(inbox[i].a)].status # "sent"
        PROVE  FALSE
    <3>1. ledger \in [Key -> Row] /\ K(inbox[i].a) \in Key /\ K(a) \in Key
      BY ItemTypes, KeyType DEF TypeOK
    <3>2. Head(job) = "markSent" /\ K(inbox[i].a) = K(a)
      BY <2>3, <2>4, <3>1 DEF ApplyWrite
    <3>3. inbox[1].op = "ok"
      BY <2>2, <2>3, <3>2 DEF VerdictInv, VerdictsHaveCause
    <3>4. i = 1
      BY <2>2, <2>4, <3>2, <3>3 DEF Result, ResultsAreOver, RelayInv
    <3> QED
      BY <2>4, <3>3, <3>4
  <2>5. FailureIsFirst'
    BY <1>0, <2>1, <2>4, FailuresTaken
  <2>6. VerdictsHaveCause'
    <3>1. \A i \in 1..Len(job') : i + 1 \in 1..Len(job) /\ job'[i] = job[i + 1]
      BY <2>1
    <3>2. \A i \in 1..Len(job') : job' # <<>>
      OBVIOUS
    <3> QED
      BY <2>1, <3>1, <3>2 DEF VerdictsHaveCause, VerdictInv
  <2> QED
    BY <2>5, <2>6 DEF VerdictInv
<1> QED
  BY <1>1, <1>2, <1>3, <1>4 DEF PersistStep

LEMMA VerdictStep ==
  ASSUME TypeOK, RelayInv, VerdictInv, [Next]_vars
  PROVE  VerdictInv'
<1>1. ASSUME NEW a \in Attempt, AttemptStep(a) PROVE VerdictInv'
  BY <1>1, VerdictAttempt
<1>2. CASE PersistStep
  BY <1>2, VerdictPersist
<1>3. CASE /\ UNCHANGED <<inbox, job>>
           /\ \A k \in Key : ledger'[k].status = ledger[k].status
  <2>1. \A i \in 1..Len(inbox) : K(inbox[i].a) \in Key
    BY ItemTypes, KeyType
  <2>2. FailureIsFirst'
    BY <1>3, <2>1, FailuresKept
  <2> QED
    BY <1>3, <2>2 DEF VerdictInv, VerdictsHaveCause
<1>4. ASSUME NEW w \in Worker, Crash(w) PROVE VerdictInv'
  <2>1. CASE w = "persistence"
    <3>1. inbox' = <<>> /\ job' = <<>>
      BY <1>4, <2>1 DEF Crash
    <3> QED
      BY <3>1 DEF VerdictInv, FailureIsFirst, VerdictsHaveCause
  <2>2. CASE w # "persistence"
    BY <1>3, <1>4, <2>2 DEF Crash, durable
  <2> QED
    BY <2>1, <2>2
<1>5. ASSUME NEW w \in Worker, Restart(w) PROVE VerdictInv'
  BY <1>3, <1>5 DEF Restart, durable
<1>6. CASE Tick
  <2>1. ASSUME NEW k \in Key
        PROVE  [ledger[k] EXCEPT !.age = Older(@)].status = ledger[k].status
    <3>1. ledger[k] \in Row
      BY DEF TypeOK
    <3> QED
      BY <3>1 DEF Row
  <2> QED
    BY <1>3, <1>6, <2>1 DEF Tick
<1>7. CASE UNCHANGED vars
  BY <1>3, <1>7 DEF vars, durable
<1> QED
  BY <1>1, <1>2, <1>4, <1>5, <1>6, <1>7 DEF Next

LEMMA TakenBackStep ==
  ASSUME TypeOK, VerdictInv, [Next]_vars, NEW k \in Key,
         ledger[k].status = "sent", ledger'[k].status # "sent"
  PROVE  pc[Head(inbox).a] = "gateFailed"
<1>0. ledger \in [Key -> Row]
  BY DEF TypeOK
<1>1. PersistWrite
  <2>1. ~PersistPend
    <3> SUFFICES ASSUME PersistPend PROVE FALSE
      OBVIOUS
    <3>1. Head(inbox).a \in Attempt
      BY HeadType DEF PersistPend, Serving
    <3> QED
      BY <1>0, <3>1, KeyType DEF PersistPend, GateVerdict
  <2>2. ~Tick
    <3>1. ledger[k] \in Row
      BY <1>0
    <3>2. [ledger[k] EXCEPT !.age = Older(@)].status = "sent"
      BY <3>1 DEF Row
    <3> QED
      BY <3>2 DEF Tick
  <2>3. \A a \in Attempt : ~AttemptStep(a)
    BY DEF AttemptStep, Deliver, LookupFound, LookupMissing, DedupTimeout,
       SenderReceive, GateTimeout, ListenerReceive, WireSend, SendAck, SendFail,
       SendTimeout, LateSend, durable
  <2>4. ledger' # ledger
    OBVIOUS
  <2> QED
    BY <2>1, <2>2, <2>3, <2>4 DEF Next, PersistStep, PersistDedup, PersistBegin,
       Crash, Restart, vars, durable
<1>2. inbox # <<>> /\ job # <<>> /\ job \in Seq(Write)
  BY <1>1 DEF PersistWrite, TypeOK
<1>3. PICK a \in Attempt : /\ a = Head(inbox).a /\ a = inbox[1].a
                           /\ Head(inbox) = inbox[1] /\ 1 \in 1..Len(inbox)
  BY <1>2, HeadType
<1>4. ApplyWrite(Head(job), a) /\ Head(job) = job[1] /\ 1 \in 1..Len(job)
  BY <1>1, <1>2, <1>3 DEF PersistWrite
<1>5. k = K(a) /\ Head(job) = "markFailed"
  BY <1>0, <1>4, KeyType DEF ApplyWrite
<1>6. inbox[1].op = "fail"
  BY <1>3, <1>4, <1>5 DEF VerdictInv, VerdictsHaveCause
<1> QED
  BY <1>3, <1>5, <1>6 DEF VerdictInv, FailureIsFirst

\* A row that says "sent" is taken back only when the failure being recorded
\* is that of a request that was refused before it reached the listener.
THEOREM OnlyRefusalTakesBack == Spec => SentTakenBackOnlyByRefusal
<1>1. Init => VerdictInv
  BY DEF Init, VerdictInv, FailureIsFirst, VerdictsHaveCause
<1>2. TypeOK /\ RelayInv /\ VerdictInv /\ [Next]_vars => VerdictInv'
  BY VerdictStep
<1>3. TypeOK /\ VerdictInv /\ [Next]_vars =>
        [\A k \in Key : ledger[k].status = "sent" /\ ledger'[k].status # "sent"
                          => pc[Head(inbox).a] = "gateFailed"]_vars
  BY TakenBackStep
<1> QED
  BY <1>1, <1>2, <1>3, Typing, Relaying, PTL DEF Spec, SentTakenBackOnlyByRefusal

-------------------------------------------------------------------------------
(***************************************************************************)
(* Failures on record                                                      *)
(***************************************************************************)
Recorded(k) == \E b \in dead : K(b) = k

\* What a failed attempt has told persistence.
Reported == [missing |-> "missing", unclaimed |-> "unclaimed",
             failed |-> "fail", gateFailed |-> "fail"]
Failure  == {"missing", "unclaimed", "fail"}
Marker   == {"missing", "unclaimed", "sendDead"}

Awaited(a) == \E i \in 1..Len(inbox) : inbox[i] = [op |-> Reported[pc[a]], a |-> a]

FailuresReported ==
  /\ up = Worker
  /\ \A a \in Attempt : pc[a] \in DOMAIN Reported => Awaited(a) \/ Recorded(K(a))

\* The letter of a failure is among the writes left for it, and before the key
\* that says it is written.
LettersPlanned ==
  job # <<>> /\ Head(inbox).op \in Failure =>
    Recorded(K(Head(inbox).a)) \/ \E i \in 1..Len(job) : job[i] = "deadLetter"
LettersFirst ==
  \A i \in 1..Len(job) : job[i] \in Marker =>
    \/ Recorded(K(Head(inbox).a))
    \/ \E j \in 1..Len(job) : j < i /\ job[j] = "deadLetter"

\* A failure that was taken for a repeated one has a letter.
RepeatsRecorded ==
  \A a \in Attempt, kind \in Marker : CacheKey(kind, a) \in cache => Recorded(K(a))

RecordInv ==
  /\ crashes = 0 => FailuresReported
  /\ LettersPlanned /\ LettersFirst /\ RepeatsRecorded


\* What persistence plans for a message: the letter before its key.
LEMMA PlanLetters ==
  ASSUME RepeatsRecorded, NEW op \in Op \ {"dedup", "pend"}, NEW a \in Attempt
  PROVE  /\ op \in Failure => \/ Recorded(K(a))
                              \/ \E i \in 1..Len(Plan(op, a)) : Plan(op, a)[i] = "deadLetter"
         /\ \A i \in 1..Len(Plan(op, a)) : Plan(op, a)[i] \in Marker =>
              \/ Recorded(K(a))
              \/ \E j \in 1..Len(Plan(op, a)) : j < i /\ Plan(op, a)[j] = "deadLetter"
<1>1. CASE op = "ok"
  <2> DEFINE x == Once("success", a, <<"markSent">>)
             y == Once("sentRow", a, <<"rowSent">>)
             z == Once("handled", a, <<"markHandled">>)
             S == Write \ Marker
  <2>1. x \in Seq(S) /\ y \in Seq(S) /\ z \in Seq(S)
    <3>1. /\ {"success", "sentRow", "handled"} \subseteq S
          /\ <<"markSent">> \in Seq(S) /\ <<"rowSent">> \in Seq(S)
          /\ <<"markHandled">> \in Seq(S)
      BY DEF Write, Kind, Effect, Marker
    <3> HIDE DEF S
    <3> QED
      BY <3>1, OnceIn
  <2> HIDE DEF x, y, z, S
  <2>2. Plan(op, a) = x \o y \o z
    BY <1>1 DEF Plan, x, y, z
  <2>3. Plan(op, a) \in Seq(S)
    BY <2>1, <2>2, ConcatType
  <2>4. \A i \in 1..Len(Plan(op, a)) : Plan(op, a)[i] \in S
    BY <2>3
  <2> QED
    BY <1>1, <2>4 DEF S, Failure
<1>2. CASE op = "fail"
  <2>1. CASE CacheKey("sendDead", a) \in cache
    BY <2>1 DEF RepeatsRecorded, Marker
  <2>2. CASE CacheKey("sendDead", a) \notin cache
    <3> DEFINE x == Once("fail", a, <<"markFailed", "freeClaim">>)
               y == Once("failRow", a, <<"rowFailed">>)
               S == Write \ Marker
               xy == x \o y
    <3>1. x \in Seq(S) /\ y \in Seq(S)
      <4>1. /\ {"fail", "failRow"} \subseteq S
            /\ <<"markFailed", "freeClaim">> \in Seq(S) /\ <<"rowFailed">> \in Seq(S)
        BY DEF Write, Kind, Effect, Marker
      <4> HIDE DEF S
      <4> QED
        BY <4>1, OnceIn
    <3> HIDE DEF x, y, S
    <3>2. xy \in Seq(S)
      BY <3>1
    <3>3. Plan(op, a) = xy \o <<"deadLetter", "sendDead">>
      BY <1>2, <2>2 DEF Plan, Once, x, y
    <3> HIDE DEF xy
    <3>4. /\ Len(xy) \in Nat /\ Len(Plan(op, a)) = Len(xy) + 2
          /\ \A i \in 1..Len(xy) : Plan(op, a)[i] \in S
          /\ Plan(op, a)[Len(xy) + 1] = "deadLetter"
      BY <3>2, <3>3
    <3>5. \A i \in 1..Len(Plan(op, a)) : Plan(op, a)[i] \in Marker => i = Len(xy) + 2
      BY <3>4 DEF S, Marker
    <3> QED
      BY <3>4, <3>5
  <2> QED
    BY <2>1, <2>2
<1>3. CASE op \in {"missing", "unclaimed"}
  <2>1. Plan(op, a) = Once(op, a, <<"deadLetter">>)
    BY <1>3 DEF Plan
  <2>2. CASE CacheKey(op, a) \in cache
    BY <1>3, <2>2 DEF RepeatsRecorded, Marker
  <2>3. CASE CacheKey(op, a) \notin cache
    <3>1. Plan(op, a) = Append(<<"deadLetter">>, op)
      BY <2>1, <2>3 DEF Once
    <3>2. /\ Len(Plan(op, a)) = 2 /\ Plan(op, a)[1] = "deadLetter"
          /\ \A i \in 1..Len(Plan(op, a)) : i = 1 \/ i = 2
      BY <3>1
    <3> QED
      BY <3>2 DEF Marker
  <2> QED
    BY <2>2, <2>3
<1> QED
  BY <1>1, <1>2, <1>3 DEF Op

\* Attempts that have failed stay so.
LEMMA FailedStay ==
  ASSUME TypeOK, [Next]_vars, NEW a \in Attempt, pc[a] \in DOMAIN Reported
  PROVE  pc'[a] = pc[a]
<1> USE StageType
<1>0. pc \in [Attempt -> Stage] /\ pc[a] \in {"missing", "unclaimed", "failed", "gateFailed"}
  BY DEF TypeOK, Reported
<1>1. ASSUME NEW b \in Attempt, AttemptStep(b) PROVE pc'[a] = pc[a]
  BY <1>0, <1>1 DEF AttemptStep, Deliver, LookupFound, LookupMissing,
     DedupTimeout, SenderReceive, GateTimeout, ListenerReceive, WireSend,
     SendAck, SendFail, SendTimeout, LateSend, Move
<1>2. CASE PersistDedup
  BY <1>0, <1>2 DEF PersistDedup, Move
<1>3. CASE PersistPend
  BY <1>0, <1>3 DEF PersistPend, Move
<1>4. ASSUME NEW w \in Worker, Crash(w) PROVE pc'[a] = pc[a]
  BY <1>0, <1>4 DEF Crash, Place
<1>5. CASE UNCHANGED pc
  BY <1>5
<1> QED
  BY <1>1, <1>2, <1>3, <1>4, <1>5
     DEF Next, PersistStep, PersistBegin, PersistWrite, Restart, Tick, vars

\* A step of an attempt that fails tells persistence.
LEMMA FailureReported ==
  ASSUME TypeOK, up = Worker, NEW a \in Attempt, AttemptStep(a),
         NEW b \in Attempt, pc[b] \notin DOMAIN Reported, pc'[b] \in DOMAIN Reported
  PROVE  /\ b = a /\ inbox' = Append(inbox, [op |-> Reported[pc'[b]], a |-> b])
<1> USE StageType
<1>0. pc \in [Attempt -> Stage] /\ "persistence" \in up /\ {"reply", "sender", "listener"} \subseteq up
  BY DEF TypeOK, Worker
<1>1. b = a
  BY <1>0 DEF AttemptStep, Deliver, LookupFound, LookupMissing,
     DedupTimeout, SenderReceive, GateTimeout, ListenerReceive, WireSend,
     SendAck, SendFail, SendTimeout, LateSend, Move
<1>2. DOMAIN Reported = {"missing", "unclaimed", "failed", "gateFailed"}
  BY DEF Reported
<1>3. CASE LookupMissing(a)
  BY <1>0, <1>1, <1>3 DEF LookupMissing, Move, Post, Reported
<1>4. CASE DedupTimeout(a)
  BY <1>0, <1>1, <1>4 DEF DedupTimeout, Move, Post, Reported
<1>5. CASE GateTimeout(a)
  BY <1>0, <1>1, <1>5 DEF GateTimeout, Move, Post, Reported
<1>6. CASE SendFail(a)
  BY <1>0, <1>1, <1>6 DEF SendFail, Move, Post, Reported
<1>7. CASE SendTimeout(a)
  BY <1>0, <1>1, <1>7 DEF SendTimeout, Move, Post, Reported
<1>8. CASE Deliver(a) \/ LookupFound(a) \/ SenderReceive(a) \/ ListenerReceive(a)
             \/ WireSend(a) \/ SendAck(a) \/ LateSend(a)
  BY <1>0, <1>1, <1>2, <1>8 DEF Deliver, LookupFound, SenderReceive, ListenerReceive,
     WireSend, SendAck, LateSend, Move
<1> QED
  BY <1>3, <1>4, <1>5, <1>6, <1>7, <1>8 DEF AttemptStep

\* A step that only adds to the inbox leaves what is planned alone.
LEMMA PlansKept ==
  ASSUME TypeOK, LettersPlanned, LettersFirst, RepeatsRecorded,
         UNCHANGED <<job, dead, cache>>,
         job # <<>> => Head(inbox') = Head(inbox)
  PROVE  LettersPlanned' /\ LettersFirst' /\ RepeatsRecorded'
<1>1. \A k : Recorded(k)' <=> Recorded(k)
  BY DEF Recorded, K
<1>2. LettersPlanned'
  BY <1>1 DEF LettersPlanned, K
<1>3. LettersFirst'
  <2>1. CASE job = <<>>
    BY <2>1 DEF LettersFirst
  <2>2. CASE job # <<>>
    BY <1>1, <2>2 DEF LettersFirst, K
  <2> QED
    BY <2>1, <2>2
<1>4. RepeatsRecorded'
  BY <1>1 DEF RepeatsRecorded, K, CacheKey
<1> QED
  BY <1>2, <1>3, <1>4

LEMMA RecordAttempt ==
  ASSUME TypeOK, [Next]_vars, RecordInv, NEW a \in Attempt, AttemptStep(a)
  PROVE  RecordInv'
<1>1. UNCHANGED <<job, durable, up, crashes>>
  BY DEF AttemptStep, Deliver, LookupFound, LookupMissing, DedupTimeout,
     SenderReceive, GateTimeout, ListenerReceive, WireSend, SendAck, SendFail,
     SendTimeout, LateSend
<1>2. inbox \in Seq(Item) /\ (job # <<>> => inbox # <<>>)
  BY DEF TypeOK
<1>3. \/ inbox' = inbox
      \/ \E op \in Op : inbox' = Append(inbox, [op |-> op, a |-> a])
  BY DEF AttemptStep, Deliver, LookupFound, LookupMissing, DedupTimeout,
     SenderReceive, GateTimeout, ListenerReceive, WireSend, SendAck, SendFail,
     SendTimeout, LateSend, Post, Op
<1>4. /\ \A i \in 1..Len(inbox) : i \in 1..Len(inbox') /\ inbox'[i] = inbox[i]
      /\ job # <<>> => Head(inbox') = Head(inbox)
  <2>1. CASE inbox' = inbox
    BY <2>1
  <2>2. ASSUME NEW item \in Item, inbox' = Append(inbox, item)
        PROVE  /\ \A i \in 1..Len(inbox) : i \in 1..Len(inbox') /\ inbox'[i] = inbox[i]
               /\ inbox # <<>> => Head(inbox') = Head(inbox)
    BY <1>2, <2>2
  <2>3. \A op \in Op : [op |-> op, a |-> a] \in Item
    BY DEF Item
  <2> QED
    BY <1>2, <1>3, <2>1, <2>2, <2>3
<1>5. LettersPlanned' /\ LettersFirst' /\ RepeatsRecorded'
  BY <1>1, <1>4, PlansKept DEF RecordInv, durable
<1>6. ASSUME crashes = 0
      PROVE  FailuresReported'
  <2>1. up' = Worker
    BY <1>1, <1>6 DEF RecordInv, FailuresReported
  <2> SUFFICES ASSUME NEW b \in Attempt, pc'[b] \in DOMAIN Reported
               PROVE  Awaited(b)' \/ Recorded(K(b))'
    BY <2>1 DEF FailuresReported, Reported
  <2>2. CASE pc[b] \in DOMAIN Reported
    <3>1. pc'[b] = pc[b]
      BY <2>2, FailedStay
    <3>2. Awaited(b) \/ Recorded(K(b))
      BY <1>6, <2>2 DEF RecordInv, FailuresReported
    <3> QED
      BY <1>1, <1>4, <3>1, <3>2 DEF Awaited, Recorded, K, durable, Reported
  <2>3. CASE pc[b] \notin DOMAIN Reported
    <3>1. b = a /\ inbox' = Append(inbox, [op |-> Reported[pc'[b]], a |-> b])
      BY <1>1, <2>1, <2>3, FailureReported
    <3>2. /\ Len(inbox) + 1 \in 1..Len(inbox')
          /\ inbox'[Len(inbox) + 1] = [op |-> Reported[pc'[b]], a |-> b]
      BY <1>2, <3>1
    <3> QED
      BY <3>2 DEF Awaited, Reported
  <2> QED
    BY <2>2, <2>3
<1> QED
  BY <1>1, <1>5, <1>6 DEF RecordInv


\* A step of persistence that takes a message which is no failure, or one that
\* has its letter, off the inbox.
LEMMA TakenReported ==
  ASSUME TypeOK, [Next]_vars, FailuresReported, inbox # <<>>,
         NEW a \in Attempt, a = Head(inbox).a,
         Head(inbox).op \in Failure => Recorded(K(a))',
         inbox' = Tail(inbox)
           \/ \E item \in Item : inbox' = Append(Tail(inbox), item),
         \A b \in Attempt : pc'[b] \in DOMAIN Reported => pc[b] \in DOMAIN Reported,
         dead \subseteq dead', up' = up
  PROVE  FailuresReported'
<1> SUFFICES ASSUME NEW b \in Attempt, pc'[b] \in DOMAIN Reported
             PROVE  Awaited(b)' \/ Recorded(K(b))'
  BY DEF FailuresReported, Reported
<1>1. pc'[b] = pc[b] /\ pc[b] \in {"missing", "unclaimed", "failed", "gateFailed"}
  BY FailedStay DEF Reported
<1>2. CASE Recorded(K(b))
  BY <1>2 DEF Recorded, K
<1>3. CASE Awaited(b)
  <2>1. PICK i \in 1..Len(inbox) : inbox[i] = [op |-> Reported[pc[b]], a |-> b]
    BY <1>3 DEF Awaited
  <2>2. CASE i = 1
    <3>1. Head(inbox).op \in Failure /\ a = b
      BY <1>1, <2>1, <2>2, HeadType DEF Failure, Reported
    <3> QED
      BY <3>1 DEF Recorded, K
  <2>3. CASE i # 1
    <3>1. /\ Tail(inbox) \in Seq(Item) /\ i - 1 \in 1..Len(Tail(inbox))
          /\ Tail(inbox)[i - 1] = inbox[i]
      BY <2>3, HeadType, TailProps
    <3>2. i - 1 \in 1..Len(inbox') /\ inbox'[i - 1] = inbox[i]
      <4>1. CASE inbox' = Tail(inbox)
        BY <3>1, <4>1
      <4>2. ASSUME NEW item \in Item, inbox' = Append(Tail(inbox), item)
            PROVE  i - 1 \in 1..Len(inbox') /\ inbox'[i - 1] = inbox[i]
        BY <3>1, <4>2
      <4> QED
        BY <4>1, <4>2
    <3> QED
      BY <1>1, <2>1, <3>2 DEF Awaited, Reported
  <2> QED
    BY <2>2, <2>3
<1> QED
  BY <1>1, <1>2, <1>3 DEF FailuresReported

LEMMA RecordRequest ==
  ASSUME TypeOK, [Next]_vars, RecordInv, PersistDedup \/ PersistPend
  PROVE  RecordInv'
<1>1. /\ inbox # <<>> /\ job = <<>> /\ Head(inbox).op \in {"dedup", "pend"}
      /\ UNCHANGED <<job, dead, cache, up, crashes>>
  BY DEF PersistDedup, PersistPend, Serving
<1>2. Head(inbox).a \in Attempt
  BY <1>1, HeadType
<1>3. \/ inbox' = Tail(inbox)
      \/ \E item \in Item : inbox' = Append(Tail(inbox), item)
  <2>1. [op |-> "ok", a |-> Head(inbox).a] \in Item
    BY <1>2 DEF Item, Op
  <2> QED
    BY <2>1 DEF PersistDedup, PersistPend
<1>4. \A b \in Attempt : pc'[b] \in DOMAIN Reported => pc[b] \in DOMAIN Reported
  BY <1>2 DEF TypeOK, PersistDedup, PersistPend, Move, GateVerdict, Reported
<1>5. LettersPlanned' /\ LettersFirst' /\ RepeatsRecorded'
  BY <1>1, PlansKept DEF RecordInv
<1>6. crashes = 0 => FailuresReported'
  <2>1. PICK a \in Attempt : a = Head(inbox).a
    BY <1>2
  <2>2. Head(inbox).op \notin Failure
    BY <1>1 DEF Failure
  <2>3. dead \subseteq dead' /\ up' = up
    BY <1>1
  <2> QED
    BY <1>1, <1>3, <1>4, <2>1, <2>2, <2>3, TakenReported DEF RecordInv
<1> QED
  BY <1>1, <1>5, <1>6 DEF RecordInv

LEMMA RecordBegin ==
  ASSUME TypeOK, [Next]_vars, RecordInv, PersistBegin
  PROVE  RecordInv'
<1>1. /\ inbox # <<>> /\ job = <<>> /\ Head(inbox).op \in Op \ {"dedup", "pend"}
      /\ UNCHANGED <<pc, dead, cache, up, crashes>>
  BY HeadType DEF PersistBegin, Serving, durable
<1>2. PICK a \in Attempt : a = Head(inbox).a
  BY <1>1, HeadType
<1>3. PICK op \in Op \ {"dedup", "pend"} : op = Head(inbox).op
  BY <1>1
<1>4. /\ job' = Plan(op, a)
      /\ inbox' = IF Plan(op, a) = <<>> THEN Tail(inbox) ELSE inbox
  BY <1>2, <1>3 DEF PersistBegin
<1>5. /\ op \in Failure => \/ Recorded(K(a))
                           \/ \E i \in 1..Len(Plan(op, a)) : Plan(op, a)[i] = "deadLetter"
      /\ \A i \in 1..Len(Plan(op, a)) : Plan(op, a)[i] \in Marker =>
           \/ Recorded(K(a))
           \/ \E j \in 1..Len(Plan(op, a)) : j < i /\ Plan(op, a)[j] = "deadLetter"
  BY PlanLetters DEF RecordInv
<1>6. \A k : Recorded(k)' <=> Recorded(k)
  BY <1>1 DEF Recorded, K
<1>7. RepeatsRecorded'
  BY <1>1, <1>6 DEF RecordInv, RepeatsRecorded, K, CacheKey
<1>8. CASE Plan(op, a) = <<>>
  <2>1. job' = <<>> /\ inbox' = Tail(inbox)
    BY <1>4, <1>8
  <2>2. LettersPlanned' /\ LettersFirst'
    BY <2>1 DEF LettersPlanned, LettersFirst
  <2>3. op \in Failure => Recorded(K(a))
    BY <1>5, <1>8
  <2>4. Head(inbox).op \in Failure => Recorded(K(a))'
    BY <1>3, <2>3, <1>1 DEF K, Recorded
  <2>5. crashes = 0 => FailuresReported'
    BY <1>1, <1>2, <2>1, <2>4, TakenReported DEF RecordInv
  <2> QED
    BY <1>1, <1>7, <2>2, <2>5 DEF RecordInv
<1>9. CASE Plan(op, a) # <<>>
  <2>1. job' = Plan(op, a) /\ inbox' = inbox
    BY <1>4, <1>9
  <2>2. LettersPlanned' /\ LettersFirst'
    BY <1>2, <1>3, <1>5, <1>6, <2>1 DEF LettersPlanned, LettersFirst, K
  <2>3. crashes = 0 => FailuresReported'
    BY <1>1, <1>6, <2>1 DEF RecordInv, FailuresReported, Awaited, K
  <2> QED
    BY <1>1, <1>7, <2>2, <2>3 DEF RecordInv
<1> QED
  BY <1>8, <1>9

LEMMA RecordWrite ==
  ASSUME TypeOK, [Next]_vars, RecordInv, PersistWrite
  PROVE  RecordInv'
<1>1. /\ inbox # <<>> /\ job # <<>> /\ job \in Seq(Write) /\ job' = Tail(job)
      /\ inbox' = IF Tail(job) = <<>> THEN Tail(inbox) ELSE inbox
      /\ UNCHANGED <<pc, up, crashes>>
  BY DEF PersistWrite, TypeOK
<1>2. PICK a \in Attempt : a = Head(inbox).a
  BY <1>1, HeadType
<1>3. PICK w \in Write : w = Head(job) /\ w = job[1]
  BY <1>1
<1>4. /\ dead' = IF w = "deadLetter" THEN dead \cup {a} ELSE dead
      /\ cache' = IF w \in Kind THEN cache \cup {CacheKey(w, a)} ELSE cache
  BY <1>2, <1>3 DEF PersistWrite, ApplyWrite
<1>5. /\ \A k : Recorded(k) => Recorded(k)'
      /\ w = "deadLetter" => Recorded(K(a))'
  BY <1>4 DEF Recorded, K
<1>6. /\ Len(job') = Len(job) - 1 /\ Len(job) \in Nat
      /\ \A i \in 1..Len(job') : i + 1 \in 1..Len(job) /\ job'[i] = job[i + 1]
      /\ \A i \in 1..Len(job) : i # 1 => i - 1 \in 1..Len(job') /\ job'[i - 1] = job[i]
  BY <1>1
<1>7. w \in Marker => Recorded(K(a))
  <2>1. 1 \in 1..Len(job) /\ ~ \E j \in 1..Len(job) : j < 1
    BY <1>1, <1>6
  <2> QED
    BY <1>2, <1>3, <2>1 DEF RecordInv, LettersFirst
<1>8. RepeatsRecorded'
  <2> SUFFICES ASSUME NEW b \in Attempt, NEW kind \in Marker, CacheKey(kind, b) \in cache'
               PROVE  Recorded(K(b))'
    BY DEF RepeatsRecorded, K, CacheKey
  <2>1. CASE CacheKey(kind, b) \in cache
    BY <1>5, <2>1 DEF RecordInv, RepeatsRecorded
  <2>2. CASE CacheKey(kind, b) \notin cache
    <3>1. CacheKey(kind, b) = CacheKey(w, a)
      BY <1>4, <2>2
    <3>2. kind = w /\ K(b) = K(a)
      BY <3>1 DEF CacheKey, K, Marker
    <3> QED
      BY <1>5, <1>7, <3>2
  <2> QED
    BY <2>1, <2>2
<1>9. Head(inbox).op \in Failure =>
        Recorded(K(a))' \/ \E i \in 1..Len(job') : job'[i] = "deadLetter"
  <2> SUFFICES ASSUME Head(inbox).op \in Failure, ~Recorded(K(a))'
               PROVE  \E i \in 1..Len(job') : job'[i] = "deadLetter"
    OBVIOUS
  <2>1. PICK i \in 1..Len(job) : job[i] = "deadLetter"
    BY <1>1, <1>2, <1>5 DEF RecordInv, LettersPlanned
  <2>2. i # 1
    BY <1>3, <1>5, <2>1
  <2> QED
    BY <1>6, <2>1, <2>2
<1>10. CASE Tail(job) = <<>>
  <2>1. job' = <<>> /\ inbox' = Tail(inbox)
    BY <1>1, <1>10
  <2>2. LettersPlanned' /\ LettersFirst'
    BY <2>1 DEF LettersPlanned, LettersFirst
  <2>3. Head(inbox).op \in Failure => Recorded(K(a))'
    BY <1>9, <2>1
  <2>4. crashes = 0 => FailuresReported'
    BY <1>1, <1>2, <1>4, <2>1, <2>3, TakenReported DEF RecordInv
  <2> QED
    BY <1>1, <1>8, <2>2, <2>4 DEF RecordInv
<1>11. CASE Tail(job) # <<>>
  <2>1. inbox' = inbox
    BY <1>1, <1>11
  <2>2. LettersPlanned'
    BY <1>2, <1>9, <2>1 DEF LettersPlanned, K, Recorded
  <2>3. LettersFirst'
    <3> SUFFICES ASSUME NEW i \in 1..Len(job'), job'[i] \in Marker, ~Recorded(K(a))'
                 PROVE  \E j \in 1..Len(job') : j < i /\ job'[j] = "deadLetter"
      BY <1>2, <2>1 DEF LettersFirst, K, Recorded
    <3>1. i + 1 \in 1..Len(job) /\ job[i + 1] \in Marker
      BY <1>6
    <3>2. PICK j \in 1..Len(job) : j < i + 1 /\ job[j] = "deadLetter"
      BY <1>2, <1>5, <3>1 DEF RecordInv, LettersFirst
    <3>3. j # 1
      BY <1>3, <1>5, <3>2
    <3> QED
      BY <1>6, <3>2, <3>3
  <2>4. crashes = 0 => FailuresReported'
    BY <1>1, <1>5, <2>1 DEF RecordInv, FailuresReported, Awaited, K, Recorded
  <2> QED
    BY <1>1, <1>8, <2>2, <2>3, <2>4 DEF RecordInv
<1> QED
  BY <1>10, <1>11

LEMMA RecordStep == TypeOK /\ RecordInv /\ [Next]_vars => RecordInv'
<1> SUFFICES ASSUME TypeOK, RecordInv, [Next]_vars
             PROVE  RecordInv'
  OBVIOUS
<1>1. ASSUME NEW a \in Attempt, AttemptStep(a)
      PROVE  RecordInv'
  BY <1>1, RecordAttempt
<1>2. CASE PersistStep
  BY <1>2, RecordRequest, RecordBegin, RecordWrite DEF PersistStep
<1>3. ASSUME NEW w \in Worker, Crash(w)
      PROVE  RecordInv'
  <2>1. crashes' # 0 /\ UNCHANGED <<dead, cache>>
    BY <1>3 DEF Crash, TypeOK, durable
  <2>2. \A k : Recorded(k)' <=> Recorded(k)
    BY <2>1 DEF Recorded, K
  <2>3. RepeatsRecorded'
    BY <2>1, <2>2 DEF RecordInv, RepeatsRecorded, K, CacheKey
  <2>4. CASE w = "persistence"
    <3>1. job' = <<>>
      BY <1>3, <2>4 DEF Crash
    <3> QED
      BY <2>1, <2>3, <3>1 DEF RecordInv, LettersPlanned, LettersFirst
  <2>5. CASE w # "persistence"
    <3>1. UNCHANGED <<inbox, job>>
      BY <1>3, <2>5 DEF Crash
    <3> QED
      BY <2>1, <3>1, PlansKept DEF RecordInv
  <2> QED
    BY <2>4, <2>5
<1>4. CASE /\ UNCHANGED <<pc, inbox, job, dead, cache, crashes>>
           /\ crashes = 0 => up' = up
  <2>1. LettersPlanned' /\ LettersFirst' /\ RepeatsRecorded'
    BY <1>4, PlansKept DEF RecordInv
  <2>2. crashes = 0 => FailuresReported'
    BY <1>4 DEF RecordInv, FailuresReported, Awaited, Recorded, K
  <2> QED
    BY <1>4, <2>1, <2>2 DEF RecordInv
<1>5. ASSUME NEW w \in Worker, Restart(w)
      PROVE  RecordInv'
  BY <1>4, <1>5 DEF Restart, durable, RecordInv, FailuresReported
<1>6. CASE Tick \/ UNCHANGED vars
  BY <1>4, <1>6 DEF Tick, vars, durable
<1> QED
  BY <1>1, <1>2, <1>3, <1>5, <1>6 DEF Next

LEMMA Recording == Spec => []RecordInv
<1>1. Init => RecordInv
  <2> SUFFICES ASSUME Init
               PROVE  RecordInv
    OBVIOUS
  <2>1. /\ up = Worker /\ job = <<>> /\ cache = {}
        /\ \A a \in Attempt : pc[a] = "idle"
    BY DEF Init
  <2> QED
    BY <2>1 DEF RecordInv, FailuresReported, LettersPlanned, LettersFirst,
      RepeatsRecorded, Reported
<1> QED
  BY <1>1, RecordStep, Typing, PTL DEF Spec

\* As long as no worker crashes no failed reply is forgotten: its failure waits
\* for persistence, or there is a dead letter for its text.
THEOREM NoFailureForgotten == Spec => []FailureOnRecord
<1>1. TypeOK /\ RecordInv => FailureOnRecord
  <2> SUFFICES ASSUME TypeOK, RecordInv, NEW a \in Attempt, crashes = 0,
                      pc[a] \in {"missing", "unclaimed", "failed", "gateFailed"}
               PROVE  \/ \E i \in DOMAIN inbox : inbox[i].a = a
                      \/ \E b \in dead : K(b) = K(a)
    BY DEF FailureOnRecord
  <2>1. Awaited(a) \/ Recorded(K(a))
    BY DEF RecordInv, FailuresReported, Reported
  <2>2. DOMAIN inbox = 1..Len(inbox)
    BY DEF TypeOK
  <2> QED
    BY <2>1, <2>2 DEF Awaited, Recorded
<1> QED
  BY <1>1, Recording, Typing, PTL

-------------------------------------------------------------------------------
(***************************************************************************)
(* A healthy persistence worker                                            *)
(***************************************************************************)
\* Requests are answered before time passes, so none is given up.
AnsweredAtOnce ==
  /\ up = Worker
  /\ \A a \in Attempt :
       /\ pc[a] \notin {"gateFailed", "unclaimed", "lost"}
       /\ pc[a] = "dedup" =>
            timer[a] = 0 /\ \E i \in 1..Len(inbox) : inbox[i] = [op |-> "dedup", a |-> a]
       /\ pc[a] = "gate" =>
            timer[a] = 0 /\ \E i \in 1..Len(inbox) : inbox[i] = [op |-> "pend", a |-> a]

HandedStages   == (Active \cup Settled) \ {"missing", "unclaimed", "duplicate"}
HandedOn(a)    == pc[a] \in HandedStages
HasOriginal(k) == \E a \in Attempt : K(a) = k /\ HandedOn(a)

\* What makes a repetition was left by an attempt that was handed on.
ClaimsHaveOriginal ==
  /\ \A k \in Key : Fresh(claim[k]) => HasOriginal(k)
  /\ \A m \in Msg : Fresh(wxClaim[m]) \/ m \in processed => HasOriginal(KeyOf[m])
  /\ \A i \in 1..Len(inbox) :
       /\ inbox[i].op = "ok"    => HandedOn(inbox[i].a)
       /\ inbox[i].op = "dedup" => pc[inbox[i].a] # "missing"
       /\ inbox[i].op = "pend"  => pc[inbox[i].a] \in HandedStages \ {"request"}
  /\ \A i \in 1..Len(job) : job[i] = "markHandled" => Head(inbox).op = "ok"
  /\ DroppedHasOriginal

Sent(k) == ledger[k].status = "sent"

\* The ledger says so, or will before the next attempt is at the gate.
Coming(k) ==
  \E i \in 1..Len(inbox) :
    /\ inbox[i].op = "ok" /\ K(inbox[i].a) = k
    /\ \A j \in 1..Len(inbox) :
         j < i /\ inbox[j].op = "pend" /\ K(inbox[j].a) = k => pc[inbox[j].a] # "gate"
SuccessComes(k) == Sent(k) \/ Coming(k)

AcksStand ==
  \A a \in Attempt : pc[a] = "acked" =>
    /\ SuccessComes(K(a))
    /\ \A b \in Attempt :
         b # a /\ K(b) = K(a) => pc[b] \notin {"execute", "sending", "acked"}

\* A success is in the ledger before it counts as recorded.
SuccessFirst ==
  /\ \A a \in Attempt : pc[a] = "already" => Sent(K(a))
  /\ \A i \in 1..Len(inbox) : inbox[i].op = "ok" => ledger[K(inbox[i].a)].status # "none"
  /\ \A a \in Attempt : CacheKey("success", a) \in cache => Sent(K(a))
  /\ \A i \in 1..Len(job) : job[i] = "success" =>
       \/ Sent(K(Head(inbox).a))
       \/ \E j \in 1..Len(job) : j < i /\ job[j] = "markSent"
  /\ job # <<>> /\ Head(inbox).op = "ok" =>
       Sent(K(Head(inbox).a)) \/ \E i \in 1..Len(job) : job[i] = "markSent"
  /\ job # <<>> => Head(inbox).op \notin {"dedup", "pend"}

Healthy    == AnsweredAtOnce /\ ClaimsHaveOriginal /\ AcksStand /\ SuccessFirst

\* An attempt goes from one stage to the next and posts a message, or none.
Went(a, s, t, op) ==
  /\ pc[a] = s
  /\ pc' = [pc EXCEPT ![a] = t] /\ timer' = [timer EXCEPT ![a] = 0]
  /\ inbox' = IF op = "none" THEN inbox ELSE Append(inbox, [op |-> op, a |-> a])

\* With persistence in time no attempt gives up waiting for it.
LEMMA HealthyMoves ==
  ASSUME TypeOK, AnsweredAtOnce, Req # 0, NEW a \in Attempt, AttemptStep(a)
  PROVE  /\ UNCHANGED <<job, durable, processed, up, crashes>>
         /\ \/ UNCHANGED <<pc, timer, inbox>>
            \/ Went(a, "idle", "lookup", "none")
            \/ Went(a, "lookup", "dedup", "dedup")
            \/ Went(a, "lookup", "missing", "missing")
            \/ Went(a, "request", "gate", "pend")
            \/ Went(a, "execute", "sending", "none")
            \/ Went(a, "sending", "acked", "ok")
            \/ Went(a, "sending", "failed", "fail")
<1>0. /\ "persistence" \in up /\ "reply" \in up /\ "sender" \in up /\ "listener" \in up
      /\ ~DedupTimeout(a) /\ ~GateTimeout(a)
  BY DEF AnsweredAtOnce, Worker, DedupTimeout, GateTimeout
<1>1. CASE Deliver(a)
  BY <1>0, <1>1 DEF Deliver, Move, Went
<1>2. CASE LookupFound(a)
  BY <1>0, <1>2 DEF LookupFound, Move, Post, Went
<1>3. CASE LookupMissing(a)
  BY <1>0, <1>3 DEF LookupMissing, Move, Post, Went
<1>4. CASE SenderReceive(a)
  BY <1>0, <1>4 DEF SenderReceive, Move, Post, Went
<1>5. CASE ListenerReceive(a)
  BY <1>0, <1>5 DEF ListenerReceive, Move, Went
<1>6. CASE WireSend(a) \/ LateSend(a)
  BY <1>6 DEF WireSend, LateSend
<1>7. CASE SendAck(a)
  BY <1>0, <1>7 DEF SendAck, Move, Post, Went
<1>8. CASE SendFail(a)
  BY <1>0, <1>8 DEF SendFail, Move, Post, Went
<1>9. CASE SendTimeout(a)
  BY <1>0, <1>9 DEF SendTimeout, Move, Post, Went
<1> QED
  BY <1>0, <1>1, <1>2, <1>3, <1>4, <1>5, <1>6, <1>7, <1>8, <1>9 DEF AttemptStep

LEMMA WentHealthy ==
  ASSUME TypeOK, RelayInv, Healthy, NEW a \in Attempt, NEW s, NEW t, NEW op,
         Went(a, s, t, op), UNCHANGED <<job, durable, processed, up>>,
         op \in Op \cup {"none"},
         t \notin {"gateFailed", "unclaimed", "lost", "duplicate", "already", "execute"},
         t = "dedup" => op = "dedup", t = "gate" => op = "pend",
         t = "missing" => s = "lookup", t = "sending" => s = "execute",
         t = "acked" => s = "sending" /\ op = "ok",
         op = "ok" => t = "acked", op = "dedup" => t = "dedup",
         op = "pend" => t = "gate", t = "gate" => s = "request", t # "request",
         s \in HandedStages => t \in HandedStages,
         s \notin {"acked", "already"}
  PROVE  Healthy'
<1>0. /\ pc \in [Attempt -> Stage] /\ timer \in [Attempt -> Nat] /\ inbox \in Seq(Item)
      /\ job # <<>> => inbox # <<>>
  BY DEF TypeOK
<1>1. /\ pc'[a] = t /\ timer'[a] = 0 /\ pc[a] = s
      /\ \A b \in Attempt : b # a => pc'[b] = pc[b] /\ timer'[b] = timer[b]
  BY <1>0 DEF Went
<1>2. /\ \A i \in 1..Len(inbox) : i \in 1..Len(inbox') /\ inbox'[i] = inbox[i]
      /\ \A i \in 1..Len(inbox') :
           \/ i \in 1..Len(inbox)
           \/ i = Len(inbox) + 1 /\ inbox'[i] = [op |-> op, a |-> a] /\ op # "none"
      /\ op # "none" => /\ Len(inbox) + 1 \in 1..Len(inbox')
                        /\ inbox'[Len(inbox) + 1] = [op |-> op, a |-> a]
      /\ job # <<>> => Head(inbox') = Head(inbox)
  <2>1. CASE op = "none"
    BY <2>1 DEF Went
  <2>2. CASE op # "none"
    <3>1. PICK item \in Item : item = [op |-> op, a |-> a]
      BY <2>2 DEF Item
    <3>2. inbox' = Append(inbox, item)
      BY <2>2, <3>1 DEF Went
    <3> QED
      BY <1>0, <2>2, <3>1, <3>2
  <2> QED
    BY <2>1, <2>2
<1>3. AnsweredAtOnce'
  <2>1. up' = Worker
    BY DEF Healthy, AnsweredAtOnce
  <2> SUFFICES ASSUME NEW b \in Attempt
               PROVE  /\ pc'[b] \notin {"gateFailed", "unclaimed", "lost"}
                      /\ pc'[b] = "dedup" =>
                           /\ timer'[b] = 0
                           /\ \E i \in 1..Len(inbox') : inbox'[i] = [op |-> "dedup", a |-> b]
                      /\ pc'[b] = "gate" =>
                           /\ timer'[b] = 0
                           /\ \E i \in 1..Len(inbox') : inbox'[i] = [op |-> "pend", a |-> b]
    BY <2>1 DEF AnsweredAtOnce
  <2>2. CASE b = a
    BY <1>1, <1>2, <2>2
  <2>3. CASE b # a
    BY <1>1, <1>2, <2>3 DEF Healthy, AnsweredAtOnce
  <2> QED
    BY <2>2, <2>3
<1>4. ClaimsHaveOriginal'
  <2>1. \A b \in Attempt : HandedOn(b) => HandedOn(b)'
    BY <1>1 DEF HandedOn, HandedStages
  <2>2. \A k : HasOriginal(k) => HasOriginal(k)'
    BY <2>1 DEF HasOriginal, K
  <2>3. /\ \A k \in Key : Fresh(claim'[k]) => HasOriginal(k)'
        /\ \A m \in Msg : Fresh(wxClaim'[m]) \/ m \in processed' => HasOriginal(KeyOf[m])'
    BY <2>2 DEF Healthy, ClaimsHaveOriginal, durable
  <2>4. ASSUME NEW i \in 1..Len(inbox')
        PROVE  /\ inbox'[i].op = "ok"    => pc'[inbox'[i].a] \in HandedStages
               /\ inbox'[i].op = "dedup" => pc'[inbox'[i].a] # "missing"
               /\ inbox'[i].op = "pend"  => pc'[inbox'[i].a] \in HandedStages \ {"request"}
    <3>1. CASE i \in 1..Len(inbox)
      <4>1. inbox'[i] = inbox[i] /\ inbox[i].a \in Attempt
        BY <1>2, <3>1, ItemTypes
      <4>2. /\ inbox[i].op = "ok"    => pc[inbox[i].a] \in HandedStages
            /\ inbox[i].op = "dedup" => pc[inbox[i].a] \notin {"missing", "lookup"}
            /\ inbox[i].op = "pend"  => pc[inbox[i].a] \in HandedStages \ {"request"}
        BY <3>1 DEF Healthy, ClaimsHaveOriginal, RelayInv, RequestsAreKnown, HandedOn
      <4> QED
        BY <1>1, <4>1, <4>2
    <3>2. CASE i \notin 1..Len(inbox)
      <4>1. inbox'[i].op = op /\ inbox'[i].a = a
        BY <1>2, <3>2
      <4>2. {"acked", "gate"} \subseteq HandedStages
        BY StageType DEF HandedStages, Settled
      <4> QED
        BY <1>1, <4>1, <4>2
    <3> QED
      BY <3>1, <3>2
  <2>5. \A i \in 1..Len(job') : job'[i] = "markHandled" => Head(inbox').op = "ok"
    BY <1>2 DEF Healthy, ClaimsHaveOriginal
  <2>6. DroppedHasOriginal'
    <3> SUFFICES ASSUME NEW b \in Attempt, pc'[b] = "duplicate"
                 PROVE  \E c \in Attempt : c # b /\ K(b) = K(c) /\ HandedOn(c)'
      BY DEF DroppedHasOriginal, HandedOn, HandedStages, K
    <3>1. pc[b] = "duplicate"
      BY <1>1
    <3>2. PICK c \in Attempt : c # b /\ K(c) = K(b) /\ HandedOn(c)
      BY <3>1 DEF Healthy, ClaimsHaveOriginal, DroppedHasOriginal, HandedOn, HandedStages
    <3> QED
      BY <2>1, <3>2
  <2> QED
    BY <2>3, <2>4, <2>5, <2>6 DEF ClaimsHaveOriginal, HandedOn
<1>5. AcksStand'
  <2>1. ASSUME NEW b \in Attempt, pc[b] = "acked"
        PROVE  SuccessComes(K(b))'
    <3>1. CASE Sent(K(b))
      BY <3>1 DEF SuccessComes, Sent, K, durable
    <3>2. CASE ~Sent(K(b))
      <4>1. PICK i \in 1..Len(inbox) :
              /\ inbox[i].op = "ok" /\ K(inbox[i].a) = K(b)
              /\ \A j \in 1..Len(inbox) :
                   j < i /\ inbox[j].op = "pend" /\ K(inbox[j].a) = K(b)
                     => pc[inbox[j].a] # "gate"
        BY <2>1, <3>2 DEF Healthy, AcksStand, SuccessComes, Coming
      <4>2. i \in 1..Len(inbox') /\ inbox'[i] = inbox[i] /\ i < Len(inbox) + 1
        BY <1>0, <1>2, <4>1
      <4>3. ASSUME NEW j \in 1..Len(inbox'), j < i, inbox'[j].op = "pend",
                   K(inbox'[j].a) = K(b)
            PROVE  pc'[inbox'[j].a] # "gate"
        <5>1. j \in 1..Len(inbox) /\ inbox'[j] = inbox[j] /\ inbox[j].a \in Attempt
          BY <1>0, <1>2, <4>2, <4>3, ItemTypes
        <5>2. pc[inbox[j].a] \notin {"gate", "request"}
          BY <4>1, <4>3, <5>1 DEF Healthy, ClaimsHaveOriginal
        <5>3. CASE inbox[j].a # a
          BY <1>1, <5>1, <5>2, <5>3
        <5>4. CASE inbox[j].a = a
          BY <1>1, <5>1, <5>2, <5>4
        <5> QED
          BY <5>3, <5>4
      <4> QED
        BY <4>1, <4>2, <4>3 DEF SuccessComes, Coming, K
    <3> QED
      BY <3>1, <3>2
  <2>2. CASE t # "acked"
    <3> SUFFICES ASSUME NEW b \in Attempt, pc'[b] = "acked"
                 PROVE  /\ SuccessComes(K(b))'
                        /\ \A c \in Attempt : c # b /\ K(c) = K(b)
                             => pc'[c] \notin {"execute", "sending", "acked"}
      BY DEF AcksStand, K
    <3>1. pc[b] = "acked" /\ b # a
      BY <1>1, <2>2
    <3>2. \A c \in Attempt : c # b /\ K(c) = K(b)
            => pc[c] \notin {"execute", "sending", "acked"}
      BY <3>1 DEF Healthy, AcksStand
    <3> QED
      BY <1>1, <2>1, <2>2, <3>1, <3>2
  <2>3. CASE t = "acked"
    <3>1. s = "sending" /\ op = "ok" /\ a \in Attempt /\ pc[a] \in Active
      BY <1>1, <2>3, StageType
    <3>2. \A c \in Attempt : c # a /\ K(c) = K(a) => pc[c] \notin Active \cup {"acked"}
      BY <1>1, <3>1 DEF RelayInv, OneAtATime, Healthy, AcksStand
    <3>3. SuccessComes(K(a))'
      <4>1. /\ Len(inbox) + 1 \in 1..Len(inbox')
            /\ inbox'[Len(inbox) + 1].op = "ok" /\ inbox'[Len(inbox) + 1].a = a
        BY <1>2, <3>1
      <4>2. ASSUME NEW j \in 1..Len(inbox'), j < Len(inbox) + 1, inbox'[j].op = "pend",
                   K(inbox'[j].a) = K(a)
            PROVE  pc'[inbox'[j].a] # "gate"
        <5>1. inbox'[j] = inbox[j] /\ inbox[j].a \in Attempt
          BY <1>0, <1>2, <4>2, ItemTypes
        <5> QED
          BY <1>1, <2>3, <3>2, <4>2, <5>1, StageType
      <4> QED
        BY <4>1, <4>2 DEF SuccessComes, Coming, K
    <3>4. ASSUME NEW b \in Attempt, pc'[b] = "acked"
          PROVE  /\ SuccessComes(K(b))'
                 /\ \A c \in Attempt : c # b /\ K(c) = K(b)
                      => pc'[c] \notin {"execute", "sending", "acked"}
      <4>1. CASE b = a
        BY <1>1, <3>2, <3>3, <4>1, StageType
      <4>2. CASE b # a
        <5>1. pc[b] = "acked"
          BY <1>1, <3>4, <4>2
        <5>2. K(b) # K(a)
          BY <3>2, <4>2, <5>1
        <5>3. \A c \in Attempt : c # b /\ K(c) = K(b)
                => pc[c] \notin {"execute", "sending", "acked"}
          BY <5>1 DEF Healthy, AcksStand
        <5> QED
          BY <1>1, <2>1, <5>1, <5>2, <5>3
      <4> QED
        BY <4>1, <4>2
    <3> QED
      BY <3>4 DEF AcksStand, K
  <2> QED
    BY <2>2, <2>3
<1>6. SuccessFirst'
  <2>1. \A k : Sent(k)' <=> Sent(k)
    BY DEF Sent, durable
  <2>2. \A b \in Attempt : pc'[b] = "already" => Sent(K(b))'
    BY <1>1, <2>1 DEF Healthy, SuccessFirst, K, Sent
  <2>3. ASSUME NEW i \in 1..Len(inbox'), inbox'[i].op = "ok"
        PROVE  ledger'[K(inbox'[i].a)].status # "none"
    <3>1. CASE i \in 1..Len(inbox)
      BY <1>2, <2>3, <3>1 DEF Healthy, SuccessFirst, durable
    <3>2. CASE i \notin 1..Len(inbox)
      <4>1. op = "ok" /\ inbox'[i].a = a
        BY <1>2, <2>3, <3>2
      <4>2. pc[a] = "sending"
        BY <1>1, <4>1
      <4> QED
        BY <4>1, <4>2 DEF RelayInv, LedgerShowsSend, durable
    <3> QED
      BY <3>1, <3>2
  <2>4. \A b \in Attempt : CacheKey("success", b) \in cache' => Sent(K(b))'
    BY <2>1 DEF Healthy, SuccessFirst, durable, K, Sent
  <2>5. /\ \A i \in 1..Len(job') : job'[i] = "success" =>
             \/ Sent(K(Head(inbox).a))
             \/ \E j \in 1..Len(job') : j < i /\ job'[j] = "markSent"
        /\ job' # <<>> /\ Head(inbox).op = "ok" =>
             Sent(K(Head(inbox).a)) \/ \E i \in 1..Len(job') : job'[i] = "markSent"
        /\ job' # <<>> => Head(inbox).op \notin {"dedup", "pend"}
    BY DEF Healthy, SuccessFirst
  <2>6. job' # <<>> => Head(inbox') = Head(inbox)
    BY <1>2
  <2>7. \A i \in 1..Len(job') : job' # <<>>
    OBVIOUS
  <2>8. ledger' = ledger
    BY DEF durable
  <2>9. /\ \A i \in 1..Len(job') : job'[i] = "success" =>
             \/ Sent(K(Head(inbox).a))'
             \/ \E j \in 1..Len(job') : j < i /\ job'[j] = "markSent"
        /\ job' # <<>> /\ Head(inbox').op = "ok" =>
             Sent(K(Head(inbox).a))' \/ \E i \in 1..Len(job') : job'[i] = "markSent"
        /\ job' # <<>> => Head(inbox').op \notin {"dedup", "pend"}
    BY <2>5, <2>6, <2>7, <2>8 DEF Sent, K
  <2> QED
    BY <2>2, <2>3, <2>4, <2>9 DEF SuccessFirst, Sent, K, CacheKey
<1> QED
  BY <1>3, <1>4, <1>5, <1>6 DEF Healthy

\* Persistence takes a message off its inbox; its requester, if that waited,
\* goes on.
Took(a) ==
  /\ inbox # <<>> /\ a = Head(inbox).a /\ up' = up
  /\ \/ inbox' = Tail(inbox)
     \/ inbox' = Append(Tail(inbox), [op |-> "ok", a |-> a]) /\ pc'[a] = "already"
  /\ \A b \in Attempt : b # a => pc'[b] = pc[b] /\ timer'[b] = timer[b]
  /\ \/ /\ pc'[a] = pc[a] /\ timer'[a] = timer[a]
        /\ pc[a] = "dedup" => Head(inbox).op # "dedup"
        /\ pc[a] = "gate"  => Head(inbox).op # "pend"
     \/ pc[a] = "dedup" /\ pc'[a] \in {"duplicate", "request"}
     \/ pc[a] = "gate"  /\ pc'[a] \in {"already", "inflight", "execute"}

LEMMA TookShift ==
  ASSUME TypeOK, NEW a \in Attempt, Took(a)
  PROVE  /\ 1 \in 1..Len(inbox) /\ Head(inbox) = inbox[1] /\ Len(inbox) \in Nat
         /\ \A i \in 1..Len(inbox) :
              i # 1 => i - 1 \in 1..Len(inbox') /\ inbox'[i - 1] = inbox[i]
         /\ \A i \in 1..Len(inbox') :
              \/ i + 1 \in 1..Len(inbox) /\ inbox'[i] = inbox[i + 1]
              \/ i = Len(inbox) /\ inbox'[i] = [op |-> "ok", a |-> a] /\ pc'[a] = "already"
<1>1. /\ inbox \in Seq(Item) /\ Tail(inbox) \in Seq(Item) /\ inbox # <<>>
      /\ 1 \in 1..Len(inbox) /\ Head(inbox) = inbox[1] /\ Len(inbox) \in Nat
      /\ Len(Tail(inbox)) = Len(inbox) - 1
      /\ \A i \in 1..Len(Tail(inbox)) : Tail(inbox)[i] = inbox[i + 1]
  BY HeadType, TailProps DEF Took, TypeOK
<1>4. ASSUME NEW i \in 1..Len(inbox), i # 1
      PROVE  i - 1 \in 1..Len(Tail(inbox)) /\ Tail(inbox)[i - 1] = inbox[i]
  <2>1. i - 1 \in 1..Len(Tail(inbox)) /\ (i - 1) + 1 = i
    BY <1>1, <1>4
  <2> QED
    BY <1>1, <2>1
<1>5. \A i \in 1..Len(Tail(inbox)) : i + 1 \in 1..Len(inbox)
  BY <1>1
<1>2. CASE inbox' = Tail(inbox)
  BY <1>1, <1>2, <1>4, <1>5
<1>3. CASE inbox' = Append(Tail(inbox), [op |-> "ok", a |-> a]) /\ pc'[a] = "already"
  <2>1. PICK item \in Item : item = [op |-> "ok", a |-> a]
    BY DEF Item, Op
  <2>2. inbox' = Append(Tail(inbox), item)
    BY <1>3, <2>1
  <2>3. /\ Len(inbox') = Len(inbox) /\ inbox'[Len(inbox)] = item
        /\ \A i \in 1..Len(Tail(inbox)) : i \in 1..Len(inbox') /\ inbox'[i] = Tail(inbox)[i]
    BY <1>1, <2>2
  <2>4. ASSUME NEW i \in 1..Len(inbox')
        PROVE  i \in 1..Len(Tail(inbox)) \/ i = Len(inbox)
    <3>1. /\ Len(Tail(inbox)) = Len(inbox) - 1 /\ Len(inbox) \in Nat
          /\ Len(inbox') = Len(inbox)
      BY <1>1, <2>3
    <3> QED
      BY <2>4, <3>1
  <2> QED
    BY <1>1, <1>3, <1>4, <1>5, <2>1, <2>3, <2>4
<1> QED
  BY <1>1, <1>2, <1>3 DEF Took

LEMMA TookAnswered ==
  ASSUME TypeOK, AnsweredAtOnce, NEW a \in Attempt, Took(a)
  PROVE  AnsweredAtOnce'
<1>1. up' = Worker
  BY DEF AnsweredAtOnce, Took
<1> SUFFICES ASSUME NEW b \in Attempt
             PROVE  /\ pc'[b] \notin {"gateFailed", "unclaimed", "lost"}
                    /\ pc'[b] = "dedup" =>
                         /\ timer'[b] = 0
                         /\ \E i \in 1..Len(inbox') : inbox'[i] = [op |-> "dedup", a |-> b]
                    /\ pc'[b] = "gate" =>
                         /\ timer'[b] = 0
                         /\ \E i \in 1..Len(inbox') : inbox'[i] = [op |-> "pend", a |-> b]
  BY <1>1 DEF AnsweredAtOnce
<1>2. /\ pc[b] \notin {"gateFailed", "unclaimed", "lost"}
      /\ pc[b] = "dedup" =>
           timer[b] = 0 /\ \E i \in 1..Len(inbox) : inbox[i] = [op |-> "dedup", a |-> b]
      /\ pc[b] = "gate" =>
           timer[b] = 0 /\ \E i \in 1..Len(inbox) : inbox[i] = [op |-> "pend", a |-> b]
  BY DEF AnsweredAtOnce
<1>3. CASE pc'[b] = pc[b] /\ timer'[b] = timer[b]
  <2>1. ASSUME pc[b] = "dedup"
        PROVE  \E i \in 1..Len(inbox') : inbox'[i] = [op |-> "dedup", a |-> b]
    <3>1. PICK i \in 1..Len(inbox) : inbox[i] = [op |-> "dedup", a |-> b]
      BY <1>2, <2>1
    <3>2. i # 1
      BY <1>3, <2>1, <3>1, TookShift DEF Took
    <3>3. i - 1 \in 1..Len(inbox') /\ inbox'[i - 1] = inbox[i]
      BY <3>2, TookShift
    <3> QED
      BY <3>1, <3>3
  <2>2. ASSUME pc[b] = "gate"
        PROVE  \E i \in 1..Len(inbox') : inbox'[i] = [op |-> "pend", a |-> b]
    <3>1. PICK i \in 1..Len(inbox) : inbox[i] = [op |-> "pend", a |-> b]
      BY <1>2, <2>2
    <3>2. i # 1
      BY <1>3, <2>2, <3>1, TookShift DEF Took
    <3>3. i - 1 \in 1..Len(inbox') /\ inbox'[i - 1] = inbox[i]
      BY <3>2, TookShift
    <3> QED
      BY <3>1, <3>3
  <2> QED
    BY <1>2, <1>3, <2>1, <2>2
<1>4. CASE pc'[b] \in {"duplicate", "request", "already", "inflight", "execute"}
  BY <1>4
<1> QED
  BY <1>3, <1>4 DEF Took

LEMMA TookHanded ==
  ASSUME NEW a \in Attempt, Took(a), NEW b \in Attempt, HandedOn(b)
  PROVE  HandedOn(b)'
<1>1. /\ {"already", "inflight", "execute"} \subseteq HandedStages
      /\ "dedup" \notin HandedStages
  BY StageType DEF HandedStages, Settled
<1> QED
  BY <1>1 DEF Took, HandedOn

\* The clauses of the invariant about the inbox.
ItemsHandled ==
  \A i \in 1..Len(inbox) :
    /\ inbox[i].op = "ok"    => pc[inbox[i].a] \in HandedStages
    /\ inbox[i].op = "dedup" => pc[inbox[i].a] # "missing"
    /\ inbox[i].op = "pend"  => pc[inbox[i].a] \in HandedStages \ {"request"}

LEMMA TookItems ==
  ASSUME TypeOK, ItemsHandled, NEW a \in Attempt, Took(a)
  PROVE  ItemsHandled'
<1> SUFFICES ASSUME NEW i \in 1..Len(inbox')
             PROVE  /\ inbox'[i].op = "ok"    => pc'[inbox'[i].a] \in HandedStages
                    /\ inbox'[i].op = "dedup" => pc'[inbox'[i].a] # "missing"
                    /\ inbox'[i].op = "pend"  => pc'[inbox'[i].a] \in HandedStages \ {"request"}
  BY DEF ItemsHandled
<1>0. /\ {"already", "inflight", "execute"} \subseteq HandedStages \ {"request"}
      /\ "dedup" \notin HandedStages
  BY StageType DEF HandedStages, Settled
<1>1. CASE i + 1 \in 1..Len(inbox) /\ inbox'[i] = inbox[i + 1]
  <2>1. PICK b \in Attempt : b = inbox[i + 1].a
    BY <1>1, ItemTypes
  <2>2. /\ inbox[i + 1].op = "ok"    => pc[b] \in HandedStages
        /\ inbox[i + 1].op = "dedup" => pc[b] # "missing"
        /\ inbox[i + 1].op = "pend"  => pc[b] \in HandedStages \ {"request"}
    BY <1>1, <2>1 DEF ItemsHandled
  <2>3. \/ pc'[b] = pc[b]
        \/ pc[b] = "dedup" /\ pc'[b] \in {"duplicate", "request"}
        \/ pc'[b] \in {"already", "inflight", "execute"}
    BY DEF Took
  <2> QED
    BY <1>0, <1>1, <2>1, <2>2, <2>3
<1>2. CASE inbox'[i] = [op |-> "ok", a |-> a] /\ pc'[a] = "already"
  BY <1>0, <1>2
<1> QED
  BY <1>1, <1>2, TookShift

LEMMA TookComing ==
  ASSUME TypeOK, NEW a \in Attempt, Took(a), NEW k, Coming(k),
         ~(Head(inbox).op = "ok" /\ K(a) = k)
  PROVE  Coming(k)'
<1>1. PICK i \in 1..Len(inbox) :
        /\ inbox[i].op = "ok" /\ K(inbox[i].a) = k
        /\ \A j \in 1..Len(inbox) :
             j < i /\ inbox[j].op = "pend" /\ K(inbox[j].a) = k => pc[inbox[j].a] # "gate"
  BY DEF Coming
<1>2. i # 1
  BY <1>1, TookShift DEF Took
<1>3. i - 1 \in 1..Len(inbox') /\ inbox'[i - 1] = inbox[i]
  BY <1>2, TookShift
<1>4. ASSUME NEW j \in 1..Len(inbox'), j < i - 1, inbox'[j].op = "pend",
             K(inbox'[j].a) = k
      PROVE  pc'[inbox'[j].a] # "gate"
  <2>1. j + 1 \in 1..Len(inbox) /\ inbox'[j] = inbox[j + 1] /\ j + 1 < i
    <3>1. j \in Nat /\ i \in Nat /\ i <= Len(inbox) /\ Len(inbox) \in Nat
      BY TookShift
    <3>2. j # Len(inbox) /\ j + 1 < i
      BY <1>4, <3>1
    <3> QED
      BY <3>2, TookShift
  <2>2. pc[inbox[j + 1].a] # "gate" /\ inbox[j + 1].a \in Attempt
    BY <1>1, <1>4, <2>1, ItemTypes
  <2> QED
    BY <2>1, <2>2 DEF Took
<1> QED
  BY <1>1, <1>3, <1>4 DEF Coming, K

LEMMA TookAcks ==
  ASSUME TypeOK, AcksStand, NEW a \in Attempt, Took(a),
         \A k \in Key : Sent(k) => Sent(k)',
         Head(inbox).op = "ok" => Sent(K(a))',
         pc'[a] = "execute" /\ pc[a] # "execute" =>
           \A b \in Attempt : b # a /\ K(b) = K(a) => pc[b] # "acked"
  PROVE  AcksStand'
<1> SUFFICES ASSUME NEW b \in Attempt, pc'[b] = "acked"
             PROVE  /\ SuccessComes(K(b))'
                    /\ \A c \in Attempt : c # b /\ K(c) = K(b)
                         => pc'[c] \notin {"execute", "sending", "acked"}
  BY DEF AcksStand, K
<1>1. pc[b] = "acked" /\ K(b) \in Key
  BY KeyType DEF Took
<1>2. /\ SuccessComes(K(b))
      /\ \A c \in Attempt : c # b /\ K(c) = K(b)
           => pc[c] \notin {"execute", "sending", "acked"}
  BY <1>1 DEF AcksStand
<1>3. SuccessComes(K(b))'
  <2>1. CASE Sent(K(b))
    BY <1>1, <2>1 DEF SuccessComes, K, Sent
  <2>2. CASE ~Sent(K(b))
    <3>1. Coming(K(b))
      BY <1>2, <2>2 DEF SuccessComes
    <3>2. CASE Head(inbox).op = "ok" /\ K(a) = K(b)
      BY <3>2 DEF SuccessComes, K, Sent
    <3>3. CASE ~(Head(inbox).op = "ok" /\ K(a) = K(b))
      BY <3>1, <3>3, TookComing DEF SuccessComes, K
    <3> QED
      BY <3>2, <3>3
  <2> QED
    BY <2>1, <2>2
<1>4. ASSUME NEW c \in Attempt, c # b, K(c) = K(b)
      PROVE  pc'[c] \notin {"execute", "sending", "acked"}
  <2>1. pc[c] \notin {"execute", "sending", "acked"}
    BY <1>2, <1>4
  <2>2. CASE c # a
    BY <2>1, <2>2 DEF Took
  <2>3. CASE c = a
    BY <1>1, <1>4, <2>1, <2>3 DEF Took
  <2> QED
    BY <2>2, <2>3
<1> QED
  BY <1>3, <1>4

\* Who has an original keeps it, and so do the repetitions of it.
LEMMA TookDropped ==
  ASSUME DroppedHasOriginal, NEW a \in Attempt, Took(a),
         pc'[a] = "duplicate" /\ pc[a] # "duplicate" => HasOriginal(K(a))
  PROVE  DroppedHasOriginal'
<1> SUFFICES ASSUME NEW b \in Attempt, pc'[b] = "duplicate"
             PROVE  \E c \in Attempt : c # b /\ K(b) = K(c) /\ HandedOn(c)'
  BY DEF DroppedHasOriginal, HandedOn, HandedStages, K
<1>1. CASE pc[b] = "duplicate"
  <2>1. PICK c \in Attempt : c # b /\ K(b) = K(c) /\ HandedOn(c)
    BY <1>1 DEF DroppedHasOriginal, HandedOn, HandedStages
  <2> QED
    BY <2>1, TookHanded
<1>2. CASE pc[b] # "duplicate"
  <2>1. b = a /\ pc[a] = "dedup"
    BY <1>2 DEF Took
  <2>2. PICK c \in Attempt : K(c) = K(a) /\ HandedOn(c)
    BY <1>2, <2>1 DEF HasOriginal
  <2>3. c # a
    BY <2>1, <2>2, StageType DEF HandedOn, HandedStages, Settled
  <2> QED
    BY <2>1, <2>2, <2>3, TookHanded
<1> QED
  BY <1>1, <1>2

LEMMA ConcatParts ==
  ASSUME NEW S, NEW T, NEW x \in Seq(T), NEW y \in Seq(S), NEW z \in Seq(S)
  PROVE  /\ Len(x \o y \o z) \in Nat /\ Len(x \o y \o z) >= Len(x)
         /\ \A i \in 1..Len(x) : (x \o y \o z)[i] = x[i]
         /\ \A i \in 1..Len(x \o y \o z) : i > Len(x) => (x \o y \o z)[i] \in S
<1>1. y \o z \in Seq(S)
  OBVIOUS
<1>2. PICK rest \in Seq(S) : rest = y \o z
  BY <1>1
<1>3. x \o y \o z = x \o rest
  <2>1. x \in Seq(T \cup S) /\ y \in Seq(T \cup S) /\ z \in Seq(T \cup S)
    OBVIOUS
  <2> QED
    BY <1>2, <2>1, ConcatAssociative
<1>4. /\ Len(x \o rest) = Len(x) + Len(rest) /\ Len(x) \in Nat /\ Len(rest) \in Nat
      /\ \A i \in 1..Len(x) : (x \o rest)[i] = x[i]
      /\ \A i \in 1..Len(rest) : rest[i] \in S
      /\ \A i \in 1..Len(x \o rest) : i > Len(x) =>
           i - Len(x) \in 1..Len(rest) /\ (x \o rest)[i] = rest[i - Len(x)]
  OBVIOUS
<1> QED
  BY <1>3, <1>4

\* What persistence plans for a success: the ledger before its key.
LEMMA PlanSuccess ==
  ASSUME NEW op \in Op \ {"dedup", "pend"}, NEW a \in Attempt,
         CacheKey("success", a) \in cache => Sent(K(a))
  PROVE  /\ op = "ok" => \/ Sent(K(a))
                         \/ \E i \in 1..Len(Plan(op, a)) : Plan(op, a)[i] = "markSent"
         /\ \A i \in 1..Len(Plan(op, a)) :
              /\ Plan(op, a)[i] = "markHandled" => op = "ok"
              /\ Plan(op, a)[i] = "success" =>
                   \/ Sent(K(a))
                   \/ \E j \in 1..Len(Plan(op, a)) : j < i /\ Plan(op, a)[j] = "markSent"
<1>1. CASE op = "ok"
  <2>1. CASE CacheKey("success", a) \in cache
    BY <1>1, <2>1
  <2>2. CASE CacheKey("success", a) \notin cache
    <3> DEFINE x == <<"markSent", "success">>
               y == Once("sentRow", a, <<"rowSent">>)
               z == Once("handled", a, <<"markHandled">>)
               S == Write \ {"success"}
    <3>1. /\ x \in Seq(Write) /\ Len(x) = 2 /\ x[1] = "markSent"
          /\ y \in Seq(Write) /\ z \in Seq(Write)
      <4>1. /\ {"success", "sentRow", "handled", "markSent"} \subseteq Write
            /\ <<"rowSent">> \in Seq(Write) /\ <<"markHandled">> \in Seq(Write)
        BY DEF Write, Kind, Effect
      <4>2. y \in Seq(Write) /\ z \in Seq(Write)
        BY <4>1, OnceIn
      <4>3. x \in Seq(Write) /\ Len(x) = 2 /\ x[1] = "markSent"
        BY <4>1
      <4> QED
        BY <4>2, <4>3
    <3>2. y \in Seq(S) /\ z \in Seq(S)
      <4>1. /\ {"sentRow", "handled"} \subseteq S
            /\ <<"rowSent">> \in Seq(S) /\ <<"markHandled">> \in Seq(S)
        BY DEF Write, Kind, Effect
      <4> HIDE DEF S
      <4> QED
        BY <4>1, OnceIn
    <3>3. Plan(op, a) = x \o y \o z
      BY <1>1, <2>2 DEF Plan, Once
    <3> HIDE DEF x, y, z, S
    <3>4. /\ Len(Plan(op, a)) \in Nat /\ Len(Plan(op, a)) >= 2
          /\ Plan(op, a)[1] = "markSent"
          /\ \A i \in 1..Len(Plan(op, a)) : i > 2 => Plan(op, a)[i] \in S
      <4>1. /\ Len(x \o y \o z) \in Nat /\ Len(x \o y \o z) >= Len(x)
            /\ \A i \in 1..Len(x) : (x \o y \o z)[i] = x[i]
            /\ \A i \in 1..Len(x \o y \o z) : i > Len(x) => (x \o y \o z)[i] \in S
        BY <3>1, <3>2, ConcatParts
      <4>2. 1 \in 1..Len(x)
        BY <3>1
      <4> QED
        BY <3>1, <3>3, <4>1, <4>2
    <3>7. \A i \in 1..Len(Plan(op, a)) : Plan(op, a)[i] = "success" => 1 < i
      BY <3>4
    <3>8. 1 \in 1..Len(Plan(op, a))
      BY <3>4
    <3> QED
      BY <1>1, <3>4, <3>7, <3>8
  <2> QED
    BY <2>1, <2>2
<1>2. CASE op = "fail"
  <2> DEFINE x == Once("fail", a, <<"markFailed", "freeClaim">>)
             y == Once("failRow", a, <<"rowFailed">>)
             z == Once("sendDead", a, <<"deadLetter">>)
             S == Write \ {"success", "markHandled"}
  <2>1. x \in Seq(S) /\ y \in Seq(S) /\ z \in Seq(S)
    <3>1. /\ {"fail", "failRow", "sendDead"} \subseteq S
          /\ <<"markFailed", "freeClaim">> \in Seq(S) /\ <<"rowFailed">> \in Seq(S)
          /\ <<"deadLetter">> \in Seq(S)
      BY DEF Write, Kind, Effect
    <3> HIDE DEF S
    <3> QED
      BY <3>1, OnceIn
  <2> HIDE DEF x, y, z, S
  <2>2. Plan(op, a) = x \o y \o z
    BY <1>2 DEF Plan, x, y, z
  <2>3. Plan(op, a) \in Seq(S)
    BY <2>1, <2>2, ConcatType
  <2>4. \A i \in 1..Len(Plan(op, a)) : Plan(op, a)[i] \in S
    BY <2>3
  <2> QED
    BY <1>2, <2>4 DEF S
<1>3. CASE op \in {"missing", "unclaimed"}
  <2>1. Plan(op, a) = Once(op, a, <<"deadLetter">>)
    BY <1>3 DEF Plan
  <2>2. \A i \in 1..Len(Plan(op, a)) : Plan(op, a)[i] \in {"deadLetter", op}
    BY <2>1 DEF Once
  <2> QED
    BY <1>3, <2>2
<1> QED
  BY <1>1, <1>2, <1>3 DEF Op

LEMMA HealthyDedup ==
  ASSUME TypeOK, RelayInv, Healthy, PersistDedup
  PROVE  Healthy'
<1>0. PICK a \in Attempt : a = Head(inbox).a
  BY HeadType DEF PersistDedup, Serving
<1>1. /\ inbox # <<>> /\ inbox' = Tail(inbox) /\ Head(inbox).op = "dedup"
      /\ job = <<>> /\ UNCHANGED <<job, ledger, processed, cache, up>>
      /\ K(a) \in Key /\ MsgOf[a] \in Msg /\ pc \in [Attempt -> Stage]
      /\ timer \in [Attempt -> Nat]
  BY KeyType DEF PersistDedup, Serving, TypeOK
<1>2. /\ pc[a] # "dedup" => UNCHANGED <<pc, timer>>
      /\ pc[a] = "dedup" => Move(a, IF Duplicate(a) THEN "duplicate" ELSE "request")
      /\ IF Duplicate(a) THEN UNCHANGED <<claim, wxClaim>>
         ELSE /\ claim' = [claim EXCEPT ![K(a)] = 0]
              /\ wxClaim' = [wxClaim EXCEPT ![MsgOf[a]] = 0]
  BY <1>0 DEF PersistDedup
<1>3. Took(a)
  BY <1>0, <1>1, <1>2 DEF Took, Move
<1>4. AnsweredAtOnce'
  BY <1>3, TookAnswered DEF Healthy
<1>5. ItemsHandled'
  BY <1>3, TookItems DEF Healthy, ClaimsHaveOriginal, ItemsHandled, HandedOn
<1>6. \A k : HasOriginal(k) => HasOriginal(k)'
  BY <1>3, TookHanded DEF HasOriginal, K
<1>7. ~Duplicate(a) => HasOriginal(K(a))'
  <2> SUFFICES ASSUME ~Duplicate(a)
               PROVE  HasOriginal(K(a))'
    OBVIOUS
  <2>1. CASE pc[a] = "dedup"
    <3>1. pc'[a] = "request" /\ "request" \in HandedStages
      BY <1>1, <1>2, <2>1, StageType DEF Move, HandedStages
    <3> QED
      BY <3>1 DEF HasOriginal, HandedOn, K
  <2>2. CASE pc[a] # "dedup"
    <3>1. pc[a] \notin {"idle", "lookup", "missing", "unclaimed"}
      <4>1. inbox[1].op = "dedup" /\ inbox[1].a = a /\ 1 \in 1..Len(inbox)
        BY <1>0, <1>1, <1>3, TookShift
      <4> QED
        BY <4>1 DEF RelayInv, RequestsAreKnown, Healthy, ClaimsHaveOriginal, AnsweredAtOnce
    <3>2. CASE pc[a] = "duplicate"
      <4>1. HasOriginal(K(a))
        BY <3>2 DEF Healthy, ClaimsHaveOriginal, DroppedHasOriginal, HasOriginal, HandedOn,
          HandedStages
      <4> QED
        BY <1>6, <4>1 DEF HasOriginal, K
    <3>3. CASE pc[a] # "duplicate"
      <4>1. pc[a] \in HandedStages
        BY <1>1, <2>2, <3>1, <3>3 DEF HandedStages, Stage
      <4> QED
        BY <1>2, <2>2, <4>1 DEF HasOriginal, HandedOn, K
    <3> QED
      BY <3>2, <3>3
  <2> QED
    BY <2>1, <2>2
<1>8. Duplicate(a) => HasOriginal(K(a))
  BY <1>1 DEF Duplicate, Healthy, ClaimsHaveOriginal, K
<1>9. ClaimsHaveOriginal'
  <2>1. ASSUME NEW k \in Key, Fresh(claim'[k])
        PROVE  HasOriginal(k)'
    <3>1. CASE claim'[k] = claim[k]
      BY <1>6, <2>1, <3>1 DEF Healthy, ClaimsHaveOriginal
    <3>2. CASE claim'[k] # claim[k]
      <4>1. ~Duplicate(a) /\ k = K(a)
        BY <1>1, <1>2, <3>2 DEF TypeOK
      <4> QED
        BY <1>7, <4>1 DEF K
    <3> QED
      BY <3>1, <3>2
  <2>2. ASSUME NEW m \in Msg, Fresh(wxClaim'[m]) \/ m \in processed'
        PROVE  HasOriginal(KeyOf[m])'
    <3>1. CASE Fresh(wxClaim[m]) \/ m \in processed
      BY <1>6, <3>1 DEF Healthy, ClaimsHaveOriginal
    <3>2. CASE ~(Fresh(wxClaim[m]) \/ m \in processed)
      <4>1. ~Duplicate(a) /\ m = MsgOf[a]
        BY <1>1, <1>2, <2>2, <3>2 DEF TypeOK
      <4> QED
        BY <1>7, <4>1 DEF K
    <3> QED
      BY <3>1, <3>2
  <2>3. DroppedHasOriginal'
    <3>1. pc'[a] = "duplicate" /\ pc[a] # "duplicate" => Duplicate(a)
      BY <1>1, <1>2 DEF Move
    <3> QED
      BY <1>3, <1>8, <3>1, TookDropped DEF Healthy, ClaimsHaveOriginal
  <2>4. job' = <<>>
    BY <1>1
  <2> QED
    BY <1>5, <2>1, <2>2, <2>3, <2>4 DEF ClaimsHaveOriginal, ItemsHandled, HandedOn
<1>10. \A k : Sent(k)' <=> Sent(k)
  BY <1>1 DEF Sent
<1>11. AcksStand'
  <2>1. pc'[a] = "execute" => pc[a] = "execute"
    BY <1>1, <1>2 DEF Move
  <2> QED
    BY <1>1, <1>3, <1>10, <2>1, TookAcks DEF Healthy
<1>12. SuccessFirst'
  <2>1. \A b \in Attempt : pc'[b] = "already" => pc[b] = "already"
    BY <1>1, <1>2 DEF Move
  <2>2. \A i \in 1..Len(inbox') : i + 1 \in 1..Len(inbox) /\ inbox'[i] = inbox[i + 1]
    BY <1>1, TailProps
  <2> QED
    BY <1>1, <1>10, <2>1, <2>2 DEF Healthy, SuccessFirst, Sent, K, CacheKey
<1> QED
  BY <1>4, <1>9, <1>11, <1>12 DEF Healthy

LEMMA HealthyPend ==
  ASSUME TypeOK, RelayInv, Healthy, PersistPend
  PROVE  Healthy'
<1>0. PICK a \in Attempt : a = Head(inbox).a
  BY HeadType DEF PersistPend, Serving
<1> DEFINE row == ledger[K(a)]
           v   == GateVerdict(row)
<1>1. /\ inbox # <<>> /\ Head(inbox).op = "pend" /\ inbox[1] = Head(inbox)
      /\ job = <<>> /\ UNCHANGED <<job, claim, wxClaim, processed, cache, up>>
      /\ K(a) \in Key /\ pc \in [Attempt -> Stage] /\ timer \in [Attempt -> Nat]
      /\ ledger \in [Key -> Row] /\ 1 \in 1..Len(inbox)
  BY KeyType, HeadType DEF PersistPend, Serving, TypeOK
<1>2. /\ v = "already"  => ledger' = ledger /\ Sent(K(a))
      /\ v = "inflight" => ledger' = ledger
      /\ v = "execute"  => /\ ~Sent(K(a))
                           /\ \A k \in Key : k # K(a) => ledger'[k] = ledger[k]
                           /\ ledger'[K(a)].status = "pending"
      /\ v \in {"already", "inflight", "execute"}
  BY <1>0, <1>1 DEF PersistPend, GateVerdict, Sent
<1>3. /\ pc[a] # "gate" => UNCHANGED <<pc, timer>> /\ inbox' = Tail(inbox)
      /\ pc[a] = "gate" => Move(a, v)
      /\ pc[a] = "gate" /\ v = "already" =>
           inbox' = Append(Tail(inbox), [op |-> "ok", a |-> a])
      /\ pc[a] = "gate" /\ v # "already" => inbox' = Tail(inbox)
  BY <1>0 DEF PersistPend
<1> HIDE DEF row, v
<1>4. Took(a)
  <2>1. CASE pc[a] # "gate"
    BY <1>0, <1>1, <1>3, <2>1 DEF Took
  <2>2. CASE pc[a] = "gate"
    <3>1. pc'[a] = v /\ \A b \in Attempt : b # a => pc'[b] = pc[b] /\ timer'[b] = timer[b]
      BY <1>1, <1>3, <2>2 DEF Move
    <3> QED
      BY <1>0, <1>1, <1>2, <1>3, <2>2, <3>1 DEF Took
  <2> QED
    BY <2>1, <2>2
<1>5. \A b \in Attempt : pc'[b] = pc[b] \/ (b = a /\ pc[a] = "gate" /\ pc'[a] = v)
  BY <1>1, <1>3 DEF Move
<1>6. \A k \in Key : /\ Sent(k) => Sent(k)'
                     /\ ledger[k].status # "none" => ledger'[k].status # "none"
  BY <1>1, <1>2 DEF Sent
<1>7. AnsweredAtOnce'
  BY <1>4, TookAnswered DEF Healthy
<1>8. ClaimsHaveOriginal'
  <2>1. ItemsHandled'
    BY <1>4, TookItems DEF Healthy, ClaimsHaveOriginal, ItemsHandled, HandedOn
  <2>2. \A k : HasOriginal(k) => HasOriginal(k)'
    BY <1>4, TookHanded DEF HasOriginal, K
  <2>3. DroppedHasOriginal'
    <3>1. pc'[a] = "duplicate" => pc[a] = "duplicate"
      BY <1>2, <1>5
    <3> QED
      BY <1>4, <3>1, TookDropped DEF Healthy, ClaimsHaveOriginal
  <2>4. /\ \A k \in Key : Fresh(claim'[k]) => HasOriginal(k)'
        /\ \A m \in Msg : Fresh(wxClaim'[m]) \/ m \in processed' => HasOriginal(KeyOf[m])'
    BY <1>1, <2>2 DEF Healthy, ClaimsHaveOriginal
  <2>5. job' = <<>>
    BY <1>1
  <2> QED
    BY <2>1, <2>3, <2>4, <2>5 DEF ClaimsHaveOriginal, ItemsHandled, HandedOn
<1>9. AcksStand'
  <2>1. ASSUME pc'[a] = "execute", pc[a] # "execute",
               NEW b \in Attempt, b # a, K(b) = K(a), pc[b] = "acked"
        PROVE  FALSE
    <3>1. pc[a] = "gate" /\ ~Sent(K(a))
      BY <1>2, <1>5, <2>1
    <3>2. Coming(K(a))
      BY <2>1, <3>1 DEF Healthy, AcksStand, SuccessComes
    <3>3. PICK i \in 1..Len(inbox) :
            /\ inbox[i].op = "ok"
            /\ \A j \in 1..Len(inbox) :
                 j < i /\ inbox[j].op = "pend" /\ K(inbox[j].a) = K(a)
                   => pc[inbox[j].a] # "gate"
      BY <3>2 DEF Coming
    <3>4. 1 < i
      BY <1>1, <3>3
    <3> QED
      BY <1>0, <1>1, <3>1, <3>3, <3>4
  <2> QED
    BY <1>1, <1>4, <1>6, <2>1, TookAcks DEF Healthy
<1>10. SuccessFirst'
  <2>1. ASSUME NEW b \in Attempt, pc'[b] = "already"
        PROVE  Sent(K(b))'
    <3>1. CASE pc[b] = "already"
      BY <1>6, <3>1, KeyType DEF Healthy, SuccessFirst, K, Sent
    <3>2. CASE pc[b] # "already"
      <4>1. b = a /\ v = "already"
        BY <1>5, <2>1, <3>2
      <4> QED
        BY <1>2, <4>1 DEF Sent, K
    <3> QED
      BY <3>1, <3>2
  <2>2. ASSUME NEW i \in 1..Len(inbox'), inbox'[i].op = "ok"
        PROVE  ledger'[K(inbox'[i].a)].status # "none"
    <3>1. CASE i + 1 \in 1..Len(inbox) /\ inbox'[i] = inbox[i + 1]
      <4>1. inbox[i + 1].a \in Attempt /\ ledger[K(inbox[i + 1].a)].status # "none"
        BY <2>2, <3>1, ItemTypes DEF Healthy, SuccessFirst
      <4> QED
        BY <1>6, <3>1, <4>1, KeyType
    <3>2. CASE inbox'[i] = [op |-> "ok", a |-> a] /\ pc'[a] = "already"
      BY <1>1, <2>1, <3>2 DEF Sent, K
    <3> QED
      BY <1>4, <3>1, <3>2, TookShift
  <2>3. \A b \in Attempt : CacheKey("success", b) \in cache' => Sent(K(b))'
    BY <1>1, <1>6, KeyType DEF Healthy, SuccessFirst, K, Sent
  <2>4. job' = <<>>
    BY <1>1
  <2> QED
    BY <2>1, <2>2, <2>3, <2>4 DEF SuccessFirst, CacheKey, K
<1> QED
  BY <1>7, <1>8, <1>9, <1>10 DEF Healthy

LEMMA HealthyBegin ==
  ASSUME TypeOK, RelayInv, Healthy, PersistBegin
  PROVE  Healthy'
<1>1. /\ inbox # <<>> /\ job = <<>> /\ Head(inbox).op \in Op \ {"dedup", "pend"}
      /\ UNCHANGED <<pc, timer, ledger, claim, wxClaim, cache, processed, up>>
  BY HeadType DEF PersistBegin, Serving, durable
<1>2. PICK a \in Attempt : a = Head(inbox).a
  BY <1>1, HeadType
<1>3. PICK op \in Op \ {"dedup", "pend"} : op = Head(inbox).op
  BY <1>1
<1>4. /\ job' = Plan(op, a)
      /\ inbox' = IF Plan(op, a) = <<>> THEN Tail(inbox) ELSE inbox
  BY <1>2, <1>3 DEF PersistBegin
<1>5. /\ op = "ok" => \/ Sent(K(a))
                      \/ \E i \in 1..Len(Plan(op, a)) : Plan(op, a)[i] = "markSent"
      /\ \A i \in 1..Len(Plan(op, a)) :
           /\ Plan(op, a)[i] = "markHandled" => op = "ok"
           /\ Plan(op, a)[i] = "success" =>
                \/ Sent(K(a))
                \/ \E j \in 1..Len(Plan(op, a)) : j < i /\ Plan(op, a)[j] = "markSent"
  BY PlanSuccess DEF Healthy, SuccessFirst
<1>6. /\ \A k : Sent(k)' <=> Sent(k)
      /\ \A b \in Attempt : HandedOn(b) => HandedOn(b)'
      /\ \A k : HasOriginal(k) => HasOriginal(k)'
  BY <1>1 DEF Sent, HandedOn, HasOriginal, K
<1>7. DroppedHasOriginal'
  BY <1>1 DEF Healthy, ClaimsHaveOriginal, DroppedHasOriginal, K
<1>8. CASE Plan(op, a) = <<>>
  <2>1. job' = <<>> /\ inbox' = Tail(inbox)
    BY <1>4, <1>8
  <2>2. Took(a)
    BY <1>1, <1>2, <2>1 DEF Took
  <2>3. AnsweredAtOnce' /\ ItemsHandled'
    BY <2>2, TookAnswered, TookItems DEF Healthy, ClaimsHaveOriginal, ItemsHandled, HandedOn
  <2>4. ClaimsHaveOriginal'
    BY <1>1, <1>6, <1>7, <2>1, <2>3
       DEF Healthy, ClaimsHaveOriginal, ItemsHandled, HandedOn
  <2>5. AcksStand'
    <3>1. Head(inbox).op = "ok" => Sent(K(a))'
      BY <1>3, <1>5, <1>6, <1>8 DEF K, Sent
    <3> QED
      BY <1>1, <1>6, <2>2, <3>1, TookAcks DEF Healthy
  <2>6. SuccessFirst'
    <3>1. \A i \in 1..Len(inbox') : i + 1 \in 1..Len(inbox) /\ inbox'[i] = inbox[i + 1]
      BY <1>1, <2>1, TailProps
    <3> QED
      BY <1>1, <2>1, <3>1 DEF Healthy, SuccessFirst, Sent, K, CacheKey
  <2> QED
    BY <2>3, <2>4, <2>5, <2>6 DEF Healthy
<1>9. CASE Plan(op, a) # <<>>
  <2>1. job' = Plan(op, a) /\ inbox' = inbox
    BY <1>4, <1>9
  <2>2. AnsweredAtOnce' /\ AcksStand'
    BY <1>1, <2>1 DEF Healthy, AnsweredAtOnce, AcksStand, SuccessComes, Coming, Sent, K
  <2>3. ClaimsHaveOriginal'
    <3>1. \A i \in 1..Len(job') : job'[i] = "markHandled" => Head(inbox').op = "ok"
      BY <1>3, <1>5, <2>1
    <3> QED
      BY <1>1, <1>6, <1>7, <2>1, <3>1 DEF Healthy, ClaimsHaveOriginal, HandedOn
  <2>4. SuccessFirst'
    <3>1. /\ \A b \in Attempt : pc'[b] = "already" => Sent(K(b))'
          /\ \A i \in 1..Len(inbox') :
               inbox'[i].op = "ok" => ledger'[K(inbox'[i].a)].status # "none"
          /\ \A b \in Attempt : CacheKey("success", b) \in cache' => Sent(K(b))'
      BY <1>1, <2>1 DEF Healthy, SuccessFirst, Sent, K
    <3>2. Head(inbox').a = a /\ Head(inbox').op = op
      BY <1>2, <1>3, <2>1
    <3> QED
      BY <1>1, <1>5, <2>1, <3>1, <3>2 DEF SuccessFirst, Sent, K, CacheKey
  <2> QED
    BY <2>2, <2>3, <2>4 DEF Healthy
<1> QED
  BY <1>8, <1>9

LEMMA HealthyWrite ==
  ASSUME TypeOK, RelayInv, VerdictInv, Healthy, PersistWrite
  PROVE  Healthy'
<1>1. /\ inbox # <<>> /\ job # <<>> /\ job \in Seq(Write) /\ job' = Tail(job)
      /\ inbox' = IF Tail(job) = <<>> THEN Tail(inbox) ELSE inbox
      /\ UNCHANGED <<pc, timer, up>> /\ ledger \in [Key -> Row]
      /\ claim \in [Key -> Age] /\ wxClaim \in [Msg -> Age]
      /\ Head(inbox) = inbox[1] /\ 1 \in 1..Len(inbox)
  BY HeadType DEF PersistWrite, TypeOK
<1>2. PICK a \in Attempt : a = Head(inbox).a
  BY <1>1, HeadType
<1>3. PICK w \in Write : w = Head(job) /\ w = job[1] /\ 1 \in 1..Len(job)
  BY <1>1
<1>4. ApplyWrite(w, a) /\ K(a) \in Key /\ MsgOf[a] \in Msg
  BY <1>2, <1>3, KeyType DEF PersistWrite
<1>5. /\ Len(job') = Len(job) - 1 /\ Len(job) \in Nat
      /\ \A i \in 1..Len(job') : i + 1 \in 1..Len(job) /\ job'[i] = job[i + 1]
      /\ \A i \in 1..Len(job) : i # 1 => i - 1 \in 1..Len(job') /\ job'[i - 1] = job[i]
      /\ ~ \E j \in 1..Len(job) : j < 1
  BY <1>1
<1>6. /\ w = "markSent"    => inbox[1].op = "ok"
      /\ w = "markFailed"  => inbox[1].op = "fail"
      /\ w = "markHandled" => inbox[1].op = "ok"
  BY <1>1, <1>3 DEF VerdictInv, VerdictsHaveCause, Healthy, ClaimsHaveOriginal
<1>7. /\ inbox[1].op = "ok"   => HandedOn(a) /\ ledger[K(a)].status # "none"
      /\ inbox[1].op = "fail" => ~Sent(K(a))
  BY <1>1, <1>2, ZenonT(40) DEF Healthy, ClaimsHaveOriginal, SuccessFirst, AnsweredAtOnce,
     VerdictInv, FailureIsFirst, Sent
<1>8. /\ \A k \in Key : k # K(a) => ledger'[k] = ledger[k]
      /\ w \notin {"markSent", "markFailed"} => ledger'[K(a)] = ledger[K(a)]
      /\ w = "markSent" /\ ledger[K(a)].status # "none" => ledger'[K(a)].status = "sent"
      /\ w = "markFailed" /\ ledger[K(a)].status # "none" => ledger'[K(a)].status = "failed"
      /\ ledger[K(a)].status = "none" => ledger'[K(a)] = ledger[K(a)]
  <2>1. ledger' = IF w \in {"markSent", "markFailed"} /\ ledger[K(a)].status # "none"
                    THEN [ledger EXCEPT ![K(a)].status =
                                           IF w = "markSent" THEN "sent" ELSE "failed"]
                    ELSE ledger
    BY <1>4 DEF ApplyWrite
  <2>2. ledger[K(a)] \in Row
    BY <1>1, <1>4
  <2>3. \A s : [ledger[K(a)] EXCEPT !.status = s].status = s
    BY <2>2 DEF Row
  <2> QED
    BY <1>1, <1>4, <2>1, <2>3
<1>9. /\ \A k \in Key : Sent(k) => Sent(k)'
      /\ \A k \in Key : ledger[k].status # "none" => ledger'[k].status # "none"
      /\ w = "markSent" => Sent(K(a))'
  BY <1>6, <1>7, <1>8 DEF Sent, K
<1>10. DroppedHasOriginal' /\ \A k : HasOriginal(k) => HasOriginal(k)'
  BY <1>1 DEF Healthy, ClaimsHaveOriginal, DroppedHasOriginal, K, HasOriginal, HandedOn
<1>11. /\ \A k \in Key : Fresh(claim'[k]) => HasOriginal(k)'
       /\ \A m \in Msg : Fresh(wxClaim'[m]) \/ m \in processed' => HasOriginal(KeyOf[m])'
  <2>1. ~Fresh(Expired)
    BY TimeAssumption DEF Fresh, Expired
  <2>2. \A k \in Key : Fresh(claim'[k]) => Fresh(claim[k])
    BY <1>1, <1>4, <2>1 DEF ApplyWrite
  <2>3. ASSUME NEW m \in Msg, Fresh(wxClaim'[m]) \/ m \in processed'
        PROVE  Fresh(wxClaim[m]) \/ m \in processed \/ (w = "markHandled" /\ m = MsgOf[a])
    BY <1>1, <1>4, <2>1, <2>3 DEF ApplyWrite
  <2>4. w = "markHandled" => HasOriginal(KeyOf[MsgOf[a]])
    BY <1>6, <1>7 DEF HasOriginal, K
  <2> QED
    BY <1>10, <2>2, <2>3, <2>4 DEF Healthy, ClaimsHaveOriginal
<1>12. \A b \in Attempt : CacheKey("success", b) \in cache' => Sent(K(b))'
  <2> SUFFICES ASSUME NEW b \in Attempt, CacheKey("success", b) \in cache'
               PROVE  Sent(K(b))'
    BY DEF K, CacheKey
  <2>1. CASE CacheKey("success", b) \in cache
    <3>1. Sent(K(b)) /\ K(b) \in Key
      BY <2>1, KeyType DEF Healthy, SuccessFirst
    <3> QED
      BY <1>9, <3>1 DEF K, Sent
  <2>2. CASE CacheKey("success", b) \notin cache
    <3>1. CacheKey("success", b) = CacheKey(w, a)
      BY <1>4, <2>2 DEF ApplyWrite
    <3>2. w = "success" /\ K(b) = K(a)
      BY <3>1 DEF CacheKey
    <3>3. Sent(K(a))
      BY <1>2, <1>3, <1>5, <3>2 DEF Healthy, SuccessFirst
    <3> QED
      BY <1>4, <1>9, <3>2, <3>3 DEF K, Sent
  <2> QED
    BY <2>1, <2>2
<1>13. inbox[1].op = "ok" =>
         Sent(K(a))' \/ \E i \in 1..Len(job') : job'[i] = "markSent"
  <2> SUFFICES ASSUME inbox[1].op = "ok", ~Sent(K(a))'
               PROVE  \E i \in 1..Len(job') : job'[i] = "markSent"
    OBVIOUS
  <2>1. PICK i \in 1..Len(job) : job[i] = "markSent"
    BY <1>1, <1>2, <1>4, <1>9 DEF Healthy, SuccessFirst, Sent, K
  <2>2. i # 1
    BY <1>3, <1>9, <2>1
  <2> QED
    BY <1>5, <2>1, <2>2
<1>14. \A b \in Attempt : pc'[b] = "already" => Sent(K(b))'
  BY <1>1, <1>9, KeyType DEF Healthy, SuccessFirst, Sent, K
<1>15. CASE Tail(job) = <<>>
  <2>1. job' = <<>> /\ inbox' = Tail(inbox)
    BY <1>1, <1>15
  <2>2. Took(a)
    BY <1>1, <1>2, <2>1 DEF Took, Healthy, SuccessFirst
  <2>3. AnsweredAtOnce' /\ ItemsHandled'
    BY <2>2, TookAnswered, TookItems DEF Healthy, ClaimsHaveOriginal, ItemsHandled, HandedOn
  <2>4. ClaimsHaveOriginal'
    BY <1>10, <1>11, <2>1, <2>3 DEF ClaimsHaveOriginal, ItemsHandled, HandedOn
  <2>5. AcksStand'
    <3>1. ~ \E i \in 1..Len(job') : job'[i] = "markSent"
      BY <2>1
    <3>2. Head(inbox).op = "ok" => Sent(K(a))'
      BY <1>1, <1>13, <3>1
    <3> QED
      BY <1>1, <1>9, <2>2, <3>2, TookAcks DEF Healthy
  <2>6. SuccessFirst'
    <3>1. \A i \in 1..Len(inbox') : i + 1 \in 1..Len(inbox) /\ inbox'[i] = inbox[i + 1]
      BY <1>1, <2>1, TailProps
    <3>2. ASSUME NEW i \in 1..Len(inbox'), inbox'[i].op = "ok"
          PROVE  ledger'[K(inbox'[i].a)].status # "none"
      <4>1. inbox[i + 1].a \in Attempt /\ ledger[K(inbox[i + 1].a)].status # "none"
        BY <3>1, <3>2, ItemTypes DEF Healthy, SuccessFirst
      <4> QED
        BY <1>9, <3>1, <4>1, KeyType
    <3> QED
      BY <1>12, <1>14, <2>1, <3>2 DEF SuccessFirst, K
  <2> QED
    BY <2>3, <2>4, <2>5, <2>6 DEF Healthy
<1>16. CASE Tail(job) # <<>>
  <2>1. inbox' = inbox
    BY <1>1, <1>16
  <2>2. AnsweredAtOnce'
    BY <1>1, <2>1 DEF Healthy, AnsweredAtOnce
  <2>3. ClaimsHaveOriginal'
    <3>1. \A i \in 1..Len(job') : job'[i] = "markHandled" => Head(inbox').op = "ok"
      BY <1>5, <2>1 DEF Healthy, ClaimsHaveOriginal
    <3>2. \A i \in 1..Len(inbox) :
            /\ inbox[i].op = "ok"    => pc[inbox[i].a] \in HandedStages
            /\ inbox[i].op = "dedup" => pc[inbox[i].a] # "missing"
            /\ inbox[i].op = "pend"  => pc[inbox[i].a] \in HandedStages \ {"request"}
      BY DEF Healthy, ClaimsHaveOriginal, HandedOn
    <3> QED
      BY <1>1, <1>10, <1>11, <2>1, <3>1, <3>2 DEF ClaimsHaveOriginal, HandedOn
  <2>4. AcksStand'
    <3> SUFFICES ASSUME NEW b \in Attempt, pc[b] = "acked"
                 PROVE  /\ SuccessComes(K(b))'
                        /\ \A c \in Attempt : c # b /\ K(c) = K(b)
                             => pc[c] \notin {"execute", "sending", "acked"}
      BY <1>1 DEF AcksStand, K
    <3>1. SuccessComes(K(b)) /\ K(b) \in Key
      BY KeyType DEF Healthy, AcksStand
    <3>2. SuccessComes(K(b))'
      <4>1. CASE Sent(K(b))
        <5>1. Sent(K(b))'
          BY <1>9, <3>1, <4>1 DEF K
        <5> QED
          BY <5>1 DEF SuccessComes, K
      <4>2. CASE Coming(K(b))
        <5>1. inbox' = inbox /\ pc' = pc
          BY <1>1, <2>1
        <5>2. \A k : Coming(k)' <=> Coming(k)
          BY <5>1 DEF Coming, K
        <5>3. Coming(K(b))'
          BY <4>2, <5>2 DEF K
        <5> QED
          BY <5>3 DEF SuccessComes, K
      <4> QED
        BY <3>1, <4>1, <4>2 DEF SuccessComes
    <3> QED
      BY <3>2 DEF Healthy, AcksStand
  <2>5. SuccessFirst'
    <3>1. \A i \in 1..Len(inbox') :
            inbox'[i].op = "ok" => ledger'[K(inbox'[i].a)].status # "none"
      BY <1>9, <2>1, ItemTypes, KeyType DEF Healthy, SuccessFirst
    <3>2. ASSUME NEW i \in 1..Len(job'), job'[i] = "success", ~Sent(K(a))'
          PROVE  \E j \in 1..Len(job') : j < i /\ job'[j] = "markSent"
      <4>1. i + 1 \in 1..Len(job) /\ job[i + 1] = "success"
        BY <1>5, <3>2
      <4>2. PICK j \in 1..Len(job) : j < i + 1 /\ job[j] = "markSent"
        BY <1>2, <1>4, <1>9, <3>2, <4>1 DEF Healthy, SuccessFirst, Sent, K
      <4>3. j # 1
        BY <1>3, <1>9, <3>2, <4>2
      <4> QED
        BY <1>5, <4>2, <4>3
    <3>3. /\ Head(inbox').a = a /\ Head(inbox') = inbox[1]
          /\ inbox[1].op \notin {"dedup", "pend"}
      BY <1>1, <1>2, <2>1 DEF Healthy, SuccessFirst
    <3> QED
      BY <1>12, <1>13, <1>14, <3>1, <3>2, <3>3 DEF SuccessFirst, K, Sent
  <2> QED
    BY <2>2, <2>3, <2>4, <2>5 DEF Healthy
<1> QED
  BY <1>15, <1>16

\* Time passes only when persistence has answered everything.
LEMMA HealthyTick ==
  ASSUME Prompt, TypeOK, Healthy, Tick
  PROVE  Healthy'
<1>1. /\ inbox = <<>> /\ inbox' = <<>> /\ job = <<>> /\ job' = <<>>
      /\ UNCHANGED <<pc, processed, cache, up>>
      /\ claim \in [Key -> Age] /\ wxClaim \in [Msg -> Age] /\ ledger \in [Key -> Row]
  BY DEF Tick, TypeOK
<1>2. ~ \E i \in 1..Len(inbox) : TRUE
  BY <1>1
<1>3. \A a \in Attempt : pc[a] \notin {"dedup", "gate"}
  BY <1>2 DEF Healthy, AnsweredAtOnce
<1>4. AnsweredAtOnce'
  BY <1>1, <1>3 DEF Healthy, AnsweredAtOnce
<1>5. \A age \in Age : Fresh(Older(age)) => Fresh(age)
  BY TimeAssumption DEF Age, Expired, Older, Fresh
<1>6. \A k : HasOriginal(k)' <=> HasOriginal(k)
  BY <1>1 DEF HasOriginal, HandedOn, K
<1>7. ~(\E i \in 1..Len(inbox') : TRUE) /\ ~(\E i \in 1..Len(job') : TRUE)
  BY <1>1
<1>8. ClaimsHaveOriginal'
  <2>1. ASSUME NEW k \in Key, Fresh(claim'[k]) PROVE HasOriginal(k)'
    <3>1. claim'[k] = Older(claim[k]) /\ claim[k] \in Age
      BY <1>1 DEF Tick
    <3> QED
      BY <1>5, <1>6, <2>1, <3>1 DEF Healthy, ClaimsHaveOriginal
  <2>2. ASSUME NEW m \in Msg, Fresh(wxClaim'[m]) \/ m \in processed'
        PROVE  HasOriginal(KeyOf[m])'
    <3>1. wxClaim'[m] = Older(wxClaim[m]) /\ wxClaim[m] \in Age
      BY <1>1 DEF Tick
    <3> QED
      BY <1>1, <1>5, <1>6, <2>2, <3>1 DEF Healthy, ClaimsHaveOriginal
  <2>3. DroppedHasOriginal'
    BY <1>1 DEF Healthy, ClaimsHaveOriginal, DroppedHasOriginal, K
  <2> QED
    BY <1>7, <2>1, <2>2, <2>3 DEF ClaimsHaveOriginal
<1>9. \A k \in Key : Sent(k) => Sent(k)'
  <2> SUFFICES ASSUME NEW k \in Key, Sent(k) PROVE Sent(k)'
    OBVIOUS
  <2>1. ledger[k] \in Row /\ ledger[k].status = "sent"
    BY <1>1 DEF Sent
  <2>2. [ledger[k] EXCEPT !.age = Older(@)].status = "sent"
    BY <2>1 DEF Row
  <2> QED
    BY <2>1, <2>2 DEF Tick, Sent
<1>10. AcksStand'
  <2> SUFFICES ASSUME NEW a \in Attempt, pc[a] = "acked"
               PROVE  /\ SuccessComes(K(a))'
                      /\ \A b \in Attempt : b # a /\ K(b) = K(a)
                           => pc[b] \notin {"execute", "sending", "acked"}
    BY <1>1 DEF AcksStand, K
  <2>1. ~Coming(K(a)) /\ SuccessComes(K(a)) /\ K(a) \in Key
    BY <1>2, KeyType DEF Coming, Healthy, AcksStand
  <2>2. Sent(K(a))'
    BY <1>9, <2>1 DEF SuccessComes, K
  <2> QED
    BY <2>2 DEF Healthy, AcksStand, SuccessComes, K
<1>11. SuccessFirst'
  <2>1. ASSUME NEW a \in Attempt, pc'[a] = "already" \/ CacheKey("success", a) \in cache'
        PROVE  Sent(K(a))'
    <3>1. Sent(K(a)) /\ K(a) \in Key
      BY <1>1, <2>1, KeyType DEF Healthy, SuccessFirst
    <3> QED
      BY <1>9, <3>1 DEF K
  <2> QED
    BY <1>1, <1>7, <2>1 DEF SuccessFirst, K, CacheKey
<1> QED
  BY <1>4, <1>8, <1>10, <1>11 DEF Healthy

\* Where nothing that it speaks of changes, what a healthy worker guarantees stays.
LEMMA HealthyStays ==
  ASSUME Healthy, UNCHANGED <<pc, timer, inbox, job, durable, processed, up>>
  PROVE  Healthy'
<1>1. AnsweredAtOnce'
  BY DEF Healthy, AnsweredAtOnce
<1>2. ClaimsHaveOriginal'
  BY DEF Healthy, ClaimsHaveOriginal, HandedOn, HasOriginal, DroppedHasOriginal, K, durable
<1>3. AcksStand'
  BY DEF Healthy, AcksStand, SuccessComes, Coming, Sent, K, durable
<1>4. SuccessFirst'
  BY DEF Healthy, SuccessFirst, Sent, K, CacheKey, durable
<1> QED
  BY <1>1, <1>2, <1>3, <1>4 DEF Healthy

\* An attempt's steps, one stage each, keep what a healthy worker guarantees.
LEMMA HealthyAttempt ==
  ASSUME TypeOK, RelayInv, Healthy, Req # 0, NEW a \in Attempt, AttemptStep(a)
  PROVE  Healthy'
<1>1. UNCHANGED <<job, durable, processed, up>>
  BY HealthyMoves DEF Healthy
<1>2. CASE UNCHANGED <<pc, timer, inbox>>
  BY <1>1, <1>2, HealthyStays
<1>3. CASE Went(a, "idle", "lookup", "none")
  BY <1>1, <1>3, WentHealthy DEF HandedStages, Active, Hops, Settled, Op
<1>4. CASE Went(a, "lookup", "dedup", "dedup")
  BY <1>1, <1>4, WentHealthy DEF HandedStages, Active, Hops, Settled, Op
<1>5. CASE Went(a, "lookup", "missing", "missing")
  BY <1>1, <1>5, WentHealthy DEF HandedStages, Active, Hops, Settled, Op
<1>6. CASE Went(a, "request", "gate", "pend")
  BY <1>1, <1>6, WentHealthy DEF HandedStages, Active, Hops, Settled, Op
<1>7. CASE Went(a, "execute", "sending", "none")
  BY <1>1, <1>7, WentHealthy DEF HandedStages, Active, Hops, Settled, Op
<1>8. CASE Went(a, "sending", "acked", "ok")
  BY <1>1, <1>8, WentHealthy DEF HandedStages, Active, Hops, Settled, Op
<1>9. CASE Went(a, "sending", "failed", "fail")
  BY <1>1, <1>9, WentHealthy DEF HandedStages, Active, Hops, Settled, Op
<1> QED
  BY <1>2, <1>3, <1>4, <1>5, <1>6, <1>7, <1>8, <1>9, HealthyMoves DEF Healthy

LEMMA HealthyInit == Init => Healthy
<1> SUFFICES ASSUME Init PROVE Healthy
  OBVIOUS
<1>1. /\ pc = [a \in Attempt |-> "idle"] /\ inbox = <<>> /\ job = <<>> /\ up = Worker
      /\ processed = {} /\ cache = {} /\ Len(inbox) = 0 /\ Len(job) = 0
      /\ \A k \in Key : ~Fresh(claim[k])
      /\ \A m \in Msg : ~Fresh(wxClaim[m])
  BY TimeAssumption DEF Init, Fresh, Expired
<1>2. AnsweredAtOnce
  BY <1>1 DEF AnsweredAtOnce
<1>3. ClaimsHaveOriginal
  BY <1>1 DEF ClaimsHaveOriginal, DroppedHasOriginal
<1>4. AcksStand /\ SuccessFirst
  BY <1>1 DEF AcksStand, SuccessFirst
<1> QED
  BY <1>2, <1>3, <1>4 DEF Healthy

LEMMA HealthyStep ==
  ASSUME Prompt, Req # 0, MaxCrash = 0, TypeOK, RelayInv, VerdictInv, Healthy, [Next]_vars
  PROVE  Healthy'
<1>1. ASSUME NEW a \in Attempt, AttemptStep(a) PROVE Healthy'
  BY <1>1, HealthyAttempt
<1>2. CASE PersistStep
  BY <1>2, HealthyDedup, HealthyPend, HealthyBegin, HealthyWrite DEF PersistStep
<1>3. ASSUME NEW w \in Worker, Crash(w) \/ Restart(w) PROVE FALSE
  <2>1. up = Worker /\ crashes \in Nat
    BY DEF Healthy, AnsweredAtOnce, TypeOK
  <2> QED
    BY <1>3, <2>1 DEF Crash, Restart
<1>4. CASE Tick
  BY <1>4, HealthyTick
<1>5. CASE UNCHANGED vars
  BY <1>5, HealthyStays DEF vars, durable
<1> QED
  BY <1>1, <1>2, <1>3, <1>4, <1>5 DEF Next

\* While persistence answers in time and no worker dies, what makes a reply a
\* repetition, an ACK the only one and a success the first record holds.
THEOREM HealthyRelay ==
  ASSUME Prompt, Req # 0, MaxCrash = 0
  PROVE  Spec => []Healthy
<1>1. Init => VerdictInv
  BY DEF Init, VerdictInv, FailureIsFirst, VerdictsHaveCause
<1>2. TypeOK /\ RelayInv /\ VerdictInv /\ [Next]_vars => VerdictInv'
  BY VerdictStep
<1>3. TypeOK /\ RelayInv /\ VerdictInv /\ Healthy /\ [Next]_vars => Healthy'
  BY HealthyStep
<1> QED
  BY <1>1, <1>2, <1>3, HealthyInit, Typing, Relaying, PTL DEF Spec

\* The buyer's side acknowledges the text of one reply at most once, however
\* often WeChat delivers it or the user repeats it, while persistence is up
\* and answers in time.
THEOREM AckedOnlyOnce ==
  ASSUME Prompt, Req # 0, MaxCrash = 0
  PROVE  Spec => []AckedOnce
<1>1. Healthy => AckedOnce
  BY DEF Healthy, AcksStand, AckedOnce
<1> QED
  BY <1>1, HealthyRelay, PTL

\* Under the same conditions no reply is swallowed as a repetition of nothing:
\* another attempt with the same key has been handed on.
THEOREM NoneDroppedAlone ==
  ASSUME Prompt, Req # 0, MaxCrash = 0
  PROVE  Spec => []DroppedHasOriginal
<1>1. Healthy => DroppedHasOriginal
  BY DEF Healthy, ClaimsHaveOriginal
<1> QED
  BY <1>1, HealthyRelay, PTL
===============================================================================
