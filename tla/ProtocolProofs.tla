----------------------------- MODULE ProtocolProofs -----------------------------
(***************************************************************************)
(* What is proved of the protocol daemon and of the client that sends for  *)
(* it, for any shops, messages, workers, requests and plans.               *)
(***************************************************************************)
EXTENDS ProtocolDaemon, ProtocolClient, TLAPS

-------------------------------------------------------------------------------
(***************************************************************************)
(* A worker's record                                                       *)
(***************************************************************************)
Worker ==
  [shop : Shops, live : BOOLEAN, hashed : BOOLEAN, on : BOOLEAN, expired : BOOLEAN,
   cooling : BOOLEAN, timer : BOOLEAN, waits : 0..Patience, watch : BOOLEAN,
   client : ClientStates, kind : Kinds, old : SUBSET Kinds, polling : BOOLEAN,
   page : {"idle", "asked", "read"}, todo : SUBSET Msgs, telling : Msgs \cup {NoMsg}]

\* What a worker may become in a step: the same shop's, and not brought to life.
Kin(k, l) == l \in Worker /\ l.shop = k.shop /\ (l.live => k.live)

LEMMA OffWorker == Off \in Worker /\ Off.live = FALSE
BY ProtocolDaemonAssumption DEF Off, Worker, ClientStates, Kinds

LEMMA WaitsType == Patience \in Nat /\ 0 \in 0..Patience
BY ProtocolDaemonAssumption

LEMMA KinTeardown == ASSUME NEW k \in Worker PROVE Kin(k, TeardownSocket(k))
BY DEF Kin, TeardownSocket, Worker, ClientStates

LEMMA KinSchedule == ASSUME NEW k \in Worker PROVE Kin(k, ScheduleReconnect(k))
<1> DEFINE n == IF k.waits < Patience THEN k.waits + 1 ELSE k.waits
<1>1. n \in 0..Patience
  BY WaitsType DEF Worker
<1>2. Kin(k, [k EXCEPT !.timer = TRUE, !.waits = n])
  BY <1>1 DEF Kin, Worker
<1>3. Kin(k, k)
  BY DEF Kin
<1> QED
  BY <1>2, <1>3 DEF ScheduleReconnect

LEMMA KinConnect == ASSUME NEW k \in Worker, NEW kind \in Kinds PROVE Kin(k, Connect(k, kind))
<1> DEFINE l == TeardownSocket(k)
<1>1. Kin(k, l) /\ Kin(k, k)
  BY KinTeardown DEF Kin
<1> HIDE DEF l
<1>2. Kin(l, [l EXCEPT !.client = "opening", !.kind = kind])
  BY <1>1 DEF Kin, Worker, ClientStates
<1>3. Kin(k, [l EXCEPT !.client = "opening", !.kind = kind])
  BY <1>1, <1>2 DEF Kin
<1> QED
  BY <1>1, <1>3 DEF Connect, l

LEMMA KinExpired == ASSUME NEW k \in Worker PROVE Kin(k, MarkCredentialExpired(k))
BY KinTeardown DEF Kin, MarkCredentialExpired, Worker

LEMMA KinStopped == ASSUME NEW k \in Worker PROVE Kin(k, StopWorker(k)) /\ ~StopWorker(k).live
BY KinTeardown, ZenonT(40) DEF Kin, StopWorker, Worker

LEMMA KinListening == ASSUME NEW k \in Worker PROVE Kin(k, Listening(k))
BY WaitsType DEF Kin, Listening, Worker

LEMMA KinConnected ==
  ASSUME NEW k \in Worker, NEW a PROVE Kin(k, Connected(k, a))
<1> DEFINE rest == [k EXCEPT !.old = @ \ {a}]
           up   == [k EXCEPT !.client = "up"]
           off  == [rest EXCEPT !.on = FALSE]
<1>1. Kin(k, rest) /\ Kin(k, up)
  BY DEF Kin, Worker, ClientStates
<1>2. Kin(k, off)
  BY DEF Kin, Worker
<1> HIDE DEF rest, up, off
<1>3. Kin(k, Listening(up)) /\ Kin(k, Listening(rest)) /\ Kin(k, ScheduleReconnect(off))
  BY <1>1, <1>2, KinListening, KinSchedule DEF Kin
<1> QED
  BY <1>3 DEF Connected, rest, up, off

LEMMA KinDropped ==
  ASSUME NEW k \in Worker, NEW a PROVE Kin(k, Dropped(k, a))
BY DEF Kin, Dropped, Worker, ClientStates

-------------------------------------------------------------------------------
(***************************************************************************)
(* The daemon's types                                                      *)
(***************************************************************************)
Reload == [stage : {"idle", "next", "wait"}, todo : SUBSET Shops, next : SUBSET Shops,
           worker : {0} \cup WorkerIds]

FilesType  == file \subseteq Shops /\ process \in {"off", "up", "stopping"}
              /\ agent \in {"idle", "upload", "order"} /\ watchDue \in BOOLEAN
WorkersType == wk \in [WorkerIds -> Worker] /\ listed \in [Shops -> {0} \cup WorkerIds]
              /\ reload \in [Reloads -> Reload]
StoreType  == /\ arrived \subseteq Msgs /\ dedup \subseteq Msgs /\ notices \subseteq Msgs
              /\ tellings \in [Msgs -> Nat]

\* What is being told has its key, and was not told since the key was written.
KeysFirst == /\ notices \subseteq dedup
             /\ \A m \in notices : tellings[m] = 0
             /\ \A m \in Msgs : m \notin dedup => tellings[m] = 0

DaemonInv == FilesType /\ WorkersType /\ StoreType /\ LiveIsListed /\ KeysFirst /\ ToldOnce

LEMMA DaemonInitially == DaemonInit => DaemonInv
<1> SUFFICES ASSUME DaemonInit PROVE DaemonInv
  OBVIOUS
<1>1. FilesType /\ StoreType
  BY DEF DaemonInit, FilesType, StoreType
<1>4. KeysFirst /\ ToldOnce
  BY DEF DaemonInit, KeysFirst, ToldOnce
<1>2. WorkersType
  BY OffWorker DEF DaemonInit, WorkersType, Reload, NoReload
<1>3. LiveIsListed
  BY OffWorker DEF DaemonInit, LiveIsListed
<1> QED
  BY <1>1, <1>2, <1>3, <1>4 DEF DaemonInv

\* One worker becomes a kin of its own, and nothing but messages changes besides.
LEMMA WorkerKept ==
  ASSUME DaemonInv, NEW w \in WorkerIds, NEW l, Kin(wk[w], l), wk' = [wk EXCEPT ![w] = l],
         UNCHANGED <<listed, reload>>
  PROVE  WorkersType' /\ LiveIsListed'
BY DEF DaemonInv, WorkersType, LiveIsListed, Kin

LEMMA MessagesKept ==
  ASSUME DaemonInv, UNCHANGED <<arrived, dedup, notices, tellings>>
  PROVE  StoreType' /\ KeysFirst' /\ ToldOnce'
BY DEF DaemonInv, StoreType, KeysFirst, ToldOnce

LEMMA FilesKept ==
  ASSUME DaemonInv, UNCHANGED <<file, process, agent, watchDue>>
  PROVE  FilesType'
BY DEF DaemonInv, FilesType

LEMMA KeepsKin ==
  ASSUME DaemonInv, NEW w \in WorkerIds, NEW l, Kin(wk[w], l), Keep([wk EXCEPT ![w] = l])
  PROVE  DaemonInv'
<1>1. WorkersType' /\ LiveIsListed'
  BY WorkerKept DEF Keep
<1>2. FilesType' /\ StoreType' /\ KeysFirst' /\ ToldOnce'
  BY FilesKept, MessagesKept DEF Keep
<1> QED
  BY <1>1, <1>2 DEF DaemonInv

LEMMA ConsumeKeeps ==
  ASSUME DaemonInv, NEW m \in Msgs, Consume(m), UNCHANGED <<arrived, tellings>>
  PROVE  StoreType' /\ KeysFirst' /\ ToldOnce'
BY DEF DaemonInv, StoreType, KeysFirst, ToldOnce, Consume, Fresh

LEMMA WorkerStepKeeps ==
  ASSUME DaemonInv, NEW w \in WorkerIds, WorkerStep(w)
  PROVE  DaemonInv'
<1> DEFINE k == wk[w]
<1>0. k \in Worker
  BY DEF DaemonInv, WorkersType
<1>1. ASSUME NEW a \in Kinds \cup {"current"}, AttemptOpens(w, a) PROVE DaemonInv'
  BY <1>0, <1>1, KinConnected, KeepsKin DEF AttemptOpens
<1>2. ASSUME NEW a \in Kinds \cup {"current"}, AttemptFails(w, a) PROVE DaemonInv'
  <2>1. Kin(k, ScheduleReconnect(Dropped(k, a)))
    BY <1>0, KinDropped, KinSchedule DEF Kin
  <2> QED
    BY <1>2, <2>1, KeepsKin DEF AttemptFails
<1>3. ASSUME NEW a \in Kinds \cup {"current"}, AttemptRefused(w, a) PROVE DaemonInv'
  <2>1. Kin(k, MarkCredentialExpired(Dropped(k, a)))
    BY <1>0, KinDropped, KinExpired DEF Kin
  <2> QED
    BY <1>3, <2>1, KeepsKin DEF AttemptRefused
<1>4. CASE ReconnectFires(w)
  <2> DEFINE l == [k EXCEPT !.timer = FALSE]
  <2>1. Kin(k, l)
    BY <1>0 DEF Kin, Worker
  <2>2. Kin(k, Connect(l, "retry"))
    BY <2>1, KinConnect DEF Kin, Kinds
  <2> QED
    BY <1>4, <2>2, KeepsKin DEF ReconnectFires
<1>5. CASE ActivityTimeout(w)
  <2> DEFINE l == [k EXCEPT !.watch = FALSE]
  <2>1. Kin(k, l)
    BY <1>0 DEF Kin, Worker
  <2>2. Kin(k, ScheduleReconnect(l))
    BY <2>1, KinSchedule DEF Kin
  <2> QED
    BY <1>5, <2>1, <2>2, KeepsKin DEF ActivityTimeout
<1>6. CASE SocketCloses(w)
  <2> DEFINE l == [k EXCEPT !.client = "down", !.on = FALSE]
  <2>1. Kin(k, l)
    BY <1>0 DEF Kin, Worker, ClientStates
  <2>2. Kin(k, ScheduleReconnect(l))
    BY <2>1, KinSchedule DEF Kin
  <2> QED
    BY <1>6, <2>2, KeepsKin DEF SocketCloses
<1>7. CASE SocketErrs(w)
  BY <1>0, <1>7, KinExpired, KeepsKin DEF SocketErrs
<1>8. CASE CooldownEnds(w)
  <2>1. Kin(k, [k EXCEPT !.cooling = FALSE])
    BY <1>0 DEF Kin, Worker
  <2> QED
    BY <1>8, <2>1, KeepsKin DEF CooldownEnds
<1>9. CASE HttpPollStarts(w)
  <2>1. Kin(k, [k EXCEPT !.page = "asked"])
    BY <1>0 DEF Kin, Worker
  <2> QED
    BY <1>9, <2>1, KeepsKin DEF HttpPollStarts
<1>10. CASE PollAnswered(w)
  <2> DEFINE some == {m \in arrived : ShopOf[m] = k.shop}
  <2>1. some \subseteq Msgs
    BY DEF DaemonInv, StoreType
  <2>2. Kin(k, [k EXCEPT !.page = "read", !.todo = some])
    BY <1>0, <2>1 DEF Kin, Worker
  <2>3. [wk EXCEPT ![w].page = "read", ![w].todo = some]
          = [wk EXCEPT ![w] = [k EXCEPT !.page = "read", !.todo = some]]
    BY <1>0 DEF DaemonInv, WorkersType
  <2> QED
    BY <1>10, <2>2, <2>3, KeepsKin DEF PollAnswered
<1>11. CASE PollRefused(w)
  <2> DEFINE l == [k EXCEPT !.page = "idle"]
  <2>1. Kin(k, l)
    BY <1>0 DEF Kin, Worker
  <2>2. Kin(k, MarkCredentialExpired(l))
    BY <2>1, KinExpired DEF Kin
  <2> QED
    BY <1>11, <2>2, KeepsKin DEF PollRefused
<1>12. CASE HttpPollEnds(w)
  <2>1. Kin(k, [k EXCEPT !.page = "idle", !.telling = NoMsg])
    BY <1>0 DEF Kin, Worker
  <2>2. [wk EXCEPT ![w].page = "idle", ![w].telling = NoMsg]
          = [wk EXCEPT ![w] = [k EXCEPT !.page = "idle", !.telling = NoMsg]]
    BY <1>0 DEF DaemonInv, WorkersType
  <2> QED
    BY <1>12, <2>1, <2>2, KeepsKin DEF HttpPollEnds
<1>13. ASSUME NEW m \in Msgs, FrameArrives(w, m) PROVE DaemonInv'
  <2>1. Kin(k, [k EXCEPT !.watch = TRUE])
    BY <1>0 DEF Kin, Worker
  <2>2. WorkersType' /\ LiveIsListed'
    BY <1>13, <2>1, WorkerKept DEF FrameArrives, KeepDaemon
  <2>3. FilesType' /\ StoreType' /\ KeysFirst' /\ ToldOnce'
    BY <1>13, FilesKept, ConsumeKeeps DEF FrameArrives, KeepDaemon
  <2> QED
    BY <2>2, <2>3 DEF DaemonInv
<1>14. ASSUME NEW m \in Msgs, PollTakes(w, m) PROVE DaemonInv'
  <2> DEFINE l == [k EXCEPT !.todo = @ \ {m}, !.telling = IF Fresh(m) THEN m ELSE NoMsg]
  <2>1. Kin(k, l)
    BY <1>0 DEF Kin, Worker
  <2>2. wk' = [wk EXCEPT ![w] = l]
    BY <1>0, <1>14 DEF PollTakes, DaemonInv, WorkersType
  <2>3. WorkersType' /\ LiveIsListed'
    BY <1>14, <2>1, <2>2, WorkerKept DEF PollTakes, KeepDaemon
  <2>4. FilesType' /\ StoreType' /\ KeysFirst' /\ ToldOnce'
    BY <1>14, FilesKept, ConsumeKeeps DEF PollTakes, KeepDaemon
  <2> QED
    BY <2>3, <2>4 DEF DaemonInv
<1> QED
  BY <1>1, <1>2, <1>3, <1>4, <1>5, <1>6, <1>7, <1>8, <1>9, <1>10, <1>11, <1>12, <1>13, <1>14
     DEF WorkerStep

-------------------------------------------------------------------------------
(***************************************************************************)
(* Messages and reloads                                                    *)
(***************************************************************************)
LEMMA WorkersStay ==
  ASSUME DaemonInv, UNCHANGED <<wk, listed, reload>>
  PROVE  WorkersType' /\ LiveIsListed'
BY DEF DaemonInv, WorkersType, LiveIsListed

LEMMA MessageStepKeeps ==
  ASSUME DaemonInv, NEW m \in Msgs, MessageStep(m)
  PROVE  DaemonInv'
<1>1. CASE BuyerWrites(m)
  <2>1. StoreType' /\ KeysFirst' /\ ToldOnce'
    BY <1>1 DEF BuyerWrites, DaemonInv, StoreType, KeysFirst, ToldOnce
  <2> QED
    BY <1>1, <2>1, WorkersStay, FilesKept DEF BuyerWrites, KeepDaemon, DaemonInv
<1>2. CASE KeyExpires(m)
  <2>1. StoreType' /\ KeysFirst' /\ ToldOnce'
    BY <1>2 DEF KeyExpires, DaemonInv, StoreType, KeysFirst, ToldOnce
  <2> QED
    BY <1>2, <2>1, WorkersStay, FilesKept DEF KeyExpires, KeepDaemon, DaemonInv
<1>3. ASSUME NEW reached \in BOOLEAN, NoticeEnds(m, reached) PROVE DaemonInv'
  <2>1. StoreType' /\ KeysFirst' /\ ToldOnce'
    BY <1>3 DEF NoticeEnds, DaemonInv, StoreType, KeysFirst, ToldOnce
  <2> QED
    BY <1>3, <2>1, WorkersStay, FilesKept DEF NoticeEnds, KeepDaemon, DaemonInv
<1> QED
  BY <1>1, <1>2, <1>3 DEF MessageStep

LEMMA BeginType ==
  ASSUME DaemonInv, NEW r \in Reloads, NEW shops \in SUBSET Shops
  PROVE  Begin(r, shops) \in [Reloads -> Reload]
BY DEF DaemonInv, WorkersType, Begin, Reload

\* A reload begins, ends or waits, and the workers stay as they are.
LEMMA OnlyReload ==
  ASSUME DaemonInv, reload' \in [Reloads -> Reload], UNCHANGED <<wk, listed>>
  PROVE  WorkersType' /\ LiveIsListed'
BY DEF DaemonInv, WorkersType, LiveIsListed

LEMMA BuildType ==
  ASSUME NEW s \in Shops
  PROVE  /\ BuildWorker(s) \in Worker /\ BuildWorker(s).shop = s
         /\ Connect(BuildWorker(s), "start") \in Worker /\ Connect(BuildWorker(s), "start").shop = s
<1>1. BuildWorker(s) \in Worker /\ BuildWorker(s).shop = s
  BY OffWorker DEF BuildWorker, Worker
<1>2. Kin(BuildWorker(s), Connect(BuildWorker(s), "start"))
  BY <1>1, KinConnect DEF Kinds
<1> QED
  BY <1>1, <1>2 DEF Kin

LEMMA WaitsReload ==
  ASSUME DaemonInv, NEW r \in Reloads, NEW s \in Shops, NEW w \in WorkerIds
  PROVE  Waits(r, s, w) \in [Reloads -> Reload]
<1> DEFINE stage == IF DaemonUp THEN "wait" ELSE "next"
           by == IF DaemonUp THEN w ELSE 0
           new == [reload[r] EXCEPT !.todo = @ \ {s}, !.stage = stage, !.worker = by]
<1>1. reload \in [Reloads -> Reload] /\ stage \in {"idle", "next", "wait"} /\ by \in {0} \cup WorkerIds
  BY DEF DaemonInv, WorkersType
<1>2. Waits(r, s, w) = [reload EXCEPT ![r].todo = @ \ {s}, ![r].stage = stage, ![r].worker = by]
  BY DEF Waits
<1> HIDE DEF stage, by
<1>3. new \in Reload
  BY <1>1 DEF Reload
<1>4. Waits(r, s, w) = [reload EXCEPT ![r] = new]
  BY <1>1, <1>2 DEF Reload
<1> QED
  BY <1>1, <1>3, <1>4

\* A worker nobody knows gets a shop that has none, or whose worker is stopped.
LEMMA NewWorker ==
  ASSUME DaemonInv, NEW s \in Shops, NEW w \in WorkerIds, Idle(w),
         NEW l \in Worker, l.shop = s,
         listed' = [listed EXCEPT ![s] = w], reload' \in [Reloads -> Reload],
         wk' \in [WorkerIds -> Worker], wk'[w] = l,
         \A v \in WorkerIds \ {w} :
           IF v = listed[s] THEN ~wk'[v].live ELSE wk'[v] = wk[v]
  PROVE  WorkersType' /\ LiveIsListed'
<1>1. WorkersType'
  BY DEF DaemonInv, WorkersType
<1>2. ASSUME NEW v \in WorkerIds, wk'[v].live PROVE listed'[wk'[v].shop] = v
  <2>1. CASE v = w
    BY <2>1 DEF DaemonInv, WorkersType
  <2>2. CASE v # w
    <3>1. v # listed[s] /\ wk'[v] = wk[v]
      BY <1>2, <2>2
    <3>2. wk[v].shop \in Shops /\ listed[wk[v].shop] = v
      BY <1>2, <3>1 DEF DaemonInv, WorkersType, LiveIsListed, Worker
    <3> QED
      BY <3>1, <3>2 DEF DaemonInv, WorkersType
  <2> QED
    BY <2>1, <2>2
<1> QED
  BY <1>1, <1>2 DEF LiveIsListed

LEMMA ReloadNewKeeps ==
  ASSUME DaemonInv, NEW r \in Reloads, NEW s \in Shops, ReloadNew(r, s)
  PROVE  DaemonInv'
<1>1. PICK w \in WorkerIds :
        /\ Idle(w) /\ listed' = [listed EXCEPT ![s] = w] /\ reload' = Waits(r, s, w)
        /\ wk' = [wk EXCEPT ![w] = IF DaemonUp THEN Connect(BuildWorker(s), "start") ELSE BuildWorker(s)]
  BY DEF ReloadNew, NextIdle
<1> DEFINE l == IF DaemonUp THEN Connect(BuildWorker(s), "start") ELSE BuildWorker(s)
<1>2. l \in Worker /\ l.shop = s
  BY BuildType
<1> HIDE DEF l
<1>3. wk' = [wk EXCEPT ![w] = l] /\ listed[s] = 0 /\ listed[s] \notin WorkerIds
  BY <1>1, ProtocolDaemonAssumption DEF ReloadNew, l
<1>4. wk' \in [WorkerIds -> Worker] /\ wk'[w] = l /\ \A v \in WorkerIds \ {w} : wk'[v] = wk[v]
  BY <1>2, <1>3 DEF DaemonInv, WorkersType
<1>7. \A v \in WorkerIds \ {w} : IF v = listed[s] THEN ~wk'[v].live ELSE wk'[v] = wk[v]
  BY <1>3, <1>4
<1>8. reload' \in [Reloads -> Reload]
  BY <1>1, WaitsReload
<1>5. WorkersType' /\ LiveIsListed'
  BY <1>1, <1>2, <1>4, <1>7, <1>8, NewWorker
<1>6. FilesType' /\ StoreType' /\ KeysFirst' /\ ToldOnce'
  BY FilesKept, MessagesKept DEF ReloadNew, KeepMessages
<1> QED
  BY <1>5, <1>6 DEF DaemonInv

LEMMA ReloadChangedKeeps ==
  ASSUME DaemonInv, NEW r \in Reloads, NEW s \in Shops, ReloadChanged(r, s)
  PROVE  DaemonInv'
<1> DEFINE v == listed[s]
           l == Connect(BuildWorker(s), "start")
<1>1. PICK w \in WorkerIds :
        /\ Idle(w) /\ listed' = [listed EXCEPT ![s] = w] /\ reload' = Waits(r, s, w)
        /\ wk' = [wk EXCEPT ![v] = StopWorker(@), ![w] = l]
  BY DEF ReloadChanged, NextIdle, Replaced
<1>2. l \in Worker /\ l.shop = s
  BY BuildType
<1>3. v \in WorkerIds /\ wk[v] \in Worker
  BY DEF ReloadChanged, DaemonInv, WorkersType
<1>4. StopWorker(wk[v]) \in Worker /\ ~StopWorker(wk[v]).live
  BY <1>3, KinStopped DEF Kin
<1>5. v # w
  BY <1>1 DEF Idle
<1> HIDE DEF v, l
<1>6. wk' \in [WorkerIds -> Worker] /\ wk'[w] = l
      /\ \A u \in WorkerIds \ {w} : IF u = v THEN ~wk'[u].live ELSE wk'[u] = wk[u]
  BY <1>1, <1>2, <1>3, <1>4, <1>5 DEF DaemonInv, WorkersType
<1>7. WorkersType' /\ LiveIsListed'
  BY <1>1, <1>2, <1>6, WaitsReload, NewWorker DEF v
<1>8. FilesType' /\ StoreType' /\ KeysFirst' /\ ToldOnce'
  BY FilesKept, MessagesKept DEF ReloadChanged, KeepMessages
<1> QED
  BY <1>7, <1>8 DEF DaemonInv

LEMMA ReloadKeepsKeeps ==
  ASSUME DaemonInv, NEW r \in Reloads, NEW s \in Shops, ReloadKeeps(r, s)
  PROVE  DaemonInv'
<1> DEFINE v == listed[s]
           l == [wk[v] EXCEPT !.hashed = TRUE, !.expired = IF wk[v].hashed THEN @ ELSE FALSE,
                              !.cooling = IF wk[v].hashed THEN @ ELSE FALSE]
<1>1. v \in WorkerIds /\ wk[v] \in Worker
  BY DEF ReloadKeeps, DaemonInv, WorkersType
<1>2. Kin(wk[v], l)
  BY <1>1, ZenonT(40) DEF Kin, Worker
<1>3. wk' = [wk EXCEPT ![v] = l]
  BY <1>1 DEF ReloadKeeps, DaemonInv, WorkersType
<1>4. reload' \in [Reloads -> Reload]
  BY DEF ReloadKeeps, DaemonInv, WorkersType, Reload
<1> HIDE DEF v, l
<1>7. listed' = listed
  BY DEF ReloadKeeps
<1>8. WorkersType'
  BY <1>1, <1>2, <1>3, <1>4, <1>7 DEF DaemonInv, WorkersType, Kin
<1>9. \A w \in WorkerIds : wk'[w].shop = wk[w].shop /\ (wk'[w].live => wk[w].live)
  BY <1>1, <1>2, <1>3 DEF DaemonInv, WorkersType, Kin
<1>5. WorkersType' /\ LiveIsListed'
  BY <1>7, <1>8, <1>9 DEF DaemonInv, LiveIsListed
<1>6. FilesType' /\ StoreType' /\ KeysFirst' /\ ToldOnce'
  BY FilesKept, MessagesKept DEF ReloadKeeps, KeepMessages
<1> QED
  BY <1>5, <1>6 DEF DaemonInv

LEMMA ReloadResumesKeeps ==
  ASSUME DaemonInv, NEW r \in Reloads, ReloadResumes(r)
  PROVE  DaemonInv'
<1> DEFINE w == reload[r].worker
<1>1. reload' \in [Reloads -> Reload]
  BY DEF ReloadResumes, DaemonInv, WorkersType, Reload
<1>2. wk' \in [WorkerIds -> Worker]
      /\ \A v \in WorkerIds : wk'[v].shop = wk[v].shop /\ wk'[v].live = wk[v].live
  <2>1. CASE w \in WorkerIds
    <3> DEFINE l == [wk[w] EXCEPT !.polling = @ \/ wk[w].live]
    <3>1. l \in Worker /\ l.shop = wk[w].shop /\ l.live = wk[w].live
      BY <2>1 DEF DaemonInv, WorkersType, Worker
    <3>2. wk' = [wk EXCEPT ![w] = l]
      BY <2>1 DEF ReloadResumes, DaemonInv, WorkersType
    <3> HIDE DEF l
    <3> QED
      BY <2>1, <3>1, <3>2 DEF DaemonInv, WorkersType
  <2>2. CASE w \notin WorkerIds
    <3>1. wk' = wk
      BY <2>2 DEF ReloadResumes, DaemonInv, WorkersType
    <3> QED
      BY <3>1 DEF DaemonInv, WorkersType
  <2> QED
    BY <2>1, <2>2
<1>3. WorkersType' /\ LiveIsListed'
  BY <1>1, <1>2 DEF ReloadResumes, DaemonInv, WorkersType, LiveIsListed
<1>4. FilesType' /\ StoreType' /\ KeysFirst' /\ ToldOnce'
  BY FilesKept, MessagesKept DEF ReloadResumes, KeepMessages
<1> QED
  BY <1>3, <1>4 DEF DaemonInv

\* The workers of some shops are stopped.
LEMMA StoppedWorkers ==
  ASSUME DaemonInv, NEW S \in SUBSET Shops,
         wk' = [w \in WorkerIds |-> IF \E s \in S : listed[s] = w THEN StopWorker(wk[w]) ELSE wk[w]]
  PROVE  /\ wk' \in [WorkerIds -> Worker]
         /\ \A w \in WorkerIds : wk'[w].live =>
              /\ wk'[w].shop \in Shops \ S /\ listed[wk'[w].shop] = w
<1>1. ASSUME NEW w \in WorkerIds
      PROVE  wk'[w] \in Worker /\ (wk'[w].live => wk'[w].shop \in Shops \ S /\ listed[wk'[w].shop] = w)
  <2>1. wk[w] \in Worker
    BY DEF DaemonInv, WorkersType
  <2>2. CASE \E s \in S : listed[s] = w
    <3>1. wk'[w] = StopWorker(wk[w])
      BY <2>2
    <3> QED
      BY <2>1, <3>1, KinStopped DEF Kin
  <2>3. CASE ~ \E s \in S : listed[s] = w
    <3>1. wk'[w] = wk[w]
      BY <2>3
    <3> QED
      BY <2>1, <2>3, <3>1 DEF DaemonInv, LiveIsListed, Worker
  <2> QED
    BY <2>2, <2>3
<1>2. DOMAIN wk' = WorkerIds /\ wk' = [w \in WorkerIds |-> wk'[w]]
  OBVIOUS
<1> QED
  BY <1>1, <1>2

LEMMA ReloadEndsKeeps ==
  ASSUME DaemonInv, NEW r \in Reloads, ReloadEnds(r)
  PROVE  DaemonInv'
<1>1. reload' \in [Reloads -> Reload] /\ listed' \in [Shops -> {0} \cup WorkerIds]
  BY DEF ReloadEnds, DaemonInv, WorkersType, Reload, NoReload
<1>2. Gone(r) \in SUBSET Shops
  BY DEF Gone
<1>3. /\ wk' \in [WorkerIds -> Worker]
      /\ \A w \in WorkerIds : wk'[w].live =>
           /\ wk'[w].shop \in Shops \ Gone(r) /\ listed[wk'[w].shop] = w
  BY <1>2, StoppedWorkers DEF ReloadEnds
<1>4. WorkersType' /\ LiveIsListed'
  BY <1>1, <1>3 DEF ReloadEnds, WorkersType, LiveIsListed
<1>5. FilesType' /\ StoreType' /\ KeysFirst' /\ ToldOnce'
  BY FilesKept, MessagesKept DEF ReloadEnds, KeepMessages
<1> QED
  BY <1>4, <1>5 DEF DaemonInv

LEMMA StopDaemonKeeps ==
  ASSUME DaemonInv, StopDaemon
  PROVE  DaemonInv'
<1>1. /\ wk' \in [WorkerIds -> Worker]
      /\ \A w \in WorkerIds : wk'[w].live =>
           /\ wk'[w].shop \in Shops \ Shops /\ listed[wk'[w].shop] = w
  BY StoppedWorkers DEF StopDaemon
<1>2. WorkersType' /\ LiveIsListed'
  BY <1>1 DEF StopDaemon, DaemonInv, WorkersType, LiveIsListed
<1>3. FilesType' /\ StoreType' /\ KeysFirst' /\ ToldOnce'
  BY MessagesKept DEF StopDaemon, KeepMessages, DaemonInv, FilesType
<1> QED
  BY <1>2, <1>3 DEF DaemonInv

LEMMA ExitKeeps ==
  ASSUME DaemonInv, Exit
  PROVE  DaemonInv'
<1>1. WorkersType'
  BY OffWorker DEF Exit, WorkersType, Reload, NoReload
<1>2. LiveIsListed'
  BY OffWorker DEF Exit, LiveIsListed
<1>3. FilesType'
  BY DEF Exit, DaemonInv, FilesType
<1>4. StoreType' /\ KeysFirst' /\ ToldOnce'
  BY DEF Exit, DaemonInv, StoreType, KeysFirst, ToldOnce
<1> QED
  BY <1>1, <1>2, <1>3, <1>4 DEF DaemonInv

\* The daemon starts, its file changes, or the agent goes about its cycle.
LEMMA OrdersKeep ==
  ASSUME DaemonInv, StartDaemon \/ WatchFires \/ AgentStep
  PROVE  DaemonInv'
<1>0. file \in SUBSET Shops
  BY DEF DaemonInv, FilesType
<1>1. CASE StartDaemon
  <2>1. WorkersType' /\ LiveIsListed'
    BY <1>0, <1>1, BeginType, OnlyReload DEF StartDaemon, Reloads
  <2>2. FilesType' /\ StoreType' /\ KeysFirst' /\ ToldOnce'
    BY <1>1, MessagesKept DEF StartDaemon, KeepMessages, DaemonInv, FilesType
  <2> QED
    BY <2>1, <2>2 DEF DaemonInv
<1>2. CASE WatchFires
  <2>1. WorkersType' /\ LiveIsListed'
    BY <1>0, <1>2, BeginType, OnlyReload DEF WatchFires, Reloads
  <2>2. FilesType' /\ StoreType' /\ KeysFirst' /\ ToldOnce'
    BY <1>2, MessagesKept DEF WatchFires, KeepMessages, DaemonInv, FilesType
  <2> QED
    BY <2>1, <2>2 DEF DaemonInv
<1>3. CASE AgentOrders
  <2>1. WorkersType' /\ LiveIsListed'
    BY <1>0, <1>3, BeginType, OnlyReload DEF AgentOrders, Reloads, KeepWorkers
  <2>2. FilesType' /\ StoreType' /\ KeysFirst' /\ ToldOnce'
    BY <1>3, MessagesKept DEF AgentOrders, KeepMessages, KeepWorkers, DaemonInv, FilesType
  <2> QED
    BY <2>1, <2>2 DEF DaemonInv
<1>4. CASE AgentEnds
  <2>1. WorkersType' /\ LiveIsListed'
    BY <1>4, WorkersStay DEF AgentEnds, KeepWorkers
  <2>2. FilesType' /\ StoreType' /\ KeysFirst' /\ ToldOnce'
    BY <1>4, MessagesKept DEF AgentEnds, KeepMessages, KeepWorkers, DaemonInv, FilesType
  <2> QED
    BY <2>1, <2>2 DEF DaemonInv
<1>5. ASSUME NEW shops \in SUBSET Shops, AgentUploads(shops) PROVE DaemonInv'
  <2>1. WorkersType' /\ LiveIsListed'
    BY <1>5, BeginType, OnlyReload DEF AgentUploads, Reloads, KeepWorkers
  <2>2. FilesType' /\ StoreType' /\ KeysFirst' /\ ToldOnce'
    BY <1>5, MessagesKept DEF AgentUploads, KeepMessages, KeepWorkers, DaemonInv, FilesType, DaemonUp
  <2> QED
    BY <2>1, <2>2 DEF DaemonInv
<1>6. ASSUME NEW shops \in SUBSET Shops, FileEdited(shops) PROVE DaemonInv'
  <2>1. WorkersType' /\ LiveIsListed'
    BY <1>6, WorkersStay DEF FileEdited, KeepWorkers
  <2>2. FilesType' /\ StoreType' /\ KeysFirst' /\ ToldOnce'
    BY <1>6, MessagesKept DEF FileEdited, KeepMessages, KeepWorkers, DaemonInv, FilesType, DaemonUp
  <2> QED
    BY <2>1, <2>2 DEF DaemonInv
<1> QED
  BY <1>1, <1>2, <1>3, <1>4, <1>5, <1>6 DEF AgentStep

LEMMA DaemonStep == DaemonInv /\ [DaemonNext]_daemonVars => DaemonInv'
<1> SUFFICES ASSUME DaemonInv, [DaemonNext]_daemonVars PROVE DaemonInv'
  OBVIOUS
<1>1. CASE UNCHANGED daemonVars
  BY <1>1, WorkersStay, MessagesKept, FilesKept DEF daemonVars, DaemonInv
<1>2. ASSUME NEW w \in WorkerIds, WorkerStep(w) PROVE DaemonInv'
  BY <1>2, WorkerStepKeeps
<1>3. ASSUME NEW m \in Msgs, MessageStep(m) PROVE DaemonInv'
  BY <1>3, MessageStepKeeps
<1>4. ASSUME NEW r \in Reloads, ReloadStep(r) PROVE DaemonInv'
  BY <1>4, ReloadNewKeeps, ReloadChangedKeeps, ReloadKeepsKeeps, ReloadResumesKeeps, ReloadEndsKeeps
     DEF ReloadStep
<1>5. CASE StopDaemon \/ Exit \/ StartDaemon \/ WatchFires \/ AgentStep
  BY <1>5, StopDaemonKeeps, ExitKeeps, OrdersKeep
<1> QED
  BY <1>1, <1>2, <1>3, <1>4, <1>5 DEF DaemonNext

LEMMA DaemonAlways == DaemonSpec => []DaemonInv
BY DaemonInitially, DaemonStep, PTL DEF DaemonSpec

LEMMA DaemonTyped == DaemonInv => DaemonTypeOK
BY DEF DaemonInv, FilesType, WorkersType, StoreType, Worker, Reload, DaemonTypeOK

\* A worker that was not stopped is the one the daemon's map names for its shop,
\* however reloads, stops and crashes overlap: no shop has two of them.
THEOREM LiveWorkersListed == DaemonSpec => []LiveIsListed
<1>1. DaemonInv => LiveIsListed
  BY DEF DaemonInv
<1> QED
  BY <1>1, DaemonAlways, PTL

-------------------------------------------------------------------------------
(***************************************************************************)
(* The client                                                              *)
(***************************************************************************)
Job   == [by : Requests, on : SocketIds, waiting : BOOLEAN]
Query == [stage : Stages, part : Nat, on : {0} \cup SocketIds, joined : Requests \cup {NoOne}]

SocketsType == /\ ws \in {0} \cup SocketIds /\ open \subseteq SocketIds /\ known \subseteq SocketIds
               /\ wsAuthed \in BOOLEAN /\ authPromise \in Requests \cup {NoOne}
               /\ auths \subseteq Job /\ ackWaiters \subseteq Requests
QueriesType == /\ requests \in [Requests -> Query]
               /\ \A r \in Requests : requests[r].part \in DOMAIN Plan[r]

ClientInv == SocketsType /\ QueriesType /\ OkWasTaken

LEMMA PlanType == \A r \in Requests : /\ Len(Plan[r]) \in Nat \ {0} /\ DOMAIN Plan[r] = 1..Len(Plan[r])
BY ProtocolClientAssumption

LEMMA ClientInitially == ClientInit => ClientInv
<1> SUFFICES ASSUME ClientInit PROVE ClientInv
  OBVIOUS
<1>1. SocketsType /\ OkWasTaken
  BY DEF ClientInit, SocketsType, OkWasTaken
<1>2. QueriesType
  BY PlanType DEF ClientInit, QueriesType, Query, Stages
<1> QED
  BY <1>1, <1>2 DEF ClientInv

\* The stages a request may reach by itself, and that are not "ok".
Open == Stages \ {"ok"}

\* What requests may become: no part is skipped, and "ok" is not reached unseen.
Follows(q) ==
  /\ q \in [Requests -> Query]
  /\ \A r \in Requests : /\ q[r].part \in DOMAIN Plan[r]
                         /\ q[r].stage = "ok" => \/ requests[r].stage = "ok"
                                                 \/ <<r, Len(Plan[r])>> \in accepted

LEMMA FollowsKeeps ==
  ASSUME ClientInv, SocketsType', Follows(requests'), accepted \subseteq accepted'
  PROVE  ClientInv'
BY DEF ClientInv, QueriesType, OkWasTaken, Follows

LEMMA FollowsStage ==
  ASSUME ClientInv, NEW r \in Requests, NEW x \in Open, NEW y \in {0} \cup SocketIds,
         NEW z \in Requests \cup {NoOne}
  PROVE  /\ Follows(requests) /\ Follows([requests EXCEPT ![r].stage = x])
         /\ Follows([requests EXCEPT ![r].stage = x, ![r].joined = z])
         /\ Follows([requests EXCEPT ![r].stage = x, ![r].on = y])
<1>1. Follows(requests) /\ Follows([requests EXCEPT ![r].stage = x])
  BY DEF ClientInv, QueriesType, Query, Follows, Open
<1>2. Follows([requests EXCEPT ![r].stage = x, ![r].joined = z])
  BY DEF ClientInv, QueriesType, Query, Follows, Open
<1>3. Follows([requests EXCEPT ![r].stage = x, ![r].on = y])
  BY DEF ClientInv, QueriesType, Query, Follows, Open
<1> QED
  BY <1>1, <1>2, <1>3

LEMMA FollowsOne ==
  ASSUME ClientInv, NEW r \in Requests, NEW l \in Query, l.part \in DOMAIN Plan[r],
         l.stage = "ok" => <<r, Len(Plan[r])>> \in accepted
  PROVE  Follows([requests EXCEPT ![r] = l])
BY DEF Follows, ClientInv, QueriesType

LEMMA FollowsAfter ==
  ASSUME ClientInv, NEW r \in Requests, NEW good \in BOOLEAN,
         good /\ requests[r].part = Len(Plan[r]) => <<r, Len(Plan[r])>> \in accepted
  PROVE  Follows(After(r, good))
<1>1. requests[r] \in Query /\ requests[r].part \in 1..Len(Plan[r]) /\ Len(Plan[r]) \in Nat
  BY PlanType DEF ClientInv, QueriesType
<1>2. CASE requests[r].part < Len(Plan[r])
  <2> DEFINE n == requests[r].part + 1
  <2>1. n \in DOMAIN Plan[r] /\ n \in Nat
    BY <1>1, <1>2, PlanType
  <2>2. After(r, good) = [requests EXCEPT ![r] = [requests[r] EXCEPT !.stage = "between", !.part = n, !.on = 0]]
    BY <1>1, <1>2 DEF After, ClientInv, QueriesType
  <2> HIDE DEF n
  <2>3. [requests[r] EXCEPT !.stage = "between", !.part = n, !.on = 0] \in Query
    BY <1>1, <2>1 DEF Query, Stages
  <2> DEFINE l == [requests[r] EXCEPT !.stage = "between", !.part = n, !.on = 0]
  <2>4. l.part = n /\ l.stage = "between"
    BY <1>1 DEF Query
  <2> HIDE DEF l
  <2> QED
    BY <2>1, <2>2, <2>3, <2>4, FollowsOne DEF l
<1>3. CASE requests[r].part = Len(Plan[r])
  <2> DEFINE x == IF good THEN "ok" ELSE "failed"
             l == [requests[r] EXCEPT !.stage = x]
  <2>1. After(r, good) = [requests EXCEPT ![r] = l]
    BY <1>1, <1>3 DEF After, ClientInv, QueriesType
  <2>2. x \in Stages /\ (x = "ok" => good)
    BY DEF Stages
  <2>3. l \in Query /\ l.part = requests[r].part /\ l.stage = x
    BY <1>1, <2>2 DEF Query
  <2> HIDE DEF l, x
  <2> QED
    BY <1>1, <1>3, <2>1, <2>2, <2>3, FollowsOne, PlanType
<1> QED
  BY <1>1, <1>2, <1>3

LEMMA FollowsSettle ==
  ASSUME ClientInv, NEW jobs, NEW good \in BOOLEAN
  PROVE  Follows(Settle(jobs, good))
<1> DEFINE q == Settle(jobs, good)
<1>1. ASSUME NEW r \in Requests
      PROVE  q[r] \in Query /\ q[r].part = requests[r].part /\ (q[r].stage = "ok" => requests[r].stage = "ok")
  <2>1. requests[r] \in Query
    BY DEF ClientInv, QueriesType
  <2>2. CASE r \in Awaiting(jobs)
    <3> DEFINE x == IF requests[r].stage = "auth" THEN (IF good THEN "ready" ELSE "failed")
                                     ELSE (IF good THEN "again" ELSE "denied")
    <3>1. q[r] = [requests[r] EXCEPT !.joined = NoOne, !.stage = x]
      BY <2>1, <2>2 DEF Settle, Query
    <3>2. x \in Stages /\ x # "ok"
      BY DEF Stages
    <3> QED
      BY <2>1, <3>1, <3>2 DEF Query
  <2>3. CASE r \notin Awaiting(jobs)
    <3>1. q[r] = requests[r]
      BY <2>3 DEF Settle
    <3> QED
      BY <2>1, <3>1
  <2> QED
    BY <2>2, <2>3
<1>2. q \in [Requests -> Query]
  BY <1>1 DEF Settle
<1> QED
  BY <1>1, <1>2 DEF Follows, ClientInv, QueriesType

-------------------------------------------------------------------------------
LEMMA DeafType == ASSUME auths \subseteq Job PROVE Deaf(auths) \subseteq Job
BY DEF Deaf, Job

\* An authentication is joined or begun, or there is nothing to wait for.
LEMMA AwaitKeeps ==
  ASSUME ClientInv, NEW r \in Requests, NEW x \in SocketIds, NEW s \in {"auth", "reauth"},
         AwaitAuth(r, x, s)
  PROVE  /\ wsAuthed' \in BOOLEAN /\ authPromise' \in Requests \cup {NoOne} /\ auths' \subseteq Job
         /\ Follows(requests')
<1>1. s \in Open
  BY DEF Open, Stages
<1>2. Follows([requests EXCEPT ![r].stage = s, ![r].joined = authPromise])
      /\ Follows([requests EXCEPT ![r].stage = s, ![r].joined = r])
  BY <1>1, FollowsStage DEF ClientInv, SocketsType
<1>3. [by |-> r, on |-> x, waiting |-> TRUE] \in Job
  BY DEF Job
<1> QED
  BY <1>2, <1>3 DEF AwaitAuth, authVars, ClientInv, SocketsType

LEMMA AuthenticateKeeps ==
  ASSUME ClientInv, NEW r \in Requests, NEW x \in SocketIds, Authenticate(r, x)
  PROVE  /\ wsAuthed' \in BOOLEAN /\ authPromise' \in Requests \cup {NoOne} /\ auths' \subseteq Job
         /\ Follows(requests')
<1>1. CASE wsAuthed /\ requests' = Stage(r, "ready") /\ UNCHANGED authVars
  <2>1. "ready" \in Open
    BY DEF Open, Stages
  <2> QED
    BY <1>1, <2>1, FollowsStage DEF Stage, authVars, ClientInv, SocketsType
<1>2. CASE AwaitAuth(r, x, "auth")
  BY <1>2, AwaitKeeps
<1> QED
  BY <1>1, <1>2 DEF Authenticate

LEMMA OpensKeeps ==
  ASSUME ClientInv, NEW r \in Requests, OpensWs(r)
  PROVE  SocketsType' /\ Follows(requests')
<1>1. CASE WsOpen /\ Authenticate(r, ws) /\ UNCHANGED <<socketVars, ackWaiters>>
  <2>1. ws \in SocketIds
    BY <1>1 DEF WsOpen, ClientInv, SocketsType
  <2> QED
    BY <1>1, <2>1, AuthenticateKeeps DEF socketVars, ClientInv, SocketsType
<1>2. CASE /\ ~WsOpen /\ ackWaiters' = {} /\ auths' = Deaf(auths) /\ wsAuthed' = FALSE
           /\ requests' = Stage(r, "connect") /\ UNCHANGED <<socketVars, authPromise>>
  <2>1. "connect" \in Open
    BY DEF Open, Stages
  <2>2. Follows(requests')
    BY <1>2, <2>1, FollowsStage DEF Stage
  <2>3. SocketsType'
    BY <1>2, DeafType DEF socketVars, ClientInv, SocketsType
  <2> QED
    BY <2>2, <2>3
<1> QED
  BY <1>1, <1>2 DEF OpensWs

LEMMA EndsKeeps ==
  ASSUME ClientInv, NEW r \in Requests, NEW good \in BOOLEAN, PartEnds(r, good),
         ackWaiters' \subseteq ackWaiters,
         good => <<r, requests[r].part>> \in accepted
  PROVE  SocketsType' /\ Follows(requests')
<1>1. Follows(requests')
  BY FollowsAfter DEF PartEnds
<1>2. SocketsType'
  <2>1. CASE IsImage(r)
    BY <2>1, DeafType DEF PartEnds, CloseWs, ClientInv, SocketsType
  <2>2. CASE ~IsImage(r)
    BY <2>2 DEF PartEnds, socketVars, authVars, ClientInv, SocketsType
  <2> QED
    BY <2>1, <2>2
<1> QED
  BY <1>1, <1>2

LEMMA WritesKeeps ==
  ASSUME ClientInv, NEW r \in Requests, Writes(r)
  PROVE  SocketsType' /\ Follows(requests')
<1>1. "sent" \in Open
  BY DEF Open, Stages
<1>2. Follows(requests')
  BY <1>1, FollowsStage DEF Writes, ClientInv, SocketsType
<1>3. SocketsType'
  BY DEF Writes, socketVars, authVars, ClientInv, SocketsType
<1> QED
  BY <1>2, <1>3

\* A request reaches a stage, and nothing happens to a socket.
LEMMA StageKeeps ==
  ASSUME ClientInv, NEW r \in Requests, NEW x \in Open, requests' = Stage(r, x),
         UNCHANGED <<socketVars, authVars, ackWaiters, accepted>>
  PROVE  ClientInv'
<1>1. Follows(requests')
  BY FollowsStage DEF Stage
<1>2. SocketsType'
  BY DEF socketVars, authVars, ClientInv, SocketsType
<1> QED
  BY <1>1, <1>2, FollowsKeeps

LEMMA RequestStepKeeps ==
  ASSUME ClientInv, NEW r \in Requests, RequestStep(r)
  PROVE  ClientInv'
<1>0. {"new", "upload", "failed"} \subseteq Open
  BY DEF Open, Stages
<1>1. CASE RequestBegins(r)
  <2>1. CASE OpensWs(r)
    BY <1>1, <2>1, OpensKeeps, FollowsKeeps DEF RequestBegins
  <2>2. CASE requests' = Stage(r, "upload") /\ UNCHANGED <<socketVars, authVars, ackWaiters>>
    BY <1>0, <1>1, <2>2, StageKeeps DEF RequestBegins
  <2> QED
    BY <1>1, <2>1, <2>2 DEF RequestBegins
<1>2. CASE ImageUploaded(r)
  BY <1>2, OpensKeeps, FollowsKeeps DEF ImageUploaded
<1>3. CASE ImageUploadFails(r) \/ ConnectFails(r) \/ NoSample(r)
  BY <1>0, <1>3, StageKeeps DEF ImageUploadFails, ConnectFails, NoSample
<1>4. CASE SocketOpens(r)
  <2>1. PICK x \in SocketIds : ws' = x /\ open' = open \cup {x} /\ Authenticate(r, x)
    BY <1>4 DEF SocketOpens
  <2>2. SocketsType' /\ Follows(requests')
    BY <1>4, <2>1, AuthenticateKeeps DEF SocketOpens, ClientInv, SocketsType
  <2> QED
    BY <1>4, <2>2, FollowsKeeps DEF SocketOpens
<1>5. CASE Send(r)
  <2>1. CASE PartEnds(r, FALSE) /\ UNCHANGED ackWaiters
    BY <1>5, <2>1, EndsKeeps, FollowsKeeps DEF Send
  <2>2. CASE Writes(r)
    BY <1>5, <2>2, WritesKeeps, FollowsKeeps DEF Send
  <2>3. CASE WsOpen /\ AwaitAuth(r, ws, "reauth") /\ UNCHANGED <<socketVars, ackWaiters>>
    <3>1. ws \in SocketIds
      BY <2>3 DEF WsOpen, ClientInv, SocketsType
    <3>2. SocketsType' /\ Follows(requests')
      BY <2>3, <3>1, AwaitKeeps DEF socketVars, ClientInv, SocketsType
    <3> QED
      BY <1>5, <3>2, FollowsKeeps DEF Send
  <2> QED
    BY <1>5, <2>1, <2>2, <2>3 DEF Send
<1>6. CASE SendsAgain(r)
  <2>1. CASE PartEnds(r, FALSE) /\ UNCHANGED ackWaiters
    BY <1>6, <2>1, EndsKeeps, FollowsKeeps DEF SendsAgain
  <2>2. CASE Writes(r)
    BY <1>6, <2>2, WritesKeeps, FollowsKeeps DEF SendsAgain
  <2> QED
    BY <1>6, <2>1, <2>2 DEF SendsAgain
<1>7. CASE AckArrives(r)
  <2>1. PartEnds(r, TRUE) /\ ackWaiters' = ackWaiters \ {r} /\ Sending(r) \in accepted
    BY <1>7 DEF AckArrives, Matched
  <2>2. <<r, requests[r].part>> \in accepted
    BY <2>1 DEF Sending
  <2>3. SocketsType' /\ Follows(requests')
    BY <2>1, <2>2, EndsKeeps
  <2> QED
    BY <1>7, <2>3, FollowsKeeps DEF AckArrives
<1>8. CASE SendRefused(r)
  <2>1. SocketsType' /\ Follows(requests')
    BY <1>8, EndsKeeps DEF SendRefused
  <2> QED
    BY <1>8, <2>1, FollowsKeeps DEF SendRefused
<1>9. CASE AckTimesOut(r)
  <2>1. SocketsType' /\ Follows(requests')
    BY <1>9, EndsKeeps DEF AckTimesOut
  <2> QED
    BY <1>9, <2>1, FollowsKeeps DEF AckTimesOut
<1> QED
  BY <1>1, <1>2, <1>3, <1>4, <1>5, <1>6, <1>7, <1>8, <1>9 DEF RequestStep

LEMMA ClientStep == ClientInv /\ [ClientNext]_clientVars => ClientInv'
<1> SUFFICES ASSUME ClientInv, [ClientNext]_clientVars PROVE ClientInv'
  OBVIOUS
<1>0. SocketsType
  BY DEF ClientInv
<1>1. CASE UNCHANGED clientVars
  BY <1>1 DEF clientVars, ClientInv, SocketsType, QueriesType, OkWasTaken
<1>2. ASSUME NEW r \in Requests, RequestArrives(r) PROVE ClientInv'
  <2>1. "new" \in Open
    BY DEF Open, Stages
  <2> QED
    BY <1>2, <2>1, StageKeeps DEF RequestArrives
<1>3. ASSUME NEW r \in Requests, RequestStep(r) PROVE ClientInv'
  BY <1>3, RequestStepKeeps
<1>4. ASSUME NEW r \in Requests, Takes(r) PROVE ClientInv'
  <2>1. SocketsType'
    BY <1>0, <1>4 DEF Takes, socketVars, authVars, SocketsType
  <2>2. Follows(requests')
    BY <1>4, FollowsStage DEF Takes, Open, Stages
  <2> QED
    BY <1>4, <2>1, <2>2, FollowsKeeps DEF Takes
<1>5. ASSUME NEW x \in SocketIds, AuthAcked(x) PROVE ClientInv'
  <2>1. SocketsType'
    BY <1>0, <1>5 DEF AuthAcked, SocketsType
  <2>2. Follows(requests')
    BY <1>5, FollowsSettle DEF AuthAcked
  <2> QED
    BY <1>5, <2>1, <2>2, FollowsKeeps DEF AuthAcked
<1>6. ASSUME NEW x \in SocketIds, AuthRefused(x) PROVE ClientInv'
  <2>1. SocketsType'
    BY <1>0, <1>6 DEF AuthRefused, SocketsType, socketVars
  <2>2. Follows(requests')
    BY <1>6, FollowsSettle DEF AuthRefused
  <2> QED
    BY <1>6, <2>1, <2>2, FollowsKeeps DEF AuthRefused
<1>7. ASSUME NEW x \in SocketIds, SocketLost(x) PROVE ClientInv'
  BY <1>0, <1>7 DEF SocketLost, authVars, ClientInv, SocketsType, QueriesType, OkWasTaken
<1>8. ASSUME NEW j \in auths, AuthTimesOut(j) PROVE ClientInv'
  <2>1. SocketsType'
    BY <1>0, <1>8 DEF AuthTimesOut, SocketsType, socketVars
  <2>2. Follows(requests')
    BY <1>8, FollowsSettle DEF AuthTimesOut
  <2> QED
    BY <1>8, <2>1, <2>2, FollowsKeeps DEF AuthTimesOut
<1> QED
  BY <1>1, <1>2, <1>3, <1>4, <1>5, <1>6, <1>7, <1>8 DEF ClientNext

LEMMA ClientTyped == ClientInv => ClientTypeOK
BY DEF ClientInv, SocketsType, QueriesType, Query, Job, ClientTypeOK

\* A request is answered as sent only when the platform has taken its last message,
\* for any requests, however their sockets are replaced under them.
THEOREM OkMeansTaken == ClientSpec => []OkWasTaken
<1>1. ClientInv => OkWasTaken
  BY DEF ClientInv
<1> QED
  BY <1>1, ClientInitially, ClientStep, PTL DEF ClientSpec
===============================================================================
