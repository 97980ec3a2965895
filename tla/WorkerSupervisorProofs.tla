------------------------ MODULE WorkerSupervisorProofs ------------------------
(***************************************************************************)
(* Until the user stops the relay, or asks for something while a boot is    *)
(* forking, no worker has two processes at work and none is forgotten: for *)
(* any workers, boot orders, fuse, number of faults and of commands.       *)
(***************************************************************************)
EXTENDS WorkerSupervisor, SequenceTheorems, TLAPS

Runner == {"registered", "starting", "stopped"}

Known ==
  [proc : Seq(ProcState), child : Nat, wired : SUBSET Nat, armed : Nat,
   loose : SUBSET Nat, runner : Runner,
   stopReq : BOOLEAN, state : Status, entry : {"none", "fresh", "pending"},
   recent : Nat, timer : Reason \cup {"none"}]

\* What is known of a worker names processes that were forked.
Sane(r) ==
  /\ r.child \in 0..Len(r.proc)
  /\ r.wired \subseteq 1..Len(r.proc)
  /\ r.armed \in 0..Len(r.proc)
  /\ r.loose \subseteq 1..Len(r.proc)

Asked == Command \cup {"crossed"}

LoopsTyped ==
  /\ boot \in [at : {"off", "start", "forking", "wait"}, i : Nat, on : {0}]
  /\ wechat \in [at : {"off", "start", "forking"}, i : Nat, late : BOOLEAN]
  /\ stop \in [at : {"off", "next", "stopping"}, i : Nat, on : Nat]
  /\ stop.at # "off" => stop.i >= 1
  /\ stop.at = "stopping" => stop.i <= Len(StopOrder)
  /\ boot.at # "off" => boot.i >= 1
  /\ wechat.at # "off" => wechat.i >= 1
  /\ wechatDone \in BOOLEAN /\ wechatBusy \in BOOLEAN /\ watching \in BOOLEAN
  /\ sup \in {"idle", "starting", "running", "degraded", "stopping", "stopped"}
  /\ faults \in Nat
  /\ commands \in Seq(Asked)

TypeInv ==
  /\ wk \in [Worker -> Known] /\ \A w \in Worker : Sane(wk[w])
  /\ restart \in [Worker -> [at : {"off", "stopping", "forking"}, i : {0}, on : Nat]]
  /\ \A w \in Worker : restart[w].on \in 0..Len(wk[w].proc)
  /\ LoopsTyped

\* What is at work is the child, the runner listens to no other, and a restart
\* waits for the child or has none.
Own(r, at, on) ==
  /\ \A p \in 1..Len(r.proc) : r.proc[p] \in {"up", "hung"} => p = r.child
  /\ r.wired \subseteq {r.child}
  /\ at # "forking" => on \in {0, r.child}
  /\ at = "off" => on = 0
  /\ at = "stopping" => on = r.child
  /\ at = "forking" => r.child = 0 /\ on = 0

\* The boot loops have not come to it.
NotYetQianfan(w) ==
  \E i \in DOMAIN QianfanOrder :
    /\ QianfanOrder[i] = w
    /\ sup = "idle" \/ (boot.at \in {"start", "forking"} /\ boot.i <= i)
NotYetWechat(w) ==
  /\ ~wechatDone
  /\ \E i \in DOMAIN WechatOrder :
       WechatOrder[i] = w /\ (wechat.at = "off" \/ wechat.i <= i)
NotYet(w) == NotYetQianfan(w) \/ NotYetWechat(w)

Untouched(r, at) ==
  /\ r.proc = <<>> /\ r.child = 0 /\ r.wired = {}
  /\ r.timer = "none" /\ r.entry = "none" /\ at = "off"

\* A worker that is not beating is still looked after.
Kept(r, at) ==
  BlownFuse(r) \/ r.state = "failed" \/ at # "off" \/ r.timer # "none" \/ r.entry = "fresh"

\* The two loops run once each, the second within the first or beside it.
Phases ==
  /\ stop = Off
  /\ sup \in {"idle", "starting", "running", "degraded"}
  /\ sup = "idle" => (boot.at = "off" /\ ~wechatDone /\ ~wechatBusy)
  /\ sup # "idle" => watching
  /\ sup # "idle" /\ boot.at = "off" => wechatDone
  /\ boot.at = "wait" => wechatDone \/ wechatBusy
  /\ wechatBusy <=> wechat.at # "off"
  /\ ~(wechatBusy /\ wechatDone)

Tidy ==
  /\ Phases
  /\ \A w \in Worker : Own(wk[w], restart[w].at, restart[w].on)
  /\ \A w \in Worker : IF NotYet(w) THEN Untouched(wk[w], restart[w].at)
                                    ELSE Kept(wk[w], restart[w].at)

SupervisorInv == TypeInv /\ (Undisturbed => Tidy)

-------------------------------------------------------------------------------
(***************************************************************************)
(* What the functions of WorkerRunner make of a worker.                    *)
(***************************************************************************)
LEMMA DetachedSane ==
  ASSUME NEW r \in Known, Sane(r)
  PROVE  Detached(r) \in Known /\ Sane(Detached(r))
<1>1. Detached(r) \in Known
  BY DEF Known, Detached
<1>2. Sane(Detached(r))
  BY DEF Sane, Known, Detached
<1> QED
  BY <1>1, <1>2

LEMMA OneMore ==
  ASSUME NEW s \in Seq(ProcState)
  PROVE  /\ Append(s, "up") \in Seq(ProcState)
         /\ Len(Append(s, "up")) = Len(s) + 1
         /\ \A i \in 1..Len(s) : Append(s, "up")[i] = s[i]
         /\ Append(s, "up")[Len(s) + 1] = "up"
BY DEF ProcState

LEMMA ForkedSane ==
  ASSUME NEW r \in Known, Sane(r)
  PROVE  /\ Forked(r) \in Known /\ Sane(Forked(r))
         /\ Forked(r).proc = Append(r.proc, "up") /\ Forked(r).child = Len(r.proc) + 1
         /\ Forked(r).wired = r.wired \cup {Len(r.proc) + 1}
         /\ Forked(r).entry = "fresh"
<1> DEFINE procs == Append(r.proc, "up")
           heard == r.wired \cup {Len(r.proc) + 1}
<1>1. procs \in Seq(ProcState) /\ Len(procs) = Len(r.proc) + 1
  BY OneMore DEF Known
<1>2. heard \in SUBSET Nat /\ Len(r.proc) + 1 \in Nat
  BY DEF Known
<1> HIDE DEF procs, heard
<1>3. Forked(r) = [r EXCEPT !.proc = procs, !.child = Len(r.proc) + 1, !.wired = heard,
                            !.runner = "starting", !.stopReq = FALSE, !.state = "on",
                            !.entry = "fresh"]
  BY DEF Forked, procs, heard
<1>4. Forked(r) \in Known
  BY <1>1, <1>2, <1>3, ZenonT(40) DEF Known, Runner, Status
<1>5. /\ Forked(r).proc = procs /\ Forked(r).child = Len(r.proc) + 1
      /\ Forked(r).wired = heard /\ Forked(r).entry = "fresh"
      /\ Forked(r).armed = r.armed /\ Forked(r).loose = r.loose
  BY <1>3 DEF Known
<1>6. Sane(Forked(r))
  BY <1>1, <1>2, <1>5 DEF Sane, Known, heard
<1> QED
  BY <1>4, <1>5, <1>6 DEF procs, heard

LEMMA ScheduledSane ==
  ASSUME NEW r \in Known, Sane(r), NEW reason \in Reason, NEW restarting \in BOOLEAN
  PROVE  /\ Scheduled(r, reason, restarting) \in Known /\ Sane(Scheduled(r, reason, restarting))
         /\ Scheduled(r, reason, restarting).proc = r.proc
         /\ Scheduled(r, reason, restarting).child = r.child
         /\ Scheduled(r, reason, restarting).wired = r.wired
         /\ Scheduled(r, reason, restarting).state = r.state
         /\ Scheduled(r, reason, restarting).recent = r.recent
         /\ Scheduled(r, reason, restarting).entry = r.entry
         /\ ~restarting => Scheduled(r, reason, restarting).timer # "none"
         /\ r.timer # "none" => Scheduled(r, reason, restarting).timer # "none"
BY DEF Sane, Known, Scheduled, Reason

LEMMA StopCalledSane ==
  ASSUME NEW r \in Known, Sane(r)
  PROVE  /\ StopCalled(r) \in Known /\ Sane(StopCalled(r))
         /\ StopWaitsFor(r) \in 0..Len(StopCalled(r).proc)
         /\ Len(StopCalled(r).proc) = Len(r.proc)
<1>1. CASE NothingToStop(r)
  <2>1. StopCalled(r) \in Known
    BY <1>1, DetachedSane DEF StopCalled, Known, Runner, Status
  <2>2. /\ StopCalled(r).proc = r.proc /\ StopCalled(r).child = 0
        /\ StopCalled(r).wired \subseteq r.wired
        /\ StopCalled(r).armed = 0 /\ StopCalled(r).loose = r.loose
    BY <1>1 DEF StopCalled, Known, Detached
  <2> QED
    BY <1>1, <2>1, <2>2 DEF Sane, StopWaitsFor, Known
<1>2. CASE ~NothingToStop(r)
  <2>1. r.child \in 1..Len(r.proc)
    BY <1>2 DEF NothingToStop, Sane, Known
  <2> DEFINE told == [r.proc EXCEPT ![r.child] = IF @ = "up" THEN "told" ELSE @]
             pushed == r.loose \cup ({r.armed} \ {0})
  <2>2. told \in Seq(ProcState) /\ Len(told) = Len(r.proc)
    BY <2>1 DEF Known, ProcState
  <2>3. pushed \in SUBSET Nat /\ pushed \subseteq 1..Len(r.proc)
    BY DEF Known, Sane
  <2> HIDE DEF told, pushed
  <2>4. StopCalled(r) = [r EXCEPT !.stopReq = TRUE, !.runner = "stopped",
                                  !.state = "stopping", !.proc = told,
                                  !.armed = r.child, !.loose = pushed]
    BY <1>2 DEF StopCalled, told, pushed
  <2>5. StopCalled(r) \in Known
    BY <2>2, <2>3, <2>4 DEF Known, Runner, Status
  <2>6. /\ StopCalled(r).proc = told /\ StopCalled(r).child = r.child
        /\ StopCalled(r).wired = r.wired /\ StopCalled(r).armed = r.child
        /\ StopCalled(r).loose = pushed
    BY <2>4 DEF Known
  <2> QED
    BY <1>2, <2>1, <2>2, <2>3, <2>5, <2>6 DEF Sane, StopWaitsFor, Known
<1> QED
  BY <1>1, <1>2

LEMMA StopReturnedSane ==
  ASSUME NEW r \in Known, Sane(r)
  PROVE  /\ StopReturned(r) \in Known /\ Sane(StopReturned(r))
         /\ StopReturned(r).proc = r.proc /\ StopReturned(r).child = r.child
         /\ StopReturned(r).wired = r.wired
BY DEF StopReturned, Sane, Known, Status

\* What a worker is like after an attempt to start it.
StartedLike(r, o) ==
  \/ o.r = Forked(r) /\ o.waits = FALSE
  \/ BlownFuse(r) /\ o.r = [r EXCEPT !.state = "failed"] /\ o.waits = FALSE
  \/ /\ AlreadyRunning(r) /\ o.waits = FALSE
     /\ o.r = [r EXCEPT !.state = "on", !.entry = "fresh"]
  \/ /\ o.waits = TRUE
     /\ o.r = [r EXCEPT !.runner = "starting", !.stopReq = FALSE, !.state = "on"]

LEMMA FaultCounted ==
  ASSUME NEW o, faults \in Nat, CountsFault(o)
  PROVE  faults' \in Nat
BY DEF CountsFault

LEMMA StartOutcomesSane ==
  ASSUME NEW r \in Known, Sane(r), NEW o \in StartOutcomes(r)
  PROVE  /\ StartedLike(r, o)
         /\ o.r \in Known /\ Sane(o.r) /\ Len(o.r.proc) >= Len(r.proc)
<1>0. StartedLike(r, o)
  BY DEF StartedLike, StartOutcomes
<1>1. CASE o.r = Forked(r) /\ o.waits = FALSE
  <2>1. Len(r.proc) \in Nat /\ Len(o.r.proc) = Len(r.proc) + 1
    BY <1>1, ForkedSane, OneMore DEF Known
  <2>2. o.r \in Known /\ Sane(o.r)
    BY <1>1, ForkedSane
  <2> QED
    BY <1>0, <2>1, <2>2
<1>2. CASE o.r = [r EXCEPT !.state = "failed"] /\ o.waits = FALSE
  <2>1. o.r \in Known
    BY <1>2 DEF Known, Status
  <2>2. /\ o.r.proc = r.proc /\ o.r.child = r.child /\ o.r.wired = r.wired
        /\ o.r.armed = r.armed /\ o.r.loose = r.loose
    BY <1>2 DEF Known
  <2>3. Sane(o.r) /\ Len(o.r.proc) >= Len(r.proc)
    BY <2>2 DEF Sane, Known
  <2> QED
    BY <1>0, <2>1, <2>3
<1>3. CASE o.r = [r EXCEPT !.state = "on", !.entry = "fresh"] /\ o.waits = FALSE
  <2>1. o.r \in Known
    BY <1>3 DEF Known, Status
  <2>2. /\ o.r.proc = r.proc /\ o.r.child = r.child /\ o.r.wired = r.wired
        /\ o.r.armed = r.armed /\ o.r.loose = r.loose
    BY <1>3 DEF Known
  <2>3. Sane(o.r) /\ Len(o.r.proc) >= Len(r.proc)
    BY <2>2 DEF Sane, Known
  <2> QED
    BY <1>0, <2>1, <2>3
<1>4. CASE /\ o.r = [r EXCEPT !.runner = "starting", !.stopReq = FALSE, !.state = "on"]
           /\ o.waits = TRUE
  <2>1. o.r \in Known
    BY <1>4 DEF Known, Status, Runner
  <2>2. /\ o.r.proc = r.proc /\ o.r.child = r.child /\ o.r.wired = r.wired
        /\ o.r.armed = r.armed /\ o.r.loose = r.loose
    BY <1>4 DEF Known
  <2>3. Sane(o.r) /\ Len(o.r.proc) >= Len(r.proc)
    BY <2>2 DEF Sane, Known
  <2> QED
    BY <1>0, <2>1, <2>3
<1> QED
  BY <1>0, <1>1, <1>2, <1>3, <1>4 DEF StartedLike

LEMMA ForkOutcomesSane ==
  ASSUME NEW r \in Known, Sane(r), NEW restarting \in BOOLEAN, NEW s \in ForkOutcomes(r, restarting)
  PROVE  /\ s \in Known /\ Sane(s) /\ Len(s.proc) >= Len(r.proc)
         /\ \/ s = Forked(r)
            \/ /\ s.proc = r.proc /\ s.child = 0 /\ s.wired \subseteq r.wired
               /\ s.state = "failed"
<1> DEFINE given == [Detached(r) EXCEPT !.runner = "stopped", !.state = "failed",
                                        !.recent = @ + 1]
<1>1. /\ given.proc = r.proc /\ given.child = 0 /\ given.wired \subseteq r.wired
      /\ given.state = "failed" /\ given.armed = r.armed /\ given.loose = r.loose
  BY DEF Known, Detached
<1>2. given \in Known
  <2>1. ASSUME NEW d \in Known
        PROVE  [d EXCEPT !.runner = "stopped", !.state = "failed", !.recent = @ + 1] \in Known
    <3>1. d.recent + 1 \in Nat
      BY DEF Known
    <3> QED
      BY <3>1 DEF Known, Runner, Status
  <2> QED
    BY <2>1, DetachedSane
<1>3. Sane(given)
  BY <1>1 DEF Sane, Known
<1> HIDE DEF given
<1> DEFINE later == Scheduled(given, "start_failed", restarting)
<1>4. /\ later \in Known /\ Sane(later)
      /\ later.proc = given.proc /\ later.child = given.child /\ later.wired = given.wired
      /\ later.state = given.state
  BY <1>2, <1>3, ScheduledSane DEF Reason
<1> HIDE DEF later
<1>5. s = Forked(r) \/ s = later
  BY DEF ForkOutcomes, later, given
<1>6. Forked(r) \in Known /\ Sane(Forked(r)) /\ Len(Forked(r).proc) >= Len(r.proc)
  BY ForkedSane, OneMore DEF Known
<1> QED
  BY <1>1, <1>4, <1>5, <1>6 DEF Known

-------------------------------------------------------------------------------
(***************************************************************************)
(* Types                                                                   *)
(***************************************************************************)
LEMMA OrdersTyped ==
  /\ \A i \in 1..Len(QianfanOrder) : QianfanOrder[i] \in Worker
  /\ \A i \in 1..Len(WechatOrder) : WechatOrder[i] \in Worker
  /\ Len(QianfanOrder) \in Nat \ {0} /\ Len(WechatOrder) \in Nat
  /\ DOMAIN QianfanOrder = 1..Len(QianfanOrder)
  /\ DOMAIN WechatOrder = 1..Len(WechatOrder)
BY SupervisorAssumption, OrdersAssumption

LEMMA StopOrderTyped ==
  /\ Len(StopOrder) \in Nat
  /\ \A i \in 1..Len(StopOrder) : StopOrder[i] \in Worker
<1> DEFINE all == QianfanOrder \o WechatOrder
<1>1. all \in Seq(Worker) /\ Len(all) \in Nat
  BY SupervisorAssumption
<1>2. StopOrder = [i \in 1..Len(all) |-> all[Len(all) + 1 - i]]
  BY DEF StopOrder
<1> HIDE DEF all
<1>3. \A i \in 1..Len(all) : all[Len(all) + 1 - i] \in Worker
  BY <1>1
<1>4. StopOrder \in Seq(Worker) /\ Len(StopOrder) = Len(all)
  BY <1>1, <1>2, <1>3
<1> QED
  BY <1>1, <1>2, <1>3, <1>4

\* A step that gives one worker another record.
LEMMA OneWorker ==
  ASSUME TypeInv, NEW w \in Worker, NEW r \in Known, Sane(r),
         Len(r.proc) >= Len(wk[w].proc), wk' = [wk EXCEPT ![w] = r]
  PROVE  /\ wk' \in [Worker -> Known]
         /\ wk'[w] = r /\ \A v \in Worker \ {w} : wk'[v] = wk[v]
         /\ \A v \in Worker : Sane(wk'[v]) /\ Len(wk'[v].proc) >= Len(wk[v].proc)
<1>1. /\ wk' \in [Worker -> Known]
      /\ wk'[w] = r /\ \A v \in Worker \ {w} : wk'[v] = wk[v]
  BY DEF TypeInv
<1>2. \A v \in Worker : Len(wk[v].proc) \in Nat
  BY DEF TypeInv, Known
<1> QED
  BY <1>1, <1>2 DEF TypeInv

\* The records a step may leave.
RecordsKept ==
  /\ wk' \in [Worker -> Known]
  /\ \A v \in Worker : Sane(wk'[v]) /\ Len(wk'[v].proc) >= Len(wk[v].proc)

LEMMA LengthsTyped ==
  ASSUME TypeInv, RecordsKept
  PROVE  \A v \in Worker : /\ Len(wk[v].proc) \in Nat /\ Len(wk'[v].proc) \in Nat
                            /\ Len(wk'[v].proc) >= Len(wk[v].proc)
BY DEF TypeInv, RecordsKept, Known

LEMMA RestartsTyped ==
  ASSUME TypeInv, RecordsKept,
         NEW w \in Worker, NEW at \in {"off", "stopping", "forking"},
         NEW on \in 0..Len(wk'[w].proc),
         restart' = [restart EXCEPT ![w] = [at |-> at, i |-> 0, on |-> on]]
  PROVE  /\ restart' \in [Worker -> [at : {"off", "stopping", "forking"}, i : {0}, on : Nat]]
         /\ \A v \in Worker : restart'[v].on \in 0..Len(wk'[v].proc)
         /\ restart'[w].at = at /\ restart'[w].on = on
         /\ \A v \in Worker \ {w} : restart'[v] = restart[v]
<1>1. \A v \in Worker : /\ Len(wk[v].proc) \in Nat /\ Len(wk'[v].proc) \in Nat
                        /\ Len(wk'[v].proc) >= Len(wk[v].proc)
  BY LengthsTyped
<1>2. [at |-> at, i |-> 0, on |-> on] \in [at : {"off", "stopping", "forking"}, i : {0}, on : Nat]
  BY <1>1
<1>3. /\ restart' \in [Worker -> [at : {"off", "stopping", "forking"}, i : {0}, on : Nat]]
      /\ restart'[w] = [at |-> at, i |-> 0, on |-> on]
      /\ \A v \in Worker \ {w} : restart'[v] = restart[v]
  BY <1>2 DEF TypeInv
<1>4. \A v \in Worker : restart'[v].on \in 0..Len(wk'[v].proc)
  <2>1. \A v \in Worker : restart[v].on \in 0..Len(wk[v].proc)
    BY DEF TypeInv
  <2>2. ASSUME NEW v \in Worker \ {w}
        PROVE  restart'[v].on \in 0..Len(wk'[v].proc)
    BY <1>1, <1>3, <2>1
  <2>3. restart'[w].on \in 0..Len(wk'[w].proc)
    BY <1>3
  <2> QED
    BY <2>2, <2>3
<1> QED
  BY <1>3, <1>4

LEMMA RestartsStay ==
  ASSUME TypeInv, RecordsKept, UNCHANGED restart
  PROVE  /\ restart' \in [Worker -> [at : {"off", "stopping", "forking"}, i : {0}, on : Nat]]
         /\ \A v \in Worker : restart'[v].on \in 0..Len(wk'[v].proc)
<1>1. \A v \in Worker : /\ Len(wk[v].proc) \in Nat /\ Len(wk'[v].proc) \in Nat
                        /\ Len(wk'[v].proc) >= Len(wk[v].proc)
  BY LengthsTyped
<1> QED
  BY <1>1 DEF TypeInv, RecordsKept

\* What Exit makes of a worker.
ExitLike(w, p) ==
  LET r == wk[w]
      s == wk'[w]
  IN /\ wk' = [wk EXCEPT ![w] = s]
     /\ s \in Known /\ Sane(s)
     /\ s.proc = [r.proc EXCEPT ![p] = "dead"] /\ Len(s.proc) = Len(r.proc)
     /\ \/ ~Waiting(w, p) /\ s.child = r.child /\ s.wired \subseteq r.wired
        \/ /\ s.child = 0 /\ s.wired \subseteq r.wired \ {r.child}
           /\ p \in r.wired \/ Waiting(w, p)
     /\ s.state = r.state /\ s.entry = r.entry /\ s.recent = r.recent
     /\ r.timer # "none" => s.timer # "none"

LEMMA ExitShape ==
  ASSUME TypeInv, NEW w \in Worker, NEW p \in 1..Len(wk[w].proc), NEW code \in {0, 1},
         Exit(w, p, code)
  PROVE  ExitLike(w, p)
<1> DEFINE r == [wk[w] EXCEPT !.proc[p] = "dead", !.loose = @ \ {p}]
           crashed == ~r.stopReq /\ code # 0
           left == [Detached(r) EXCEPT !.wired = @ \ {p},
                                       !.runner = "stopped"]
           heard == Scheduled(left, "crashed", restart[w].at # "off" \/ ~crashed)
           seen == IF p \notin r.wired THEN r ELSE heard
           s == IF Waiting(w, p) THEN [Detached(seen) EXCEPT !.runner = "stopped", !.armed = 0]
                                 ELSE seen
<1>1. wk[w] \in Known /\ Sane(wk[w])
  BY DEF TypeInv
<1>2. /\ r \in Known /\ Sane(r) /\ Len(r.proc) = Len(wk[w].proc)
      /\ r.proc = [wk[w].proc EXCEPT ![p] = "dead"] /\ r.child = wk[w].child
      /\ r.wired = wk[w].wired /\ r.state = wk[w].state /\ r.entry = wk[w].entry
      /\ r.recent = wk[w].recent /\ r.timer = wk[w].timer
  <2> DEFINE procs == [wk[w].proc EXCEPT ![p] = "dead"]
             rest == wk[w].loose \ {p}
  <2>1. /\ procs \in Seq(ProcState) /\ Len(procs) = Len(wk[w].proc)
        /\ rest \in SUBSET Nat /\ rest \subseteq 1..Len(wk[w].proc)
    BY <1>1 DEF Known, ProcState, Sane
  <2> HIDE DEF procs, rest
  <2>2. r = [wk[w] EXCEPT !.proc = procs, !.loose = rest]
    BY DEF procs, rest
  <2> HIDE DEF r
  <2>3. r \in Known
    BY <1>1, <2>1, <2>2 DEF Known
  <2>4. /\ r.proc = procs /\ r.child = wk[w].child
        /\ r.wired = wk[w].wired /\ r.state = wk[w].state /\ r.entry = wk[w].entry
        /\ r.recent = wk[w].recent /\ r.timer = wk[w].timer
        /\ r.armed = wk[w].armed /\ r.loose = rest
    BY <1>1, <2>2 DEF Known
  <2>5. Sane(r)
    BY <1>1, <2>1, <2>4 DEF Sane, Known
  <2> QED
    BY <2>1, <2>3, <2>4, <2>5 DEF procs
<1> HIDE DEF r
<1>3. /\ left \in Known /\ Sane(left) /\ left.proc = r.proc /\ left.child = 0
      /\ left.wired \subseteq r.wired \ {r.child} /\ left.state = r.state
      /\ left.entry = r.entry /\ left.recent = r.recent /\ left.timer = r.timer
  <2>1. Detached(r) \in Known /\ Sane(Detached(r))
    BY <1>2, DetachedSane
  <2>2. /\ left.proc = r.proc /\ left.child = 0
        /\ left.wired \subseteq r.wired \ {r.child} /\ left.state = r.state
        /\ left.entry = r.entry /\ left.recent = r.recent /\ left.timer = r.timer
        /\ left.armed = r.armed /\ left.loose = r.loose
    BY <1>2 DEF Known, Detached
  <2>3. left \in Known
    BY <2>1 DEF Known, Runner
  <2>4. Sane(left)
    BY <1>2, <2>2 DEF Sane, Known
  <2> QED
    BY <2>2, <2>3, <2>4
<1> HIDE DEF left
<1>4. /\ heard \in Known /\ Sane(heard) /\ heard.proc = r.proc /\ heard.child = 0
      /\ heard.wired \subseteq r.wired \ {r.child} /\ heard.state = r.state
      /\ heard.entry = r.entry /\ heard.recent = r.recent
      /\ r.timer # "none" => heard.timer # "none"
  <2>1. "crashed" \in Reason
    BY DEF Reason
  <2>2. (restart[w].at # "off" \/ ~crashed) \in BOOLEAN
    OBVIOUS
  <2> QED
    BY <1>3, <2>1, <2>2, ScheduledSane, ZenonT(40)
<1> HIDE DEF heard
<1>5. /\ seen \in Known /\ Sane(seen) /\ seen.proc = r.proc
      /\ seen.state = r.state /\ seen.entry = r.entry /\ seen.recent = r.recent
      /\ r.timer # "none" => seen.timer # "none"
      /\ \/ p \notin r.wired /\ seen.child = r.child /\ seen.wired \subseteq r.wired
         \/ p \in r.wired /\ seen.child = 0 /\ seen.wired \subseteq r.wired \ {r.child}
  BY <1>2, <1>4
<1> HIDE DEF seen
<1>6. /\ s \in Known /\ Sane(s) /\ s.proc = r.proc
      /\ s.state = r.state /\ s.entry = r.entry /\ s.recent = r.recent
      /\ r.timer # "none" => s.timer # "none"
      /\ \/ ~Waiting(w, p) /\ s.child = r.child /\ s.wired \subseteq r.wired
         \/ /\ s.child = 0 /\ s.wired \subseteq r.wired \ {r.child}
            /\ p \in r.wired \/ Waiting(w, p)
  <2>1. CASE Waiting(w, p)
    <3> DEFINE gone == [Detached(seen) EXCEPT !.runner = "stopped", !.armed = 0]
    <3>1. s = gone
      BY <2>1
    <3>2. Detached(seen) \in Known /\ Sane(Detached(seen))
      BY <1>5, DetachedSane
    <3>3. gone \in Known
      BY <3>2 DEF Known, Runner
    <3>4. /\ gone.proc = seen.proc /\ gone.child = 0
          /\ gone.wired = seen.wired \ {seen.child}
          /\ gone.state = seen.state /\ gone.entry = seen.entry /\ gone.recent = seen.recent
          /\ gone.timer = seen.timer /\ gone.armed = 0 /\ gone.loose = seen.loose
      BY <1>5 DEF Known, Detached
    <3>5. Sane(gone)
      BY <1>5, <3>4 DEF Sane, Known
    <3> HIDE DEF gone, s
    <3> QED
      BY <1>5, <2>1, <3>1, <3>3, <3>4, <3>5
  <2>2. CASE ~Waiting(w, p)
    BY <1>5, <2>2
  <2> QED
    BY <2>1, <2>2
<1>7. wk' = [wk EXCEPT ![w] = s]
  BY DEF Exit, s, seen, heard, left, r, crashed
<1> HIDE DEF s
<1>8. wk'[w] = s
  BY <1>7 DEF TypeInv
<1> QED
  BY <1>2, <1>6, <1>7, <1>8 DEF ExitLike

LEMMA RecordStep ==
  ASSUME TypeInv, NEW w \in Worker, NEW r \in Known, Sane(r),
         Len(r.proc) >= Len(wk[w].proc), wk' = [wk EXCEPT ![w] = r],
         UNCHANGED restart, LoopsTyped'
  PROVE  TypeInv'
<1>1. RecordsKept
  BY OneWorker DEF RecordsKept
<1> QED
  BY <1>1, RestartsStay DEF TypeInv, RecordsKept

LEMMA LoopStep ==
  ASSUME TypeInv, UNCHANGED <<wk, restart>>, LoopsTyped'
  PROVE  TypeInv'
BY DEF TypeInv

LEMMA ExitTyped ==
  ASSUME TypeInv, NEW w \in Worker, NEW p \in 1..Len(wk[w].proc), NEW code \in {0, 1},
         Exit(w, p, code), faults' \in Nat
  PROVE  TypeInv'
<1>1. ExitLike(w, p)
  BY ExitShape
<1>2. RecordsKept
  <2>1. Len(wk'[w].proc) >= Len(wk[w].proc)
    BY <1>1 DEF ExitLike, TypeInv, Known
  <2> QED
    BY <1>1, <2>1, OneWorker DEF ExitLike, RecordsKept
<1>3. /\ restart' \in [Worker -> [at : {"off", "stopping", "forking"}, i : {0}, on : Nat]]
      /\ \A v \in Worker : restart'[v].on \in 0..Len(wk'[v].proc)
  <2>1. CASE restart' = restart
    BY <1>2, <2>1, RestartsStay
  <2>2. CASE restart' = [restart EXCEPT ![w].on = 0]
    <3>1. restart' = [restart EXCEPT ![w] = [at |-> restart[w].at, i |-> 0, on |-> 0]]
      <4>1. restart[w] \in [at : {"off", "stopping", "forking"}, i : {0}, on : Nat]
        BY DEF TypeInv
      <4>2. [restart[w] EXCEPT !.on = 0] = [at |-> restart[w].at, i |-> 0, on |-> 0]
        BY <4>1
      <4> QED
        BY <2>2, <4>2 DEF TypeInv
    <3>2. restart[w].at \in {"off", "stopping", "forking"}
      BY DEF TypeInv
    <3>3. 0 \in 0..Len(wk'[w].proc)
      BY <1>2, LengthsTyped
    <3> QED
      BY <1>2, <3>1, <3>2, <3>3, RestartsTyped
  <2> QED
    BY <2>1, <2>2 DEF Exit
<1>4. LoopsTyped'
  BY SMTT(30) DEF Exit, TypeInv, LoopsTyped
<1> QED
  BY <1>2, <1>3, <1>4 DEF TypeInv, RecordsKept

\* BeginRestart, and the restart it leaves waiting.
LEMMA BeginRestartTyped ==
  ASSUME TypeInv, NEW w \in Worker, NEW r \in Known, Sane(r), r.proc = wk[w].proc,
         BeginRestart(w, r), LoopsTyped'
  PROVE  /\ TypeInv'
         /\ wk'[w] = StopCalled(r) /\ \A v \in Worker \ {w} : wk'[v] = wk[v]
         /\ restart'[w].at = "stopping" /\ restart'[w].on = StopWaitsFor(r)
         /\ \A v \in Worker \ {w} : restart'[v] = restart[v]
<1>1. /\ StopCalled(r) \in Known /\ Sane(StopCalled(r))
      /\ StopWaitsFor(r) \in 0..Len(StopCalled(r).proc)
      /\ Len(StopCalled(r).proc) = Len(wk[w].proc)
  BY StopCalledSane
<1>2. /\ RecordsKept /\ wk'[w] = StopCalled(r)
      /\ \A v \in Worker \ {w} : wk'[v] = wk[v]
  <2>1. Len(StopCalled(r).proc) >= Len(wk[w].proc)
    <3>1. Len(wk[w].proc) \in Nat
      BY DEF TypeInv, Known
    <3> QED
      BY <1>1, <3>1
  <2>2. wk' = [wk EXCEPT ![w] = StopCalled(r)]
    BY DEF BeginRestart
  <2> QED
    BY <1>1, <2>1, <2>2, OneWorker DEF RecordsKept
<1>3. /\ restart' \in [Worker -> [at : {"off", "stopping", "forking"}, i : {0}, on : Nat]]
      /\ \A v \in Worker : restart'[v].on \in 0..Len(wk'[v].proc)
      /\ restart'[w].at = "stopping" /\ restart'[w].on = StopWaitsFor(r)
      /\ \A v \in Worker \ {w} : restart'[v] = restart[v]
  BY <1>1, <1>2, RestartsTyped DEF BeginRestart
<1> QED
  BY <1>2, <1>3 DEF TypeInv, RecordsKept

LEMMA BootsStay ==
  ASSUME TypeInv,
         UNCHANGED <<boot, wechat, wechatDone, wechatBusy, stop, sup, watching>>,
         faults' \in Nat, commands' \in Seq(Asked)
  PROVE  LoopsTyped'
BY DEF TypeInv, LoopsTyped

LEMMA CommandTyped ==
  ASSUME TypeInv, NEW c, NEW crossed \in BOOLEAN, Commanded(c, crossed)
  PROVE  /\ commands' \in Seq(Asked)
         /\ \E a \in Asked : commands' = Append(commands, a)
<1>1. (IF crossed THEN "crossed" ELSE c) \in Asked
  BY DEF Commanded, Asked
<1>2. commands \in Seq(Asked)
  BY DEF TypeInv, LoopsTyped
<1> QED
  BY <1>1, <1>2 DEF Commanded

\* The steps of a worker's processes, watchdog and restart.
LEMMA EventTyped ==
  ASSUME TypeInv, NEW w \in Worker,
         Event(w) \/ Trouble(w) \/ ManualRestart(w) \/ RestartGo(w)
  PROVE  TypeInv'
<1>0. /\ wk[w] \in Known /\ Sane(wk[w]) /\ Len(wk[w].proc) \in Nat
      /\ faults \in Nat /\ commands \in Seq(Asked)
  BY DEF TypeInv, LoopsTyped, Known
<1>1. CASE Die(w)
  BY <1>0, <1>1, ExitTyped DEF Die
<1>2. CASE Leave(w)
  BY <1>0, <1>2, ExitTyped DEF Leave
<1>3. ASSUME NEW p \in 1..Len(wk[w].proc), NEW state \in ProcState,
             wk' = [wk EXCEPT ![w].proc[p] = state], UNCHANGED restart, LoopsTyped'
      PROVE  TypeInv'
  <2> DEFINE procs == [wk[w].proc EXCEPT ![p] = state]
             r == [wk[w] EXCEPT !.proc = procs]
  <2>1. procs \in Seq(ProcState) /\ Len(procs) = Len(wk[w].proc)
    BY <1>0 DEF Known
  <2>2. wk' = [wk EXCEPT ![w] = r]
    BY <1>3 DEF TypeInv
  <2> HIDE DEF procs
  <2>3. r \in Known
    BY <1>0, <2>1 DEF Known
  <2>4. Sane(r) /\ Len(r.proc) >= Len(wk[w].proc)
    BY <1>0, <2>1 DEF Sane, Known
  <2> HIDE DEF r
  <2> QED
    BY <1>3, <2>2, <2>3, <2>4, RecordStep
<1>4. CASE Hang(w)
  <2>1. LoopsTyped'
    BY <1>0, <1>4, BootsStay DEF Hang
  <2> QED
    BY <1>3, <1>4, <2>1 DEF Hang, ProcState
<1>5. CASE Kill(w)
  <2>1. LoopsTyped'
    BY <1>0, <1>5, BootsStay DEF Kill
  <2>2. Timed(wk[w]) \subseteq 1..Len(wk[w].proc)
    BY <1>0 DEF Timed, Sane
  <2> QED
    BY <1>3, <1>5, <2>1, <2>2 DEF Kill, ProcState
<1>6. CASE Heartbeat(w)
  <2> DEFINE r == [wk[w] EXCEPT !.entry = "fresh"]
             s == [wk[w] EXCEPT !.entry = "fresh", !.state = "on"]
  <2>1. LoopsTyped'
    BY <1>0, <1>6, BootsStay DEF Heartbeat
  <2>2. wk' = [wk EXCEPT ![w] = r] \/ wk' = [wk EXCEPT ![w] = s]
    BY <1>6 DEF Heartbeat, TypeInv
  <2>3. r \in Known /\ s \in Known
    BY <1>0 DEF Known, Status
  <2>4. Sane(r) /\ Sane(s) /\ Len(r.proc) >= Len(wk[w].proc) /\ Len(s.proc) >= Len(wk[w].proc)
    BY <1>0 DEF Sane, Known
  <2> HIDE DEF r, s
  <2> QED
    BY <1>6, <2>1, <2>2, <2>3, <2>4, RecordStep DEF Heartbeat
<1>7. CASE WatchdogTimeout(w)
  <2> DEFINE r == [wk[w] EXCEPT !.entry = "pending", !.state = "timeout"]
             s == Scheduled(r, "timeout", restart[w].at # "off")
  <2>1. LoopsTyped'
    BY <1>0, <1>7, BootsStay DEF WatchdogTimeout
  <2>2. wk' = [wk EXCEPT ![w] = s]
    BY <1>7 DEF WatchdogTimeout, TypeInv
  <2>3. r \in Known
    BY <1>0 DEF Known, Status
  <2>4. Sane(r) /\ r.proc = wk[w].proc
    BY <1>0 DEF Sane, Known
  <2> HIDE DEF r
  <2>5. s \in Known /\ Sane(s) /\ s.proc = r.proc
    BY <2>3, <2>4, ScheduledSane DEF Reason
  <2> HIDE DEF s
  <2>6. Len(s.proc) >= Len(wk[w].proc)
    BY <1>0, <2>4, <2>5
  <2> QED
    BY <1>7, <2>1, <2>2, <2>5, <2>6, RecordStep DEF WatchdogTimeout
<1>8. CASE RestartFires(w)
  <2> DEFINE r == [wk[w] EXCEPT !.timer = "none"]
  <2>1. LoopsTyped'
    BY <1>0, <1>8, BootsStay DEF RestartFires
  <2>2. r \in Known
    BY <1>0 DEF Known
  <2>3. Sane(r) /\ r.proc = wk[w].proc /\ r.recent \in Nat
    BY <1>0 DEF Sane, Known
  <2> HIDE DEF r
  <2> DEFINE q == [r EXCEPT !.state = "failed"]
             c == [r EXCEPT !.recent = @ + 1]
  <2>4. q \in Known
    BY <2>2 DEF Known, Status
  <2>5. c \in Known
    <3>1. r.recent + 1 \in Nat
      BY <2>3
    <3> QED
      BY <2>2, <3>1 DEF Known
  <2>6. Sane(q) /\ Sane(c) /\ q.proc = wk[w].proc /\ c.proc = wk[w].proc
    BY <2>2, <2>3 DEF Sane, Known
  <2>7. \/ wk' = [wk EXCEPT ![w] = r] /\ UNCHANGED restart
        \/ wk' = [wk EXCEPT ![w] = q] /\ UNCHANGED restart
        \/ BeginRestart(w, r) \/ BeginRestart(w, c)
    BY <1>8 DEF RestartFires, r, q, c
  <2> HIDE DEF q, c
  <2>8. Len(r.proc) >= Len(wk[w].proc) /\ Len(q.proc) >= Len(wk[w].proc)
    BY <1>0, <2>3, <2>6
  <2> QED
    BY <2>1, <2>2, <2>3, <2>4, <2>5, <2>6, <2>7, <2>8, RecordStep, BeginRestartTyped
<1>9. CASE ManualRestart(w)
  <2> DEFINE r == [wk[w] EXCEPT !.recent = 0]
  <2>1. LoopsTyped'
    BY <1>0, <1>9, BootsStay, CommandTyped DEF ManualRestart
  <2>2. r \in Known
    BY <1>0 DEF Known
  <2>3. Sane(r) /\ r.proc = wk[w].proc
    BY <1>0 DEF Sane, Known
  <2>4. BeginRestart(w, r)
    BY <1>9 DEF ManualRestart
  <2> HIDE DEF r
  <2> QED
    BY <2>1, <2>2, <2>3, <2>4, BeginRestartTyped
<1>10. CASE RestartFork(w)
  <2>1. LoopsTyped'
    BY <1>0, <1>10, BootsStay DEF RestartFork
  <2>2. PICK r \in ForkOutcomes(wk[w], TRUE) : wk' = [wk EXCEPT ![w] = r]
    BY <1>10 DEF RestartFork
  <2>3. r \in Known /\ Sane(r) /\ Len(r.proc) >= Len(wk[w].proc)
    BY <1>0, <2>2, ForkOutcomesSane
  <2>4. RecordsKept
    BY <2>2, <2>3, OneWorker DEF RecordsKept
  <2>5. 0 \in 0..Len(wk'[w].proc)
    BY <2>4, LengthsTyped
  <2>6. restart' = [restart EXCEPT ![w] = [at |-> "off", i |-> 0, on |-> 0]]
    BY <1>10 DEF RestartFork, Off
  <2> QED
    BY <2>1, <2>4, <2>5, <2>6, RestartsTyped DEF TypeInv, RecordsKept
<1>11. CASE RestartGo(w)
  <2>0. faults' \in Nat
    BY <1>11, FaultCounted DEF RestartGo, TypeInv, LoopsTyped
  <2>1. LoopsTyped'
    BY <1>11, <2>0 DEF RestartGo, TypeInv, LoopsTyped, Asked
  <2>2. PICK o \in StartOutcomes(StopReturned(wk[w])) :
          /\ wk' = [wk EXCEPT ![w] = o.r]
          /\ restart' = [restart EXCEPT ![w] = IF o.waits THEN [@ EXCEPT !.at = "forking"]
                                                          ELSE Off]
    BY <1>11 DEF RestartGo
  <2>3. o.r \in Known /\ Sane(o.r) /\ Len(o.r.proc) >= Len(wk[w].proc)
    BY <1>0, <2>2, StopReturnedSane, StartOutcomesSane
  <2>4. RecordsKept
    BY <2>2, <2>3, OneWorker DEF RecordsKept
  <2>5. 0 \in 0..Len(wk'[w].proc)
    BY <2>4, LengthsTyped
  <2>6. \/ restart' = [restart EXCEPT ![w] = [at |-> "off", i |-> 0, on |-> 0]]
        \/ restart' = [restart EXCEPT ![w] = [at |-> "forking", i |-> 0, on |-> 0]]
    <3>1. [restart[w] EXCEPT !.at = "forking"] = [at |-> "forking", i |-> 0, on |-> 0]
      BY <1>11 DEF RestartGo, TypeInv
    <3> QED
      BY <2>2, <3>1 DEF Off, TypeInv
  <2> QED
    BY <2>1, <2>4, <2>5, <2>6, RestartsTyped DEF TypeInv, RecordsKept
<1> QED
  BY <1>1, <1>2, <1>4, <1>5, <1>6, <1>7, <1>8, <1>9, <1>10, <1>11 DEF Event, Trouble

\* A boot loop with its worker.
LEMMA StartOneTyped ==
  ASSUME TypeInv, NEW w \in Worker,
         NEW loop, NEW later, NEW r,
         \/ \E o \in StartOutcomes(wk[w]) : r = o.r
         \/ r \in ForkOutcomes(wk[w], restart[w].at # "off"),
         wk' = [wk EXCEPT ![w] = r], UNCHANGED restart, LoopsTyped'
  PROVE  TypeInv' /\ r \in Known /\ Sane(r)
<1>1. /\ wk[w] \in Known /\ Sane(wk[w]) /\ (restart[w].at # "off") \in BOOLEAN
  BY DEF TypeInv
<1>2. r \in Known /\ Sane(r) /\ Len(r.proc) >= Len(wk[w].proc)
  BY <1>1, StartOutcomesSane, ForkOutcomesSane
<1> QED
  BY <1>2, RecordStep

LEMMA BootTyped ==
  ASSUME TypeInv, Boot \/ ListenerReady \/ StartAll
  PROVE  TypeInv'
<1> USE DEF LoopsTyped
<1>1. CASE BootStep
  <2>1. QianfanOrder[boot.i] \in Worker
    BY <1>1, OrdersTyped DEF BootStep, TypeInv
  <2>2. LoopsTyped'
    <3>1. boot \in [at : {"off", "start", "forking", "wait"}, i : Nat, on : {0}] /\ boot.i + 1 \in Nat
      BY DEF TypeInv
    <3>2. \/ boot' = [boot EXCEPT !.at = "forking"] \/ boot' = [boot EXCEPT !.i = boot.i + 1]
          \/ boot' = [boot EXCEPT !.at = "start", !.i = boot.i + 1]
      BY <1>1 DEF BootStep, StartOne
    <3>3. boot' \in [at : {"off", "start", "forking", "wait"}, i : Nat, on : {0}] /\ boot'.i >= boot.i
      <4>1. CASE boot' = [boot EXCEPT !.at = "forking"]
        BY <3>1, <4>1
      <4>2. CASE boot' = [boot EXCEPT !.i = boot.i + 1]
        BY <3>1, <4>2
      <4>3. CASE boot' = [boot EXCEPT !.at = "start", !.i = boot.i + 1]
        <5>1. boot' = [at |-> "start", i |-> boot.i + 1, on |-> boot.on]
          BY <3>1, <4>3
        <5> QED
          BY <3>1, <5>1
      <4> QED
        BY <3>2, <4>1, <4>2, <4>3
    <3>4. boot.at # "off"
      BY <1>1 DEF BootStep
    <3>5. faults' \in Nat
      BY <1>1, FaultCounted DEF BootStep, StartOne, TypeInv
    <3> QED
      BY <1>1, <3>1, <3>3, <3>4, <3>5 DEF BootStep, TypeInv
  <2> QED
    BY <1>1, <2>1, <2>2, StartOneTyped, ZenonT(40) DEF BootStep, StartOne
<1>2. CASE WechatStep
  <2>1. WechatOrder[wechat.i] \in Worker
    BY <1>2, OrdersTyped DEF WechatStep, TypeInv
  <2>2. LoopsTyped'
    <3>1. wechat \in [at : {"off", "start", "forking"}, i : Nat, late : BOOLEAN] /\ wechat.i + 1 \in Nat
      BY DEF TypeInv
    <3>2. \/ wechat' = [wechat EXCEPT !.at = "forking"] \/ wechat' = [wechat EXCEPT !.i = wechat.i + 1]
          \/ wechat' = [wechat EXCEPT !.at = "start", !.i = wechat.i + 1]
      BY <1>2 DEF WechatStep, StartOne
    <3>3. wechat' \in [at : {"off", "start", "forking"}, i : Nat, late : BOOLEAN] /\ wechat'.i >= wechat.i
      <4>1. CASE wechat' = [wechat EXCEPT !.at = "forking"]
        BY <3>1, <4>1
      <4>2. CASE wechat' = [wechat EXCEPT !.i = wechat.i + 1]
        BY <3>1, <4>2
      <4>3. CASE wechat' = [wechat EXCEPT !.at = "start", !.i = wechat.i + 1]
        <5>1. wechat' = [at |-> "start", i |-> wechat.i + 1, late |-> wechat.late]
          BY <3>1, <4>3
        <5> QED
          BY <3>1, <5>1
      <4> QED
        BY <3>2, <4>1, <4>2, <4>3
    <3>4. wechat.at # "off"
      BY <1>2 DEF WechatStep
    <3>5. faults' \in Nat
      BY <1>2, FaultCounted DEF WechatStep, StartOne, TypeInv
    <3> QED
      BY <1>2, <3>1, <3>3, <3>4, <3>5 DEF WechatStep, TypeInv
  <2> QED
    BY <1>2, <2>1, <2>2, StartOneTyped, ZenonT(40) DEF WechatStep, StartOne
<1>3. CASE BootWaits
  <2>1. boot' \in [at : {"off", "start", "forking", "wait"}, i : Nat, on : {0}] /\ boot'.i = boot.i
    BY <1>3 DEF BootWaits, TypeInv
  <2>2. /\ wechat' \in [at : {"off", "start", "forking"}, i : Nat, late : BOOLEAN]
        /\ wechat'.at # "off" => wechat'.i >= 1
        /\ wechatBusy' \in BOOLEAN
    <3>1. CASE UNCHANGED <<wechat, wechatBusy>>
      BY <3>1 DEF TypeInv
    <3>2. CASE wechat' = [at |-> "start", i |-> 1, late |-> FALSE] /\ wechatBusy' = TRUE
      BY <3>2
    <3> QED
      BY <1>3, <3>1, <3>2 DEF BootWaits
  <2> QED
    BY <1>3, <2>1, <2>2, LoopStep DEF BootWaits, TypeInv
<1>4. CASE BootDone
  BY <1>4, LoopStep DEF BootDone, TypeInv, Off
<1>5. CASE WechatDone
  BY <1>5, LoopStep DEF WechatDone, TypeInv, NoWechat
<1>6. CASE ListenerReady
  BY <1>6, LoopStep DEF ListenerReady, TypeInv
<1>7. CASE StartAll
  <2>1. commands' \in Seq(Asked)
    BY <1>7, CommandTyped DEF StartAll
  <2> QED
    BY <1>7, <2>1, LoopStep DEF StartAll, TypeInv
<1> QED
  BY <1>1, <1>2, <1>3, <1>4, <1>5, <1>6, <1>7 DEF Boot

LEMMA StopTyped ==
  ASSUME TypeInv, StopNext \/ StopGo \/ StopDone \/ StopAll
  PROVE  TypeInv'
<1>0. \A w \in Worker : wk[w] \in Known /\ Sane(wk[w]) /\ Len(wk[w].proc) \in Nat
  BY DEF TypeInv, Known
<1>1. CASE StopNext
  <2> DEFINE w == StopOrder[stop.i]
  <2>1. w \in Worker
    BY <1>1, StopOrderTyped DEF StopNext, TypeInv, LoopsTyped
  <2>2. StopWaitsFor(wk[w]) \in Nat
    BY <1>0, <2>1, StopCalledSane DEF StopWaitsFor, Sane, Known
  <2>3. LoopsTyped'
    BY <1>1, <2>2, ZenonT(40) DEF StopNext, TypeInv, LoopsTyped
  <2>4. StopCalled(wk[w]) \in Known /\ Sane(StopCalled(wk[w]))
        /\ Len(StopCalled(wk[w]).proc) >= Len(wk[w].proc)
    BY <1>0, <2>1, StopCalledSane
  <2>5. wk' = [wk EXCEPT ![w] = StopCalled(wk[w])] /\ UNCHANGED restart
    BY <1>1 DEF StopNext
  <2> HIDE DEF w
  <2> QED
    BY <2>1, <2>3, <2>4, <2>5, RecordStep
<1>2. CASE StopGo
  <2> DEFINE w == StopOrder[stop.i]
  <2>1. w \in Worker
    BY <1>2, StopOrderTyped DEF StopGo, TypeInv, LoopsTyped
  <2>2. LoopsTyped'
    BY <1>2, StopOrderTyped DEF StopGo, TypeInv, LoopsTyped
  <2>3. StopReturned(wk[w]) \in Known /\ Sane(StopReturned(wk[w]))
        /\ Len(StopReturned(wk[w]).proc) >= Len(wk[w].proc)
    BY <1>0, <2>1, StopReturnedSane
  <2>4. wk' = [wk EXCEPT ![w] = StopReturned(wk[w])] /\ UNCHANGED restart
    BY <1>2 DEF StopGo
  <2> HIDE DEF w
  <2> QED
    BY <2>1, <2>2, <2>3, <2>4, RecordStep
<1>3. CASE StopDone
  <2>1. LoopsTyped'
    BY <1>3 DEF StopDone, TypeInv, LoopsTyped, Off
  <2>2. \A w \in Worker : /\ [wk[w] EXCEPT !.entry = "none"] \in Known
                          /\ Sane([wk[w] EXCEPT !.entry = "none"])
                          /\ [wk[w] EXCEPT !.entry = "none"].proc = wk[w].proc
    <3> TAKE w \in Worker
    <3> DEFINE r == [wk[w] EXCEPT !.entry = "none"]
    <3>1. r \in Known
      BY <1>0 DEF Known
    <3>2. Sane(r) /\ r.proc = wk[w].proc
      BY <1>0 DEF Sane, Known
    <3> QED
      BY <3>1, <3>2
  <2> QED
    BY <1>3, <2>1, <2>2 DEF StopDone, TypeInv
<1>4. CASE StopAll
  <2>1. LoopsTyped'
    <3>1. commands' \in Seq(Asked)
      BY <1>4, CommandTyped DEF StopAll
    <3>2. stop' \in [at : {"off", "next", "stopping"}, i : Nat, on : Nat]
          /\ stop'.at = "next" /\ stop'.i = 1
      BY <1>4 DEF StopAll
    <3>3. /\ UNCHANGED <<boot, wechat, watching, faults>>
          /\ wechatDone' = FALSE /\ wechatBusy' = FALSE /\ sup' = "stopping"
      BY <1>4 DEF StopAll
    <3>4. LoopsTyped
      BY DEF TypeInv
    <3>5. {wechatDone', wechatBusy'} \subseteq BOOLEAN /\ sup' = "stopping"
      BY <3>3
    <3> QED
      BY <3>1, <3>2, <3>3, <3>4, <3>5 DEF LoopsTyped
  <2>2. \A w \in Worker : /\ [wk[w] EXCEPT !.timer = "none"] \in Known
                          /\ Sane([wk[w] EXCEPT !.timer = "none"])
                          /\ [wk[w] EXCEPT !.timer = "none"].proc = wk[w].proc
    <3> TAKE w \in Worker
    <3> DEFINE r == [wk[w] EXCEPT !.timer = "none"]
    <3>1. r \in Known
      BY <1>0 DEF Known
    <3>2. Sane(r) /\ r.proc = wk[w].proc
      BY <1>0 DEF Sane, Known
    <3> QED
      BY <3>1, <3>2
  <2> QED
    BY <1>4, <2>1, <2>2 DEF StopAll, TypeInv
<1> QED
  BY <1>1, <1>2, <1>3, <1>4

LEMMA TypeInit == Init => TypeInv
<1> SUFFICES ASSUME Init
             PROVE  TypeInv
  OBVIOUS
<1> DEFINE new == [proc |-> <<>>, child |-> 0, wired |-> {}, armed |-> 0, loose |-> {},
                   runner |-> "registered",
                   stopReq |-> FALSE, state |-> "registered", entry |-> "none",
                   recent |-> 0, timer |-> "none"]
<1>1. new \in Known
  BY DEF Known, Runner, Status
<1>2. Sane(new)
  BY DEF Sane
<1>3. \A w \in Worker : wk[w] = new /\ restart[w] = Off
  BY DEF Init
<1>4. wk \in [Worker -> Known] /\ \A w \in Worker : Sane(wk[w])
  BY <1>1, <1>2, <1>3 DEF Init
<1>5. /\ restart \in [Worker -> [at : {"off", "stopping", "forking"}, i : {0}, on : Nat]]
      /\ \A w \in Worker : restart[w].on \in 0..Len(wk[w].proc)
  BY <1>3 DEF Init, Off
<1>6. LoopsTyped
  <2>1. commands \in Seq(Asked)
    BY DEF Init
  <2>2. /\ boot \in [at : {"off", "start", "forking", "wait"}, i : Nat, on : {0}]
        /\ wechat \in [at : {"off", "start", "forking"}, i : Nat, late : BOOLEAN]
        /\ stop \in [at : {"off", "next", "stopping"}, i : Nat, on : Nat]
        /\ boot.at = "off" /\ wechat.at = "off" /\ stop.at = "off"
    BY DEF Init, Off, NoWechat
  <2> QED
    BY <2>1, <2>2 DEF Init, LoopsTyped
<1> QED
  BY <1>4, <1>5, <1>6 DEF TypeInv

LEMMA TypeStep == TypeInv /\ [Next]_vars => TypeInv'
<1> SUFFICES ASSUME TypeInv, [Next]_vars
             PROVE  TypeInv'
  OBVIOUS
<1>1. CASE UNCHANGED vars
  BY <1>1 DEF vars, TypeInv, LoopsTyped
<1> QED
  BY <1>1, EventTyped, BootTyped, StopTyped DEF Next

\* What is known of workers, restarts and loops has its type.
THEOREM SupervisorTyping == Spec => []TypeOK
<1>1. TypeInv => TypeOK
  BY DEF TypeInv, LoopsTyped, TypeOK, Sane, Known, Runner
<1> QED
  BY <1>1, TypeInit, TypeStep, PTL DEF Spec

-------------------------------------------------------------------------------
(***************************************************************************)
(* One process, and none forgotten                                         *)
(***************************************************************************)
LEMMA CommandsGrow ==
  ASSUME TypeInv, [Next]_vars, Undisturbed'
  PROVE  Undisturbed
<1>1. \/ UNCHANGED commands
      \/ \E c \in {"start", "stop", "restart"}, crossed \in BOOLEAN : Commanded(c, crossed)
  <2>1. CASE UNCHANGED vars
    BY <2>1 DEF vars
  <2>2. ASSUME NEW w \in Worker, Event(w) \/ Trouble(w) \/ RestartGo(w)
        PROVE  UNCHANGED commands
    <3>1. \A p, code : Exit(w, p, code) => UNCHANGED commands
      BY DEF Exit
    <3>2. CASE Die(w) \/ Leave(w)
      BY <3>1, <3>2 DEF Die, Leave
    <3>3. CASE Hang(w) \/ Kill(w) \/ Heartbeat(w) \/ WatchdogTimeout(w)
      BY <3>3 DEF Hang, Kill, Heartbeat, WatchdogTimeout
    <3>4. CASE RestartFires(w)
      BY <3>4 DEF RestartFires
    <3>5. CASE RestartFork(w) \/ RestartGo(w)
      BY <3>5 DEF RestartFork, RestartGo
    <3> QED
      BY <2>2, <3>2, <3>3, <3>4, <3>5 DEF Event, Trouble
  <2>3. CASE StopNext \/ StopGo \/ StopDone \/ Boot \/ ListenerReady
    BY <2>3 DEF StopNext, StopGo, StopDone, Boot, BootStep, BootWaits, BootDone, WechatStep,
      WechatDone, ListenerReady
  <2>4. CASE StartAll \/ StopAll \/ \E w \in Worker : ManualRestart(w)
    BY <2>4 DEF StartAll, StopAll, ManualRestart
  <2> QED
    BY <2>1, <2>2, <2>3, <2>4 DEF Next
<1>2. CASE UNCHANGED commands
  BY <1>2 DEF Undisturbed
<1>3. ASSUME NEW c, NEW crossed \in BOOLEAN, Commanded(c, crossed)
      PROVE  Undisturbed
  <2>1. commands \in Seq(Asked) /\ \E a \in Asked : commands' = Append(commands, a)
    BY <1>3, CommandTyped DEF TypeInv, LoopsTyped
  <2>2. \A i \in DOMAIN commands : i \in DOMAIN commands' /\ commands'[i] = commands[i]
    BY <2>1
  <2> QED
    BY <2>2 DEF Undisturbed
<1> QED
  BY <1>1, <1>2, <1>3

\* As long as nothing disturbs the relay a command is no stop and not crossed.
LEMMA Alone ==
  ASSUME TypeInv, NEW c \in {"start", "stop", "restart"}, NEW crossed \in BOOLEAN,
         Commanded(c, crossed), Undisturbed'
  PROVE  ~crossed /\ c # "stop"
<1> DEFINE a == IF crossed THEN "crossed" ELSE c
<1>1. commands \in Seq(Asked) /\ a \in Asked /\ commands' = Append(commands, a)
  BY DEF TypeInv, LoopsTyped, Commanded, Asked
<1> HIDE DEF a
<1>2. Len(commands) + 1 \in DOMAIN commands' /\ commands'[Len(commands) + 1] = a
  BY <1>1
<1>3. a \notin {"stop", "crossed"}
  BY <1>2 DEF Undisturbed
<1> QED
  BY <1>3 DEF a

LEMMA Started ==
  ASSUME Tidy, NEW w \in Worker,
         \/ restart[w].at # "off" \/ wk[w].timer # "none" \/ wk[w].entry # "none"
         \/ wk[w].proc # <<>>
  PROVE  ~NotYet(w) /\ Kept(wk[w], restart[w].at)
BY DEF Tidy, Untouched

\* A step of one worker, beside the loops.
LEMMA OneWorkerTidy ==
  ASSUME Tidy, NEW w \in Worker, ~NotYet(w),
         UNCHANGED <<boot, wechat, wechatDone, wechatBusy, stop, sup, watching>>,
         \A v \in Worker \ {w} : wk'[v] = wk[v] /\ restart'[v] = restart[v],
         Own(wk'[w], restart'[w].at, restart'[w].on),
         Kept(wk'[w], restart'[w].at)
  PROVE  Tidy'
<1>1. Phases'
  BY DEF Tidy, Phases
<1>2. \A v \in Worker : NotYet(v)' <=> NotYet(v)
  BY DEF NotYet, NotYetQianfan, NotYetWechat
<1>3. \A v \in Worker : Own(wk'[v], restart'[v].at, restart'[v].on)
  BY DEF Tidy
<1>4. \A v \in Worker : IF NotYet(v) THEN Untouched(wk'[v], restart'[v].at)
                                     ELSE Kept(wk'[v], restart'[v].at)
  BY DEF Tidy
<1> QED
  BY <1>1, <1>2, <1>3, <1>4 DEF Tidy

LEMMA ExitTidy ==
  ASSUME TypeInv, Tidy, NEW w \in Worker, NEW p \in 1..Len(wk[w].proc), NEW code \in {0, 1},
         Exit(w, p, code)
  PROVE  Tidy'
<1> DEFINE r == wk[w]
           s == wk'[w]
<1>1. /\ r \in Known /\ Sane(r) /\ Len(r.proc) \in Nat /\ p \in Nat \ {0}
      /\ restart[w].at \in {"off", "stopping", "forking"} /\ restart[w].on \in Nat
  BY DEF TypeInv, Known
<1>2. ~NotYet(w) /\ Kept(r, restart[w].at)
  <2>1. r.proc # <<>>
    BY <1>1
  <2> QED
    BY <2>1, Started
<1>3. ExitLike(w, p)
  BY ExitShape
<1>4. Own(r, restart[w].at, restart[w].on) /\ stop = Off
  BY DEF Tidy, Phases
<1>5. /\ restart'[w].at = restart[w].at
      /\ restart'[w].on = IF restart[w].on = p THEN 0 ELSE restart[w].on
      /\ \A v \in Worker \ {w} : restart'[v] = restart[v]
  BY DEF Exit, TypeInv
<1>6. UNCHANGED <<boot, wechat, wechatDone, wechatBusy, stop, sup, watching>>
  BY <1>1, <1>4 DEF Exit, StopsNow, Off
<1>7. \A v \in Worker \ {w} : wk'[v] = wk[v]
  BY <1>3 DEF ExitLike, TypeInv
<1>8. Waiting(w, p) <=> restart[w].on = p
  BY <1>1, <1>4 DEF Waiting, StopsNow, Off
<1>9. \A q \in 1..Len(s.proc) :
        s.proc[q] \in {"up", "hung"} => q # p /\ q \in 1..Len(r.proc) /\ r.proc[q] = s.proc[q]
  BY <1>1, <1>3 DEF ExitLike, Known
<1>10. \/ s.child = r.child /\ restart[w].on # p /\ s.wired \subseteq r.wired
       \/ s.child = 0 /\ p = r.child /\ s.wired = {}
  BY <1>1, <1>3, <1>4, <1>8 DEF ExitLike, Own
<1>11. Own(s, restart'[w].at, restart'[w].on)
  <2> HIDE DEF r, s
  <2>1. CASE s.child = r.child /\ restart[w].on # p /\ s.wired \subseteq r.wired
    BY <1>4, <1>5, <1>9, <2>1 DEF Own
  <2>2. CASE s.child = 0 /\ p = r.child /\ s.wired = {}
    BY <1>1, <1>4, <1>5, <1>9, <2>2 DEF Own
  <2> QED
    BY <1>10, <2>1, <2>2
<1>12. Kept(s, restart'[w].at)
  BY <1>2, <1>3, <1>5 DEF Kept, ExitLike, BlownFuse
<1> QED
  BY <1>2, <1>6, <1>7, <1>5, <1>11, <1>12, OneWorkerTidy

LEMMA StopCalledOwn ==
  ASSUME NEW r \in Known, Sane(r), Own(r, "off", 0)
  PROVE  Own(StopCalled(r), "stopping", StopWaitsFor(r))
<1>1. CASE NothingToStop(r)
  <2>1. /\ StopCalled(r).proc = r.proc /\ StopCalled(r).child = 0
        /\ StopCalled(r).wired = {}
    BY <1>1 DEF StopCalled, Known, Detached, Own
  <2>2. StopWaitsFor(r) = 0
    BY <1>1 DEF StopWaitsFor
  <2> QED
    BY <1>1, <2>1, <2>2 DEF Own, NothingToStop
<1>2. CASE ~NothingToStop(r)
  <2>1. r.child \in 1..Len(r.proc) /\ Len(r.proc) \in Nat
    BY <1>2 DEF NothingToStop, Sane, Known
  <2> DEFINE told == [r.proc EXCEPT ![r.child] = IF @ = "up" THEN "told" ELSE @]
  <2>2. /\ Len(told) = Len(r.proc)
        /\ \A q \in 1..Len(r.proc) : told[q] \in {"up", "hung"} => r.proc[q] = told[q]
    BY <2>1 DEF Known, ProcState
  <2> HIDE DEF told
  <2>3. StopCalled(r) = [r EXCEPT !.stopReq = TRUE, !.runner = "stopped",
                                  !.state = "stopping", !.proc = told, !.armed = r.child,
                                  !.loose = r.loose \cup ({r.armed} \ {0})]
    BY <1>2 DEF StopCalled, told
  <2>4. /\ StopCalled(r).proc = told /\ StopCalled(r).child = r.child
        /\ StopCalled(r).wired = r.wired
    BY <2>3 DEF Known
  <2>5. StopWaitsFor(r) = r.child
    BY <1>2 DEF StopWaitsFor
  <2> QED
    BY <2>1, <2>2, <2>4, <2>5 DEF Own
<1> QED
  BY <1>1, <1>2

\* A worker without a child has no process at work, so that a new one is alone.
LEMMA ForkedOwn ==
  ASSUME NEW r \in Known, Sane(r), NEW at, NEW on, Own(r, at, on), r.child = 0
  PROVE  Own(Forked(r), "off", 0) /\ Kept(Forked(r), "off")
<1>1. /\ Forked(r).proc = Append(r.proc, "up") /\ Forked(r).child = Len(r.proc) + 1
      /\ Forked(r).wired = r.wired \cup {Len(r.proc) + 1}
      /\ Forked(r).entry = "fresh"
  BY ForkedSane
<1>2. /\ Len(r.proc) \in Nat /\ Len(Append(r.proc, "up")) = Len(r.proc) + 1
      /\ \A i \in 1..Len(r.proc) : Append(r.proc, "up")[i] = r.proc[i]
  BY OneMore DEF Known
<1>3. r.wired = {}
  BY DEF Own, Sane
<1>4. \A p \in 1..Len(r.proc) : r.proc[p] \notin {"up", "hung"}
  BY <1>2 DEF Own
<1> QED
  BY <1>1, <1>2, <1>3, <1>4 DEF Own, Kept

LEMMA EventTidy ==
  ASSUME TypeInv, Tidy, Undisturbed', NEW w \in Worker,
         Event(w) \/ Trouble(w) \/ ManualRestart(w) \/ RestartGo(w)
  PROVE  Tidy'
<1>0. /\ wk \in [Worker -> Known] /\ wk[w] \in Known /\ Sane(wk[w]) /\ Len(wk[w].proc) \in Nat
      /\ restart \in [Worker -> [at : {"off", "stopping", "forking"}, i : {0}, on : Nat]]
      /\ Own(wk[w], restart[w].at, restart[w].on)
  BY DEF TypeInv, Known, Tidy
<1> DEFINE flags == <<boot, wechat, wechatDone, wechatBusy, stop, sup, watching>>
<1>1. CASE Die(w)
  BY <1>1, ExitTidy DEF Die
<1>2. CASE Leave(w)
  BY <1>2, ExitTidy DEF Leave
<1>3. ASSUME NEW p \in 1..Len(wk[w].proc), NEW state \in ProcState, state \in {"hung", "killed"},
             wk[w].proc[p] \in {"up", "hung"} \/ state = "killed",
             wk' = [wk EXCEPT ![w].proc[p] = state], UNCHANGED restart, UNCHANGED flags
      PROVE  Tidy'
  <2> DEFINE procs == [wk[w].proc EXCEPT ![p] = state]
             r == [wk[w] EXCEPT !.proc = procs]
  <2>1. /\ Len(procs) = Len(wk[w].proc)
        /\ \A q \in 1..Len(procs) : procs[q] \in {"up", "hung"} => wk[w].proc[q] \in {"up", "hung"}
    BY <1>0, <1>3 DEF Known
  <2>2. wk' = [wk EXCEPT ![w] = r]
    BY <1>0, <1>3
  <2> HIDE DEF procs
  <2>3. /\ r.proc = procs /\ r.child = wk[w].child /\ r.wired = wk[w].wired
        /\ r.state = wk[w].state /\ r.recent = wk[w].recent /\ r.timer = wk[w].timer
        /\ r.entry = wk[w].entry
    BY <1>0 DEF Known
  <2> HIDE DEF r
  <2>4. Own(r, restart[w].at, restart[w].on)
    BY <1>0, <2>1, <2>3 DEF Own
  <2>5. wk[w].proc # <<>>
    BY <1>0, <1>3
  <2>6. ~NotYet(w) /\ Kept(wk[w], restart[w].at)
    BY <2>5, Started
  <2>7. Kept(r, restart[w].at)
    BY <2>3, <2>6 DEF Kept, BlownFuse
  <2>8. wk'[w] = r /\ \A v \in Worker \ {w} : wk'[v] = wk[v]
    BY <1>0, <2>2
  <2> QED
    BY <1>3, <2>4, <2>6, <2>7, <2>8, OneWorkerTidy
<1>4. CASE Hang(w)
  BY <1>3, <1>4 DEF Hang, ProcState
<1>5. CASE Kill(w)
  <2>1. Timed(wk[w]) \subseteq 1..Len(wk[w].proc)
    BY <1>0 DEF Timed, Sane
  <2> QED
    BY <1>3, <1>5, <2>1 DEF Kill, ProcState
<1>6. CASE Heartbeat(w)
  <2>1. /\ wk'[w].proc = wk[w].proc /\ wk'[w].child = wk[w].child
        /\ wk'[w].wired = wk[w].wired /\ wk'[w].entry = "fresh"
        /\ \A v \in Worker \ {w} : wk'[v] = wk[v]
        /\ UNCHANGED restart /\ UNCHANGED flags
    BY <1>0, <1>6 DEF Heartbeat, Known
  <2>2. Own(wk'[w], restart'[w].at, restart'[w].on) /\ Kept(wk'[w], restart'[w].at)
    BY <1>0, <2>1 DEF Own, Kept
  <2>3. wk[w].proc # <<>>
    BY <1>0, <1>6 DEF Heartbeat, Beating, Sane
  <2>4. ~NotYet(w)
    BY <2>3, Started
  <2> QED
    BY <2>1, <2>2, <2>4, OneWorkerTidy
<1>7. CASE WatchdogTimeout(w)
  <2> DEFINE r == [wk[w] EXCEPT !.entry = "pending", !.state = "timeout"]
             s == Scheduled(r, "timeout", restart[w].at # "off")
  <2>1. wk' = [wk EXCEPT ![w] = s] /\ UNCHANGED restart /\ UNCHANGED flags
    BY <1>0, <1>7 DEF WatchdogTimeout
  <2>2. r \in Known
    BY <1>0 DEF Known, Status
  <2>3. /\ Sane(r) /\ r.proc = wk[w].proc /\ r.child = wk[w].child /\ r.wired = wk[w].wired
    BY <1>0 DEF Sane, Known
  <2> HIDE DEF r
  <2>4. /\ s.proc = r.proc /\ s.child = r.child /\ s.wired = r.wired
        /\ restart[w].at = "off" => s.timer # "none"
    BY <2>2, <2>3, ScheduledSane DEF Reason
  <2> HIDE DEF s
  <2>5. wk'[w] = s /\ \A v \in Worker \ {w} : wk'[v] = wk[v]
    BY <1>0, <2>1
  <2>6. Own(s, restart[w].at, restart[w].on) /\ Kept(s, restart[w].at)
    BY <1>0, <2>3, <2>4 DEF Own, Kept
  <2>7. ~NotYet(w)
    BY <1>7, Started DEF WatchdogTimeout
  <2> QED
    BY <2>1, <2>5, <2>6, <2>7, OneWorkerTidy
<1>8. ASSUME NEW r \in Known, Sane(r), r.proc = wk[w].proc, r.child = wk[w].child,
             r.wired = wk[w].wired, restart[w].at = "off", BeginRestart(w, r),
             UNCHANGED flags, ~NotYet(w)
      PROVE  Tidy'
  <2>1. Own(r, "off", 0)
    BY <1>0, <1>8 DEF Own
  <2>2. Own(StopCalled(r), "stopping", StopWaitsFor(r))
    BY <1>8, <2>1, StopCalledOwn
  <2>3. /\ wk'[w] = StopCalled(r) /\ restart'[w].at = "stopping"
        /\ restart'[w].on = StopWaitsFor(r)
        /\ \A v \in Worker \ {w} : wk'[v] = wk[v] /\ restart'[v] = restart[v]
    BY <1>0, <1>8 DEF BeginRestart
  <2>4. Own(wk'[w], restart'[w].at, restart'[w].on) /\ Kept(wk'[w], restart'[w].at)
    BY <2>2, <2>3 DEF Kept
  <2> QED
    BY <1>8, <2>3, <2>4, OneWorkerTidy
<1>9. CASE RestartFires(w)
  <2> DEFINE r == [wk[w] EXCEPT !.timer = "none"]
  <2>1. r \in Known
    BY <1>0 DEF Known
  <2>2. /\ Sane(r) /\ r.proc = wk[w].proc /\ r.child = wk[w].child /\ r.wired = wk[w].wired
        /\ r.recent = wk[w].recent /\ r.recent \in Nat
    BY <1>0 DEF Sane, Known
  <2> HIDE DEF r
  <2> DEFINE q == [r EXCEPT !.state = "failed"]
             c == [r EXCEPT !.recent = @ + 1]
  <2>3. c \in Known
    <3>1. r.recent + 1 \in Nat
      BY <2>2
    <3> QED
      BY <2>1, <3>1 DEF Known
  <2>4. /\ Sane(c) /\ c.proc = wk[w].proc /\ c.child = wk[w].child /\ c.wired = wk[w].wired
    BY <2>1, <2>2 DEF Sane, Known
  <2>5. /\ q.proc = wk[w].proc /\ q.child = wk[w].child /\ q.wired = wk[w].wired
        /\ q.state = "failed"
    BY <2>1, <2>2 DEF Known
  <2>6. \/ wk' = [wk EXCEPT ![w] = r] /\ UNCHANGED restart /\ restart[w].at # "off"
        \/ wk' = [wk EXCEPT ![w] = q] /\ UNCHANGED restart
        \/ restart[w].at = "off" /\ BeginRestart(w, r)
        \/ restart[w].at = "off" /\ BeginRestart(w, c)
    <3>1. restart[w].at \in {"off", "stopping", "forking"}
      BY <1>0
    <3> QED
      BY <1>9, <3>1 DEF RestartFires, r, q, c
  <2> HIDE DEF q, c
  <2>7. UNCHANGED flags
    BY <1>9 DEF RestartFires
  <2>8. ~NotYet(w)
    BY <1>9, Started DEF RestartFires
  <2>9. CASE wk' = [wk EXCEPT ![w] = r] /\ UNCHANGED restart /\ restart[w].at # "off"
    <3>1. wk'[w] = r /\ \A v \in Worker \ {w} : wk'[v] = wk[v]
      BY <1>0, <2>9
    <3>2. Own(r, restart[w].at, restart[w].on) /\ Kept(r, restart[w].at)
      BY <1>0, <2>2, <2>9 DEF Own, Kept
    <3> QED
      BY <2>7, <2>8, <2>9, <3>1, <3>2, OneWorkerTidy
  <2>10. CASE wk' = [wk EXCEPT ![w] = q] /\ UNCHANGED restart
    <3>1. wk'[w] = q /\ \A v \in Worker \ {w} : wk'[v] = wk[v]
      BY <1>0, <2>10
    <3>2. Own(q, restart[w].at, restart[w].on) /\ Kept(q, restart[w].at)
      BY <1>0, <2>5, <2>10 DEF Own, Kept
    <3> QED
      BY <2>7, <2>8, <2>10, <3>1, <3>2, OneWorkerTidy
  <2> QED
    BY <1>8, <2>1, <2>2, <2>3, <2>4, <2>6, <2>7, <2>8, <2>9, <2>10
<1>10. CASE ManualRestart(w)
  <2> DEFINE r == [wk[w] EXCEPT !.recent = 0]
  <2>1. r \in Known
    BY <1>0 DEF Known
  <2>2. /\ Sane(r) /\ r.proc = wk[w].proc /\ r.child = wk[w].child /\ r.wired = wk[w].wired
    BY <1>0 DEF Sane, Known
  <2>3. BeginRestart(w, r) /\ restart[w].at = "off" /\ UNCHANGED flags
    BY <1>10 DEF ManualRestart
  <2>4. ~NotYet(w)
    <3> DEFINE crossed == \/ sup = "idle" \/ boot.at \in {"start", "forking"}
                          \/ wechat.at # "off" \/ stop.at # "off"
    <3>1. crossed \in BOOLEAN /\ Commanded("restart", crossed)
      BY <1>10 DEF ManualRestart
    <3>2. ~crossed
      BY <3>1, Alone
    <3>3. boot.at \in {"off", "wait"} /\ wechatDone
      BY <3>2 DEF Tidy, Phases, TypeInv, LoopsTyped
    <3> QED
      BY <3>2, <3>3 DEF NotYet, NotYetQianfan, NotYetWechat
  <2> HIDE DEF r
  <2> QED
    BY <1>8, <2>1, <2>2, <2>3, <2>4
<1>11. CASE RestartFork(w)
  <2>1. PICK r \in ForkOutcomes(wk[w], TRUE) : wk' = [wk EXCEPT ![w] = r]
    BY <1>11 DEF RestartFork
  <2>2. /\ wk'[w] = r /\ restart'[w] = Off /\ UNCHANGED flags
        /\ \A v \in Worker \ {w} : wk'[v] = wk[v] /\ restart'[v] = restart[v]
    BY <1>0, <1>11, <2>1 DEF RestartFork
  <2>3. restart[w].at = "forking" /\ wk[w].child = 0
    BY <1>0, <1>11 DEF RestartFork, Own
  <2>4. \/ r = Forked(wk[w])
        \/ /\ r.proc = wk[w].proc /\ r.child = 0 /\ r.wired \subseteq wk[w].wired
           /\ r.state = "failed"
    BY <1>0, <2>1, ForkOutcomesSane
  <2>5. Own(r, "off", 0) /\ Kept(r, "off")
    <3>1. CASE r = Forked(wk[w])
      BY <1>0, <2>3, <3>1, ForkedOwn
    <3>2. CASE /\ r.proc = wk[w].proc /\ r.child = 0 /\ r.wired \subseteq wk[w].wired
               /\ r.state = "failed"
      BY <1>0, <2>3, <3>2 DEF Own, Kept
    <3> QED
      BY <2>4, <3>1, <3>2
  <2>6. ~NotYet(w)
    BY <2>3, Started
  <2> QED
    BY <2>2, <2>5, <2>6, OneWorkerTidy DEF Off
<1>12. CASE RestartGo(w)
  <2> DEFINE back == StopReturned(wk[w])
  <2>1. PICK o \in StartOutcomes(back) :
          /\ wk' = [wk EXCEPT ![w] = o.r]
          /\ restart' = [restart EXCEPT ![w] = IF o.waits THEN [@ EXCEPT !.at = "forking"]
                                                          ELSE Off]
    BY <1>12 DEF RestartGo
  <2>2. restart[w].at = "stopping" /\ restart[w].on = 0 /\ wk[w].child = 0
    BY <1>0, <1>12 DEF RestartGo, Own
  <2>3. /\ back \in Known /\ Sane(back) /\ back.proc = wk[w].proc /\ back.child = 0
        /\ back.wired = wk[w].wired
    BY <1>0, <2>2, StopReturnedSane
  <2> HIDE DEF back
  <2>4. Own(back, "off", 0) /\ ~AlreadyRunning(back)
    BY <1>0, <2>2, <2>3 DEF Own, AlreadyRunning
  <2>5. StartedLike(back, o)
    BY <2>3, StartOutcomesSane
  <2>6. /\ wk'[w] = o.r /\ UNCHANGED flags
        /\ \A v \in Worker \ {w} : wk'[v] = wk[v] /\ restart'[v] = restart[v]
        /\ ~o.waits => restart'[w].at = "off" /\ restart'[w].on = 0
        /\ o.waits => restart'[w].at = "forking" /\ restart'[w].on = 0
    <3>1. restart[w] \in [at : {"off", "stopping", "forking"}, i : {0}, on : Nat]
      BY <1>0
    <3>2. /\ [restart[w] EXCEPT !.at = "forking"].at = "forking"
          /\ [restart[w] EXCEPT !.at = "forking"].on = 0
      BY <2>2, <3>1
    <3>3. /\ wk'[w] = o.r /\ \A v \in Worker \ {w} : wk'[v] = wk[v] /\ restart'[v] = restart[v]
          /\ restart'[w] = IF o.waits THEN [restart[w] EXCEPT !.at = "forking"] ELSE Off
      BY <1>0, <2>1
    <3>4. UNCHANGED flags
      BY <1>12 DEF RestartGo
    <3>5. ~o.waits => restart'[w] = Off
      BY <3>3
    <3>6. o.waits => restart'[w] = [restart[w] EXCEPT !.at = "forking"]
      BY <3>3
    <3> QED
      BY <3>2, <3>3, <3>4, <3>5, <3>6 DEF Off
  <2>7. Own(o.r, restart'[w].at, restart'[w].on) /\ Kept(o.r, restart'[w].at)
    <3>1. CASE o.r = Forked(back) /\ o.waits = FALSE
      BY <2>3, <2>4, <2>6, <3>1, ForkedOwn
    <3>2. CASE BlownFuse(back) /\ o.r = [back EXCEPT !.state = "failed"] /\ o.waits = FALSE
      <4>1. /\ o.r.proc = back.proc /\ o.r.child = back.child /\ o.r.wired = back.wired
            /\ o.r.state = "failed"
        BY <2>3, <3>2 DEF Known
      <4> QED
        BY <2>4, <2>6, <3>2, <4>1 DEF Own, Kept
    <3>3. CASE /\ o.waits = TRUE
               /\ o.r = [back EXCEPT !.runner = "starting", !.stopReq = FALSE,
                                     !.state = "on"]
      <4>1. /\ o.r.proc = back.proc /\ o.r.child = back.child /\ o.r.wired = back.wired
        BY <2>3, <3>3 DEF Known
      <4> QED
        BY <2>3, <2>4, <2>6, <3>3, <4>1 DEF Own, Kept
    <3> QED
      BY <2>4, <2>5, <3>1, <3>2, <3>3 DEF StartedLike
  <2>8. ~NotYet(w)
    BY <2>2, Started
  <2> QED
    BY <2>6, <2>7, <2>8, OneWorkerTidy
<1> QED
  BY <1>1, <1>2, <1>4, <1>5, <1>6, <1>7, <1>9, <1>10, <1>11, <1>12 DEF Event, Trouble

\* An attempt of a boot loop to start a worker it has come to.
LEMMA FirstStart ==
  ASSUME NEW r \in Known, Sane(r), Untouched(r, "off"), Own(r, "off", 0),
         NEW o \in StartOutcomes(r)
  PROVE  /\ Own(o.r, "off", 0)
         /\ o.waits  => Untouched(o.r, "off")
         /\ ~o.waits => Kept(o.r, "off")
<1>1. StartedLike(r, o) /\ ~AlreadyRunning(r) /\ r.child = 0
  BY StartOutcomesSane DEF AlreadyRunning, Untouched
<1>2. CASE o.r = Forked(r) /\ o.waits = FALSE
  BY <1>1, <1>2, ForkedOwn
<1>3. CASE BlownFuse(r) /\ o.r = [r EXCEPT !.state = "failed"] /\ o.waits = FALSE
  <2>1. /\ o.r.proc = r.proc /\ o.r.child = r.child /\ o.r.wired = r.wired
        /\ o.r.state = "failed"
    BY <1>3 DEF Known
  <2> QED
    BY <1>3, <2>1 DEF Own, Kept
<1>4. CASE /\ o.waits = TRUE
           /\ o.r = [r EXCEPT !.runner = "starting", !.stopReq = FALSE, !.state = "on"]
  <2>1. /\ o.r.proc = r.proc /\ o.r.child = r.child /\ o.r.wired = r.wired
        /\ o.r.timer = r.timer /\ o.r.entry = r.entry
    BY <1>4 DEF Known
  <2> QED
    BY <1>4, <2>1 DEF Own, Untouched
<1> QED
  BY <1>1, <1>2, <1>3, <1>4 DEF StartedLike

LEMMA SecondStart ==
  ASSUME NEW r \in Known, Sane(r), Untouched(r, "off"), Own(r, "off", 0),
         NEW s \in ForkOutcomes(r, FALSE)
  PROVE  Own(s, "off", 0) /\ Kept(s, "off")
<1>1. \/ s = Forked(r)
      \/ /\ s.proc = r.proc /\ s.child = 0 /\ s.wired \subseteq r.wired /\ s.state = "failed"
  BY ForkOutcomesSane
<1>2. CASE s = Forked(r)
  BY <1>2, ForkedOwn DEF Untouched
<1>3. CASE /\ s.proc = r.proc /\ s.child = 0 /\ s.wired \subseteq r.wired
           /\ s.state = "failed"
  BY <1>3 DEF Own, Kept, Untouched
<1> QED
  BY <1>1, <1>2, <1>3

\* A boot loop goes on with one worker, which it has come to.
LEMMA StartOneTidy ==
  ASSUME TypeInv, Tidy, NEW w \in Worker, NotYet(w), NEW r,
         wk' = [wk EXCEPT ![w] = r], UNCHANGED restart,
         Own(r, "off", 0),
         Phases',
         \A v \in Worker \ {w} : NotYet(v)' <=> NotYet(v),
         IF NotYet(w)' THEN Untouched(r, "off") ELSE Kept(r, "off")
  PROVE  Tidy'
<1>1. restart[w].at = "off" /\ restart[w].on = 0
  BY DEF Tidy, Untouched, Own
<1>2. wk'[w] = r /\ \A v \in Worker \ {w} : wk'[v] = wk[v]
  BY DEF TypeInv
<1>3. \A v \in Worker : Own(wk'[v], restart'[v].at, restart'[v].on)
  BY <1>1, <1>2 DEF Tidy
<1>4. \A v \in Worker : IF NotYet(v)' THEN Untouched(wk'[v], restart'[v].at)
                                      ELSE Kept(wk'[v], restart'[v].at)
  BY <1>1, <1>2 DEF Tidy
<1> QED
  BY <1>3, <1>4 DEF Tidy

\* The loops move without a worker.
LEMMA LoopTidy ==
  ASSUME Tidy, UNCHANGED <<wk, restart>>, Phases',
         \A v \in Worker : NotYet(v)' <=> NotYet(v)
  PROVE  Tidy'
BY DEF Tidy

\* Each worker has one place in the two orders.
LEMMA OnePlace ==
  /\ \A i, j \in DOMAIN QianfanOrder : QianfanOrder[j] = QianfanOrder[i] => j = i
  /\ \A i, j \in DOMAIN WechatOrder : WechatOrder[j] = WechatOrder[i] => j = i
  /\ \A i \in DOMAIN QianfanOrder, j \in DOMAIN WechatOrder : WechatOrder[j] # QianfanOrder[i]
BY OrdersAssumption

LEMMA BootTidy ==
  ASSUME TypeInv, Tidy, Undisturbed', Boot \/ ListenerReady \/ StartAll
  PROVE  Tidy'
<1>0. /\ \A w \in Worker : wk[w] \in Known /\ Sane(wk[w])
      /\ boot \in [at : {"off", "start", "forking", "wait"}, i : Nat, on : {0}]
      /\ wechat \in [at : {"off", "start", "forking"}, i : Nat, late : BOOLEAN]
      /\ boot.at # "off" => boot.i >= 1
      /\ wechat.at # "off" => wechat.i >= 1
      /\ Phases
  BY DEF TypeInv, LoopsTyped, Tidy
<1> USE DEF NotYet, NotYetQianfan, NotYetWechat
<1>1. CASE BootStep
  <2>0. /\ boot.i \in DOMAIN QianfanOrder /\ boot.i \in Nat /\ QianfanOrder[boot.i] \in Worker
        /\ boot.at \in {"start", "forking"} /\ sup # "idle"
    <3>1. boot.at \in {"start", "forking"} /\ boot.i <= Len(QianfanOrder)
      BY <1>1 DEF BootStep
    <3>2. boot.at # "off" /\ boot.i \in Nat /\ boot.i >= 1
      BY <1>0, <3>1
    <3>3. boot.i \in DOMAIN QianfanOrder /\ QianfanOrder[boot.i] \in Worker
      BY <3>1, <3>2, OrdersTyped
    <3>4. sup # "idle"
      BY <1>0, <3>2 DEF Phases
    <3> QED
      BY <3>1, <3>2, <3>3, <3>4
  <2> PICK w \in Worker, n \in DOMAIN QianfanOrder : n = boot.i /\ w = QianfanOrder[n]
    BY <2>0
  <2>1. /\ w = QianfanOrder[n] /\ n = boot.i /\ n \in Nat
        /\ boot.at \in {"start", "forking"} /\ sup # "idle"
    BY <2>0
  <2>2. NotYet(w)
    BY <2>1
  <2>3. Untouched(wk[w], "off") /\ Own(wk[w], "off", 0) /\ restart[w].at = "off"
    BY <2>1, <2>2 DEF Tidy, Untouched, Own
  <2>4. UNCHANGED <<restart, wechat, wechatDone, wechatBusy, stop, sup, watching>>
    BY <1>1 DEF BootStep
  <2>5. ASSUME NEW r, wk' = [wk EXCEPT ![w] = r], Own(r, "off", 0), Untouched(r, "off"),
               boot'.at = "forking", boot'.i = boot.i
        PROVE  Tidy'
    <3>1. Phases'
      BY <1>0, <2>1, <2>4, <2>5 DEF Phases
    <3>2. \A v \in Worker : NotYet(v)' <=> NotYet(v)
      BY <2>1, <2>4, <2>5
    <3> HIDE DEF NotYet
    <3> QED
      BY <2>1, <2>2, <2>4, <2>5, <3>1, <3>2, StartOneTidy
  <2>6. ASSUME NEW r, wk' = [wk EXCEPT ![w] = r], Own(r, "off", 0), Kept(r, "off"),
               boot'.at = "start", boot'.i = boot.i + 1
        PROVE  Tidy'
    <3>1. Phases'
      BY <1>0, <2>1, <2>4, <2>6 DEF Phases
    <3>2. ~NotYet(w)'
      <4>1. \A j \in DOMAIN WechatOrder : WechatOrder[j] # w
        BY <2>1, OnePlace
      <4>2. ~NotYetWechat(w)'
        BY <4>1
      <4>3. \A j \in DOMAIN QianfanOrder : QianfanOrder[j] = w => j = n
        BY <2>1, OnePlace
      <4>4. boot'.at # "off" /\ ~(boot'.i <= n)
        BY <1>0, <2>1, <2>6
      <4>5. ~NotYetQianfan(w)'
        BY <2>1, <2>4, <4>3, <4>4
      <4> QED
        BY <4>2, <4>5
    <3>3. \A v \in Worker \ {w} : NotYet(v)' <=> NotYet(v)
      <4> SUFFICES ASSUME NEW v \in Worker \ {w}
                   PROVE  NotYet(v)' <=> NotYet(v)
        OBVIOUS
      <4>1. NotYetWechat(v)' <=> NotYetWechat(v)
        BY <2>4
      <4>2. \A i \in DOMAIN QianfanOrder :
              QianfanOrder[i] = v => (boot'.i <= i <=> boot.i <= i)
        BY <1>0, <2>1, <2>6, OrdersTyped
      <4>3. NotYetQianfan(v)' <=> NotYetQianfan(v)
        BY <2>1, <2>4, <2>6, <4>2
      <4> QED
        BY <4>1, <4>3
    <3> HIDE DEF NotYet
    <3>4. IF NotYet(w)' THEN Untouched(r, "off") ELSE Kept(r, "off")
      BY <2>6, <3>2
    <3> QED
      BY <2>1, <2>2, <2>4, <2>6, <3>1, <3>3, <3>4, StartOneTidy
  <2>7. CASE boot.at = "start"
    <3>1. PICK o \in StartOutcomes(wk[w]) :
            /\ wk' = [wk EXCEPT ![w] = o.r]
            /\ \/ o.waits  /\ boot' = [boot EXCEPT !.at = "forking"]
               \/ ~o.waits /\ boot' = [boot EXCEPT !.i = @ + 1]
      BY <1>1, <2>7 DEF BootStep, StartOne
    <3>2. /\ Own(o.r, "off", 0)
          /\ o.waits  => Untouched(o.r, "off")
          /\ ~o.waits => Kept(o.r, "off")
      BY <1>0, <2>1, <2>3, <3>1, FirstStart
    <3>3. CASE o.waits /\ boot' = [boot EXCEPT !.at = "forking"]
      <4>1. boot'.at = "forking" /\ boot'.i = boot.i
        BY <1>0, <3>3
      <4> QED
        BY <2>5, <3>1, <3>2, <3>3, <4>1
    <3>4. CASE ~o.waits /\ boot' = [boot EXCEPT !.i = @ + 1]
      <4>1. boot'.at = "start" /\ boot'.i = boot.i + 1
        BY <1>0, <2>7, <3>4
      <4> QED
        BY <2>6, <3>1, <3>2, <3>4, <4>1
    <3> QED
      BY <3>1, <3>3, <3>4
  <2>8. CASE boot.at = "forking"
    <3>1. PICK r \in ForkOutcomes(wk[w], FALSE) : wk' = [wk EXCEPT ![w] = r]
      BY <1>1, <2>3, <2>8 DEF BootStep, StartOne
    <3>2. Own(r, "off", 0) /\ Kept(r, "off")
      BY <1>0, <2>1, <2>3, <3>1, SecondStart
    <3>3. boot'.at = "start" /\ boot'.i = boot.i + 1
      <4>1. boot' = [boot EXCEPT !.at = "start", !.i = @ + 1]
        BY <1>1, <2>8 DEF BootStep, StartOne
      <4> QED
        BY <1>0, <4>1
    <3> QED
      BY <2>6, <3>1, <3>2, <3>3
  <2> QED
    BY <2>1, <2>7, <2>8
<1>2. CASE WechatStep
  <2>0. /\ wechat.i \in DOMAIN WechatOrder /\ wechat.i \in Nat /\ WechatOrder[wechat.i] \in Worker
        /\ wechat.at \in {"start", "forking"} /\ wechatBusy /\ ~wechatDone
    <3>1. wechat.at # "off" /\ wechat.i <= Len(WechatOrder)
      BY <1>2 DEF WechatStep
    <3>2. wechat.at \in {"start", "forking"} /\ wechat.i \in Nat /\ wechat.i >= 1
      BY <1>0, <3>1
    <3>3. wechat.i \in DOMAIN WechatOrder /\ WechatOrder[wechat.i] \in Worker
      BY <3>1, <3>2, OrdersTyped
    <3>4. wechatBusy /\ ~wechatDone
      BY <1>0, <3>1 DEF Phases
    <3> QED
      BY <3>2, <3>3, <3>4
  <2> PICK w \in Worker, n \in DOMAIN WechatOrder : n = wechat.i /\ w = WechatOrder[n]
    BY <2>0
  <2>1. /\ w = WechatOrder[n] /\ n = wechat.i /\ n \in Nat
        /\ wechat.at \in {"start", "forking"} /\ wechatBusy /\ ~wechatDone
    BY <2>0
  <2>2. NotYet(w)
    BY <2>1
  <2>3. Untouched(wk[w], "off") /\ Own(wk[w], "off", 0) /\ restart[w].at = "off"
    BY <2>1, <2>2 DEF Tidy, Untouched, Own
  <2>4. UNCHANGED <<restart, boot, wechatDone, wechatBusy, stop, sup, watching>>
    BY <1>2 DEF WechatStep
  <2>5. ASSUME NEW r, wk' = [wk EXCEPT ![w] = r], Own(r, "off", 0), Untouched(r, "off"),
               wechat'.at = "forking", wechat'.i = wechat.i
        PROVE  Tidy'
    <3>1. Phases'
      BY <1>0, <2>1, <2>4, <2>5 DEF Phases
    <3>2. \A v \in Worker : NotYet(v)' <=> NotYet(v)
      BY <2>1, <2>4, <2>5
    <3> HIDE DEF NotYet
    <3> QED
      BY <2>1, <2>2, <2>4, <2>5, <3>1, <3>2, StartOneTidy
  <2>6. ASSUME NEW r, wk' = [wk EXCEPT ![w] = r], Own(r, "off", 0), Kept(r, "off"),
               wechat'.at = "start", wechat'.i = wechat.i + 1
        PROVE  Tidy'
    <3>1. Phases'
      BY <1>0, <2>1, <2>4, <2>6 DEF Phases
    <3>2. ~NotYet(w)'
      <4>1. \A j \in DOMAIN QianfanOrder : QianfanOrder[j] # w
        BY <2>1, OnePlace
      <4>2. ~NotYetQianfan(w)'
        BY <4>1
      <4>3. \A j \in DOMAIN WechatOrder : WechatOrder[j] = w => j = n
        BY <2>1, OnePlace
      <4>4. wechat'.at # "off" /\ ~(wechat'.i <= n)
        BY <1>0, <2>1, <2>6
      <4>5. ~NotYetWechat(w)'
        BY <2>1, <2>4, <4>3, <4>4
      <4> QED
        BY <4>2, <4>5
    <3>3. \A v \in Worker \ {w} : NotYet(v)' <=> NotYet(v)
      <4> SUFFICES ASSUME NEW v \in Worker \ {w}
                   PROVE  NotYet(v)' <=> NotYet(v)
        OBVIOUS
      <4>1. NotYetQianfan(v)' <=> NotYetQianfan(v)
        BY <2>4
      <4>2. \A i \in DOMAIN WechatOrder :
              WechatOrder[i] = v => (wechat'.i <= i <=> wechat.i <= i)
        BY <1>0, <2>1, <2>6, OrdersTyped
      <4>3. NotYetWechat(v)' <=> NotYetWechat(v)
        BY <2>1, <2>4, <2>6, <4>2
      <4> QED
        BY <4>1, <4>3
    <3> HIDE DEF NotYet
    <3>4. IF NotYet(w)' THEN Untouched(r, "off") ELSE Kept(r, "off")
      BY <2>6, <3>2
    <3> QED
      BY <2>1, <2>2, <2>4, <2>6, <3>1, <3>3, <3>4, StartOneTidy
  <2>7. CASE wechat.at = "start"
    <3>1. PICK o \in StartOutcomes(wk[w]) :
            /\ wk' = [wk EXCEPT ![w] = o.r]
            /\ \/ o.waits  /\ wechat' = [wechat EXCEPT !.at = "forking"]
               \/ ~o.waits /\ wechat' = [wechat EXCEPT !.i = @ + 1]
      BY <1>2, <2>7 DEF WechatStep, StartOne
    <3>2. /\ Own(o.r, "off", 0)
          /\ o.waits  => Untouched(o.r, "off")
          /\ ~o.waits => Kept(o.r, "off")
      BY <1>0, <2>1, <2>3, <3>1, FirstStart
    <3>3. CASE o.waits /\ wechat' = [wechat EXCEPT !.at = "forking"]
      <4>1. wechat'.at = "forking" /\ wechat'.i = wechat.i
        BY <1>0, <3>3
      <4> QED
        BY <2>5, <3>1, <3>2, <3>3, <4>1
    <3>4. CASE ~o.waits /\ wechat' = [wechat EXCEPT !.i = @ + 1]
      <4>1. wechat'.at = "start" /\ wechat'.i = wechat.i + 1
        BY <1>0, <2>7, <3>4
      <4> QED
        BY <2>6, <3>1, <3>2, <3>4, <4>1
    <3> QED
      BY <3>1, <3>3, <3>4
  <2>8. CASE wechat.at = "forking"
    <3>1. PICK r \in ForkOutcomes(wk[w], FALSE) : wk' = [wk EXCEPT ![w] = r]
      BY <1>2, <2>3, <2>8 DEF WechatStep, StartOne
    <3>2. Own(r, "off", 0) /\ Kept(r, "off")
      BY <1>0, <2>1, <2>3, <3>1, SecondStart
    <3>3. wechat'.at = "start" /\ wechat'.i = wechat.i + 1
      <4>1. wechat' = [wechat EXCEPT !.at = "start", !.i = @ + 1]
        BY <1>2, <2>8 DEF WechatStep, StartOne
      <4> QED
        BY <1>0, <4>1
    <3> QED
      BY <2>6, <3>1, <3>2, <3>3
  <2> QED
    BY <2>1, <2>7, <2>8
<1>3. CASE BootWaits
  <2>1. boot'.at = "wait" /\ boot'.i = boot.i /\ boot.at = "start" /\ boot.i > Len(QianfanOrder)
    BY <1>0, <1>3 DEF BootWaits
  <2>2. \A v \in Worker : NotYetQianfan(v)' <=> NotYetQianfan(v)
    BY <1>0, <1>3, <2>1, OrdersTyped DEF BootWaits
  <2>3. CASE wechatDone \/ wechatBusy
    <3>1. UNCHANGED <<wk, restart, wechat, wechatDone, wechatBusy, stop, sup, watching>>
      BY <1>3, <2>3 DEF BootWaits
    <3>2. Phases'
      BY <1>0, <2>1, <2>3, <3>1 DEF Phases
    <3>3. \A v \in Worker : NotYetWechat(v)' <=> NotYetWechat(v)
      BY <3>1
    <3> QED
      BY <2>2, <3>1, <3>2, <3>3, LoopTidy
  <2>4. CASE ~(wechatDone \/ wechatBusy)
    <3>1. /\ UNCHANGED <<wk, restart, wechatDone, stop, sup, watching>>
          /\ wechat'.at = "start" /\ wechat'.i = 1 /\ wechatBusy'
      BY <1>3, <2>4 DEF BootWaits
    <3>2. Phases'
      BY <1>0, <2>1, <2>4, <3>1 DEF Phases
    <3>3. \A v \in Worker : NotYetWechat(v)' <=> NotYetWechat(v)
      <4>1. wechat.at = "off"
        BY <1>0, <2>4 DEF Phases
      <4> QED
        BY <2>4, <3>1, <4>1, OrdersTyped
    <3> QED
      BY <2>2, <3>1, <3>2, <3>3, LoopTidy
  <2> QED
    BY <2>3, <2>4
<1>4. CASE BootDone
  <2>1. /\ UNCHANGED <<wk, restart, wechat, wechatDone, wechatBusy, stop, watching>>
        /\ boot.at = "wait" /\ boot'.at = "off" /\ sup' \in {"degraded", "running"}
        /\ wechat.at = "off" /\ sup # "idle"
    BY <1>0, <1>4 DEF BootDone, Off, Phases
  <2>2. Phases'
    BY <1>0, <2>1 DEF Phases
  <2>3. \A v \in Worker : NotYet(v)' <=> NotYet(v)
    BY <2>1
  <2> QED
    BY <2>1, <2>2, <2>3, LoopTidy
<1>5. CASE WechatDone
  <2>1. /\ UNCHANGED <<wk, restart, boot, stop, watching>>
        /\ wechat.at = "start" /\ wechat.i > Len(WechatOrder)
        /\ wechat'.at = "off" /\ wechatDone' = TRUE /\ wechatBusy' = FALSE
        /\ sup' \in {sup, "running"} /\ sup # "idle"
    BY <1>0, <1>5 DEF WechatDone, NoWechat, Phases
  <2>2. Phases'
    BY <1>0, <2>1 DEF Phases
  <2>3. \A v \in Worker : NotYetQianfan(v)' <=> NotYetQianfan(v)
    BY <2>1
  <2>4. \A v \in Worker : ~NotYetWechat(v) /\ ~NotYetWechat(v)'
    BY <1>0, <2>1, OrdersTyped
  <2> QED
    BY <2>1, <2>2, <2>3, <2>4, LoopTidy
<1>6. CASE ListenerReady
  <2> DEFINE w == QianfanOrder[Len(QianfanOrder)]
  <2>1. /\ UNCHANGED <<wk, restart, boot, wechatDone, stop, sup, watching>>
        /\ ~wechatDone /\ ~wechatBusy /\ wechat.at = "off"
        /\ wechat'.at = "start" /\ wechat'.i = 1 /\ wechatBusy' = TRUE
    BY <1>6 DEF ListenerReady
  <2>2. sup # "idle"
    <3>1. Len(QianfanOrder) \in DOMAIN QianfanOrder /\ w \in Worker
      BY OrdersTyped
    <3>2. wk[w].wired # {}
      BY <1>6 DEF ListenerReady, Beating
    <3>3. ~NotYet(w)
      BY <3>1, <3>2 DEF Tidy, Untouched
    <3> QED
      BY <3>1, <3>3
  <2>3. Phases'
    BY <1>0, <2>1, <2>2 DEF Phases
  <2>4. \A v \in Worker : NotYet(v)' <=> NotYet(v)
    BY <2>1, OrdersTyped
  <2> QED
    BY <2>1, <2>3, <2>4, LoopTidy
<1>7. CASE StartAll
  <2>1. /\ UNCHANGED <<wk, restart, wechat, wechatDone, wechatBusy, stop>>
        /\ boot'.at = "start" /\ boot'.i = 1 /\ sup' = "starting" /\ watching' = TRUE
        /\ boot.at = "off" /\ sup \notin {"starting", "running"}
        /\ Commanded("start", sup = "degraded")
    BY <1>7 DEF StartAll
  <2>2. sup = "idle"
    <3>1. sup # "degraded"
      BY <2>1, Alone
    <3> QED
      BY <1>0, <2>1, <3>1 DEF Phases
  <2>3. Phases'
    BY <1>0, <2>1, <2>2 DEF Phases
  <2>4. \A v \in Worker : NotYet(v)' <=> NotYet(v)
    BY <2>1, <2>2, OrdersTyped
  <2> QED
    BY <2>1, <2>3, <2>4, LoopTidy
<1> QED
  BY <1>1, <1>2, <1>3, <1>4, <1>5, <1>6, <1>7 DEF Boot

\* stopAll has not begun.
LEMMA NoStop ==
  ASSUME TypeInv, Tidy, Undisturbed', StopNext \/ StopGo \/ StopDone \/ StopAll
  PROVE  FALSE
<1>1. stop.at = "off"
  BY DEF Tidy, Phases, Off
<1>2. CASE StopNext \/ StopGo \/ StopDone
  BY <1>1, <1>2 DEF StopNext, StopGo, StopDone
<1>3. CASE StopAll
  BY <1>3, Alone DEF StopAll
<1> QED
  BY <1>2, <1>3

LEMMA SupervisorInit == Init => SupervisorInv
<1> SUFFICES ASSUME Init
             PROVE  Tidy
  BY TypeInit DEF SupervisorInv
<1>1. /\ boot.at = "off" /\ wechat.at = "off" /\ stop = Off /\ sup = "idle"
      /\ ~wechatDone /\ ~wechatBusy
  BY DEF Init, Off, NoWechat
<1>2. Phases
  BY <1>1 DEF Phases
<1>3. \A w \in Worker :
        /\ wk[w].proc = <<>> /\ wk[w].child = 0 /\ wk[w].wired = {}
        /\ wk[w].timer = "none" /\ wk[w].entry = "none"
        /\ restart[w].at = "off" /\ restart[w].on = 0
  BY DEF Init, Off
<1>4. \A w \in Worker : /\ Own(wk[w], restart[w].at, restart[w].on)
                        /\ Untouched(wk[w], restart[w].at)
  BY <1>3 DEF Own, Untouched
<1>5. \A w \in Worker : NotYet(w)
  BY <1>1, OrdersAssumption DEF NotYet, NotYetQianfan, NotYetWechat
<1> QED
  BY <1>2, <1>4, <1>5 DEF Tidy

\* SupervisorInv is inductive: the stop of all is the only step that could
\* leave a worker with two processes, and it ends what the invariant claims.
LEMMA SupervisorStep == SupervisorInv /\ [Next]_vars => SupervisorInv'
<1> SUFFICES ASSUME SupervisorInv, [Next]_vars
             PROVE  SupervisorInv'
  OBVIOUS
<1>1. TypeInv /\ TypeInv'
  BY TypeStep DEF SupervisorInv
<1>2. ASSUME Undisturbed'
      PROVE  Tidy'
  <2>1. Tidy
    BY <1>1, <1>2, CommandsGrow DEF SupervisorInv
  <2>2. CASE UNCHANGED vars
    <3>1. Phases'
      BY <2>1, <2>2 DEF vars, Tidy, Phases
    <3>2. \A w \in Worker : NotYet(w)' <=> NotYet(w)
      BY <2>2 DEF vars, NotYet, NotYetQianfan, NotYetWechat
    <3> QED
      BY <2>1, <2>2, <3>1, <3>2, LoopTidy DEF vars
  <2>3. CASE StopNext \/ StopGo \/ StopDone \/ StopAll
    BY <1>1, <1>2, <2>1, <2>3, NoStop
  <2>4. CASE Boot \/ ListenerReady \/ StartAll
    BY <1>1, <1>2, <2>1, <2>4, BootTidy
  <2>5. ASSUME NEW w \in Worker,
               RestartGo(w) \/ Event(w) \/ Trouble(w) \/ ManualRestart(w)
        PROVE  Tidy'
    BY <1>1, <1>2, <2>1, <2>5, EventTidy
  <2> QED
    BY <2>2, <2>3, <2>4, <2>5 DEF Next
<1> QED
  BY <1>1, <1>2 DEF SupervisorInv

LEMMA SupervisorInductive == Spec => []SupervisorInv
BY SupervisorInit, SupervisorStep, PTL DEF Spec

\* Until the user stops the relay, or asks for something while a boot is
\* forking, no worker has two processes at work, whatever dies, hangs, is
\* restarted or can not be forked.
THEOREM OneProcessAtWork == Spec => []OneProcess
<1>1. SupervisorInv => OneProcess
  <2> SUFFICES ASSUME SupervisorInv, Undisturbed, NEW w \in Worker,
                      NEW p \in 1..Len(wk[w].proc), NEW q \in 1..Len(wk[w].proc),
                      {wk[w].proc[p], wk[w].proc[q]} \subseteq {"up", "hung"}
               PROVE  p = q
    BY DEF OneProcess
  <2>1. Own(wk[w], restart[w].at, restart[w].on)
    BY DEF SupervisorInv, Tidy
  <2>2. wk[w].proc[p] \in {"up", "hung"} /\ wk[w].proc[q] \in {"up", "hung"}
    OBVIOUS
  <2> QED
    BY <2>1, <2>2 DEF Own
<1> QED
  BY <1>1, SupervisorInductive, PTL

\* While the relay runs no worker is forgotten: what is down is restarted, will
\* be, is watched, or is shown as failed.
THEOREM NobodyForgotten == Spec => []NoneForgotten
<1>1. SupervisorInv => NoneForgotten
  <2> SUFFICES ASSUME SupervisorInv, Running, NEW w \in Worker
               PROVE  LooksAfter(w)
    BY DEF NoneForgotten
  <2>1. Tidy /\ sup \in {"running", "degraded"} /\ boot.at = "off"
    BY DEF SupervisorInv, Running
  <2>2. watching /\ wechatDone
    BY <2>1 DEF Tidy, Phases
  <2>3. ~NotYet(w)
    BY <2>1, <2>2 DEF NotYet, NotYetQianfan, NotYetWechat
  <2>4. Kept(wk[w], restart[w].at)
    BY <2>1, <2>3 DEF Tidy
  <2> QED
    BY <2>2, <2>4 DEF Kept, LooksAfter, GivenUp
<1> QED
  BY <1>1, SupervisorInductive, PTL
===============================================================================
