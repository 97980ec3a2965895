--------------------------- MODULE BuyerNotifyProofs ---------------------------
(***************************************************************************)
(* What is proved of BuyerNotify for any messages, targets and faults.     *)
(*                                                                         *)
(* The inductive invariant follows a flush through its awaits: nobody else *)
(* has its sightings (FlushesApart), whom it takes for told has a notice   *)
(* of its buyer (Sound), and the requests that wait in persistence's inbox *)
(* are those of the step it is at (QueueOK).                               *)
(*                                                                         *)
(* Then, of the notices that were sent: a reply id stands for one          *)
(* conversation, a notice can be answered, and a sighting of a message is  *)
(* in one notice, which is on the message's record.  That follows a        *)
(* message's claim: each message has one bearer, the flush or the request  *)
(* that will mark it or give it up (BearersOnce), and a message of a       *)
(* notice is marked, about to be marked, or borne by a flush whose notice  *)
(* was sent (Spoken).                                                      *)
(***************************************************************************)
EXTENDS BuyerNotify, TLAPS, WellFoundedInduction

-------------------------------------------------------------------------------
(***************************************************************************)
(* First and last indices                                                  *)
(***************************************************************************)
LEMMA SmallestIndex ==
  ASSUME NEW S, S \subseteq Nat, S # {}
  PROVE  \E x \in S : \A y \in S : x <= y
<1>1. PICK x \in S : \A y \in S : ~(<<y, x>> \in OpToRel(<, Nat))
  BY NatLessThanWellFounded, WFMin
<1>2. \A y \in S : ~(y < x)
  BY <1>1 DEF OpToRel
<1> QED
  BY <1>2

LEMMA LargestIndex ==
  ASSUME NEW n \in Nat, NEW S, S \subseteq 1..n, S # {}
  PROVE  \E x \in S : \A y \in S : y <= x
<1> DEFINE T == {m \in 0..n : n - m \in S}
<1>1. T \subseteq Nat /\ T # {}
  <2>1. PICK x \in S : TRUE
    OBVIOUS
  <2>2. n - x \in 0..n /\ n - (n - x) = x
    BY <2>1
  <2>3. n - x \in T
    BY <2>1, <2>2
  <2>4. T \subseteq Nat
    OBVIOUS
  <2> QED
    BY <2>3, <2>4
<1>2. PICK z \in T : \A y \in T : z <= y
  <2> HIDE DEF T
  <2> QED
    BY <1>1, SmallestIndex
<1>3. z \in 0..n /\ n - z \in S
  BY <1>2
<1>4. \A y \in S : n - y \in T
  OBVIOUS
<1>5. \A y \in S : z <= n - y
  BY <1>2, <1>4
<1>6. \A y \in S : y <= n - z
  BY <1>3, <1>5
<1> QED
  BY <1>3, <1>6

LEMMA TurnIsOpen ==
  ASSUME NEW todo \in SUBSET Target, todo # {}
  PROVE  Turn(todo) \in todo
<1> DEFINE left == {n \in DOMAIN TargetOrder : TargetOrder[n] \in todo}
<1>1. left \subseteq Nat
  BY NotifyAssumption
<1>2. left # {}
  BY DEF Target, Elems
<1>3. \E n \in left : \A k \in left : n <= k
  <2> HIDE DEF left
  <2> QED
    BY <1>1, <1>2, SmallestIndex
<1> QED
  BY <1>3 DEF Turn

-------------------------------------------------------------------------------
(***************************************************************************)
(* The inductive invariant                                                 *)
(***************************************************************************)
Buyer(c) == ConvOf[MsgOf[c]]

\* Everybody in S has a notice of the buyer of v.
AllReached(v, S) == \A t \in S : Reached(v, t)

\* A flush of c, whatever it is waiting for ...
Core(j, c) ==
  /\ j \in Job
  /\ c \in Elems(j.batch) /\ \A d \in Elems(j.batch) : Buyer(d) = Buyer(c)
  /\ j.i \in 1..Len(j.batch)
  /\ AllReached(Buyer(c), j.told)

\* ... and what it knows while it waits.
Sound(j, c) ==
  /\ Core(j, c)
  /\ j.step \in {"send", "record"} => j.todo # {}
  /\ j.step = "record" => Reached(Buyer(c), Turn(j.todo))
  /\ j.step = "mark" => Target \subseteq j.told

Flushing(c) == at[c] = "flush"
JobsSound   == \A c \in Copy : Flushing(c) => Sound(job[c], c)

\* A sighting is in one bucket or in one flush.
FlushesApart ==
  /\ \A c \in Copy : Flushing(c) =>
       \A d \in Elems(job[c].batch) : d # c => at[d] = "queued"
  /\ \A c, d \in Copy : Flushing(c) /\ Flushing(d) /\ c # d =>
       Elems(job[c].batch) \cap Elems(job[d].batch) = {}
  /\ \A v \in Conv : \A c \in Elems(bucket[v]) :
       /\ at[c] = "queued" /\ Buyer(c) = v
       /\ \A d \in Copy : Flushing(d) => c \notin Elems(job[d].batch)

\* c waits for the answer to r.
Waits(r, c) ==
  /\ ConvOf[r.msg] = Buyer(c)
  /\ r.op \in Waiting => at[c] = r.op
  /\ r.op \in Asking => Flushing(c) /\ job[c].step = r.op

RequestSound(r) ==
  /\ r.by # None => Waits(r, r.by)
  /\ r.op \in {"open", "close"} =>
       r.row \in Row /\ AllReached(ConvOf[r.row.msg], r.row.told)
  /\ r.op = "mark" => AllReached(ConvOf[r.msg], Target)

QueueOK(q) ==
  /\ q \in Seq(Request)
  /\ \A n \in 1..Len(q) : RequestSound(q[n])
  /\ \A n, k \in 1..Len(q) : n # k /\ q[n].by = q[k].by => q[n].by = None

FilesSound ==
  /\ \A n \in 1..Len(rows) : AllReached(ConvOf[rows[n].msg], rows[n].told)
  /\ \A m \in Message : found[m] # None => AllReached(ConvOf[m], found[m].told)

\* Half a mark: the first of its two files is written.
HalfMarked ==
  half => inbox # <<>> /\ Head(inbox).op = "mark" /\ Head(inbox).msg \in notified

NotifyInv ==
  /\ TypeOK /\ JobsSound /\ FlushesApart /\ QueueOK(inbox) /\ FilesSound
  /\ HalfMarked /\ BlockedOnlyIfNotified /\ NotifiedReachedAll

-------------------------------------------------------------------------------
(***************************************************************************)
(* Flushes                                                                 *)
(***************************************************************************)
LEMMA BuyerType == \A c \in Copy : MsgOf[c] \in Message /\ Buyer(c) \in Conv
BY NotifyAssumption DEF Buyer

LEMMA ReachedGrows ==
  ASSUME notices \subseteq notices', NEW v
  PROVE  /\ \A t : Reached(v, t) => Reached(v, t)'
         /\ \A S : AllReached(v, S) => AllReached(v, S)'
<1>1. \A t : Reached(v, t) => Reached(v, t)'
  BY DEF Reached
<1> QED
  BY <1>1 DEF AllReached

LEMMA SoundGrows ==
  ASSUME notices \subseteq notices', NEW c \in Copy, NEW j, Sound(j, c)
  PROVE  Sound(j, c)'
<1>1. AllReached(Buyer(c), j.told)'
  BY ReachedGrows DEF Sound, Core, Buyer
<1>2. j.step = "record" => Reached(Buyer(c), Turn(j.todo))'
  BY ReachedGrows DEF Sound, Buyer, Turn
<1> QED
  BY <1>1, <1>2 DEF Sound, Core, Buyer, Turn

LEMMA AtCore ==
  ASSUME NEW c, NEW j, Core(j, c), NEW i \in 1..Len(j.batch), NEW step \in Asking \cup {"send"}
  PROVE  /\ Core(At(j, step, i), c)
         /\ At(j, step, i).step = step /\ At(j, step, i).i = i
         /\ At(j, step, i).batch = j.batch /\ At(j, step, i).told = j.told
         /\ At(j, step, i).todo = j.todo /\ At(j, step, i).failed = j.failed
         /\ At(j, step, i).id = j.id /\ At(j, step, i).round = j.round
<1>1. j \in Job /\ i \in Nat
  BY DEF Core
<1>2. /\ At(j, step, i) \in Job
      /\ At(j, step, i).step = step /\ At(j, step, i).i = i
      /\ At(j, step, i).batch = j.batch /\ At(j, step, i).told = j.told
      /\ At(j, step, i).todo = j.todo /\ At(j, step, i).failed = j.failed
      /\ At(j, step, i).id = j.id /\ At(j, step, i).round = j.round
  BY <1>1 DEF At, Job
<1> QED
  BY <1>2 DEF Core

LEMMA ClosingSound ==
  ASSUME NEW c, NEW j, Core(j, c), NEW i \in 1..Len(j.batch)
  PROVE  Sound(Closing(j, i), c) /\ Closing(j, i).batch = j.batch
         /\ Closing(j, i).id = j.id
<1>1. CASE AllTold(j)
  BY <1>1, AtCore DEF Closing, Sound, AllTold, Asking
<1>2. CASE ~AllTold(j)
  BY <1>2, AtCore DEF Closing, Sound, Asking
<1> QED
  BY <1>1, <1>2

LEMMA RoundTwo ==
  ASSUME NEW k \in Job, NEW todo \in SUBSET Target
  PROVE  LET n == [k EXCEPT !.todo = todo, !.failed = {}, !.round = 2]
         IN  /\ n \in Job /\ n.step = k.step /\ n.batch = k.batch /\ n.told = k.told
             /\ n.i = k.i /\ n.todo = todo /\ n.id = k.id
<1>1. {} \in SUBSET Target /\ 2 \in 1..2
  OBVIOUS
<1> QED
  BY <1>1 DEF Job

LEMMA SendingSound ==
  ASSUME NEW c, NEW j, Core(j, c)
  PROVE  Sound(Sending(j), c) /\ Sending(j).batch = j.batch /\ Sending(j).id = j.id
<1>1. 1 \in 1..Len(j.batch)
  BY DEF Core, Job
<1>2. CASE j.todo # {}
  BY <1>1, <1>2, AtCore DEF Sending, Sound
<1>3. CASE j.todo = {} /\ j.failed # {} /\ j.round = 1
  <2> DEFINE k == At(j, "send", 1)
             n == [k EXCEPT !.todo = j.failed, !.failed = {}, !.round = 2]
  <2>1. /\ Core(k, c) /\ k.step = "send" /\ k.batch = j.batch /\ k.told = j.told /\ k.i = 1
        /\ k.id = j.id
    BY <1>1, AtCore
  <2>2. j.failed \in SUBSET Target
    BY DEF Core, Job
  <2>3. /\ n \in Job /\ n.step = k.step /\ n.batch = k.batch /\ n.told = k.told
        /\ n.i = k.i /\ n.todo = j.failed /\ n.id = k.id
    BY <2>1, <2>2, RoundTwo DEF Core
  <2>4. Sending(j) = n
    BY <1>3 DEF Sending
  <2> HIDE DEF n, k
  <2> QED
    BY <1>1, <1>3, <2>1, <2>3, <2>4 DEF Sound, Core
<1>4. CASE j.todo = {} /\ ~(j.failed # {} /\ j.round = 1)
  BY <1>1, <1>4, ClosingSound DEF Sending
<1> QED
  BY <1>2, <1>3, <1>4
\* The flush after one target: told, or put off to the second round.
LEMMA OneLess ==
  ASSUME NEW k \in Job, NEW t \in Target
  PROVE  /\ LET n == [k EXCEPT !.todo = @ \ {t}, !.told = @ \cup {t}]
            IN  /\ n \in Job /\ n.batch = k.batch /\ n.i = k.i /\ n.id = k.id
                /\ n.told = k.told \cup {t}
         /\ LET n == [k EXCEPT !.todo = @ \ {t}, !.failed = @ \cup {t}]
            IN  /\ n \in Job /\ n.batch = k.batch /\ n.i = k.i /\ n.id = k.id
                /\ n.told = k.told
<1>1. /\ k.told \cup {t} \in SUBSET Target /\ k.failed \cup {t} \in SUBSET Target
      /\ k.todo \ {t} \in SUBSET Target
  BY DEF Job
<1>2. \A todo, told \in SUBSET Target :
        LET n == [k EXCEPT !.todo = todo, !.told = told]
        IN  /\ n \in Job /\ n.batch = k.batch /\ n.i = k.i /\ n.id = k.id
            /\ n.told = told
  BY DEF Job
<1>3. \A todo, failed \in SUBSET Target :
        LET n == [k EXCEPT !.todo = todo, !.failed = failed]
        IN  /\ n \in Job /\ n.batch = k.batch /\ n.i = k.i /\ n.id = k.id
            /\ n.told = k.told
  BY DEF Job
<1> QED
  BY <1>1, <1>2, <1>3, ZenonT(40)

LEMMA ToldSound ==
  ASSUME NEW c, NEW j, Core(j, c), j.todo # {}, Reached(Buyer(c), Turn(j.todo))
  PROVE  Sound(Told(j), c) /\ Told(j).batch = j.batch /\ Told(j).id = j.id
<1> DEFINE t == Turn(j.todo)
           n == [j EXCEPT !.todo = @ \ {t}, !.told = @ \cup {t}]
<1>1. t \in Target /\ j \in Job
  BY TurnIsOpen DEF Core, Job
<1>2. /\ n \in Job /\ n.batch = j.batch /\ n.i = j.i /\ n.id = j.id
      /\ n.told = j.told \cup {t}
  <2> HIDE DEF t
  <2> QED
    BY <1>1, OneLess
<1>3. Core(n, c)
  BY <1>2 DEF Core, AllReached
<1>4. Told(j) = Sending(n)
  BY DEF Told
<1> HIDE DEF n
<1> QED
  BY <1>2, <1>3, <1>4, SendingSound

LEMMA FailedSound ==
  ASSUME NEW c, NEW j, Core(j, c), j.todo # {}
  PROVE  Sound(Failed(j), c) /\ Failed(j).batch = j.batch /\ Failed(j).id = j.id
<1> DEFINE t == Turn(j.todo)
           n == [j EXCEPT !.todo = @ \ {t}, !.failed = @ \cup {t}]
<1>1. t \in Target /\ j \in Job
  BY TurnIsOpen DEF Core, Job
<1>2. /\ n \in Job /\ n.batch = j.batch /\ n.i = j.i /\ n.id = j.id
      /\ n.told = j.told
  <2> HIDE DEF t
  <2> QED
    BY <1>1, OneLess
<1>3. Core(n, c)
  BY <1>2 DEF Core
<1>4. Failed(j) = Sending(n)
  BY DEF Failed
<1> HIDE DEF n
<1> QED
  BY <1>2, <1>3, <1>4, SendingSound

LEMMA NamedSound ==
  ASSUME NEW c, NEW k, Core(k, c), k.step = "open", NEW id \in Nat
  PROVE  LET n == [k EXCEPT !.id = id]
         IN  Sound(n, c) /\ n.step = "open" /\ n.batch = k.batch /\ n.id = id
<1> DEFINE n == [k EXCEPT !.id = id]
<1>1. k \in Job
  BY DEF Core
<1>2. /\ n \in Job /\ n.step = k.step /\ n.batch = k.batch /\ n.told = k.told
      /\ n.i = k.i /\ n.id = id
  BY <1>1 DEF Job
<1>3. Sound(n, c) /\ n.step = "open"
  <2> HIDE DEF n
  <2> QED
    BY <1>2 DEF Sound, Core
<1> QED
  BY <1>2, <1>3

\* A row that is taken up again brings with it whom it remembers.
LEMMA ResumingSound ==
  ASSUME NEW c, NEW j, Core(j, c), NEW row, row.id \in Nat, row.told \in SUBSET Target,
         AllReached(Buyer(c), row.told)
  PROVE  /\ Sound(Resuming(j, row), c) /\ Resuming(j, row).batch = j.batch
         /\ row.id # NoId => Resuming(j, row).id = row.id
         /\ row.id = NoId => Resuming(j, row).id = j.id
<1> DEFINE n == [j EXCEPT !.told = row.told, !.todo = Target \ row.told]
<1>1. j \in Job /\ 1 \in 1..Len(j.batch) /\ Target \ row.told \in SUBSET Target
  BY DEF Core, Job
<1>2. n \in Job /\ n.batch = j.batch /\ n.i = j.i /\ n.id = j.id /\ n.told = row.told
  BY <1>1 DEF Job
<1>3. Core(n, c)
  BY <1>2 DEF Core
<1>4. CASE row.id = NoId
  <2>1. Resuming(j, row) = At(n, "alloc", 1)
    BY <1>4 DEF Resuming
  <2> HIDE DEF n
  <2> QED
    BY <1>1, <1>2, <1>3, <1>4, <2>1, AtCore DEF Sound, Asking
<1>5. CASE row.id # NoId
  <2> DEFINE k == At(n, "open", 1)
  <2>1. Resuming(j, row) = [k EXCEPT !.id = row.id]
    BY <1>5 DEF Resuming
  <2>2. Core(k, c) /\ k.step = "open" /\ k.batch = n.batch
    <3> HIDE DEF n
    <3> QED
      BY <1>1, <1>2, <1>3, AtCore DEF Asking
  <2> HIDE DEF n, k
  <2> QED
    BY <1>2, <1>5, <2>1, <2>2, NamedSound
<1> QED
  BY <1>4, <1>5
\* Every await of flushMergeBucket leads to a sound one, or to the end.
LEMMA ThenSound ==
  ASSUME NEW c, NEW j, Sound(j, c), j.step \in Asking, NEW answer,
         answer.id \in Nat, answer.told \in SUBSET Target, AllReached(Buyer(c), answer.told)
  PROVE  \/ Then(j, answer) = NoJob
         \/ /\ Sound(Then(j, answer), c) /\ Then(j, answer).batch = j.batch
            /\ \/ Then(j, answer).id = j.id
               \/ j.step \in {"lookup", "alloc"} /\ Then(j, answer).id = answer.id
<1>0. Core(j, c) /\ 1 \in 1..Len(j.batch) /\ j.i \in 1..Len(j.batch) /\ Len(j.batch) \in Nat
  BY DEF Sound, Core, Job
<1>1. CASE j.step = "lookup"
  BY <1>0, <1>1, ResumingSound DEF Then
<1>2. CASE j.step = "alloc"
  <2> DEFINE k == At(j, "open", 1)
  <2>1. Core(k, c) /\ k.step = "open" /\ k.batch = j.batch
    BY <1>0, AtCore DEF Asking
  <2>2. Then(j, answer) = [k EXCEPT !.id = answer.id]
    BY <1>2 DEF Then
  <2> HIDE DEF k
  <2> QED
    BY <1>2, <2>1, <2>2, NamedSound
<1>3. CASE j.step = "open"
  BY <1>0, <1>3, SendingSound DEF Then
<1>4. CASE j.step = "record"
  BY <1>0, <1>4, ToldSound DEF Then, Sound
<1>5. CASE j.step = "mark"
  <2>1. Then(j, answer) = At(j, "close", j.i)
    BY <1>5 DEF Then
  <2> QED
    BY <1>0, <2>1, AtCore DEF Sound, Asking
<1>6. CASE j.step = "close"
  <2>1. CASE ~LastOne(j)
    <3>1. j.i + 1 \in 1..Len(j.batch)
      BY <1>0, <2>1 DEF LastOne
    <3>2. Then(j, answer) = Closing(j, j.i + 1)
      BY <1>6, <2>1 DEF Then
    <3> QED
      BY <1>0, <3>1, <3>2, ClosingSound
  <2>2. CASE LastOne(j) /\ j.told = {}
    <3>1. Then(j, answer) = At(j, "release", 1)
      BY <1>6, <2>2 DEF Then
    <3> QED
      BY <1>0, <3>1, AtCore DEF Sound, Asking
  <2>3. CASE LastOne(j) /\ j.told # {} /\ ~AllTold(j)
    <3>1. Then(j, answer) = At(j, "partial", 1)
      BY <1>6, <2>3 DEF Then
    <3> QED
      BY <1>0, <3>1, AtCore DEF Sound, Asking
  <2>4. CASE LastOne(j) /\ j.told # {} /\ AllTold(j)
    BY <1>6, <2>4 DEF Then
  <2> QED
    BY <2>1, <2>2, <2>3, <2>4
<1>7. CASE j.step \in {"release", "partial"}
  <2>1. CASE ~LastOne(j)
    <3>1. j.i + 1 \in 1..Len(j.batch)
      BY <1>0, <2>1 DEF LastOne
    <3>2. Then(j, answer) = At(j, j.step, j.i + 1)
      BY <1>7, <2>1 DEF Then
    <3>3. j.step \in Asking \cup {"send"} /\ j.step \notin {"send", "record", "mark"}
      BY <1>7
    <3> QED
      BY <1>0, <3>1, <3>2, <3>3, AtCore DEF Sound
  <2>2. CASE LastOne(j)
    BY <1>7, <2>2 DEF Then
  <2> QED
    BY <2>1, <2>2
<1> QED
  BY <1>1, <1>2, <1>3, <1>4, <1>5, <1>6, <1>7 DEF Asking

-------------------------------------------------------------------------------
(***************************************************************************)
(* Queues of requests                                                      *)
(***************************************************************************)
LEMMA QueueMoves ==
  ASSUME NEW q, QueueOK(q), notices \subseteq notices',
         \A n \in 1..Len(q) : q[n].by # None =>
           at'[q[n].by] = at[q[n].by] /\ job'[q[n].by] = job[q[n].by]
  PROVE  QueueOK(q)'
<1> SUFFICES ASSUME NEW n \in 1..Len(q) PROVE RequestSound(q[n])'
  BY DEF QueueOK
<1>1. PICK r : r = q[n]
  OBVIOUS
<1>2. RequestSound(r)
  BY <1>1 DEF QueueOK
<1>3. r.by # None => at'[r.by] = at[r.by] /\ job'[r.by] = job[r.by]
  BY <1>1
<1>4. r.by # None => Waits(r, r.by)'
  BY <1>2, <1>3 DEF RequestSound, Waits, Flushing, Buyer
<1>5. /\ AllReached(ConvOf[r.row.msg], r.row.told) => AllReached(ConvOf[r.row.msg], r.row.told)'
      /\ AllReached(ConvOf[r.msg], Target) => AllReached(ConvOf[r.msg], Target)'
  BY ReachedGrows DEF Target, Elems
<1>6. RequestSound(r)'
  BY <1>2, <1>4, <1>5 DEF RequestSound
<1> QED
  BY <1>1, <1>6

LEMMA QueueIs ==
  ASSUME NEW p, inbox' = p, QueueOK(p)'
  PROVE  QueueOK(inbox)'
BY DEF QueueOK, RequestSound, Waits, Flushing, AllReached, Reached, Buyer

LEMMA QueueTail ==
  ASSUME NEW q, QueueOK(q), q # <<>>
  PROVE  /\ Head(q) \in Request /\ RequestSound(Head(q)) /\ QueueOK(Tail(q))
         /\ Head(q).by # None => \A n \in 1..Len(Tail(q)) : Tail(q)[n].by # Head(q).by
<1>1. /\ q \in Seq(Request) /\ Tail(q) \in Seq(Request) /\ Head(q) = q[1] /\ 1 \in 1..Len(q)
      /\ Len(Tail(q)) = Len(q) - 1 /\ Len(q) \in Nat
      /\ \A n \in 1..Len(Tail(q)) : n + 1 \in 1..Len(q) /\ Tail(q)[n] = q[n + 1]
  BY DEF QueueOK
<1>2. q[1] \in Request
  BY <1>1
<1>3. \A n \in 1..Len(Tail(q)) : RequestSound(Tail(q)[n])
  BY <1>1 DEF QueueOK
<1>4. \A n, k \in 1..Len(Tail(q)) :
        n # k /\ Tail(q)[n].by = Tail(q)[k].by => Tail(q)[n].by = None
  <2> SUFFICES ASSUME NEW n \in 1..Len(Tail(q)), NEW k \in 1..Len(Tail(q)), n # k,
                      Tail(q)[n].by = Tail(q)[k].by
               PROVE  Tail(q)[n].by = None
    OBVIOUS
  <2>1. n + 1 # k + 1
    BY <1>1
  <2> QED
    BY <1>1, <2>1 DEF QueueOK
<1>5. Head(q).by # None => \A n \in 1..Len(Tail(q)) : Tail(q)[n].by # Head(q).by
  <2> SUFFICES ASSUME Head(q).by # None, NEW n \in 1..Len(Tail(q))
               PROVE  Tail(q)[n].by # Head(q).by
    OBVIOUS
  <2>1. n + 1 # 1
    BY <1>1
  <2> QED
    BY <1>1, <2>1 DEF QueueOK
<1> QED
  BY <1>1, <1>2, <1>3, <1>4, <1>5 DEF QueueOK

LEMMA AbandonOne ==
  ASSUME NEW r \in Request
  PROVE  /\ [r EXCEPT !.by = None] \in Request /\ [r EXCEPT !.by = None].by = None
         /\ [r EXCEPT !.by = None].op = r.op /\ [r EXCEPT !.by = None].msg = r.msg
         /\ [r EXCEPT !.by = None].row = r.row
BY DEF Request

LEMMA QueueAbandon ==
  ASSUME NEW q, QueueOK(q), NEW cs \in SUBSET Copy
  PROVE  /\ QueueOK(Abandon(q, cs)) /\ Len(Abandon(q, cs)) = Len(q)
         /\ \A n \in 1..Len(q) :
              /\ Abandon(q, cs)[n].by \notin cs
              /\ Abandon(q, cs)[n].op = q[n].op /\ Abandon(q, cs)[n].msg = q[n].msg
              /\ Abandon(q, cs)[n].row = q[n].row
<1> DEFINE p == Abandon(q, cs)
<1>1. /\ q \in Seq(Request) /\ DOMAIN q = 1..Len(q) /\ Len(q) \in Nat
      /\ \A n \in 1..Len(q) : q[n] \in Request
  BY DEF QueueOK
<1>2. None \notin cs
  BY NotifyAssumption
<1>3. /\ p = [n \in 1..Len(q) |-> IF q[n].by \in cs THEN [q[n] EXCEPT !.by = None] ELSE q[n]]
  BY <1>1 DEF Abandon
<1> HIDE DEF p
<1>4. \A n \in 1..Len(q) :
        /\ p[n] \in Request /\ p[n].by \notin cs /\ p[n].by \in {q[n].by, None}
        /\ p[n].op = q[n].op /\ p[n].msg = q[n].msg /\ p[n].row = q[n].row
  <2> SUFFICES ASSUME NEW n \in 1..Len(q)
               PROVE  /\ p[n] \in Request /\ p[n].by \notin cs /\ p[n].by \in {q[n].by, None}
                      /\ p[n].op = q[n].op /\ p[n].msg = q[n].msg /\ p[n].row = q[n].row
    OBVIOUS
  <2>1. q[n] \in Request
    BY <1>1
  <2>2. CASE q[n].by \in cs
    <3>1. p[n] = [q[n] EXCEPT !.by = None]
      BY <1>3, <2>2
    <3> QED
      BY <1>2, <2>1, <3>1, AbandonOne
  <2>3. CASE q[n].by \notin cs
    <3>1. p[n] = q[n]
      BY <1>3, <2>3
    <3> QED
      BY <2>1, <2>3, <3>1
  <2> QED
    BY <2>2, <2>3
<1>5. p \in Seq(Request) /\ Len(p) = Len(q)
  <2>1. p \in [1..Len(q) -> Request]
    BY <1>3, <1>4
  <2> QED
    BY <1>1, <2>1
<1>6. \A n \in 1..Len(p) : RequestSound(p[n])
  <2> SUFFICES ASSUME NEW n \in 1..Len(q) PROVE RequestSound(p[n])
    BY <1>5
  <2>1. RequestSound(q[n])
    BY DEF QueueOK
  <2>2. p[n].by # None => p[n].by = q[n].by
    BY <1>4
  <2> QED
    BY <1>4, <2>1, <2>2 DEF RequestSound, Waits
<1>7. \A n, k \in 1..Len(p) : n # k /\ p[n].by = p[k].by => p[n].by = None
  BY <1>4, <1>5 DEF QueueOK
<1>8. QueueOK(p)
  BY <1>5, <1>6, <1>7 DEF QueueOK
<1> QED
  BY <1>4, <1>5, <1>8 DEF p
LEMMA QueueAppend ==
  ASSUME NEW q, QueueOK(q)', NEW r \in Request, RequestSound(r)',
         \A n \in 1..Len(q) : q[n].by # r.by, NEW p, p \in {q, Append(q, r)}
  PROVE  QueueOK(p)'
<1>1. CASE p = q
  BY <1>1
<1>2. CASE p = Append(q, r)
  <2>1. q \in Seq(Request) /\ Len(q) \in Nat
    BY DEF QueueOK
  <2>2. /\ p \in Seq(Request) /\ Len(p) = Len(q) + 1
        /\ \A n \in 1..Len(p) : p[n] = IF n = Len(q) + 1 THEN r ELSE q[n]
        /\ \A n \in 1..Len(p) : n \in 1..Len(q) \/ n = Len(q) + 1
    BY <1>2, <2>1
  <2>3. \A n \in 1..Len(p) : RequestSound(p[n])'
    <3> SUFFICES ASSUME NEW n \in 1..Len(p) PROVE RequestSound(p[n])'
      OBVIOUS
    <3>1. PICK x : x = p[n]
      OBVIOUS
    <3>2. RequestSound(x)'
      <4>1. CASE n = Len(q) + 1
        BY <2>2, <3>1, <4>1
      <4>2. CASE n # Len(q) + 1
        <5>1. n \in 1..Len(q) /\ x = q[n]
          BY <2>2, <3>1, <4>2
        <5> QED
          BY <5>1 DEF QueueOK
      <4> QED
        BY <4>1, <4>2
    <3> QED
      BY <3>1, <3>2
  <2>4. \A n, k \in 1..Len(p) : n # k /\ p[n].by = p[k].by => p[n].by = None
    BY <2>1, <2>2 DEF QueueOK
  <2> QED
    BY <1>2, <2>2, <2>3, <2>4 DEF QueueOK
<1> QED
  BY <1>1, <1>2

LEMMA QueueAsk ==
  ASSUME NEW q, QueueOK(q)', NEW op \in Asking \cup Waiting, NEW m \in Message,
         NEW row \in Row \cup {NoRow}, NEW c \in Copy, \A n \in 1..Len(q) : q[n].by # c,
         NEW r, r = [op |-> op, msg |-> m, row |-> row, by |-> c], RequestSound(r)',
         NEW p, p = Ask(q, op, m, row, c)
  PROVE  QueueOK(p)' /\ p \in {q, Append(q, r)}
<1>1. r \in Request /\ r.by = c
  BY DEF Request, Waiting
<1>2. p \in {q, Append(q, r)}
  BY DEF Ask
<1> QED
  BY <1>1, <1>2, QueueAppend

\* What a flush asks persistence for.
LEMMA CoreSubject ==
  ASSUME NEW c \in Copy, NEW j \in Job, c \in Elems(j.batch), j.i \in 1..Len(j.batch),
         \A d \in Elems(j.batch) : Buyer(d) = Buyer(c)
  PROVE  /\ Subject(j) \in Message /\ ConvOf[Subject(j)] = Buyer(c)
         /\ RowOf(j) \in Row /\ ConvOf[RowOf(j).msg] = Buyer(c)
         /\ RowOf(j).told = j.told /\ RowOf(j).id = j.id
<1>1. /\ j.batch \in Seq(Copy) /\ Len(j.batch) \in 1..Len(j.batch) /\ j.i \in 1..Len(j.batch)
      /\ j.id \in Nat /\ j.told \in SUBSET Target
  BY DEF Job
<1>2. \A n \in 1..Len(j.batch) : j.batch[n] \in Copy /\ Buyer(j.batch[n]) = Buyer(c)
  BY <1>1 DEF Elems
<1>3. \A n \in 1..Len(j.batch) : MsgOf[j.batch[n]] \in Message /\ ConvOf[MsgOf[j.batch[n]]] = Buyer(c)
  BY <1>2, BuyerType DEF Buyer
<1>4. Subject(j) \in Message /\ ConvOf[Subject(j)] = Buyer(c)
  BY <1>1, <1>3 DEF Subject
<1> DEFINE m == MsgOf[IF j.step = "open" THEN j.batch[Len(j.batch)] ELSE j.batch[j.i]]
           st == CASE j.step = "open" -> "notifying"
                   [] AllTold(j) -> "notified"
                   [] j.told = {} -> "notify_failed"
                   [] OTHER -> "notify_partial"
<1>5. m \in Message /\ ConvOf[m] = Buyer(c)
  BY <1>1, <1>3
<1>6. st \in {"notifying", "notified", "notify_partial", "notify_failed"}
  OBVIOUS
<1>7. RowOf(j) = [id |-> j.id, told |-> j.told, msg |-> m, status |-> st]
  BY DEF RowOf
<1> HIDE DEF m, st
<1> QED
  BY <1>1, <1>4, <1>5, <1>6, <1>7 DEF Row

LEMMA NoJobIsNone == \A j \in Job : j # NoJob
BY DEF Job, NoJob, Asking

\* A flush goes on: the other flushes, the buckets and the queue are not touched.
LEMMA BecomesKeeps ==
  ASSUME TypeOK, JobsSound, FlushesApart, NEW c \in Copy, Flushing(c),
         NEW j, j = NoJob \/ (Sound(j, c)' /\ j.batch = job[c].batch),
         NEW q, QueueOK(q), \A n \in 1..Len(q) : q[n].by # c,
         Becomes(c, j, q), bucket' = bucket, notices \subseteq notices'
  PROVE  /\ JobsSound' /\ FlushesApart' /\ QueueOK(inbox)'
         /\ at' \in [Copy -> Stage] /\ job' \in [Copy -> Job \cup {NoJob}]
         /\ \A d \in Copy : job'[d] # NoJob <=> at'[d] = "flush"
         /\ queueSeen' \subseteq Message
         /\ inbox' = q \/ \E r : inbox' = Append(q, r)
<1>1. /\ at \in [Copy -> Stage] /\ job \in [Copy -> Job \cup {NoJob}]
      /\ \A d \in Copy : job[d] # NoJob <=> at[d] = "flush"
      /\ queueSeen \subseteq Message
  BY DEF TypeOK
<1>2. Sound(job[c], c) /\ job[c] # NoJob /\ c \in Elems(job[c].batch)
  BY <1>1 DEF JobsSound, Sound, Core, Flushing
<1>3. /\ job'[c] = j /\ \A d \in Copy : d # c => job'[d] = job[d]
      /\ job' \in [Copy -> Job \cup {NoJob}]
  BY <1>1 DEF Becomes, Sound, Core
<1>4. /\ j # NoJob => at' = at
      /\ j = NoJob => \A d \in Copy :
           at'[d] = IF d \in Elems(job[c].batch) THEN "idle" ELSE at[d]
      /\ at' \in [Copy -> Stage]
  BY <1>1 DEF Becomes, Goes, Stage
<1>5. \A d \in Copy : d \in Elems(job[c].batch) /\ d # c => at[d] = "queued"
  BY DEF FlushesApart
<1>6. \A d \in Copy : at'[d] = "flush" <=> at[d] = "flush" /\ (j # NoJob \/ d # c)
  BY <1>2, <1>4, <1>5 DEF Flushing
<1>7. JobsSound'
  <2> SUFFICES ASSUME NEW d \in Copy, at'[d] = "flush" PROVE Sound(job[d], d)'
    BY DEF JobsSound, Flushing
  <2>1. CASE d = c
    <3>1. Sound(j, c)' /\ job'[c] = j
      BY <1>3, <1>6, <2>1
    <3> QED
      BY <2>1, <3>1 DEF Sound, Core, AllReached, Reached, Turn, Buyer
  <2>2. CASE d # c
    <3>1. PICK k : k = job[d]
      OBVIOUS
    <3>2. Sound(k, d)
      BY <1>6, <2>2, <3>1 DEF JobsSound, Flushing
    <3>3. Sound(k, d)'
      BY <3>2, SoundGrows
    <3>4. job'[d] = k
      BY <1>3, <2>2, <3>1
    <3> QED
      BY <3>3, <3>4 DEF Sound, Core, AllReached, Reached, Turn, Buyer
  <2> QED
    BY <2>1, <2>2
<1>8. \A d \in Copy : at'[d] = "flush" => job'[d].batch = job[d].batch /\ Flushing(d)
  BY <1>3, <1>6 DEF Flushing
<1>9. FlushesApart'
  <2>1. \A d \in Copy : at'[d] = "flush" =>
          \A e \in Elems(job[d].batch) : e # d => at'[e] = "queued"
    <3> SUFFICES ASSUME NEW d \in Copy, at'[d] = "flush", NEW e \in Elems(job[d].batch), e # d
                 PROVE  at'[e] = "queued"
      OBVIOUS
    <3>1. Flushing(d) /\ at[e] = "queued" /\ e \in Copy
      BY <1>1, <1>6 DEF FlushesApart, Flushing, JobsSound, Sound, Core, Job, Elems
    <3>2. j = NoJob => e \notin Elems(job[c].batch)
      BY <1>6, <3>1 DEF FlushesApart
    <3> QED
      BY <1>4, <3>1, <3>2
  <2>2. \A d, e \in Copy : at'[d] = "flush" /\ at'[e] = "flush" /\ d # e =>
          Elems(job'[d].batch) \cap Elems(job'[e].batch) = {}
    BY <1>8 DEF FlushesApart
  <2>3. \A v \in Conv : \A d \in Elems(bucket[v]) :
          /\ at'[d] = "queued" /\ Buyer(d) = v
          /\ \A e \in Copy : at'[e] = "flush" => d \notin Elems(job'[e].batch)
    <3> SUFFICES ASSUME NEW v \in Conv, NEW d \in Elems(bucket[v])
                 PROVE  /\ at'[d] = "queued" /\ Buyer(d) = v
                        /\ \A e \in Copy : at'[e] = "flush" => d \notin Elems(job'[e].batch)
      OBVIOUS
    <3>1. d \in Copy
      BY DEF TypeOK, Elems
    <3>2. d \notin Elems(job[c].batch) /\ at[d] = "queued" /\ Buyer(d) = v
      BY DEF FlushesApart
    <3> QED
      BY <1>4, <1>8, <3>1, <3>2 DEF FlushesApart
  <2> QED
    BY <1>8, <2>1, <2>2, <2>3 DEF FlushesApart, Flushing, Buyer
<1>10. QueueOK(q)'
  <2> SUFFICES ASSUME NEW n \in 1..Len(q), q[n].by # None
               PROVE  at'[q[n].by] = at[q[n].by] /\ job'[q[n].by] = job[q[n].by]
    BY QueueMoves
  <2>1. q[n] \in Request /\ RequestSound(q[n])
    BY DEF QueueOK
  <2>2. q[n].by \in Copy /\ q[n].by # c /\ q[n].op \in Asking \cup Waiting
    BY <2>1 DEF Request, Waiting
  <2>3. at[q[n].by] # "queued"
    BY <2>1, <2>2 DEF RequestSound, Waits, Flushing, Waiting
  <2> QED
    BY <1>3, <1>4, <1>5, <2>2, <2>3
<1>11. QueueOK(inbox)' /\ (inbox' = q \/ \E r : inbox' = Append(q, r))
  <2>1. CASE j.step \in Asking
    <3>1. j # NoJob
      BY <2>1 DEF NoJob, Asking
    <3>2. Sound(j, c)' /\ Core(j, c)'
      BY <3>1 DEF Sound
    <3>3. /\ Subject(j) \in Message /\ ConvOf[Subject(j)] = Buyer(c)
          /\ RowOf(j) \in Row /\ ConvOf[RowOf(j).msg] = Buyer(c) /\ RowOf(j).told = j.told
      BY <3>2, CoreSubject DEF Core, Buyer
    <3>4. PICK row : row = IF j.step \in {"open", "close"} THEN RowOf(j) ELSE NoRow
      OBVIOUS
    <3>5. PICK r : r = [op |-> j.step, msg |-> Subject(j), row |-> row, by |-> c]
      OBVIOUS
    <3>6. PICK p : p = Ask(q, j.step, Subject(j), row, c)
      OBVIOUS
    <3>7. inbox' = p
      BY <2>1, <3>4, <3>6 DEF Becomes
    <3>8. row \in Row \cup {NoRow}
      BY <3>3, <3>4
    <3>9. RequestSound(r)'
      <4>1. at'[c] = "flush" /\ job'[c] = j
        BY <1>3, <1>6, <3>1 DEF Flushing
      <4>2. Waits(r, c)'
        BY <2>1, <3>3, <3>5, <4>1 DEF Waits, Flushing, Asking, Waiting, Buyer
      <4>3. j.step \in {"open", "close"} =>
              row \in Row /\ AllReached(ConvOf[row.msg], row.told)'
        BY <3>2, <3>3, <3>4 DEF Core, AllReached, Reached, Buyer
      <4>4. j.step = "mark" => AllReached(ConvOf[Subject(j)], Target)'
        BY <3>2, <3>3 DEF Sound, Core, AllReached, Reached, Buyer
      <4>5. /\ r.op = j.step /\ r.msg = Subject(j) /\ r.row = row /\ r.by = c
        BY <3>5
      <4> QED
        BY <4>2, <4>3, <4>4, <4>5 DEF RequestSound
    <3>10. QueueOK(p)' /\ p \in {q, Append(q, r)}
      <4>1. PICK op \in Asking \cup Waiting, m \in Message : op = j.step /\ m = Subject(j)
        BY <2>1, <3>3
      <4>2. r = [op |-> op, msg |-> m, row |-> row, by |-> c] /\ p = Ask(q, op, m, row, c)
        BY <3>5, <3>6, <4>1
      <4> QED
        BY <1>10, <3>8, <3>9, <4>2, QueueAsk
    <3> QED
      BY <3>7, <3>10 DEF QueueOK, RequestSound, Waits, Flushing, AllReached, Reached, Buyer
  <2>2. CASE j.step \notin Asking
    <3>1. inbox' = q
      BY <2>2 DEF Becomes
    <3> QED
      BY <1>10, <3>1 DEF QueueOK, RequestSound, Waits, Flushing, AllReached, Reached, Buyer
  <2> QED
    BY <2>1, <2>2
<1>12. \A d \in Copy : job'[d] # NoJob <=> at'[d] = "flush"
  BY <1>1, <1>3, <1>6 DEF Flushing
<1>13. queueSeen' \subseteq Message
  BY <1>1 DEF Becomes
<1> QED
  BY <1>3, <1>4, <1>7, <1>9, <1>11, <1>12, <1>13
\* Sightings move on outside of flushes and buckets.
LEMMA StageMoves ==
  ASSUME TypeOK, JobsSound, FlushesApart, NEW cs, NEW s \in Stage \ {"flush"}, Goes(cs, s),
         \A c \in Copy : c \in cs => at[c] \notin {"queued", "flush"},
         UNCHANGED <<job, bucket>>, notices \subseteq notices'
  PROVE  /\ JobsSound' /\ FlushesApart' /\ at' \in [Copy -> Stage]
         /\ \A c \in Copy : job'[c] # NoJob <=> at'[c] = "flush"
<1>1. /\ at \in [Copy -> Stage] /\ \A c \in Copy : job[c] # NoJob <=> at[c] = "flush"
      /\ bucket \in [Conv -> Seq(Copy)]
  BY DEF TypeOK
<1>2. /\ at' \in [Copy -> Stage]
      /\ \A c \in Copy : at'[c] = "flush" <=> at[c] = "flush"
      /\ \A c \in Copy : at[c] = "queued" => at'[c] = "queued"
  BY <1>1 DEF Goes
<1>3. JobsSound'
  <2> SUFFICES ASSUME NEW c \in Copy, at[c] = "flush" PROVE Sound(job[c], c)'
    BY <1>2 DEF JobsSound, Flushing
  <2>1. PICK j : j = job[c]
    OBVIOUS
  <2>2. Sound(j, c)'
    BY <2>1, SoundGrows DEF JobsSound, Flushing
  <2> QED
    BY <2>1, <2>2 DEF Sound, Core, AllReached, Reached, Turn, Buyer
<1>4. FlushesApart'
  <2>1. \A c \in Copy : at[c] = "flush" =>
          \A d \in Elems(job[c].batch) : d # c => at'[d] = "queued"
    <3> SUFFICES ASSUME NEW c \in Copy, at[c] = "flush", NEW d \in Elems(job[c].batch), d # c
                 PROVE  at'[d] = "queued"
      OBVIOUS
    <3>1. at[d] = "queued" /\ d \in Copy
      BY DEF FlushesApart, Flushing, JobsSound, Sound, Core, Job, Elems
    <3> QED
      BY <1>2, <3>1
  <2>2. \A v \in Conv : \A d \in Elems(bucket[v]) :
          /\ at'[d] = "queued" /\ Buyer(d) = v
          /\ \A e \in Copy : at'[e] = "flush" => d \notin Elems(job[e].batch)
    <3> SUFFICES ASSUME NEW v \in Conv, NEW d \in Elems(bucket[v])
                 PROVE  /\ at'[d] = "queued" /\ Buyer(d) = v
                        /\ \A e \in Copy : at'[e] = "flush" => d \notin Elems(job[e].batch)
      OBVIOUS
    <3>1. d \in Copy
      BY <1>1 DEF Elems
    <3> QED
      BY <1>2, <3>1 DEF FlushesApart, Flushing
  <2> QED
    BY <1>2, <2>1, <2>2 DEF FlushesApart, Flushing, Buyer
<1> QED
  BY <1>1, <1>2, <1>3, <1>4

LEMMA Unasked ==
  ASSUME NEW q, QueueOK(q), NEW c \in Copy, at[c] \notin Waiting,
         Flushing(c) => job[c].step \notin Asking
  PROVE  \A n \in 1..Len(q) : q[n].by # c
<1> SUFFICES ASSUME NEW n \in 1..Len(q), q[n].by = c PROVE FALSE
  OBVIOUS
<1>1. q[n] \in Request /\ RequestSound(q[n]) /\ c # None
  BY NotifyAssumption DEF QueueOK
<1>2. q[n].op \in Asking \cup Waiting
  BY <1>1 DEF Request, Waiting
<1> QED
  BY <1>1, <1>2 DEF RequestSound, Waits, Waiting

\* More notices leave the rows sound.
LEMMA RowsGrow ==
  ASSUME FilesSound, UNCHANGED <<rows, found>>, notices \subseteq notices'
  PROVE  FilesSound'
<1>1. \A n \in 1..Len(rows) : AllReached(ConvOf[rows[n].msg], rows[n].told)'
  <2> SUFFICES ASSUME NEW n \in 1..Len(rows)
               PROVE  AllReached(ConvOf[rows[n].msg], rows[n].told)'
    OBVIOUS
  <2>1. PICK row : row = rows[n]
    OBVIOUS
  <2>2. AllReached(ConvOf[row.msg], row.told)'
    BY <2>1, ReachedGrows DEF FilesSound
  <2> QED
    BY <2>1, <2>2
<1>2. \A m \in Message : found[m] # None => AllReached(ConvOf[m], found[m].told)'
  <2> SUFFICES ASSUME NEW m \in Message, found[m] # None
               PROVE  AllReached(ConvOf[m], found[m].told)'
    OBVIOUS
  <2>1. PICK row : row = found[m]
    OBVIOUS
  <2>2. AllReached(ConvOf[m], row.told)'
    BY <2>1, ReachedGrows DEF FilesSound
  <2> QED
    BY <2>1, <2>2
<1> QED
  BY <1>1, <1>2 DEF FilesSound

\* What persistence has on disk stays as it is.
LEMMA FilesKept ==
  ASSUME NotifyInv, UNCHANGED <<half, files>>, notices \subseteq notices',
         half => /\ inbox' # <<>> /\ Head(inbox').op = Head(inbox).op
                 /\ Head(inbox').msg = Head(inbox).msg
  PROVE  FilesSound' /\ HalfMarked' /\ BlockedOnlyIfNotified' /\ NotifiedReachedAll'
<1>1. UNCHANGED <<half, claim, notified, rows, found>>
  BY DEF files
<1>2. FilesSound'
  BY <1>1, RowsGrow DEF NotifyInv
<1>3. HalfMarked'
  BY <1>1 DEF NotifyInv, HalfMarked
<1>4. BlockedOnlyIfNotified'
  BY <1>1 DEF NotifyInv, BlockedOnlyIfNotified
<1>5. NotifiedReachedAll'
  BY <1>1, ReachedGrows DEF NotifyInv, NotifiedReachedAll, Target, Elems
<1> QED
  BY <1>2, <1>3, <1>4, <1>5

LEMMA HeadKept ==
  ASSUME NEW q \in Seq(Request), NEW p \in Seq(Request), Len(p) = Len(q), q # <<>>,
         p[1].op = q[1].op, p[1].msg = q[1].msg,
         inbox' = p \/ \E r : inbox' = Append(p, r)
  PROVE  inbox' # <<>> /\ Head(inbox').op = Head(q).op /\ Head(inbox').msg = Head(q).msg
<1>1. 1 \in 1..Len(p) /\ Head(q) = q[1] /\ Head(p) = p[1] /\ p # <<>>
  OBVIOUS
<1>2. CASE inbox' = p
  BY <1>1, <1>2
<1>3. CASE \E r : inbox' = Append(p, r)
  <2>1. PICK r : inbox' = Append(p, r)
    BY <1>3
  <2>2. Len(inbox') = Len(p) + 1 /\ inbox'[1] = p[1] /\ inbox' # <<>> /\ Head(inbox') = inbox'[1]
    BY <1>1, <2>1
  <2> QED
    BY <1>1, <2>2
<1> QED
  BY <1>2, <1>3
-------------------------------------------------------------------------------
(***************************************************************************)
(* The listener, the claims and the buckets                                *)
(***************************************************************************)
\* A sighting asks for the check or the claim.
LEMMA AskedNow ==
  ASSUME NotifyInv, NEW c \in Copy, at[c] \in {"idle", "passed"}, NEW s \in Waiting,
         Goes({c}, s), inbox' = Ask(inbox, s, MsgOf[c], NoRow, c),
         UNCHANGED <<bucket, job, queueSeen, half, files, notices, down, faults>>
  PROVE  NotifyInv'
<1>1. TypeOK /\ JobsSound /\ FlushesApart /\ QueueOK(inbox)
  BY DEF NotifyInv
<1>2. /\ JobsSound' /\ FlushesApart' /\ at' \in [Copy -> Stage]
      /\ \A d \in Copy : job'[d] # NoJob <=> at'[d] = "flush"
  BY <1>1, StageMoves DEF Waiting, Stage
<1>3. \A n \in 1..Len(inbox) : inbox[n].by # c
  BY <1>1, Unasked DEF Waiting, Flushing
<1>4. /\ at'[c] = s /\ \A d \in Copy : d # c => at'[d] = at[d]
      /\ MsgOf[c] \in Message
  BY <1>1, BuyerType DEF Goes, TypeOK
<1>5. PICK q : q = inbox
  OBVIOUS
<1>6. QueueOK(q)'
  <2>1. \A n \in 1..Len(q) : q[n] \in Request
    BY <1>1, <1>5 DEF QueueOK
  <2>2. \A n \in 1..Len(q) : q[n].by # None => q[n].by \in Copy /\ q[n].by # c
    BY <1>3, <1>5, <2>1 DEF Request
  <2>3. \A n \in 1..Len(q) : q[n].by # None =>
          at'[q[n].by] = at[q[n].by] /\ job'[q[n].by] = job[q[n].by]
    BY <1>4, <2>2
  <2>4. QueueOK(q)
    BY <1>1, <1>5
  <2> QED
    BY <2>3, <2>4, QueueMoves
<1>7. PICK r : r = [op |-> s, msg |-> MsgOf[c], row |-> NoRow, by |-> c]
  OBVIOUS
<1>8. /\ r.op = s /\ r.msg = MsgOf[c] /\ r.by = c
      /\ s \notin Asking
  BY <1>7 DEF Asking, Waiting
<1>9. RequestSound(r)'
  BY <1>4, <1>8 DEF RequestSound, Waits, Buyer, Asking
<1>10. PICK p : p = inbox'
  OBVIOUS
<1>11. QueueOK(p)' /\ p \in {q, Append(q, r)}
  <2>1. PICK m \in Message : m = MsgOf[c]
    BY <1>4
  <2>2. p = Ask(q, s, m, NoRow, c) /\ r = [op |-> s, msg |-> m, row |-> NoRow, by |-> c]
    BY <1>5, <1>7, <1>10, <2>1
  <2>3. s \in Asking \cup Waiting /\ NoRow \in Row \cup {NoRow}
    OBVIOUS
  <2>4. \A n \in 1..Len(q) : q[n].by # c
    BY <1>3, <1>5
  <2> QED
    BY <1>6, <1>9, <2>2, <2>3, <2>4, QueueAsk
<1>12. QueueOK(inbox)'
  BY <1>10, <1>11, SMTT(30) DEF QueueOK, RequestSound, Waits, Flushing, AllReached, Reached, Buyer
<1>13. inbox # <<>> => /\ inbox' # <<>> /\ Head(inbox').op = Head(inbox).op
                      /\ Head(inbox').msg = Head(inbox).msg
  <2> SUFFICES ASSUME inbox # <<>>
               PROVE  /\ inbox' # <<>> /\ Head(inbox').op = Head(inbox).op
                      /\ Head(inbox').msg = Head(inbox).msg
    OBVIOUS
  <2>1. q \in Seq(Request) /\ q # <<>>
    BY <1>1, <1>5 DEF QueueOK
  <2>2. inbox' = q \/ \E x : inbox' = Append(q, x)
    BY <1>10, <1>11
  <2>3. /\ inbox' # <<>> /\ Head(inbox').op = Head(q).op
        /\ Head(inbox').msg = Head(q).msg
    BY <2>1, <2>2, HeadKept
  <2> QED
    BY <1>5, <2>3
<1>14. FilesSound' /\ HalfMarked' /\ BlockedOnlyIfNotified' /\ NotifiedReachedAll'
  BY <1>13, FilesKept DEF NotifyInv, HalfMarked
<1>15. TypeOK'
  BY <1>1, <1>2, <1>12 DEF TypeOK, QueueOK, files
<1> QED
  BY <1>2, <1>12, <1>14, <1>15 DEF NotifyInv

LEMMA NotifyEmit ==
  ASSUME NotifyInv, NEW c \in Copy, Emit(c)
  PROVE  NotifyInv'
BY AskedNow DEF Emit, Waiting

\* Nothing but the places of sightings outside of flushes changes, and the queue.
LEMMA Placed ==
  ASSUME NotifyInv, NEW cs, NEW s \in Stage \ {"flush"}, Goes(cs, s),
         \A c \in Copy : c \in cs => at[c] \notin {"queued", "flush"},
         UNCHANGED <<bucket, job, notices>>, down' \subseteq Worker,
         faults' \in 0..MaxFault, queueSeen' \subseteq Message,
         QueueOK(inbox)', UNCHANGED <<half, notified, rows, found, cached, nextId>>,
         claim' \in [Message -> {"none", "claimed", "stale", "partial", "notified"}],
         \A m \in Message : claim'[m] = "notified" => claim[m] = "notified",
         half => /\ inbox' # <<>> /\ Head(inbox').op = Head(inbox).op
                 /\ Head(inbox').msg = Head(inbox).msg
  PROVE  NotifyInv'
<1>1. TypeOK /\ JobsSound /\ FlushesApart
  BY DEF NotifyInv
<1>2. /\ JobsSound' /\ FlushesApart' /\ at' \in [Copy -> Stage]
      /\ \A d \in Copy : job'[d] # NoJob <=> at'[d] = "flush"
  BY <1>1, StageMoves
<1>3. HalfMarked' /\ BlockedOnlyIfNotified'
  BY DEF NotifyInv, HalfMarked, BlockedOnlyIfNotified
<1>4. FilesSound' /\ NotifiedReachedAll'
  BY DEF NotifyInv, FilesSound, NotifiedReachedAll, AllReached, Reached, Target, Elems
<1>5. TypeOK'
  BY <1>1, <1>2 DEF TypeOK, QueueOK
<1> QED
  BY <1>2, <1>3, <1>4, <1>5 DEF NotifyInv

\* The queue stays, and nobody in it moves.
LEMMA QueueStays ==
  ASSUME QueueOK(inbox), NEW cs, NEW s, Goes(cs, s), UNCHANGED <<inbox, job, notices>>,
         \A c \in Copy : c \in cs => at[c] \notin Waiting \cup {"flush"}
  PROVE  QueueOK(inbox)'
<1>1. PICK q : q = inbox
  OBVIOUS
<1>2. QueueOK(q)
  BY <1>1
<1>3. \A n \in 1..Len(q) : q[n].by # None =>
        at'[q[n].by] = at[q[n].by] /\ job'[q[n].by] = job[q[n].by]
  <2> SUFFICES ASSUME NEW n \in 1..Len(q), q[n].by # None
               PROVE  at'[q[n].by] = at[q[n].by]
    OBVIOUS
  <2>1. q[n] \in Request /\ RequestSound(q[n])
    BY <1>2 DEF QueueOK
  <2>2. q[n].by \in Copy /\ q[n].op \in Asking \cup Waiting
    BY <2>1 DEF Request, Waiting
  <2>3. at[q[n].by] \in Waiting \cup {"flush"}
    BY <2>1, <2>2 DEF RequestSound, Waits, Flushing
  <2> QED
    BY <2>2, <2>3 DEF Goes
<1>4. QueueOK(q)'
  BY <1>2, <1>3, QueueMoves
<1> QED
  BY <1>1, <1>4 DEF QueueOK, RequestSound, Waits, Flushing, AllReached, Reached, Buyer

\* A sighting goes no further, or on; nothing else happens.
LEMMA MovedOn ==
  ASSUME NotifyInv, NEW c \in Copy, at[c] \in {"passed", "granted"}, Goes({c}, "idle"),
         UNCHANGED <<bucket, job, queueSeen, inbox, half, files, notices, down, faults>>
  PROVE  NotifyInv'
<1>1. /\ claim \in [Message -> {"none", "claimed", "stale", "partial", "notified"}]
      /\ queueSeen \subseteq Message /\ faults \in 0..MaxFault /\ QueueOK(inbox)
      /\ down \subseteq Worker
      /\ half => inbox # <<>>
  BY DEF NotifyInv, TypeOK, HalfMarked
<1>2. \A d \in Copy : d \in {c} => at[d] \notin {"queued", "flush"} \cup Waiting
  BY DEF Waiting
<1>3. QueueOK(inbox)'
  BY <1>1, <1>2, QueueStays
<1>4. UNCHANGED <<claim, notified, rows, found, cached, nextId>>
  BY DEF files
<1>5. "idle" \in Stage \ {"flush"}
  BY DEF Stage
<1> QED
  BY <1>1, <1>2, <1>3, <1>4, <1>5, Placed

LEMMA NotifyPublish ==
  ASSUME NotifyInv, NEW c \in Copy, Publish(c)
  PROVE  NotifyInv'
<1>1. CASE "notifier" \in down
  BY <1>1, MovedOn DEF Publish
<1>2. CASE "notifier" \notin down
  BY <1>2, AskedNow DEF Publish, Waiting
<1> QED
  BY <1>1, <1>2

LEMMA NotifyQueue ==
  ASSUME NotifyInv, NEW c \in Copy, Queue(c)
  PROVE  NotifyInv'
<1>1. TypeOK /\ JobsSound /\ FlushesApart /\ QueueOK(inbox) /\ at[c] = "granted"
  BY DEF NotifyInv, Queue
<1>2. CASE MsgOf[c] \in queueSeen
  BY <1>2, MovedOn DEF Queue
<1>3. CASE MsgOf[c] \notin queueSeen
  <2> DEFINE v == Buyer(c)
  <2>1. /\ Goes({c}, "queued") /\ queueSeen' = queueSeen \cup {MsgOf[c]}
        /\ bucket' = [bucket EXCEPT ![v] = Append(@, c)]
        /\ UNCHANGED <<job, inbox, half, files, notices, down, faults>>
    BY <1>3 DEF Queue, Buyer
  <2>2. /\ at \in [Copy -> Stage] /\ bucket \in [Conv -> Seq(Copy)] /\ v \in Conv
        /\ queueSeen' \subseteq Message
    BY <1>1, <2>1, BuyerType DEF TypeOK
  <2>3. /\ at'[c] = "queued" /\ \A d \in Copy : d # c => at'[d] = at[d]
        /\ at' \in [Copy -> Stage]
        /\ \A d \in Copy : at'[d] = "flush" <=> at[d] = "flush"
    BY <1>1, <2>1, <2>2 DEF Goes, Stage
  <2>4. /\ bucket' \in [Conv -> Seq(Copy)]
        /\ \A w \in Conv : \A d \in Elems(bucket'[w]) : d \in Copy
        /\ \A w \in Conv : \A d \in Elems(bucket'[w]) :
             d \in Elems(bucket[w]) \/ (d = c /\ w = v)
    <3>1. bucket[v] \in Seq(Copy) /\ Append(bucket[v], c) \in Seq(Copy)
      BY <2>2
    <3>2. /\ bucket'[v] = Append(bucket[v], c)
          /\ \A w \in Conv : w # v => bucket'[w] = bucket[w]
          /\ bucket' \in [Conv -> Seq(Copy)]
      BY <2>1, <2>2, <3>1
    <3>3. \A d \in Elems(Append(bucket[v], c)) : d \in Elems(bucket[v]) \/ d = c
      BY <3>1 DEF Elems
    <3>4. \A w \in Conv : \A d \in Elems(bucket'[w]) : d \in Copy
      BY <3>2 DEF Elems
    <3>5. \A w \in Conv : \A d \in Elems(bucket'[w]) :
            d \in Elems(bucket[w]) \/ (d = c /\ w = v)
      <4> SUFFICES ASSUME NEW w \in Conv, NEW d \in Elems(bucket'[w])
                   PROVE  d \in Elems(bucket[w]) \/ (d = c /\ w = v)
        OBVIOUS
      <4>1. CASE w = v
        <5>1. bucket'[w] = Append(bucket[v], c) /\ bucket[w] = bucket[v]
          BY <3>2, <4>1
        <5>2. d \in Elems(Append(bucket[v], c))
          BY <5>1
        <5>3. d \in Elems(bucket[v]) \/ d = c
          BY <3>3, <5>2
        <5> QED
          BY <4>1, <5>1, <5>3
      <4>2. CASE w # v
        BY <3>2, <4>2
      <4> QED
        BY <4>1, <4>2
    <3> QED
      BY <3>2, <3>4, <3>5
  <2>5. \A d \in Copy : at[d] = "flush" => c \notin Elems(job[d].batch)
    BY <1>1 DEF FlushesApart, Flushing
  <2>6. JobsSound'
    BY <1>1, <2>1, <2>3 DEF JobsSound, Flushing, Sound, Core, AllReached, Reached, Turn, Buyer
  <2>7. FlushesApart'
    <3>1. \A d \in Copy : at[d] = "flush" =>
            \A e \in Elems(job[d].batch) : e # d => at'[e] = "queued"
      <4> SUFFICES ASSUME NEW d \in Copy, at[d] = "flush", NEW e \in Elems(job[d].batch), e # d
                   PROVE  at'[e] = "queued"
        OBVIOUS
      <4>1. at[e] = "queued" /\ e \in Copy
        BY <1>1 DEF FlushesApart, Flushing, JobsSound, Sound, Core, Job, Elems
      <4> QED
        BY <2>3, <4>1
    <3>2. \A w \in Conv : \A d \in Elems(bucket'[w]) :
            /\ at'[d] = "queued" /\ Buyer(d) = w
            /\ \A e \in Copy : at'[e] = "flush" => d \notin Elems(job[e].batch)
      <4> SUFFICES ASSUME NEW w \in Conv, NEW d \in Elems(bucket'[w])
                   PROVE  /\ at'[d] = "queued" /\ Buyer(d) = w
                          /\ \A e \in Copy : at'[e] = "flush" => d \notin Elems(job[e].batch)
        OBVIOUS
      <4>1. CASE d \in Elems(bucket[w])
        BY <1>1, <2>3, <2>4, <4>1 DEF FlushesApart, Flushing
      <4>2. CASE d = c /\ w = v
        BY <2>3, <2>5, <4>2
      <4> QED
        BY <2>4, <4>1, <4>2
    <3> QED
      BY <1>1, <2>1, <2>3, <3>1, <3>2, ZenonT(40) DEF FlushesApart, Flushing, Buyer
  <2>8. QueueOK(inbox)'
    <3>1. \A d \in Copy : d \in {c} => at[d] \notin Waiting \cup {"flush"}
      BY <1>1 DEF Waiting
    <3> QED
      BY <1>1, <2>1, <3>1, QueueStays
  <2>9. FilesSound' /\ HalfMarked' /\ BlockedOnlyIfNotified' /\ NotifiedReachedAll'
    BY <2>1, FilesKept DEF NotifyInv, HalfMarked
  <2>10. TypeOK'
    BY <1>1, <2>1, <2>2, <2>3, <2>4 DEF TypeOK, files
  <2> QED
    BY <2>6, <2>7, <2>8, <2>9, <2>10 DEF NotifyInv
<1> QED
  BY <1>2, <1>3
-------------------------------------------------------------------------------
(***************************************************************************)
(* The flushes and the requests they make                                  *)
(***************************************************************************)
\* The types of what persistence keeps.
FilesTyped ==
  /\ half \in BOOLEAN
  /\ claim \in [Message -> {"none", "claimed", "stale", "partial", "notified"}]
  /\ notified \subseteq Message
  /\ rows \in Seq(Row)
  /\ found \in [Message -> Row \cup {NoRow, None}]
  /\ cached \subseteq {"mark", "partial"} \X Message
  /\ nextId \in Nat \ {0}

NoticesTyped ==
  notices \subseteq [to: Target, id: Nat, msgs: SUBSET Message, by: Copy, round: 1..2]

\* A flush goes on, after what persistence has written or wxbot has sent.
LEMMA GoesOn ==
  ASSUME NotifyInv, NEW c \in Copy, Flushing(c),
         NEW j, j = NoJob \/ (Sound(j, c)' /\ j.batch = job[c].batch),
         NEW q, QueueOK(q), \A n \in 1..Len(q) : q[n].by # c,
         Becomes(c, j, q), UNCHANGED <<bucket, down>>,
         notices \subseteq notices', NoticesTyped', faults' \in 0..MaxFault,
         FilesTyped', FilesSound', BlockedOnlyIfNotified', NotifiedReachedAll',
         ~half' \/ (half' = half /\ notified' = notified /\ Len(q) = Len(inbox)
                   /\ q[1].op = inbox[1].op /\ q[1].msg = inbox[1].msg)
  PROVE  NotifyInv'
<1>1. TypeOK /\ JobsSound /\ FlushesApart /\ QueueOK(inbox)
  BY DEF NotifyInv
<1>2. /\ JobsSound' /\ FlushesApart' /\ QueueOK(inbox)'
      /\ at' \in [Copy -> Stage] /\ job' \in [Copy -> Job \cup {NoJob}]
      /\ \A d \in Copy : job'[d] # NoJob <=> at'[d] = "flush"
      /\ queueSeen' \subseteq Message
      /\ inbox' = q \/ \E r : inbox' = Append(q, r)
  BY <1>1, BecomesKeeps
<1>3. HalfMarked'
  <2>1. CASE ~half'
    BY <2>1 DEF HalfMarked
  <2>2. CASE half'
    <3>1. half /\ inbox # <<>> /\ Head(inbox).op = "mark" /\ Head(inbox).msg \in notified
      BY <2>2 DEF NotifyInv, HalfMarked
    <3>2. PICK p \in Seq(Request) : p = inbox
      BY <1>1 DEF QueueOK
    <3>3. q \in Seq(Request)
      BY DEF QueueOK
    <3>4. /\ Len(q) = Len(p) /\ p # <<>> /\ q[1].op = p[1].op /\ q[1].msg = p[1].msg
      BY <2>2, <3>1, <3>2
    <3>5. /\ inbox' # <<>> /\ Head(inbox').op = Head(p).op
          /\ Head(inbox').msg = Head(p).msg
      BY <1>2, <3>2, <3>3, <3>4, HeadKept
    <3> QED
      BY <2>2, <3>1, <3>2, <3>5 DEF HalfMarked
  <2> QED
    BY <2>1, <2>2
<1>4. TypeOK'
  BY <1>1, <1>2 DEF TypeOK, QueueOK, FilesTyped, NoticesTyped
<1> QED
  BY <1>2, <1>3, <1>4 DEF NotifyInv

\* Persistence answers a flush, if it still waits.
LEMMA Answered ==
  ASSUME NotifyInv, NEW op \in Asking, Handles(op),
         NEW answer, answer.id \in Nat, answer.told \in SUBSET Target,
         AllReached(ConvOf[Head(inbox).msg], answer.told),
         Answer(Head(inbox), answer), UNCHANGED <<bucket, notices, down, faults>>,
         FilesTyped', FilesSound', BlockedOnlyIfNotified', NotifiedReachedAll', ~half'
  PROVE  NotifyInv'
<1>1. TypeOK /\ JobsSound /\ FlushesApart /\ QueueOK(inbox) /\ inbox # <<>>
  BY DEF NotifyInv, Handles
<1>2. PICK q : q = inbox
  OBVIOUS
<1>3. PICK r : r = Head(q)
  OBVIOUS
<1>4. PICK p : p = Tail(q)
  OBVIOUS
<1>5. QueueOK(q) /\ q # <<>>
  BY <1>1, <1>2
<1>6. /\ r \in Request /\ RequestSound(r) /\ QueueOK(p)
      /\ r.by # None => \A n \in 1..Len(p) : p[n].by # r.by
  BY <1>3, <1>4, <1>5, QueueTail
<1>7. r.op = op
  BY <1>2, <1>3 DEF Handles
<1>8. faults' \in 0..MaxFault /\ NoticesTyped'
  BY <1>1 DEF TypeOK, NoticesTyped, Target, Elems
<1>9. CASE r.by = None
  <2>1. UNCHANGED <<at, job, queueSeen>> /\ inbox' = p
    <3>1. Head(inbox).by = None
      BY <1>2, <1>3, <1>9
    <3>2. inbox' = Tail(inbox) /\ UNCHANGED <<at, job, queueSeen>>
      BY <3>1 DEF Answer
    <3> QED
      BY <1>2, <1>4, <3>2
  <2>2. JobsSound' /\ FlushesApart'
    <3>1. Goes({}, "idle") /\ "idle" \in Stage \ {"flush"}
      BY <1>1, <2>1 DEF Goes, TypeOK, Stage
    <3> QED
      BY <1>1, <2>1, <3>1, StageMoves
  <2>3. QueueOK(p)'
    BY <1>6, <2>1, QueueMoves
  <2>4. QueueOK(inbox)'
    BY <2>1, <2>3 DEF QueueOK, RequestSound, Waits, Flushing, AllReached, Reached, Buyer
  <2>5. TypeOK'
    BY <1>1, <1>8, <2>1, <2>4 DEF TypeOK, QueueOK, FilesTyped, NoticesTyped
  <2> QED
    BY <2>2, <2>4, <2>5 DEF NotifyInv, HalfMarked
<1>10. CASE r.by # None
  <2>1. PICK c \in Copy : c = r.by
    BY <1>6, <1>10 DEF Request
  <2>2. Flushing(c) /\ job[c].step = op /\ ConvOf[r.msg] = Buyer(c)
    BY <1>6, <1>7, <1>10, <2>1 DEF RequestSound, Waits
  <2>3. PICK k : k = job[c]
    OBVIOUS
  <2>4. Sound(k, c) /\ k.step \in Asking
    BY <1>1, <2>2, <2>3 DEF JobsSound
  <2>5. PICK j : j = Then(k, answer)
    OBVIOUS
  <2>6. AllReached(Buyer(c), answer.told)
    BY <1>2, <1>3, <2>2
  <2>7. j = NoJob \/ (Sound(j, c) /\ j.batch = k.batch)
    BY <2>4, <2>5, <2>6, ThenSound
  <2>8. j = NoJob \/ (Sound(j, c)' /\ j.batch = k.batch)
    BY <2>7, SoundGrows
  <2>9. Becomes(c, j, p)
    BY <1>2, <1>3, <1>4, <1>10, <2>1, <2>3, <2>5 DEF Answer
  <2>10. \A n \in 1..Len(p) : p[n].by # c
    BY <1>6, <1>10, <2>1
  <2> QED
    BY <1>6, <1>8, <2>2, <2>3, <2>8, <2>9, <2>10, GoesOn
<1> QED
  BY <1>9, <1>10
-------------------------------------------------------------------------------
(***************************************************************************)
(* Persistence                                                             *)
(***************************************************************************)
\* The request that is handled.
LEMMA Heard ==
  ASSUME NotifyInv, NEW op, Handles(op)
  PROVE  /\ TypeOK /\ FilesTyped /\ FilesSound /\ BlockedOnlyIfNotified /\ NotifiedReachedAll
         /\ inbox # <<>> /\ Head(inbox) \in Request /\ RequestSound(Head(inbox))
         /\ Head(inbox).op = op /\ Head(inbox).msg \in Message
         /\ op # "mark" => ~half
<1>1. inbox # <<>> /\ Head(inbox).op = op /\ QueueOK(inbox)
  BY DEF Handles, NotifyInv
<1>2. Head(inbox) \in Request /\ RequestSound(Head(inbox))
  BY <1>1, QueueTail
<1> QED
  BY <1>1, <1>2 DEF NotifyInv, HalfMarked, TypeOK, FilesTyped, Request

\* What does not touch rows, found and notices leaves the rows sound.
LEMMA RowsKept ==
  ASSUME FilesSound, UNCHANGED <<rows, found, notices>>
  PROVE  FilesSound'
BY DEF FilesSound, AllReached, Reached

LEMMA RowsSound ==
  ASSUME notices' = notices, NEW rs, rows' = rs, NEW fs, found' = fs,
         \A n \in 1..Len(rs) : AllReached(ConvOf[rs[n].msg], rs[n].told),
         \A m \in Message : fs[m] # None => AllReached(ConvOf[m], fs[m].told)
  PROVE  FilesSound'
BY DEF FilesSound, AllReached, Reached

LEMMA MarksKept ==
  ASSUME BlockedOnlyIfNotified, NotifiedReachedAll, UNCHANGED <<notified, notices>>,
         \A m \in Message : claim'[m] = "notified" => claim[m] = "notified"
  PROVE  BlockedOnlyIfNotified' /\ NotifiedReachedAll'
<1>1. BlockedOnlyIfNotified'
  BY DEF BlockedOnlyIfNotified
<1>2. NotifiedReachedAll'
  BY DEF NotifiedReachedAll, Reached, Target, Elems
<1> QED
  BY <1>1, <1>2

\* Nobody in S is told anything by an answer without a row.
LEMMA NothingTold ==
  ASSUME NEW v
  PROVE  /\ NoRow.id \in Nat /\ NoRow.told \in SUBSET Target /\ AllReached(v, NoRow.told)
         /\ \A n \in Nat : /\ [NoRow EXCEPT !.id = n].id = n
                           /\ [NoRow EXCEPT !.id = n].told \in SUBSET Target
                           /\ AllReached(v, [NoRow EXCEPT !.id = n].told)
BY DEF NoRow, NoId, AllReached

\* The two requests of a sighting that is not in a flush.
LEMMA Checked ==
  ASSUME NotifyInv, NEW op \in Waiting, Handles(op), NEW s \in Stage \ {"flush"},
         Goes({Head(inbox).by}, s), inbox' = Tail(inbox),
         claim' \in [Message -> {"none", "claimed", "stale", "partial", "notified"}],
         \A m \in Message : claim'[m] = "notified" => claim[m] = "notified",
         UNCHANGED <<bucket, job, queueSeen, half, notified, rows, found, cached, nextId,
                     notices, down, faults>>
  PROVE  NotifyInv'
<1>1. /\ TypeOK /\ inbox # <<>> /\ RequestSound(Head(inbox)) /\ Head(inbox) \in Request
      /\ Head(inbox).op = op
  BY Heard
<1>2. ~half
  BY Heard DEF Waiting
<1>3. PICK q : q = inbox
  OBVIOUS
<1>4. PICK r : r = Head(q)
  OBVIOUS
<1>5. PICK p : p = Tail(q)
  OBVIOUS
<1>6. QueueOK(q) /\ q # <<>>
  BY <1>1, <1>3 DEF NotifyInv
<1>7. QueueOK(p) /\ (r.by # None => \A n \in 1..Len(p) : p[n].by # r.by)
  BY <1>4, <1>5, <1>6, QueueTail
<1>8. \A c \in Copy : c \in {r.by} => at[c] = op
  BY <1>1, <1>3, <1>4, NotifyAssumption DEF RequestSound, Waits
<1>9. QueueOK(p)'
  <2>1. \A n \in 1..Len(p) : p[n].by # None =>
          at'[p[n].by] = at[p[n].by] /\ job'[p[n].by] = job[p[n].by]
    <3> SUFFICES ASSUME NEW n \in 1..Len(p), p[n].by # None
                 PROVE  at'[p[n].by] = at[p[n].by]
      <4>1. job' = job
        OBVIOUS
      <4> QED
        BY <4>1
    <3>1. p[n].by \in Copy
      <4>1. p \in Seq(Request)
        BY <1>7 DEF QueueOK
      <4>2. p[n] \in Request
        BY <4>1
      <4> QED
        BY <4>2 DEF Request
    <3>2. p[n].by # r.by
      BY <1>7
    <3> QED
      BY <1>3, <1>4, <3>1, <3>2 DEF Goes
  <2> QED
    BY <1>7, <2>1, QueueMoves
<1>10. QueueOK(inbox)'
  <2>1. inbox' = p
    BY <1>3, <1>5
  <2> QED
    BY <1>9, <2>1, QueueIs
<1>11. \A c \in Copy : c \in {Head(inbox).by} => at[c] \notin {"queued", "flush"}
  BY <1>3, <1>4, <1>8 DEF Waiting
<1>12. down' \subseteq Worker /\ faults' \in 0..MaxFault /\ queueSeen' \subseteq Message
  BY <1>1 DEF TypeOK
<1> QED
  BY <1>2, <1>10, <1>11, <1>12, Placed

LEMMA NotifyPersistCheck ==
  ASSUME NotifyInv, PersistCheck
  PROVE  NotifyInv'
<1> DEFINE s == IF Blocked(Head(inbox).msg) THEN "idle" ELSE "passed"
<1>1. /\ Handles("check") /\ Goes({Head(inbox).by}, s) /\ inbox' = Tail(inbox)
      /\ UNCHANGED <<bucket, job, queueSeen, half, files, notices, down, faults>>
  BY DEF PersistCheck
<1>2. s \in Stage \ {"flush"} /\ "check" \in Waiting
  BY DEF Stage, Waiting
<1>3. claim \in [Message -> {"none", "claimed", "stale", "partial", "notified"}]
  BY DEF NotifyInv, TypeOK
<1> HIDE DEF s
<1> QED
  BY <1>1, <1>2, <1>3, Checked DEF files

LEMMA NotifyPersistClaim ==
  ASSUME NotifyInv, PersistClaim
  PROVE  NotifyInv'
<1> DEFINE m == Head(inbox).msg
           s == IF Blocked(m) THEN "idle" ELSE "granted"
<1>1. /\ Handles("claim") /\ Goes({Head(inbox).by}, s) /\ inbox' = Tail(inbox)
      /\ claim' = IF Blocked(m) THEN claim ELSE [claim EXCEPT ![m] = "claimed"]
      /\ UNCHANGED <<bucket, job, queueSeen, half, notified, rows, found, cached, nextId,
                     notices, down, faults>>
  BY DEF PersistClaim
<1>2. s \in Stage \ {"flush"} /\ "claim" \in Waiting
  BY DEF Stage, Waiting
<1>3. claim \in [Message -> {"none", "claimed", "stale", "partial", "notified"}]
  BY DEF NotifyInv, TypeOK
<1>4. /\ claim' \in [Message -> {"none", "claimed", "stale", "partial", "notified"}]
      /\ \A k \in Message : claim'[k] = "notified" => claim[k] = "notified"
  BY <1>1, <1>3
<1> HIDE DEF s, m
<1> QED
  BY <1>1, <1>2, <1>4, Checked
\* What a flush that looks for a row to resume is answered.
LEMMA LookupSound ==
  ASSUME TypeOK, FilesSound, NEW m \in Message
  PROVE  /\ Lookup(m) \in Row \cup {NoRow}
         /\ Lookup(m).id \in Nat /\ Lookup(m).told \in SUBSET Target
         /\ AllReached(ConvOf[m], Lookup(m).told)
<1>1. /\ rows \in Seq(Row) /\ DOMAIN rows = 1..Len(rows) /\ Len(rows) \in Nat
      /\ found \in [Message -> Row \cup {NoRow, None}]
  BY DEF TypeOK
<1>2. \A row \in Row \cup {NoRow} : row.id \in Nat /\ row.told \in SUBSET Target
  BY NothingTold DEF Row
<1>3. CASE found[m] # None
  BY <1>1, <1>2, <1>3 DEF Lookup, FilesSound
<1>4. CASE found[m] = None
  <2> DEFINE open == {n \in DOMAIN rows : /\ ConvOf[rows[n].msg] = ConvOf[m]
                                          /\ rows[n].status # "notified"}
  <2>1. CASE open = {}
    BY <1>4, <2>1, NothingTold DEF Lookup, OpenRow
  <2>2. CASE open # {}
    <3>1. PICK n : n = CHOOSE x \in open : \A k \in open : k <= x
      OBVIOUS
    <3>2. n \in open
      <4>1. open \subseteq 1..Len(rows)
        BY <1>1
      <4>2. \E x \in open : \A k \in open : k <= x
        <5> HIDE DEF open
        <5> QED
          BY <1>1, <2>2, <4>1, LargestIndex
      <4> HIDE DEF open
      <4> QED
        BY <3>1, <4>2
    <3>3. Lookup(m) = rows[n]
      BY <1>4, <2>2, <3>1 DEF Lookup, OpenRow
    <3>4. n \in 1..Len(rows) /\ ConvOf[rows[n].msg] = ConvOf[m] /\ rows[n] \in Row
      BY <1>1, <3>2
    <3> QED
      BY <1>2, <3>3, <3>4 DEF FilesSound
  <2> QED
    BY <2>1, <2>2
<1> QED
  BY <1>3, <1>4

LEMMA NotifyPersistLookup ==
  ASSUME NotifyInv, PersistLookup
  PROVE  NotifyInv'
<1> DEFINE m == Head(inbox).msg
<1>1. /\ Handles("lookup") /\ found' = [found EXCEPT ![m] = Lookup(m)]
      /\ Answer(Head(inbox), Lookup(m))
      /\ UNCHANGED <<bucket, half, claim, notified, rows, cached, nextId, notices, down, faults>>
  BY DEF PersistLookup
<1>2. /\ TypeOK /\ FilesTyped /\ FilesSound /\ BlockedOnlyIfNotified /\ NotifiedReachedAll
      /\ m \in Message /\ ~half
  BY <1>1, Heard
<1>3. /\ Lookup(m) \in Row \cup {NoRow}
      /\ Lookup(m).id \in Nat /\ Lookup(m).told \in SUBSET Target
      /\ AllReached(ConvOf[m], Lookup(m).told)
  BY <1>2, LookupSound
<1>4. /\ FilesTyped'
  BY <1>1, <1>2, <1>3 DEF FilesTyped, Row
<1>5. FilesSound'
  <2>1. PICK row : row = Lookup(m)
    OBVIOUS
  <2>2. PICK fs : fs = [found EXCEPT ![m] = row]
    OBVIOUS
  <2>3. fs[m] = row /\ \A k \in Message : k # m => fs[k] = found[k]
    BY <1>2, <2>2 DEF FilesTyped
  <2>4. \A k \in Message : fs[k] # None => AllReached(ConvOf[k], fs[k].told)
    BY <1>2, <1>3, <2>1, <2>3 DEF FilesSound
  <2>5. \A n \in 1..Len(rows) : AllReached(ConvOf[rows[n].msg], rows[n].told)
    BY <1>2 DEF FilesSound
  <2> QED
    BY <1>1, <2>1, <2>2, <2>4, <2>5, RowsSound
<1>6. BlockedOnlyIfNotified' /\ NotifiedReachedAll'
  BY <1>1, <1>2, MarksKept
<1> HIDE DEF m
<1> QED
  BY <1>1, <1>2, <1>3, <1>4, <1>5, <1>6, Answered DEF Asking, m
\* Persistence writes no row and no mark, and answers.
LEMMA AnsweredPlainly ==
  ASSUME NotifyInv, NEW op \in Asking, Handles(op), half' \in BOOLEAN, ~half', NEW answer,
         answer = NoRow \/ \E n \in Nat : answer = [NoRow EXCEPT !.id = n],
         Answer(Head(inbox), answer),
         claim' \in [Message -> {"none", "claimed", "stale", "partial", "notified"}],
         \A m \in Message :
           claim'[m] = "notified" => claim[m] = "notified" \/ m \in notified,
         cached' \subseteq {"mark", "partial"} \X Message, nextId' \in Nat \ {0},
         UNCHANGED <<bucket, notified, rows, found, notices, down, faults>>
  PROVE  NotifyInv'
<1>1. /\ TypeOK /\ FilesTyped /\ FilesSound /\ BlockedOnlyIfNotified /\ NotifiedReachedAll
  BY Heard
<1>2. /\ answer.id \in Nat /\ answer.told \in SUBSET Target
      /\ AllReached(ConvOf[Head(inbox).msg], answer.told)
  BY NothingTold
<1>3. UNCHANGED <<rows, found, notices>> /\ UNCHANGED <<notified>>
  OBVIOUS
<1>4. FilesTyped'
  BY <1>1, <1>3 DEF FilesTyped
<1>5. FilesSound'
  BY <1>1, <1>3, RowsKept
<1>6. BlockedOnlyIfNotified'
  BY <1>1, <1>3 DEF BlockedOnlyIfNotified
<1>7. NotifiedReachedAll'
  BY <1>1, <1>3 DEF NotifiedReachedAll, Reached, Target, Elems
<1> QED
  BY <1>2, <1>4, <1>5, <1>6, <1>7, Answered

LEMMA NotifyPersistAlloc ==
  ASSUME NotifyInv, PersistAlloc
  PROVE  NotifyInv'
<1>1. /\ Handles("alloc") /\ nextId' = nextId + 1
      /\ Answer(Head(inbox), [NoRow EXCEPT !.id = nextId])
      /\ UNCHANGED <<bucket, half, claim, notified, rows, found, cached, notices, down, faults>>
  BY DEF PersistAlloc
<1>2. FilesTyped /\ ~half
  BY <1>1, Heard
<1>3. nextId \in Nat /\ nextId' \in Nat \ {0}
  BY <1>1, <1>2 DEF FilesTyped
<1>4. PICK answer : answer = [NoRow EXCEPT !.id = nextId]
  OBVIOUS
<1> QED
  BY <1>1, <1>2, <1>3, <1>4, AnsweredPlainly DEF Asking, FilesTyped

LEMMA NotifyPersistRecord ==
  ASSUME NotifyInv, PersistRecord
  PROVE  NotifyInv'
<1>1. /\ Handles("record") /\ Answer(Head(inbox), NoRow)
      /\ UNCHANGED <<bucket, half, files, notices, down, faults>>
  BY DEF PersistRecord
<1>2. FilesTyped /\ ~half
  BY <1>1, Heard
<1> QED
  BY <1>1, <1>2, AnsweredPlainly DEF Asking, FilesTyped, files

LEMMA NotifyPersistRelease ==
  ASSUME NotifyInv, PersistRelease
  PROVE  NotifyInv'
<1> DEFINE m == Head(inbox).msg
<1>1. /\ Handles("release") /\ Answer(Head(inbox), NoRow)
      /\ claim' = IF claim[m] \in {"claimed", "stale"} THEN [claim EXCEPT ![m] = "none"]
                  ELSE claim
      /\ UNCHANGED <<bucket, half, notified, rows, found, cached, nextId, notices, down, faults>>
  BY DEF PersistRelease
<1>2. FilesTyped /\ ~half
  BY <1>1, Heard
<1>3. /\ claim' \in [Message -> {"none", "claimed", "stale", "partial", "notified"}]
      /\ \A k \in Message : claim'[k] = "notified" => claim[k] = "notified"
  BY <1>1, <1>2 DEF FilesTyped
<1> QED
  BY <1>1, <1>2, <1>3, AnsweredPlainly DEF Asking, FilesTyped

LEMMA NotifyPersistPartial ==
  ASSUME NotifyInv, PersistPartial
  PROVE  NotifyInv'
<1> DEFINE m == Head(inbox).msg
<1>1. /\ Handles("partial") /\ Answer(Head(inbox), NoRow)
      /\ claim' = IF <<"partial", m>> \in cached THEN claim
                  ELSE [claim EXCEPT ![m] = "partial"]
      /\ cached' = cached \cup {<<"partial", m>>}
      /\ UNCHANGED <<bucket, half, notified, rows, found, nextId, notices, down, faults>>
  BY DEF PersistPartial
<1>2. FilesTyped /\ ~half /\ m \in Message
  BY <1>1, Heard
<1>3. /\ claim' \in [Message -> {"none", "claimed", "stale", "partial", "notified"}]
      /\ \A k \in Message : claim'[k] = "notified" => claim[k] = "notified"
      /\ cached' \subseteq {"mark", "partial"} \X Message
  BY <1>1, <1>2 DEF FilesTyped
<1> QED
  BY <1>1, <1>2, <1>3, AnsweredPlainly DEF Asking, FilesTyped

\* The second file of a mark is written only after the first.
LEMMA NotifyPersistMarked ==
  ASSUME NotifyInv, PersistMarked
  PROVE  NotifyInv'
<1> DEFINE m == Head(inbox).msg
<1>1. /\ Handles("mark") /\ Answer(Head(inbox), NoRow) /\ half' = FALSE
      /\ claim' = IF half THEN [claim EXCEPT ![m] = "notified"] ELSE claim
      /\ cached' = cached \cup {<<"mark", m>>}
      /\ UNCHANGED <<bucket, notified, rows, found, nextId, notices, down, faults>>
  BY DEF PersistMarked
<1>2. FilesTyped /\ m \in Message
  BY <1>1, Heard
<1>3. half => m \in notified
  BY DEF NotifyInv, HalfMarked
<1>4. /\ claim' \in [Message -> {"none", "claimed", "stale", "partial", "notified"}]
      /\ \A k \in Message :
           claim'[k] = "notified" => claim[k] = "notified" \/ k \in notified
      /\ cached' \subseteq {"mark", "partial"} \X Message
  BY <1>1, <1>2, <1>3 DEF FilesTyped
<1> QED
  BY <1>1, <1>2, <1>4, AnsweredPlainly DEF Asking, FilesTyped

\* A row is written over the first row with its id and message, or at the end.
LEMMA SavedRows ==
  ASSUME NEW row \in Row, rows \in Seq(Row)
  PROVE  /\ Saved(row) \in Seq(Row)
         /\ \A n \in 1..Len(Saved(row)) :
              Saved(row)[n] = row \/ (n \in 1..Len(rows) /\ Saved(row)[n] = rows[n])
<1> DEFINE same == {n \in DOMAIN rows : rows[n].id = row.id /\ rows[n].msg = row.msg}
<1>1. CASE same = {}
  BY <1>1 DEF Saved
<1>2. CASE same # {}
  <2>1. PICK n : n = CHOOSE x \in same : \A k \in same : x <= k
    OBVIOUS
  <2>2. Saved(row) = [rows EXCEPT ![n] = row]
    BY <1>2, <2>1 DEF Saved
  <2>3. n \in same
    <3>1. same \subseteq Nat
      OBVIOUS
    <3>2. \E x \in same : \A k \in same : x <= k
      <4> HIDE DEF same
      <4> QED
        BY <1>2, <3>1, SmallestIndex
    <3> HIDE DEF same
    <3> QED
      BY <2>1, <3>2
  <2>4. n \in 1..Len(rows)
    BY <2>3
  <2> HIDE DEF same
  <2> QED
    BY <2>2, <2>4
<1> QED
  BY <1>1, <1>2

LEMMA NotifyPersistRow ==
  ASSUME NotifyInv, PersistRow
  PROVE  NotifyInv'
<1> DEFINE row == Head(inbox).row
<1>1. /\ Handles("open") \/ Handles("close")
      /\ rows' = Saved(row) /\ Answer(Head(inbox), NoRow)
      /\ UNCHANGED <<bucket, half, claim, notified, found, cached, nextId, notices, down, faults>>
  BY DEF PersistRow
<1>2. PICK op \in {"open", "close"} : Handles(op)
  BY <1>1
<1>3. /\ FilesTyped /\ FilesSound /\ BlockedOnlyIfNotified /\ NotifiedReachedAll /\ ~half
      /\ Head(inbox).msg \in Message /\ RequestSound(Head(inbox)) /\ Head(inbox).op = op
  BY <1>2, Heard
<1>4. row \in Row /\ AllReached(ConvOf[row.msg], row.told)
  BY <1>2, <1>3 DEF RequestSound
<1>5. PICK rs : rs = Saved(row)
  OBVIOUS
<1>6. /\ rs \in Seq(Row)
      /\ \A n \in 1..Len(rs) : rs[n] = row \/ (n \in 1..Len(rows) /\ rs[n] = rows[n])
  BY <1>3, <1>4, <1>5, SavedRows DEF FilesTyped
<1>7. FilesTyped'
  BY <1>1, <1>3, <1>5, <1>6 DEF FilesTyped, Row, Target, Elems
<1>8. FilesSound'
  <2>1. \A n \in 1..Len(rs) : AllReached(ConvOf[rs[n].msg], rs[n].told)
    BY <1>3, <1>4, <1>6 DEF FilesSound
  <2>2. \A m \in Message : found[m] # None => AllReached(ConvOf[m], found[m].told)
    BY <1>3 DEF FilesSound
  <2> QED
    BY <1>1, <1>5, <2>1, <2>2, RowsSound
<1>9. BlockedOnlyIfNotified' /\ NotifiedReachedAll'
  BY <1>1, <1>3, MarksKept
<1>10. op \in Asking
  BY DEF Asking
<1>11. PICK answer : answer = NoRow
  OBVIOUS
<1>12. /\ answer.id \in Nat /\ answer.told \in SUBSET Target
       /\ AllReached(ConvOf[Head(inbox).msg], answer.told)
  BY <1>11, NothingTold
<1> QED
  BY <1>1, <1>2, <1>3, <1>7, <1>8, <1>9, <1>10, <1>11, <1>12, Answered

\* The first file of a mark is written when everybody was told.
LEMMA NotifyPersistNotified ==
  ASSUME NotifyInv, PersistNotified
  PROVE  NotifyInv'
<1> DEFINE m == Head(inbox).msg
<1>1. /\ Handles("mark") /\ notified' = notified \cup {m} /\ half' = TRUE
      /\ UNCHANGED <<at, bucket, job, queueSeen, inbox, claim, rows, found, cached, nextId,
                     notices, down, faults>>
  BY DEF PersistNotified
<1>2. /\ TypeOK /\ FilesSound /\ BlockedOnlyIfNotified /\ NotifiedReachedAll
      /\ inbox # <<>> /\ RequestSound(Head(inbox)) /\ m \in Message
      /\ Head(inbox).op = "mark"
  BY <1>1, Heard
<1>3. AllReached(ConvOf[m], Target)
  BY <1>2 DEF RequestSound
<1>4. JobsSound' /\ FlushesApart'
  <2>1. Goes({}, "idle") /\ "idle" \in Stage \ {"flush"}
    BY <1>1, <1>2 DEF Goes, TypeOK, Stage
  <2>2. UNCHANGED <<job, bucket>> /\ notices \subseteq notices'
    BY <1>1
  <2> QED
    BY <1>2, <2>1, <2>2, StageMoves DEF NotifyInv
<1>5. QueueOK(inbox)'
  <2>1. PICK q : q = inbox
    OBVIOUS
  <2>2. QueueOK(q)'
    <3>1. QueueOK(q) /\ at' = at /\ job' = job /\ notices \subseteq notices'
      BY <1>1, <2>1 DEF NotifyInv
    <3> QED
      BY <3>1, QueueMoves
  <2>3. inbox' = q
    BY <1>1, <2>1
  <2> QED
    BY <2>2, <2>3, QueueIs
<1>6. FilesSound'
  BY <1>1, <1>2, RowsKept
<1>7. HalfMarked'
  BY <1>1, <1>2 DEF HalfMarked
<1>8. BlockedOnlyIfNotified'
  BY <1>1, <1>2 DEF BlockedOnlyIfNotified
<1>9. NotifiedReachedAll'
  BY <1>1, <1>2, <1>3, SMTT(30) DEF NotifiedReachedAll, AllReached, Reached, Target, Elems
<1>10. TypeOK'
  BY <1>1, <1>2 DEF TypeOK
<1> QED
  BY <1>4, <1>5, <1>6, <1>7, <1>8, <1>9, <1>10 DEF NotifyInv
-------------------------------------------------------------------------------
(***************************************************************************)
(* The merge, the sends and the waits of a flush                           *)
(***************************************************************************)
\* What was merged for a buyer is flushed by the last sighting.
LEMMA NotifyFlush ==
  ASSUME NotifyInv, NEW v \in Conv, Flush(v)
  PROVE  NotifyInv'
<1>1. TypeOK /\ JobsSound /\ FlushesApart /\ QueueOK(inbox)
  BY DEF NotifyInv
<1>2. PICK b : b = bucket[v]
  OBVIOUS
<1>3. /\ b \in Seq(Copy) /\ b # <<>> /\ Len(b) \in 1..Len(b) /\ 1 \in 1..Len(b)
      /\ \A d \in Elems(b) : d \in Copy
      /\ bucket \in [Conv -> Seq(Copy)] /\ at \in [Copy -> Stage]
      /\ job \in [Copy -> Job \cup {NoJob}]
      /\ \A d \in Copy : job[d] # NoJob <=> at[d] = "flush"
  <2>1. b \in Seq(Copy) /\ b # <<>>
    BY <1>1, <1>2 DEF TypeOK, Flush
  <2>2. Len(b) \in 1..Len(b) /\ 1 \in 1..Len(b) /\ \A d \in Elems(b) : d \in Copy
    BY <2>1 DEF Elems
  <2> QED
    BY <1>1, <2>1, <2>2 DEF TypeOK
<1>4. PICK c \in Elems(b) : c = b[Len(b)]
  BY <1>3 DEF Elems
<1>5. c \in Copy /\ MsgOf[c] \in Message /\ Buyer(c) = v
  BY <1>1, <1>2, <1>3, <1>4, BuyerType DEF FlushesApart
<1>6. PICK j : j = [batch |-> b, step |-> "lookup", i |-> 1, id |-> NoId, told |-> {},
                    todo |-> {}, failed |-> {}, round |-> 1]
  OBVIOUS
<1>7. /\ job' = [job EXCEPT ![c] = j] /\ Goes({c}, "flush")
      /\ inbox' = Ask(inbox, "lookup", MsgOf[c], NoRow, c)
      /\ bucket' = [bucket EXCEPT ![v] = <<>>]
      /\ UNCHANGED <<queueSeen, half, files, notices, down, faults>>
  BY <1>2, <1>4, <1>6 DEF Flush
<1>8. \A d \in Elems(b) : at[d] = "queued" /\ Buyer(d) = v
  BY <1>1, <1>2 DEF FlushesApart
<1>9. \A d \in Elems(b) : \A e \in Copy : Flushing(e) => d \notin Elems(job[e].batch)
  BY <1>1, <1>2 DEF FlushesApart
<1>10. /\ j \in Job /\ j.batch = b /\ j.i = 1 /\ j.step = "lookup" /\ j.told = {}
  <2>1. {} \in SUBSET Target /\ NoId \in Nat /\ 1 \in Nat /\ 1 \in 1..2
    BY DEF NoId
  <2> QED
    BY <1>3, <1>6, <2>1 DEF Job, Asking
<1>11. Sound(j, c)
  BY <1>3, <1>4, <1>5, <1>8, <1>10 DEF Sound, Core, AllReached
<1>12. Sound(j, c)'
  BY <1>5, <1>7, <1>11, SoundGrows
<1>13. /\ at'[c] = "flush" /\ job'[c] = j
       /\ \A d \in Copy : d # c => at'[d] = at[d] /\ job'[d] = job[d]
       /\ at' \in [Copy -> Stage] /\ job' \in [Copy -> Job \cup {NoJob}]
       /\ bucket' \in [Conv -> Seq(Copy)]
       /\ bucket'[v] = <<>> /\ \A w \in Conv : w # v => bucket'[w] = bucket[w]
  <2>1. /\ at'[c] = "flush" /\ \A d \in Copy : d # c => at'[d] = at[d]
        /\ at' \in [Copy -> Stage]
    BY <1>3, <1>5, <1>7 DEF Goes, Stage
  <2>2. /\ job'[c] = j /\ \A d \in Copy : d # c => job'[d] = job[d]
        /\ job' \in [Copy -> Job \cup {NoJob}]
    BY <1>3, <1>5, <1>7, <1>10
  <2>3. /\ bucket' \in [Conv -> Seq(Copy)]
        /\ bucket'[v] = <<>> /\ \A w \in Conv : w # v => bucket'[w] = bucket[w]
    BY <1>3, <1>7
  <2> QED
    BY <2>1, <2>2, <2>3
<1>14. JobsSound'
  <2> SUFFICES ASSUME NEW d \in Copy, at'[d] = "flush" PROVE Sound(job[d], d)'
    BY DEF JobsSound, Flushing
  <2>1. CASE d = c
    <3>1. Sound(j, c)' /\ job'[c] = j
      BY <1>12, <1>13
    <3> QED
      BY <2>1, <3>1 DEF Sound, Core, AllReached, Reached, Turn, Buyer
  <2>2. CASE d # c
    <3>1. PICK k : k = job[d]
      OBVIOUS
    <3>2. Sound(k, d) /\ job'[d] = k
      BY <1>1, <1>13, <2>2, <3>1 DEF JobsSound, Flushing
    <3>3. Sound(k, d)'
      BY <1>7, <3>2, SoundGrows
    <3> QED
      BY <3>2, <3>3 DEF Sound, Core, AllReached, Reached, Turn, Buyer
  <2> QED
    BY <2>1, <2>2
<1>15. FlushesApart'
  <2>1. \A d \in Copy : at'[d] = "flush" =>
          \A e \in Elems(job'[d].batch) : e # d => at'[e] = "queued"
    <3> SUFFICES ASSUME NEW d \in Copy, at'[d] = "flush", NEW e \in Elems(job'[d].batch), e # d
                 PROVE  at'[e] = "queued"
      OBVIOUS
    <3>1. CASE d = c
      BY <1>3, <1>8, <1>10, <1>13, <3>1
    <3>2. CASE d # c
      <4>1. at[d] = "flush" /\ e \in Elems(job[d].batch)
        BY <1>13, <3>2
      <4>2. at[e] = "queued" /\ e \in Copy
        BY <1>1, <4>1 DEF FlushesApart, Flushing, JobsSound, Sound, Core, Job, Elems
      <4>3. e # c
        BY <1>4, <1>9, <4>1 DEF Flushing
      <4> QED
        BY <1>13, <4>2, <4>3
    <3> QED
      BY <3>1, <3>2
  <2>2. \A d, e \in Copy : at'[d] = "flush" /\ at'[e] = "flush" /\ d # e =>
          Elems(job'[d].batch) \cap Elems(job'[e].batch) = {}
    <3>1. \A d \in Copy : d # c /\ at'[d] = "flush" => Elems(job'[d].batch) \cap Elems(b) = {}
      BY <1>9, <1>13 DEF Flushing
    <3>2. \A d, e \in Copy : d # c /\ e # c /\ at'[d] = "flush" /\ at'[e] = "flush" /\ d # e =>
            Elems(job'[d].batch) \cap Elems(job'[e].batch) = {}
      <4> SUFFICES ASSUME NEW d \in Copy, NEW e \in Copy, d # c, e # c, at'[d] = "flush",
                          at'[e] = "flush", d # e
                   PROVE  Elems(job'[d].batch) \cap Elems(job'[e].batch) = {}
        OBVIOUS
      <4>1. at[d] = "flush" /\ at[e] = "flush" /\ job'[d] = job[d] /\ job'[e] = job[e]
        BY <1>13
      <4>2. Elems(job[d].batch) \cap Elems(job[e].batch) = {}
        BY <1>1, <4>1 DEF FlushesApart, Flushing
      <4> QED
        BY <4>1, <4>2
    <3>3. job'[c].batch = b
      BY <1>10, <1>13
    <3> QED
      BY <3>1, <3>2, <3>3
  <2>3. \A w \in Conv : \A d \in Elems(bucket'[w]) :
          /\ at'[d] = "queued" /\ Buyer(d) = w
          /\ \A e \in Copy : at'[e] = "flush" => d \notin Elems(job'[e].batch)
    <3> SUFFICES ASSUME NEW w \in Conv, NEW d \in Elems(bucket'[w])
                 PROVE  /\ at'[d] = "queued" /\ Buyer(d) = w
                        /\ \A e \in Copy : at'[e] = "flush" => d \notin Elems(job'[e].batch)
      OBVIOUS
    <3>1. w # v
      BY <1>13 DEF Elems
    <3>2. d \in Elems(bucket[w]) /\ d \in Copy
      <4>1. bucket'[w] = bucket[w] /\ bucket[w] \in Seq(Copy)
        BY <1>3, <1>13, <3>1
      <4> QED
        BY <4>1 DEF Elems
    <3>3. /\ at[d] = "queued" /\ Buyer(d) = w
          /\ \A e \in Copy : at[e] = "flush" => d \notin Elems(job[e].batch)
      BY <1>1, <3>2 DEF FlushesApart, Flushing
    <3>4. d \notin Elems(b) /\ d # c
      BY <1>4, <1>8, <3>1, <3>3
    <3> QED
      BY <1>10, <1>13, <3>2, <3>3, <3>4
  <2> QED
    BY <2>1, <2>2, <2>3 DEF FlushesApart, Flushing, Buyer
<1>16. at[c] = "queued"
  BY <1>4, <1>8
<1>17. \A n \in 1..Len(inbox) : inbox[n].by # c
  BY <1>1, <1>5, <1>16, Unasked DEF Waiting, Flushing
<1>18. PICK q : q = inbox
  OBVIOUS
<1>19. QueueOK(q) /\ \A n \in 1..Len(q) : q[n].by # c
  BY <1>1, <1>17, <1>18
<1>20. QueueOK(q)'
  <2>1. \A n \in 1..Len(q) : q[n].by # None =>
          at'[q[n].by] = at[q[n].by] /\ job'[q[n].by] = job[q[n].by]
    <3> SUFFICES ASSUME NEW n \in 1..Len(q), q[n].by # None
                 PROVE  at'[q[n].by] = at[q[n].by] /\ job'[q[n].by] = job[q[n].by]
      OBVIOUS
    <3>1. q[n] \in Request
      BY <1>19 DEF QueueOK
    <3>2. q[n].by \in Copy /\ q[n].by # c
      BY <1>19, <3>1 DEF Request
    <3> QED
      BY <1>13, <3>2
  <2> QED
    BY <1>7, <1>19, <2>1, QueueMoves
<1>21. PICK r : r = [op |-> "lookup", msg |-> MsgOf[c], row |-> NoRow, by |-> c]
  OBVIOUS
<1>22. RequestSound(r)'
  BY <1>10, <1>13, <1>21 DEF RequestSound, Waits, Flushing, Buyer, Asking, Waiting
<1>23. PICK p : p = inbox'
  OBVIOUS
<1>24. QueueOK(p)' /\ p \in {q, Append(q, r)}
  <2>1. r \in Request /\ r.by = c
    BY <1>5, <1>21 DEF Request, Asking
  <2>2. p \in {q, Append(q, r)}
    BY <1>7, <1>18, <1>21, <1>23 DEF Ask
  <2>3. \A n \in 1..Len(q) : q[n].by # r.by
    BY <1>19, <2>1
  <2> QED
    BY <1>20, <1>22, <2>1, <2>2, <2>3, QueueAppend
<1>25. QueueOK(inbox)'
  BY <1>23, <1>24, QueueIs
<1>26. inbox # <<>> => /\ inbox' # <<>> /\ Head(inbox').op = Head(inbox).op
                       /\ Head(inbox').msg = Head(inbox).msg
  <2> SUFFICES ASSUME inbox # <<>>
               PROVE  /\ inbox' # <<>> /\ Head(inbox').op = Head(inbox).op
                      /\ Head(inbox').msg = Head(inbox).msg
    OBVIOUS
  <2>1. q \in Seq(Request) /\ q # <<>>
    BY <1>18, <1>19 DEF QueueOK
  <2>2. inbox' = q \/ \E x : inbox' = Append(q, x)
    BY <1>23, <1>24
  <2>3. inbox' # <<>> /\ Head(inbox').op = Head(q).op /\ Head(inbox').msg = Head(q).msg
    BY <2>1, <2>2, HeadKept
  <2> QED
    BY <1>18, <2>3
<1>27. FilesSound' /\ HalfMarked' /\ BlockedOnlyIfNotified' /\ NotifiedReachedAll'
  BY <1>7, <1>26, FilesKept DEF NotifyInv, HalfMarked
<1>28. \A d \in Copy : job'[d] # NoJob <=> at'[d] = "flush"
  BY <1>3, <1>10, <1>13, NoJobIsNone
<1>29. TypeOK'
  BY <1>1, <1>7, <1>13, <1>25, <1>28 DEF TypeOK, QueueOK, files
<1> QED
  BY <1>14, <1>15, <1>25, <1>27, <1>29 DEF NotifyInv
\* A target that was sent the notice is told once this is recorded; one that
\* was not, or whose answer was too late, is put off.
LEMMA NotifyDeliver ==
  ASSUME NotifyInv, NEW c \in Copy, NEW outcome \in {"ok", "refused", "unknown"},
         Deliver(c, outcome)
  PROVE  NotifyInv'
<1>1. TypeOK /\ JobsSound /\ FlushesApart /\ QueueOK(inbox)
  BY DEF NotifyInv
<1>2. PICK k : k = job[c]
  OBVIOUS
<1>3. at[c] = "flush" /\ k.step = "send" /\ Flushing(c)
  BY <1>2 DEF Deliver, Flushing
<1>4. Sound(k, c) /\ Core(k, c) /\ k \in Job /\ k.todo # {}
  BY <1>1, <1>2, <1>3 DEF JobsSound, Sound, Core
<1>5. k.todo \in SUBSET Target /\ k.id \in Nat /\ k.round \in 1..2 /\ k.batch \in Seq(Copy)
      /\ c \in Elems(k.batch) /\ 1 \in 1..Len(k.batch)
  BY <1>4 DEF Job, Core
<1>6. Turn(k.todo) \in Target
  BY <1>4, <1>5, TurnIsOpen
<1>7. PICK n : n = [to |-> Turn(k.todo), id |-> k.id, by |-> c, round |-> k.round,
                    msgs |-> {MsgOf[d] : d \in Elems(k.batch)}]
  OBVIOUS
<1>8. PICK j : j = IF outcome = "ok" THEN At(k, "record", 1) ELSE Failed(k)
  OBVIOUS
<1>9. /\ IF outcome = "ok" THEN UNCHANGED faults ELSE Faulty(outcome)
      /\ notices' = IF outcome = "refused" THEN notices ELSE notices \cup {n}
      /\ Becomes(c, j, inbox)
      /\ UNCHANGED <<bucket, half, files, down>>
  BY <1>2, <1>7, <1>8 DEF Deliver
<1>10. /\ n \in [to: Target, id: Nat, msgs: SUBSET Message, by: Copy, round: 1..2]
       /\ n.to = Turn(k.todo) /\ MsgOf[c] \in n.msgs
  <2>1. \A d \in Elems(k.batch) : MsgOf[d] \in Message
    BY <1>5, BuyerType DEF Elems
  <2>2. PICK ms : ms = {MsgOf[d] : d \in Elems(k.batch)}
    OBVIOUS
  <2>3. ms \in SUBSET Message /\ MsgOf[c] \in ms
    BY <1>5, <2>1, <2>2
  <2>4. n = [to |-> Turn(k.todo), id |-> k.id, by |-> c, round |-> k.round, msgs |-> ms]
    BY <1>7, <2>2
  <2> QED
    BY <1>5, <1>6, <2>3, <2>4
<1>11. notices \subseteq notices' /\ NoticesTyped'
  <2>1. NoticesTyped
    BY <1>1 DEF TypeOK, NoticesTyped
  <2> QED
    BY <1>9, <1>10, <2>1 DEF NoticesTyped, Target, Elems
<1>12. faults' \in 0..MaxFault
  BY <1>1, <1>9, NotifyAssumption DEF TypeOK, Faulty
<1>13. Sound(j, c)' /\ j.batch = k.batch
  <2>1. CASE outcome = "ok"
    <3>1. j = At(k, "record", 1) /\ n \in notices'
      BY <1>8, <1>9, <2>1
    <3>2. Core(j, c) /\ j.step = "record" /\ j.batch = k.batch /\ j.todo = k.todo
      BY <1>4, <1>5, <3>1, AtCore DEF Asking
    <3>3. Core(j, c)'
      <4>1. AllReached(Buyer(c), j.told)'
        BY <1>11, <3>2, ReachedGrows DEF Core, Buyer
      <4> QED
        BY <3>2, <4>1 DEF Core, Buyer
    <3>4. Reached(Buyer(c), Turn(k.todo))'
      BY <1>10, <3>1 DEF Reached, Buyer, Turn
    <3>5. Turn(j.todo) = Turn(k.todo)
      BY <3>2
    <3>6. Reached(Buyer(c), Turn(j.todo))'
      BY <3>2, <3>4 DEF Reached, Buyer, Turn
    <3> QED
      BY <1>4, <3>2, <3>3, <3>6 DEF Sound
  <2>2. CASE outcome # "ok"
    <3>1. j = Failed(k)
      BY <1>8, <2>2
    <3>2. Sound(j, c) /\ j.batch = k.batch
      BY <1>4, <3>1, FailedSound
    <3> QED
      BY <1>11, <3>2, SoundGrows
  <2> QED
    BY <2>1, <2>2
<1>14. \A i \in 1..Len(inbox) : inbox[i].by # c
  BY <1>1, <1>2, <1>3, Unasked DEF Waiting, Asking
<1>15. PICK q : q = inbox
  OBVIOUS
<1>16. /\ FilesTyped' /\ FilesSound' /\ BlockedOnlyIfNotified' /\ NotifiedReachedAll'
  <2>1. UNCHANGED <<half, claim, notified, rows, found, cached, nextId>>
    BY <1>9 DEF files
  <2>2. FilesTyped'
    BY <1>1, <2>1 DEF TypeOK, FilesTyped
  <2>3. FilesSound' /\ BlockedOnlyIfNotified' /\ NotifiedReachedAll'
    <3>1. \A v, S : AllReached(v, S) => AllReached(v, S)'
      BY <1>11, ReachedGrows
    <3>2. FilesSound'
      BY <1>11, <2>1, RowsGrow DEF NotifyInv
    <3>3. BlockedOnlyIfNotified'
      BY <2>1 DEF NotifyInv, BlockedOnlyIfNotified
    <3>4. NotifiedReachedAll'
      BY <1>11, <2>1, ReachedGrows DEF NotifyInv, NotifiedReachedAll, Target, Elems
    <3> QED
      BY <3>2, <3>3, <3>4
  <2> QED
    BY <2>2, <2>3
<1>17. /\ QueueOK(q) /\ \A i \in 1..Len(q) : q[i].by # c
       /\ Becomes(c, j, q) /\ Len(q) = Len(inbox) /\ q[1] = inbox[1]
       /\ half' = half /\ notified' = notified /\ UNCHANGED <<bucket, down>>
  BY <1>1, <1>9, <1>14, <1>15 DEF files
<1>18. j.batch = job[c].batch
  BY <1>2, <1>13
<1> QED
  BY <1>3, <1>11, <1>12, <1>13, <1>16, <1>17, <1>18, GoesOn

\* A request that comes too late is handled all the same.
LEMMA NotifyTimeout ==
  ASSUME NotifyInv, NEW c \in Copy, Timeout(c)
  PROVE  NotifyInv'
<1>1. TypeOK /\ JobsSound /\ FlushesApart /\ QueueOK(inbox)
  BY DEF NotifyInv
<1>2. PICK q : q = Abandon(inbox, {c})
  OBVIOUS
<1>3. PICK b : b = inbox
  OBVIOUS
<1>4. /\ QueueOK(q) /\ Len(q) = Len(b) /\ Len(b) \in Nat
      /\ \A n \in 1..Len(b) : q[n].by # c /\ q[n].op = b[n].op /\ q[n].msg = b[n].msg
  <2>1. QueueOK(b) /\ {c} \in SUBSET Copy /\ q = Abandon(b, {c})
    BY <1>1, <1>2, <1>3
  <2>2. Len(b) \in Nat
    BY <2>1 DEF QueueOK
  <2> QED
    BY <2>1, <2>2, QueueAbandon
<1>5. faults' \in 0..MaxFault
  BY <1>1, NotifyAssumption DEF TypeOK, Timeout, Faulty
<1>6. UNCHANGED <<bucket, half, files, notices, down>>
  BY DEF Timeout
<1>7. UNCHANGED <<claim, notified, rows, found, cached, nextId>>
  BY <1>6 DEF files
<1>8. half => b # <<>> /\ Len(b) # 0 /\ 1 \in 1..Len(b)
  <2>1. b \in Seq(Request)
    BY <1>1, <1>3 DEF QueueOK
  <2>2. half => b # <<>>
    BY <1>3 DEF NotifyInv, HalfMarked
  <2> QED
    BY <2>1, <2>2
<1>9. CASE at[c] = "flush"
  <2>1. PICK k : k = job[c]
    OBVIOUS
  <2>2. PICK j : j = Then(k, NoRow)
    OBVIOUS
  <2>3. Flushing(c) /\ Sound(k, c) /\ k.step \in Asking /\ Becomes(c, j, q)
    <3>1. Flushing(c) /\ Sound(k, c)
      BY <1>1, <1>9, <2>1 DEF JobsSound, Flushing
    <3>2. k.step \in Asking
      BY <1>9, <2>1 DEF Timeout, TimesOut, Waiting
    <3>3. Becomes(c, j, q)
      BY <1>2, <1>9, <2>1, <2>2 DEF Timeout
    <3> QED
      BY <3>1, <3>2, <3>3
  <2>4. j = NoJob \/ (Sound(j, c) /\ j.batch = k.batch)
    <3>1. PICK answer : answer = NoRow
      OBVIOUS
    <3>2. /\ answer.id \in Nat /\ answer.told \in SUBSET Target
          /\ AllReached(Buyer(c), answer.told)
      BY <3>1, NothingTold
    <3>3. j = Then(k, answer)
      BY <2>2, <3>1
    <3> QED
      BY <2>3, <3>2, <3>3, ThenSound
  <2>5. j = NoJob \/ (Sound(j, c)' /\ j.batch = job[c].batch)
    BY <1>6, <2>1, <2>4, SoundGrows
  <2>6. FilesTyped' /\ NoticesTyped' /\ notices \subseteq notices'
    BY <1>1, <1>6, <1>7 DEF TypeOK, FilesTyped, NoticesTyped, Target, Elems
  <2>7. FilesSound'
    BY <1>6, <1>7, RowsGrow DEF NotifyInv
  <2>8. BlockedOnlyIfNotified' /\ NotifiedReachedAll'
    BY <1>6, <1>7, MarksKept DEF NotifyInv
  <2>9. ~half' \/ (half' = half /\ notified' = notified /\ Len(q) = Len(inbox)
                  /\ q[1].op = inbox[1].op /\ q[1].msg = inbox[1].msg)
    <3>1. CASE half
      BY <1>3, <1>4, <1>6, <1>7, <1>8, <3>1
    <3>2. CASE ~half
      BY <1>6, <3>2
    <3> QED
      BY <3>1, <3>2
  <2>10. \A n \in 1..Len(q) : q[n].by # c
    BY <1>4
  <2>11. UNCHANGED <<bucket, down>>
    BY <1>6
  <2> QED
    BY <1>4, <1>5, <2>3, <2>5, <2>6, <2>7, <2>8, <2>9, <2>10, <2>11, GoesOn
<1>10. CASE at[c] # "flush"
  <2>1. /\ Goes({c}, "idle") /\ inbox' = q /\ UNCHANGED <<job, queueSeen>>
        /\ at[c] \in Waiting
    BY <1>2, <1>10 DEF Timeout, TimesOut
  <2>2. QueueOK(q)'
    <3>1. \A n \in 1..Len(q) : q[n].by # None => at'[q[n].by] = at[q[n].by]
      <4> SUFFICES ASSUME NEW n \in 1..Len(q), q[n].by # None
                   PROVE  at'[q[n].by] = at[q[n].by]
        OBVIOUS
      <4>1. q[n] \in Request
        BY <1>4 DEF QueueOK
      <4>2. q[n].by \in Copy /\ q[n].by # c
        BY <1>4, <4>1 DEF Request
      <4> QED
        BY <2>1, <4>2 DEF Goes
    <3>2. job' = job /\ notices \subseteq notices'
      BY <1>6, <2>1
    <3> QED
      BY <1>4, <3>1, <3>2, QueueMoves
  <2>3. QueueOK(inbox)'
    BY <2>1, <2>2, QueueIs
  <2>4. half => /\ inbox' # <<>> /\ Head(inbox').op = Head(inbox).op
                /\ Head(inbox').msg = Head(inbox).msg
    <3> SUFFICES ASSUME half
                 PROVE  /\ inbox' # <<>> /\ Head(inbox').op = Head(inbox).op
                        /\ Head(inbox').msg = Head(inbox).msg
      OBVIOUS
    <3>1. b \in Seq(Request) /\ q \in Seq(Request) /\ b # <<>> /\ Len(q) = Len(b)
      BY <1>1, <1>3, <1>4, <1>8 DEF QueueOK
    <3>2. q[1].op = b[1].op /\ q[1].msg = b[1].msg
      BY <1>4, <1>8
    <3>3. inbox' # <<>> /\ Head(inbox').op = Head(b).op /\ Head(inbox').msg = Head(b).msg
      BY <2>1, <3>1, <3>2, HeadKept
    <3> QED
      BY <1>3, <3>3
  <2>5. "idle" \in Stage \ {"flush"} /\ \A d \in Copy : d \in {c} => at[d] \notin {"queued", "flush"}
    BY <2>1 DEF Stage, Waiting
  <2>6. /\ claim' \in [Message -> {"none", "claimed", "stale", "partial", "notified"}]
        /\ \A m \in Message : claim'[m] = "notified" => claim[m] = "notified"
        /\ down' \subseteq Worker /\ queueSeen' \subseteq Message
    BY <1>1, <1>6, <1>7, <2>1 DEF TypeOK
  <2>7. UNCHANGED <<bucket, job, notices>> /\ UNCHANGED <<half, notified, rows, found, cached, nextId>>
    BY <1>6, <1>7, <2>1
  <2> QED
    BY <1>5, <2>1, <2>3, <2>4, <2>5, <2>6, <2>7, Placed
<1> QED
  BY <1>9, <1>10
-------------------------------------------------------------------------------
(***************************************************************************)
(* Time, crashes and restarts                                              *)
(***************************************************************************)
\* A claim gets old, a worker comes back: no sighting moves.
LEMMA NobodyMoves ==
  ASSUME NotifyInv, UNCHANGED <<at, bucket, job, queueSeen, inbox, half, notified, rows,
                                found, cached, nextId, notices>>,
         claim' \in [Message -> {"none", "claimed", "stale", "partial", "notified"}],
         \A m \in Message : claim'[m] = "notified" => claim[m] = "notified",
         down' \subseteq Worker, faults' \in 0..MaxFault
  PROVE  NotifyInv'
<1>1. TypeOK /\ QueueOK(inbox)
  BY DEF NotifyInv
<1>2. Goes({}, "idle") /\ "idle" \in Stage \ {"flush"}
  BY <1>1 DEF Goes, TypeOK, Stage
<1>3. QueueOK(inbox)'
  BY <1>1, <1>2, QueueStays
<1>4. queueSeen' \subseteq Message /\ inbox' = inbox
  BY <1>1 DEF TypeOK
<1>5. half => /\ inbox' # <<>> /\ Head(inbox').op = Head(inbox).op
              /\ Head(inbox').msg = Head(inbox).msg
  BY <1>4 DEF NotifyInv, HalfMarked
<1>6. UNCHANGED <<bucket, job, notices>>
  OBVIOUS
<1>7. UNCHANGED <<half, notified, rows, found, cached, nextId>>
  OBVIOUS
<1> QED
  BY <1>2, <1>3, <1>4, <1>5, <1>6, <1>7, Placed

LEMMA NotifyExpire ==
  ASSUME NotifyInv, NEW m \in Message, Expire(m)
  PROVE  NotifyInv'
<1>1. TypeOK
  BY DEF NotifyInv
<1>2. /\ claim' = [claim EXCEPT ![m] = "stale"]
      /\ IF Held(m) THEN Faulty("slow") ELSE UNCHANGED faults
      /\ UNCHANGED <<at, bucket, job, queueSeen, inbox, half, notified, rows, found, cached,
                     nextId, notices, down>>
  BY DEF Expire
<1>3. /\ claim' \in [Message -> {"none", "claimed", "stale", "partial", "notified"}]
      /\ \A k \in Message : claim'[k] = "notified" => claim[k] = "notified"
  BY <1>1, <1>2 DEF TypeOK
<1>4. down' \subseteq Worker /\ faults' \in 0..MaxFault
  BY <1>1, <1>2, NotifyAssumption DEF TypeOK, Faulty
<1> QED
  BY <1>2, <1>3, <1>4, NobodyMoves

LEMMA NotifyRestart ==
  ASSUME NotifyInv, NEW w \in Worker, Restart(w)
  PROVE  NotifyInv'
<1>1. TypeOK
  BY DEF NotifyInv
<1>2. /\ down' = down \ {w}
      /\ UNCHANGED <<at, bucket, job, queueSeen, inbox, half, files, notices, faults>>
  BY DEF Restart
<1>3. UNCHANGED <<claim, notified, rows, found, cached, nextId>>
  BY <1>2 DEF files
<1>4. /\ claim' \in [Message -> {"none", "claimed", "stale", "partial", "notified"}]
      /\ \A k \in Message : claim'[k] = "notified" => claim[k] = "notified"
      /\ down' \subseteq Worker /\ faults' \in 0..MaxFault
  BY <1>1, <1>2, <1>3 DEF TypeOK
<1> QED
  BY <1>2, <1>3, <1>4, NobodyMoves

LEMMA NotifyCrashListener ==
  ASSUME NotifyInv, CrashListener
  PROVE  NotifyInv'
<1>1. TypeOK /\ QueueOK(inbox)
  BY DEF NotifyInv
<1>2. PICK cs \in SUBSET Copy : cs = {c \in Copy : at[c] \in {"check", "passed"}}
  OBVIOUS
<1>3. /\ Goes(cs, "idle") /\ inbox' = Abandon(inbox, cs)
      /\ down' = down \cup {"listener"} /\ faults' = faults + 1 /\ faults < MaxFault
      /\ UNCHANGED <<bucket, job, queueSeen, half, files, notices>>
  BY <1>2 DEF CrashListener, Loses, Faulty
<1>4. PICK b : b = inbox
  OBVIOUS
<1>5. PICK q : q = Abandon(b, cs)
  OBVIOUS
<1>6. QueueOK(b)
  BY <1>1, <1>4
<1>7. /\ QueueOK(q) /\ Len(q) = Len(b)
      /\ \A n \in 1..Len(b) : q[n].by \notin cs /\ q[n].op = b[n].op /\ q[n].msg = b[n].msg
  BY <1>5, <1>6, QueueAbandon
<1>8. QueueOK(q)'
  <2>1. \A n \in 1..Len(q) : q[n].by # None =>
          at'[q[n].by] = at[q[n].by] /\ job'[q[n].by] = job[q[n].by]
    <3> SUFFICES ASSUME NEW n \in 1..Len(q), q[n].by # None
                 PROVE  at'[q[n].by] = at[q[n].by]
      BY <1>3
    <3>1. q[n] \in Request
      BY <1>7 DEF QueueOK
    <3>2. q[n].by \in Copy /\ q[n].by \notin cs
      BY <1>7, <3>1 DEF Request
    <3> QED
      BY <1>3, <3>2 DEF Goes
  <2> QED
    BY <1>3, <1>7, <2>1, QueueMoves
<1>9. inbox' = q
  BY <1>3, <1>4, <1>5
<1>10. QueueOK(inbox)'
  BY <1>8, <1>9, QueueIs
<1>11. half => /\ inbox' # <<>> /\ Head(inbox').op = Head(inbox).op
               /\ Head(inbox').msg = Head(inbox).msg
  <2> SUFFICES ASSUME half
               PROVE  /\ inbox' # <<>> /\ Head(inbox').op = Head(inbox).op
                      /\ Head(inbox').msg = Head(inbox).msg
    OBVIOUS
  <2>1. b # <<>>
    BY <1>4 DEF NotifyInv, HalfMarked
  <2>2. b \in Seq(Request) /\ q \in Seq(Request)
    BY <1>6, <1>7 DEF QueueOK
  <2>3. 1 \in 1..Len(b)
    BY <2>1, <2>2
  <2>4. q[1].op = b[1].op /\ q[1].msg = b[1].msg
    BY <1>7, <2>3
  <2>5. inbox' # <<>> /\ Head(inbox').op = Head(b).op /\ Head(inbox').msg = Head(b).msg
    BY <1>7, <1>9, <2>1, <2>2, <2>4, HeadKept
  <2> QED
    BY <1>4, <2>5
<1>12. /\ "idle" \in Stage \ {"flush"}
       /\ \A c \in Copy : c \in cs => at[c] \notin {"queued", "flush"}
  BY <1>2 DEF Stage
<1>13. UNCHANGED <<claim, half, notified, rows, found, cached, nextId>>
  BY <1>3 DEF files
<1>14. /\ claim' \in [Message -> {"none", "claimed", "stale", "partial", "notified"}]
       /\ \A m \in Message : claim'[m] = "notified" => claim[m] = "notified"
       /\ down' \subseteq Worker /\ queueSeen' \subseteq Message /\ faults' \in 0..MaxFault
  BY <1>1, <1>3, <1>13, NotifyAssumption DEF TypeOK, Worker
<1>15. UNCHANGED <<bucket, job, notices>> /\ UNCHANGED <<half, notified, rows, found, cached, nextId>>
  BY <1>3, <1>13
<1> QED
  BY <1>3, <1>10, <1>11, <1>12, <1>14, <1>15, Placed

\* No flush and no bucket survives the notifier.
LEMMA NotifyCrashNotifier ==
  ASSUME NotifyInv, CrashNotifier
  PROVE  NotifyInv'
<1>1. TypeOK /\ QueueOK(inbox)
  BY DEF NotifyInv
<1>2. PICK cs \in SUBSET Copy : cs = {c \in Copy : at[c] \in InNotifier}
  OBVIOUS
<1>3. /\ Goes(cs, "idle") /\ inbox' = Abandon(inbox, cs)
      /\ bucket' = [v \in Conv |-> <<>>] /\ job' = [c \in Copy |-> NoJob] /\ queueSeen' = {}
      /\ down' = down \cup {"notifier"} /\ faults' = faults + 1 /\ faults < MaxFault
      /\ UNCHANGED <<half, files, notices>>
  BY <1>2 DEF CrashNotifier, Loses, Faulty
<1>4. \A c \in Copy : at'[c] \notin InNotifier /\ (c \notin cs => at'[c] = at[c])
  BY <1>2, <1>3 DEF Goes, InNotifier
<1>5. at' \in [Copy -> Stage] /\ \A c \in Copy : at'[c] # "flush"
  BY <1>1, <1>3, <1>4 DEF Goes, TypeOK, Stage, InNotifier
<1>6. JobsSound' /\ FlushesApart'
  <2>1. \A v \in Conv : Elems(bucket'[v]) = {}
    BY <1>3 DEF Elems
  <2> QED
    BY <1>5, <2>1 DEF JobsSound, FlushesApart, Flushing
<1>7. PICK b : b = inbox
  OBVIOUS
<1>8. PICK q : q = Abandon(b, cs)
  OBVIOUS
<1>9. QueueOK(b)
  BY <1>1, <1>7
<1>10. /\ QueueOK(q) /\ Len(q) = Len(b)
       /\ \A n \in 1..Len(b) : q[n].by \notin cs /\ q[n].op = b[n].op /\ q[n].msg = b[n].msg
  BY <1>8, <1>9, QueueAbandon
<1>11. QueueOK(q)'
  <2> SUFFICES ASSUME NEW n \in 1..Len(q) PROVE RequestSound(q[n])'
    BY <1>10 DEF QueueOK
  <2>1. PICK r : r = q[n]
    OBVIOUS
  <2>2. r \in Request /\ RequestSound(r) /\ r.by \notin cs
    BY <1>10, <2>1 DEF QueueOK
  <2>3. \A v, S : AllReached(v, S) <=> AllReached(v, S)'
    BY <1>3 DEF AllReached, Reached
  <2>4. r.by # None => Waits(r, r.by)'
    <3> SUFFICES ASSUME r.by # None PROVE Waits(r, r.by)'
      OBVIOUS
    <3>1. r.by \in Copy /\ Waits(r, r.by) /\ r.op \in Asking \cup Waiting
      BY <2>2 DEF Request, RequestSound, Waiting
    <3>2. at[r.by] \notin InNotifier
      BY <1>2, <2>2, <3>1
    <3>3. r.op \notin Asking
      BY <3>1, <3>2 DEF Waits, Flushing, InNotifier
    <3>4. at'[r.by] = at[r.by]
      BY <1>4, <2>2, <3>1
    <3> QED
      BY <3>1, <3>3, <3>4 DEF Waits, Buyer
  <2>5. RequestSound(r)'
    <3>1. AllReached(ConvOf[r.row.msg], r.row.told) => AllReached(ConvOf[r.row.msg], r.row.told)'
      BY <2>3
    <3>2. AllReached(ConvOf[r.msg], Target) => AllReached(ConvOf[r.msg], Target)'
      BY <1>3 DEF AllReached, Reached, Target, Elems
    <3> QED
      BY <2>2, <2>4, <3>1, <3>2 DEF RequestSound
  <2> QED
    BY <2>1, <2>5
<1>12. inbox' = q
  BY <1>3, <1>7, <1>8
<1>13. QueueOK(inbox)'
  BY <1>11, <1>12, QueueIs
<1>14. half => /\ inbox' # <<>> /\ Head(inbox').op = Head(inbox).op
               /\ Head(inbox').msg = Head(inbox).msg
  <2> SUFFICES ASSUME half
               PROVE  /\ inbox' # <<>> /\ Head(inbox').op = Head(inbox).op
                      /\ Head(inbox').msg = Head(inbox).msg
    OBVIOUS
  <2>1. b # <<>>
    BY <1>7 DEF NotifyInv, HalfMarked
  <2>2. b \in Seq(Request) /\ q \in Seq(Request)
    BY <1>9, <1>10 DEF QueueOK
  <2>3. 1 \in 1..Len(b)
    BY <2>1, <2>2
  <2>4. q[1].op = b[1].op /\ q[1].msg = b[1].msg
    BY <1>10, <2>3
  <2>5. inbox' # <<>> /\ Head(inbox').op = Head(b).op /\ Head(inbox').msg = Head(b).msg
    BY <1>10, <1>12, <2>1, <2>2, <2>4, HeadKept
  <2> QED
    BY <1>7, <2>5
<1>15. FilesSound' /\ HalfMarked' /\ BlockedOnlyIfNotified' /\ NotifiedReachedAll'
  BY <1>3, <1>14, FilesKept
<1>16. TypeOK'
  <2>1. /\ bucket' \in [Conv -> Seq(Copy)] /\ job' \in [Copy -> Job \cup {NoJob}]
        /\ \A c \in Copy : job'[c] # NoJob <=> at'[c] = "flush"
        /\ queueSeen' \subseteq Message /\ inbox' \in Seq(Request)
    BY <1>3, <1>5, <1>13 DEF QueueOK
  <2>2. UNCHANGED <<half, claim, notified, rows, found, cached, nextId, notices>>
    BY <1>3 DEF files
  <2>3. down' \subseteq Worker /\ faults' \in 0..MaxFault
    BY <1>1, <1>3, NotifyAssumption DEF TypeOK, Worker
  <2> QED
    BY <1>1, <1>5, <2>1, <2>2, <2>3 DEF TypeOK
<1> QED
  BY <1>6, <1>13, <1>15, <1>16 DEF NotifyInv

\* What was asked is lost with persistence; half a mark stays half.
LEMMA NotifyCrashPersistence ==
  ASSUME NotifyInv, CrashPersistence
  PROVE  NotifyInv'
<1>1. TypeOK /\ JobsSound /\ FlushesApart
  BY DEF NotifyInv
<1>2. /\ down' = down \cup {"persistence"} /\ inbox' = <<>> /\ half' = FALSE
      /\ faults' = faults + 1 /\ faults < MaxFault
      /\ UNCHANGED <<at, bucket, job, queueSeen, files, notices>>
  BY DEF CrashPersistence, Faulty
<1>3. JobsSound' /\ FlushesApart'
  <2>1. Goes({}, "idle") /\ "idle" \in Stage \ {"flush"}
    BY <1>1, <1>2 DEF Goes, TypeOK, Stage
  <2>2. UNCHANGED <<job, bucket>> /\ notices \subseteq notices'
    BY <1>2
  <2> QED
    BY <1>1, <2>1, <2>2, StageMoves
<1>4. QueueOK(inbox)'
  BY <1>2 DEF QueueOK
<1>5. UNCHANGED <<claim, notified, rows, found, cached, nextId, notices>>
  BY <1>2 DEF files
<1>6. FilesSound'
  BY <1>5, RowsGrow DEF NotifyInv
<1>7. HalfMarked'
  BY <1>2 DEF HalfMarked
<1>8. BlockedOnlyIfNotified' /\ NotifiedReachedAll'
  BY <1>5, MarksKept DEF NotifyInv
<1>9. TypeOK'
  <2>1. down' \subseteq Worker /\ faults' \in 0..MaxFault
    BY <1>1, <1>2, NotifyAssumption DEF TypeOK, Worker
  <2>2. inbox' \in Seq(Request) /\ half' \in BOOLEAN
    BY <1>2, <1>4 DEF QueueOK
  <2>3. UNCHANGED <<at, bucket, job, queueSeen>>
    BY <1>2
  <2> QED
    BY <1>1, <1>5, <2>1, <2>2, <2>3 DEF TypeOK
<1> QED
  BY <1>3, <1>4, <1>6, <1>7, <1>8, <1>9 DEF NotifyInv

-------------------------------------------------------------------------------
(***************************************************************************)
(* The theorems                                                            *)
(***************************************************************************)
LEMMA NotifyInit == Init => NotifyInv
<1> SUFFICES ASSUME Init PROVE NotifyInv
  OBVIOUS
<1>1. TypeOK
  <2>1. at \in [Copy -> Stage] /\ \A c \in Copy : job[c] # NoJob <=> at[c] = "flush"
    BY DEF Init, Stage
  <2>2. bucket \in [Conv -> Seq(Copy)] /\ job \in [Copy -> Job \cup {NoJob}]
    BY DEF Init
  <2>3. inbox \in Seq(Request) /\ half \in BOOLEAN /\ rows \in Seq(Row)
    <3>1. inbox = <<>> /\ rows = <<>> /\ half = FALSE
      BY DEF Init
    <3>2. \A S : <<>> \in Seq(S)
      OBVIOUS
    <3> QED
      BY <3>1, <3>2
  <2>4. /\ claim \in [Message -> {"none", "claimed", "stale", "partial", "notified"}]
        /\ found \in [Message -> Row \cup {NoRow, None}] /\ nextId \in Nat \ {0}
        /\ faults \in 0..MaxFault
    BY NotifyAssumption DEF Init
  <2>5. /\ queueSeen = {} /\ notified = {} /\ cached = {} /\ notices = {} /\ down = {}
    BY DEF Init
  <2> QED
    BY <2>1, <2>2, <2>3, <2>4, <2>5 DEF TypeOK
<1>2. JobsSound /\ FlushesApart
  BY DEF Init, JobsSound, FlushesApart, Flushing, Elems
<1>3. QueueOK(inbox)
  BY DEF Init, QueueOK
<1>4. FilesSound
  BY DEF Init, FilesSound
<1>5. HalfMarked /\ BlockedOnlyIfNotified /\ NotifiedReachedAll
  BY DEF Init, HalfMarked, BlockedOnlyIfNotified, NotifiedReachedAll
<1> QED
  BY <1>1, <1>2, <1>3, <1>4, <1>5 DEF NotifyInv

LEMMA NotifyPersist ==
  ASSUME NotifyInv, Persist
  PROVE  NotifyInv'
BY NotifyPersistCheck, NotifyPersistClaim, NotifyPersistLookup, NotifyPersistAlloc,
   NotifyPersistRow, NotifyPersistNotified, NotifyPersistMarked, NotifyPersistRecord,
   NotifyPersistRelease, NotifyPersistPartial DEF Persist

LEMMA NotifyStutter ==
  ASSUME NotifyInv, UNCHANGED vars
  PROVE  NotifyInv'
<1>1. UNCHANGED <<at, bucket, job, queueSeen, inbox, half, notified, rows,
                  found, cached, nextId, notices>>
  BY DEF vars, files
<1>2. claim' = claim /\ down' = down /\ faults' = faults
  BY DEF vars, files
<1> QED
  BY <1>1, <1>2, NobodyMoves DEF NotifyInv, TypeOK

LEMMA NotifyStep == NotifyInv /\ [Next]_vars => NotifyInv'
<1> SUFFICES ASSUME NotifyInv, [Next]_vars PROVE NotifyInv'
  OBVIOUS
<1>1. CASE \E c \in Copy : Emit(c) \/ Publish(c) \/ Queue(c) \/ Timeout(c)
  BY <1>1, NotifyEmit, NotifyPublish, NotifyQueue, NotifyTimeout
<1>2. CASE \E c \in Copy, o \in {"ok", "refused", "unknown"} : Deliver(c, o)
  BY <1>2, NotifyDeliver
<1>3. CASE \E v \in Conv : Flush(v)
  BY <1>3, NotifyFlush
<1>4. CASE \E m \in Message : Expire(m)
  BY <1>4, NotifyExpire
<1>5. CASE Persist
  BY <1>5, NotifyPersist
<1>6. CASE CrashListener \/ CrashNotifier \/ CrashPersistence
  BY <1>6, NotifyCrashListener, NotifyCrashNotifier, NotifyCrashPersistence
<1>7. CASE \E w \in Worker : Restart(w)
  BY <1>7, NotifyRestart
<1>8. CASE UNCHANGED vars
  BY <1>8, NotifyStutter
<1> QED
  BY <1>1, <1>2, <1>3, <1>4, <1>5, <1>6, <1>7, <1>8 DEF Next

LEMMA NotifyAlways == Spec => []NotifyInv
BY NotifyInit, NotifyStep, PTL DEF Spec

\* The states are of their types, whatever crashes, is lost or comes too late.
THEOREM NotifyTyping == Spec => []TypeOK
<1>1. NotifyInv => TypeOK
  BY DEF NotifyInv
<1> QED
  BY <1>1, NotifyAlways, PTL

\* A message counts as notified only when every target has a notice of its
\* buyer: the rows a flush takes up, the answers that come too late and the
\* second round never count somebody as told who was not.
THEOREM MarkedMeansReached == Spec => []NotifiedReachedAll
<1>1. NotifyInv => NotifiedReachedAll
  BY DEF NotifyInv
<1> QED
  BY <1>1, NotifyAlways, PTL

\* A claim blocks a message for good only when the notified set has it, also
\* when persistence crashes between the two files.
THEOREM BlockedForGood == Spec => []BlockedOnlyIfNotified
<1>1. NotifyInv => BlockedOnlyIfNotified
  BY DEF NotifyInv
<1> QED
  BY <1>1, NotifyAlways, PTL

\* As long as no buyer writes twice, every target has got the message itself.
\* (With two messages of one buyer TLC finds one that is marked unsent.)
THEOREM SingleMessageReaches ==
  ASSUME \A m, k \in Message : ConvOf[m] = ConvOf[k] => m = k
  PROVE  Spec => []MessageReachedAll
<1>1. NotifyInv => MessageReachedAll
  <2> SUFFICES ASSUME NotifyInv, NEW m \in notified, NEW t \in Target
               PROVE  \E n \in notices : n.to = t /\ m \in n.msgs
    BY DEF MessageReachedAll
  <2>1. Reached(ConvOf[m], t) /\ m \in Message
    BY DEF NotifyInv, NotifiedReachedAll, TypeOK
  <2>2. PICK n \in notices : n.to = t /\ \E k \in n.msgs : ConvOf[k] = ConvOf[m]
    BY <2>1 DEF Reached
  <2>3. n.msgs \subseteq Message
    BY DEF NotifyInv, TypeOK
  <2> QED
    BY <2>1, <2>2, <2>3
<1> QED
  BY <1>1, NotifyAlways, PTL

-------------------------------------------------------------------------------
(***************************************************************************)
(* Reply ids                                                               *)
(***************************************************************************)
\* Where the id i stands for the conversation v.
InNotices(i, v) == \E n \in notices : n.id = i /\ \E m \in n.msgs : ConvOf[m] = v
InRows(i, v)    == \E n \in 1..Len(rows) : rows[n].id = i /\ ConvOf[rows[n].msg] = v
InAnswers(i, v) == \E m \in Message : found[m] # None /\ found[m].id = i /\ ConvOf[m] = v
InRequests(i, v) ==
  \E n \in 1..Len(inbox) : /\ inbox[n].op \in {"open", "close"}
                           /\ inbox[n].row.id = i /\ ConvOf[inbox[n].row.msg] = v
InFlushes(i, v) == \E c \in Copy : Flushing(c) /\ job[c].id = i /\ Buyer(c) = v

Used(i, v) == \/ InNotices(i, v) \/ InRows(i, v) \/ InAnswers(i, v)
              \/ InRequests(i, v) \/ InFlushes(i, v)

\* An id that is in use was handed out, and for one conversation.
IdsApart ==
  \A i \in Nat \ {NoId} : \A v : Used(i, v) =>
    i < nextId /\ \A w : Used(i, w) => v = w
\* The step gives no id a new conversation, except u to the id k.
OnlyNew(k, u) ==
  \A i \in Nat \ {NoId} : \A v : Used(i, v)' => Used(i, v) \/ (i = k /\ v = u)

LEMMA IdsStep ==
  ASSUME IdsApart, NEW k, NEW u, OnlyNew(k, u), nextId \in Nat, nextId' \in Nat,
         nextId' >= nextId, k = NoId \/ (k = nextId /\ nextId' > nextId)
  PROVE  IdsApart'
<1> SUFFICES ASSUME NEW i \in Nat \ {NoId}, NEW v, Used(i, v)'
             PROVE  i < nextId' /\ \A w : Used(i, w)' => v = w
  BY DEF IdsApart
<1>1. \A w : Used(i, w)' => Used(i, w) \/ (i = k /\ w = u)
  BY DEF OnlyNew
<1>2. \A w : Used(i, w) => i < nextId
  BY DEF IdsApart
<1>3. \A w, x : Used(i, w) /\ Used(i, x) => w = x
  BY DEF IdsApart
<1>4. i < nextId'
  <2>1. CASE Used(i, v)
    BY <1>2, <2>1
  <2>2. CASE i = k /\ v = u
    BY <2>2
  <2> QED
    BY <1>1, <2>1, <2>2
<1>5. \A w : Used(i, w)' => v = w
  <2> SUFFICES ASSUME NEW w, Used(i, w)' PROVE v = w
    OBVIOUS
  <2>1. CASE i = k
    <3>1. i = nextId
      BY <2>1
    <3>2. ~Used(i, v) /\ ~Used(i, w)
      BY <1>2, <3>1
    <3> QED
      BY <1>1, <3>2
  <2>2. CASE i # k
    <3>1. Used(i, v) /\ Used(i, w)
      BY <1>1, <2>2
    <3> QED
      BY <1>3, <3>1
  <2> QED
    BY <2>1, <2>2
<1> QED
  BY <1>4, <1>5

\* Every row in the queue q is in one that persistence has.
Requested(q) ==
  \A n \in 1..Len(q) : q[n].op \in {"open", "close"} =>
    InRequests(q[n].row.id, ConvOf[q[n].row.msg])

LEMMA InboxRequested == Requested(inbox)
BY DEF Requested, InRequests

LEMMA TailRequested ==
  ASSUME NEW q, QueueOK(q), Requested(q), q # <<>>
  PROVE  Requested(Tail(q))
<1>1. /\ Len(Tail(q)) = Len(q) - 1 /\ Len(q) \in Nat
      /\ \A n \in 1..Len(Tail(q)) : n + 1 \in 1..Len(q) /\ Tail(q)[n] = q[n + 1]
  BY DEF QueueOK
<1> SUFFICES ASSUME NEW n \in 1..Len(Tail(q)), Tail(q)[n].op \in {"open", "close"}
             PROVE  InRequests(Tail(q)[n].row.id, ConvOf[Tail(q)[n].row.msg])
  BY DEF Requested
<1>2. PICK k \in 1..Len(q) : Tail(q)[n] = q[k]
  BY <1>1
<1> QED
  BY <1>2 DEF Requested

LEMMA AbandonRequested ==
  ASSUME NEW q, QueueOK(q), Requested(q), NEW cs \in SUBSET Copy
  PROVE  Requested(Abandon(q, cs))
BY QueueAbandon DEF Requested

\* What stands in the queue after a step stood there before, if nobody asked
\* for a row.
LEMMA StillRequested ==
  ASSUME NEW q, Requested(q), q \in Seq(Request), NEW r, r.op \notin {"open", "close"},
         inbox' \in {q, Append(q, r)}
  PROVE  \A i, v : InRequests(i, v)' => InRequests(i, v)
<1>1. PICK p : p = inbox'
  OBVIOUS
<1>2. \A n \in 1..Len(p) : p[n].op \in {"open", "close"} =>
        n \in 1..Len(q) /\ p[n] = q[n]
  <2>1. CASE p = q
    BY <2>1
  <2>2. CASE p = Append(q, r)
    BY <2>2
  <2> QED
    BY <1>1, <2>1, <2>2
<1> SUFFICES ASSUME NEW i, NEW v, InRequests(i, v)' PROVE InRequests(i, v)
  OBVIOUS
<1>3. PICK n \in 1..Len(p) : p[n].op \in {"open", "close"} /\ p[n].row.id = i
                             /\ ConvOf[p[n].row.msg] = v
  BY <1>1 DEF InRequests
<1>4. n \in 1..Len(q) /\ p[n] = q[n]
  BY <1>2, <1>3
<1> QED
  BY <1>3, <1>4 DEF Requested

\* A step that neither sends, saves nor hands out.
LEMMA IdsStay ==
  ASSUME TypeOK, IdsApart, UNCHANGED <<rows, found, nextId, notices>>,
         \A i, v : InRequests(i, v)' => InRequests(i, v),
         \A c \in Copy : at'[c] = "flush" =>
           (at[c] = "flush" /\ job'[c].id = job[c].id) \/ job'[c].id = NoId
  PROVE  IdsApart'
<1>1. \A i, v : /\ InNotices(i, v)' => InNotices(i, v)
                /\ InRows(i, v)' => InRows(i, v)
                /\ InAnswers(i, v)' => InAnswers(i, v)
  BY DEF InNotices, InRows, InAnswers
<1>2. \A i \in Nat \ {NoId} : \A v : InFlushes(i, v)' => InFlushes(i, v)
  BY DEF InFlushes, Flushing, Buyer
<1>3. OnlyNew(NoId, None)
  BY <1>1, <1>2 DEF OnlyNew, Used
<1>4. nextId \in Nat /\ nextId' = nextId
  BY DEF TypeOK
<1> QED
  BY <1>3, <1>4, IdsStep

\* A flush goes on with the id it had, or with one that belongs to its buyer.
LEMMA BecomesIds ==
  ASSUME TypeOK, JobsSound, NEW c \in Copy, Flushing(c), NEW k, NEW u,
         NEW j, j = NoJob \/ Core(j, c),
         j # NoJob => Used(j.id, Buyer(c)) \/ j.id = NoId \/ (j.id = k /\ Buyer(c) = u),
         NEW q, q \in Seq(Request), Requested(q), Becomes(c, j, q)
  PROVE  \A i \in Nat \ {NoId} : \A v :
           InRequests(i, v)' \/ InFlushes(i, v)' => Used(i, v) \/ (i = k /\ v = u)
<1>1. job'[c] = j /\ \A d \in Copy : d # c => job'[d] = job[d]
  BY DEF Becomes, TypeOK
<1>2. \A d \in Copy : at'[d] = "flush" => at[d] = "flush"
  BY DEF Becomes, Goes, TypeOK
<1>3. j = NoJob => at'[c] # "flush"
  <2> SUFFICES ASSUME j = NoJob PROVE at'[c] = "idle"
    OBVIOUS
  <2>1. c \in Elems(job[c].batch)
    BY DEF JobsSound, Sound, Core
  <2> QED
    BY <2>1 DEF Becomes, Goes
<1> SUFFICES ASSUME NEW i \in Nat \ {NoId}, NEW v, InRequests(i, v)' \/ InFlushes(i, v)'
             PROVE  Used(i, v) \/ (i = k /\ v = u)
  OBVIOUS
<1>4. CASE InFlushes(i, v)'
  <2>1. PICK d \in Copy : at'[d] = "flush" /\ job'[d].id = i /\ Buyer(d) = v
    BY <1>4 DEF InFlushes, Flushing, Buyer
  <2>2. CASE d = c
    BY <1>1, <1>3, <2>1, <2>2
  <2>3. CASE d # c
    BY <1>1, <1>2, <2>1, <2>3 DEF Used, InFlushes, Flushing
  <2> QED
    BY <2>2, <2>3
<1>5. CASE InRequests(i, v)'
  <2>1. PICK p : p = inbox'
    OBVIOUS
  <2>2. PICK n \in 1..Len(p) : p[n].op \in {"open", "close"} /\ p[n].row.id = i
                               /\ ConvOf[p[n].row.msg] = v
    BY <1>5, <2>1 DEF InRequests
  <2>3. CASE n \in 1..Len(q) /\ p[n] = q[n]
    BY <2>2, <2>3 DEF Requested, Used
  <2>4. CASE ~(n \in 1..Len(q) /\ p[n] = q[n])
    <3>1. PICK row : row = IF j.step \in {"open", "close"} THEN RowOf(j) ELSE NoRow
      OBVIOUS
    <3>2. PICK r : r = [op |-> j.step, msg |-> Subject(j), row |-> row, by |-> c]
      OBVIOUS
    <3>3. p \in {q, Append(q, r)}
      BY <2>1, <3>1, <3>2 DEF Becomes, Ask
    <3>4. p = Append(q, r) /\ n = Len(q) + 1 /\ p[n] = r
      BY <2>4, <3>3
    <3>5. r.op = j.step /\ r.row = row
      BY <3>2
    <3>6. j.step \in {"open", "close"} /\ row = RowOf(j) /\ j # NoJob
      BY <2>2, <3>1, <3>4, <3>5 DEF NoJob
    <3>7. row.id = j.id /\ ConvOf[row.msg] = Buyer(c)
      BY <3>6, CoreSubject DEF Core
    <3> QED
      BY <2>2, <3>4, <3>5, <3>6, <3>7
  <2> QED
    BY <2>3, <2>4
<1> QED
  BY <1>4, <1>5
\* Persistence answers; k is the id it hands out, if any.
LEMMA AnsweredIds ==
  ASSUME NotifyInv, IdsApart, NEW op \in Asking, Handles(op),
         NEW answer, answer.id \in Nat, answer.told \in SUBSET Target,
         AllReached(ConvOf[Head(inbox).msg], answer.told), Answer(Head(inbox), answer),
         NEW k, NEW u, nextId' \in Nat, nextId' >= nextId,
         k = NoId \/ (k = nextId /\ nextId' > nextId),
         op \in {"lookup", "alloc"} =>
           \/ answer.id = NoId
           \/ Used(answer.id, ConvOf[Head(inbox).msg])
           \/ (answer.id = k /\ u = ConvOf[Head(inbox).msg]),
         UNCHANGED notices,
         \A i \in Nat \ {NoId} : \A v : InRows(i, v)' \/ InAnswers(i, v)' => Used(i, v)
  PROVE  IdsApart'
<1>1. TypeOK /\ JobsSound /\ QueueOK(inbox) /\ inbox # <<>> /\ nextId \in Nat
  BY DEF NotifyInv, Handles, TypeOK
<1>2. PICK q : q = inbox
  OBVIOUS
<1>3. PICK r : r = Head(q)
  OBVIOUS
<1>4. PICK p : p = Tail(q)
  OBVIOUS
<1>5. QueueOK(q) /\ q # <<>> /\ Requested(q)
  BY <1>1, <1>2, InboxRequested
<1>6. r \in Request /\ RequestSound(r) /\ QueueOK(p) /\ r.op = op
  <2>1. r \in Request /\ RequestSound(r) /\ QueueOK(p)
    BY <1>3, <1>4, <1>5, QueueTail
  <2>2. r.op = op
    BY <1>2, <1>3 DEF Handles
  <2> QED
    BY <2>1, <2>2
<1>7. Requested(p) /\ p \in Seq(Request)
  BY <1>4, <1>5, <1>6, TailRequested DEF QueueOK
<1>8. \A i \in Nat \ {NoId} : \A v :
        InRequests(i, v)' \/ InFlushes(i, v)' => Used(i, v) \/ (i = k /\ v = u)
  <2>1. CASE r.by = None
    <3>1. Head(inbox).by = None
      BY <1>2, <1>3, <2>1
    <3>2. inbox' = p /\ at' = at /\ job' = job
      <4>1. inbox' = Tail(inbox) /\ UNCHANGED <<at, job, queueSeen>>
        BY <3>1 DEF Answer
      <4> QED
        BY <1>2, <1>4, <4>1
    <3>3. PICK x : x.op \notin {"open", "close"}
      <4>1. [op |-> "mark"].op \notin {"open", "close"}
        OBVIOUS
      <4> QED
        BY <4>1
    <3>4. \A i, v : InRequests(i, v)' => InRequests(i, v)
      BY <1>7, <3>2, <3>3, StillRequested
    <3>5. \A i, v : InFlushes(i, v)' => InFlushes(i, v)
      BY <3>2 DEF InFlushes, Flushing, Buyer
    <3> QED
      BY <3>4, <3>5 DEF Used
  <2>2. CASE r.by # None
    <3>1. PICK c \in Copy : c = r.by
      BY <1>6, <2>2 DEF Request
    <3>2. Flushing(c) /\ job[c].step = op /\ ConvOf[r.msg] = Buyer(c)
      BY <1>6, <2>2, <3>1 DEF RequestSound, Waits
    <3>3. PICK b : b = job[c]
      OBVIOUS
    <3>4. Sound(b, c) /\ b.step \in Asking /\ b.step = op
      BY <1>1, <3>2, <3>3 DEF JobsSound
    <3>5. PICK j : j = Then(b, answer)
      OBVIOUS
    <3>6. AllReached(Buyer(c), answer.told)
      BY <1>2, <1>3, <3>2
    <3>7. j = NoJob \/ (Sound(j, c) /\ (j.id = b.id \/
            (op \in {"lookup", "alloc"} /\ j.id = answer.id)))
      BY <3>4, <3>5, <3>6, ThenSound
    <3>8. Used(b.id, Buyer(c))
      BY <3>2, <3>3 DEF Used, InFlushes
    <3>9. j # NoJob => Used(j.id, Buyer(c)) \/ j.id = NoId \/ (j.id = k /\ Buyer(c) = u)
      BY <1>2, <1>3, <3>2, <3>7, <3>8
    <3>10. Becomes(c, j, p)
      BY <1>2, <1>3, <1>4, <2>2, <3>1, <3>3, <3>5 DEF Answer
    <3>11. j = NoJob \/ Core(j, c)
      BY <3>7 DEF Sound
    <3> QED
      BY <1>1, <1>7, <3>2, <3>9, <3>10, <3>11, BecomesIds
  <2> QED
    BY <2>1, <2>2
<1>9. \A i, v : InNotices(i, v)' => InNotices(i, v)
  BY DEF InNotices
<1>10. OnlyNew(k, u)
  BY <1>8, <1>9 DEF OnlyNew, Used
<1> QED
  BY <1>1, <1>10, IdsStep

LEMMA LookupUsed ==
  ASSUME TypeOK, NEW m \in Message
  PROVE  Lookup(m).id = NoId \/ Used(Lookup(m).id, ConvOf[m])
<1>1. CASE found[m] # None
  BY <1>1 DEF Lookup, Used, InAnswers
<1>2. CASE found[m] = None
  <2> DEFINE open == {n \in DOMAIN rows : /\ ConvOf[rows[n].msg] = ConvOf[m]
                                          /\ rows[n].status # "notified"}
  <2>1. CASE open = {}
    BY <1>2, <2>1 DEF Lookup, OpenRow, NoRow
  <2>2. CASE open # {}
    <3>1. PICK n : n = CHOOSE x \in open : \A k \in open : k <= x
      OBVIOUS
    <3>2. n \in open /\ n \in 1..Len(rows)
      <4>1. open \subseteq 1..Len(rows) /\ Len(rows) \in Nat
        BY DEF TypeOK
      <4>2. \E x \in open : \A k \in open : k <= x
        <5> HIDE DEF open
        <5> QED
          BY <2>2, <4>1, LargestIndex
      <4> HIDE DEF open
      <4> QED
        BY <3>1, <4>1, <4>2
    <3>3. Lookup(m) = rows[n]
      BY <1>2, <2>2, <3>1 DEF Lookup, OpenRow
    <3>4. ConvOf[rows[n].msg] = ConvOf[m]
      BY <3>2
    <3> QED
      BY <3>2, <3>3, <3>4 DEF Used, InRows
  <2> QED
    BY <2>1, <2>2
<1> QED
  BY <1>1, <1>2

LEMMA IdsPersistLookup ==
  ASSUME NotifyInv, IdsApart, PersistLookup
  PROVE  IdsApart'
<1> DEFINE m == Head(inbox).msg
<1>1. /\ Handles("lookup") /\ found' = [found EXCEPT ![m] = Lookup(m)]
      /\ Answer(Head(inbox), Lookup(m))
      /\ UNCHANGED <<rows, nextId, notices>>
  BY DEF PersistLookup
<1>2. TypeOK /\ FilesTyped /\ FilesSound /\ m \in Message /\ nextId \in Nat
  BY <1>1, Heard DEF FilesTyped
<1>3. PICK answer : answer = Lookup(m)
  OBVIOUS
<1>4. /\ answer.id \in Nat /\ answer.told \in SUBSET Target
      /\ AllReached(ConvOf[m], answer.told)
      /\ answer.id = NoId \/ Used(answer.id, ConvOf[m])
  BY <1>2, <1>3, LookupSound, LookupUsed
<1>5. \A i \in Nat \ {NoId} : \A v : InRows(i, v)' \/ InAnswers(i, v)' => Used(i, v)
  <2>1. \A i, v : InRows(i, v)' => InRows(i, v)
    BY <1>1 DEF InRows
  <2>2. \A i \in Nat \ {NoId} : \A v : InAnswers(i, v)' => Used(i, v)
    <3> SUFFICES ASSUME NEW i \in Nat \ {NoId}, NEW v, InAnswers(i, v)' PROVE Used(i, v)
      OBVIOUS
    <3>1. PICK e \in Message : found'[e] # None /\ found'[e].id = i /\ ConvOf[e] = v
      BY DEF InAnswers
    <3>2. CASE e = m
      BY <1>1, <1>2, <1>3, <1>4, <3>1, <3>2 DEF FilesTyped
    <3>3. CASE e # m
      BY <1>1, <1>2, <3>1, <3>3 DEF Used, InAnswers, FilesTyped
    <3> QED
      BY <3>2, <3>3
  <2> QED
    BY <2>1, <2>2 DEF Used
<1>6. "lookup" \in Asking /\ nextId' = nextId /\ nextId >= nextId
  BY <1>1, <1>2 DEF Asking
<1>7. PICK k : k = NoId
  OBVIOUS
<1> QED
  BY <1>1, <1>2, <1>3, <1>4, <1>5, <1>6, <1>7, AnsweredIds

LEMMA IdsPersistAlloc ==
  ASSUME NotifyInv, IdsApart, PersistAlloc
  PROVE  IdsApart'
<1>1. /\ Handles("alloc") /\ nextId' = nextId + 1
      /\ Answer(Head(inbox), [NoRow EXCEPT !.id = nextId])
      /\ UNCHANGED <<rows, found, notices>>
  BY DEF PersistAlloc
<1>2. nextId \in Nat /\ "alloc" \in Asking
  BY <1>1, Heard DEF FilesTyped, Asking
<1>3. PICK answer : answer = [NoRow EXCEPT !.id = nextId]
  OBVIOUS
<1>4. /\ answer.id \in Nat /\ answer.told \in SUBSET Target /\ answer.id = nextId
      /\ AllReached(ConvOf[Head(inbox).msg], answer.told)
  BY <1>2, <1>3, NothingTold
<1>5. \A i \in Nat \ {NoId} : \A v : InRows(i, v)' \/ InAnswers(i, v)' => Used(i, v)
  BY <1>1 DEF Used, InRows, InAnswers
<1>6. PICK k : k = nextId
  OBVIOUS
<1>7. PICK u : u = ConvOf[Head(inbox).msg]
  OBVIOUS
<1>8. nextId' \in Nat /\ nextId' >= nextId /\ nextId' > nextId
  BY <1>1, <1>2
<1> QED
  BY <1>1, <1>2, <1>3, <1>4, <1>5, <1>6, <1>7, <1>8, AnsweredIds

LEMMA IdsPersistRow ==
  ASSUME NotifyInv, IdsApart, PersistRow
  PROVE  IdsApart'
<1> DEFINE row == Head(inbox).row
<1>1. /\ Handles("open") \/ Handles("close")
      /\ rows' = Saved(row) /\ Answer(Head(inbox), NoRow)
      /\ UNCHANGED <<found, nextId, notices>>
  BY DEF PersistRow
<1>2. PICK op \in {"open", "close"} : Handles(op)
  BY <1>1
<1>3. /\ FilesTyped /\ inbox # <<>> /\ RequestSound(Head(inbox)) /\ Head(inbox).op = op
      /\ TypeOK
  BY <1>2, Heard
<1>4. row \in Row /\ rows \in Seq(Row) /\ nextId \in Nat
  BY <1>2, <1>3 DEF RequestSound, FilesTyped
<1>5. InRequests(row.id, ConvOf[row.msg])
  <2>1. 1 \in 1..Len(inbox) /\ Head(inbox) = inbox[1]
    BY <1>3 DEF TypeOK
  <2> QED
    BY <1>2, <1>3, <2>1 DEF InRequests
<1>6. PICK rs : rs = Saved(row)
  OBVIOUS
<1>7. \A n \in 1..Len(rs) : rs[n] = row \/ (n \in 1..Len(rows) /\ rs[n] = rows[n])
  BY <1>4, <1>6, SavedRows
<1>8. \A i, v : InRows(i, v)' => InRows(i, v) \/ InRequests(i, v)
  <2> SUFFICES ASSUME NEW i, NEW v, InRows(i, v)' PROVE InRows(i, v) \/ InRequests(i, v)
    OBVIOUS
  <2>1. PICK n \in 1..Len(rs) : rs[n].id = i /\ ConvOf[rs[n].msg] = v
    BY <1>1, <1>6 DEF InRows
  <2> QED
    BY <1>5, <1>7, <2>1 DEF InRows
<1>9. \A i, v : InAnswers(i, v)' => InAnswers(i, v)
  BY <1>1 DEF InAnswers
<1>10. \A i \in Nat \ {NoId} : \A v : InRows(i, v)' \/ InAnswers(i, v)' => Used(i, v)
  BY <1>8, <1>9 DEF Used
<1>11. PICK answer : answer = NoRow
  OBVIOUS
<1>12. /\ answer.id \in Nat /\ answer.told \in SUBSET Target
       /\ AllReached(ConvOf[Head(inbox).msg], answer.told)
  BY <1>11, NothingTold
<1>13. PICK k : k = NoId
  OBVIOUS
<1>14. op \in Asking /\ op \notin {"lookup", "alloc"} /\ nextId' \in Nat /\ nextId' >= nextId
  BY <1>1, <1>4 DEF Asking
<1> QED
  BY <1>1, <1>2, <1>10, <1>11, <1>12, <1>13, <1>14, AnsweredIds

\* The other answers carry no id.
LEMMA IdsAnswered ==
  ASSUME NotifyInv, IdsApart, NEW op \in Asking \ {"lookup", "alloc"}, Handles(op),
         Answer(Head(inbox), NoRow), UNCHANGED <<rows, found, nextId, notices>>
  PROVE  IdsApart'
<1>1. PICK answer : answer = NoRow
  OBVIOUS
<1>2. /\ answer.id \in Nat /\ answer.told \in SUBSET Target
      /\ AllReached(ConvOf[Head(inbox).msg], answer.told)
  BY <1>1, NothingTold
<1>3. PICK k : k = NoId
  OBVIOUS
<1>4. nextId' \in Nat /\ nextId' >= nextId /\ op \in Asking
  BY Heard DEF FilesTyped
<1>5. \A i \in Nat \ {NoId} : \A v : InRows(i, v)' \/ InAnswers(i, v)' => Used(i, v)
  BY DEF Used, InRows, InAnswers
<1>6. UNCHANGED notices
  OBVIOUS
<1> QED
  BY <1>1, <1>2, <1>3, <1>4, <1>5, <1>6, AnsweredIds
\* A queue that is part of the old one, with at most a request without a row.
LEMMA QueueIds ==
  ASSUME NEW q, QueueOK(q), Requested(q),
         inbox' = q \/ \E op \in (Asking \cup Waiting) \ {"open", "close"} : \E m, c :
                         inbox' = Ask(q, op, m, NoRow, c)
  PROVE  \A i, v : InRequests(i, v)' => InRequests(i, v)
<1>1. q \in Seq(Request)
  BY DEF QueueOK
<1>2. \E r : r.op \notin {"open", "close"} /\ inbox' \in {q, Append(q, r)}
  <2>1. CASE inbox' = q
    <3>1. [op |-> "mark"].op \notin {"open", "close"}
      OBVIOUS
    <3> QED
      BY <2>1, <3>1
  <2>2. CASE inbox' # q
    <3>1. PICK op \in (Asking \cup Waiting) \ {"open", "close"} :
            \E m, c : inbox' = Ask(q, op, m, NoRow, c)
      BY <2>2
    <3>4. PICK m, c : inbox' = Ask(q, op, m, NoRow, c)
      BY <3>1
    <3>2. PICK r : r = [op |-> op, msg |-> m, row |-> NoRow, by |-> c]
      OBVIOUS
    <3>3. r.op = op /\ inbox' \in {q, Append(q, r)}
      BY <3>2, <3>4 DEF Ask
    <3> QED
      BY <3>1, <3>3
  <2> QED
    BY <2>1, <2>2
<1> QED
  BY <1>1, <1>2, StillRequested

\* The listener, the claims, the buckets and the time of claims.
LEMMA IdsAround ==
  ASSUME NotifyInv, IdsApart,
         \/ \E c \in Copy : Emit(c) \/ Publish(c) \/ Queue(c)
         \/ \E m \in Message : Expire(m)
         \/ PersistCheck \/ PersistClaim \/ PersistNotified
         \/ \E w \in Worker : Restart(w)
         \/ UNCHANGED vars
  PROVE  IdsApart'
<1>1. TypeOK /\ QueueOK(inbox) /\ Requested(inbox)
  BY InboxRequested DEF NotifyInv
<1>2. UNCHANGED <<rows, found, nextId, notices>> /\ job' = job
  BY DEF Emit, Publish, Queue, Expire, PersistCheck, PersistClaim, PersistNotified, Restart,
         vars, files
<1>3. \A c \in Copy : at'[c] = "flush" => at[c] = "flush"
  BY <1>1 DEF Emit, Publish, Queue, Expire, PersistCheck, PersistClaim, PersistNotified,
              Restart, vars, Goes, TypeOK, Stage
<1>4. \A i, v : InRequests(i, v)' => InRequests(i, v)
  <2>1. CASE \E c \in Copy : Emit(c) \/ Publish(c)
    <3>1. {"check", "claim"} \subseteq (Asking \cup Waiting) \ {"open", "close"}
      BY DEF Waiting
    <3>2. inbox' = inbox \/ \E op \in (Asking \cup Waiting) \ {"open", "close"} : \E m, c :
            inbox' = Ask(inbox, op, m, NoRow, c)
      BY <2>1, <3>1 DEF Emit, Publish
    <3>3. PICK q : q = inbox
      OBVIOUS
    <3>4. inbox' = q \/ \E op \in (Asking \cup Waiting) \ {"open", "close"} : \E m, c :
            inbox' = Ask(q, op, m, NoRow, c)
      BY <3>2, <3>3
    <3> QED
      BY <1>1, <3>3, <3>4, QueueIds
  <2>2. CASE PersistCheck \/ PersistClaim
    <3>1. PICK q : q = Tail(inbox)
      OBVIOUS
    <3>2. inbox # <<>> /\ inbox' = q
      BY <2>2, <3>1 DEF PersistCheck, PersistClaim, Handles
    <3>3. QueueOK(q) /\ Requested(q)
      BY <1>1, <3>1, <3>2, QueueTail, TailRequested
    <3> QED
      BY <3>2, <3>3, QueueIds
  <2>3. CASE inbox' = inbox
    BY <2>3 DEF InRequests
  <2>4. \/ \E c \in Copy : Emit(c) \/ Publish(c)
        \/ PersistCheck \/ PersistClaim
        \/ inbox' = inbox
    BY DEF Queue, Expire, PersistNotified, Restart, vars
  <2> QED
    BY <2>1, <2>2, <2>3, <2>4
<1> QED
  BY <1>1, <1>2, <1>3, <1>4, IdsStay

\* A flush begins without an id.
LEMMA IdsFlush ==
  ASSUME NotifyInv, IdsApart, NEW v \in Conv, Flush(v)
  PROVE  IdsApart'
<1>1. TypeOK /\ QueueOK(inbox) /\ Requested(inbox)
  BY InboxRequested DEF NotifyInv
<1>2. PICK c : c = bucket[v][Len(bucket[v])]
  OBVIOUS
<1>3. PICK j : j = [batch |-> bucket[v], step |-> "lookup", i |-> 1, id |-> NoId, told |-> {},
                    todo |-> {}, failed |-> {}, round |-> 1]
  OBVIOUS
<1>4. /\ job' = [job EXCEPT ![c] = j] /\ Goes({c}, "flush")
      /\ inbox' = Ask(inbox, "lookup", MsgOf[c], NoRow, c)
      /\ UNCHANGED <<rows, found, nextId, notices>>
  BY <1>2, <1>3 DEF Flush, files
<1>5. j.id = NoId
  BY <1>3
<1>6. \A d \in Copy : at'[d] = "flush" =>
        (at[d] = "flush" /\ job'[d].id = job[d].id) \/ job'[d].id = NoId
  BY <1>1, <1>4, <1>5 DEF Goes, TypeOK
<1>7. \A i, w : InRequests(i, w)' => InRequests(i, w)
  <2>1. PICK q : q = inbox
    OBVIOUS
  <2>2. "lookup" \in (Asking \cup Waiting) \ {"open", "close"}
    BY DEF Asking
  <2>3. \E op \in (Asking \cup Waiting) \ {"open", "close"} : \E m, d :
          inbox' = Ask(q, op, m, NoRow, d)
    BY <1>4, <2>1, <2>2
  <2> QED
    BY <1>1, <2>1, <2>3, QueueIds
<1> QED
  BY <1>1, <1>4, <1>6, <1>7, IdsStay

\* A notice carries the id of its flush.
LEMMA IdsDeliver ==
  ASSUME NotifyInv, IdsApart, NEW c \in Copy, NEW outcome \in {"ok", "refused", "unknown"},
         Deliver(c, outcome)
  PROVE  IdsApart'
<1>1. TypeOK /\ JobsSound /\ QueueOK(inbox) /\ Requested(inbox) /\ nextId \in Nat
  BY InboxRequested DEF NotifyInv, TypeOK
<1>2. PICK b : b = job[c]
  OBVIOUS
<1>3. at[c] = "flush" /\ b.step = "send" /\ Flushing(c)
  BY <1>2 DEF Deliver, Flushing
<1>4. Sound(b, c) /\ Core(b, c) /\ b.todo # {} /\ 1 \in 1..Len(b.batch)
  BY <1>1, <1>2, <1>3 DEF JobsSound, Sound, Core, Job
<1>5. PICK n : n = [to |-> Turn(b.todo), id |-> b.id, by |-> c, round |-> b.round,
                    msgs |-> {MsgOf[d] : d \in Elems(b.batch)}]
  OBVIOUS
<1>6. PICK j : j = IF outcome = "ok" THEN At(b, "record", 1) ELSE Failed(b)
  OBVIOUS
<1>7. /\ notices' = IF outcome = "refused" THEN notices ELSE notices \cup {n}
      /\ Becomes(c, j, inbox)
      /\ UNCHANGED <<rows, found, nextId>>
  BY <1>2, <1>5, <1>6 DEF Deliver, files
<1>8. Core(j, c) /\ j.id = b.id
  <2>1. CASE outcome = "ok"
    BY <1>4, <1>6, <2>1, AtCore DEF Asking
  <2>2. CASE outcome # "ok"
    BY <1>4, <1>6, <2>2, FailedSound DEF Sound
  <2> QED
    BY <2>1, <2>2
<1>9. Used(b.id, Buyer(c))
  BY <1>2, <1>3 DEF Used, InFlushes
<1>10. \A i, v : InNotices(i, v)' => Used(i, v)
  <2> SUFFICES ASSUME NEW i, NEW v, InNotices(i, v)' PROVE Used(i, v)
    OBVIOUS
  <2>1. PICK k \in notices' : k.id = i /\ \E m \in k.msgs : ConvOf[m] = v
    BY DEF InNotices
  <2>2. CASE k \in notices
    BY <2>1, <2>2 DEF Used, InNotices
  <2>3. CASE k = n
    <3>1. PICK d \in Elems(b.batch) : ConvOf[MsgOf[d]] = v
      BY <1>5, <2>1, <2>3
    <3>2. Buyer(d) = Buyer(c) /\ k.id = b.id
      BY <1>4, <1>5, <2>3 DEF Core
    <3> QED
      BY <1>9, <2>1, <3>1, <3>2 DEF Buyer
  <2> QED
    BY <1>7, <2>1, <2>2, <2>3
<1>11. \A i, v : InRows(i, v)' \/ InAnswers(i, v)' => Used(i, v)
  BY <1>7 DEF Used, InRows, InAnswers
<1>12. PICK q : q = inbox
  OBVIOUS
<1>13. \A i \in Nat \ {NoId} : \A v :
         InRequests(i, v)' \/ InFlushes(i, v)' => Used(i, v) \/ (i = NoId /\ v = None)
  <2>1. q \in Seq(Request) /\ Requested(q) /\ Becomes(c, j, q)
    BY <1>1, <1>7, <1>12 DEF QueueOK
  <2>2. Used(j.id, Buyer(c))
    BY <1>8, <1>9
  <2> QED
    BY <1>1, <1>3, <1>8, <2>1, <2>2, BecomesIds
<1>14. OnlyNew(NoId, None)
  BY <1>10, <1>11, <1>13 DEF OnlyNew, Used
<1>15. nextId' \in Nat /\ nextId' >= nextId
  BY <1>1, <1>7
<1> QED
  BY <1>1, <1>14, <1>15, IdsStep

LEMMA IdsTimeout ==
  ASSUME NotifyInv, IdsApart, NEW c \in Copy, Timeout(c)
  PROVE  IdsApart'
<1>1. TypeOK /\ JobsSound /\ QueueOK(inbox) /\ Requested(inbox) /\ nextId \in Nat
  BY InboxRequested DEF NotifyInv, TypeOK
<1>2. PICK q : q = Abandon(inbox, {c})
  OBVIOUS
<1>3. QueueOK(q) /\ Requested(q) /\ q \in Seq(Request)
  <2>1. {c} \in SUBSET Copy
    OBVIOUS
  <2>2. QueueOK(q) /\ Requested(q)
    BY <1>1, <1>2, <2>1, QueueAbandon, AbandonRequested
  <2> QED
    BY <2>2 DEF QueueOK
<1>4. UNCHANGED <<rows, found, nextId, notices>>
  BY DEF Timeout, files
<1>5. CASE at[c] = "flush"
  <2>1. PICK b : b = job[c]
    OBVIOUS
  <2>2. PICK answer : answer = NoRow
    OBVIOUS
  <2>3. PICK j : j = Then(b, answer)
    OBVIOUS
  <2>4. Flushing(c) /\ Sound(b, c) /\ b.step \in Asking /\ Becomes(c, j, q)
    <3>1. Flushing(c) /\ Sound(b, c)
      BY <1>1, <1>5, <2>1 DEF JobsSound, Flushing
    <3>2. b.step \in Asking
      BY <1>5, <2>1 DEF Timeout, TimesOut, Waiting
    <3>3. Becomes(c, j, q)
      BY <1>2, <1>5, <2>1, <2>2, <2>3 DEF Timeout
    <3> QED
      BY <3>1, <3>2, <3>3
  <2>5. j = NoJob \/ (Sound(j, c) /\ (j.id = b.id \/ j.id = answer.id))
    <3>1. /\ answer.id \in Nat /\ answer.told \in SUBSET Target
          /\ AllReached(Buyer(c), answer.told)
      BY <2>2, NothingTold
    <3> QED
      BY <2>3, <2>4, <3>1, ThenSound
  <2>6. answer.id = NoId
    BY <2>2 DEF NoRow
  <2>7. Used(b.id, Buyer(c))
    BY <2>1, <2>4 DEF Used, InFlushes
  <2>8. \A i \in Nat \ {NoId} : \A v :
          InRequests(i, v)' \/ InFlushes(i, v)' => Used(i, v) \/ (i = NoId /\ v = None)
    <3>1. j # NoJob => Used(j.id, Buyer(c)) \/ j.id = NoId
      BY <2>5, <2>6, <2>7
    <3>2. j = NoJob \/ Core(j, c)
      BY <2>5 DEF Sound
    <3> QED
      BY <1>1, <1>3, <2>4, <3>1, <3>2, BecomesIds
  <2>9. \A i, v : InRows(i, v)' \/ InAnswers(i, v)' \/ InNotices(i, v)' => Used(i, v)
    BY <1>4 DEF Used, InRows, InAnswers, InNotices
  <2>10. OnlyNew(NoId, None)
    BY <2>8, <2>9 DEF OnlyNew, Used
  <2>11. nextId' \in Nat /\ nextId' >= nextId
    BY <1>1, <1>4
  <2> QED
    BY <1>1, <2>10, <2>11, IdsStep
<1>6. CASE at[c] # "flush"
  <2>1. Goes({c}, "idle") /\ inbox' = q /\ job' = job
    BY <1>2, <1>6 DEF Timeout
  <2>2. \A d \in Copy : at'[d] = "flush" => at[d] = "flush"
    BY <2>1 DEF Goes
  <2>3. \A i, v : InRequests(i, v)' => InRequests(i, v)
    BY <1>3, <2>1, QueueIds
  <2> QED
    BY <1>1, <1>4, <2>1, <2>2, <2>3, IdsStay
<1> QED
  BY <1>5, <1>6

LEMMA IdsCrash ==
  ASSUME NotifyInv, IdsApart, CrashListener \/ CrashNotifier \/ CrashPersistence
  PROVE  IdsApart'
<1>1. TypeOK /\ QueueOK(inbox) /\ Requested(inbox)
  BY InboxRequested DEF NotifyInv
<1>2. UNCHANGED <<rows, found, nextId, notices>>
  BY DEF CrashListener, CrashNotifier, CrashPersistence, files
<1>3. \A c \in Copy : at'[c] = "flush" => at[c] = "flush" /\ job'[c] = job[c]
  BY <1>1 DEF CrashListener, CrashNotifier, CrashPersistence, Loses, Goes, InNotifier, TypeOK
<1>4. \A i, v : InRequests(i, v)' => InRequests(i, v)
  <2>1. CASE CrashListener \/ CrashNotifier
    <3>1. PICK cs \in SUBSET Copy : inbox' = Abandon(inbox, cs)
      <4>1. {c \in Copy : at[c] \in {"check", "passed"}} \in SUBSET Copy
        OBVIOUS
      <4>2. {c \in Copy : at[c] \in InNotifier} \in SUBSET Copy
        OBVIOUS
      <4> QED
        BY <2>1, <4>1, <4>2 DEF CrashListener, CrashNotifier, Loses
    <3>2. PICK q : q = Abandon(inbox, cs)
      OBVIOUS
    <3>3. QueueOK(q) /\ Requested(q) /\ inbox' = q
      BY <1>1, <3>1, <3>2, QueueAbandon, AbandonRequested
    <3> QED
      BY <3>3, QueueIds
  <2>2. CASE CrashPersistence
    BY <2>2 DEF CrashPersistence, InRequests
  <2> QED
    BY <2>1, <2>2
<1> QED
  BY <1>1, <1>2, <1>3, <1>4, IdsStay

LEMMA IdsPersist ==
  ASSUME NotifyInv, IdsApart, Persist
  PROVE  IdsApart'
<1>1. CASE PersistMarked
  <2>1. /\ Handles("mark") /\ Answer(Head(inbox), NoRow)
        /\ UNCHANGED <<rows, found, nextId, notices>>
    BY <1>1 DEF PersistMarked
  <2>2. "mark" \in Asking \ {"lookup", "alloc"}
    BY DEF Asking
  <2> QED
    BY <2>1, <2>2, IdsAnswered
<1>2. CASE PersistRecord
  <2>1. /\ Handles("record") /\ Answer(Head(inbox), NoRow)
        /\ UNCHANGED <<rows, found, nextId, notices>>
    BY <1>2 DEF PersistRecord, files
  <2>2. "record" \in Asking \ {"lookup", "alloc"}
    BY DEF Asking
  <2> QED
    BY <2>1, <2>2, IdsAnswered
<1>3. CASE PersistRelease
  <2>1. /\ Handles("release") /\ Answer(Head(inbox), NoRow)
        /\ UNCHANGED <<rows, found, nextId, notices>>
    BY <1>3 DEF PersistRelease
  <2>2. "release" \in Asking \ {"lookup", "alloc"}
    BY DEF Asking
  <2> QED
    BY <2>1, <2>2, IdsAnswered
<1>4. CASE PersistPartial
  <2>1. /\ Handles("partial") /\ Answer(Head(inbox), NoRow)
        /\ UNCHANGED <<rows, found, nextId, notices>>
    BY <1>4 DEF PersistPartial
  <2>2. "partial" \in Asking \ {"lookup", "alloc"}
    BY DEF Asking
  <2> QED
    BY <2>1, <2>2, IdsAnswered
<1>5. CASE PersistCheck \/ PersistClaim \/ PersistNotified
  BY <1>5, IdsAround
<1> QED
  BY <1>1, <1>2, <1>3, <1>4, <1>5, IdsPersistLookup, IdsPersistAlloc, IdsPersistRow DEF Persist

LEMMA IdsAlways == Spec => []IdsApart
<1>1. Init => IdsApart
  BY DEF Init, IdsApart, Used, InNotices, InRows, InAnswers, InRequests, InFlushes, Flushing
<1>2. NotifyInv /\ IdsApart /\ [Next]_vars => IdsApart'
  <2> SUFFICES ASSUME NotifyInv, IdsApart, [Next]_vars PROVE IdsApart'
    OBVIOUS
  <2>1. CASE \E c \in Copy : Timeout(c)
    BY <2>1, IdsTimeout
  <2>2. CASE \E c \in Copy, o \in {"ok", "refused", "unknown"} : Deliver(c, o)
    BY <2>2, IdsDeliver
  <2>3. CASE \E v \in Conv : Flush(v)
    BY <2>3, IdsFlush
  <2>4. CASE Persist
    BY <2>4, IdsPersist
  <2>5. CASE CrashListener \/ CrashNotifier \/ CrashPersistence
    BY <2>5, IdsCrash
  <2>6. CASE \/ \E c \in Copy : Emit(c) \/ Publish(c) \/ Queue(c)
             \/ \E m \in Message : Expire(m)
             \/ \E w \in Worker : Restart(w)
             \/ UNCHANGED vars
    BY <2>6, IdsAround
  <2> QED
    BY <2>1, <2>2, <2>3, <2>4, <2>5, <2>6 DEF Next
<1> QED
  BY <1>1, <1>2, NotifyAlways, PTL DEF Spec

\* The id of a notice names one conversation, whatever crashes or comes late: a
\* reply that quotes it can not go to another buyer.
THEOREM IdsNameOneConversation == Spec => []IdNamesOneConversation
<1>1. NotifyInv /\ IdsApart => IdNamesOneConversation
  <2> SUFFICES ASSUME NotifyInv, IdsApart, NEW n \in notices, NEW k \in notices,
                      n.id = k.id, n.id # NoId, NEW m \in n.msgs, NEW w \in k.msgs
               PROVE  ConvOf[m] = ConvOf[w]
    BY DEF IdNamesOneConversation
  <2>1. n.id \in Nat \ {NoId}
    BY DEF NotifyInv, TypeOK
  <2>2. Used(n.id, ConvOf[m]) /\ Used(n.id, ConvOf[w])
    BY DEF Used, InNotices
  <2> QED
    BY <2>1, <2>2 DEF IdsApart
<1> QED
  BY <1>1, NotifyAlways, IdsAlways, PTL

-------------------------------------------------------------------------------
(***************************************************************************)
(* Notices that can be answered                                            *)
(***************************************************************************)
RowHas(i)    == \E n \in 1..Len(rows) : rows[n].id = i
OpenIn(q, i) == \E n \in 1..Len(q) : q[n].op = "open" /\ q[n].row.id = i

\* There is a row for the id, or persistence has been asked for it.
Answerable(i) == RowHas(i) \/ OpenIn(inbox, i)

AnswersInv ==
  /\ "persistence" \notin down
  /\ \A c \in Copy : Flushing(c) => job[c].id = NoId \/ Answerable(job[c].id)
  /\ \A n \in notices : n.id = NoId \/ Answerable(n.id)

LEMMA AnswersStep ==
  ASSUME AnswersInv, "persistence" \notin down', \A i : Answerable(i) => Answerable(i)',
         \A c \in Copy : at'[c] = "flush" =>
           \/ at[c] = "flush" /\ job'[c].id = job[c].id
           \/ job'[c].id = NoId
           \/ \E i : job'[c].id = i /\ Answerable(i)',
         \A n \in notices' : n \in notices \/ n.id = NoId \/ Answerable(n.id)
  PROVE  AnswersInv'
<1>1. \A c \in Copy : Flushing(c)' =>
        job'[c].id = NoId \/ \E i : job'[c].id = i /\ Answerable(i)'
  BY DEF AnswersInv, Flushing
<1>2. \A n \in notices' : n.id = NoId \/ \E i : n.id = i /\ Answerable(i)'
  BY DEF AnswersInv
<1> QED
  BY <1>1, <1>2 DEF AnswersInv, Answerable, RowHas, OpenIn

LEMMA OpenTail ==
  ASSUME NEW q \in Seq(Request), q # <<>>, NEW i, OpenIn(q, i)
  PROVE  OpenIn(Tail(q), i) \/ (Head(q).op = "open" /\ Head(q).row.id = i)
<1>1. /\ Len(Tail(q)) = Len(q) - 1 /\ Len(q) \in Nat /\ Head(q) = q[1]
      /\ \A n \in 1..Len(Tail(q)) : Tail(q)[n] = q[n + 1]
  OBVIOUS
<1>2. PICK n \in 1..Len(q) : q[n].op = "open" /\ q[n].row.id = i
  BY DEF OpenIn
<1>3. CASE n = 1
  BY <1>1, <1>2, <1>3
<1>4. CASE n # 1
  <2>1. n - 1 \in 1..Len(Tail(q)) /\ (n - 1) + 1 = n
    BY <1>1, <1>4
  <2>2. Tail(q)[n - 1] = q[n]
    BY <1>1, <2>1
  <2> QED
    BY <1>2, <2>1, <2>2 DEF OpenIn
<1> QED
  BY <1>3, <1>4

LEMMA OpenAbandon ==
  ASSUME NEW q, QueueOK(q), NEW cs \in SUBSET Copy, NEW i, OpenIn(q, i)
  PROVE  OpenIn(Abandon(q, cs), i)
BY QueueAbandon DEF OpenIn

LEMMA OpenAppend ==
  ASSUME NEW q \in Seq(Request), NEW r, NEW p, p \in {q, Append(q, r)}, NEW i, OpenIn(q, i)
  PROVE  OpenIn(p, i)
<1>1. PICK n \in 1..Len(q) : q[n].op = "open" /\ q[n].row.id = i
  BY DEF OpenIn
<1>2. n \in 1..Len(p) /\ p[n] = q[n]
  OBVIOUS
<1> QED
  BY <1>1, <1>2 DEF OpenIn

\* A flush that goes on asks for its row.
LEMMA BecomesAnswers ==
  ASSUME TypeOK, JobsSound, "persistence" \notin down, NEW c \in Copy, Flushing(c),
         NEW j, j = NoJob \/ Core(j, c), NEW q \in Seq(Request), Becomes(c, j, q)
  PROVE  /\ \A i : OpenIn(q, i) => OpenIn(inbox, i)'
         /\ j # NoJob /\ j.step = "open" => OpenIn(inbox, j.id)'
         /\ job'[c] = j /\ \A d \in Copy : d # c => job'[d] = job[d]
         /\ \A d \in Copy : at'[d] = "flush" => at[d] = "flush"
         /\ j = NoJob => at'[c] # "flush"
<1>1. job'[c] = j /\ \A d \in Copy : d # c => job'[d] = job[d]
  BY DEF Becomes, TypeOK
<1>2. \A d \in Copy : at'[d] = "flush" => at[d] = "flush"
  BY DEF Becomes, Goes, TypeOK
<1>3. j = NoJob => at'[c] # "flush"
  <2> SUFFICES ASSUME j = NoJob PROVE at'[c] = "idle"
    OBVIOUS
  <2>1. c \in Elems(job[c].batch)
    BY DEF JobsSound, Sound, Core
  <2> QED
    BY <2>1 DEF Becomes, Goes
<1>4. PICK row : row = IF j.step \in {"open", "close"} THEN RowOf(j) ELSE NoRow
  OBVIOUS
<1>5. PICK r : r = [op |-> j.step, msg |-> Subject(j), row |-> row, by |-> c]
  OBVIOUS
<1>6. PICK p : p = inbox'
  OBVIOUS
<1>7. p = IF j.step \in Asking THEN Append(q, r) ELSE q
  BY <1>4, <1>5, <1>6 DEF Becomes, Ask
<1>8. \A i : OpenIn(q, i) => OpenIn(p, i)
  BY <1>7, OpenAppend
<1>9. j # NoJob /\ j.step = "open" => OpenIn(p, j.id)
  <2> SUFFICES ASSUME j # NoJob, j.step = "open" PROVE OpenIn(p, j.id)
    OBVIOUS
  <2>1. row = RowOf(j) /\ row.id = j.id
    BY <1>4, CoreSubject DEF Core
  <2>2. r.op = "open" /\ r.row = row
    BY <1>5
  <2>3. p = Append(q, r)
    BY <1>7 DEF Asking
  <2>4. Len(p) \in 1..Len(p) /\ p[Len(p)] = r
    BY <2>3
  <2> QED
    BY <2>1, <2>2, <2>4 DEF OpenIn
<1>10. \A i : OpenIn(p, i) => OpenIn(inbox, i)'
  BY <1>6 DEF OpenIn
<1> QED
  BY <1>1, <1>2, <1>3, <1>8, <1>9, <1>10

\* A flush gets an id from an answer only with the next request, for its row.
LEMMA ThenOpens ==
  ASSUME NEW j \in Job, j.step \in {"lookup", "alloc"}, NEW answer
  PROVE  Then(j, answer).id = j.id \/ Then(j, answer).step = "open"
<1>1. CASE j.step = "lookup"
  <2> DEFINE known == [j EXCEPT !.told = answer.told, !.todo = Target \ answer.told]
  <2>1. known.id = j.id
    BY DEF Job
  <2>2. Then(j, answer) = IF answer.id = NoId THEN At(known, "alloc", 1)
                          ELSE [At(known, "open", 1) EXCEPT !.id = answer.id]
    BY <1>1 DEF Then, Resuming
  <2>3. At(known, "alloc", 1).id = known.id
    BY DEF At, Job
  <2>4. [At(known, "open", 1) EXCEPT !.id = answer.id].step = "open"
    BY DEF At, Job
  <2> QED
    BY <2>1, <2>2, <2>3, <2>4
<1>2. CASE j.step = "alloc"
  <2>1. Then(j, answer) = [At(j, "open", 1) EXCEPT !.id = answer.id]
    BY <1>2 DEF Then
  <2> QED
    BY <2>1 DEF At, Job
<1> QED
  BY <1>1, <1>2

\* A flush goes on after an answer, or without one.
LEMMA FlushAnswers ==
  ASSUME TypeOK, JobsSound, AnswersInv, NEW c \in Copy, Flushing(c), job[c].step \in Asking,
         NEW answer, answer.id \in Nat, answer.told \in SUBSET Target,
         AllReached(Buyer(c), answer.told),
         NEW q \in Seq(Request), Becomes(c, Then(job[c], answer), q),
         \A i : Answerable(i) => RowHas(i)' \/ OpenIn(q, i), UNCHANGED <<down, notices>>
  PROVE  AnswersInv'
<1>1. PICK b : b = job[c]
  OBVIOUS
<1>2. PICK j : j = Then(b, answer)
  OBVIOUS
<1>3. Sound(b, c) /\ b.step \in Asking /\ b \in Job
  BY <1>1 DEF JobsSound, Sound, Core
<1>4. j = NoJob \/ (Core(j, c) /\ (j.id = b.id \/ b.step \in {"lookup", "alloc"}))
  BY <1>2, <1>3, ThenSound DEF Sound
<1>5. j = NoJob \/ j.id = b.id \/ j.step = "open"
  BY <1>2, <1>3, <1>4, ThenOpens
<1>6. Becomes(c, j, q) /\ "persistence" \notin down
  BY <1>1, <1>2 DEF AnswersInv
<1>7. /\ \A i : OpenIn(q, i) => OpenIn(inbox, i)'
      /\ j # NoJob /\ j.step = "open" => OpenIn(inbox, j.id)'
      /\ job'[c] = j /\ \A d \in Copy : d # c => job'[d] = job[d]
      /\ \A d \in Copy : at'[d] = "flush" => at[d] = "flush"
      /\ j = NoJob => at'[c] # "flush"
  BY <1>4, <1>6, BecomesAnswers
<1>8. \A i : Answerable(i) => Answerable(i)'
  BY <1>7 DEF Answerable
<1>9. \A d \in Copy : at'[d] = "flush" =>
        \/ at[d] = "flush" /\ job'[d].id = job[d].id
        \/ \E i : job'[d].id = i /\ Answerable(i)'
  <2> SUFFICES ASSUME NEW d \in Copy, at'[d] = "flush", job'[d].id # job[d].id
               PROVE  \E i : job'[d].id = i /\ Answerable(i)'
    BY <1>7
  <2>1. d = c /\ j # NoJob /\ j.step = "open"
    BY <1>1, <1>5, <1>7
  <2> QED
    BY <1>7, <2>1 DEF Answerable
<1> QED
  BY <1>6, <1>8, <1>9, AnswersStep

\* Persistence answers; a row it was asked for is saved.
LEMMA AnswersAnswered ==
  ASSUME NotifyInv, AnswersInv, NEW op \in Asking, Handles(op),
         NEW answer, answer.id \in Nat, answer.told \in SUBSET Target,
         AllReached(ConvOf[Head(inbox).msg], answer.told), Answer(Head(inbox), answer),
         \A i : RowHas(i) => RowHas(i)',
         op = "open" => \E i : i = Head(inbox).row.id /\ RowHas(i)',
         UNCHANGED <<down, notices>>
  PROVE  AnswersInv'
<1>1. TypeOK /\ JobsSound /\ QueueOK(inbox) /\ inbox # <<>>
  BY DEF NotifyInv, Handles
<1>2. PICK q : q = Tail(inbox)
  OBVIOUS
<1>3. PICK r : r = Head(inbox)
  OBVIOUS
<1>4. r \in Request /\ RequestSound(r) /\ q \in Seq(Request) /\ r.op = op
  BY <1>1, <1>2, <1>3, QueueTail DEF QueueOK, Handles
<1>5. \A i : Answerable(i) => RowHas(i)' \/ OpenIn(q, i)
  <2>1. inbox \in Seq(Request)
    BY <1>1 DEF TypeOK
  <2> QED
    BY <1>1, <1>2, <1>3, <1>4, <2>1, OpenTail DEF Answerable
<1>6. CASE r.by = None
  <2>1. inbox' = q /\ at' = at /\ job' = job
    BY <1>2, <1>3, <1>6 DEF Answer
  <2>2. \A i : Answerable(i) => Answerable(i)'
    BY <1>5, <2>1 DEF Answerable, OpenIn
  <2> QED
    BY <2>1, <2>2, AnswersStep DEF AnswersInv
<1>7. CASE r.by # None
  <2>1. PICK c \in Copy : c = r.by
    BY <1>4, <1>7 DEF Request
  <2>2. Flushing(c) /\ job[c].step = op /\ ConvOf[r.msg] = Buyer(c)
    BY <1>4, <1>7, <2>1 DEF RequestSound, Waits
  <2>3. Becomes(c, Then(job[c], answer), q)
    BY <1>2, <1>3, <1>7, <2>1 DEF Answer
  <2>4. AllReached(Buyer(c), answer.told) /\ job[c].step \in Asking
    BY <1>3, <2>2
  <2> QED
    BY <1>1, <1>4, <1>5, <2>2, <2>3, <2>4, FlushAnswers
<1> QED
  BY <1>6, <1>7

LEMMA SavedHas ==
  ASSUME NEW row \in Row, rows \in Seq(Row)
  PROVE  \A i : (\E n \in 1..Len(rows) : rows[n].id = i) \/ i = row.id =>
           \E n \in 1..Len(Saved(row)) : Saved(row)[n].id = i
<1> DEFINE same == {n \in DOMAIN rows : rows[n].id = row.id /\ rows[n].msg = row.msg}
<1>1. CASE same = {}
  <2>1. PICK p : p = Saved(row)
    OBVIOUS
  <2>2. p = Append(rows, row)
    BY <1>1, <2>1 DEF Saved
  <2>3. /\ Len(rows) + 1 \in 1..Len(p) /\ p[Len(rows) + 1] = row
        /\ \A n \in 1..Len(rows) : n \in 1..Len(p) /\ p[n] = rows[n]
    BY <2>2
  <2> QED
    BY <2>1, <2>3
<1>2. CASE same # {}
  <2>1. PICK n : n = CHOOSE x \in same : \A k \in same : x <= k
    OBVIOUS
  <2>2. Saved(row) = [rows EXCEPT ![n] = row]
    BY <1>2, <2>1 DEF Saved
  <2>3. n \in same
    <3>1. same \subseteq Nat
      OBVIOUS
    <3>2. \E x \in same : \A k \in same : x <= k
      <4> HIDE DEF same
      <4> QED
        BY <1>2, <3>1, SmallestIndex
    <3> HIDE DEF same
    <3> QED
      BY <2>1, <3>2
  <2>4. n \in 1..Len(rows) /\ rows[n].id = row.id
    BY <2>3
  <2>5. PICK p : p = Saved(row)
    OBVIOUS
  <2> HIDE DEF same
  <2>6. Len(p) = Len(rows) /\ p[n] = row /\ \A k \in 1..Len(rows) : k # n => p[k] = rows[k]
    BY <2>2, <2>4, <2>5
  <2> QED
    BY <2>4, <2>5, <2>6
<1> QED
  BY <1>1, <1>2

LEMMA AnswersRow ==
  ASSUME NotifyInv, AnswersInv, PersistRow
  PROVE  AnswersInv'
<1>1. /\ Handles("open") \/ Handles("close")
      /\ rows' = Saved(Head(inbox).row) /\ Answer(Head(inbox), NoRow)
      /\ UNCHANGED <<down, notices>>
  BY DEF PersistRow
<1>2. PICK op \in {"open", "close"} : Handles(op)
  BY <1>1
<1>3. FilesTyped /\ RequestSound(Head(inbox)) /\ Head(inbox).op = op /\ op \in Asking
  BY <1>2, Heard DEF Asking
<1>4. PICK row : row = Head(inbox).row
  OBVIOUS
<1>5. row \in Row /\ rows \in Seq(Row)
  BY <1>3, <1>4 DEF RequestSound, FilesTyped
<1>6. \A i : RowHas(i) \/ i = row.id => RowHas(i)'
  <2>1. PICK p : p = Saved(row)
    OBVIOUS
  <2>2. rows' = p
    BY <1>1, <1>4, <2>1
  <2>3. \A i : RowHas(i) \/ i = row.id => \E n \in 1..Len(p) : p[n].id = i
    BY <1>5, <2>1, SavedHas DEF RowHas
  <2> QED
    BY <2>2, <2>3 DEF RowHas
<1>7. PICK answer : answer = NoRow
  OBVIOUS
<1>8. /\ answer.id \in Nat /\ answer.told \in SUBSET Target
      /\ AllReached(ConvOf[Head(inbox).msg], answer.told)
  BY <1>7, NothingTold
<1> QED
  BY <1>1, <1>2, <1>3, <1>4, <1>6, <1>7, <1>8, AnswersAnswered

\* The other answers.
LEMMA AnswersOther ==
  ASSUME NotifyInv, AnswersInv,
         PersistLookup \/ PersistAlloc \/ PersistMarked \/ PersistRecord \/ PersistRelease
           \/ PersistPartial
  PROVE  AnswersInv'
<1>1. \E op \in Asking \ {"open"} : \E answer :
        /\ Handles(op) /\ Answer(Head(inbox), answer)
        /\ answer.id \in Nat /\ answer.told \in SUBSET Target
        /\ AllReached(ConvOf[Head(inbox).msg], answer.told)
  <2>1. CASE PersistLookup
    <3>1. Handles("lookup") /\ Answer(Head(inbox), Lookup(Head(inbox).msg))
      BY <2>1 DEF PersistLookup
    <3>2. TypeOK /\ FilesSound /\ Head(inbox).msg \in Message
      BY <3>1, Heard
    <3>3. PICK answer : answer = Lookup(Head(inbox).msg)
      OBVIOUS
    <3>4. /\ answer.id \in Nat /\ answer.told \in SUBSET Target
          /\ AllReached(ConvOf[Head(inbox).msg], answer.told)
      BY <3>2, <3>3, LookupSound
    <3> QED
      BY <3>1, <3>3, <3>4 DEF Asking
  <2>2. CASE PersistAlloc
    <3>1. Handles("alloc") /\ Answer(Head(inbox), [NoRow EXCEPT !.id = nextId])
      BY <2>2 DEF PersistAlloc
    <3>2. nextId \in Nat
      BY <3>1, Heard DEF FilesTyped
    <3>3. PICK answer : answer = [NoRow EXCEPT !.id = nextId]
      OBVIOUS
    <3>4. /\ answer.id \in Nat /\ answer.told \in SUBSET Target
          /\ AllReached(ConvOf[Head(inbox).msg], answer.told)
      BY <3>2, <3>3, NothingTold
    <3> QED
      BY <3>1, <3>3, <3>4 DEF Asking
  <2>3. CASE PersistMarked \/ PersistRecord \/ PersistRelease \/ PersistPartial
    <3>1. \E op \in {"mark", "record", "release", "partial"} : Handles(op)
      BY <2>3 DEF PersistMarked, PersistRecord, PersistRelease, PersistPartial
    <3>2. Answer(Head(inbox), NoRow)
      BY <2>3 DEF PersistMarked, PersistRecord, PersistRelease, PersistPartial
    <3>3. PICK answer : answer = NoRow
      OBVIOUS
    <3>4. /\ answer.id \in Nat /\ answer.told \in SUBSET Target
          /\ AllReached(ConvOf[Head(inbox).msg], answer.told)
      BY <3>3, NothingTold
    <3> QED
      BY <3>1, <3>2, <3>3, <3>4 DEF Asking
  <2> QED
    BY <2>1, <2>2, <2>3
<1>2. UNCHANGED <<rows, down, notices>>
  BY DEF PersistLookup, PersistAlloc, PersistMarked, PersistRecord, PersistRelease,
         PersistPartial, files
<1>3. \A i : RowHas(i) => RowHas(i)'
  BY <1>2 DEF RowHas
<1> QED
  BY <1>1, <1>2, <1>3, AnswersAnswered

LEMMA AnswersDeliver ==
  ASSUME NotifyInv, AnswersInv, NEW c \in Copy, NEW outcome \in {"ok", "refused", "unknown"},
         Deliver(c, outcome)
  PROVE  AnswersInv'
<1>1. TypeOK /\ JobsSound /\ "persistence" \notin down
  BY DEF NotifyInv, AnswersInv
<1>2. PICK b : b = job[c]
  OBVIOUS
<1>3. at[c] = "flush" /\ b.step = "send" /\ Flushing(c)
  BY <1>2 DEF Deliver, Flushing
<1>4. Sound(b, c) /\ Core(b, c) /\ b.todo # {} /\ 1 \in 1..Len(b.batch)
  BY <1>1, <1>2, <1>3 DEF JobsSound, Sound, Core, Job
<1>5. PICK n : n = [to |-> Turn(b.todo), id |-> b.id, by |-> c, round |-> b.round,
                    msgs |-> {MsgOf[d] : d \in Elems(b.batch)}]
  OBVIOUS
<1>6. PICK j : j = IF outcome = "ok" THEN At(b, "record", 1) ELSE Failed(b)
  OBVIOUS
<1>7. /\ notices' = IF outcome = "refused" THEN notices ELSE notices \cup {n}
      /\ Becomes(c, j, inbox)
      /\ UNCHANGED <<rows, down>>
  BY <1>2, <1>5, <1>6 DEF Deliver, files
<1>8. Core(j, c) /\ j.id = b.id
  <2>1. CASE outcome = "ok"
    BY <1>4, <1>6, <2>1, AtCore DEF Asking
  <2>2. CASE outcome # "ok"
    BY <1>4, <1>6, <2>2, FailedSound DEF Sound
  <2> QED
    BY <2>1, <2>2
<1>9. PICK q : q = inbox
  OBVIOUS
<1>10. q \in Seq(Request) /\ Becomes(c, j, q)
  BY <1>1, <1>7, <1>9 DEF TypeOK
<1>11. /\ \A i : OpenIn(q, i) => OpenIn(inbox, i)'
       /\ job'[c] = j /\ \A d \in Copy : d # c => job'[d] = job[d]
       /\ \A d \in Copy : at'[d] = "flush" => at[d] = "flush"
       /\ j = NoJob => at'[c] # "flush"
  BY <1>1, <1>3, <1>8, <1>10, BecomesAnswers
<1>12. \A i : Answerable(i) => Answerable(i)'
  BY <1>7, <1>9, <1>11 DEF Answerable, RowHas
<1>13. \A d \in Copy : at'[d] = "flush" => at[d] = "flush" /\ job'[d].id = job[d].id
  BY <1>2, <1>8, <1>11
<1>14. \A k \in notices' : k \in notices \/ k.id = NoId \/ Answerable(k.id)
  <2>1. n.id = NoId \/ Answerable(n.id)
    BY <1>2, <1>3, <1>5 DEF AnswersInv
  <2> QED
    BY <1>7, <2>1
<1> QED
  BY <1>1, <1>7, <1>12, <1>13, <1>14, AnswersStep

LEMMA AnswersTimeout ==
  ASSUME NotifyInv, AnswersInv, NEW c \in Copy, Timeout(c)
  PROVE  AnswersInv'
<1>1. TypeOK /\ JobsSound /\ QueueOK(inbox) /\ "persistence" \notin down
  BY DEF NotifyInv, AnswersInv
<1>2. PICK q : q = Abandon(inbox, {c})
  OBVIOUS
<1>3. q \in Seq(Request) /\ \A i : OpenIn(inbox, i) => OpenIn(q, i)
  <2>1. {c} \in SUBSET Copy
    OBVIOUS
  <2> QED
    BY <1>1, <1>2, <2>1, QueueAbandon, OpenAbandon DEF QueueOK
<1>4. UNCHANGED <<rows, notices, down>>
  BY DEF Timeout, files
<1>5. \A i : Answerable(i) => RowHas(i)' \/ OpenIn(q, i)
  BY <1>3, <1>4 DEF Answerable, RowHas
<1>6. CASE at[c] = "flush"
  <2>1. PICK answer : answer = NoRow
    OBVIOUS
  <2>2. /\ answer.id \in Nat /\ answer.told \in SUBSET Target
        /\ AllReached(Buyer(c), answer.told)
    BY <2>1, NothingTold
  <2>3. Flushing(c) /\ job[c].step \in Asking /\ Becomes(c, Then(job[c], answer), q)
    BY <1>2, <1>6, <2>1 DEF Timeout, TimesOut, Waiting, Flushing
  <2> QED
    BY <1>1, <1>3, <1>4, <1>5, <2>2, <2>3, FlushAnswers
<1>7. CASE at[c] # "flush"
  <2>1. Goes({c}, "idle") /\ inbox' = q /\ job' = job
    BY <1>2, <1>7 DEF Timeout
  <2>2. \A d \in Copy : at'[d] = "flush" => at[d] = "flush"
    BY <2>1 DEF Goes
  <2>3. \A i : Answerable(i) => Answerable(i)'
    BY <1>5, <2>1 DEF Answerable, OpenIn
  <2> QED
    BY <1>1, <1>4, <2>1, <2>2, <2>3, AnswersStep
<1> QED
  BY <1>6, <1>7

\* Steps that answer no flush.
LEMMA AnswersAround ==
  ASSUME NotifyInv, AnswersInv, "crashPersistence" \notin Fault,
         \/ \E c \in Copy : Emit(c) \/ Publish(c) \/ Queue(c)
         \/ \E m \in Message : Expire(m)
         \/ \E v \in Conv : Flush(v)
         \/ PersistCheck \/ PersistClaim \/ PersistNotified
         \/ CrashListener \/ CrashNotifier \/ CrashPersistence
         \/ \E w \in Worker : Restart(w)
         \/ UNCHANGED vars
  PROVE  AnswersInv'
<1>1. TypeOK /\ QueueOK(inbox) /\ inbox \in Seq(Request)
  BY DEF NotifyInv, QueueOK
<1>2. ~CrashPersistence
  BY DEF CrashPersistence, Faulty
<1>3. UNCHANGED <<rows, notices>>
  BY DEF Emit, Publish, Queue, Expire, Flush, PersistCheck, PersistClaim, PersistNotified,
         CrashListener, CrashNotifier, CrashPersistence, Restart, vars, files
<1>4. "persistence" \notin down'
  <2>1. CASE CrashListener \/ CrashNotifier \/ \E w \in Worker : Restart(w)
    BY <2>1 DEF AnswersInv, CrashListener, CrashNotifier, Restart
  <2>2. CASE UNCHANGED down
    BY <2>2 DEF AnswersInv
  <2> QED
    BY <1>2, <2>1, <2>2 DEF Emit, Publish, Queue, Expire, Flush, PersistCheck, PersistClaim,
         PersistNotified, vars
<1>5. \A i : OpenIn(inbox, i) => OpenIn(inbox, i)'
  <2> SUFFICES ASSUME NEW i, OpenIn(inbox, i) PROVE OpenIn(inbox, i)'
    OBVIOUS
  <2>1. CASE \/ \E c \in Copy : Emit(c) \/ Publish(c)
             \/ \E v \in Conv : Flush(v)
    <3>1. \E op, m, c : inbox' \in {inbox, Ask(inbox, op, m, NoRow, c)}
      BY <2>1 DEF Emit, Publish, Flush
    <3>2. PICK p : p = inbox'
      OBVIOUS
    <3>3. \E r : p \in {inbox, Append(inbox, r)}
      BY <3>1, <3>2 DEF Ask
    <3>4. OpenIn(p, i)
      BY <1>1, <3>3, OpenAppend
    <3> QED
      BY <3>2, <3>4 DEF OpenIn
  <2>2. CASE PersistCheck \/ PersistClaim
    <3>1. inbox # <<>> /\ Head(inbox).op # "open" /\ inbox' = Tail(inbox)
      BY <2>2 DEF PersistCheck, PersistClaim, Handles
    <3>2. OpenIn(Tail(inbox), i)
      BY <1>1, <3>1, OpenTail
    <3> QED
      BY <3>1, <3>2 DEF OpenIn
  <2>3. CASE CrashListener \/ CrashNotifier
    <3>1. PICK cs \in SUBSET Copy : inbox' = Abandon(inbox, cs)
      <4>1. {c \in Copy : at[c] \in {"check", "passed"}} \in SUBSET Copy
        OBVIOUS
      <4>2. {c \in Copy : at[c] \in InNotifier} \in SUBSET Copy
        OBVIOUS
      <4> QED
        BY <2>3, <4>1, <4>2 DEF CrashListener, CrashNotifier, Loses
    <3>2. PICK p : p = Abandon(inbox, cs)
      OBVIOUS
    <3>3. OpenIn(p, i) /\ inbox' = p
      BY <1>1, <3>1, <3>2, OpenAbandon
    <3> QED
      BY <3>3 DEF OpenIn
  <2>4. CASE inbox' = inbox
    BY <2>4 DEF OpenIn
  <2> QED
    BY <1>2, <2>1, <2>2, <2>3, <2>4 DEF Queue, Expire, PersistNotified, Restart, vars
<1>6. \A i : Answerable(i) => Answerable(i)'
  BY <1>3, <1>5 DEF Answerable, RowHas
<1>7. \A c \in Copy : at'[c] = "flush" =>
        (at[c] = "flush" /\ job'[c].id = job[c].id) \/ job'[c].id = NoId
  <2>1. CASE \E v \in Conv : Flush(v)
    <3>1. PICK v \in Conv : Flush(v)
      BY <2>1
    <3>2. PICK d : d = bucket[v][Len(bucket[v])]
      OBVIOUS
    <3>3. PICK j : j = [batch |-> bucket[v], step |-> "lookup", i |-> 1, id |-> NoId,
                        told |-> {}, todo |-> {}, failed |-> {}, round |-> 1]
      OBVIOUS
    <3>4. job' = [job EXCEPT ![d] = j] /\ Goes({d}, "flush") /\ j.id = NoId
      BY <3>1, <3>2, <3>3 DEF Flush
    <3> QED
      BY <1>1, <3>4 DEF Goes, TypeOK
  <2>2. CASE CrashListener \/ CrashNotifier
    BY <1>1, <2>2 DEF CrashListener, CrashNotifier, Loses, Goes, InNotifier, TypeOK
  <2>3. CASE ~CrashListener /\ ~CrashNotifier /\ ~\E v \in Conv : Flush(v)
    <3>1. job' = job
      BY <1>2, <2>3 DEF Emit, Publish, Queue, Expire, PersistCheck, PersistClaim,
         PersistNotified, Restart, vars
    <3>2. \A c \in Copy : at'[c] = "flush" => at[c] = "flush"
      BY <1>1, <1>2, <2>3 DEF Emit, Publish, Queue, Expire, PersistCheck, PersistClaim,
         PersistNotified, Restart, vars, Goes, TypeOK, Stage
    <3> QED
      BY <3>1, <3>2
  <2> QED
    BY <2>1, <2>2, <2>3
<1> QED
  BY <1>3, <1>4, <1>6, <1>7, AnswersStep

LEMMA AnswersAlways ==
  ASSUME "crashPersistence" \notin Fault
  PROVE  Spec => []AnswersInv
<1>1. Init => AnswersInv
  BY DEF Init, AnswersInv, Flushing
<1>2. NotifyInv /\ AnswersInv /\ [Next]_vars => AnswersInv'
  <2> SUFFICES ASSUME NotifyInv, AnswersInv, [Next]_vars PROVE AnswersInv'
    OBVIOUS
  <2>1. CASE \E c \in Copy : Timeout(c)
    BY <2>1, AnswersTimeout
  <2>2. CASE \E c \in Copy, o \in {"ok", "refused", "unknown"} : Deliver(c, o)
    BY <2>2, AnswersDeliver
  <2>3. CASE PersistRow
    BY <2>3, AnswersRow
  <2>4. CASE PersistLookup \/ PersistAlloc \/ PersistMarked \/ PersistRecord
             \/ PersistRelease \/ PersistPartial
    BY <2>4, AnswersOther
  <2>5. CASE \/ \E c \in Copy : Emit(c) \/ Publish(c) \/ Queue(c)
             \/ \E m \in Message : Expire(m)
             \/ \E v \in Conv : Flush(v)
             \/ PersistCheck \/ PersistClaim \/ PersistNotified
             \/ CrashListener \/ CrashNotifier \/ CrashPersistence
             \/ \E w \in Worker : Restart(w)
             \/ UNCHANGED vars
    BY <2>5, AnswersAround
  <2> QED
    BY <2>1, <2>2, <2>3, <2>4, <2>5 DEF Next, Persist
<1> QED
  BY <1>1, <1>2, NotifyAlways, PTL DEF Spec

\* As long as persistence does not crash, a reply that quotes a notice finds its
\* row, or comes behind the request for it.
THEOREM NoticesCanBeAnswered ==
  ASSUME "crashPersistence" \notin Fault
  PROVE  Spec => []NoticeAnswerable
<1>1. AnswersInv => NoticeAnswerable
  <2> SUFFICES ASSUME AnswersInv, NEW n \in notices, n.id # NoId
               PROVE  \/ \E k \in DOMAIN rows : rows[k].id = n.id
                      \/ \E k \in DOMAIN inbox : inbox[k].op = "open" /\ inbox[k].row.id = n.id
    BY DEF NoticeAnswerable
  <2>1. Answerable(n.id)
    BY DEF AnswersInv
  <2> QED
    BY <2>1 DEF Answerable, RowHas, OpenIn
<1> QED
  BY <1>1, AnswersAlways, PTL

-------------------------------------------------------------------------------
(***************************************************************************)
(* Notices that come once                                                  *)
(***************************************************************************)
\* One target, no crash of the notifier or persistence, answers of wxbot in time,
\* and no claim that gets too old while it is worked on.
Calm ==
  /\ Fault \subseteq {"refused", "late", "crashListener"}
  /\ \E t : Target = {t}

\* The requests that end a message's notification.
Ending == {"mark", "release", "partial"}

\* Where in the batch of a flush the notification is ended ...
Ended(j) ==
  IF \/ j.step \in {"release", "partial"}
     \/ j.step \in {"mark", "close"} /\ AllTold(j)
  THEN 1..j.i ELSE {}

\* ... and the sightings for which it is not.
Left(j) == {j.batch[n] : n \in (1..Len(j.batch)) \ Ended(j)}

\* A flush whose notice was sent.
Delivered(j) == j.step = "record" \/ (j.step \in {"mark", "close"} /\ AllTold(j))

Distinct(s) == \A n, k \in 1..Len(s) : s[n] = s[k] => n = k

\* The target is told, to be told, or failed.
Single(j) ==
  /\ j.told # {} => j.todo = {} /\ j.failed = {}
  /\ j.todo # {} => j.failed = {}
  /\ j.step = "lookup" => j.failed = {}

\* The flush b goes on as j.
Advances(b, j) ==
  /\ j.batch = b.batch
  /\ j.step \in Ending => \E d \in Left(b) : Subject(j) = MsgOf[d] /\ Left(j) = Left(b) \ {d}
  /\ j.step \notin Ending => Left(j) = Left(b)

LEMMA OneEnded ==
  ASSUME NEW b, NEW j, b.batch \in Seq(Copy), j.batch = b.batch, Distinct(b.batch),
         NEW i \in 1..Len(b.batch), Ended(b) = 1..(i - 1), Ended(j) = 1..i
  PROVE  b.batch[i] \in Left(b) /\ Left(j) = Left(b) \ {b.batch[i]}
<1>1. Len(b.batch) \in Nat /\ i \in Nat /\ i \notin 1..(i - 1)
  OBVIOUS
<1>2. b.batch[i] \in Left(b)
  BY <1>1 DEF Left
<1>3. \A d \in Left(j) : d \in Left(b) /\ d # b.batch[i]
  <2> SUFFICES ASSUME NEW d \in Left(j) PROVE d \in Left(b) /\ d # b.batch[i]
    OBVIOUS
  <2>1. PICK n \in (1..Len(b.batch)) \ (1..i) : d = b.batch[n]
    BY DEF Left
  <2>2. n # i /\ n \notin 1..(i - 1)
    BY <1>1, <2>1
  <2> QED
    BY <2>1, <2>2 DEF Left, Distinct
<1>4. \A d \in Left(b) : d # b.batch[i] => d \in Left(j)
  <2> SUFFICES ASSUME NEW d \in Left(b), d # b.batch[i] PROVE d \in Left(j)
    OBVIOUS
  <2>1. PICK n \in (1..Len(b.batch)) \ (1..(i - 1)) : d = b.batch[n]
    BY DEF Left
  <2>2. n \notin 1..i
    BY <1>1, <2>1
  <2> QED
    BY <2>1, <2>2 DEF Left
<1> QED
  BY <1>2, <1>3, <1>4

\* A flush asks to end the notification of its i-th message.
LEMMA EndsOne ==
  ASSUME NEW c, NEW b, Core(b, c), Distinct(b.batch), NEW i \in 1..Len(b.batch),
         Ended(b) = 1..(i - 1), NEW step \in Ending, step = "mark" => AllTold(b)
  PROVE  Advances(b, At(b, step, i))
<1>1. PICK j : j = At(b, step, i)
  OBVIOUS
<1>2. step \in Asking
  BY DEF Ending, Asking
<1>3. j.step = step /\ j.i = i /\ j.batch = b.batch /\ j.told = b.told
  BY <1>1, <1>2, AtCore
<1>4. Ended(j) = 1..i
  BY <1>3 DEF Ended, Ending, AllTold
<1>5. b.batch[i] \in Left(b) /\ Left(j) = Left(b) \ {b.batch[i]}
  BY <1>3, <1>4, OneEnded DEF Core, Job
<1>6. Subject(j) = MsgOf[b.batch[i]]
  BY <1>3 DEF Subject, Ending
<1> QED
  BY <1>1, <1>3, <1>5, <1>6 DEF Advances

LEMMA ClosingLeft ==
  ASSUME NEW c, NEW b, Core(b, c), Distinct(b.batch), NEW i \in 1..Len(b.batch),
         AllTold(b) => Ended(b) = 1..(i - 1), ~AllTold(b) => Ended(b) = {}
  PROVE  Advances(b, Closing(b, i)) /\ (AllTold(b) => Delivered(Closing(b, i)))
<1>1. CASE AllTold(b)
  <2>1. Closing(b, i) = At(b, "mark", i)
    BY <1>1 DEF Closing
  <2>2. At(b, "mark", i).step = "mark" /\ At(b, "mark", i).told = b.told
    BY AtCore DEF Asking
  <2> QED
    BY <1>1, <2>1, <2>2, EndsOne DEF Ending, Delivered, AllTold
<1>2. CASE ~AllTold(b)
  <2>1. PICK j : j = At(b, "close", i)
    OBVIOUS
  <2>2. j.step = "close" /\ j.batch = b.batch /\ j.told = b.told
    BY <2>1, AtCore DEF Asking
  <2>3. Ended(j) = {}
    BY <1>2, <2>2 DEF Ended, AllTold
  <2>4. Closing(b, i) = j
    BY <1>2, <2>1 DEF Closing
  <2> QED
    BY <1>2, <2>2, <2>3, <2>4 DEF Advances, Left, Ending
<1> QED
  BY <1>1, <1>2

\* What does not end a notification.
LEMMA NothingEnded ==
  ASSUME NEW b, NEW j, j.batch = b.batch, Ended(j) = Ended(b), j.step \notin Ending
  PROVE  Advances(b, j)
BY DEF Advances, Left

LEMMA AtSingle ==
  ASSUME NEW c, NEW b, Core(b, c), Single(b), NEW i \in 1..Len(b.batch),
         NEW step \in Asking \cup {"send"}, step # "lookup"
  PROVE  Single(At(b, step, i))
BY AtCore DEF Single

LEMMA ClosingSingle ==
  ASSUME NEW c, NEW b, Core(b, c), Single(b), NEW i \in 1..Len(b.batch)
  PROVE  Single(Closing(b, i))
<1>1. {"mark", "close"} \subseteq Asking
  BY DEF Asking
<1> QED
  BY <1>1, AtSingle DEF Closing

\* Before the targets: nothing is ended.
LEMMA SendingLeft ==
  ASSUME NEW c, NEW b, Core(b, c), Distinct(b.batch), Single(b), Ended(b) = {}
  PROVE  /\ Advances(b, Sending(b)) /\ Single(Sending(b))
         /\ b.todo = {} /\ b.failed = {} /\ AllTold(b) => Delivered(Sending(b))
<1>1. 1 \in 1..Len(b.batch) /\ b \in Job
  BY DEF Core, Job
<1>2. CASE b.todo # {}
  <2>1. PICK j : j = At(b, "send", 1)
    OBVIOUS
  <2>2. j.step = "send" /\ j.batch = b.batch /\ Single(j)
    BY <1>1, <2>1, AtCore, AtSingle
  <2>3. Ended(j) = {}
    BY <2>2 DEF Ended
  <2>4. Sending(b) = j
    BY <1>2, <2>1 DEF Sending
  <2> QED
    BY <1>2, <2>2, <2>3, <2>4, NothingEnded DEF Ending
<1>3. CASE b.todo = {} /\ b.failed # {} /\ b.round = 1
  <2>1. PICK k : k = At(b, "send", 1)
    OBVIOUS
  <2>2. /\ k \in Job /\ k.step = "send" /\ k.batch = b.batch /\ k.told = b.told
        /\ k.failed = b.failed
    BY <1>1, <2>1, AtCore DEF Core
  <2>3. PICK j : j = [k EXCEPT !.todo = b.failed, !.failed = {}, !.round = 2]
    OBVIOUS
  <2>4. b.failed \in SUBSET Target
    BY <1>1 DEF Job
  <2>5. /\ j.step = "send" /\ j.batch = b.batch /\ j.told = b.told /\ j.todo = b.failed
        /\ j.failed = {}
    BY <2>2, <2>3, <2>4 DEF Job
  <2>6. Sending(b) = j
    BY <1>3, <2>1, <2>3 DEF Sending
  <2>7. Ended(j) = {}
    BY <2>5 DEF Ended
  <2>8. Single(j)
    BY <1>3, <2>5 DEF Single
  <2> QED
    BY <1>3, <2>5, <2>6, <2>7, <2>8, NothingEnded DEF Ending
<1>4. CASE b.todo = {} /\ ~(b.failed # {} /\ b.round = 1)
  <2>1. Sending(b) = Closing(b, 1)
    BY <1>4 DEF Sending
  <2>2. Ended(b) = 1..(1 - 1)
    OBVIOUS
  <2>3. Advances(b, Closing(b, 1)) /\ (AllTold(b) => Delivered(Closing(b, 1)))
    BY <1>1, <2>2, ClosingLeft
  <2> QED
    BY <1>1, <2>1, <2>3, ClosingSingle
<1> QED
  BY <1>2, <1>3, <1>4

LEMMA ToldLeft ==
  ASSUME Calm, NEW c, NEW b, Core(b, c), Distinct(b.batch), Single(b), b.todo # {},
         Reached(Buyer(c), Turn(b.todo)), b.step = "record"
  PROVE  Advances(b, Told(b)) /\ Single(Told(b)) /\ Delivered(Told(b))
<1> DEFINE t == Turn(b.todo)
           n == [b EXCEPT !.todo = @ \ {t}, !.told = @ \cup {t}]
<1>1. t \in b.todo /\ b \in Job /\ b.todo \subseteq Target
  BY TurnIsOpen DEF Core, Job
<1>2. t \in Target
  BY <1>1
<1>3. /\ n \in Job /\ n.batch = b.batch /\ n.i = b.i /\ n.step = b.step
      /\ n.told = b.told \cup {t} /\ n.todo = b.todo \ {t} /\ n.failed = b.failed
  <2> HIDE DEF t
  <2> QED
    BY <1>1, <1>2 DEF Job
<1>4. Told(b) = Sending(n)
  BY DEF Told
<1> HIDE DEF n
<1>5. n.todo = {} /\ n.failed = {} /\ AllTold(n)
  BY <1>1, <1>2, <1>3 DEF Calm, Single, AllTold
<1>6. Single(n)
  BY <1>3, <1>5 DEF Single
<1>7. Core(n, c)
  BY <1>3 DEF Core, AllReached
<1>8. Ended(n) = {} /\ Ended(b) = {} /\ Left(n) = Left(b)
  BY <1>3 DEF Ended, Left
<1>9. Advances(n, Sending(n)) /\ Single(Sending(n)) /\ Delivered(Sending(n))
  BY <1>3, <1>5, <1>6, <1>7, <1>8, SendingLeft
<1> QED
  BY <1>3, <1>4, <1>8, <1>9 DEF Advances

LEMMA FailedLeft ==
  ASSUME Calm, NEW c, NEW b, Core(b, c), Distinct(b.batch), Single(b), b.todo # {},
         b.step = "send"
  PROVE  Advances(b, Failed(b)) /\ Single(Failed(b))
<1> DEFINE t == Turn(b.todo)
           n == [b EXCEPT !.todo = @ \ {t}, !.failed = @ \cup {t}]
<1>1. t \in b.todo /\ b \in Job /\ b.todo \subseteq Target
  BY TurnIsOpen DEF Core, Job
<1>2. t \in Target
  BY <1>1
<1>3. /\ n \in Job /\ n.batch = b.batch /\ n.i = b.i /\ n.step = b.step
      /\ n.told = b.told /\ n.todo = b.todo \ {t} /\ n.failed = b.failed \cup {t}
  <2> HIDE DEF t
  <2> QED
    BY <1>1, <1>2 DEF Job
<1>4. Failed(b) = Sending(n)
  BY DEF Failed
<1> HIDE DEF n
<1>5. n.todo = {} /\ n.told = {}
  BY <1>1, <1>2, <1>3 DEF Calm, Single
<1>6. Single(n)
  BY <1>3, <1>5 DEF Single
<1>7. Core(n, c)
  BY <1>3 DEF Core
<1>8. Ended(n) = {} /\ Ended(b) = {} /\ Left(n) = Left(b)
  BY <1>3 DEF Ended, Left
<1>9. Advances(n, Sending(n)) /\ Single(Sending(n))
  BY <1>3, <1>6, <1>7, <1>8, SendingLeft
<1> QED
  BY <1>3, <1>4, <1>8, <1>9 DEF Advances

LEMMA ResumingLeft ==
  ASSUME Calm, NEW b \in Job, Single(b), b.step = "lookup", NEW row,
         row.id \in Nat, row.told \in SUBSET Target
  PROVE  Advances(b, Resuming(b, row)) /\ Single(Resuming(b, row))
<1> DEFINE n == [b EXCEPT !.told = row.told, !.todo = Target \ row.told]
<1>1. Target \ row.told \in SUBSET Target
  OBVIOUS
<1>2. /\ n \in Job /\ n.batch = b.batch /\ n.told = row.told /\ n.todo = Target \ row.told
      /\ n.failed = b.failed
  BY <1>1 DEF Job
<1>3. PICK j : j = Resuming(b, row)
  OBVIOUS
<1>4. j = IF row.id = NoId THEN At(n, "alloc", 1) ELSE [At(n, "open", 1) EXCEPT !.id = row.id]
  BY <1>3 DEF Resuming
<1> HIDE DEF n
<1>5. /\ j.step \in {"alloc", "open"} /\ j.batch = n.batch /\ j.told = n.told
      /\ j.todo = n.todo /\ j.failed = n.failed
  <2>1. CASE row.id = NoId
    BY <1>2, <1>4, <2>1 DEF At, Job
  <2>2. CASE row.id # NoId
    <3>1. PICK k : k = At(n, "open", 1)
      OBVIOUS
    <3>2. /\ k \in Job /\ k.step = "open" /\ k.batch = n.batch /\ k.told = n.told
          /\ k.todo = n.todo /\ k.failed = n.failed
      BY <1>2, <3>1 DEF At, Job, Asking
    <3>3. j = [k EXCEPT !.id = row.id]
      BY <1>4, <2>2, <3>1
    <3> QED
      BY <3>2, <3>3 DEF Job
  <2> QED
    BY <2>1, <2>2
<1>6. Single(j)
  BY <1>2, <1>5 DEF Single, Calm
<1>7. Ended(j) = {} /\ Ended(b) = {} /\ j.step \notin Ending
  BY <1>5 DEF Ended, Ending
<1> QED
  BY <1>2, <1>3, <1>5, <1>6, <1>7, NothingEnded

\* Every await of flushMergeBucket ends the notification of one message at most,
\* and a flush whose notice was sent goes on till all are marked.
LEMMA ThenLeft ==
  ASSUME Calm, NEW c, NEW b, Sound(b, c), b.step \in Asking, Distinct(b.batch), Single(b),
         NEW answer, answer.id \in Nat, answer.told \in SUBSET Target,
         Then(b, answer) # NoJob
  PROVE  /\ Advances(b, Then(b, answer)) /\ Single(Then(b, answer))
         /\ Delivered(b) => Delivered(Then(b, answer))
<1>0. Core(b, c) /\ b \in Job /\ 1 \in 1..Len(b.batch) /\ b.i \in 1..Len(b.batch)
      /\ Len(b.batch) \in Nat
  BY DEF Sound, Core, Job
<1>1. CASE b.step = "lookup"
  BY <1>0, <1>1, ResumingLeft DEF Then, Delivered
<1>2. CASE b.step = "alloc"
  <2>1. PICK k : k = At(b, "open", 1)
    OBVIOUS
  <2>2. k \in Job /\ k.step = "open" /\ k.batch = b.batch /\ Single(k)
    BY <1>0, <2>1, AtCore, AtSingle DEF Asking, Core
  <2>3. PICK j : j = Then(b, answer)
    OBVIOUS
  <2>4. j = [k EXCEPT !.id = answer.id]
    BY <1>2, <2>1, <2>3 DEF Then
  <2>5. /\ j.step = "open" /\ j.batch = b.batch /\ j.told = k.told /\ j.todo = k.todo
        /\ j.failed = k.failed
    BY <2>2, <2>4 DEF Job
  <2>6. Single(j)
    BY <2>2, <2>5 DEF Single
  <2>7. Ended(j) = {} /\ Ended(b) = {} /\ j.step \notin Ending /\ ~Delivered(b)
    BY <1>2, <2>5 DEF Ended, Ending, Delivered
  <2> QED
    BY <2>3, <2>5, <2>6, <2>7, NothingEnded
<1>3. CASE b.step = "open"
  <2>1. Ended(b) = {} /\ ~Delivered(b)
    BY <1>3 DEF Ended, Delivered
  <2> QED
    BY <1>0, <1>3, <2>1, SendingLeft DEF Then
<1>4. CASE b.step = "record"
  BY <1>0, <1>4, ToldLeft DEF Then, Sound
<1>5. CASE b.step = "mark"
  <2>1. PICK j : j = At(b, "close", b.i)
    OBVIOUS
  <2>2. j.step = "close" /\ j.batch = b.batch /\ j.told = b.told /\ j.i = b.i /\ Single(j)
    BY <1>0, <2>1, AtCore, AtSingle DEF Asking
  <2>3. AllTold(b)
    BY <1>5 DEF Sound, AllTold
  <2>4. Ended(j) = Ended(b) /\ j.step \notin Ending /\ Delivered(j)
    BY <1>5, <2>2, <2>3 DEF Ended, Ending, Delivered, AllTold
  <2>5. Then(b, answer) = j
    BY <1>5, <2>1 DEF Then
  <2> QED
    BY <2>2, <2>4, <2>5, NothingEnded
<1>6. CASE b.step = "close"
  <2>1. /\ AllTold(b) => Ended(b) = 1..b.i
        /\ ~AllTold(b) => Ended(b) = {} /\ ~Delivered(b)
    BY <1>6 DEF Ended, Delivered
  <2>2. CASE ~LastOne(b)
    <3>1. b.i + 1 \in 1..Len(b.batch) /\ (b.i + 1) - 1 = b.i
      BY <1>0, <2>2 DEF LastOne
    <3>2. Then(b, answer) = Closing(b, b.i + 1)
      BY <1>6, <2>2 DEF Then
    <3> QED
      BY <1>0, <2>1, <3>1, <3>2, ClosingLeft, ClosingSingle
  <2>3. CASE LastOne(b) /\ ~AllTold(b)
    <3>1. PICK step \in {"release", "partial"} : Then(b, answer) = At(b, step, 1)
      BY <1>6, <2>3 DEF Then
    <3>2. Ended(b) = 1..(1 - 1) /\ step \in Ending /\ step # "mark" /\ step \in Asking
      BY <2>1, <2>3 DEF Ending, Asking
    <3> QED
      BY <1>0, <2>1, <2>3, <3>1, <3>2, EndsOne, AtSingle
  <2>4. CASE LastOne(b) /\ AllTold(b)
    <3>1. b.told # {}
      BY <2>4 DEF AllTold, Calm
    <3>2. Then(b, answer) = NoJob
      BY <1>6, <2>4, <3>1 DEF Then
    <3> QED
      BY <3>2
  <2> QED
    BY <2>2, <2>3, <2>4
<1>7. CASE b.step \in {"release", "partial"}
  <2>1. CASE ~LastOne(b)
    <3>1. b.i + 1 \in 1..Len(b.batch) /\ (b.i + 1) - 1 = b.i
      BY <1>0, <2>1 DEF LastOne
    <3>2. Then(b, answer) = At(b, b.step, b.i + 1)
      BY <1>7, <2>1 DEF Then
    <3>3. Ended(b) = 1..b.i /\ ~Delivered(b) /\ b.step \in Ending /\ b.step # "mark"
          /\ b.step # "lookup"
      BY <1>7 DEF Ended, Ending, Delivered
    <3> QED
      BY <1>0, <3>1, <3>2, <3>3, EndsOne, AtSingle
  <2>2. CASE LastOne(b)
    BY <1>7, <2>2 DEF Then
  <2> QED
    BY <2>1, <2>2
<1> QED
  BY <1>1, <1>2, <1>3, <1>4, <1>5, <1>6, <1>7 DEF Asking

\* A flush that ends after its notice was sent has marked all its messages.
LEMMA EndLeft ==
  ASSUME NEW c, NEW b, Sound(b, c), b.step \in Asking, NEW answer,
         answer.id \in Nat, answer.told \in SUBSET Target, AllReached(Buyer(c), answer.told),
         Then(b, answer) = NoJob, Delivered(b)
  PROVE  Left(b) = {}
<1>0. Core(b, c) /\ b \in Job /\ 1 \in 1..Len(b.batch) /\ b.i \in 1..Len(b.batch)
      /\ Len(b.batch) \in Nat
  BY DEF Sound, Core, Job
<1>1. \A j \in Job : j # NoJob
  BY NoJobIsNone
<1>2. b.step = "close" /\ LastOne(b)
  <2>1. CASE b.step = "record"
    <3>1. Then(b, answer) \in Job
      BY <1>0, <2>1, ToldSound DEF Then, Sound, Core
    <3> QED
      BY <1>1, <3>1
  <2>2. CASE b.step = "mark"
    <3>1. Then(b, answer) \in Job
      BY <1>0, <2>2, AtCore DEF Then, Core, Asking
    <3> QED
      BY <1>1, <3>1
  <2>3. CASE b.step = "close" /\ ~LastOne(b)
    <3>1. b.i + 1 \in 1..Len(b.batch)
      BY <1>0, <2>3 DEF LastOne
    <3>2. Then(b, answer) \in Job
      BY <1>0, <2>3, <3>1, ClosingSound DEF Then, Sound, Core
    <3> QED
      BY <1>1, <3>2
  <2> QED
    BY <2>1, <2>2, <2>3 DEF Delivered
<1>3. Ended(b) = 1..Len(b.batch)
  BY <1>2 DEF Ended, Delivered, LastOne
<1> QED
  BY <1>3 DEF Left

-------------------------------------------------------------------------------
\* A sighting whose message the notifier has, and has not asked to end.
Bears(c) ==
  \/ at[c] = "granted"
  \/ \E v \in Conv : c \in Elems(bucket[v])
  \/ \E d \in Copy : Flushing(d) /\ c \in Left(job[d])
Bearers == {c \in Copy : Bears(c)}

Ends(r, m)   == r.op \in Ending /\ r.msg = m
EndIn(q, m)  == \E n \in 1..Len(q) : Ends(q[n], m)
MarkIn(q, m) == \E n \in 1..Len(q) : q[n].op = "mark" /\ q[n].msg = m

\* One request ends a message, and who waits for a claim before it is refused.
QueueOnce(q) ==
  /\ \A m \in Message : \A n, k \in 1..Len(q) : Ends(q[n], m) /\ Ends(q[k], m) => n = k
  /\ \A n, k \in 1..Len(q) :
       n < k /\ q[n].op = "claim" /\ q[n].by # None /\ Ends(q[k], q[n].msg) => Blocked(q[n].msg)
  /\ \A n \in 1..Len(q) : q[n].op = "claim" /\ q[n].by # None => q[n].msg = MsgOf[q[n].by]

\* A message has one bearer, who holds its claim.
BearersOnce(S, q) ==
  /\ \A c, d \in S : MsgOf[c] = MsgOf[d] => c = d
  /\ \A c \in S : /\ claim[MsgOf[c]] = "claimed" /\ MsgOf[c] \notin notified
                  /\ ~EndIn(q, MsgOf[c])

\* The messages that a flush whose notice was sent has yet to mark.
Pending ==
  {m \in Message : \E d \in Copy : /\ Flushing(d) /\ Delivered(job[d])
                                   /\ \E e \in Left(job[d]) : MsgOf[e] = m}

\* Of what a notice speaks is marked, or will be.
Spoken(q, D) == \A x \in notices : \A m \in x.msgs : m \in notified \/ MarkIn(q, m) \/ m \in D

OnceInv ==
  /\ down \subseteq {"listener"}
  /\ \A c \in Copy : Flushing(c) => Single(job[c]) /\ Distinct(job[c].batch)
  /\ \A v \in Conv : Distinct(bucket[v])
  /\ QueueOnce(inbox) /\ BearersOnce(Bearers, inbox)
  /\ \A m \in Message : <<"mark", m>> \in cached => m \in notified
  /\ Spoken(inbox, Pending)
  /\ NoTargetTwice

\* A flush goes on: what it asks for next ends one message, which it bears no more.
LEMMA FlushOnce ==
  ASSUME NotifyInv, OnceInv, NEW c \in Copy, Flushing(c), NEW b, b = job[c],
         NEW j, j = NoJob \/ (Core(j, c) /\ Advances(b, j) /\ Single(j)),
         Delivered(b) => IF j = NoJob THEN Left(b) = {} ELSE Delivered(j),
         NEW q \in Seq(Request), Becomes(c, j, q), UNCHANGED bucket,
         NEW S, S = Bearers, NEW D,
         \A m \in D : m \in Pending \/ (j # NoJob /\ Delivered(j) /\ \E e \in Left(b) : MsgOf[e] = m),
         QueueOnce(q)', BearersOnce(S, q)', Spoken(q, D)'
  PROVE  /\ (\A d \in Copy : Flushing(d) => Single(job[d]) /\ Distinct(job[d].batch))'
         /\ QueueOnce(inbox)' /\ BearersOnce(Bearers, inbox)' /\ Spoken(inbox, Pending)'
<1>1. TypeOK /\ JobsSound /\ FlushesApart /\ "persistence" \notin down
  BY DEF NotifyInv, OnceInv
<1>2. Core(b, c) /\ b \in Job /\ Single(b) /\ Distinct(b.batch) /\ b.batch \in Seq(Copy)
  BY <1>1 DEF JobsSound, Sound, Core, OnceInv, Job
<1>3. PICK r : r = [op |-> j.step, msg |-> Subject(j),
                    row |-> IF j.step \in {"open", "close"} THEN RowOf(j) ELSE NoRow, by |-> c]
  OBVIOUS
<1>4. PICK p : p = inbox'
  OBVIOUS
<1>5. p = IF j.step \in Asking THEN Append(q, r) ELSE q
  BY <1>1, <1>3, <1>4 DEF Becomes, Ask
<1>6. r.op = j.step /\ r.msg = Subject(j) /\ Ending \subseteq Asking
  BY <1>3 DEF Ending, Asking
<1>7. /\ Len(q) \in Nat /\ Len(p) \in Nat
      /\ \A n \in 1..Len(q) : n \in 1..Len(p) /\ p[n] = q[n]
      /\ \A n \in 1..Len(p) : \/ n \in 1..Len(q) /\ p[n] = q[n]
                              \/ n = Len(q) + 1 /\ p[n] = r /\ j.step \in Asking
      /\ j.step \in Asking => Len(q) + 1 \in 1..Len(p) /\ p[Len(q) + 1] = r
  BY <1>5
<1>8. /\ job'[c] = j /\ \A d \in Copy : d # c => job'[d] = job[d]
      /\ \A d \in Copy : at'[d] = at[d] \/ (at'[d] = "idle" /\ j = NoJob /\ d \in Elems(b.batch))
      /\ j = NoJob => at'[c] = "idle"
  <2>1. job'[c] = j /\ \A d \in Copy : d # c => job'[d] = job[d]
    BY <1>1 DEF Becomes, TypeOK
  <2>2. \A d \in Copy : at'[d] = at[d] \/ (at'[d] = "idle" /\ j = NoJob /\ d \in Elems(b.batch))
    BY DEF Becomes, Goes
  <2>3. j = NoJob => at'[c] = "idle"
    BY <1>2 DEF Becomes, Goes, Core
  <2> QED
    BY <2>1, <2>2, <2>3
<1>9. \A d \in Copy : Flushing(d) =>
        /\ Left(job[d]) \subseteq Elems(job[d].batch) /\ d \in Elems(job[d].batch)
        /\ Elems(job[d].batch) \subseteq Copy
  <2> SUFFICES ASSUME NEW d \in Copy, Flushing(d)
               PROVE  /\ Left(job[d]) \subseteq Elems(job[d].batch) /\ d \in Elems(job[d].batch)
                      /\ Elems(job[d].batch) \subseteq Copy
    OBVIOUS
  <2>1. PICK s : s = job[d].batch
    OBVIOUS
  <2>2. s \in Seq(Copy) /\ d \in Elems(s)
    BY <1>1, <2>1 DEF JobsSound, Sound, Core, Job
  <2>3. Left(job[d]) \subseteq Elems(s)
    BY <2>1, <2>2 DEF Left, Elems
  <2>4. Elems(s) \subseteq Copy
    BY <2>2 DEF Elems
  <2> QED
    BY <2>1, <2>2, <2>3, <2>4
<1>10. \A d \in Copy : d # c /\ Flushing(d) => at'[d] = "flush"
  BY <1>1, <1>8, <1>9 DEF FlushesApart, Flushing
<1>11. \A e \in Copy : Bears(e)' => Bears(e)
  <2> SUFFICES ASSUME NEW e \in Copy, Bears(e)' PROVE Bears(e)
    OBVIOUS
  <2>1. CASE at'[e] = "granted"
    BY <1>8, <2>1 DEF Bears
  <2>2. CASE \E v \in Conv : e \in Elems(bucket[v])
    BY <2>2 DEF Bears
  <2>3. CASE \E d \in Copy : at'[d] = "flush" /\ e \in Left(job'[d])
    <3>1. PICK d \in Copy : at'[d] = "flush" /\ e \in Left(job'[d])
      BY <2>3
    <3>2. Flushing(d)
      BY <1>8, <3>1 DEF Flushing
    <3>3. CASE d # c
      BY <1>8, <3>1, <3>2, <3>3 DEF Bears
    <3>4. CASE d = c
      <4>1. j # NoJob /\ Left(j) \subseteq Left(b) /\ e \in Left(j)
        BY <1>8, <3>1, <3>4 DEF Advances
      <4> QED
        BY <3>2, <3>4, <4>1 DEF Bears
    <3> QED
      BY <3>3, <3>4
  <2> QED
    BY <2>1, <2>2, <2>3 DEF Bears, Flushing, Elems, Left, Ended, AllTold
<1>12. \A e \in Bearers' : e \in S
  BY <1>11 DEF Bearers
\* The sighting whose message is ended.
<1>13. j \in Job /\ j.step \in Ending => \E d \in Copy :
         /\ d \in Left(b) /\ d \in S /\ Subject(j) = MsgOf[d] /\ ~Bears(d)'
         /\ Left(j) = Left(b) \ {d}
  <2> SUFFICES ASSUME j \in Job, j.step \in Ending
               PROVE  \E d \in Copy :
                        /\ d \in Left(b) /\ d \in S /\ Subject(j) = MsgOf[d] /\ ~Bears(d)'
                        /\ Left(j) = Left(b) \ {d}
    OBVIOUS
  <2>1. j # NoJob
    BY NoJobIsNone
  <2>2. PICK d \in Left(b) : Subject(j) = MsgOf[d] /\ Left(j) = Left(b) \ {d}
    BY <2>1 DEF Advances
  <2>3. d \in Elems(b.batch) /\ d \in Copy /\ d \in S
    BY <1>9 DEF Bearers, Bears
  <2>4. at'[d] # "granted"
    BY <1>1, <1>8, <2>3 DEF FlushesApart, Flushing
  <2>5. ~\E v \in Conv : d \in Elems(bucket[v])
    BY <1>1, <2>3 DEF FlushesApart
  <2>6. ~\E e \in Copy : at'[e] = "flush" /\ d \in Left(job'[e])
    <3> SUFFICES ASSUME NEW e \in Copy, at'[e] = "flush", d \in Left(job'[e]) PROVE FALSE
      OBVIOUS
    <3>1. Flushing(e)
      BY <1>8 DEF Flushing
    <3>2. e # c
      BY <1>8, <2>2
    <3>3. d \in Elems(job[e].batch)
      BY <1>8, <1>9, <3>1, <3>2
    <3> QED
      BY <1>1, <2>3, <3>1, <3>2, <3>3 DEF FlushesApart
  <2>7. ~Bears(d)'
    BY <2>4, <2>5, <2>6 DEF Bears, Flushing, Elems, Left, Ended, AllTold
  <2> QED
    BY <2>2, <2>3, <2>7
<1>14. j.step \in Ending => j \in Job /\ j # NoJob
  BY NoJobIsNone DEF Core, NoJob, Ending
<1>15. \A m : EndIn(p, m) => EndIn(q, m) \/ (j.step \in Ending /\ Subject(j) = m)
  BY <1>6, <1>7 DEF EndIn, Ends
<1>16. QueueOnce(p)'
  <2>1. \A m \in Message : \A n, k \in 1..Len(p) : Ends(p[n], m) /\ Ends(p[k], m) => n = k
    <3> SUFFICES ASSUME NEW m \in Message, NEW n \in 1..Len(p), NEW k \in 1..Len(p),
                        Ends(p[n], m), Ends(p[k], m), n # k
                 PROVE  FALSE
      OBVIOUS
    <3>1. CASE n \in 1..Len(q) /\ k \in 1..Len(q)
      BY <1>7, <3>1 DEF QueueOnce, Ends
    <3>2. CASE ~(n \in 1..Len(q) /\ k \in 1..Len(q))
      <4>1. EndIn(q, m) /\ j.step \in Ending /\ Subject(j) = m
        BY <1>6, <1>7, <3>2 DEF EndIn, Ends
      <4>2. PICK d \in S : Subject(j) = MsgOf[d]
        BY <1>13, <1>14, <4>1
      <4>3. ~EndIn(q, MsgOf[d])
        BY DEF BearersOnce, EndIn, Ends
      <4> QED
        BY <4>1, <4>2, <4>3
    <3> QED
      BY <3>1, <3>2
  <2>2. \A n, k \in 1..Len(p) :
          n < k /\ p[n].op = "claim" /\ p[n].by # None /\ Ends(p[k], p[n].msg)
            => Blocked(p[n].msg)'
    <3> SUFFICES ASSUME NEW n \in 1..Len(p), NEW k \in 1..Len(p), n < k,
                        p[n].op = "claim", p[n].by # None, Ends(p[k], p[n].msg)
                 PROVE  Blocked(p[n].msg)'
      OBVIOUS
    <3>1. n \in 1..Len(q) /\ p[n] = q[n]
      BY <1>7
    <3>2. CASE k \in 1..Len(q) /\ p[k] = q[k]
      BY <3>1, <3>2 DEF QueueOnce, Ends, Blocked
    <3>3. CASE ~(k \in 1..Len(q) /\ p[k] = q[k])
      <4>1. j.step \in Ending /\ Subject(j) = p[n].msg
        BY <1>6, <1>7, <3>3 DEF Ends
      <4>2. PICK d \in S : Subject(j) = MsgOf[d]
        BY <1>13, <1>14, <4>1
      <4>3. claim'[MsgOf[d]] = "claimed"
        BY DEF BearersOnce
      <4> QED
        BY <4>1, <4>2, <4>3 DEF Blocked
    <3> QED
      BY <3>2, <3>3
  <2>3. \A n \in 1..Len(p) : p[n].op = "claim" /\ p[n].by # None => p[n].msg = MsgOf[p[n].by]
    BY <1>6, <1>7 DEF QueueOnce, Asking
  <2> QED
    BY <2>1, <2>2, <2>3 DEF QueueOnce, Ends
<1>17. BearersOnce(Bearers, p)'
  <2>1. \A d, e \in Bearers' : MsgOf[d] = MsgOf[e] => d = e
    BY <1>12 DEF BearersOnce
  <2>2. \A e \in Bearers' :
          claim'[MsgOf[e]] = "claimed" /\ MsgOf[e] \notin notified' /\ ~EndIn(p, MsgOf[e])
    <3> SUFFICES ASSUME NEW e \in Bearers'
                 PROVE  /\ claim'[MsgOf[e]] = "claimed" /\ MsgOf[e] \notin notified'
                        /\ ~EndIn(p, MsgOf[e])
      OBVIOUS
    <3>1. e \in S /\ e \in Copy /\ Bears(e)'
      BY <1>12 DEF Bearers
    <3>2. claim'[MsgOf[e]] = "claimed" /\ MsgOf[e] \notin notified' /\ ~EndIn(q, MsgOf[e])
      BY <3>1 DEF BearersOnce, EndIn, Ends
    <3>3. ~(j.step \in Ending /\ Subject(j) = MsgOf[e])
      BY <1>13, <1>14, <3>1 DEF BearersOnce
    <3> QED
      BY <1>15, <3>2, <3>3
  <2> QED
    BY <2>1, <2>2 DEF BearersOnce, EndIn, Ends
<1>18. Spoken(p, Pending)'
  <2> SUFFICES ASSUME NEW x \in notices', NEW m \in x.msgs, m \notin notified', ~MarkIn(p, m)
               PROVE  m \in Pending'
    BY DEF Spoken, MarkIn
  <2>1. ~MarkIn(q, m)
    BY <1>7 DEF MarkIn
  <2>2. m \in D
    BY <2>1 DEF Spoken, MarkIn
  <2>3. CASE \E d \in Copy \ {c} : /\ Flushing(d) /\ Delivered(job[d])
                                   /\ \E e \in Left(job[d]) : MsgOf[e] = m
    <3>1. PICK d \in Copy \ {c} : /\ Flushing(d) /\ Delivered(job[d])
                                 /\ \E e \in Left(job[d]) : MsgOf[e] = m
      BY <2>3
    <3>2. at'[d] = "flush" /\ job'[d] = job[d]
      BY <1>8, <1>10, <3>1
    <3>3. m \in Message
      BY <1>9, <3>1, BuyerType
    <3> QED
      BY <3>1, <3>2, <3>3 DEF Pending, Flushing, Delivered, Left, Ended, AllTold
  <2>4. CASE ~\E d \in Copy \ {c} : /\ Flushing(d) /\ Delivered(job[d])
                                    /\ \E e \in Left(job[d]) : MsgOf[e] = m
    <3>1. j # NoJob /\ Delivered(j) /\ \E e \in Left(b) : MsgOf[e] = m
      BY <2>2, <2>4 DEF Pending
    <3>2. PICK e \in Left(b) : MsgOf[e] = m
      BY <3>1
    <3>3. e \in Left(j)
      <4>1. CASE j.step \notin Ending
        BY <3>1, <4>1 DEF Advances
      <4>2. CASE j.step \in Ending
        <5>1. j.step = "mark"
          BY <3>1, <4>2 DEF Delivered, Ending
        <5>2. Subject(j) # m
          BY <1>6, <1>7, <5>1 DEF MarkIn, Asking
        <5> QED
          BY <1>13, <1>14, <3>2, <4>2, <5>2
      <4> QED
        BY <4>1, <4>2
    <3>4. at'[c] = "flush" /\ job'[c] = j
      BY <1>8, <3>1 DEF Flushing
    <3>5. m \in Message
      BY <1>9, <3>2, BuyerType
    <3> QED
      BY <3>1, <3>2, <3>3, <3>4, <3>5 DEF Pending, Flushing, Delivered, Left, Ended, AllTold
  <2> QED
    BY <2>3, <2>4
<1>19. \A d \in Copy : at'[d] = "flush" => Single(job'[d]) /\ Distinct(job'[d].batch)
  <2> SUFFICES ASSUME NEW d \in Copy, at'[d] = "flush"
               PROVE  Single(job'[d]) /\ Distinct(job'[d].batch)
    OBVIOUS
  <2>1. CASE d = c
    BY <1>2, <1>8, <2>1 DEF Advances
  <2>2. CASE d # c
    BY <1>8, <2>2 DEF OnceInv, Flushing
  <2> QED
    BY <2>1, <2>2
<1> QED
  BY <1>4, <1>16, <1>17, <1>18, <1>19
     DEF QueueOnce, BearersOnce, Spoken, EndIn, MarkIn, Ends, Flushing, Single, Distinct

\* The queue p is q, some of whose requesters do not wait any more, with at most a
\* request that ends nothing.
Extended(q, p) ==
  /\ \A n \in 1..Len(q) : /\ n \in 1..Len(p) /\ p[n].op = q[n].op /\ p[n].msg = q[n].msg
                          /\ p[n].by # None => p[n].by = q[n].by
  /\ \A n \in 1..Len(p) :
       \/ n \in 1..Len(q)
       \/ /\ n = Len(q) + 1 /\ p[n].op \notin Ending
          /\ p[n].op = "claim" /\ p[n].by # None => p[n].msg = MsgOf[p[n].by]

LEMMA ExtendedOnce ==
  ASSUME NEW q, NEW p, Extended(q, p), Len(q) \in Nat, QueueOnce(q)
  PROVE  /\ QueueOnce(p) /\ \A m : EndIn(p, m) <=> EndIn(q, m)
         /\ \A m : MarkIn(q, m) => MarkIn(p, m)
<1>1. \A n \in 1..Len(p) : \A m : Ends(p[n], m) => n \in 1..Len(q) /\ Ends(q[n], m)
  BY DEF Extended, Ends
<1>2. \A n \in 1..Len(q) : \A m : Ends(q[n], m) => n \in 1..Len(p) /\ Ends(p[n], m)
  BY DEF Extended, Ends
<1>3. \A m : EndIn(p, m) <=> EndIn(q, m)
  BY <1>1, <1>2 DEF EndIn
<1>4. \A m : MarkIn(q, m) => MarkIn(p, m)
  BY DEF MarkIn, Extended
<1>5. \A m \in Message : \A n, k \in 1..Len(p) : Ends(p[n], m) /\ Ends(p[k], m) => n = k
  BY <1>1 DEF QueueOnce
<1>6. \A n, k \in 1..Len(p) :
        n < k /\ p[n].op = "claim" /\ p[n].by # None /\ Ends(p[k], p[n].msg) => Blocked(p[n].msg)
  <2> SUFFICES ASSUME NEW n \in 1..Len(p), NEW k \in 1..Len(p), n < k, p[n].op = "claim",
                      p[n].by # None, Ends(p[k], p[n].msg)
               PROVE  Blocked(p[n].msg)
    OBVIOUS
  <2>1. k \in 1..Len(q) /\ Ends(q[k], p[n].msg) /\ n \in 1..Len(q)
    BY <1>1
  <2>2. q[n].op = "claim" /\ q[n].by # None /\ q[n].msg = p[n].msg
    BY <2>1 DEF Extended
  <2> QED
    BY <2>1, <2>2 DEF QueueOnce
<1>7. \A n \in 1..Len(p) : p[n].op = "claim" /\ p[n].by # None => p[n].msg = MsgOf[p[n].by]
  BY DEF Extended, QueueOnce
<1> QED
  BY <1>3, <1>4, <1>5, <1>6, <1>7 DEF QueueOnce

LEMMA AskExtends ==
  ASSUME NEW q \in Seq(Request), NEW op, op \notin Ending, NEW m, NEW row, NEW c,
         op = "claim" => m = MsgOf[c]
  PROVE  Extended(q, Ask(q, op, m, row, c))
<1>1. PICK r : r = [op |-> op, msg |-> m, row |-> row, by |-> c]
  OBVIOUS
<1>2. PICK p : p = Ask(q, op, m, row, c)
  OBVIOUS
<1>3. p \in {q, Append(q, r)}
  BY <1>1, <1>2 DEF Ask
<1>4. r.op = op /\ r.msg = m /\ r.by = c
  BY <1>1
<1>5. Extended(q, p)
  <2>1. CASE p = q
    BY <2>1 DEF Extended
  <2>2. CASE p = Append(q, r)
    <3>1. /\ \A n \in 1..Len(q) : n \in 1..Len(p) /\ p[n] = q[n]
          /\ \A n \in 1..Len(p) : n \in 1..Len(q) \/ (n = Len(q) + 1 /\ p[n] = r)
      BY <2>2
    <3> QED
      BY <1>4, <3>1 DEF Extended
  <2> QED
    BY <1>3, <2>1, <2>2
<1> QED
  BY <1>2, <1>5

LEMMA AbandonExtends ==
  ASSUME NEW q \in Seq(Request), NEW cs
  PROVE  Extended(q, Abandon(q, cs)) /\ Len(Abandon(q, cs)) = Len(q)
<1>1. PICK p : p = Abandon(q, cs)
  OBVIOUS
<1>2. p = [n \in 1..Len(q) |-> IF q[n].by \in cs THEN [q[n] EXCEPT !.by = None] ELSE q[n]]
  BY <1>1 DEF Abandon
<1>3. \A n \in 1..Len(q) : p[n].op = q[n].op /\ p[n].msg = q[n].msg /\ p[n].by \in {q[n].by, None}
  <2> SUFFICES ASSUME NEW n \in 1..Len(q)
               PROVE  /\ p[n].op = q[n].op /\ p[n].msg = q[n].msg
                      /\ p[n].by \in {q[n].by, None}
    OBVIOUS
  <2>1. q[n] \in Request
    OBVIOUS
  <2>2. p[n] = IF q[n].by \in cs THEN [q[n] EXCEPT !.by = None] ELSE q[n]
    BY <1>2
  <2> QED
    BY <2>1, <2>2, AbandonOne
<1>4. Len(p) = Len(q)
  BY <1>2
<1> QED
  BY <1>1, <1>3, <1>4 DEF Extended

\* What is left to show of a step that sends nothing.
LEMMA OnceStep ==
  ASSUME OnceInv, NEW p, p = inbox', NEW S, NEW D, \A c \in Bearers' : c \in S,
         \A m \in D : m \in Pending',
         down' \subseteq {"listener"},
         \A c \in Copy : at'[c] = "flush" => Single(job'[c]) /\ Distinct(job'[c].batch),
         \A v \in Conv : Distinct(bucket'[v]),
         QueueOnce(p)', BearersOnce(S, p)', Spoken(p, D)',
         \A m \in Message : <<"mark", m>> \in cached' => m \in notified',
         UNCHANGED notices
  PROVE  OnceInv'
<1>1. QueueOnce(inbox)'
  BY DEF QueueOnce, Ends
<1>2. BearersOnce(Bearers, inbox)'
  BY DEF BearersOnce, EndIn, Ends
<1>3. Spoken(inbox, Pending)'
  BY DEF Spoken, MarkIn
<1>4. NoTargetTwice'
  BY DEF OnceInv, NoTargetTwice
<1> QED
  BY <1>1, <1>2, <1>3, <1>4 DEF OnceInv, Flushing, Single, Distinct

\* The files and the flushes stay, and the queue ends nothing more.
LEMMA OnceAround ==
  ASSUME NotifyInv, OnceInv, UNCHANGED <<claim, notified, cached, notices>>,
         down' \subseteq {"listener"},
         NEW p, p = inbox', Extended(inbox, p),
         \A v \in Conv : Distinct(bucket'[v]),
         \A c \in Copy : at[c] = "flush" => at'[c] = "flush" /\ job'[c] = job[c],
         \A c \in Copy : at'[c] = "flush" => Single(job'[c]) /\ Distinct(job'[c].batch),
         \A c \in Copy : Bears(c)' => Bears(c)
  PROVE  OnceInv'
<1>1. PICK q : q = inbox
  OBVIOUS
<1>2. Len(q) \in Nat /\ QueueOnce(q) /\ BearersOnce(Bearers, q) /\ Spoken(q, Pending)
  BY <1>1 DEF NotifyInv, TypeOK, OnceInv
<1>3. /\ QueueOnce(p) /\ \A m : EndIn(p, m) <=> EndIn(q, m)
      /\ \A m : MarkIn(q, m) => MarkIn(p, m)
  BY <1>1, <1>2, ExtendedOnce
<1>4. PICK S : S = Bearers
  OBVIOUS
<1>5. PICK D : D = Pending
  OBVIOUS
<1>6. QueueOnce(p)'
  BY <1>3 DEF QueueOnce, Ends, Blocked
<1>7. BearersOnce(S, p)'
  BY <1>2, <1>3, <1>4 DEF BearersOnce, EndIn, Ends
<1>8. Spoken(p, D)'
  BY <1>2, <1>3, <1>5 DEF Spoken, MarkIn
<1>9. \A m \in D : m \in Pending'
  BY <1>5 DEF Pending, Flushing, Delivered, Left, Ended, AllTold
<1>10. \A c \in Bearers' : c \in S
  BY <1>4 DEF Bearers
<1>11. \A m \in Message : <<"mark", m>> \in cached' => m \in notified'
  BY DEF OnceInv
<1> QED
  BY <1>6, <1>7, <1>8, <1>9, <1>10, <1>11, OnceStep

LEMMA BearsKept ==
  ASSUME UNCHANGED <<job, bucket>>,
         \A c \in Copy : at'[c] \in {"granted", "flush"} => at'[c] = at[c]
  PROVE  /\ \A c \in Copy : Bears(c)' => Bears(c)
         /\ OnceInv => \A c \in Copy : at'[c] = "flush" => Single(job'[c]) /\ Distinct(job'[c].batch)
         /\ OnceInv => \A v \in Conv : Distinct(bucket'[v])
<1>1. \A c \in Copy : Bears(c)' => Bears(c)
  BY DEF Bears, Flushing, Left, Ended, AllTold, Elems
<1> QED
  BY <1>1 DEF OnceInv, Flushing

LEMMA SameExtends == ASSUME NEW q PROVE Extended(q, q)
BY DEF Extended

\* The listener, who waits for a claim no more, and restarts.
LEMMA OnceAside ==
  ASSUME NotifyInv, OnceInv,
         \/ \E c \in Copy : Emit(c) \/ Publish(c) \/ (Timeout(c) /\ at[c] # "flush")
         \/ CrashListener \/ \E w \in Worker : Restart(w)
         \/ UNCHANGED vars
  PROVE  OnceInv'
<1>1. TypeOK /\ inbox \in Seq(Request)
  BY DEF NotifyInv, TypeOK
<1>2. UNCHANGED <<job, bucket, claim, notified, cached, notices>>
  BY DEF Emit, Publish, Timeout, CrashListener, Restart, vars, files
<1>3. down' \subseteq {"listener"}
  BY DEF Emit, Publish, Timeout, CrashListener, Restart, vars, OnceInv
<1>4. /\ \A c \in Copy : at'[c] \in {"granted", "flush"} => at'[c] = at[c]
      /\ \A c \in Copy : at[c] = "flush" => at'[c] = "flush"
  <2>1. CASE \E c \in Copy : Emit(c) \/ Publish(c) \/ (Timeout(c) /\ at[c] # "flush")
    <3>1. PICK c \in Copy : /\ at[c] # "flush"
                           /\ (Goes({c}, "check") \/ Goes({c}, "claim") \/ Goes({c}, "idle"))
      BY <2>1 DEF Emit, Publish, Timeout
    <3>2. PICK stage \in {"check", "claim", "idle"} : Goes({c}, stage)
      BY <3>1
    <3>3. \A d \in Copy : at'[d] = IF d = c THEN stage ELSE at[d]
      BY <3>2 DEF Goes
    <3> QED
      BY <3>1, <3>2, <3>3
  <2>2. CASE CrashListener
    BY <2>2 DEF CrashListener, Loses, Goes
  <2>3. CASE at' = at
    BY <2>3
  <2> QED
    BY <2>1, <2>2, <2>3 DEF Restart, vars
<1>5. PICK p : p = inbox'
  OBVIOUS
<1>6. Extended(inbox, p)
  <2>1. CASE \E c \in Copy : Emit(c) \/ Publish(c)
    <3>1. PICK c \in Copy : Emit(c) \/ Publish(c)
      BY <2>1
    <3>2. \/ inbox' = inbox
          \/ inbox' = Ask(inbox, "check", MsgOf[c], NoRow, c)
          \/ inbox' = Ask(inbox, "claim", MsgOf[c], NoRow, c)
      BY <3>1 DEF Emit, Publish
    <3>3. "check" \notin Ending /\ "claim" \notin Ending
      BY DEF Ending
    <3> QED
      BY <1>1, <1>5, <3>2, <3>3, SameExtends, AskExtends
  <2>2. CASE CrashListener \/ \E c \in Copy : Timeout(c) /\ at[c] # "flush"
    <3>1. \E cs : inbox' = Abandon(inbox, cs)
      BY <2>2 DEF CrashListener, Timeout, Loses
    <3> QED
      BY <1>1, <1>5, <3>1, AbandonExtends
  <2>3. CASE \/ \E w \in Worker : Restart(w)
             \/ UNCHANGED vars
    BY <1>5, <2>3, SameExtends DEF Restart, vars
  <2> QED
    BY <2>1, <2>2, <2>3
<1>7. /\ \A c \in Copy : Bears(c)' => Bears(c)
      /\ \A c \in Copy : at'[c] = "flush" => Single(job'[c]) /\ Distinct(job'[c].batch)
      /\ \A v \in Conv : Distinct(bucket'[v])
  BY <1>2, <1>4, BearsKept
<1> QED
  BY <1>2, <1>3, <1>4, <1>5, <1>6, <1>7, OnceAround

LEMMA OnceQueue ==
  ASSUME NotifyInv, OnceInv, NEW c \in Copy, Queue(c)
  PROVE  OnceInv'
<1>1. TypeOK /\ FlushesApart
  BY DEF NotifyInv
<1>2. UNCHANGED <<job, inbox, claim, notified, cached, notices, down>>
  BY DEF Queue, files
<1>3. PICK u : u = ConvOf[MsgOf[c]]
  OBVIOUS
<1>4. /\ at[c] = "granted"
      /\ \/ Goes({c}, "idle") /\ bucket' = bucket
         \/ Goes({c}, "queued") /\ bucket' = [bucket EXCEPT ![u] = Append(@, c)]
  BY <1>3 DEF Queue
<1>5. \A d \in Copy : at'[d] \in {"granted", "flush"} => at'[d] = at[d]
  BY <1>4 DEF Goes
<1>6. \A d \in Copy : at[d] = "flush" => at'[d] = "flush"
  BY <1>4 DEF Goes
<1>7. \A v \in Conv : bucket[v] \in Seq(Copy) /\ c \notin Elems(bucket[v]) /\ Distinct(bucket[v])
  BY <1>1, <1>4 DEF TypeOK, FlushesApart, OnceInv
<1>8. \A v \in Conv : bucket'[v] = bucket[v] \/ bucket'[v] = Append(bucket[v], c)
  BY <1>1, <1>4 DEF TypeOK
<1>9. \A s \in Seq(Copy) : c \notin Elems(s) /\ Distinct(s) =>
        /\ Distinct(Append(s, c)) /\ \A d : d \in Elems(Append(s, c)) => d \in Elems(s) \/ d = c
  BY DEF Distinct, Elems
<1>10. \A v \in Conv : /\ Distinct(bucket'[v])
                       /\ \A d : d \in Elems(bucket'[v]) => d \in Elems(bucket[v]) \/ d = c
  BY <1>7, <1>8, <1>9
<1>11. \A d \in Copy : Bears(d)' => Bears(d)
  <2> SUFFICES ASSUME NEW d \in Copy, Bears(d)' PROVE Bears(d)
    OBVIOUS
  <2>1. CASE d = c
    BY <1>4, <2>1 DEF Bears
  <2>2. CASE d # c
    <3>1. \/ at'[d] = "granted"
          \/ \E v \in Conv : d \in Elems(bucket'[v])
          \/ \E e \in Copy : at'[e] = "flush" /\ d \in Left(job[e])
      BY <1>2 DEF Bears, Flushing, Left, Ended, AllTold, Elems
    <3> QED
      BY <1>5, <1>10, <2>2, <3>1 DEF Bears, Flushing
  <2> QED
    BY <2>1, <2>2
<1>12. PICK p : p = inbox'
  OBVIOUS
<1>13. Extended(inbox, p) /\ down' \subseteq {"listener"}
  BY <1>2, <1>12, SameExtends DEF OnceInv
<1>14. \A d \in Copy : at'[d] = "flush" => Single(job'[d]) /\ Distinct(job'[d].batch)
  BY <1>2, <1>5 DEF OnceInv, Flushing
<1> QED
  BY <1>2, <1>6, <1>10, <1>11, <1>12, <1>13, <1>14, OnceAround

LEMMA OnceFlushed ==
  ASSUME NotifyInv, OnceInv, NEW v \in Conv, Flush(v)
  PROVE  OnceInv'
<1>1. TypeOK /\ FlushesApart /\ inbox \in Seq(Request)
  BY DEF NotifyInv, TypeOK
<1>2. PICK s : s = bucket[v]
  OBVIOUS
<1>3. PICK c : c = s[Len(s)]
  OBVIOUS
<1>4. PICK j : j = [batch |-> s, step |-> "lookup", i |-> 1, id |-> NoId, told |-> {},
                    todo |-> {}, failed |-> {}, round |-> 1]
  OBVIOUS
<1>5. /\ s # <<>> /\ job' = [job EXCEPT ![c] = j] /\ Goes({c}, "flush")
      /\ inbox' = Ask(inbox, "lookup", MsgOf[c], NoRow, c)
      /\ bucket' = [bucket EXCEPT ![v] = <<>>]
      /\ UNCHANGED <<claim, notified, cached, notices, down>>
  BY <1>2, <1>3, <1>4 DEF Flush, files
<1>6. s \in Seq(Copy) /\ Distinct(s) /\ c \in Elems(s) /\ c \in Copy
  <2>1. s \in Seq(Copy) /\ Distinct(s)
    BY <1>1, <1>2 DEF TypeOK, OnceInv
  <2>2. Len(s) \in 1..Len(s)
    BY <1>5, <2>1
  <2> QED
    BY <1>3, <2>1, <2>2 DEF Elems
<1>7. at[c] = "queued"
  BY <1>1, <1>2, <1>6 DEF FlushesApart
<1>8. /\ job'[c] = j /\ at'[c] = "flush"
      /\ \A d \in Copy \ {c} : job'[d] = job[d] /\ at'[d] = at[d]
      /\ \A u \in Conv : bucket'[u] \in {bucket[u], <<>>}
  BY <1>1, <1>5, <1>6 DEF Goes, TypeOK
<1>9. Single(j) /\ j.batch = s /\ Left(j) \subseteq Elems(s)
  <2>1. Left(j) \subseteq Elems(s)
    BY <1>4, <1>6 DEF Left, Elems
  <2> QED
    BY <1>4, <2>1 DEF Single
<1>10. \A d \in Copy : at[d] = "flush" => at'[d] = "flush" /\ job'[d] = job[d]
  BY <1>7, <1>8
<1>11. \A d \in Copy : at'[d] = "flush" => Single(job'[d]) /\ Distinct(job'[d].batch)
  BY <1>6, <1>8, <1>9 DEF OnceInv, Flushing
<1>12. \A u \in Conv : Distinct(bucket'[u])
  BY <1>8 DEF OnceInv, Distinct
<1>13. \A d \in Copy : Bears(d)' => Bears(d)
  <2> SUFFICES ASSUME NEW d \in Copy, Bears(d)' PROVE Bears(d)
    OBVIOUS
  <2>1. \/ at'[d] = "granted"
        \/ \E u \in Conv : d \in Elems(bucket'[u])
        \/ \E e \in Copy : at'[e] = "flush" /\ d \in Left(job'[e])
    BY DEF Bears, Flushing, Left, Ended, AllTold, Elems
  <2>2. CASE at'[d] = "granted"
    BY <1>8, <2>2 DEF Bears
  <2>3. CASE \E u \in Conv : d \in Elems(bucket'[u])
    <3>1. Elems(<<>>) = {}
      BY DEF Elems
    <3> QED
      BY <1>8, <2>3, <3>1 DEF Bears
  <2>4. CASE \E e \in Copy : at'[e] = "flush" /\ d \in Left(job'[e])
    <3>1. PICK e \in Copy : at'[e] = "flush" /\ d \in Left(job'[e])
      BY <2>4
    <3>2. CASE e = c
      BY <1>2, <1>8, <1>9, <3>1, <3>2 DEF Bears
    <3>3. CASE e # c
      BY <1>8, <3>1, <3>3 DEF Bears, Flushing
    <3> QED
      BY <3>2, <3>3
  <2> QED
    BY <2>1, <2>2, <2>3, <2>4
<1>14. PICK p : p = inbox'
  OBVIOUS
<1>15. Extended(inbox, p) /\ down' \subseteq {"listener"}
  <2>1. "lookup" \notin Ending
    BY DEF Ending
  <2> QED
    BY <1>1, <1>5, <1>14, <2>1, AskExtends DEF OnceInv
<1> QED
  BY <1>5, <1>10, <1>11, <1>12, <1>13, <1>14, <1>15, OnceAround

\* Persistence takes a request out of its inbox: a claim it grants, if any, and
\* what the request ends are of its message.
LEMMA TailOnce ==
  ASSUME TypeOK, OnceInv, inbox # <<>>, NEW r, r = Head(inbox), NEW p, p = Tail(inbox),
         NEW S, S = Bearers, NEW D, D = Pending,
         \A m \in Message : \/ claim'[m] = claim[m]
                            \/ m = r.msg /\ r.op \in Ending
                            \/ claim'[m] = "claimed",
         r.op = "mark" => r.msg \in notified, UNCHANGED <<notified, notices>>
  PROVE  QueueOnce(p)' /\ BearersOnce(S, p)' /\ Spoken(p, D)'
<1>1. PICK q : q = inbox
  OBVIOUS
<1>2. /\ q \in Seq(Request) /\ q # <<>> /\ r = Head(q) /\ p = Tail(q) /\ QueueOnce(q)
      /\ BearersOnce(S, q) /\ Spoken(q, D)
  BY <1>1 DEF TypeOK, OnceInv
<1>3. /\ Len(q) \in Nat /\ Len(p) = Len(q) - 1 /\ r = q[1] /\ 1 \in 1..Len(q)
      /\ \A n \in 1..Len(p) : n + 1 \in 1..Len(q) /\ p[n] = q[n + 1] /\ p[n] \in Request
      /\ \A n \in 1..Len(q) : n = 1 \/ (n - 1 \in 1..Len(p) /\ p[n - 1] = q[n])
  <2>1. /\ Len(q) \in Nat /\ Len(p) = Len(q) - 1 /\ r = q[1] /\ 1 \in 1..Len(q)
        /\ \A n \in 1..Len(p) : n + 1 \in 1..Len(q) /\ p[n] = q[n + 1]
    <3>1. q \in Seq(Request) /\ q # <<>>
      BY <1>2
    <3>2. /\ Len(q) \in Nat /\ Len(Tail(q)) = Len(q) - 1 /\ Head(q) = q[1] /\ 1 \in 1..Len(q)
          /\ \A n \in 1..Len(Tail(q)) : n + 1 \in 1..Len(q) /\ Tail(q)[n] = q[n + 1]
      BY <3>1
    <3> QED
      BY <1>2, <3>2
  <2>2. \A n \in 1..Len(p) : p[n] \in Request
    BY <1>2, <2>1
  <2>3. \A n \in 1..Len(q) : n = 1 \/ (n - 1 \in 1..Len(p) /\ p[n - 1] = q[n])
    <3> SUFFICES ASSUME NEW n \in 1..Len(q), n # 1 PROVE n - 1 \in 1..Len(p) /\ p[n - 1] = q[n]
      OBVIOUS
    <3>1. n - 1 \in 1..Len(p) /\ (n - 1) + 1 = n
      BY <2>1
    <3> QED
      BY <2>1, <3>1
  <2> QED
    BY <2>1, <2>2, <2>3
<1>4. \A m : EndIn(p, m) => EndIn(q, m)
  BY <1>3 DEF EndIn, Ends
\* What else is ended is not of this message.
<1>5. \A m \in Message : \A n \in 1..Len(p) : Ends(p[n], m) => ~(m = r.msg /\ r.op \in Ending)
  <2> SUFFICES ASSUME NEW m \in Message, NEW n \in 1..Len(p), Ends(p[n], m), m = r.msg,
                      r.op \in Ending
               PROVE  FALSE
    OBVIOUS
  <2>1. Ends(q[1], m) /\ Ends(q[n + 1], m) /\ n + 1 # 1 /\ n + 1 \in 1..Len(q)
    BY <1>3 DEF Ends
  <2> QED
    BY <1>2, <1>3, <2>1 DEF QueueOnce
<1>6. QueueOnce(p)'
  <2>1. \A m \in Message : \A n, k \in 1..Len(p) : Ends(p[n], m) /\ Ends(p[k], m) => n = k
    <3> SUFFICES ASSUME NEW m \in Message, NEW n \in 1..Len(p), NEW k \in 1..Len(p),
                        Ends(p[n], m), Ends(p[k], m)
                 PROVE  n = k
      OBVIOUS
    <3>1. Ends(q[n + 1], m) /\ Ends(q[k + 1], m)
      BY <1>3
    <3>2. n + 1 = k + 1
      BY <1>2, <1>3, <3>1 DEF QueueOnce
    <3> QED
      BY <1>3, <3>2
  <2>2. \A n, k \in 1..Len(p) :
          n < k /\ p[n].op = "claim" /\ p[n].by # None /\ Ends(p[k], p[n].msg)
            => Blocked(p[n].msg)'
    <3> SUFFICES ASSUME NEW n \in 1..Len(p), NEW k \in 1..Len(p), n < k,
                        p[n].op = "claim", p[n].by # None, Ends(p[k], p[n].msg)
                 PROVE  Blocked(p[n].msg)'
      OBVIOUS
    <3>1. PICK m : m = p[n].msg
      OBVIOUS
    <3>2. m \in Message
      BY <1>3, <3>1 DEF Request
    <3>3. Blocked(m)
      <4>1. n + 1 < k + 1
        BY <1>3
      <4> QED
        BY <1>2, <1>3, <3>1, <4>1 DEF QueueOnce
    <3>4. claim'[m] = claim[m] \/ claim'[m] = "claimed"
      BY <1>5, <3>1, <3>2
    <3> QED
      BY <3>1, <3>3, <3>4 DEF Blocked
  <2>3. \A n \in 1..Len(p) : p[n].op = "claim" /\ p[n].by # None => p[n].msg = MsgOf[p[n].by]
    BY <1>2, <1>3 DEF QueueOnce
  <2> QED
    BY <2>1, <2>2, <2>3 DEF QueueOnce, Ends
<1>7. BearersOnce(S, p)'
  <2>1. \A c \in S : claim'[MsgOf[c]] = "claimed" /\ MsgOf[c] \notin notified /\ ~EndIn(p, MsgOf[c])
    <3> SUFFICES ASSUME NEW c \in S
                 PROVE  /\ claim'[MsgOf[c]] = "claimed" /\ MsgOf[c] \notin notified
                        /\ ~EndIn(p, MsgOf[c])
      OBVIOUS
    <3>1. claim[MsgOf[c]] = "claimed" /\ MsgOf[c] \notin notified /\ ~EndIn(q, MsgOf[c])
      BY <1>2 DEF BearersOnce
    <3>2. MsgOf[c] \in Message
      BY BuyerType DEF Bearers
    <3>3. ~(MsgOf[c] = r.msg /\ r.op \in Ending)
      BY <1>3, <3>1 DEF EndIn, Ends
    <3> QED
      BY <1>4, <3>1, <3>2, <3>3
  <2>2. \A c, d \in S : MsgOf[c] = MsgOf[d] => c = d
    BY <1>2 DEF BearersOnce
  <2> QED
    BY <2>1, <2>2 DEF BearersOnce, EndIn, Ends
<1>8. Spoken(p, D)'
  <2> SUFFICES ASSUME NEW x \in notices, NEW m \in x.msgs, m \notin notified, m \notin D
               PROVE  MarkIn(p, m)
    BY DEF Spoken, MarkIn
  <2>1. PICK n \in 1..Len(q) : q[n].op = "mark" /\ q[n].msg = m
    BY <1>2 DEF Spoken, MarkIn
  <2>2. n # 1
    BY <1>3, <2>1
  <2>3. n - 1 \in 1..Len(p) /\ p[n - 1] = q[n]
    BY <1>3, <2>2
  <2> QED
    BY <2>1, <2>3 DEF MarkIn
<1> QED
  BY <1>6, <1>7, <1>8

\* Persistence answers a flush.
LEMMA OnceAnswered ==
  ASSUME Calm, NotifyInv, OnceInv, NEW op \in Asking, Handles(op),
         NEW answer, answer.id \in Nat, answer.told \in SUBSET Target,
         AllReached(ConvOf[Head(inbox).msg], answer.told), Answer(Head(inbox), answer),
         \A m \in Message : claim'[m] = claim[m] \/ (m = Head(inbox).msg /\ op \in Ending),
         op = "mark" => Head(inbox).msg \in notified,
         \A m \in Message : <<"mark", m>> \in cached' => m \in notified,
         UNCHANGED <<bucket, notified, notices, down>>
  PROVE  OnceInv'
<1>1. TypeOK /\ JobsSound /\ QueueOK(inbox) /\ inbox # <<>>
  BY DEF NotifyInv, Handles
<1>2. PICK q : q = Tail(inbox)
  OBVIOUS
<1>3. PICK r : r = Head(inbox)
  OBVIOUS
<1>4. r \in Request /\ RequestSound(r) /\ q \in Seq(Request) /\ r.op = op
  BY <1>1, <1>2, <1>3, QueueTail DEF QueueOK, Handles
<1>5. PICK S : S = Bearers
  OBVIOUS
<1>6. PICK D : D = Pending
  OBVIOUS
<1>7. QueueOnce(q)' /\ BearersOnce(S, q)' /\ Spoken(q, D)'
  BY <1>1, <1>2, <1>3, <1>4, <1>5, <1>6, TailOnce
<1>8. \A m \in Message : <<"mark", m>> \in cached' => m \in notified'
  OBVIOUS
<1>9. \A v \in Conv : Distinct(bucket'[v])
  BY DEF OnceInv
<1>10. CASE r.by = None
  <2>1. inbox' = q /\ at' = at /\ job' = job
    BY <1>2, <1>3, <1>10 DEF Answer
  <2>2. \A c \in Bearers' : c \in S
    BY <1>5, <2>1 DEF Bearers, Bears, Flushing, Left, Ended, AllTold, Elems
  <2>3. \A m \in D : m \in Pending'
    BY <1>6, <2>1 DEF Pending, Flushing, Delivered, Left, Ended, AllTold
  <2>4. \A c \in Copy : at'[c] = "flush" => Single(job'[c]) /\ Distinct(job'[c].batch)
    BY <2>1 DEF OnceInv, Flushing
  <2>5. down' \subseteq {"listener"}
    BY DEF OnceInv
  <2> QED
    BY <1>7, <1>8, <1>9, <2>1, <2>2, <2>3, <2>4, <2>5, OnceStep
<1>11. CASE r.by # None
  <2>1. PICK c \in Copy : c = r.by
    BY <1>4, <1>11 DEF Request
  <2>2. Flushing(c) /\ job[c].step = op /\ ConvOf[r.msg] = Buyer(c)
    BY <1>4, <1>11, <2>1 DEF RequestSound, Waits
  <2>3. PICK b : b = job[c]
    OBVIOUS
  <2>4. PICK j : j = Then(b, answer)
    OBVIOUS
  <2>5. Becomes(c, j, q)
    BY <1>2, <1>3, <1>11, <2>1, <2>3, <2>4 DEF Answer
  <2>6. AllReached(Buyer(c), answer.told) /\ b.step \in Asking /\ Sound(b, c)
        /\ Single(b) /\ Distinct(b.batch)
    BY <1>1, <1>3, <2>2, <2>3 DEF JobsSound, OnceInv
  <2>7. j = NoJob \/ (Core(j, c) /\ Advances(b, j) /\ Single(j))
    BY <2>4, <2>6, ThenSound, ThenLeft DEF Sound
  <2>8. Delivered(b) => IF j = NoJob THEN Left(b) = {} ELSE Delivered(j)
    BY <2>4, <2>6, ThenLeft, EndLeft
  <2>9. /\ (\A d \in Copy : Flushing(d) => Single(job[d]) /\ Distinct(job[d].batch))'
        /\ QueueOnce(inbox)' /\ BearersOnce(Bearers, inbox)' /\ Spoken(inbox, Pending)'
    BY <1>4, <1>5, <1>6, <1>7, <2>2, <2>3, <2>5, <2>7, <2>8, FlushOnce
  <2>10. NoTargetTwice'
    BY DEF OnceInv, NoTargetTwice
  <2> QED
    BY <1>8, <1>9, <2>9, <2>10 DEF OnceInv
<1> QED
  BY <1>10, <1>11

LEMMA OncePersist ==
  ASSUME Calm, NotifyInv, OnceInv,
         \/ PersistLookup \/ PersistAlloc \/ PersistRow \/ PersistMarked \/ PersistRecord
         \/ PersistRelease \/ PersistPartial
  PROVE  OnceInv'
<1>1. UNCHANGED <<bucket, notified, notices, down>>
  BY DEF PersistLookup, PersistAlloc, PersistRow, PersistMarked, PersistRecord, PersistRelease,
         PersistPartial, files
<1>2. TypeOK
  BY DEF NotifyInv
<1>3. PICK answer :
        /\ Answer(Head(inbox), answer)
        /\ \/ answer = NoRow
           \/ PersistLookup /\ answer = Lookup(Head(inbox).msg)
           \/ answer = [NoRow EXCEPT !.id = nextId]
  BY DEF PersistLookup, PersistAlloc, PersistRow, PersistMarked, PersistRecord, PersistRelease,
         PersistPartial
<1>4. PICK op \in Asking : Handles(op)
  BY DEF PersistLookup, PersistAlloc, PersistRow, PersistMarked, PersistRecord, PersistRelease,
         PersistPartial, Asking
<1>5. FilesSound /\ Head(inbox).msg \in Message /\ nextId \in Nat
  BY <1>4, Heard DEF FilesTyped
<1>6. /\ answer.id \in Nat /\ answer.told \in SUBSET Target
      /\ AllReached(ConvOf[Head(inbox).msg], answer.told)
  <2>1. CASE answer = Lookup(Head(inbox).msg)
    BY <1>2, <1>5, <2>1, LookupSound
  <2>2. CASE answer = NoRow \/ answer = [NoRow EXCEPT !.id = nextId]
    BY <1>5, <2>2, NothingTold
  <2> QED
    BY <1>3, <2>1, <2>2
<1>7. op = "mark" => Head(inbox).msg \in notified /\ PersistMarked
  <2> SUFFICES ASSUME op = "mark" PROVE Head(inbox).msg \in notified /\ PersistMarked
    OBVIOUS
  <2>1. PersistMarked
    BY <1>4 DEF Handles, PersistLookup, PersistAlloc, PersistRow, PersistRecord, PersistRelease,
                PersistPartial
  <2>2. half \/ <<"mark", Head(inbox).msg>> \in cached
    BY <2>1 DEF PersistMarked
  <2>3. half => Head(inbox).msg \in notified
    BY DEF NotifyInv, HalfMarked
  <2> QED
    BY <1>5, <2>1, <2>2, <2>3 DEF OnceInv
<1>8. \A m \in Message : claim'[m] = claim[m] \/ (m = Head(inbox).msg /\ op \in Ending)
  <2>1. CASE PersistMarked \/ PersistRelease \/ PersistPartial
    <3>1. op \in Ending
      BY <1>4, <2>1 DEF Handles, PersistMarked, PersistRelease, PersistPartial, Ending
    <3>2. \A m \in Message : m # Head(inbox).msg => claim'[m] = claim[m]
      BY <1>2, <2>1 DEF PersistMarked, PersistRelease, PersistPartial, TypeOK
    <3> QED
      BY <3>1, <3>2
  <2>2. CASE claim' = claim
    BY <2>2
  <2> QED
    BY <2>1, <2>2 DEF PersistLookup, PersistAlloc, PersistRow, PersistRecord, files
<1>9. \A m \in Message : <<"mark", m>> \in cached' => m \in notified
  <2>1. CASE PersistMarked
    <3>1. cached' = cached \cup {<<"mark", Head(inbox).msg>>} /\ op = "mark"
      BY <1>4, <2>1 DEF Handles, PersistMarked
    <3> QED
      BY <1>7, <3>1 DEF OnceInv
  <2>2. CASE PersistPartial
    <3>1. cached' = cached \cup {<<"partial", Head(inbox).msg>>}
      BY <2>2 DEF PersistPartial
    <3> QED
      BY <3>1 DEF OnceInv
  <2>3. CASE cached' = cached
    BY <2>3 DEF OnceInv
  <2> QED
    BY <2>1, <2>2, <2>3 DEF PersistLookup, PersistAlloc, PersistRow, PersistRecord,
                            PersistRelease, files
<1> QED
  BY <1>1, <1>3, <1>4, <1>6, <1>7, <1>8, <1>9, OnceAnswered

\* The two questions of the listener and of the notifier.
LEMMA OnceClaims ==
  ASSUME NotifyInv, OnceInv, PersistCheck \/ PersistClaim
  PROVE  OnceInv'
<1>1. TypeOK /\ QueueOK(inbox) /\ inbox # <<>>
  BY DEF NotifyInv, PersistCheck, PersistClaim, Handles
<1>2. PICK p : p = Tail(inbox)
  OBVIOUS
<1>3. PICK r : r = Head(inbox)
  OBVIOUS
<1>4. r \in Request /\ RequestSound(r) /\ r.op \in Waiting /\ r.msg \in Message
  <2>1. r \in Request /\ RequestSound(r)
    BY <1>1, <1>3, QueueTail
  <2>2. r.op \in Waiting
    BY <1>3 DEF PersistCheck, PersistClaim, Handles, Waiting
  <2> QED
    BY <2>1, <2>2 DEF Request
<1>5. PICK stage \in {"idle", "passed", "granted"} :
        /\ Goes({r.by}, stage)
        /\ stage = "granted" => /\ r.op = "claim" /\ ~Blocked(r.msg)
                                /\ claim' = [claim EXCEPT ![r.msg] = "claimed"]
        /\ stage # "granted" => claim' = claim
  <2>1. CASE PersistCheck
    <3>1. claim' = claim /\ (Goes({r.by}, "idle") \/ Goes({r.by}, "passed"))
      BY <1>3, <2>1 DEF PersistCheck, files
    <3> QED
      BY <3>1
  <2>2. CASE PersistClaim /\ Blocked(r.msg)
    <3>1. claim' = claim /\ Goes({r.by}, "idle")
      BY <1>3, <2>2 DEF PersistClaim
    <3> QED
      BY <3>1
  <2>3. CASE PersistClaim /\ ~Blocked(r.msg)
    <3>1. claim' = [claim EXCEPT ![r.msg] = "claimed"] /\ Goes({r.by}, "granted") /\ r.op = "claim"
      BY <1>3, <2>3 DEF PersistClaim, Handles
    <3> QED
      BY <2>3, <3>1
  <2> QED
    BY <2>1, <2>2, <2>3
<1>6. inbox' = p /\ UNCHANGED <<bucket, job, notified, cached, notices, down>>
  BY <1>2 DEF PersistCheck, PersistClaim, files
<1>7. PICK S : S = Bearers
  OBVIOUS
<1>8. PICK D : D = Pending
  OBVIOUS
<1>9. QueueOnce(p)' /\ BearersOnce(S, p)' /\ Spoken(p, D)'
  <2>1. \A m \in Message : claim'[m] = claim[m] \/ claim'[m] = "claimed"
    BY <1>1, <1>5 DEF TypeOK
  <2>2. r.op # "mark"
    BY <1>4 DEF Waiting
  <2> QED
    BY <1>1, <1>2, <1>3, <1>6, <1>7, <1>8, <2>1, <2>2, TailOnce
<1>10. \A d \in Copy : at'[d] = IF d = r.by THEN stage ELSE at[d]
  BY <1>5 DEF Goes
<1>11. r.by # None => at[r.by] \in Waiting
  BY <1>4 DEF RequestSound, Waits, Waiting
<1>12. \A d \in Copy : at[d] = "flush" => at'[d] = "flush"
  BY <1>10, <1>11, NotifyAssumption DEF Waiting
<1>13. \A d \in Copy : at'[d] = "flush" => at[d] = "flush"
  BY <1>10
<1>14. \A m \in D : m \in Pending'
  BY <1>6, <1>8, <1>12 DEF Pending, Flushing, Delivered, Left, Ended, AllTold
<1>15. \A d \in Copy : at'[d] = "flush" => Single(job'[d]) /\ Distinct(job'[d].batch)
  BY <1>6, <1>13 DEF OnceInv, Flushing
<1>16. /\ down' \subseteq {"listener"} /\ \A v \in Conv : Distinct(bucket'[v])
       /\ \A m \in Message : <<"mark", m>> \in cached' => m \in notified'
  BY <1>6 DEF OnceInv
<1>17. \A d \in Copy : Bears(d)' => Bears(d) \/ (d = r.by /\ stage = "granted")
  <2> SUFFICES ASSUME NEW d \in Copy, Bears(d)' PROVE Bears(d) \/ (d = r.by /\ stage = "granted")
    OBVIOUS
  <2>1. \/ at'[d] = "granted"
        \/ \E v \in Conv : d \in Elems(bucket[v])
        \/ \E e \in Copy : at'[e] = "flush" /\ d \in Left(job[e])
    BY <1>6 DEF Bears, Flushing, Left, Ended, AllTold, Elems
  <2> QED
    BY <1>10, <1>13, <2>1 DEF Bears, Flushing
<1>18. CASE stage = "granted" /\ r.by # None
  <2>1. PICK c \in Copy : c = r.by
    BY <1>4, <1>18 DEF Request
  <2>2. PICK T : T = S \cup {c}
    OBVIOUS
  <2>3. r.op = "claim" /\ ~Blocked(r.msg) /\ claim' = [claim EXCEPT ![r.msg] = "claimed"]
    BY <1>5, <1>18
  <2>4. PICK q : q = inbox
    OBVIOUS
  <2>5. /\ q \in Seq(Request) /\ q # <<>> /\ r = Head(q) /\ p = Tail(q)
        /\ QueueOnce(q) /\ BearersOnce(S, q)
    BY <1>1, <1>2, <1>3, <1>7, <2>4 DEF TypeOK, OnceInv
  <2>6. /\ r = q[1] /\ 1 \in 1..Len(q)
        /\ \A n \in 1..Len(p) : n + 1 \in 1..Len(q) /\ p[n] = q[n + 1] /\ 1 < n + 1
    BY <2>5
  <2>7. MsgOf[c] = r.msg
    BY <1>18, <2>1, <2>3, <2>5, <2>6 DEF QueueOnce
  <2>8. ~EndIn(p, r.msg)
    <3> SUFFICES ASSUME NEW n \in 1..Len(p), Ends(p[n], r.msg) PROVE FALSE
      BY DEF EndIn
    <3> QED
      BY <1>18, <2>3, <2>5, <2>6 DEF QueueOnce
  <2>9. \A d \in S : MsgOf[d] # r.msg
    BY <2>3, <2>5 DEF BearersOnce, Blocked
  <2>10. /\ claim'[r.msg] = "claimed" /\ r.msg \notin notified'
    BY <1>1, <1>4, <1>6, <2>3 DEF TypeOK, Blocked
  <2>11. BearersOnce(T, p)'
    <3>1. \A d, e \in T : MsgOf[d] = MsgOf[e] => d = e
      BY <2>2, <2>5, <2>7, <2>9 DEF BearersOnce
    <3>2. \A d \in S : /\ claim'[MsgOf[d]] = "claimed" /\ MsgOf[d] \notin notified'
                       /\ ~EndIn(p, MsgOf[d])
      BY <1>9 DEF BearersOnce, EndIn, Ends
    <3> QED
      BY <2>2, <2>7, <2>8, <2>10, <3>1, <3>2 DEF BearersOnce, EndIn, Ends
  <2>12. \A d \in Bearers' : d \in T
    BY <1>7, <1>17, <2>1, <2>2 DEF Bearers
  <2> QED
    BY <1>6, <1>9, <1>14, <1>15, <1>16, <2>11, <2>12, OnceStep
<1>19. CASE ~(stage = "granted" /\ r.by # None)
  <2>1. \A d \in Bearers' : d \in S
    BY <1>7, <1>17, <1>19, NotifyAssumption DEF Bearers
  <2> QED
    BY <1>6, <1>9, <1>14, <1>15, <1>16, <2>1, OnceStep
<1> QED
  BY <1>18, <1>19

LEMMA OnceNotified ==
  ASSUME NotifyInv, OnceInv, PersistNotified
  PROVE  OnceInv'
<1>1. TypeOK
  BY DEF NotifyInv
<1>2. PICK m : m = Head(inbox).msg
  OBVIOUS
<1>3. /\ notified' = notified \cup {m} /\ inbox # <<>> /\ Head(inbox).op = "mark"
      /\ UNCHANGED <<at, bucket, job, inbox, claim, cached, notices, down>>
  BY <1>2 DEF PersistNotified, Handles
<1>4. PICK p : p = inbox
  OBVIOUS
<1>5. /\ p \in Seq(Request) /\ QueueOnce(p) /\ BearersOnce(Bearers, p) /\ Spoken(p, Pending)
  BY <1>1, <1>4 DEF TypeOK, OnceInv
<1>6. EndIn(p, m)
  <2>1. 1 \in 1..Len(p) /\ p[1] = Head(p)
    BY <1>3, <1>4, <1>5
  <2> QED
    BY <1>2, <1>3, <1>4, <2>1 DEF EndIn, Ends, Ending
<1>7. PICK S : S = Bearers
  OBVIOUS
<1>8. PICK D : D = Pending
  OBVIOUS
<1>9. QueueOnce(p)'
  BY <1>3, <1>5 DEF QueueOnce, Ends, Blocked
<1>10. BearersOnce(S, p)'
  BY <1>3, <1>5, <1>6, <1>7 DEF BearersOnce, EndIn, Ends
<1>11. Spoken(p, D)'
  BY <1>3, <1>5, <1>8 DEF Spoken, MarkIn
<1>12. \A c \in Bearers' : c \in S
  BY <1>3, <1>7 DEF Bearers, Bears, Flushing, Left, Ended, AllTold, Elems
<1>13. \A x \in D : x \in Pending'
  BY <1>3, <1>8 DEF Pending, Flushing, Delivered, Left, Ended, AllTold
<1>14. /\ \A c \in Copy : at'[c] = "flush" => Single(job'[c]) /\ Distinct(job'[c].batch)
       /\ down' \subseteq {"listener"} /\ \A v \in Conv : Distinct(bucket'[v])
       /\ \A x \in Message : <<"mark", x>> \in cached' => x \in notified'
  BY <1>3 DEF OnceInv, Flushing
<1>15. p = inbox'
  BY <1>3, <1>4
<1> QED
  BY <1>3, <1>9, <1>10, <1>11, <1>12, <1>13, <1>14, <1>15, OnceStep

\* A claim that is borne, or waited for, is not too old.
LEMMA OnceExpire ==
  ASSUME Calm, NotifyInv, OnceInv, NEW m \in Message, Expire(m)
  PROVE  OnceInv'
<1>1. TypeOK /\ QueueOK(inbox) /\ FlushesApart /\ JobsSound
  BY DEF NotifyInv
<1>2. /\ ~Held(m) /\ claim' = [claim EXCEPT ![m] = "stale"]
      /\ UNCHANGED <<at, bucket, job, inbox, notified, cached, notices, down>>
  BY DEF Expire, Faulty, Calm
<1>3. PICK p : p = inbox
  OBVIOUS
<1>4. /\ QueueOK(p) /\ p \in Seq(Request) /\ QueueOnce(p) /\ BearersOnce(Bearers, p)
      /\ Spoken(p, Pending)
  BY <1>1, <1>3 DEF QueueOK, OnceInv
<1>5. PICK S : S = Bearers
  OBVIOUS
<1>6. PICK D : D = Pending
  OBVIOUS
<1>7. \A x \in Message : x # m => claim'[x] = claim[x]
  BY <1>1, <1>2 DEF TypeOK
<1>8. \A n \in 1..Len(p) : p[n].op = "claim" /\ p[n].by # None => p[n].msg # m
  <2> SUFFICES ASSUME NEW n \in 1..Len(p), p[n].op = "claim", p[n].by # None, p[n].msg = m
               PROVE  FALSE
    OBVIOUS
  <2>1. p[n] \in Request /\ RequestSound(p[n])
    BY <1>4 DEF QueueOK
  <2>2. p[n].by \in Copy /\ at[p[n].by] = "claim"
    BY <2>1 DEF Request, RequestSound, Waits, Waiting
  <2>3. MsgOf[p[n].by] = m
    BY <1>4 DEF QueueOnce
  <2> QED
    BY <1>2, <2>2, <2>3 DEF Held, InNotifier
<1>9. \A c \in S : MsgOf[c] # m
  <2> SUFFICES ASSUME NEW c \in Copy, Bears(c), MsgOf[c] = m PROVE FALSE
    BY <1>5 DEF Bearers
  <2>1. at[c] \in {"granted", "queued", "flush"}
    <3>1. CASE \E d \in Copy : Flushing(d) /\ c \in Left(job[d])
      <4>1. PICK d \in Copy : Flushing(d) /\ c \in Left(job[d])
        BY <3>1
      <4>2. c \in Elems(job[d].batch)
        <5>1. job[d].batch \in Seq(Copy)
          BY <1>1, <4>1 DEF JobsSound, Sound, Core, Job
        <5> QED
          BY <4>1, <5>1 DEF Left, Elems
      <4> QED
        BY <1>1, <4>1, <4>2 DEF FlushesApart, Flushing
    <3>2. CASE \E v \in Conv : c \in Elems(bucket[v])
      BY <1>1, <3>2 DEF FlushesApart
    <3> QED
      BY <3>1, <3>2 DEF Bears
  <2> QED
    BY <1>2, <2>1 DEF Held, InNotifier
<1>10. QueueOnce(p)'
  <2>1. \A n \in 1..Len(p) : p[n].msg \in Message
    <3>1. \A n \in 1..Len(p) : p[n] \in Request
      BY <1>4
    <3> QED
      BY <3>1 DEF Request
  <2>2. \A n, k \in 1..Len(p) :
          n < k /\ p[n].op = "claim" /\ p[n].by # None /\ Ends(p[k], p[n].msg)
            => Blocked(p[n].msg)'
    BY <1>2, <1>4, <1>7, <1>8, <2>1 DEF QueueOnce, Blocked
  <2> QED
    BY <1>4, <2>2 DEF QueueOnce, Ends
<1>11. BearersOnce(S, p)'
  <2>1. \A c \in S : MsgOf[c] \in Message
    BY <1>5, BuyerType DEF Bearers
  <2> QED
    BY <1>2, <1>4, <1>5, <1>7, <1>9, <2>1 DEF BearersOnce, EndIn, Ends
<1>12. Spoken(p, D)'
  BY <1>2, <1>4, <1>6 DEF Spoken, MarkIn
<1>13. \A c \in Bearers' : c \in S
  BY <1>2, <1>5 DEF Bearers, Bears, Flushing, Left, Ended, AllTold, Elems
<1>14. \A x \in D : x \in Pending'
  BY <1>2, <1>6 DEF Pending, Flushing, Delivered, Left, Ended, AllTold
<1>15. /\ \A c \in Copy : at'[c] = "flush" => Single(job'[c]) /\ Distinct(job'[c].batch)
       /\ down' \subseteq {"listener"} /\ \A v \in Conv : Distinct(bucket'[v])
       /\ \A x \in Message : <<"mark", x>> \in cached' => x \in notified'
  BY <1>2 DEF OnceInv, Flushing
<1>16. p = inbox'
  BY <1>2, <1>3
<1> QED
  BY <1>2, <1>10, <1>11, <1>12, <1>13, <1>14, <1>15, <1>16, OnceStep

\* Who sends bears all the messages of the notice, so that no earlier notice, which
\* is marked or whose flush bears it, speaks of one of them.
LEMMA OnceDeliver ==
  ASSUME Calm, NotifyInv, OnceInv, NEW c \in Copy, NEW outcome \in {"ok", "refused", "unknown"},
         Deliver(c, outcome)
  PROVE  OnceInv'
<1>1. TypeOK /\ JobsSound /\ FlushesApart /\ QueueOK(inbox)
  BY DEF NotifyInv
<1>2. PICK b : b = job[c]
  OBVIOUS
<1>3. at[c] = "flush" /\ b.step = "send" /\ Flushing(c)
  BY <1>2 DEF Deliver, Flushing
<1>4. /\ Core(b, c) /\ b.todo # {} /\ 1 \in 1..Len(b.batch) /\ b.batch \in Seq(Copy)
      /\ Single(b) /\ Distinct(b.batch)
  BY <1>1, <1>2, <1>3 DEF JobsSound, Sound, Core, Job, OnceInv
<1>5. PICK x : x = [to |-> Turn(b.todo), id |-> b.id, by |-> c, round |-> b.round,
                    msgs |-> {MsgOf[d] : d \in Elems(b.batch)}]
  OBVIOUS
<1>6. PICK j : j = IF outcome = "ok" THEN At(b, "record", 1) ELSE Failed(b)
  OBVIOUS
<1>7. /\ outcome \in {"ok", "refused"}
      /\ notices' = IF outcome = "refused" THEN notices ELSE notices \cup {x}
      /\ Becomes(c, j, inbox)
      /\ UNCHANGED <<bucket, claim, notified, cached, down>>
  BY <1>2, <1>5, <1>6 DEF Deliver, files, Faulty, Calm
<1>8. Ended(b) = {} /\ ~Delivered(b)
  BY <1>3 DEF Ended, Delivered
<1>9. \A d \in Elems(b.batch) : d \in Left(b) /\ d \in Copy
  BY <1>4, <1>8 DEF Left, Elems
<1>10. Core(j, c) /\ Advances(b, j) /\ Single(j) /\ (outcome = "ok" => Delivered(j))
  <2>1. CASE outcome = "ok"
    <3>1. Core(j, c) /\ j.step = "record" /\ j.batch = b.batch /\ Single(j)
      BY <1>4, <1>6, <2>1, AtCore, AtSingle DEF Asking
    <3>2. Ended(j) = {} /\ j.step \notin Ending /\ Delivered(j)
      BY <3>1 DEF Ended, Ending, Delivered
    <3> QED
      BY <1>8, <3>1, <3>2, NothingEnded
  <2>2. CASE outcome # "ok"
    BY <1>3, <1>4, <1>6, <2>2, FailedSound, FailedLeft DEF Sound
  <2> QED
    BY <2>1, <2>2
<1>11. PICK q : q = inbox
  OBVIOUS
<1>12. /\ q \in Seq(Request) /\ Becomes(c, j, q) /\ QueueOnce(q) /\ BearersOnce(Bearers, q)
       /\ Spoken(q, Pending)
  BY <1>1, <1>7, <1>11 DEF QueueOK, OnceInv
\* Nobody was told of these messages.
<1>13. \A y \in notices : \A m \in y.msgs : m \notin {MsgOf[d] : d \in Elems(b.batch)}
  <2> SUFFICES ASSUME NEW y \in notices, NEW d \in Elems(b.batch), MsgOf[d] \in y.msgs PROVE FALSE
    OBVIOUS
  <2>1. d \in Bearers /\ d \in Left(b)
    BY <1>2, <1>3, <1>9 DEF Bearers, Bears
  <2>2. MsgOf[d] \notin notified /\ ~EndIn(q, MsgOf[d])
    BY <1>12, <2>1 DEF BearersOnce
  <2>3. ~MarkIn(q, MsgOf[d])
    BY <2>2 DEF MarkIn, EndIn, Ends, Ending
  <2>4. MsgOf[d] \in Pending
    BY <1>12, <2>2, <2>3 DEF Spoken
  <2>5. PICK e \in Copy : Flushing(e) /\ Delivered(job[e]) /\ \E f \in Left(job[e]) : MsgOf[f] = MsgOf[d]
    BY <2>4 DEF Pending
  <2>6. PICK f \in Left(job[e]) : MsgOf[f] = MsgOf[d]
    BY <2>5
  <2>7. f \in Elems(job[e].batch) /\ f \in Copy
    <3>1. job[e].batch \in Seq(Copy)
      BY <1>1, <2>5 DEF JobsSound, Sound, Core, Job
    <3> QED
      BY <3>1 DEF Left, Elems
  <2>8. f = d
    BY <1>12, <2>1, <2>5, <2>6, <2>7 DEF BearersOnce, Bearers, Bears
  <2>9. e = c
    BY <1>1, <1>2, <1>3, <2>5, <2>7, <2>8 DEF FlushesApart
  <2> QED
    BY <1>2, <1>8, <2>5, <2>9
<1>14. PICK S : S = Bearers
  OBVIOUS
<1>15. PICK D : D = Pending \cup {m \in {MsgOf[d] : d \in Elems(b.batch)} : Delivered(j)}
  OBVIOUS
<1>16. QueueOnce(q)' /\ BearersOnce(S, q)'
  <2>1. QueueOnce(q)'
    BY <1>7, <1>12 DEF QueueOnce, Ends, Blocked
  <2>2. BearersOnce(S, q)'
    BY <1>7, <1>12, <1>14 DEF BearersOnce, EndIn, Ends
  <2> QED
    BY <2>1, <2>2
<1>17. Spoken(q, D)'
  <2> SUFFICES ASSUME NEW y \in notices', NEW m \in y.msgs, m \notin notified
               PROVE  MarkIn(q, m) \/ m \in D
    BY <1>7 DEF Spoken, MarkIn
  <2>1. CASE y \in notices
    BY <1>12, <1>15, <2>1 DEF Spoken
  <2>2. CASE y = x /\ outcome = "ok"
    BY <1>5, <1>10, <1>15, <2>2
  <2> QED
    BY <1>7, <2>1, <2>2
<1>18. \A m \in D : m \in Pending \/ (j # NoJob /\ Delivered(j) /\ \E e \in Left(b) : MsgOf[e] = m)
  <2>1. j # NoJob
    BY <1>10, NoJobIsNone DEF Core
  <2> QED
    BY <1>9, <1>15, <2>1
<1>19. /\ (\A d \in Copy : Flushing(d) => Single(job[d]) /\ Distinct(job[d].batch))'
       /\ QueueOnce(inbox)' /\ BearersOnce(Bearers, inbox)' /\ Spoken(inbox, Pending)'
  BY <1>2, <1>3, <1>7, <1>8, <1>10, <1>12, <1>14, <1>16, <1>17, <1>18, FlushOnce
<1>20. NoTargetTwice'
  <2> SUFFICES ASSUME NEW n \in notices', NEW k \in notices', n.msgs \cap k.msgs # {}, n.to = k.to
               PROVE  n = k
    BY DEF NoTargetTwice
  <2>1. CASE n \in notices /\ k \in notices
    BY <2>1 DEF OnceInv, NoTargetTwice
  <2>2. CASE ~(n \in notices /\ k \in notices)
    <3>1. \A y \in notices : y.msgs \cap x.msgs = {}
      BY <1>5, <1>13
    <3>2. (n = x /\ k \in notices) \/ (k = x /\ n \in notices) \/ n = k
      BY <1>7, <2>2
    <3> QED
      BY <3>1, <3>2
  <2> QED
    BY <2>1, <2>2
<1>21. /\ down' \subseteq {"listener"} /\ \A v \in Conv : Distinct(bucket'[v])
       /\ \A m \in Message : <<"mark", m>> \in cached' => m \in notified'
  BY <1>7 DEF OnceInv
<1> QED
  BY <1>19, <1>20, <1>21 DEF OnceInv

\* A flush that waits no more goes on as after an answer without a row.
LEMMA OnceTimeout ==
  ASSUME Calm, NotifyInv, OnceInv, NEW c \in Copy, Timeout(c), at[c] = "flush"
  PROVE  OnceInv'
<1>1. TypeOK /\ JobsSound /\ inbox \in Seq(Request)
  BY DEF NotifyInv, TypeOK
<1>2. PICK p : p = inbox
  OBVIOUS
<1>3. PICK q : q = Abandon(p, {c})
  OBVIOUS
<1>4. p \in Seq(Request) /\ QueueOnce(p) /\ BearersOnce(Bearers, p) /\ Spoken(p, Pending)
  BY <1>1, <1>2 DEF OnceInv
<1>5. q \in Seq(Request)
  <2>1. QueueOK(p) /\ {c} \in SUBSET Copy
    BY <1>2 DEF NotifyInv
  <2>2. QueueOK(q)
    BY <1>3, <2>1, QueueAbandon
  <2> QED
    BY <2>2 DEF QueueOK
<1>6. /\ QueueOnce(q) /\ \A m : EndIn(q, m) <=> EndIn(p, m)
      /\ \A m : MarkIn(p, m) => MarkIn(q, m)
  <2>1. Extended(p, q) /\ Len(p) \in Nat
    BY <1>3, <1>4, AbandonExtends
  <2> QED
    BY <1>4, <2>1, ExtendedOnce
<1>7. PICK b : b = job[c]
  OBVIOUS
<1>8. PICK answer : answer = NoRow
  OBVIOUS
<1>9. PICK j : j = Then(b, answer)
  OBVIOUS
<1>10. /\ Becomes(c, j, q) /\ b.step \in Asking /\ Flushing(c)
       /\ UNCHANGED <<bucket, claim, notified, cached, notices, down>>
  BY <1>2, <1>3, <1>7, <1>8, <1>9 DEF Timeout, TimesOut, Waiting, Flushing, files
<1>11. /\ answer.id \in Nat /\ answer.told \in SUBSET Target
       /\ AllReached(Buyer(c), answer.told)
  BY <1>8, NothingTold
<1>12. Sound(b, c) /\ Single(b) /\ Distinct(b.batch)
  BY <1>1, <1>7, <1>10 DEF JobsSound, OnceInv
<1>13. j = NoJob \/ (Core(j, c) /\ Advances(b, j) /\ Single(j))
  BY <1>9, <1>10, <1>11, <1>12, ThenSound, ThenLeft DEF Sound
<1>14. Delivered(b) => IF j = NoJob THEN Left(b) = {} ELSE Delivered(j)
  BY <1>9, <1>10, <1>11, <1>12, ThenLeft, EndLeft
<1>15. PICK S : S = Bearers
  OBVIOUS
<1>16. PICK D : D = Pending
  OBVIOUS
<1>17. QueueOnce(q)' /\ BearersOnce(S, q)' /\ Spoken(q, D)'
  <2>1. QueueOnce(q)'
    BY <1>6, <1>10 DEF QueueOnce, Ends, Blocked
  <2>2. BearersOnce(S, q)'
    BY <1>4, <1>6, <1>10, <1>15 DEF BearersOnce, EndIn, Ends
  <2>3. Spoken(q, D)'
    BY <1>4, <1>6, <1>10, <1>16 DEF Spoken, MarkIn
  <2> QED
    BY <2>1, <2>2, <2>3
<1>18. /\ (\A d \in Copy : Flushing(d) => Single(job[d]) /\ Distinct(job[d].batch))'
       /\ QueueOnce(inbox)' /\ BearersOnce(Bearers, inbox)' /\ Spoken(inbox, Pending)'
  BY <1>5, <1>7, <1>10, <1>13, <1>14, <1>15, <1>16, <1>17, FlushOnce
<1>19. /\ NoTargetTwice' /\ down' \subseteq {"listener"} /\ \A v \in Conv : Distinct(bucket'[v])
       /\ \A m \in Message : <<"mark", m>> \in cached' => m \in notified'
  BY <1>10 DEF OnceInv, NoTargetTwice
<1> QED
  BY <1>18, <1>19 DEF OnceInv

LEMMA OnceInit == Init => OnceInv
<1> SUFFICES ASSUME Init PROVE OnceInv
  OBVIOUS
<1>1. /\ \A c \in Copy : at[c] = "idle"
      /\ \A v \in Conv : bucket[v] = <<>>
      /\ inbox = <<>> /\ notices = {} /\ cached = {} /\ down = {}
  BY DEF Init
<1>2. Bearers = {}
  BY <1>1 DEF Bearers, Bears, Flushing, Elems
<1> QED
  BY <1>1, <1>2 DEF OnceInv, Flushing, Distinct, QueueOnce, BearersOnce, Spoken, NoTargetTwice

LEMMA OnceAlways ==
  ASSUME Calm
  PROVE  Spec => []OnceInv
<1>1. NotifyInv /\ OnceInv /\ [Next]_vars => OnceInv'
  <2> SUFFICES ASSUME NotifyInv, OnceInv, [Next]_vars PROVE OnceInv'
    OBVIOUS
  <2>1. CASE \E c \in Copy : Timeout(c) /\ at[c] = "flush"
    BY <2>1, OnceTimeout
  <2>2. CASE \E c \in Copy, o \in {"ok", "refused", "unknown"} : Deliver(c, o)
    BY <2>2, OnceDeliver
  <2>3. CASE \E v \in Conv : Flush(v)
    BY <2>3, OnceFlushed
  <2>4. CASE \E c \in Copy : Queue(c)
    BY <2>4, OnceQueue
  <2>5. CASE \E m \in Message : Expire(m)
    BY <2>5, OnceExpire
  <2>6. CASE Persist
    BY <2>6, OncePersist, OnceClaims, OnceNotified DEF Persist
  <2>7. CASE \/ \E c \in Copy : Emit(c) \/ Publish(c) \/ (Timeout(c) /\ at[c] # "flush")
             \/ CrashListener \/ \E w \in Worker : Restart(w)
             \/ UNCHANGED vars
    BY <2>7, OnceAside
  <2>8. ~CrashNotifier /\ ~CrashPersistence
    BY DEF CrashNotifier, CrashPersistence, Faulty, Calm
  <2> QED
    BY <2>1, <2>2, <2>3, <2>4, <2>5, <2>6, <2>7, <2>8 DEF Next
<1> QED
  BY <1>1, OnceInit, NotifyAlways, PTL DEF Spec

\* With one target, and as long as neither the notifier nor persistence crashes,
\* wxbot does not answer too late and no claim gets too old, a notice stands for one
\* buyer, can be answered, and comes once: whatever is refused, however late
\* persistence answers, and however often the listener sees a message again.
THEOREM NoticesAreSound ==
  ASSUME Calm
  PROVE  Spec => []NoticesSound
<1>1. "crashPersistence" \notin Fault
  BY DEF Calm
<1>2. OnceInv => NoTargetTwice
  BY DEF OnceInv
<1>3. Spec => []NoticeAnswerable
  BY <1>1, NoticesCanBeAnswered
<1>4. IdNamesOneConversation /\ NoticeAnswerable /\ NoTargetTwice => NoticesSound
  BY DEF NoticesSound
<1> QED
  BY <1>2, <1>3, <1>4, IdsNameOneConversation, OnceAlways, PTL
===============================================================================
