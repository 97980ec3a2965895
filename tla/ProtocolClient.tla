---------------------------- MODULE ProtocolClient ----------------------------
(***************************************************************************)
(* Sending over the protocol without a page.  Every request of the bridge  *)
(* server for a shop is served by the one cached client of that shop: it   *)
(* opens a socket when there is none, authenticates it, writes the message *)
(* and waits for its acknowledgement.  Requests run over each other, and   *)
(* an image closes the socket when it is through.                          *)
(***************************************************************************)
EXTENDS Naturals, FiniteSets, Sequences

CONSTANTS Requests,
          Plan,        \* the parts of each request in turn: "text" or "image"
          SocketIds,   \* bound: sockets ever opened, 1 to some number
          MaxFaults,   \* bound: refusals, failures and losses of a socket
          NoOne

ASSUME ProtocolClientAssumption ==
  (\A r \in Requests : Plan[r] \in Seq({"text", "image"}) \ {<<>>}) /\ MaxFaults \in Nat /\ NoOne \notin Requests

VARIABLES ws,           \* this.ws, 0 for none
          open,         \* the sockets that are open, this.ws and others
          known,        \* the sockets the platform has authenticated
          wsAuthed,     \* the client's flag
          authPromise,  \* the request whose authentication is awaited by all, or NoOne
          auths,        \* authentications under way, by the request that began them
          ackWaiters,   \* requests whose acknowledgement is awaited
          requests,     \* the requests
          accepted,     \* messages the platform has taken: request and part
          faults        \* how many faults have happened

clientVars == <<ws, open, known, wsAuthed, authPromise, auths, ackWaiters, requests, accepted, faults>>
socketVars == <<ws, open, known>>
authVars == <<wsAuthed, authPromise, auths>>

Stages == {"none", "new", "upload", "connect", "auth", "reauth", "ready", "again", "denied", "sent", "between", "ok", "failed"}
Answered == {"ok", "failed"}
Sending(r) == <<r, requests[r].part>>
IsImage(r) == Plan[r][requests[r].part] = "image"

ClientInit ==
  /\ ws = 0 /\ open = {} /\ known = {}
  /\ wsAuthed = FALSE /\ authPromise = NoOne /\ auths = {}
  /\ ackWaiters = {} /\ accepted = {} /\ faults = 0
  /\ requests = [r \in Requests |-> [stage |-> "none", part |-> 1, on |-> 0, joined |-> NoOne]]

Fault == faults < MaxFaults /\ faults' = faults + 1
Stage(r, stage) == [requests EXCEPT ![r].stage = stage]
WsOpen == ws \in open
NewSocket(x) == x \in SocketIds \ open /\ x \notin known /\ \A y \in SocketIds : y < x => y \in open \cup known

(***************************************************************************)
(* Opening.  A request that finds no open socket opens one, and forgets    *)
(* the waiters and the authentication of the one before; two requests that *)
(* find none open two, and the later one is this.ws.                       *)
(***************************************************************************)
(* What the authentication of the socket at hand asks for: nothing, joining one, or beginning one. *)
AwaitAuth(r, x, stage) ==
  \/ /\ authPromise # NoOne
     /\ requests' = [requests EXCEPT ![r].stage = stage, ![r].joined = authPromise]
     /\ UNCHANGED authVars
  \/ /\ authPromise = NoOne
     /\ authPromise' = r /\ auths' = auths \cup {[by |-> r, on |-> x, waiting |-> TRUE]}
     /\ requests' = [requests EXCEPT ![r].stage = stage, ![r].joined = r]
     /\ UNCHANGED wsAuthed
Authenticate(r, x) ==
  \/ wsAuthed /\ requests' = Stage(r, "ready") /\ UNCHANGED authVars
  \/ ~wsAuthed /\ AwaitAuth(r, x, "auth")

Deaf(jobs) == {[j EXCEPT !.waiting = FALSE] : j \in jobs}

OpensWs(r) ==
  \/ /\ WsOpen /\ Authenticate(r, ws)
     /\ UNCHANGED <<socketVars, ackWaiters>>
  \/ /\ ~WsOpen /\ ackWaiters' = {} /\ auths' = Deaf(auths) /\ wsAuthed' = FALSE
     /\ requests' = Stage(r, "connect")
     /\ UNCHANGED <<socketVars, authPromise>>

RequestArrives(r) ==
  /\ requests[r].stage = "none" /\ requests' = Stage(r, "new")
  /\ UNCHANGED <<socketVars, authVars, ackWaiters, accepted, faults>>

RequestBegins(r) ==
  /\ requests[r].stage \in {"new", "between"}
  /\ \/ ~IsImage(r) /\ OpensWs(r)
     \/ /\ IsImage(r) /\ requests' = Stage(r, "upload")
        /\ UNCHANGED <<socketVars, authVars, ackWaiters>>
  /\ UNCHANGED <<accepted, faults>>

ImageUploaded(r) ==
  /\ requests[r].stage = "upload" /\ OpensWs(r) /\ UNCHANGED <<accepted, faults>>

(* The upload fails before anything is opened. *)
ImageUploadFails(r) ==
  /\ Fault /\ requests[r].stage = "upload" /\ requests' = Stage(r, "failed")
  /\ UNCHANGED <<socketVars, authVars, ackWaiters, accepted>>

SocketOpens(r) ==
  /\ requests[r].stage = "connect"
  /\ \E x \in SocketIds :
       /\ NewSocket(x) /\ ws' = x /\ open' = open \cup {x}
       /\ Authenticate(r, x)
  /\ UNCHANGED <<known, ackWaiters, accepted, faults>>

ConnectFails(r) ==
  /\ Fault /\ requests[r].stage = "connect" /\ requests' = Stage(r, "failed")
  /\ UNCHANGED <<socketVars, authVars, ackWaiters, accepted>>

(***************************************************************************)
(* Authentication.  The answer, on whatever socket it comes, settles every *)
(* authentication that still waits, and all that have joined it.           *)
(***************************************************************************)
Awaiting(jobs) == {r \in Requests : requests[r].stage \in {"auth", "reauth"} /\ \E j \in jobs : j.by = requests[r].joined}
Settle(jobs, good) ==
  [r \in Requests |-> IF r \in Awaiting(jobs)
     THEN [requests[r] EXCEPT !.joined = NoOne,
             !.stage = IF @ = "auth" THEN (IF good THEN "ready" ELSE "failed")
                                     ELSE (IF good THEN "again" ELSE "denied")]
     ELSE requests[r]]

Waiting == {j \in auths : j.waiting}
AuthAcked(x) ==
  /\ x \in open \ known /\ \E j \in auths : j.on = x
  /\ known' = known \cup {x}
  /\ wsAuthed' = (wsAuthed \/ Waiting # {}) /\ auths' = auths \ Waiting
  /\ authPromise' = IF Waiting = {} THEN authPromise ELSE NoOne
  /\ requests' = Settle(Waiting, TRUE)
  /\ UNCHANGED <<ws, open, ackWaiters, accepted, faults>>

AuthRefused(x) ==
  /\ Fault /\ x \in open \ known /\ \E j \in auths : j.on = x
  /\ auths' = auths \ Waiting /\ authPromise' = IF Waiting = {} THEN authPromise ELSE NoOne
  /\ requests' = Settle(Waiting, FALSE)
  /\ UNCHANGED <<socketVars, wsAuthed, ackWaiters, accepted>>

AuthTimesOut(j) ==
  /\ j \in auths /\ auths' = auths \ {j} /\ authPromise' = NoOne
  /\ requests' = Settle({j}, FALSE)
  /\ UNCHANGED <<socketVars, wsAuthed, ackWaiters, accepted, faults>>

(***************************************************************************)
(* Sending, on the socket there is now, after a last look at it.           *)
(***************************************************************************)
CloseWs ==
  /\ open' = open \ {ws} /\ ws' = 0 /\ known' = known
  /\ wsAuthed' = FALSE /\ authPromise' = NoOne /\ auths' = Deaf(auths)
\* (mutant) the preface counts as one part more
AfterOneMore(r, good) ==
  IF requests[r].part <= Len(Plan[r])
    THEN [requests EXCEPT ![r].stage = "between", ![r].part = @ + 1, ![r].on = 0]
    ELSE [requests EXCEPT ![r].stage = IF good THEN "ok" ELSE "failed"]
(* A part is through: an image has closed the socket, the next part or the answer follows. *)
After(r, good) ==
  IF requests[r].part < Len(Plan[r])
    THEN [requests EXCEPT ![r].stage = "between", ![r].part = @ + 1, ![r].on = 0]
    ELSE [requests EXCEPT ![r].stage = IF good THEN "ok" ELSE "failed"]
PartEnds(r, good) ==
  /\ requests' = After(r, good)
  /\ IF IsImage(r) THEN CloseWs ELSE UNCHANGED <<socketVars, authVars>>

Writes(r) ==
  /\ requests' = [requests EXCEPT ![r].stage = "sent", ![r].on = ws]
  /\ ackWaiters' = ackWaiters \cup {r} /\ UNCHANGED <<socketVars, authVars>>

Send(r) ==
  /\ requests[r].stage = "ready" /\ UNCHANGED <<accepted, faults>>
  /\ \/ ~WsOpen /\ PartEnds(r, FALSE) /\ UNCHANGED ackWaiters
     \/ WsOpen /\ wsAuthed /\ Writes(r)
     \/ WsOpen /\ ~wsAuthed /\ AwaitAuth(r, ws, "reauth") /\ UNCHANGED <<socketVars, ackWaiters>>

(* It has authenticated once more: it writes without another look, or the part is lost. *)
SendsAgain(r) ==
  /\ requests[r].stage \in {"again", "denied"} /\ UNCHANGED <<accepted, faults>>
  /\ \/ (requests[r].stage = "denied" \/ ws = 0) /\ PartEnds(r, FALSE) /\ UNCHANGED ackWaiters
     \/ requests[r].stage = "again" /\ ws # 0 /\ Writes(r)

(* There is no sample to build the image message from: the socket stays open. *)
NoSample(r) ==
  /\ Fault /\ requests[r].stage = "ready" /\ IsImage(r) /\ requests' = Stage(r, "failed")
  /\ UNCHANGED <<socketVars, authVars, ackWaiters, accepted>>

SocketOf(r) == requests[r].on
Takes(r) ==
  /\ requests[r].stage = "sent" /\ SocketOf(r) \in open \cap known /\ Sending(r) \notin accepted
  /\ accepted' = accepted \cup {Sending(r)}
  /\ UNCHANGED <<socketVars, authVars, ackWaiters, requests, faults>>

\* (mutant) any acknowledgement will do
AnyMatched(r) == ackWaiters
(* The waiters an acknowledgement of r settles: a waiter is found by its own identifiers. *)
Matched(r) == {r} \cap ackWaiters
AckArrives(r) ==
  /\ Sending(r) \in accepted /\ SocketOf(r) \in open /\ requests[r].stage = "sent"
  /\ \E q \in Matched(r) :
       ackWaiters' = ackWaiters \ {q} /\ PartEnds(q, TRUE)
  /\ UNCHANGED <<accepted, faults>>

SendRefused(r) ==
  /\ Fault /\ requests[r].stage = "sent" /\ r \in ackWaiters /\ SocketOf(r) \in open
  /\ Sending(r) \notin accepted
  /\ ackWaiters' = ackWaiters \ {r} /\ PartEnds(r, FALSE) /\ UNCHANGED accepted

\* (mutant) the timer looks for the waiter
WaitOverIfWaiting(r) == requests[r].stage = "sent" /\ r \in ackWaiters
(* The timer ends the wait, though the waiter may be forgotten. *)
WaitOver(r) == requests[r].stage = "sent"
AckTimesOut(r) ==
  /\ WaitOver(r)
  /\ ackWaiters' = ackWaiters \ {r} /\ PartEnds(r, FALSE) /\ UNCHANGED <<accepted, faults>>

SocketLost(x) ==
  /\ Fault /\ x \in open /\ open' = open \ {x}
  /\ UNCHANGED <<ws, known, authVars, ackWaiters, requests, accepted>>

RequestStep(r) ==
  \/ RequestBegins(r) \/ ImageUploaded(r) \/ ImageUploadFails(r) \/ SocketOpens(r) \/ ConnectFails(r)
  \/ Send(r) \/ SendsAgain(r) \/ NoSample(r) \/ AckArrives(r) \/ SendRefused(r) \/ AckTimesOut(r)
ClientNext ==
  \/ \E r \in Requests : RequestArrives(r) \/ RequestStep(r) \/ Takes(r)
  \/ \E x \in SocketIds : AuthAcked(x) \/ AuthRefused(x) \/ SocketLost(x)
  \/ \E j \in auths : AuthTimesOut(j)

(* What is awaited ends or times out; nothing is asked of the platform. *)
ClientFairness ==
  /\ \A r \in Requests : WF_clientVars(RequestStep(r))
  /\ WF_clientVars(\E j \in auths : AuthTimesOut(j))
ClientSpec == ClientInit /\ [][ClientNext]_clientVars /\ ClientFairness

-----------------------------------------------------------------------------
(* The type of every variable. *)
ClientTypeOK ==
  /\ ws \in {0} \cup SocketIds /\ open \subseteq SocketIds /\ known \subseteq SocketIds
  /\ wsAuthed \in BOOLEAN /\ authPromise \in Requests \cup {NoOne}
  /\ auths \subseteq [by : Requests, on : SocketIds, waiting : BOOLEAN]
  /\ ackWaiters \subseteq Requests
  /\ \A r \in Requests : LET q == requests[r] IN
       q.stage \in Stages /\ q.part \in DOMAIN Plan[r] /\ q.on \in {0} \cup SocketIds /\ q.joined \in Requests \cup {NoOne}

(* A request is answered as sent only when the platform has taken its own last message, *)
(* whatever answers to others arrive while it waits.                                    *)
OkWasTaken == \A r \in Requests : requests[r].stage = "ok" => <<r, Len(Plan[r])>> \in accepted

(* Every request is answered, though sockets are replaced and closed under it and waiters forgotten. *)
EveryRequestEnds == \A r \in Requests : []<>(requests[r].stage \in {"none"} \cup Answered)

=============================================================================
