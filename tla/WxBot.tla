--------------------------------- MODULE WxBot ---------------------------------
(***************************************************************************)
(* The Go process that drives the WeChat client: an HTTP server whose      *)
(* handlers ask the client through a library, a table that matches the     *)
(* client's answers with the handlers that wait for them, and the life of  *)
(* the connection.                                                         *)
(*                                                                         *)
(* The library answers over callbacks that name only a message type and a  *)
(* client: two questions of one type share a place in the table.           *)
(***************************************************************************)
EXTENDS WxConfig

CONSTANTS Calls,       \* HTTP requests
          CallKinds,   \* the names of Handlers they may ask for
          Clients,     \* WeChat clients the library may report
          MaxEvents,   \* bound: see Event
          None

ASSUME WxBotAssumption ==
  /\ MaxEvents \in Nat /\ None \notin Calls \cup Clients

VARIABLES service,   \* the WeChat service
          client,    \* its clientID, None for 0
          connected, \* the clients the library has reported
          calls,     \* the HTTP requests
          pending,   \* the response table: who waits for a type from a client
          aged,      \* the calls whose entry is past its time
          asked,     \* what the client has been asked and has not answered
          events     \* how many bounded events have happened

wxVars == <<service, client, connected, calls, pending, aged, asked, events>>
askVars == <<calls, pending, aged, asked>>

Event == events < MaxEvents /\ events' = events + 1

(***************************************************************************)
(* What the helpers ask of the client, and for how long they wait for the  *)
(* answer; a helper that only tells waits for nothing.                     *)
(***************************************************************************)
Asks(type, seconds) == [type |-> type, waits |-> seconds]
Tells(type) == [type |-> type, waits |-> 0]

HelperGetCurrentLoginInfo == Asks(11028, 10)
HelperRefreshQRCode == Asks(11087, 10)
HelperGetMiniProgramCode == Asks(11136, 10)
HelperGetVoiceToText == Asks(11112, 20)
HelperInviteGroupMember == Asks(11069, 10)
HelperModifyGroupName == Asks(11072, 10)
HelperGetFriendList == Asks(11030, 10)
HelperGetGroupList == Asks(11031, 10)
HelperGetGroupMemberList == Asks(11032, 10)
HelperGetFriendInfo == Asks(11029, 10)
HelperLogoutCurrent == Tells(11104)
HelperSendText == Tells(11036)
HelperSendAtText == Tells(11037)
HelperSendCard == Tells(11038)
HelperSendImage == Tells(11040)
HelperSendFile == Tells(11041)

(* The handlers: the helper each calls, whether it insists on POST, and the fields it needs. *)
Get(helper, needs) == [helper |-> helper, post |-> FALSE, needs |-> needs]
Post(helper, needs) == [helper |-> helper, post |-> TRUE, needs |-> needs]
GetCurrentLoginInfo == Get(HelperGetCurrentLoginInfo, {})
RefreshQRCode == Get(HelperRefreshQRCode, {})
LogoutCurrent == Get(HelperLogoutCurrent, {})
GetMiniProgramCode == Get(HelperGetMiniProgramCode, {"appid"})
GetVoiceToText == Get(HelperGetVoiceToText, {"msgid"})
GetFriendList == Get(HelperGetFriendList, {})
GetFriendInfo == Get(HelperGetFriendInfo, {"wxid"})
GetGroupList == Get(HelperGetGroupList, {})
GetGroupMemberList == Get(HelperGetGroupMemberList, {"room_wxid"})
SendTextMessage == Post(HelperSendText, {"wxid", "content"})
SendAtTextMessage == Post(HelperSendAtText, {"wxid", "content"})
InviteGroupMember == Post(HelperInviteGroupMember, {"room_wxid", "member_list"})
SendImageMessage == Post(HelperSendImage, {"wxid", "file"})
SendFileMessage == Post(HelperSendFile, {"wxid", "file"})
SendCardMessage == Post(HelperSendCard, {"wxid", "card_wxid"})
ModifyGroupName == Post(HelperModifyGroupName, {"room_wxid", "name"})
Handlers ==
  [GetCurrentLoginInfo |-> GetCurrentLoginInfo,
   RefreshQRCode |-> RefreshQRCode,
   LogoutCurrent |-> LogoutCurrent,
   GetMiniProgramCode |-> GetMiniProgramCode,
   GetVoiceToText |-> GetVoiceToText,
   GetFriendList |-> GetFriendList,
   GetFriendInfo |-> GetFriendInfo,
   GetGroupList |-> GetGroupList,
   GetGroupMemberList |-> GetGroupMemberList,
   SendTextMessage |-> SendTextMessage,
   SendAtTextMessage |-> SendAtTextMessage,
   InviteGroupMember |-> InviteGroupMember,
   SendImageMessage |-> SendImageMessage,
   SendFileMessage |-> SendFileMessage,
   SendCardMessage |-> SendCardMessage,
   ModifyGroupName |-> ModifyGroupName]

ASSUME WxHandlersAssumption == CallKinds \subseteq DOMAIN Handlers

(***************************************************************************)
(* The service.                                                            *)
(***************************************************************************)
Off == [running |-> FALSE, phase |-> "off", cleanup |-> FALSE, loaded |-> FALSE]
IsRunning == service.running
NoCall == [kind |-> None, stage |-> "none", key |-> None, chan |-> "none", got |-> None, alone |-> FALSE]

WxInit ==
  /\ service = Off /\ client = None /\ connected = {}
  /\ calls = [q \in Calls |-> NoCall] /\ pending = {} /\ aged = {} /\ asked = {}
  /\ ConfigInit /\ events = 0

Keep == UNCHANGED <<askVars, cfgVars>>

(* A library is missing, cannot be mapped, or its socket cannot be set up. *)
InitializeFails ==
  /\ Event /\ service.phase = "off" /\ service' = [service EXCEPT !.phase = "failed"]
  /\ Keep /\ UNCHANGED <<client, connected>>

Initialize ==
  /\ service.phase = "off"
  /\ service' = [service EXCEPT !.phase = "injecting", !.running = TRUE, !.loaded = TRUE]
  /\ Keep /\ UNCHANGED <<client, connected, events>>

Injected(c) ==
  /\ service.phase = "injecting" /\ client' = c
  /\ service' = [service EXCEPT !.phase = "looping", !.cleanup = TRUE]
  /\ Keep /\ UNCHANGED <<connected, events>>

(* Start returns an error, but the service already counts as running. *)
InjectFails ==
  /\ Event /\ service.phase = "injecting"
  /\ service' = [service EXCEPT !.phase = "failed"]
  /\ Keep /\ UNCHANGED <<client, connected>>

(* The heartbeat is found to be two minutes old, as after a sleep of the computer. *)
HeartbeatStale ==
  /\ Event /\ service.phase = "looping" /\ service' = [service EXCEPT !.phase = "reconnecting"]
  /\ Keep /\ UNCHANGED <<client, connected>>

Stopped == [service EXCEPT !.phase = "stopped", !.running = FALSE, !.cleanup = FALSE]
(* The first failure ends the service: the attempts are counted, but there is never a second one. *)
Reconnects(c) ==
  /\ service.phase = "reconnecting"
  /\ \/ /\ client' = c /\ service' = [service EXCEPT !.phase = "looping"] /\ UNCHANGED events
     \/ /\ Event /\ service' = Stopped /\ UNCHANGED client
  /\ Keep /\ UNCHANGED connected

(* The library reports clients as they come and go; the one that came last is the one that is asked. *)
OnConnect(c) ==
  /\ Event /\ service.loaded /\ c \notin connected
  /\ connected' = connected \cup {c} /\ client' = c
  /\ Keep /\ UNCHANGED service

OnClose(c) ==
  /\ Event /\ c \in connected /\ connected' = connected \ {c}
  /\ Keep /\ UNCHANGED <<service, client>>

(***************************************************************************)
(* The response table.  An entry is a channel of one place: it is closed   *)
(* when another call takes its place, when it is cancelled and when it is  *)
(* past its time, and it leaves the table in the same breath.              *)
(***************************************************************************)
KeyOf(q, c) == <<Handlers[calls[q].kind].helper.type, c>>
At(key) == {q \in pending : calls[q].key = key}
Closed(some) == [q \in Calls |-> IF q \in some THEN [calls[q] EXCEPT !.chan = "closed"] ELSE calls[q]]

Waiting == {"asking", "waiting"}
SameKind(q) == {p \in Calls \ {q} : calls[p].stage \in Waiting \cup {"registering"} /\ calls[p].kind = calls[q].kind}
(* Nobody else asks for the same, and nobody's late answer is still to come. *)
Alone(q) == SameKind(q) = {} /\ ~\E a \in asked : a.type = Handlers[calls[q].kind].helper.type

RegisterRequest(q) ==
  LET key == KeyOf(q, client)
      begun == [Closed(At(key)) EXCEPT ![q].stage = "asking", ![q].key = key, ![q].chan = "open", ![q].alone = Alone(q)]
  IN /\ calls[q].stage = "registering"
     /\ calls' = [p \in Calls |-> IF p \in SameKind(q) THEN [begun[p] EXCEPT !.alone = FALSE] ELSE begun[p]]
     /\ pending' = (pending \ At(key)) \cup {q}
     /\ UNCHANGED <<service, client, connected, aged, asked, cfgVars, events>>

\* (mutant) everything is past its time
EveryEntry == pending
Expired == pending \cap aged
\* (mutant) what is past its time is closed, and stays
Swept(some) == pending
(* What is left of the table when some entries are past their time. *)
Remaining(some) == pending \ some
CleanupExpiredRequests ==
  /\ service.cleanup /\ Expired # {}
  /\ calls' = Closed(Expired) /\ pending' = Remaining(Expired)
  /\ UNCHANGED <<service, client, connected, aged, asked, cfgVars, events>>

(* Ten seconds have passed since the call was registered, all of them in the wait. *)
Ages(q) ==
  /\ calls[q].stage = "waiting" /\ q \notin aged /\ aged' = aged \cup {q}
  /\ UNCHANGED <<service, client, connected, calls, pending, asked, cfgVars, events>>

(* An answer goes to whoever holds the place now, its own question or not. *)
HandleResponse(a) ==
  LET at == At(<<a.type, a.of>>)
  IN /\ pending' = pending \ at
     /\ calls' = [q \in Calls |-> IF q \notin at THEN calls[q]
                    ELSE IF q \in aged THEN [calls[q] EXCEPT !.chan = "closed"]
                    ELSE [calls[q] EXCEPT !.chan = "filled", !.got = a.by]]

ClientAnswers(a) ==
  /\ a \in asked /\ a.of \in connected /\ asked' = asked \ {a} /\ HandleResponse(a)
  /\ UNCHANGED <<service, client, connected, aged, cfgVars, events>>

(***************************************************************************)
(* An HTTP request passes the middlewares and its handler's own checks,    *)
(* asks, and waits.                                                        *)
(***************************************************************************)
Flaws == {"credentials", "content type", "method", "appid", "msgid", "wxid", "room_wxid", "content", "member_list", "file", "card_wxid", "name"}
BasicAuthMiddleware(flaws) == ~cfg.auth \/ "credentials" \notin flaws
WeChatServiceMiddleware == IsRunning
ContentTypeMiddleware(h, flaws) == h.post => "content type" \notin flaws
Accepts(h, flaws) == (h.post => "method" \notin flaws) /\ h.needs \cap flaws = {}
Passes(h, flaws) ==
  /\ BasicAuthMiddleware(flaws) /\ WeChatServiceMiddleware
  /\ ContentTypeMiddleware(h, flaws) /\ Accepts(h, flaws)

Ends(q, stage) == [calls EXCEPT ![q].stage = stage]
RequestArrives(q, kind, flaws) ==
  LET h == Handlers[kind]
  IN /\ calls[q].stage = "none"
     /\ calls' = [calls EXCEPT ![q].kind = kind,
          ![q].stage = IF ~Passes(h, flaws) THEN "refused"
                       ELSE IF h.helper.waits > 0 THEN "registering" ELSE "asking"]
     /\ UNCHANGED <<service, client, connected, pending, aged, asked, cfgVars, events>>

(* The upload of a picture or a file cannot be stored. *)
UploadFails(q) ==
  /\ Event /\ calls[q].stage = "asking" /\ calls[q].kind \in {"SendImageMessage", "SendFileMessage"}
  /\ calls' = Ends(q, "error")
  /\ UNCHANGED <<service, client, connected, pending, aged, asked, cfgVars>>

(* The question goes to whichever client is the last one now, not the one it is registered with. *)
SendMessage(q) ==
  LET helper == Handlers[calls[q].kind].helper
  IN /\ calls[q].stage = "asking" /\ service.loaded /\ IsRunning /\ client # None
     /\ asked' = IF helper.waits > 0 THEN asked \cup {[type |-> helper.type, of |-> client, by |-> q]} ELSE asked
     /\ calls' = Ends(q, IF helper.waits > 0 THEN "waiting" ELSE "ok")
     /\ UNCHANGED <<service, client, connected, pending, aged, cfgVars, events>>

(* It cannot go: a call that waits for an answer cancels what is at its place under the client of now. *)
SendFails(q) ==
  LET at == IF Handlers[calls[q].kind].helper.waits > 0 THEN At(KeyOf(q, client)) ELSE {}
  IN /\ calls[q].stage = "asking"
     /\ \/ ~service.loaded \/ ~IsRunning \/ client = None \/ client \notin connected
     /\ calls' = [Closed(at) EXCEPT ![q].stage = "error"] /\ pending' = pending \ at
     /\ UNCHANGED <<service, client, connected, aged, asked, cfgVars, events>>

(* A channel that was closed yields nothing, which counts as an answer. *)
WaitForResponse(q) ==
  /\ calls[q].stage = "waiting" /\ calls[q].chan \in {"closed", "filled"}
  /\ calls' = Ends(q, "ok")
  /\ UNCHANGED <<service, client, connected, pending, aged, asked, cfgVars, events>>

(* Its entry stays where it is. *)
WaitTimesOut(q) ==
  /\ calls[q].stage = "waiting" /\ q \in aged /\ calls' = Ends(q, "timeout")
  /\ UNCHANGED <<service, client, connected, pending, aged, asked, cfgVars, events>>

(***************************************************************************)
(* The process is ended by a signal, or dies; the next one reads the file. *)
(***************************************************************************)
Restart ==
  /\ Event /\ service' = Off /\ client' = None /\ connected' = {}
  /\ calls' = [q \in Calls |-> IF calls[q].stage = "none" THEN NoCall ELSE [NoCall EXCEPT !.stage = "lost"]]
  /\ pending' = {} /\ aged' = {} /\ asked' = {}
  /\ Load /\ UNCHANGED changes

ServiceStep ==
  \/ InitializeFails \/ Initialize \/ InjectFails \/ HeartbeatStale \/ CleanupExpiredRequests
  \/ \E c \in Clients : Injected(c) \/ Reconnects(c) \/ OnConnect(c) \/ OnClose(c)
  \/ \E a \in asked : ClientAnswers(a)
CallStep(q) ==
  \/ RegisterRequest(q) \/ SendMessage(q) \/ SendFails(q) \/ WaitForResponse(q) \/ WaitTimesOut(q)

WxCallNext ==
  \/ ServiceStep \/ Restart
  \/ \E q \in Calls : CallStep(q) \/ UploadFails(q) \/ Ages(q)
  \/ \E q \in Calls, kind \in CallKinds, flaw \in Flaws \cup {"none"} : RequestArrives(q, kind, {flaw})
WxNext == WxCallNext \/ (ConfigNext /\ UNCHANGED wxVars)

WxSpec == WxInit /\ [][WxNext]_<<wxVars, cfgVars>>

-----------------------------------------------------------------------------
Stages == {"none", "registering", "asking", "waiting", "ok", "refused", "error", "timeout", "lost"}
(* The type of every variable. *)
WxTypeOK ==
  /\ service \in [running : BOOLEAN, cleanup : BOOLEAN, loaded : BOOLEAN,
                  phase : {"off", "injecting", "looping", "reconnecting", "failed", "stopped"}]
  /\ client \in Clients \cup {None} /\ connected \subseteq Clients
  /\ \A q \in Calls : calls[q].stage \in Stages /\ calls[q].chan \in {"none", "open", "closed", "filled"} /\ calls[q].got \in Calls \cup {None}
  /\ pending \subseteq Calls /\ aged \subseteq Calls
  /\ \A a \in asked : a.of \in Clients /\ a.by \in Calls
  /\ ConfigTypeOK

(* Whoever closes or fills a channel finds it in the table: one place, one channel, and that one open   *)
(* and empty, or the process would go down over a channel closed twice.                                 *)
PlaceIsOpen ==
  /\ \A q \in pending : calls[q].chan = "open"
  /\ \A p, q \in pending : calls[p].key = calls[q].key => p = q

(* A call that had its question to itself, with no late answer of an earlier one outstanding, is answered *)
(* with what it asked for or not at all, however clients, configurations and the service changed.         *)
AloneIsServed == \A q \in Calls : calls[q].stage = "ok" /\ calls[q].alone /\ q \notin aged => calls[q].got = q

(* What waits in the table is closed or filled once, and by the answer that belongs to it. *)
CallsServed == PlaceIsOpen /\ AloneIsServed

=============================================================================
