---------------------------- MODULE BridgeSession -----------------------------
(***************************************************************************)
(* The protocol bridge: an order system on another computer asks it to     *)
(* write to the buyer of an order, of whom it knows some things and not    *)
(* others.  The bridge finds the conversation and the receiver in two      *)
(* files, which it shares with the process that records what buyers write, *)
(* and puts there what a message was sent with.                            *)
(***************************************************************************)
EXTENDS Naturals, FiniteSets

CONSTANTS Dialogs, DialogShop, DialogBuyer,  \* the conversations, each of a shop with a buyer
          Callers,                    \* requests that are served at a time
          Part,                       \* <<a, b>>: the name of buyer a is part of the name of buyer b
          Family,                     \* buyers whose names are part of one another, or of a third's
          Nobody, NoDialog,
          OnlyNicks,                  \* what the configuration may say of who may be written to
          MaxAsked,                   \* bound: requests made
          MaxRecorded                 \* bound: times the recording process reads to write

Customers == {DialogBuyer[c] : c \in Dialogs}
BridgeShops == {DialogShop[c] : c \in Dialogs}

ASSUME BridgeAssumption ==
  /\ Dialogs # {} /\ DialogBuyer \in [Dialogs -> Customers] /\ DialogShop \in [Dialogs -> BridgeShops]
  /\ Nobody \notin Customers /\ NoDialog \notin Dialogs /\ {MaxAsked, MaxRecorded} \subseteq Nat
  /\ OnlyNicks \subseteq Customers \cup {Nobody}
  /\ Part \subseteq Customers \X Customers /\ \A b \in Customers : <<b, b>> \in Part
  /\ \A p \in Part : Family[p[1]] = Family[p[2]]

\* A row that gives no name, or the placeholder that every buyer is called by, is Nobody's.
VARIABLES context,    \* qianfan-session-context.json: name and receiver of each conversation, or Unwritten
          receivers,  \* app-cid-receivers.json: the receiver of each conversation, or Nobody
          recorder,   \* the copy of the context that the recording process has read to add to
          holds,      \* what the order system was told of a buyer's conversation when it asked
          call,       \* the requests
          onlyNick,   \* the one buyer the configuration allows to be written to, or Nobody for all
          requested,  \* requests made
          reads       \* times the recording process has read

bridgeVars == <<context, receivers, recorder, holds, call, onlyNick, requested, reads>>

Person == Customers \cup {Nobody}
Unwritten == [nick |-> Nobody, to |-> Nobody, there |-> FALSE]
Row(nick, to) == [nick |-> nick, to |-> to, there |-> TRUE]
Contexts == [Dialogs -> [nick : Person, to : Person, there : BOOLEAN]]
NoContext == [c \in Dialogs |-> Unwritten]
NoReceivers == [c \in Dialogs |-> Nobody]

\* What a request says of the buyer it means: his id, his name, the conversation, the receiver.
Request == [buyer : Customers, shop : BridgeShops, uid : BOOLEAN, nick : BOOLEAN,
            conv : Dialogs \cup {NoDialog}, to : Person]
Session == [conv : Dialogs \cup {NoDialog}, to : Person, nick : Person]
NoSession == [conv |-> NoDialog, to |-> Nobody, nick |-> Nobody]

FreeCall == [stage |-> "free", type |-> "alone", req |-> CHOOSE r \in Request : TRUE, session |-> NoSession]

BridgeInit ==
  /\ context = NoContext /\ receivers = NoReceivers /\ recorder = {}
  /\ holds = [b \in Customers |-> {}]
  /\ call = [k \in Callers |-> FreeCall]
  /\ onlyNick \in OnlyNicks /\ requested = 0 /\ reads = 0

(***************************************************************************)
(* The recording process reads the context, and later writes it with the   *)
(* row of a buyer who has written; the receivers it writes at once.  A     *)
(* file is missing or torn while the other process writes it, and a reader *)
(* then takes it for empty.                                                *)
(***************************************************************************)
RecorderReads ==
  /\ recorder = {} /\ reads < MaxRecorded /\ reads' = reads + 1
  /\ \E copy \in {context, NoContext} : recorder' = {copy}
  /\ UNCHANGED <<context, receivers, holds, call, onlyNick, requested>>

saveSessionContext(c, nick, known) ==
  LET to == IF known THEN DialogBuyer[c] ELSE Nobody IN
  /\ \E copy \in recorder : context' = [copy EXCEPT ![c] = Row(nick, to)]
  /\ recorder' = {}
  /\ IF known
     THEN \E file \in {receivers, NoReceivers} : receivers' = [file EXCEPT ![c] = to]
     ELSE UNCHANGED receivers
  /\ UNCHANGED <<holds, call, onlyNick, requested, reads>>

(***************************************************************************)
(* Finding the conversation.  The rows of the context are tried in the     *)
(* order in which they were first written, so that of several that fit     *)
(* any may be the first.                                                   *)
(***************************************************************************)
buyerNickMatches(a, b) == <<a, b>> \in Part \/ <<b, a>> \in Part

NickOr(req, nick) == IF req.nick THEN req.buyer ELSE nick
ToOr(req, to) == IF to = Nobody /\ req.uid THEN req.buyer ELSE to

\* (mutant) that neither has a receiver counts as the same receiver
FitsUnknown(req, row) ==
  /\ row.there
  /\ \/ row.to = (IF req.uid THEN req.buyer ELSE Nobody)
     \/ req.nick /\ row.nick # Nobody /\ <<req.buyer, row.nick>> \in Part

Fits(req, row) ==
  /\ row.there
  /\ \/ req.uid /\ row.to = req.buyer
     \/ req.nick /\ row.nick # Nobody /\ <<req.buyer, row.nick>> \in Part

resolveSessionFromStore(req, ctx, map) ==
  LET ofShop == {c \in Dialogs : DialogShop[c] = req.shop}
      byRow  == {c \in ofShop : Fits(req, ctx[c])}
      byMap  == {c \in ofShop : req.uid /\ map[c] = req.buyer}
  IN IF req.conv # NoDialog
     THEN {[conv |-> req.conv, nick |-> NickOr(req, ctx[req.conv].nick),
            to |-> IF req.to # Nobody THEN req.to ELSE ToOr(req, ctx[req.conv].to)]}
     ELSE IF byRow # {}
     THEN {[conv |-> c, to |-> ctx[c].to,
            nick |-> IF req.uid /\ ctx[c].to = req.buyer THEN NickOr(req, ctx[c].nick) ELSE ctx[c].nick] :
           c \in byRow}
     ELSE IF byMap # {}
     THEN {[conv |-> c, to |-> req.buyer, nick |-> NickOr(req, Nobody)] : c \in byMap}
     ELSE {[conv |-> NoDialog, to |-> IF req.uid THEN req.buyer ELSE Nobody, nick |-> NickOr(req, Nobody)]}

Found(req) ==
  UNION {resolveSessionFromStore(req, ctx, map) :
           ctx \in {context, NoContext}, map \in {receivers, NoReceivers}}

(* What the order system knows of a conversation: from the order, or from an answer to open-session. *)
Known(b, s) ==
  {[conv |-> c, to |-> Nobody] : c \in {d \in Dialogs : DialogBuyer[d] = b /\ DialogShop[d] = s}}
    \cup {known \in holds[b] : known.conv # NoDialog => DialogShop[known.conv] = s}
    \cup {[conv |-> NoDialog, to |-> Nobody]}

RequestOf(b, s, uid, nick, known) ==
  [buyer |-> b, shop |-> s, uid |-> uid, nick |-> nick, conv |-> known.conv, to |-> known.to]

Counted == requested < MaxAsked /\ requested' = requested + 1

OpenSession(req) ==
  /\ Counted /\ req.uid
  /\ \E found \in Found(req) :
       holds' = [holds EXCEPT ![req.buyer] = @ \cup {[conv |-> found.conv, to |-> found.to]}]
  /\ UNCHANGED <<context, receivers, recorder, call, onlyNick, reads>>

(***************************************************************************)
(* Sending.  A request finds its conversation, and waits for a socket, an  *)
(* upload and the platform; an image may have words to go before it, for   *)
(* which the conversation is looked up on its own.  A part that is sent    *)
(* alone, text or image, is sent in one way.                               *)
(***************************************************************************)
Allowed(nick) == onlyNick # Nobody => nick # Nobody /\ buyerNickMatches(onlyNick, nick)

Target(req, found) ==
  [conv |-> IF req.conv # NoDialog THEN req.conv ELSE found.conv,
   to |-> IF req.to # Nobody THEN req.to ELSE found.to,
   nick |-> NickOr(req, found.nick)]

\* Looked up and found wanting, a request is refused.
Starts(k, type, req) ==
  \E found \in Found(req) :
    LET target == Target(req, found) IN
    call' = [call EXCEPT ![k] =
      IF Allowed(target.nick) /\ target.conv # NoDialog /\ target.to # Nobody
      THEN [stage |-> "sending", type |-> type, req |-> req, session |-> target]
      ELSE FreeCall]

BridgeSend(k, type, req) ==
  /\ call[k].stage = "free" /\ Counted /\ Starts(k, type, req)
  /\ UNCHANGED <<context, receivers, recorder, holds, onlyNick, reads>>

\* After the words comes the image, whether or not they were taken.
AfterPart(k) ==
  call' = [call EXCEPT ![k] = IF @.type = "preface" THEN [@ EXCEPT !.stage = "image"] ELSE FreeCall]

persistSession(session) ==
  /\ \E file \in {context, NoContext} :
       context' = [file EXCEPT ![session.conv] = Row(session.nick, session.to)]
  /\ \E file \in {receivers, NoReceivers} : receivers' = [file EXCEPT ![session.conv] = session.to]

SendTaken(k) ==
  /\ call[k].stage = "sending" /\ AfterPart(k) /\ persistSession(call[k].session)
  /\ UNCHANGED <<recorder, holds, onlyNick, requested, reads>>

NotTaken(k) ==
  /\ call[k].stage = "sending" /\ AfterPart(k)
  /\ UNCHANGED <<context, receivers, recorder, holds, onlyNick, requested, reads>>

SendThrows(k) ==
  /\ call[k].stage \in {"sending", "image"} /\ call' = [call EXCEPT ![k] = FreeCall]
  /\ UNCHANGED <<context, receivers, recorder, holds, onlyNick, requested, reads>>

ImageFollows(k) ==
  /\ call[k].stage = "image" /\ Starts(k, "alone", call[k].req)
  /\ UNCHANGED <<context, receivers, recorder, holds, onlyNick, requested, reads>>

BridgeNext ==
  \/ RecorderReads
  \/ \E c \in Dialogs, known \in BOOLEAN : \E nick \in {DialogBuyer[c], Nobody} :
       saveSessionContext(c, nick, known)
  \/ \E b \in Customers, s \in BridgeShops, uid, nick \in BOOLEAN : \E known \in Known(b, s) :
       LET req == RequestOf(b, s, uid, nick, known) IN
       \/ OpenSession(req)
       \/ \E k \in Callers, type \in {"alone", "preface"} : BridgeSend(k, type, req)
  \/ \E k \in Callers : SendTaken(k) \/ NotTaken(k) \/ SendThrows(k) \/ ImageFollows(k)

BridgeSpec == BridgeInit /\ [][BridgeNext]_bridgeVars

(***************************************************************************)
(* Properties                                                              *)
(***************************************************************************)
(* The variables range over what the files, the order system and the bridge keep in them. *)
BridgeTypeOK ==
  /\ context \in Contexts /\ receivers \in [Dialogs -> Person] /\ recorder \in SUBSET Contexts
  /\ holds \in [Customers -> SUBSET [conv : Dialogs \cup {NoDialog}, to : Person]]
  /\ call \in [Callers -> [stage : {"free", "sending", "image"}, type : {"alone", "preface"},
                           req : Request, session : Session]]
  /\ onlyNick \in Person /\ requested \in Nat /\ reads \in Nat

(***************************************************************************)
(* Whatever the files have been made to say by messages that were sent, by *)
(* rows that were lost and by files read empty: what is sent for a buyer   *)
(* goes to a conversation of the shop that was asked for and to a receiver *)
(* of his family of names, so that it reaches him and nobody else if no    *)
(* other name is part of his or has his as a part.  If the configuration   *)
(* allows one buyer only, he is of that family.                            *)
(***************************************************************************)
BridgedToMeant ==
  \A k \in Callers : call[k].stage = "sending" =>
    LET req == call[k].req  session == call[k].session IN
    /\ session.conv \in Dialogs /\ DialogShop[session.conv] = req.shop
    /\ Family[DialogBuyer[session.conv]] = Family[req.buyer]
    /\ session.to \in Customers /\ Family[session.to] = Family[req.buyer]
    /\ onlyNick # Nobody => Family[onlyNick] = Family[req.buyer]

===============================================================================
