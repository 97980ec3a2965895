------------------------------ MODULE ShopChat ------------------------------
(***************************************************************************)
(* How what is said in the chats of a shop gets from the page to the       *)
(* notifier.  The page receives it in frames of its WebSocket, and again   *)
(* in the answers to its own requests; the listener reads both, and every  *)
(* 25 s it repeats the last of those requests to find what was missed.     *)
(* chat-parse.js tells what buyers say from what the staff and the system  *)
(* say, differently in frames and in answers, and                          *)
(* buildCanonicalBuyerMessageKey decides what is the same message.         *)
(* BuyerNotify shows that a key is told once; here Tell does it in a step. *)
(***************************************************************************)
EXTENDS Integers, FiniteSets

CONSTANTS
  Item,            \* things said in the chats
  Traits,          \* what an item may be like, see Trait
  MaxChatFaults    \* bound: lost frames, failed requests and notices, restarts

(***************************************************************************)
(* by      who says it, and how the item shows that: "typed" with a sender *)
(*         type, "deep" with a type somewhere in its extension, "uid" with *)
(*         the id of a buyer, "bare" not at all                            *)
(* wrapped whether a frame has it as userMessage; conv whether it names    *)
(*         its conversation there; stamped whether the frame has a time    *)
(*         of its own                                                      *)
(* id, at  the message id and the second, 0 if it has none                 *)
(***************************************************************************)
Sender == {"CUSTOMER", "CSA", "SYSTEM"}
Trait == [by : Sender, mark : {"typed", "deep", "uid", "bare"}, wrapped : BOOLEAN, conv : BOOLEAN,
          id : Nat, at : Nat, stamped : BOOLEAN, says : {"words", "picture", "status"}]

\* Only buyers have the id of a buyer, and only they may be unmarked.
ASSUME ShopChatAssumption ==
  /\ Traits \subseteq Trait /\ MaxChatFaults \in Nat
  /\ \A t \in Traits : (t.mark \in {"uid", "bare"} => t.by = "CUSTOMER") /\ (t.id = 0 => t.at # 0)

VARIABLES
  is,          \* the traits of each item
  said,        \* items that were said
  framed,      \* items that a frame had, or was to have
  template,    \* the page has made a request that can be repeated
  polled,     \* the answer the poll works on, {"none"} between polls
  seen,        \* seenCanonicalKeys
  handed,      \* messages on their way from the listener to the notifier
  notified,    \* notified-messages.json
  told,        \* how often an item was told to the receivers
  old,         \* items older than HTTP_RECENT_MS
  chatFaults

chatVars == <<is, said, framed, template, polled, seen, handed, notified, told, old, chatFaults>>

NotPolled == {"none"}

ChatInit ==
  /\ is \in [Item -> Traits]
  /\ \A i, j \in Item : i # j /\ is[i].id = is[j].id => is[i].id = 0
  /\ said = {} /\ framed = {} /\ old = {} /\ template = FALSE /\ polled = NotPolled
  /\ seen = {} /\ handed = {} /\ notified = {} /\ told = [i \in Item |-> 0] /\ chatFaults = 0

(***************************************************************************)
(* chat-parse.js                                                           *)
(***************************************************************************)
SenderType(i) == IF is[i].mark = "typed" THEN is[i].by ELSE ""
BuyerUid(i) == is[i].mark = "uid"
TypeInExtension(i) == IF is[i].mark \in {"typed", "deep"} THEN is[i].by ELSE ""

\* (mutant) a frame is as good as an answer to tell when something was said
KeyByNow(i, way) ==
  IF is[i].id # 0 /\ way = "frame" THEN <<"id", is[i].id, 0>>
  ELSE <<is[i].says, is[i].at, IF way = "frame" /\ is[i].stamped THEN 1 ELSE 0>>

\* extractStableMsgId and buildCanonicalBuyerMessageKey: the id, or what was
\* said and when; parseWsBuyerMessage takes the time of the frame if it has one.
Key(i, way) ==
  IF is[i].id # 0 THEN <<"id", is[i].id, 0>>
  ELSE <<is[i].says, is[i].at, IF way = "frame" /\ is[i].stamped THEN 1 ELSE 0>>

\* buildBuyerMessage; the block of an answer says which conversation it is of.
Message(i, way) == [item |-> i, key |-> Key(i, way), conv |-> is[i].conv \/ way = "answer"]

\* parseWsBuyerMessage
Direct(i) == SenderType(i) = "CUSTOMER" \/ BuyerUid(i)

\* isBuyerMessageItem
BuyerItem(i) == Direct(i) \/ TypeInExtension(i) = "CUSTOMER"

\* parseWsSessionMessages and isWsBuyerCandidate
Candidate(i) == is[i].wrapped /\ SenderType(i) # "CSA" /\ BuyerItem(i)

\* extractBuyerMessagesFromWsPayload: the others count only if there is no direct one.
FromFrame(some) ==
  LET direct == {i \in some : Direct(i)}
  IN IF direct # {} THEN direct ELSE {i \in some : Candidate(i)}

\* (mutant) nobody looks into the extension
IgnoredByType(m) ==
  \/ ~m.conv
  \/ SenderType(m.item) \notin {"", "CUSTOMER"}
  \/ is[m.item].says = "status"

\* isIgnoredMessage; words like "read" and "typing" are taken for a status.
Ignored(m) ==
  \/ ~m.conv
  \/ SenderType(m.item) \notin {"", "CUSTOMER"}
  \/ TypeInExtension(m.item) \in {"SYSTEM", "CSA"}
  \/ is[m.item].says = "status"

\* extractMessagesFromResponse and filterBuyerOnlyMessages
FromAnswer(some) ==
  {i \in some : SenderType(i) \in {"", "CUSTOMER"} /\ ~Ignored(Message(i, "answer"))}

(***************************************************************************)
(* qianfan-message-listener.js                                             *)
(***************************************************************************)

\* (mutant) what the listener has seen it never hands over again
UnseenOnly(m) == ~Ignored(m) /\ m.key \notin seen

\* emitBuyerMessage hands over again what it has seen but nobody was told.
Emitted(m) == ~Ignored(m) /\ (m.key \in seen => m.key \notin notified)

Emit(messages) ==
  LET new == {m \in messages : Emitted(m)}
  IN /\ handed' = handed \cup {[item |-> m.item, key |-> m.key] : m \in new}
     /\ seen' = seen \cup {m.key : m \in new}

ChatFault == chatFaults < MaxChatFaults /\ chatFaults' = chatFaults + 1
Recent == said \ old

Say(i) ==
  /\ i \notin said
  /\ said' = said \cup {i}
  /\ UNCHANGED <<is, framed, template, polled, seen, handed, notified, told, old, chatFaults>>

\* dispatchBuyerMessageHandlers and processBuyerMessages
Frame(some) ==
  /\ some \subseteq said \ framed
  /\ framed' = framed \cup some
  /\ Emit({Message(i, "frame") : i \in FromFrame(some)})
  /\ UNCHANGED <<is, said, template, polled, notified, told, old, chatFaults>>

\* The connection to the page, or the page's own, is down.
FrameLost(some) ==
  /\ some \subseteq said \ framed
  /\ framed' = framed \cup some
  /\ ChatFault
  /\ UNCHANGED <<is, said, template, polled, seen, handed, notified, told, old>>

\* The page lists its chats: the request becomes the template of the polls, the
\* answer is read (attachPage, Network.loadingFinished).
PageRequests ==
  /\ ~template /\ template' = TRUE
  /\ Emit({Message(i, "answer") : i \in FromAnswer(Recent)})
  /\ UNCHANGED <<is, said, framed, polled, notified, told, old, chatFaults>>

PollStarts ==
  /\ template /\ polled = NotPolled
  /\ polled' = Recent
  /\ UNCHANGED <<is, said, framed, template, seen, handed, notified, told, old, chatFaults>>

\* pollShopHttpMessages, with what has been told and what has aged by now
PollEnds ==
  /\ polled # NotPolled /\ polled' = NotPolled
  /\ Emit({m \in {Message(i, "answer") : i \in FromAnswer(polled \ old)} : m.key \notin notified})
  /\ UNCHANGED <<is, said, framed, template, notified, told, old, chatFaults>>

PollFails ==
  /\ polled # NotPolled /\ polled' = NotPolled
  /\ ChatFault
  /\ UNCHANGED <<is, said, framed, template, seen, handed, notified, told, old>>

Grows(i) ==
  /\ i \in said \ old
  /\ old' = old \cup {i}
  /\ UNCHANGED <<is, said, framed, template, polled, seen, handed, notified, told, chatFaults>>

\* startQianfanMessageListener forgets what was seen; what is on its way goes on.
ListenerRestarts ==
  /\ ChatFault
  /\ seen' = {} /\ polled' = NotPolled /\ template' = FALSE
  /\ UNCHANGED <<is, said, framed, handed, notified, told, old>>

\* handleBuyerMessage and the notifier: one message of a key is told.
Tell(m) ==
  /\ m \in handed /\ handed' = handed \ {m}
  /\ notified' = notified \cup {m.key}
  /\ told' = IF m.key \in notified THEN told ELSE [told EXCEPT ![m.item] = @ + 1]
  /\ UNCHANGED <<is, said, framed, template, polled, seen, old, chatFaults>>

TellFails(m) ==
  /\ m \in handed /\ handed' = handed \ {m}
  /\ ChatFault
  /\ UNCHANGED <<is, said, framed, template, polled, seen, notified, told, old>>

ChatNext ==
  \/ \E i \in Item : Say(i) \/ Grows(i)
  \/ \E some \in SUBSET (said \ framed) \ {{}} : Frame(some) \/ FrameLost(some)
  \/ PageRequests \/ PollStarts \/ PollEnds \/ PollFails
  \/ ListenerRestarts
  \/ \E m \in handed : Tell(m) \/ TellFails(m)

\* Polls are started by a timer, what is handed over is worked off.
ChatFairness ==
  /\ WF_chatVars(PollStarts) /\ WF_chatVars(PollEnds)
  /\ WF_chatVars(\E m \in handed : Tell(m))

(***************************************************************************)
(* Properties                                                              *)
(***************************************************************************)
\* Types, and that nothing but what a buyer said is handed on.
ChatTypeOK ==
  /\ is \in [Item -> Traits]
  /\ said \subseteq Item /\ framed \subseteq said /\ old \subseteq said
  /\ template \in BOOLEAN /\ (polled = NotPolled \/ polled \subseteq said)
  /\ notified \cup {m.key : m \in handed} \subseteq {Key(i, way) : i \in said, way \in {"frame", "answer"}}
  /\ {m.item : m \in handed} \subseteq {i \in said : is[i].by = "CUSTOMER"}
  /\ told \in [Item -> 0..2] /\ chatFaults \in 0..MaxChatFaults

\* What the receivers are told was said by a buyer, and they are told once,
\* whether frames, the page's requests, polls or all of them bring it, however
\* restarts and failed notices fall between them.  An item without an id is
\* told once per way if its frames have a time of their own.
ToldBuyersOnce ==
  \A i \in Item : told[i] > 0 =>
    is[i].by = "CUSTOMER" /\ told[i] <= IF is[i].id = 0 /\ is[i].stamped THEN 2 ELSE 1

\* What a buyer said, of which nobody was told yet, while a poll could find it.
Missed(i) ==
  /\ i \in said \ old /\ is[i].by = "CUSTOMER" /\ is[i].says # "status" /\ template
  /\ {Key(i, "answer"), Key(i, "frame")} \cap notified = {}

\* As long as the page's request can be repeated, polls find what a buyer said,
\* though its frame was lost, not understood, or its notice failed: he is told
\* to the receivers, or an item of the same key, unless ten minutes pass first.
MissedIsFound == \A i \in Item : []<>~Missed(i)
=============================================================================
