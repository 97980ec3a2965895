-------------------------------- MODULE ShopUi --------------------------------
(***************************************************************************)
(* What the bot does by hand in the page of a shop, where staff and user   *)
(* work too.                                                               *)
(*                                                                         *)
(*   finalizeSendAfterAck  after a text was answered, and without a lock:  *)
(*       the page is told of the text by the frames a phone would cause,   *)
(*       the chat is opened anew, which makes the page load it, and marked *)
(*       as read; the sender does not wait for any of this                 *)
(*   sendBuyerTextViaUi  ShopSend's probe: open the chat of the shop's own *)
(*       buyer, type a word into the page's input, press send              *)
(*                                                                         *)
(* Both run as scripts in the page.  A script that opens a chat clicks     *)
(* another one first and pauses between its clicks; it goes on in the page *)
(* when the bot has stopped waiting for it.                                *)
(***************************************************************************)
EXTENDS Integers

CONSTANTS
  Chats,     \* chats of the shop's page
  Own,       \* the chat of the buyer that probes are meant for
  Alike,     \* chats whose row begins with that buyer's name
  Answered,  \* texts to buyers that were, or will be, answered
  ChatOf,    \* the chat of a text
  NoChat,
  MaxUiActs  \* bound: clicks of the user and loads of the page

ASSUME ShopUiAssumption ==
  /\ Own \in Alike /\ Alike \subseteq Chats /\ NoChat \notin Chats
  /\ ChatOf \in [Answered -> Chats] /\ MaxUiActs \in Nat

VARIABLES
  rowsShown,   \* chats whose rows the page shows
  current,     \* the chat that is open
  goals,       \* chats somebody wanted open
  draft,       \* the chat in whose input the probe was typed
  carries,     \* the page has one input for all chats
  chain,       \* triggerNativeSyncAfterAck for a text
  clicks,      \* scripts that open the chat of a text
  prober,      \* the script of a probe
  disturbed,   \* somebody clicked while a probe was under way
  probedChats, \* chats the probe was sent to, and whether nobody clicked meanwhile
  uiActs

clickVars == <<current, goals, draft, disturbed>>
syncVars == <<chain, clicks>>
probeVars == <<prober, probedChats>>
uiVars == <<rowsShown, carries, clickVars, syncVars, probeVars, uiActs>>

UiInit ==
  /\ rowsShown \in SUBSET Chats /\ carries \in BOOLEAN
  /\ current = NoChat /\ goals = {} /\ draft = NoChat /\ disturbed = FALSE
  /\ chain = [a \in Answered |-> "unanswered"]
  /\ clicks = [a \in Answered |-> "none"]
  /\ prober = "none" /\ probedChats = {} /\ uiActs = 0

Probing == prober # "none"

\* A click on the row of a chat opens it; an input of its own keeps its draft.
Opens(c) ==
  /\ current' = c
  /\ draft' = IF carries /\ draft # NoChat THEN c ELSE draft

ChainGoes(a, to) == chain' = [chain EXCEPT ![a] = to]

(***************************************************************************)
(* The user and the page                                                   *)
(***************************************************************************)
UiAct == uiActs < MaxUiActs /\ uiActs' = uiActs + 1

UserOpens(c) ==
  /\ c \in rowsShown /\ UiAct
  /\ Opens(c) /\ goals' = goals \cup {c}
  /\ disturbed' = (disturbed \/ Probing)
  /\ UNCHANGED <<rowsShown, carries, syncVars, probeVars>>

\* Scripts end with the page they run in, and the bot's calls of them fail.
PageLoads ==
  /\ UiAct
  /\ current' = NoChat /\ draft' = NoChat /\ UNCHANGED <<goals, disturbed>>
  /\ clicks' = [a \in Answered |-> "none"]
  /\ chain' = [a \in Answered |-> IF chain[a] = "opening" THEN "read" ELSE chain[a]]
  /\ prober' = "none"
  /\ UNCHANGED <<rowsShown, carries, probedChats>>

(***************************************************************************)
(* finalizeSendAfterAck and triggerNativeSyncAfterAck                      *)
(***************************************************************************)
\* fetchMessageListViaPage, the only call whose failure ends the chain; then
\* buildSyncUnreliableFrames and dispatchSyncFrames give the page's sockets the
\* frames of the text, as far as they work.
Announces(a) ==
  /\ chain[a] = "unanswered"
  /\ ChainGoes(a, "open") \/ ChainGoes(a, "over")
  /\ UNCHANGED <<rowsShown, carries, clickVars, clicks, probeVars, uiActs>>

\* A row is found by the id of its chat; without an id, by the beginning of what
\* it shows.
RowOfChat(c) == rowsShown \cap {c}
RowsOfName == rowsShown \cap Alike

\* reselectConversation begins with a row of another chat, if there is one.
ClicksAway(c) ==
  IF rowsShown = {c} THEN Opens(c) ELSE \E other \in rowsShown \ {c} : Opens(other)

OpensAnew(a) ==
  /\ chain[a] = "open"
  /\ IF RowOfChat(ChatOf[a]) # {}
     THEN /\ ChainGoes(a, "opening") /\ clicks' = [clicks EXCEPT ![a] = "away"]
          /\ ClicksAway(ChatOf[a]) /\ goals' = goals \cup {ChatOf[a]}
          /\ disturbed' = (disturbed \/ Probing)
     ELSE ChainGoes(a, "read") /\ UNCHANGED <<clickVars, clicks>>
  /\ UNCHANGED <<rowsShown, carries, probeVars, uiActs>>

\* (mutant) the second click is lost
ClickLost(c) == UNCHANGED <<current, draft>>

\* ... and ends with the row it was called for.
ClicksBack(c) == Opens(c)

ScriptEnds(a) ==
  /\ clicks[a] = "away" /\ clicks' = [clicks EXCEPT ![a] = "none"]
  /\ ClicksBack(ChatOf[a])
  /\ disturbed' = (disturbed \/ Probing)
  /\ chain' = [chain EXCEPT ![a] = IF @ = "opening" THEN "read" ELSE @]
  /\ UNCHANGED <<goals, rowsShown, carries, probeVars, uiActs>>

\* CDP_EVAL_DEFAULT_MS: the script goes on in the page.
OpeningTimesOut(a) ==
  /\ chain[a] = "opening" /\ ChainGoes(a, "read")
  /\ UNCHANGED <<rowsShown, carries, clickVars, clicks, probeVars, uiActs>>

\* The second frame once more, buildReadFromOneFrame over the page's socket,
\* the lists by HTTP again, and a look at what the page shows by now.
Reads(a) ==
  /\ chain[a] = "read" /\ ChainGoes(a, "over")
  /\ UNCHANGED <<rowsShown, carries, clickVars, clicks, probeVars, uiActs>>

(***************************************************************************)
(* sendBuyerTextViaUi: reselectConversation by the buyer's name,           *)
(* setInputText, safeClick on the send button or pressEnter                *)
(***************************************************************************)

\* Without a row of the buyer's name the script goes on to type all the same.
ProbeStarts ==
  /\ ~Probing /\ disturbed' = FALSE
  /\ IF RowsOfName # {}
     THEN prober' = "away" /\ (\E other \in rowsShown : Opens(other)) /\ UNCHANGED goals
     ELSE prober' = "typing" /\ UNCHANGED <<current, draft, goals>>
  /\ UNCHANGED <<rowsShown, carries, syncVars, probedChats, uiActs>>

ProbePicks ==
  /\ prober = "away" /\ prober' = "typing"
  /\ \E c \in RowsOfName : ClicksBack(c) /\ goals' = goals \cup {c}
  /\ UNCHANGED <<disturbed, rowsShown, carries, syncVars, probedChats, uiActs>>

\* No chat, no input.
ProbeTypes ==
  /\ prober = "typing"
  /\ IF current = NoChat THEN prober' = "none" /\ UNCHANGED draft
                         ELSE prober' = "pressing" /\ draft' = current
  /\ UNCHANGED <<current, goals, disturbed, rowsShown, carries, syncVars, probedChats, uiActs>>

ProbePresses ==
  /\ prober = "pressing" /\ prober' = "none"
  /\ probedChats' = IF draft # current THEN probedChats
                    ELSE probedChats \cup {[chat |-> current, alone |-> ~disturbed]}
  /\ draft' = IF draft = current THEN NoChat ELSE draft
  /\ UNCHANGED <<current, goals, disturbed, rowsShown, carries, syncVars, uiActs>>

\* The chain runs detached from the send, and beside that of the next text.
FinalizeSendAfterAck(a) ==
  \/ Announces(a) \/ OpensAnew(a) \/ ScriptEnds(a)
  \/ OpeningTimesOut(a) \/ Reads(a)

UiNext ==
  \/ \E c \in Chats : UserOpens(c)
  \/ PageLoads
  \/ \E a \in Answered : FinalizeSendAfterAck(a)
  \/ ProbeStarts \/ ProbePicks \/ ProbeTypes \/ ProbePresses

(***************************************************************************)
(* Properties                                                              *)
(***************************************************************************)
\* Types, and that the page is left at a chat somebody wanted open: however
\* scripts run over each other, outlive the bot's calls or are cut off, none
\* leaves it at a chat that was only clicked to make the page load another.
UiTypeOK ==
  /\ rowsShown \subseteq Chats /\ carries \in BOOLEAN /\ disturbed \in BOOLEAN
  /\ goals \subseteq Chats /\ {current, draft} \subseteq Chats \cup {NoChat}
  /\ chain \in [Answered -> {"unanswered", "open", "opening", "read", "over"}]
  /\ clicks \in [Answered -> {"none", "away"}]
  /\ prober \in {"none", "away", "typing", "pressing"}
  /\ probedChats \subseteq [chat : Chats, alone : BOOLEAN] /\ uiActs \in 0..MaxUiActs
  /\ prober # "away" /\ (\A a \in Answered : clicks[a] = "none") => current \in goals \cup {NoChat}

\* The probe is sent to nobody but the shop's own buyer, if the page shows his
\* row and no other that begins with his name, and nobody clicks in between,
\* neither the user nor the scripts of texts that were just answered.
ProbeReachesOwn ==
  RowsOfName = {Own} => \A p \in probedChats : p.alone => p.chat = Own
=============================================================================
