--------------------------------- MODULE MCLoops ---------------------------------
(* The window with its starts, the messages of a shop's chats, the protocol       *)
(* daemon, and the client that sends over the protocol: each has loops of its own *)
(* that must come to an end, and they share no state; a behaviour follows one.    *)
EXTENDS Desk, ShopChat, ProtocolDaemon, ProtocolClient, TLC

CONSTANTS p1, p2, i1, i2, s1, m1, r1, r2

Said(by, mark, id, time) ==
  [by |-> by, mark |-> mark, wrapped |-> TRUE, conv |-> TRUE, id |-> id, at |-> time,
   stamped |-> FALSE, says |-> "words"]
MCTraits ==
  {Said("CUSTOMER", "typed", 1, 0), Said("CUSTOMER", "deep", 2, 1),
   [Said("CUSTOMER", "uid", 0, 1) EXCEPT !.stamped = TRUE],
   [Said("CUSTOMER", "bare", 0, 1) EXCEPT !.conv = FALSE, !.wrapped = FALSE],
   [Said("CUSTOMER", "typed", 3, 1) EXCEPT !.says = "status"],
   Said("CSA", "typed", 4, 0), Said("SYSTEM", "deep", 0, 2)}
MCShopOf == m1 :> s1
MCPlan == r1 :> <<"text">> @@ r2 :> <<"text", "image">>

VARIABLE followed
vars == <<deskVars, chatVars, daemonVars, clientVars, followed>>

Init ==
  /\ followed \in {"desk", "chat", "daemon", "client"}
  /\ DeskInit /\ (followed # "desk" => exe = {} /\ qianfan = "none" /\ notifiers)
  /\ ChatInit /\ is[i1].id >= is[i2].id      \* the other order adds nothing
  /\ (followed # "chat" => \A i \in Item : is[i] = CHOOSE t \in Traits : t.id = 0)
  /\ DaemonInit /\ ClientInit
Next ==
  \/ followed = "desk" /\ DeskNext /\ UNCHANGED <<chatVars, daemonVars, clientVars, followed>>
  \/ followed = "chat" /\ ChatNext /\ UNCHANGED <<deskVars, daemonVars, clientVars, followed>>
  \/ followed = "daemon" /\ DaemonNext /\ UNCHANGED <<deskVars, chatVars, clientVars, followed>>
  \/ followed = "client" /\ ClientNext /\ UNCHANGED <<deskVars, chatVars, daemonVars, followed>>
Spec ==
  Init /\ [][Next]_vars /\ DeskFairness /\ ChatFairness /\ DaemonFairness /\ ClientFairness

TypeOK == DeskTypeOK /\ ChatTypeOK /\ DaemonTypeOK /\ ClientTypeOK

(* What a buyer wrote is told once at most, and what is answered as sent the platform has taken. *)
MessagesSound == ToldOnce /\ OkWasTaken
=============================================================================
