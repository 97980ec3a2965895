---------------------------- MODULE MCReplyRelay ----------------------------
(* Small instances of ReplyRelay: one reply text for one reply id.         *)
EXTENDS ReplyRelay

CONSTANTS a1, a2, a3, m1, m2, k1

\* The callback server delivers m1 twice, and the user types it again as m2.
RedeliveredMsgOf == [a \in {a1, a2, a3} |-> IF a = a3 THEN m2 ELSE m1]

\* Two messages with the same text.
RetypedMsgOf == [a \in {a1, a3} |-> IF a = a3 THEN m2 ELSE m1]

OneKey == [m \in {m1, m2} |-> k1]
=============================================================================
