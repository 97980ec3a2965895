------------------------------- MODULE SendSlot -------------------------------
(***************************************************************************)
(* What the reply chain promises for one (replyId, text): a slot that at   *)
(* most one attempt holds, and a verdict that changes only while nobody    *)
(* holds it, except that the holder may open it.                           *)
(***************************************************************************)
CONSTANTS Attempt, Key, Nobody

VARIABLES holder, verdict

slotVars == <<holder, verdict>>

Verdict == {"none", "pending", "sent", "failed"}

Init ==
  /\ holder = [k \in Key |-> Nobody]
  /\ verdict = [k \in Key |-> "none"]

Take(k, a) ==
  /\ holder[k] = Nobody
  /\ holder' = [holder EXCEPT ![k] = a]
  /\ UNCHANGED verdict

\* A request the holder gave up waiting for may still open the verdict, but
\* a verdict of "sent" is never opened again.
Open(k) ==
  /\ verdict[k] # "sent"
  /\ verdict' = [verdict EXCEPT ![k] = "pending"]
  /\ UNCHANGED holder

Judge(k, v) ==
  /\ holder[k] = Nobody
  /\ verdict[k] # "none"
  /\ verdict' = [verdict EXCEPT ![k] = v]
  /\ UNCHANGED holder

\* Several holders may lose their slots at once, when a worker dies.
Leave(keys) ==
  /\ holder' = [k \in Key |-> IF k \in keys THEN Nobody ELSE holder[k]]
  /\ UNCHANGED verdict

Next ==
  \/ \E k \in Key : \/ \E a \in Attempt : Take(k, a)
                    \/ Open(k)
                    \/ \E v \in {"sent", "failed"} : Judge(k, v)
  \/ \E keys \in SUBSET Key : Leave(keys)

Spec == Init /\ [][Next]_slotVars
=============================================================================
