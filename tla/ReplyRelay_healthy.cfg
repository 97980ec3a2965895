SPECIFICATION FairSpec
CONSTANTS
  a1 = a1  a2 = a2  a3 = a3
  m1 = m1  m2 = m2
  k1 = k1
  Attempt = {a1, a2, a3}
  Msg = {m1, m2}
  Key = {k1}
  MsgOf <- RedeliveredMsgOf
  KeyOf <- OneKey
  Req = 1
  SendMax = 1
  TTL = 3
  MaxCrash = 0
  Prompt = TRUE
INVARIANTS
  AckedOnce
  DroppedHasOriginal
PROPERTIES
  EveryReplyEnds
