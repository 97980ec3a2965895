SPECIFICATION Spec
CONSTANTS
  p1 = p1  p2 = p2  i1 = i1  i2 = i2
  Starts = {p1, p2}  AutoClose = TRUE  MaxActs = 3
  Item = {i1, i2}  Traits <- MCTraits  MaxChatFaults = 2
  s1 = s1  m1 = m1  r1 = r1  r2 = r2  NoMsg = NoMsg  NoOne = NoOne
  Shops = {s1}
  Msgs = {m1}
  ShopOf <- MCShopOf
  WorkerIds = {1, 2, 3}
  Patience = 2
  MaxOutside = 2
  Requests = {r1, r2}
  Plan <- MCPlan
  SocketIds = {1, 2, 3, 4}
  MaxFaults = 2
INVARIANTS TypeOK LiveIsListed MessagesSound KillsArePlain ToldBuyersOnce
PROPERTIES ShopComesBack EveryRequestEnds StartingEnds MissedIsFound
CHECK_DEADLOCK FALSE
