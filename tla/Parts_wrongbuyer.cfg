SPECIFICATION Spec
CONSTANTS
  b1 = b1  b2 = b2  b3 = b3  r1 = r1  NoConv = NoConv
  plain = plain  xy = xy  NoShop = NoShop
  t1 = t1  t2 = t2  NoChat = NoChat
  q1 = q1  q2 = q2  c1 = c1  c2 = c2  u1 = u1  e1 = e1  e2 = e2  None = None
  Followed = {"replies"}
  Conv = {b1, b2}  Nick <- MCNick  Receiver = {r1}
  Modes = {"whole"}
  MaxNotice = 2  MaxReply = 1  MaxAccidents = 3  Lists = {{b2}}
  Chats = {b1, b2, b3}  Own = b1  Alike = {b1, b3}  Answered = {t1, t2}
  ChatOf <- MCChatOf  MaxUiActs = 1
  Shops <- MCShops  Within <- MCWithin  Order <- MCOrder  Length <- MCLength
  JobIds = {1}  MaxVersion = 1  MaxCookieEvents = 0
  Calls = {q1, q2}  Clients = {c1, c2}  Urls = {u1}  Editors = {e1, e2}
  MaxChanges = 3  MaxEvents = 2
  WATCHDOG_NORMAL_MS = 3  WATCHDOG_WARN_MS = 5  heartbeatTimeoutMs = 4
  MaxSilence = 6  MaxRecent = 2  MaxHomeEvents = 1
  d1 = d1  d2 = d2  d3 = d3  o1 = o1  o2 = o2  o3 = o3
  Orders = {o1, o2, o3}  Start <- MCStart  Limit = 1  MaxPages = 3  Runners = {1, 2}
  Filters <- MCFilters  MaxNew = 1  MaxSearch = 2
  Dialogs = {d1, d2, d3}  DialogBuyer <- MCDialogBuyer  DialogShop <- MCDialogShop
  Part <- MCPart  Family <- MCFamily  Nobody = Nobody  NoDialog = NoDialog  OnlyNicks = {Nobody}
  Callers = {1, 2}  MaxAsked = 2  MaxRecorded = 1
  CallKinds = {"GetFriendInfo", "SendImageMessage"}
  k1 = k1  k2 = k2  k3 = k3  jade = jade
  Stores <- MCStores  NoStore = NoStore  Akin <- MCAkin  Brand <- MCBrand  StoreOf <- MCStoreOf
  Talks = {k1, k2, k3}  NoTalk = NoTalk  Tests = {k1}  Familiar = {k1, k3}
  Lines = 2  MaxCaptured = 3  MaxExports = 2  MaxSetup = 3
INVARIANT SentToMeant
CHECK_DEADLOCK FALSE
