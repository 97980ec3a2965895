SPECIFICATION FairSpec
CONSTANTS
  listener = listener
  reply = reply
  Worker <- BothWorkers
  QianfanOrder <- OneListener
  WechatOrder <- OneWechat
  MaxRestarts = 2
  Command <- AnyCommand
  MaxFault = 2
  MaxCommand = 2
INVARIANTS TypeOK OneProcess NoneForgotten
PROPERTIES Recovers StopEndsIfArmed
CHECK_DEADLOCK FALSE
