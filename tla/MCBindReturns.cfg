\* The SMSC accepts the TCP connection and closes it before it answers the bind.
SPECIFICATION FairSpec
CONSTANTS
  Requests = {r1}
  NoOne = NoOne
  Task = Task
  HasNotifier = TRUE
  MaxSessions = 1
  MaxEnquires = 0
  MaxPeerMsgs = 0
  MaxStalls = 0
PROPERTY BindReturns
