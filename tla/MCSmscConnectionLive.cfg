\* Two requests and a deliver_sm or enquire_link of an SMSC that stops to read twice, on one TCP connection.
SPECIFICATION FairSpec
CONSTANTS
  Requests = {r1, r2}
  NoOne = NoOne
  Task = Task
  HasNotifier = FALSE
  MaxSessions = 1
  MaxEnquires = 0
  MaxPeerMsgs = 1
  MaxStalls = 2
PROPERTIES
  EveryRequestEnds
