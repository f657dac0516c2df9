\* Two requests, a reconnect, an enquire_link, an alarm notifier, an SMSC that stops to read once.
SPECIFICATION Spec
CONSTANTS
  Requests = {r1, r2}
  NoOne = NoOne
  Task = Task
  HasNotifier = TRUE
  MaxSessions = 2
  MaxEnquires = 1
  MaxPeerMsgs = 0
  MaxStalls = 1
INVARIANTS
  TypeOK
  ResponseBelongsToRequest
  CallbackUnanswered
  WriterIsCurrent
  AlarmMatchesLink
PROPERTIES
  NoWriteWhileWaiting
  ImplementsExchange
SYMMETRY Symmetry
