\* All commands and TLVs, streams of up to four messages, three handlers, three registrations.
CONSTANTS
    i1 = i1 i2 = i2 i3 = i3 g1 = g1 g2 = g2 g3 = g3
    MsgIds = {i1, i2, i3}
    Registrations = {g1, g2, g3}
    RegOf <- MCRegOf
    IdOfText <- MCIdOfText
    Scenes <- MCScenes
    Replies <- MCReplies
    Lifetime = 2
    CleanEvery = 1
    MaxTime = 4
    MaxPdus = 4
SPECIFICATION FairSpec
INVARIANTS TypeOK FramesIntact OkMeansAccepted OwedIsRegistered
PROPERTIES EverySettled
CHECK_DEADLOCK FALSE
