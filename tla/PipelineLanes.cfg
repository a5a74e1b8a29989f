SPECIFICATION HungBodySpec
CONSTANTS
  i1 = i1
  i2 = i2
  i3 = i3
  k1 = k1
  Ids = {i1, i2, i3}
  Keys = {k1}
  Lanes = {"s1", "server"}
  ServerLane = "server"
  Fingerprints = {"fpA", "fpB"}
  NoId = NoId
  NoKey = NoKey
  NoCommand = NoCommand
  Commands <- LaneCommands
  MaxRequests = 3
  MaxInFlight = 2
  MaxOutcomes = 2
  JournalMayFail = FALSE
  MayShutDown = TRUE
INVARIANT TypeOK
INVARIANT LaneSerial
INVARIANT AbortHitsOnlyExpired
PROPERTY TimedAnswered
