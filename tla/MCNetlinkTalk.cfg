CONSTANTS
  Indexes <- MCIndexes
  Addrs <- MCAddrs
  MaxCalls = 3
  MaxOthers = 2
  CmdPid = 7
  Origins = {0, 9}
SPECIFICATION Spec
INVARIANTS OkMeansApplied ListenerHearsOthers
PROPERTIES TalkReturns
