CONSTANTS
  Participant = {p0, p1, p2}
  Leader = p0
  r1 = r1
  r2 = r2
  Request = {r1, r2}
  CountOf <- SomeCounts
  MaxStops = 1
SPECIFICATION FairSpec
CHECK_DEADLOCK FALSE
INVARIANTS Consistent CommittedIsOnQuorum CommitFindsProposal
PROPERTIES IsSequencedLog AppendsReachRunningLogs
