SPECIFICATION FairSpec
CONSTANTS
  Search = {s1, s2}
  MaxQueue = 2
  MaxResults = 1
  MaxQueries = 2
  MaxPackets = 1
CHECK_DEADLOCK FALSE
PROPERTY QueriesEnd
