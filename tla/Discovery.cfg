SPECIFICATION ScanSpec
CONSTANTS
  Host = {h1, h2}
  Ip = {ip1, ip2}
  Name = {n1}
  NoName = NoName
  MaxAnswers = 2
  MaxScans = 2
SYMMETRY Interchangeable
CHECK_DEADLOCK FALSE
INVARIANTS
  OneEntryPerIp
  HeardIsListed
  NameFollowsIp
