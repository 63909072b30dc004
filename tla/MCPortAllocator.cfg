CONSTANTS
  PortName <- MCPortName
  Rank <- MCRank
  Ssh = "ssh"
  LocalNames <- MCLocalNames
  LocalPortCount = 2
  PortMin = 31
  PortMax = 33
  LocalPortMin = 90
  LocalPortSearchSpan = 2
  PortLists <- MCPortLists
  LabelMaps <- MCLabelMaps
  OthersChoices <- MCOthers
  BusyChoices <- MCBusy
SPECIFICATION Spec
INVARIANTS TypeOK MatchesReference NeverAnothersNumber DistinctNumbers
CHECK_DEADLOCK FALSE
