CONSTANTS
  PortName <- MCPortName
  Rank <- MCRank
  Ssh = "ssh"
  LocalNames <- MCLocalNames
  LocalPortCount = 0
  PortMin = 31
  PortMax = 33
  LocalPortMin = 90
  LocalPortSearchSpan = 2
  Runtimes <- MCRuntimes
  Declared <- MCDeclared
  HostMounts = {}
  Images = {"a", "b"}
  NoVolume = NoVolume
  Unlabelled = Unlabelled
  HostPorts <- MCHostPorts
  Specs <- OneSpec
  Legacy <- MCRuntimes
  Workers = 1
  May = {"delete"}
  MaxMoves = 1
  MaxFaults = 1
SPECIFICATION Spec
INVARIANTS NoDiskLeft
CHECK_DEADLOCK FALSE
