CONSTANTS
  PortName <- MCPortName
  Rank <- MCRank
  Ssh = "ssh"
  LocalNames <- MCLocalNames
  LocalPortCount = 0
  PortMin = 31
  PortMax = 33
  LocalPortMin = 90
  LocalPortSearchSpan = 2
  Runtimes <- MCRuntimes
  Declared <- CollidingDeclared
  HostMounts = {}
  Images = {"a", "b"}
  NoVolume = NoVolume
  Unlabelled = Unlabelled
  HostPorts <- MCHostPorts
  Specs <- CollidingSpecs
  Legacy = {}
  Workers = 1
  May = {"declare"}
  MaxMoves = 2
  MaxFaults = 0
SPECIFICATION Spec
INVARIANTS OwnDisks
CHECK_DEADLOCK FALSE
