CONSTANTS
  PortName <- MCPortName
  Rank <- MCRank
  Ssh = "ssh"
  LocalNames <- MCLocalNames
  LocalPortCount = 0
  PortMin = 31
  PortMax = 33
  LocalPortMin = 90
  LocalPortSearchSpan = 2
  Runtimes <- MCRuntimes
  Declared <- MCDeclared
  HostMounts = {}
  Images = {"a", "b"}
  NoVolume = NoVolume
  Unlabelled = Unlabelled
  HostPorts <- MCHostPorts
  Specs <- MCSpecs
  Legacy = {}
  Workers = 2
  May = {"declare", "edit", "delete", "vanish", "prune", "beat"}
  MaxMoves = 4
  MaxFaults = 1
SPECIFICATION Spec
INVARIANTS TypeOK TeardownInv LeavesNothing ProvisionAroundBox OwnDisks
PROPERTIES DisksKept BeatKept KeepsContract
CHECK_DEADLOCK FALSE
