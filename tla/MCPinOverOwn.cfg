CONSTANTS
  PortName <- MCPortName
  Rank <- MCRank
  Ssh = "ssh"
  LocalNames <- MCLocalNames
  LocalPortCount = 1
  PortMin = 31
  PortMax = 32
  LocalPortMin = 90
  LocalPortSearchSpan = 1
  Runtimes <- OnlyA
  Declared = {}
  HostMounts = {}
  Images = {"i"}
  NoVolume = NoVolume
  Unlabelled = Unlabelled
  HostPorts <- MCHostPorts
  Specs <- OntoItsOwn
  Legacy = {}
  Workers = 1
  May = {"declare", "edit"}
  MaxMoves = 2
  MaxFaults = 0
SPECIFICATION FairSpec
PROPERTIES Settles
CHECK_DEADLOCK FALSE
