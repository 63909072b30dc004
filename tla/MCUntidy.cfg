CONSTANTS
  PortName <- MCPortName
  Rank <- MCRank
  Ssh = "ssh"
  LocalNames <- MCLocalNames
  LocalPortCount = 0
  PortMin = 31
  PortMax = 33
  LocalPortMin = 90
  LocalPortSearchSpan = 2
  Runtimes <- MCRuntimes
  Declared <- MCDeclared
  HostMounts <- Untidy
  Images = {"i"}
  NoVolume = NoVolume
  Unlabelled = Unlabelled
  HostPorts <- MCHostPorts
  Desktop = FALSE
  MountWorkers = 1
  Specs <- OneSpec
  Legacy = {}
  Workers = 1
  May = {"declare", "mount"}
  MaxMoves = 2
  MaxFaults = 0
SPECIFICATION FairMountSpec
PROPERTIES MountArrives
CHECK_DEADLOCK FALSE
