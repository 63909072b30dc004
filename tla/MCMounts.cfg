CONSTANTS
  PortName <- MCPortName
  Rank <- MCRank
  Ssh = "ssh"
  LocalNames <- MCLocalNames
  LocalPortCount = 0
  PortMin = 31
  PortMax = 33
  LocalPortMin = 90
  LocalPortSearchSpan = 2
  Runtimes <- MCRuntimes
  Declared <- MCDeclared
  HostMounts <- MCHostMounts
  Images = {"i"}
  NoVolume = NoVolume
  Unlabelled = Unlabelled
  HostPorts <- MCHostPorts
  Desktop = TRUE
  MountWorkers = 1
  Specs <- MCSpecs
  Legacy = {}
  Workers = 1
  May = {"declare", "edit", "delete", "mount", "directory", "vanish", "prune"}
  MaxMoves = 3
  MaxFaults = 1
SPECIFICATION FairMountSpec
INVARIANTS MountTypeOK
PROPERTIES Settles DeletionCompletes Informs MountShown MountArrives ReadyIsBound
CHECK_DEADLOCK FALSE
