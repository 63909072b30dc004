CONSTANTS
  PortName <- MCPortName
  Rank <- MCRank
  Ssh = "ssh"
  LocalNames <- MCLocalNames
  LocalPortCount = 1
  PortMin = 31
  PortMax = 32
  LocalPortMin = 90
  LocalPortSearchSpan = 1
  Runtimes <- MCRuntimes
  Declared = {}
  HostMounts = {}
  Images = {"i"}
  NoVolume = NoVolume
  Unlabelled = Unlabelled
  HostPorts <- MCHostPorts
  Specs <- WithRuntimePort
  Legacy = {}
  Workers = 1
  May = {"declare"}
  MaxMoves = 1
  MaxFaults = 0
SPECIFICATION Spec
INVARIANTS PublishesWhatIsAsked
CHECK_DEADLOCK FALSE
