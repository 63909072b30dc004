CONSTANTS
  PortName <- MCPortName
  Rank <- MCRank
  Ssh = "ssh"
  LocalNames <- MCLocalNames
  LocalPortCount = 1
  PortMin = 31
  PortMax = 32
  LocalPortMin = 90
  LocalPortSearchSpan = 1
  Runtimes <- MCRuntimes
  Declared = {}
  HostMounts = {}
  Images = {"i"}
  NoVolume = NoVolume
  Unlabelled = Unlabelled
  HostPorts <- MCHostPorts
  Specs <- MCSpecs
  Legacy = {}
  Workers = 1
  May = {"declare", "edit", "port"}
  MaxMoves = 4
  MaxFaults = 1
SPECIFICATION Spec
PROPERTIES AddressesStay
CHECK_DEADLOCK FALSE
