CONSTANTS
  PortName <- MCPortName
  Rank <- MCRank
  Ssh = "ssh"
  LocalNames <- MCLocalNames
  LocalPortCount = 1
  PortMin = 31
  PortMax = 34
  LocalPortMin = 90
  LocalPortSearchSpan = 1
  Runtimes <- MCRuntimes
  Declared = {}
  HostMounts = {}
  Images = {"i"}
  NoVolume = NoVolume
  Unlabelled = Unlabelled
  HostPorts = {31, 50}
  Specs <- PinnedSpecs
  Legacy = {}
  Workers = 1
  May = {"declare", "edit", "delete", "stop", "port"}
  MaxMoves = 4
  MaxFaults = 1
SPECIFICATION FairSpec
INVARIANTS PortsApart PublishesWhatIsAsked ReplacedForAReason
PROPERTIES AddressesStayUnbroken Settles
CHECK_DEADLOCK FALSE
