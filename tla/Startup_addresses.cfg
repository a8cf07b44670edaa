SPECIFICATION Spec
CONSTANTS
  Names <- MCNames
  Loopback <- MCLoopback
  LocalIp = "127.0.0.1"
  Ips <- MCIps
  Files <- MCFiles
  Off = "off"
INVARIANTS
  TypeOK
  AcceptedApiIsKnown
  LoggerFollowsFile
PROPERTY
  WorseInterfaceNeverMoves
