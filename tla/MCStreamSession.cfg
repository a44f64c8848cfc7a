SPECIFICATION Spec
CONSTANTS
  dataClient = dataClient
  seedClient = seedClient
  outClient = outClient
  secondData = secondData
  Clients = {dataClient, seedClient, outClient, secondData}
  Role <- MCRole
  None = None
  Hdr = 2
  BlkAmt = 3
  SockBuf = 4
  CmdLen = 1
  DataLen = 2
  SeedLen = 1
  OutLen = 4
  MinCmd = 1
  Garbage = {0}
  Fragments = {FALSE, TRUE}
  DryRuns = {FALSE, TRUE}
  MaxKills = 1
  NGen = 2
INVARIANTS
  TypeOK
  ReplyFitsRequest
  Lockstep
  NoSpontaneousExit
PROPERTIES
  RoundsComplete
  ServerEndStopsClients
  ClientEndStopsServer
  ImplementsStreamRounds
