\* The components that share no state, one after the other.
SPECIFICATION ServicesSpec
CONSTANTS
  stm32 = stm32
  esp32 = esp32
  Bits <- MCBits
  Sector = 2
  Sectors = 3
  File <- MCFile
  Wrong <- MCWrong
  MaxChunk = 2
  MaxCuts = 2
  \* the bridge: two bytes of room in either direction
  BridgeRing = 2
  \* the console: four bytes through a ring of two into lines of two, one switch or reset
  ConsoleRing = 2
  LineMax = 2
  ConsoleBytes = 4
  ConsoleTurns = 1
  \* the adapter: two networks, two configurations, five calls
  Ssids = {"a", "b"}
  Configs = {"dhcp", "static"}
  MaxCalls = 5
  \* the meter: frames of three bytes, a register of four values, a restart; the FRAM may fail
  FrameLen = 3
  Width = 4
  MeterFaults = {"fram"}
  MaxFrames = 4
  MeterCuts = 1
  \* the server: three requests of two clients; bodies and a dump of two pieces
  Clients = {"c1", "c2"}
  ServerSlots = {1, 2}
  BodyLimit = 2
  DumpSize = 2
  MaxRequests = 3
  \* the replays: three keys for two places
  ReplaySlots = {1, 2}
  ReplayKeys = {"a", "b", "c"}
  Hashes = {1, 2}
  Ttl = 3
  MaxReplayTime = 7
  MaxPause = 4
  \* the registry: two changes, two subscriptions, a restart; a save may fail
  SubSlots = {1, 2}
  SettingFaults = {"save"}
  MaxSets = 2
  MaxSubs = 2
  SettingBoots = 1
  \* the relays: a contact and a relay, three changes, and buffers for four messages
  Inputs = {"k1"}
  Outputs = {"r1"}
  Pool = 4
  MaxChanges = 3
  RelayBoots = 1
INVARIANTS
  LogIsComplete
  BytesAreCarried
  SubscribersAreTold
  MeterIsTrue
  InterfacesAreKnown
  RequestsAreKeptApart
  RetriesAreAnsweredAlike
PROPERTIES
  ImageIsTheFile
CHECK_DEADLOCK FALSE
