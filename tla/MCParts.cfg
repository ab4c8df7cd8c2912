SPECIFICATION MCSpec
CONSTANTS
  MaxNode = 2
  NoName = ""
  Parent <- OnePage
  Looks <- FieldsetLooks
  Urls = {"u", "v"}
  Values = {"old", "new"}
  Limit = 2
  MaxCounter = 4
  Written <- CapabilitySets
  Builds = {"production", "development"}
  MaxRenders = 6
  MaxAttempts = 2
  Nothing = Nothing
  Providers = {p1, p2}
  Snapshots = {"disconnected", "connected"}
  RetainedCalls = 1
  MaxChannels = 2
  CallsBound = 2
  NoChannel = NoChannel
  Stranger = Stranger
  MaxConns = 2
  MaxTickets = 2
  TabIds = {i}
  NoTab = NoTab
  Callers = {r1}
  Pages = {p1}
  MaxTurns = 2
  MaxBroken = 1
  ResetsAgain = FALSE
  MaxRounds = 1
  CallsPerReply = 1
  MaxCalls = 3
  Names <- ClashingNames
  Serves <- GrowingTools
  ApiName <- OneApiName
  Handlers = {c1, c2, c3}
  Deferred = {c3}
  MaxSubs = 2
  Prompts = {c1, c2, c3}
  Nobody = Nobody
  Catalog <- PanelCatalog
  Fields <- PanelFields
  Secret = "initial_password"
  Contents = {"x"}
  Blank = ""
  Batches <- PanelBatches
  BoardCalls = {c1}
  MaxPanels = 2
  MaxMinted = 3
  MaxAccounts = 1
INVARIANTS
  TypesOK
  WaitersAreServed
  EveryCallAnswered
  TranscriptTellsTheTurn
  ReportedIsShown
  WellPaired
  ExactlyOnceInOrder
  ResolvesAsTold
  AuthorityAsWritten
  SettlesAsWritten
  PanelTellsTheTruth
PROPERTIES
  ApprovedAsShown
  BoardToldTruly
  NobodyKeptWaiting
  EveryTurnEnds
  EveryWaiterSettles
CHECK_DEADLOCK FALSE
