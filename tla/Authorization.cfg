SPECIFICATION HarnessSpec
CONSTANTS
  UploadRetries = 2
  MaxFaults = 1
  TTL = 2
  MaxClock = 2
  MaxChanges = 1
  MaxSkips = 1
  ReloadActions = {"APPROVE"}
  Profiles <- MCProfiles
  InstructionDocs <- MCInstructionDocs
  PaymentDocs <- MCPaymentDocs
  Stores <- MCStores
  Admin <- MCAdmin
  DefaultSubmitter = "bob"
  BatchSize = 1
  MaxBatches = 1
  MaxMoves = 1
  MaxDocs = 3
INVARIANTS
  DenialExplained
  RecordedDecides
  CapabilitiesComplete
  EligibleAreAllowed
  EligibleIsFresh
  HealthyDecides
  PicksAccepted
  ApprovalsProgress
  TornDown
PROPERTY
  ReloadCompletes
