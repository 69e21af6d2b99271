SPECIFICATION Spec
CONSTANTS
  NoFloor = NoFloor
  NoSource = NoSource
  NoContract = NoContract
  Noise = {"new"}
  EnrichNoise = {"new"}
  MinLanguages = 2
  GateCandidates = {"ts"}
  PreferredReference <- SmallPreferred
  Ops = {"watch"}
  Generated = {"ts"}
  DartDirs = {"dart"}
  Rich = {"lock"}
  EditDecls <- SmallDecls
  EditLangs = {"dart", "shell"}
  ApiClientType = "FiduciaClient"
  EditWaivers <- SmallWaivers
  Commands <- SmallCommands
  InitialRepo <- SmallRepo
  MaxEdits = 2
  MaxDay = 2
INVARIANTS
  GreenClientsConform
  GreenIsCurrent
  PublishedIsComplete
  GeneratedConforms
PROPERTIES
  DerivedIsGreen
  DeletionTrips
CONSTRAINT DayMatters
CHECK_DEADLOCK FALSE
