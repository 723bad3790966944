SPECIFICATION FairSpec
CONSTANTS
  Pipelines = {p1}
  Kinds <- AllKinds
  Replies = {"absent", "badargs", "norunner", "ok"}
  MaxStages = 3
INVARIANTS
  StagesOnceInOrder
  PipeCarriesItsFlag
  CompletedIsTrue
  OneAnswer
  DoneMeansAnswered
  NoStaleRunning
PROPERTIES
  ImplementsLifecycle
  StopEnds
