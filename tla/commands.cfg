SPECIFICATION Spec
CONSTANTS
  OwnerKeys = {"k1", "k2"}
  ToolNames = {"Bash", "Read"}
  ArgNames = {"to", "how"}
  Paths = {"a", "b"}
  Order <- MCOrder
  Recipes <- MCRecipes
  Listings <- MCListings
  MaxEdits = 2
  MaxSigns = 2
  MaxStarts = 2
  Servers = {"ethos"}
  EnvVars = {"token"}
  Binaries = {"fetch"}
  OutputCap = 1
  MaxOutput = 2
  Given <- MCGiven
  MaxStages = 1
INVARIANTS
  RunsAsSigned
  GreenLoads
  SignaturesExpire
  StageAnswerTrue
