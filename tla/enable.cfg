SPECIFICATION Spec
CONSTANTS
  Procs = {p, q}
  Tool = vox
  Rules = {mcp, skill}
  Foreign = {bash}
  HostFiles <- MCHostFiles
  MaxCalls = 3
  MaxFaults = 2
  MaxEdits = 1
SYMMETRY Symmetric
INVARIANTS
  MarkerMeansImport
  GrantsRecorded
  ForeignSurvives
  OutcomeHonest
