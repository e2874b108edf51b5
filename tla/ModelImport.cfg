SPECIFICATION Spec
CONSTANTS
  Networks <- MCNetworks
  ExploitFiles <- MCExploitFiles
  NoFile = NoFile
  MaxRuns = 2
INVARIANTS
  TypeOK
  OneRun
  ReadAsWritten
  SharedNamesPooled
  WellFormedModel
