SPECIFICATION Spec
CONSTANTS
  Networks <- MCNetworks
  ExploitFiles <- MCExploitFiles
  NoFile = NoFile
  MaxRuns = 1
INVARIANTS
  GrammarAccepted
