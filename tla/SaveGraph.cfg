SPECIFICATION Spec
CONSTANTS
  AssetSpan = 4
  AttrSpan = 4
  PropSpan = 4
  ValueSpan = 4
  Graphs <- MCGraphs
INVARIANTS
  TypeOK
  EdgesWithBindings
  FirstEdges
  SavedInOrder
  DrawnFaithful
PROPERTIES
  ImplementsGraphStore
  Completes
