SPECIFICATION Spec
CONSTANTS
  AssetSpan = 65536
  AttrSpan = 4096
  PropSpan = 1024
  ValueSpan = 65536
  Digest <- MCDigest
  Instances <- AllInstances
INVARIANTS
  TypeOK
  OneNodePerHash
  OldestFirst
  EdgesSound
  NothingMissed
  ShortestFirst
  OneEdgePerMove
  EdgesFaithful
  MergeSound
