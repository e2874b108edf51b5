SPECIFICATION PSpec
CONSTANTS
  AssetSpan = 4
  AttrSpan = 16
  PropSpan = 8
  ValueSpan = 8
  Digest <- MCDigest
  Instances <- UpdateInstances
  NoIndex = NoIndex
  Indexes = {1, 7}
INVARIANTS
  AllItemsFound
