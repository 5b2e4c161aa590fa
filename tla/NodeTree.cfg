\* A tree of three levels with an empty leaf, or an empty leaf; two keys of one size.
SPECIFICATION TreeSpec
CONSTANTS
  Key <- MCKey
  Value = {"v"}
  KeySize <- MCKeySize
  NoKey = 0
  NoValue = ""
  PageId = {3, 4, 5, 6, 7, 8}
  RootPages = {3, 8}
  PageAt <- MCPageAt
  MaxNodes = 4
  MaxInodes = 3
  MaxCalls = 4
  MinKeys = 1
INVARIANTS
  TreeLinked
  SiblingsAdjacent
  KeysAscend
PROPERTY
  ImplementsKeyMap
