SPECIFICATION Spec
CONSTANTS
  head = head
  null = null
  Level = 8
  Keys = {1, 2, 3, 4}
  Values = {20}
  Mangled = {}
  BlockSize = 352
INVARIANT FullCacheFitsBlock
