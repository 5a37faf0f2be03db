SPECIFICATION Spec
CONSTANTS
  head = head
  null = null
  Level = 2
  Keys <- PlainKeys
  Values = {5, 20}
  Mangled = {5}
  BlockSize = 0
INVARIANTS
  TypeOK
  LevelsNested
  NoDangling
  SizeRecorded
PROPERTIES
  ImplementsKeyMap
