CONSTANTS
  t1 = t1
  t2 = t2
  Threads = {t1, t2}
  Evictor = Evictor
  Keys = {1, 2}
  a = a
  b = b
  Tags = {a, b}
  AnyTag = AnyTag
  MaxBlocks = 3
  SharedKeys = {1}
  None = None
SPECIFICATION Spec
SYMMETRY StorageSymmetry
   
PROPERTY OwnDestruction
