CONSTANTS
  Keys = {10, 11, 12, 20, 21}
  BytesOf <- Bytes
  Tags = {1, 2}
  NoTag = 0
  End = End
  SizeLimit = 16
  Configs <- AllSettings
SPECIFICATION Spec
INVARIANTS PolicyTracksEntries UsedBytesExact WithinBudget
PROPERTIES NoNeedlessEviction ClockSparesReferenced
