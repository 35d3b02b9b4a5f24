CONSTANTS
  r1 = r1
  r2 = r2
  Readers = {r1, r2}
  FileSize = 5
  Configs <- Settings
SPECIFICATION Spec
INVARIANTS    EntriesFollowLayout
