\* A session that ends without a save() after a rescan, and is loaded again.
SPECIFICATION SessionSpec
CONSTANTS
  Word = 8
  MaxPages = 1
  MaxHistory = 1
  MaxRecords = 3
  Extents = {1}
  Degrees = {}
  Crops <- NoCrops
  Tones = {}
  MaxRevision = 3
  MaxEdits = 2
  MaxSaves = 1
  MaxCorruptions = 0
  SavesOfEdits = 1
  PagesOfSaves = 1
  EditsOfSaves = 2
INVARIANT RescanNotBlocked
CHECK_DEADLOCK FALSE
