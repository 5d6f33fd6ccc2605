\* One decayed manifest, recovery from the backup, and a save().
SPECIFICATION SessionSpec
CONSTANTS
  Word = 8
  MaxPages = 1
  MaxHistory = 1
  MaxRecords = 3
  Extents = {1}
  Degrees = {}
  Crops <- NoCrops
  Tones = {}
  MaxRevision = 2
  MaxEdits = 2
  MaxSaves = 3
  MaxCorruptions = 1
  SavesOfEdits = 3
  PagesOfSaves = 1
  EditsOfSaves = 2
PROPERTY KeepsAManifest
CHECK_DEADLOCK FALSE
