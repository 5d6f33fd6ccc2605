\* Every editing call on up to three pages; crashes and failures between the steps
\* of save(), and one decayed manifest.
SPECIFICATION SessionSpec
CONSTANTS
  Word = 8
  MaxPages = 3
  MaxHistory = 2
  MaxRecords = 3
  Extents = {1, 2}
  Degrees = {0, 270}
  Crops <- SomeCrops
  Tones = {100, 101}
  MaxRevision = 3
  MaxEdits = 5
  MaxSaves = 3
  MaxCorruptions = 1
  SavesOfEdits = 1
  PagesOfSaves = 2
  EditsOfSaves = 4
INVARIANTS
  HistoryComplete
  IdsAreDense
  ManifestsLoad
  CrashKeepsCommitted
  RecoversPublished
  PagesMatchMasters
PROPERTY MastersImmutable
CHECK_DEADLOCK FALSE
