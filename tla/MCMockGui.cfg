\* Two listed pages at most, so that a batch of two may fail at its second page;
\* exports of up to three pages, two in a row, beside one file of another program.
SPECIFICATION GuiSpec
CONSTANTS
  Points = {0, 1, 3, 4, 6, 10, 14, 15}
  Layouts <- TwoLayouts
  Extent = 4
  MaxPages = 2
  Word = 64
  Nowhere = Nowhere
  Stem = {"document"}
  MaxExportPages = 3
  RenameReplaces = FALSE
  MaxExports = 2
  MaxForeign = 1
  Masters <- MCMasters
  Tones <- MCTones
  MaxSample = 255
INVARIANTS
  ListShowsPages
  SelectionNeedsPrescan
  ExportsAreWhole
  RenderIsExact
PROPERTIES
  DragStaysInside
  NeverReplaces
