\* A preview that moves between the mouse's messages.
SPECIFICATION Spec
CONSTANTS
  Points = {0, 1, 3, 4, 6, 10, 14, 15}
  Layouts <- TwoLayouts
  Extent = 4
  MaxPages = 1
  Word = 64
  Nowhere = Nowhere
INVARIANT SelectionInside
