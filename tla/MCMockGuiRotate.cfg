\* One page, and the button pressed again and again.
SPECIFICATION Spec
CONSTANTS
  Points = {}
  Layouts <- OneLayout
  Extent = 4
  MaxPages = 1
  Word = 64
  Nowhere = Nowhere
PROPERTY RotateButtonTurns
