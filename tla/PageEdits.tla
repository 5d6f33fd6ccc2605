----------------------------- MODULE PageEdits -----------------------------
(* The rules of ScanSession's page edits (src/src/scanner_core.cpp) that its *)
(* callers meet. A crop is an offset and an extent on one axis.              *)
EXTENDS Integers, MachineWords

NoCrop == [offset |-> 0, extent |-> 0]

\* A mutant: the subtraction is not guarded.
CropFitsUnguarded(crop, extent) ==
  /\ crop.extent # 0
  /\ crop.extent <= Minus(extent, crop.offset)

\* The crop checks of set_crop() and validate_page(), which subtract unsigned words.
CropFits(crop, extent) ==
  /\ crop.extent # 0
  /\ crop.offset <= extent
  /\ crop.extent <= Minus(extent, crop.offset)

\* A crop has a pixel, and its last one is one of the image.
CropInside(crop, extent) == crop.extent >= 1 /\ crop.offset + crop.extent <= extent

\* What rotate() accepts, and what it makes of a page's rotation.
Turns == {90, 180, 270}

Turned(rotation, degrees) == (rotation + degrees) % 360
=============================================================================
