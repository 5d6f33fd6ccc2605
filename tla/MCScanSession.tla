--------------------------- MODULE MCScanSession ---------------------------
(***************************************************************************)
(* Instances of ScanSession for TLC. A behaviour of SessionSpec either has  *)
(* the richer edits, of up to three pages, or more saves and a decaying     *)
(* manifest, with edits that change files.                                  *)
(***************************************************************************)
EXTENDS ScanSession

CONSTANTS
  SavesOfEdits,                  \* save() calls in a behaviour of edits
  PagesOfSaves, EditsOfSaves     \* pages and edits in a behaviour of saves

VARIABLE activity   \* which of the two this behaviour is

Crop(offset, extent) == [offset |-> offset, extent |-> extent]

\* A crop that fits both frames, one that fits the large frame only, an empty one,
\* one whose end lies outside, and one that begins outside.
SomeCrops == {Crop(0, 1), Crop(1, 1), Crop(1, 0), Crop(1, 2), Crop(3, 1)}

NoCrops == {}

Plain(page) == page.rotation = 0 /\ page.crop = NoCrop /\ page.tone = 0

SessionInit == Init /\ activity \in {"editing", "saving"}

SessionNext ==
  /\ Next
  /\ UNCHANGED activity
  /\ activity = "editing" => saves' <= SavesOfEdits /\ corruptions' = 0
  /\ activity = "saving" =>
       /\ edits' <= EditsOfSaves /\ Len(pages') <= PagesOfSaves
       /\ \A i \in DOMAIN pages' : Plain(pages'[i])

SessionSpec == SessionInit /\ [][SessionNext]_<<vars, activity>>
=============================================================================
