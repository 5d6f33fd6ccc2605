---------------------------- MODULE MockGuiPages ----------------------------
(***************************************************************************)
(* The pre-scan, selection and page-list part of src/src/mock_gui.cpp. One *)
(* action is one message handler of the UI thread. The scan session is     *)
(* what its calls do to the list of pages; the calls that write a file may *)
(* fail. Widths and heights, and so x and y, are treated alike: positions  *)
(* are taken on one axis.                                                  *)
(***************************************************************************)
EXTENDS PageEdits, Sequences, SequencesExt

CONSTANTS
  Points,     \* client positions of the mouse
  Layouts,    \* window sizes: where draw_interface puts the preview and fits the image
  Extent,     \* of every frame of the mock scanner
  MaxPages,   \* kMaxPages of the session
  Nowhere     \* no drag, no selected crop

ASSUME GuiAssumption ==
  /\ Points \subseteq Int
  /\ Layouts \subseteq [bounds : Int \X Int, fitted : Int \X Int]
  /\ \A l \in Layouts : l.bounds[1] < l.bounds[2] /\ l.fitted[1] < l.fitted[2]
  /\ Word \in Nat /\ Extent \in 1 .. Word - 1 /\ MaxPages \in Nat
  /\ Nowhere \notin Points /\ Nowhere \notin [offset : Int, extent : Int]

VARIABLES
  adf,         \* mode_combo shows the ADF mode
  prescanned,  \* prescan_frame is there
  crop,        \* selected_crop
  layout,      \* the size of the window
  rect,        \* preview_image_rect, as WM_PAINT left it
  drag,        \* drag_start while dragging, else Nowhere
  pages,       \* session->pages()
  labels,      \* the lines of page_list: pages as they were when they were listed
  selection,   \* its selected line, 0 for none
  shifted      \* history: rect has changed since the drag began

preview == <<prescanned, crop>>
mouse == <<drag, shifted>>
list == <<pages, labels, selection>>
vars == <<adf, preview, layout, rect, mouse, list>>

\* A page, as far as its line in the list shows it.
Page == [rotation : {0, 90, 180, 270}, cropped : BOOLEAN, included : BOOLEAN]

Init ==
  /\ adf = FALSE
  /\ prescanned = FALSE
  /\ crop = Nowhere
  /\ layout \in Layouts
  /\ rect = layout.bounds
  /\ drag = Nowhere
  /\ pages = << >> /\ labels = << >> /\ selection = 0
  /\ shifted = FALSE

Clamped(point, bounds) ==
  IF point < bounds[1] THEN bounds[1] ELSE IF point > bounds[2] THEN bounds[2] ELSE point

Lesser(a, b) == IF a < b THEN a ELSE b
Greater(a, b) == IF a > b THEN a ELSE b

-----------------------------------------------------------------------------
(* The preview and the mouse.                                              *)

Prescan ==
  /\ prescanned' = TRUE
  /\ crop' = [offset |-> 0, extent |-> Extent]
  /\ UNCHANGED <<adf, layout, rect, mouse, list>>

\* A mutant: the selected area of the earlier mode stays.
ChangeModeKeepsCrop ==
  /\ adf' \in BOOLEAN
  /\ prescanned' = FALSE
  /\ UNCHANGED <<crop, layout, rect, mouse, list>>

\* CBN_SELCHANGE of the mode; the keyboard reaches the list during a drag.
ChangeMode ==
  /\ adf' \in BOOLEAN
  /\ prescanned' = FALSE
  /\ crop' = Nowhere
  /\ UNCHANGED <<layout, rect, mouse, list>>

Resize ==
  /\ layout' \in Layouts
  /\ UNCHANGED <<adf, preview, rect, mouse, list>>

\* WM_PAINT, which is dispatched after every message that is already there.
Paint ==
  /\ rect' = IF prescanned THEN layout.fitted ELSE layout.bounds
  /\ shifted' = (shifted \/ (drag # Nowhere /\ rect' # rect))
  /\ UNCHANGED <<adf, preview, layout, drag, list>>

ButtonDown(point) ==
  /\ prescanned /\ ~adf
  /\ rect[1] <= point /\ point <= rect[2]
  /\ drag' = point
  /\ shifted' = FALSE
  /\ UNCHANGED <<adf, preview, layout, rect, list>>

\* The conversion of a floating-point value to std::uint32_t: of a negative one
\* it is undefined, and gives zero or wraps around.
ToWord(value) == IF value < 0 THEN {0, value % Word} ELSE {value % Word}

\* std::floor and std::ceil of a distance in the preview, scaled to the frame.
Floor(distance, width) == (distance * Extent) \div width

Ceiling(distance, width) == -((-distance * Extent) \div width)

\* finish_selection(): the part of the image between two positions.
Selections(left, right) ==
  LET width == rect[2] - rect[1]
      RightEdges == {Lesser(edge, Extent) : edge \in ToWord(Ceiling(right - rect[1], width))}
  IN  {[offset |-> x, extent |-> Greater(1, (edge - x) % Word)] :
         x \in ToWord(Floor(left - rect[1], width)), edge \in RightEdges}

\* A mutant: the mouse may leave the preview.
ButtonUpAnywhere(point) ==
  /\ drag # Nowhere
  /\ LET left == Lesser(drag, point)
         right == Greater(drag, point)
     IN  IF prescanned /\ right - left >= 4
         THEN crop' \in Selections(left, right)
         ELSE UNCHANGED crop
  /\ drag' = Nowhere
  /\ UNCHANGED <<adf, prescanned, layout, rect, shifted, list>>

\* WM_LBUTTONUP. What WM_MOUSEMOVE stores is overwritten here before it is read.
ButtonUp(point) ==
  /\ drag # Nowhere
  /\ LET end == Clamped(point, rect)
         left == Lesser(drag, end)
         right == Greater(drag, end)
     IN  IF prescanned /\ right - left >= 4
         THEN crop' \in Selections(left, right)
         ELSE UNCHANGED crop
  /\ drag' = Nowhere
  /\ UNCHANGED <<adf, prescanned, layout, rect, shifted, list>>

CaptureLost ==
  /\ drag # Nowhere
  /\ drag' = Nowhere
  /\ UNCHANGED <<adf, preview, layout, rect, shifted, list>>

-----------------------------------------------------------------------------
(* The pages and their list.                                               *)

\* refresh_page_list(): every page has its line, and the last one is selected.
ListRefreshed ==
  /\ labels' = pages'
  /\ selection' = Len(pages')

NewPage(cropped) == [rotation |-> 0, cropped |-> cropped, included |-> TRUE]

\* The pages a scan adds before it fails or ends: two from the feeder, else one,
\* for which set_crop() may refuse the selected area.
Added(count) ==
  /\ Len(pages) + count <= MaxPages
  /\ pages' = pages \o [i \in 1 .. count |-> NewPage(~adf /\ CropFits(crop, Extent))]

Batch == IF adf THEN 2 ELSE 1

Scan ==
  /\ prescanned /\ crop # Nowhere
  /\ Added(Batch)
  /\ ~adf => CropFits(crop, Extent)
  /\ ListRefreshed
  /\ UNCHANGED <<adf, preview, layout, rect, mouse>>

\* A scan that fails after some pages leaves them in the session, unlisted.
ScanFails ==
  /\ prescanned /\ crop # Nowhere
  /\ \E count \in 0 .. Batch :
       /\ count = Batch => ~adf /\ ~CropFits(crop, Extent)
       /\ Added(count)
  /\ UNCHANGED <<adf, preview, layout, rect, mouse, labels, selection>>

\* rotate_selected(): the line that was selected stays selected.
Rotate ==
  /\ selection # 0
  /\ LET page == pages[selection]
         degrees == (page.rotation + 90) % 360
     IN  /\ degrees \in Turns
         /\ pages' = [pages EXCEPT ![selection].rotation = Turned(page.rotation, degrees)]
  /\ labels' = pages'
  /\ UNCHANGED <<adf, preview, layout, rect, mouse, selection>>

\* A mutant: the list is not refreshed.
ToggleQuietly ==
  /\ selection # 0
  /\ pages' = [pages EXCEPT ![selection].included = ~@]
  /\ UNCHANGED <<adf, preview, layout, rect, mouse, labels, selection>>

\* toggle_selected().
Toggle ==
  /\ selection # 0
  /\ pages' = [pages EXCEPT ![selection].included = ~@]
  /\ labels' = pages'
  /\ UNCHANGED <<adf, preview, layout, rect, mouse, selection>>

Select ==
  /\ selection' \in DOMAIN labels
  /\ UNCHANGED <<adf, preview, layout, rect, mouse, pages, labels>>

-----------------------------------------------------------------------------
Next ==
  \/ Prescan \/ ChangeMode \/ Resize \/ Paint
  \/ \E point \in Points : ButtonDown(point) \/ ButtonUp(point)
  \/ CaptureLost
  \/ Scan \/ ScanFails \/ Rotate \/ Toggle \/ Select

Spec == Init /\ [][Next]_vars

-----------------------------------------------------------------------------
\* Every variable has the type of the member or control it stands for.
TypeOK ==
  /\ adf \in BOOLEAN /\ prescanned \in BOOLEAN /\ shifted \in BOOLEAN
  /\ crop \in {Nowhere} \cup [offset : 0 .. Word - 1, extent : 1 .. Word - 1]
  /\ layout \in Layouts
  /\ rect \in {l.bounds : l \in Layouts} \cup {l.fitted : l \in Layouts}
  /\ drag \in Points \cup {Nowhere}
  /\ pages \in Seq(Page) /\ labels \in Seq(Page)
  /\ selection \in 0 .. Len(labels)

\* What the user sees and acts on is the session: the lines of the list describe
\* the first pages of the session, in order, also when a scan has failed half
\* way, and a line is selected as soon as there is one, so that the buttons
\* never act on a page whose line says something else.
ListShowsPages ==
  /\ IsPrefix(labels, pages)
  /\ labels # << >> => selection \in DOMAIN labels

\* There is a selected area if and only if there is a pre-scan to select it on,
\* also when the mode is changed during a drag.
SelectionNeedsPrescan == crop # Nowhere <=> prescanned

\* A drag over a preview that stays where it is selects a part of the image,
\* however it is scaled, so that set_crop() will accept it.
DragStaysInside ==
  [][crop' # crop /\ crop' # Nowhere /\ ~shifted => CropFits(crop', Extent)]_vars

\* The selected area lies inside the image: crop rectangles have non-zero size
\* and remain inside the original dimensions.
SelectionInside == crop # Nowhere => CropFits(crop, Extent)

\* The button "Rotate 90 degrees" rotates by 90 degrees.
RotateButtonTurns ==
  [][\A i \in DOMAIN pages :
       pages'[i].rotation # pages[i].rotation =>
         pages'[i].rotation = Turned(pages[i].rotation, 90)]_vars
=============================================================================
