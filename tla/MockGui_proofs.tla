--------------------------- MODULE MockGui_proofs ---------------------------
(***************************************************************************)
(* Theorems about the window's page list, the export of its pages and      *)
(* their rendering, for every set of window sizes, image size and number   *)
(* of pages.                                                               *)
(***************************************************************************)
EXTENDS MockGuiPages, SessionExport, PageRendering, Subsequences_proofs, TLAPS

\* A prefix, position by position.
LEMMA PrefixByPosition ==
  ASSUME NEW S, NEW s \in Seq(S), NEW t \in Seq(S)
  PROVE  IsPrefix(s, t) <=> Len(s) <= Len(t) /\ \A i \in 1 .. Len(s) : s[i] = t[i]
  BY DEF IsPrefix

LEMMA ConcatByPosition ==
  ASSUME NEW S, NEW s \in Seq(S), NEW t \in Seq(S)
  PROVE  /\ s \o t \in Seq(S)
         /\ Len(s \o t) = Len(s) + Len(t)
         /\ \A i \in 1 .. Len(s) : (s \o t)[i] = s[i]
  OBVIOUS

\* The conversion of any number gives a word.
LEMMA ToWordIsWord ==
  ASSUME NEW value \in Int
  PROVE  ToWord(value) \subseteq 0 .. Word - 1
  BY GuiAssumption DEF ToWord

\* finish_selection() gives words, of which the extent is not zero.
LEMMA SelectionsAreCrops ==
  ASSUME NEW left \in Int, NEW right \in Int,
         rect \in {l.bounds : l \in Layouts} \cup {l.fitted : l \in Layouts}
  PROVE  Selections(left, right) \subseteq [offset : 0 .. Word - 1, extent : 1 .. Word - 1]
<1>1. rect[1] \in Int /\ rect[2] \in Int /\ rect[2] - rect[1] \in Nat \ {0}
  BY GuiAssumption
<1> DEFINE width == rect[2] - rect[1]
<1>2. /\ Floor(left - rect[1], width) \in Int
      /\ Ceiling(right - rect[1], width) \in Int
  BY <1>1, GuiAssumption DEF Floor, Ceiling
<1>3. SUFFICES ASSUME NEW x \in ToWord(Floor(left - rect[1], width)),
                      NEW e \in ToWord(Ceiling(right - rect[1], width))
               PROVE  /\ x \in 0 .. Word - 1
                      /\ Greater(1, (Lesser(e, Extent) - x) % Word) \in 1 .. Word - 1
  BY DEF Selections
<1>4. x \in 0 .. Word - 1 /\ e \in 0 .. Word - 1
  BY <1>2, ToWordIsWord
<1>5. (Lesser(e, Extent) - x) % Word \in 0 .. Word - 1
  BY <1>4, GuiAssumption DEF Lesser
<1> QED
  BY <1>4, <1>5, GuiAssumption DEF Greater

-----------------------------------------------------------------------------
\* The members that are true or false.
Flags == adf \in BOOLEAN /\ prescanned \in BOOLEAN /\ shifted \in BOOLEAN

\* Everything else; a button acts on a line that stands for its page.
IInv == TypeOK /\ ListShowsPages

LEMMA FlagsStep == Flags /\ [Next]_vars => Flags'
<1> SUFFICES ASSUME Flags, [Next]_vars PROVE Flags'
  OBVIOUS
<1>1. Next => adf' \in BOOLEAN
  BY Zenon DEF Next, Flags, Prescan, ChangeMode, Resize, Paint, ButtonDown, ButtonUp, CaptureLost,
     Scan, ScanFails, Rotate, Toggle, Select
<1>2. Next => prescanned' \in BOOLEAN
  BY Zenon DEF Next, Flags, Prescan, ChangeMode, Resize, Paint, ButtonDown, ButtonUp, CaptureLost,
     Scan, ScanFails, Rotate, Toggle, Select, preview
<1>3. Next => shifted' \in BOOLEAN
  BY Zenon DEF Next, Flags, Prescan, ChangeMode, Resize, Paint, ButtonDown, ButtonUp, CaptureLost,
     Scan, ScanFails, Rotate, Toggle, Select, mouse
<1>4. UNCHANGED vars => Flags'
  BY Zenon DEF vars, preview, mouse, Flags
<1> QED
  BY <1>1, <1>2, <1>3, <1>4 DEF Flags

LEMMA NewPageIsPage ==
  ASSUME NEW cropped \in BOOLEAN
  PROVE  NewPage(cropped) \in Page
  BY DEF NewPage, Page

\* The pages of a scan.
LEMMA AddedIsList ==
  ASSUME NEW count \in Nat, pages \in Seq(Page), Added(count)
  PROVE  /\ pages' \in Seq(Page)
         /\ Len(pages') = Len(pages) + count
         /\ IsPrefix(pages, pages')
<1> DEFINE fits == ~adf /\ CropFits(crop, Extent)
           more == [i \in 1 .. count |-> NewPage(fits)]
<1>1. fits \in BOOLEAN
  BY Zenon
<1>2. NewPage(fits) \in Page
  BY <1>1, NewPageIsPage
<1>3. more \in Seq(Page) /\ Len(more) = count
  BY <1>2
<1>4. pages' = pages \o more
  BY DEF Added
<1> HIDE DEF more
<1>5. /\ pages' \in Seq(Page) /\ Len(pages') = Len(pages) + count
      /\ \A i \in 1 .. Len(pages) : pages'[i] = pages[i]
  BY <1>3, <1>4, ConcatByPosition
<1>6. IsPrefix(pages, pages')
  BY <1>3, <1>5, PrefixByPosition
<1> QED
  BY <1>3, <1>5, <1>6

\* What rotate_selected() and toggle_selected() make of a page.
LEMMA EditsArePages ==
  ASSUME NEW page \in Page
  PROVE  /\ \A degrees \in Turns : [page EXCEPT !.rotation = Turned(page.rotation, degrees)] \in Page
         /\ [page EXCEPT !.included = ~page.included] \in Page
<1>1. \A degrees \in Turns : Turned(page.rotation, degrees) \in {0, 90, 180, 270}
  BY DEF Page, Turns, Turned
<1>2. \A angle \in {0, 90, 180, 270} : [page EXCEPT !.rotation = angle] \in Page
  BY DEF Page
<1>3. (~page.included) \in BOOLEAN
  BY Zenon
<1>4. \A shown \in BOOLEAN : [page EXCEPT !.included = shown] \in Page
  BY DEF Page
<1>5. \A degrees \in Turns : [page EXCEPT !.rotation = Turned(page.rotation, degrees)] \in Page
  <2> TAKE degrees \in Turns
  <2> DEFINE angle == Turned(page.rotation, degrees)
  <2>1. angle \in {0, 90, 180, 270}
    BY <1>1
  <2> HIDE DEF angle
  <2>2. [page EXCEPT !.rotation = angle] \in Page
    BY <1>2, <2>1
  <2> QED
    BY <2>2, Zenon DEF angle
<1> QED
  BY <1>3, <1>4, <1>5

-----------------------------------------------------------------------------
\* The positions and the list, which TypeOK adds to the flags.
Positions ==
  /\ crop \in {Nowhere} \cup [offset : 0 .. Word - 1, extent : 1 .. Word - 1]
  /\ layout \in Layouts
  /\ rect \in {l.bounds : l \in Layouts} \cup {l.fitted : l \in Layouts}
  /\ drag \in Points \cup {Nowhere}

Lists ==
  /\ pages \in Seq(Page) /\ labels \in Seq(Page)
  /\ selection \in 0 .. Len(labels)
  /\ ListShowsPages

LEMMA IInvParts == IInv <=> Flags /\ Positions /\ Lists
  BY DEF IInv, TypeOK, Flags, Positions, Lists

LEMMA InitHolds == Init => IInv
<1> SUFFICES ASSUME Init PROVE IInv
  OBVIOUS
<1>1. Flags
  BY Zenon DEF Init, Flags
<1>2. Positions
  BY DEF Init, Positions
<1>3. pages = << >> /\ labels = << >> /\ selection = 0 /\ << >> \in Seq(Page) /\ Len(<< >>) = 0
  BY DEF Init
<1>4. IsPrefix(labels, pages)
  <2>1. labels \in Seq(Page) /\ pages \in Seq(Page) /\ Len(labels) = 0 /\ Len(pages) = 0
    BY <1>3
  <2> QED
    BY <2>1 DEF IsPrefix
<1> QED
  BY <1>1, <1>2, <1>3, <1>4, IInvParts DEF Lists, ListShowsPages

\* A release of the button selects a part of some image, or nothing.
LEMMA ButtonUpSelects ==
  ASSUME Positions, NEW point \in Points, ButtonUp(point)
  PROVE  Positions'
<1> DEFINE end == Clamped(point, rect)
           left == Lesser(drag, end)
           right == Greater(drag, end)
<1>1. rect[1] \in Int /\ rect[2] \in Int /\ drag \in Int /\ point \in Int
  BY GuiAssumption DEF Positions, ButtonUp
<1>2. left \in Int /\ right \in Int
  BY <1>1 DEF Clamped, Lesser, Greater
<1>3. Selections(left, right) \subseteq [offset : 0 .. Word - 1, extent : 1 .. Word - 1]
  BY <1>2, SelectionsAreCrops DEF Positions
<1>4. crop' \in Selections(left, right) \/ crop' = crop
  BY DEF ButtonUp
<1>5. crop' \in {Nowhere} \cup [offset : 0 .. Word - 1, extent : 1 .. Word - 1]
  BY <1>3, <1>4 DEF Positions
<1> QED
  BY <1>5 DEF Positions, ButtonUp

LEMMA PositionsStep == Positions /\ [Next]_vars => Positions'
<1> SUFFICES ASSUME Positions, [Next]_vars PROVE Positions'
  OBVIOUS
<1>1. CASE Prescan
  <2>1. [offset |-> 0, extent |-> Extent] \in [offset : 0 .. Word - 1, extent : 1 .. Word - 1]
    BY GuiAssumption
  <2> QED
    BY <1>1, <2>1 DEF Prescan, mouse, Positions
<1>2. CASE ChangeMode
  BY <1>2 DEF ChangeMode, mouse, Positions
<1>3. CASE Resize
  BY <1>3 DEF Resize, preview, mouse, Positions
<1>4. CASE Paint
  BY <1>4 DEF Paint, preview, Positions
<1>5. ASSUME NEW point \in Points, ButtonDown(point) PROVE Positions'
  BY <1>5 DEF ButtonDown, preview, Positions
<1>6. ASSUME NEW point \in Points, ButtonUp(point) PROVE Positions'
  BY <1>6, ButtonUpSelects
<1>7. CASE CaptureLost
  BY <1>7 DEF CaptureLost, preview, Positions
<1>8. CASE Scan \/ ScanFails \/ Rotate \/ Toggle \/ Select \/ UNCHANGED vars
  <2>1. UNCHANGED <<preview, layout, rect, mouse>>
    BY <1>8, Zenon DEF Scan, ScanFails, Rotate, Toggle, Select, vars
  <2> QED
    BY <2>1 DEF preview, mouse, Positions
<1> QED
  BY <1>1, <1>2, <1>3, <1>4, <1>5, <1>6, <1>7, <1>8 DEF Next

\* The list is refreshed, and the last line or the one before is selected.
LEMMA RefreshedListShows ==
  ASSUME pages' \in Seq(Page), labels' = pages', selection' \in 0 .. Len(pages'),
         labels' # << >> => selection' # 0
  PROVE  Lists'
<1>1. IsPrefix(labels', pages')
  BY PrefixByPosition
<1>2. labels' # << >> => selection' \in DOMAIN labels'
  OBVIOUS
<1> QED
  BY <1>1, <1>2 DEF Lists, ListShowsPages

LEMMA ListsStep == Lists /\ [Next]_vars => Lists'
<1> SUFFICES ASSUME Lists, [Next]_vars PROVE Lists'
  OBVIOUS
<1>0. /\ pages \in Seq(Page) /\ labels \in Seq(Page) /\ IsPrefix(labels, pages)
      /\ Len(labels) <= Len(pages) /\ selection \in 0 .. Len(labels)
      /\ labels # << >> => selection \in 1 .. Len(labels)
  <2>1. Len(labels) <= Len(pages)
    BY PrefixByPosition DEF Lists, ListShowsPages
  <2> QED
    BY <2>1 DEF Lists, ListShowsPages
<1>1. CASE UNCHANGED list
  BY <1>1 DEF list, Lists, ListShowsPages
<1>2. CASE Scan
  <2>1. Batch \in Nat /\ Added(Batch) /\ labels' = pages' /\ selection' = Len(pages')
    BY <1>2 DEF Scan, ListRefreshed, Batch
  <2>2. pages' \in Seq(Page)
    BY <1>0, <2>1, AddedIsList
  <2> QED
    BY <2>1, <2>2, RefreshedListShows
<1>3. CASE ScanFails
  <2>1. PICK count \in Nat : Added(count)
    BY <1>3 DEF ScanFails, Batch
  <2>2. pages' \in Seq(Page) /\ IsPrefix(pages, pages')
    BY <1>0, <2>1, AddedIsList
  <2>3. labels' = labels /\ selection' = selection
    BY <1>3 DEF ScanFails
  <2>4. IsPrefix(labels, pages')
    BY <1>0, <2>2, PrefixByPosition
  <2> QED
    BY <1>0, <2>2, <2>3, <2>4 DEF Lists, ListShowsPages
<1>4. CASE Rotate \/ Toggle
  <2>1. selection \in 1 .. Len(pages) /\ pages[selection] \in Page
    BY <1>0, <1>4 DEF Rotate, Toggle
  <2>2. PICK page \in Page : pages' = [pages EXCEPT ![selection] = page]
    <3>1. CASE Rotate
      <4>1. PICK degrees \in Turns :
              pages' = [pages EXCEPT ![selection].rotation = Turned(pages[selection].rotation, degrees)]
        BY <3>1, Zenon DEF Rotate
      <4> QED
        BY <2>1, <4>1, EditsArePages, Zenon
    <3>2. CASE Toggle
      <4>1. pages' = [pages EXCEPT ![selection].included = ~pages[selection].included]
        BY <3>2, Zenon DEF Toggle
      <4> QED
        BY <2>1, <4>1, EditsArePages, Zenon
    <3> QED
      BY <1>4, <3>1, <3>2
  <2>3. pages' \in Seq(Page) /\ Len(pages') = Len(pages)
    BY <1>0, <2>1, <2>2
  <2>4. labels' = pages' /\ selection' = selection
    BY <1>4 DEF Rotate, Toggle
  <2> QED
    BY <2>1, <2>3, <2>4, RefreshedListShows
<1>5. CASE Select
  BY <1>0, <1>5 DEF Select, Lists, ListShowsPages
<1>6. Prescan \/ ChangeMode \/ Resize \/ Paint \/ CaptureLost
      \/ (\E point \in Points : ButtonDown(point) \/ ButtonUp(point)) \/ UNCHANGED vars
      => UNCHANGED list
  BY Zenon DEF Prescan, ChangeMode, Resize, Paint, CaptureLost, ButtonDown, ButtonUp, vars
<1> QED
  BY <1>1, <1>2, <1>3, <1>4, <1>5, <1>6 DEF Next

LEMMA Inductive == IInv /\ [Next]_vars => IInv'
<1> SUFFICES ASSUME IInv, [Next]_vars PROVE IInv'
  OBVIOUS
<1>1. Flags /\ Positions /\ Lists
  BY IInvParts
<1>2. Flags' /\ Positions' /\ Lists'
  BY <1>1, FlagsStep, PositionsStep, ListsStep
<1> QED
  BY <1>2 DEF IInv, TypeOK, Flags, Positions, Lists

-----------------------------------------------------------------------------
\* The window's members and controls keep their types: whatever is painted, dragged
\* or scanned, a selected crop has words for its offset and a non-zero extent.
THEOREM TypeCorrect == Spec => []TypeOK
<1>1. IInv => TypeOK
  BY DEF IInv
<1> QED
  BY <1>1, InitHolds, Inductive, PTL DEF Spec

\* The lines of the page list stand for the pages of the session, for any image
\* size and any limit on the pages, also after scans that failed half way.
THEOREM ListShowsThePages == Spec => []ListShowsPages
<1>1. IInv => ListShowsPages
  BY DEF IInv
<1> QED
  BY <1>1, InitHolds, Inductive, PTL DEF Spec

\* There is a selected area if and only if there is a pre-scan.
THEOREM SelectionWithPrescan == Spec => []SelectionNeedsPrescan
<1>1. Init => SelectionNeedsPrescan
  BY DEF Init, SelectionNeedsPrescan
<1>2. SelectionNeedsPrescan /\ Positions /\ [Next]_vars => SelectionNeedsPrescan'
  <2> SUFFICES ASSUME SelectionNeedsPrescan, Positions, [Next]_vars
               PROVE  SelectionNeedsPrescan'
    OBVIOUS
  <2> USE DEF SelectionNeedsPrescan
  <2>1. CASE Prescan
    BY <2>1, GuiAssumption DEF Prescan
  <2>2. CASE ChangeMode
    BY <2>2 DEF ChangeMode
  <2>3. ASSUME NEW point \in Points, ButtonUp(point) PROVE SelectionNeedsPrescan'
    <3>1. (crop' \in [offset : 0 .. Word - 1, extent : 1 .. Word - 1] /\ prescanned) \/ crop' = crop
      <4> DEFINE left == Lesser(drag, Clamped(point, rect))
                 right == Greater(drag, Clamped(point, rect))
      <4>1. left \in Int /\ right \in Int
        BY <2>3, GuiAssumption DEF Positions, ButtonUp, Clamped, Lesser, Greater
      <4>2. Selections(left, right) \subseteq [offset : 0 .. Word - 1, extent : 1 .. Word - 1]
        BY <4>1, SelectionsAreCrops DEF Positions
      <4>3. (crop' \in Selections(left, right) /\ prescanned) \/ crop' = crop
        BY <2>3, Zenon DEF ButtonUp
      <4> QED
        BY <4>2, <4>3
    <3>2. Nowhere \notin [offset : 0 .. Word - 1, extent : 1 .. Word - 1]
      <4>1. [offset : 0 .. Word - 1, extent : 1 .. Word - 1] \subseteq [offset : Int, extent : Int]
        BY GuiAssumption
      <4> QED
        BY <4>1, GuiAssumption
    <3>3. prescanned' = prescanned
      BY <2>3 DEF ButtonUp
    <3> QED
      BY <3>1, <3>2, <3>3
  <2>4. Resize \/ Paint \/ CaptureLost \/ Scan \/ ScanFails \/ Rotate \/ Toggle \/ Select
        \/ (\E point \in Points : ButtonDown(point)) \/ UNCHANGED vars
        => UNCHANGED preview
    BY Zenon DEF Resize, Paint, CaptureLost, Scan, ScanFails, Rotate, Toggle, Select, ButtonDown,
       vars, preview
  <2> QED
    BY <2>1, <2>2, <2>3, <2>4 DEF Next, preview
<1> QED
  BY <1>1, <1>2, InitHolds, Inductive, IInvParts, PTL DEF Spec

-----------------------------------------------------------------------------
\* A quotient is between the numbers it is rounded from.
LEMMA QuotientBounds ==
  ASSUME NEW a \in Int, NEW b \in Nat \ {0}
  PROVE  a \div b \in Int /\ (a \div b) * b <= a /\ a < (a \div b) * b + b
<1>1. a \div b \in Int
  OBVIOUS
<1>2. (a \div b) * b <= a
  OBVIOUS
<1>3. a < (a \div b) * b + b
  OBVIOUS
<1> QED
  BY <1>1, <1>2, <1>3

LEMMA TimesKeepsOrder ==
  ASSUME NEW a \in Int, NEW b \in Int, NEW c \in Nat \ {0}
  PROVE  (a < b <=> a * c < b * c) /\ (a <= b <=> a * c <= b * c)
<1>1. a < b <=> a * c < b * c
  BY SMTT(30)
<1>2. a <= b <=> a * c <= b * c
  BY SMTT(30)
<1> QED
  BY <1>1, <1>2

\* Two positions in the preview, scaled to the image, are an area of the image.
LEMMA ScaledInside ==
  ASSUME NEW l \in Nat, NEW r \in Nat, NEW width \in Nat \ {0}, l < r, r <= width
  PROVE  /\ Floor(l, width) \in 0 .. Extent - 1
         /\ Ceiling(r, width) \in 1 .. Extent
         /\ Floor(l, width) < Ceiling(r, width)
<1> DEFINE x == Floor(l, width)
           edge == Ceiling(r, width)
<1>0. Extent \in Nat \ {0} /\ Word \in Nat
  BY GuiAssumption
<1>1. l * Extent \in Nat /\ r * Extent \in Nat /\ -r * Extent \in Int /\ -r * Extent = -(r * Extent)
  BY <1>0
<1>2. x \in Int /\ x * width <= l * Extent /\ l * Extent < x * width + width
  <2>1. x = (l * Extent) \div width /\ l * Extent \in Int
    BY <1>1 DEF Floor
  <2> HIDE DEF x
  <2> QED
    BY <2>1, QuotientBounds
<1>3. edge \in Int /\ r * Extent <= edge * width /\ edge * width < r * Extent + width
  <2> DEFINE q == (-r * Extent) \div width
  <2>1. q \in Int /\ q * width <= -(r * Extent) /\ -(r * Extent) < q * width + width
    BY <1>1, QuotientBounds
  <2>2. edge = -q
    BY DEF Ceiling
  <2> HIDE DEF q, edge
  <2>3. edge \in Int /\ edge * width = -(q * width)
    BY <2>1, <2>2
  <2> QED
    BY <1>1, <2>1, <2>3
<1> HIDE DEF x, edge
<1>4. l * Extent < r * Extent /\ r * Extent <= width * Extent
  BY <1>0, TimesKeepsOrder
<1>5. x < edge
  <2>1. x * width < edge * width
    BY <1>1, <1>2, <1>3, <1>4
  <2> QED
    BY <1>2, <1>3, <2>1, TimesKeepsOrder
<1>6. 0 <= x
  <2>1. 0 * width < (x + 1) * width
    BY <1>1, <1>2
  <2>2. 0 < x + 1
    BY <1>2, <2>1, TimesKeepsOrder
  <2> QED
    BY <1>2, <2>2
<1>7. edge <= Extent
  <2>1. (edge - 1) * width < Extent * width
    BY <1>0, <1>1, <1>3, <1>4
  <2>2. edge - 1 < Extent
    BY <1>0, <1>3, <2>1, TimesKeepsOrder
  <2> QED
    BY <1>0, <1>3, <2>2
<1>8. x \in 0 .. Extent - 1 /\ edge \in 1 .. Extent
  BY <1>0, <1>2, <1>3, <1>5, <1>6, <1>7
<1> QED
  BY <1>5, <1>8 DEF x, edge

\* What finish_selection() makes of two positions in the preview.
LEMMA SelectionsFit ==
  ASSUME NEW left \in Int, NEW right \in Int, rect[1] \in Int, rect[2] \in Int,
         rect[1] <= left, left < right, right <= rect[2],
         NEW selected \in Selections(left, right)
  PROVE  CropFits(selected, Extent)
<1> DEFINE width == rect[2] - rect[1]
           floor == Floor(left - rect[1], width)
           ceiling == Ceiling(right - rect[1], width)
<1>0. Extent \in Nat \ {0} /\ Word \in Nat /\ Extent < Word
  BY GuiAssumption
<1>1. floor \in 0 .. Extent - 1 /\ ceiling \in 1 .. Extent /\ floor < ceiling
  <2> DEFINE l == left - rect[1]
             r == right - rect[1]
  <2>1. l \in Nat /\ r \in Nat /\ width \in Nat \ {0} /\ l < r /\ r <= width
    OBVIOUS
  <2> HIDE DEF l, r, width
  <2>2. Floor(l, width) \in 0 .. Extent - 1 /\ Ceiling(r, width) \in 1 .. Extent /\ Floor(l, width) < Ceiling(r, width)
    BY <2>1, ScaledInside
  <2> QED
    BY <2>2 DEF l, r
<1>2. PICK x \in ToWord(floor), e \in ToWord(ceiling) :
        selected = [offset |-> x, extent |-> Greater(1, (Lesser(e, Extent) - x) % Word)]
  BY DEF Selections
<1> HIDE DEF floor, ceiling
<1>3. x = floor /\ e = ceiling
  BY <1>0, <1>1, <1>2 DEF ToWord
<1>4. Lesser(e, Extent) = ceiling
  BY <1>0, <1>1, <1>3 DEF Lesser
<1>5. ceiling - floor \in 1 .. Extent - floor /\ (ceiling - floor) % Word = ceiling - floor
  BY <1>0, <1>1
<1>6. selected = [offset |-> floor, extent |-> ceiling - floor]
  BY <1>2, <1>3, <1>4, <1>5 DEF Greater
<1> QED
  BY <1>0, <1>1, <1>5, <1>6 DEF CropFits, Minus

\* A drag begins in the preview, and stays in it while the preview does not move.
DragInv == drag # Nowhere /\ ~shifted => rect[1] <= drag /\ drag <= rect[2]

LEMMA DragInvStep == DragInv /\ [Next]_vars => DragInv'
<1> SUFFICES ASSUME DragInv, [Next]_vars PROVE DragInv'
  OBVIOUS
<1>1. CASE UNCHANGED <<rect, mouse>>
  BY <1>1 DEF mouse, DragInv
<1>2. CASE Paint
  BY <1>2 DEF Paint, DragInv
<1>3. ASSUME NEW point \in Points, ButtonDown(point) PROVE DragInv'
  BY <1>3 DEF ButtonDown, DragInv
<1>4. CASE drag' = Nowhere
  BY <1>4 DEF DragInv
<1>5. \/ UNCHANGED <<rect, mouse>> \/ Paint \/ drag' = Nowhere
      \/ \E point \in Points : ButtonDown(point)
  BY Zenon DEF Next, Prescan, ChangeMode, Resize, ButtonUp, CaptureLost, Scan, ScanFails, Rotate,
     Toggle, Select, vars
<1> QED
  BY <1>1, <1>2, <1>3, <1>4, <1>5

\* A drag over a preview that stays where it is selects a part of the image that
\* set_crop() will accept: for any window sizes, and an image of any size that a
\* word can hold.
THEOREM DragSelectsInside == Spec => DragStaysInside
<1> DEFINE Selects == crop' # crop /\ crop' # Nowhere /\ ~shifted => CropFits(crop', Extent)
<1>1. IInv /\ DragInv /\ [Next]_vars => Selects
  <2> SUFFICES ASSUME IInv, DragInv, [Next]_vars, crop' # crop, crop' # Nowhere, ~shifted
               PROVE  CropFits(crop', Extent)
    OBVIOUS
  <2>1. CASE Prescan
    <3>1. Extent \in Nat \ {0}
      BY GuiAssumption
    <3> QED
      BY <2>1, <3>1 DEF Prescan, CropFits, Minus
  <2>2. ASSUME NEW point \in Points, ButtonUp(point) PROVE CropFits(crop', Extent)
    <3> DEFINE end == Clamped(point, rect)
               left == Lesser(drag, end)
               right == Greater(drag, end)
    <3>1. rect[1] \in Int /\ rect[2] \in Int /\ rect[1] < rect[2] /\ drag \in Int /\ point \in Int
      BY <2>2, GuiAssumption DEF IInv, TypeOK, ButtonUp
    <3>2. rect[1] <= drag /\ drag <= rect[2]
      BY <2>2 DEF DragInv, ButtonUp
    <3>3. end \in Int /\ rect[1] <= end /\ end <= rect[2]
      BY <3>1 DEF Clamped
    <3>4. right - left >= 4 /\ crop' \in Selections(left, right)
      BY <2>2, Zenon DEF ButtonUp
    <3> HIDE DEF end
    <3>5. left \in Int /\ right \in Int /\ rect[1] <= left /\ right <= rect[2]
      BY <3>1, <3>2, <3>3 DEF Lesser, Greater
    <3> HIDE DEF left, right
    <3> QED
      BY <3>1, <3>4, <3>5, SelectionsFit
  <2>3. \/ Prescan \/ crop' = Nowhere \/ crop' = crop
        \/ \E point \in Points : ButtonUp(point)
    BY Zenon DEF Next, ChangeMode, Resize, Paint, ButtonDown, CaptureLost, Scan, ScanFails, Rotate,
       Toggle, Select, vars, preview
  <2> QED
    BY <2>1, <2>2, <2>3
<1>2. Init => DragInv
  BY DEF Init, DragInv
<1> QED
  BY <1>1, <1>2, InitHolds, Inductive, DragInvStep, PTL DEF Spec, DragStaysInside

-----------------------------------------------------------------------------
\* Where rename() refuses to replace a file, no step of an export and no other
\* program changes a file that is in the folder.
THEOREM ExportsNeverReplace == ~RenameReplaces => (ExportSpec => NeverReplaces)
<1> DEFINE Kept == \A file \in DOMAIN folder : file \in DOMAIN folder' /\ folder'[file] = folder[file]
<1> SUFFICES ASSUME ~RenameReplaces PROVE ExportSpec => [][Kept]_exportVars
  BY DEF NeverReplaces
<1>1. ASSUME NEW stem \in Stem, NEW format \in Formats, Save(stem, format)
      PROVE  UNCHANGED folder
  BY <1>1, Zenon DEF Save
<1>2. Stage => UNCHANGED folder
  BY Zenon DEF Stage, ExportFails
<1>3. ASSUME Publish PROVE Kept
  <2>1. CASE UNCHANGED folder
    BY <2>1
  <2>2. CASE /\ ~Exists(batch[1].file)
             /\ folder' = [file \in DOMAIN folder \cup {batch[1].file} |->
                             IF file = batch[1].file THEN batch[1].holds ELSE folder[file]]
    BY <2>2 DEF Exists
  <2> QED
    BY <1>3, <2>1, <2>2, Zenon DEF Publish, ExportFails
<1>4. WriteFails => UNCHANGED folder
  BY Zenon DEF WriteFails, ExportFails
<1>5. ASSUME NEW file \in File, OtherCreates(file) PROVE Kept
  BY <1>5 DEF OtherCreates, Exists
<1>6. ASSUME NEW page \in DOMAIN included, TogglePage(page) PROVE UNCHANGED folder
  BY <1>6, Zenon DEF TogglePage
<1>7. UNCHANGED folder => Kept
  OBVIOUS
<1>8. ExportNext => Kept
  BY <1>1, <1>2, <1>3, <1>4, <1>5, <1>6, <1>7, Zenon DEF ExportNext
<1> QED
  BY <1>8, PTL DEF ExportSpec

-----------------------------------------------------------------------------
(* The files of an export, as functions of the pages that it has.          *)

\* The file number k of an export of these pages, and what it holds.
NameOf(stem, format, k) ==
  [stem |-> stem, format |-> format, number |-> IF format = "pdf" THEN 0 ELSE k]

HoldsOf(kept, export, format, k) ==
  [export |-> export, pages |-> IF format = "pdf" THEN kept ELSE <<kept[k]>>]

Total(kept, format) == IF format = "pdf" THEN 1 ELSE Len(kept)

\* The pages of an export in session order.
InOrder(kept) ==
  /\ kept \in Seq(Nat) /\ Len(kept) <= MaxExportPages
  /\ \A i, j \in 1 .. Len(kept) : i < j => kept[i] < kept[j]

\* The files of a folder belong to exports that have begun, or to other programs.
FilesOwned(files, last) ==
  \A file \in DOMAIN files :
    /\ file \in File
    /\ \/ files[file] = Foreign
       \/ /\ files[file].export \in 1 .. last
          /\ file.number = 0 <=> file.format = "pdf"

\* The first conjunct of ExportsAreWhole.
Agree(files, file, other) ==
  /\ files[file].export = files[other].export
  /\ file.number < other.number => files[file].pages[1] < files[other].pages[1]
  /\ \A number \in 1 .. file.number : [file EXCEPT !.number = number] \in DOMAIN files

FilesWhole(files) ==
  \A file, other \in DOMAIN files :
    /\ files[file] # Foreign /\ files[other] # Foreign
    /\ file.stem = other.stem /\ file.format = other.format
    => Agree(files, file, other)

\* So many files of the running export are in the folder, and no other image of an
\* export is there under their name.
Published(files, kept, export, stem, format, done) ==
  /\ \A k \in 1 .. done : /\ NameOf(stem, format, k) \in DOMAIN files
                          /\ files[NameOf(stem, format, k)] = HoldsOf(kept, export, format, k)
  /\ \A file \in DOMAIN files :
       files[file].export = export => \E k \in 1 .. done : file = NameOf(stem, format, k)
  /\ format = "jpg" =>
       \A file \in DOMAIN files :
         file.stem = stem /\ file.format = format /\ files[file] # Foreign => files[file].export = export

\* The folder with one more file, or with other contents of one.
With(files, name, holds) ==
  [file \in DOMAIN files \cup {name} |-> IF file = name THEN holds ELSE files[file]]

LEMMA NamesDiffer ==
  ASSUME NEW stem, NEW format \in Formats, NEW kept, Len(kept) \in Nat,
         NEW k \in 1 .. Total(kept, format), NEW j \in 1 .. Total(kept, format), k # j
  PROVE  NameOf(stem, format, k) # NameOf(stem, format, j)
<1>1. format # "pdf"
  BY DEF Total
<1>2. NameOf(stem, format, k).number = k /\ NameOf(stem, format, j).number = j
  BY <1>1 DEF NameOf
<1> QED
  BY <1>2

\* The next file of an export keeps the folder whole.
KeepsFolder(after, kept, export, stem, format, done) ==
  /\ FilesOwned(after, export) /\ FilesWhole(after)
  /\ Published(after, kept, export, stem, format, done)

LEMMA PublishKeepsFolder ==
  ASSUME NEW files, NEW kept, InOrder(kept), NEW export \in Nat \ {0}, NEW stem \in Stem,
         NEW format \in Formats, NEW done \in Nat, done < Total(kept, format),
         KeepsFolder(files, kept, export, stem, format, done),
         format = "pdf" \/ done + 1 <= MaxExportPages
  PROVE  KeepsFolder(With(files, NameOf(stem, format, done + 1), HoldsOf(kept, export, format, done + 1)),
                     kept, export, stem, format, done + 1)
<1> DEFINE name == NameOf(stem, format, done + 1)
           holds == HoldsOf(kept, export, format, done + 1)
           after == With(files, name, holds)
<1>0. /\ FilesOwned(files, export) /\ FilesWhole(files)
      /\ Published(files, kept, export, stem, format, done)
  BY DEF KeepsFolder
<1>1. /\ name.stem = stem /\ name.format = format
      /\ name.number = IF format = "pdf" THEN 0 ELSE done + 1
      /\ name \in File
  BY ExportAssumption DEF NameOf, File
<1>2. /\ DOMAIN after = DOMAIN files \cup {name}
      /\ after[name] = HoldsOf(kept, export, format, done + 1)
      /\ \A file \in DOMAIN files : file # name => after[file] = files[file]
  BY DEF With
<1>3. after[name].export = export /\ after[name] # Foreign
  BY <1>2 DEF HoldsOf, Foreign
<1> HIDE DEF holds, after
<1>4. FilesOwned(after, export)
  BY <1>0, <1>1, <1>2, <1>3 DEF FilesOwned, Formats
<1>5. /\ Len(kept) \in Nat /\ Total(kept, format) \in Nat
      /\ \A k \in 1 .. done + 1 : k \in 1 .. Total(kept, format)
  BY DEF InOrder, Total
<1>6. \A k \in 1 .. done : NameOf(stem, format, k) # name
  <2> TAKE k \in 1 .. done
  <2>1. k \in 1 .. Total(kept, format) /\ done + 1 \in 1 .. Total(kept, format) /\ k # done + 1
    BY <1>5
  <2>2. NameOf(stem, format, k) # NameOf(stem, format, done + 1)
    BY <1>5, <2>1, NamesDiffer
  <2> QED
    BY <2>2
<1>7. Published(after, kept, export, stem, format, done + 1)
  <2>1. ASSUME NEW k \in 1 .. done + 1
        PROVE  /\ NameOf(stem, format, k) \in DOMAIN after
               /\ after[NameOf(stem, format, k)] = HoldsOf(kept, export, format, k)
    <3>1. CASE k = done + 1
      BY <1>2, <3>1
    <3>2. CASE k \in 1 .. done
      BY <1>0, <1>2, <1>6, <3>2 DEF Published
    <3> QED
      BY <3>1, <3>2
  <2>2. ASSUME NEW file \in DOMAIN after, after[file].export = export
        PROVE  \E k \in 1 .. done + 1 : file = NameOf(stem, format, k)
    <3>1. CASE file = name
      BY <3>1
    <3>2. CASE file # name
      <4>1. PICK k \in 1 .. done : file = NameOf(stem, format, k)
        BY <1>0, <1>2, <2>2, <3>2 DEF Published
      <4> QED
        BY <4>1
    <3> QED
      BY <3>1, <3>2
  <2>3. ASSUME format = "jpg", NEW file \in DOMAIN after,
               file.stem = stem /\ file.format = format /\ after[file] # Foreign
        PROVE  after[file].export = export
    BY <1>0, <1>2, <1>3, <2>3 DEF Published
  <2> QED
    BY <2>1, <2>2, <2>3 DEF Published
<1>8. FilesWhole(after)
  <2> SUFFICES ASSUME NEW file \in DOMAIN after, NEW other \in DOMAIN after,
                      after[file] # Foreign, after[other] # Foreign,
                      file.stem = other.stem, file.format = other.format
               PROVE  Agree(after, file, other)
    BY Zenon DEF FilesWhole
  <2>1. CASE file # name /\ other # name
    <3>1. Agree(files, file, other)
      BY <1>0, <1>2, <2>1 DEF FilesWhole
    <3> QED
      BY <1>2, <2>1, <3>1 DEF Agree
  <2>2. CASE (file = name \/ other = name) /\ format = "pdf"
    <3>1. file.number = 0 /\ other.number = 0 /\ file.format = "pdf" /\ file.stem = stem
          /\ other.format = "pdf" /\ other.stem = stem /\ file \in File /\ other \in File
      BY <1>1, <1>4, <2>2 DEF FilesOwned
    <3>2. file = name /\ other = name
      BY <1>1, <2>2, <3>1 DEF File
    <3> QED
      BY <3>1, <3>2 DEF Agree
  <2>3. CASE (file = name \/ other = name) /\ format = "jpg"
    <3>1. \A f \in {file, other} : \E k \in 1 .. done + 1 : f = NameOf(stem, format, k)
      <4>1. ASSUME NEW f \in {file, other} PROVE \E k \in 1 .. done + 1 : f = NameOf(stem, format, k)
        <5>1. f.stem = stem /\ f.format = format
          BY <1>1, <2>3
        <5>2. after[f].export = export
          BY <1>7, <2>3, <5>1 DEF Published
        <5> QED
          BY <1>7, <5>2 DEF Published
      <4> QED
        BY <4>1
    <3>2. PICK i \in 1 .. done + 1, j \in 1 .. done + 1 :
            file = NameOf(stem, format, i) /\ other = NameOf(stem, format, j)
      BY <3>1
    <3>3. i \in 1 .. Len(kept) /\ j \in 1 .. Len(kept)
      BY <2>3, <1>5 DEF Total
    <3>4. file.number = i /\ other.number = j
      BY <2>3, <3>2 DEF NameOf
    <3>5. /\ after[file].export = export /\ after[other].export = export
          /\ after[file].pages[1] = kept[i] /\ after[other].pages[1] = kept[j]
      <4>1. after[file] = HoldsOf(kept, export, format, i) /\ after[other] = HoldsOf(kept, export, format, j)
        BY <1>7, <3>2 DEF Published
      <4>2. \A k : /\ HoldsOf(kept, export, format, k).export = export
                   /\ HoldsOf(kept, export, format, k).pages[1] = kept[k]
        BY <2>3 DEF HoldsOf
      <4> QED
        BY <4>1, <4>2
    <3>6. ASSUME NEW number \in 1 .. i PROVE [file EXCEPT !.number = number] \in DOMAIN after
      <4>1. number \in 1 .. done + 1 /\ [file EXCEPT !.number = number] = NameOf(stem, format, number)
        BY <2>3, <3>2 DEF NameOf
      <4> QED
        BY <1>7, <4>1 DEF Published
    <3> QED
      BY <3>3, <3>4, <3>5, <3>6 DEF InOrder, Agree
  <2> QED
    BY <2>1, <2>2, <2>3 DEF Formats
<1> QED
  BY <1>4, <1>7, <1>8 DEF KeepsFolder, holds, after

-----------------------------------------------------------------------------
\* The files of an export that remain after so many are published.
Rest(kept, export, stem, format, done) ==
  [i \in 1 .. Total(kept, format) - done |->
     [file |-> NameOf(stem, format, done + i), holds |-> HoldsOf(kept, export, format, done + i)]]

LEMMA TailByPosition ==
  ASSUME NEW S, NEW s \in Seq(S), s # <<>>, NEW t \in Seq(S), Len(t) = Len(s) - 1,
         \A i \in 1 .. Len(t) : t[i] = s[i + 1]
  PROVE  Tail(s) = t
  OBVIOUS

RestGoesOn(kept, export, stem, format, done) ==
  LET rest == Rest(kept, export, stem, format, done)
      fewer == Rest(kept, export, stem, format, done + 1)
  IN  /\ rest # <<>> /\ Len(rest) = Total(kept, format) - done /\ Tail(rest) = fewer
      /\ rest[1] = [file |-> NameOf(stem, format, done + 1), holds |-> HoldsOf(kept, export, format, done + 1)]
      /\ done + 1 = Total(kept, format) => fewer = <<>>

LEMMA RestSteps ==
  ASSUME NEW kept, Len(kept) \in Nat, NEW export, NEW stem, NEW format \in Formats, NEW done \in Nat,
         done < Total(kept, format)
  PROVE  RestGoesOn(kept, export, stem, format, done)
<1> DEFINE total == Total(kept, format)
           item(k) == [file |-> NameOf(stem, format, k), holds |-> HoldsOf(kept, export, format, k)]
           rest == [i \in 1 .. total - done |-> item(done + i)]
           fewer == [i \in 1 .. total - (done + 1) |-> item((done + 1) + i)]
           S == {item(k) : k \in Nat}
<1>1. total \in Nat /\ done < total
  BY DEF Total
<1>2. rest = Rest(kept, export, stem, format, done) /\ fewer = Rest(kept, export, stem, format, done + 1)
  BY Zenon DEF Rest
<1> HIDE DEF total, item
<1>3. /\ rest \in Seq(S) /\ Len(rest) = total - done /\ \A i \in 1 .. total - done : rest[i] = item(done + i)
      /\ fewer \in Seq(S) /\ Len(fewer) = total - (done + 1)
      /\ \A i \in 1 .. total - (done + 1) : fewer[i] = item((done + 1) + i)
  BY <1>1
<1> HIDE DEF rest, fewer, S
<1>4. \A i \in 1 .. Len(fewer) : fewer[i] = rest[i + 1]
  <2> TAKE i \in 1 .. Len(fewer)
  <2>1. i + 1 \in 1 .. total - done /\ (done + 1) + i = done + (i + 1) /\ i \in 1 .. total - (done + 1)
    BY <1>1, <1>3
  <2> QED
    BY <1>3, <2>1
<1>5. rest # <<>> /\ Tail(rest) = fewer
  <2>1. Len(rest) # 0 /\ Len(fewer) = Len(rest) - 1
    BY <1>1, <1>3
  <2>2. rest # <<>>
    BY <2>1
  <2> QED
    BY <1>3, <1>4, <2>1, <2>2, TailByPosition
<1>6. rest[1] = item(done + 1)
  BY <1>1, <1>3
<1>7. done + 1 = total => fewer = <<>>
  BY <1>1, <1>3
<1> QED
  BY <1>2, <1>3, <1>5, <1>6, <1>7 DEF total, item, RestGoesOn

\* save_output() begins with all files.
LEMMA FilesOfIsRest ==
  ASSUME InOrder(Included), NEW stem \in Stem, NEW format \in Formats
  PROVE  FilesOf(stem, format) = Rest(Included, exports + 1, stem, format, 0)
<1> DEFINE export == exports + 1
           item(k) == [file |-> NameOf(stem, format, k), holds |-> HoldsOf(Included, export, format, k)]
<1>1. Len(Included) \in Nat /\ DOMAIN Included = 1 .. Len(Included)
  BY DEF InOrder
<1>2. Rest(Included, export, stem, format, 0) = [i \in 1 .. Total(Included, format) |-> item(i)]
  <2>1. Total(Included, format) \in Nat
    BY <1>1 DEF Total
  <2> HIDE DEF export
  <2> QED
    BY <2>1 DEF Rest
<1>3. CASE format = "pdf"
  <2>1. FilesOf(stem, format) = <<item(1)>>
    BY <1>3 DEF FilesOf, NameOf, HoldsOf
  <2>2. Total(Included, format) = 1
    BY <1>3 DEF Total
  <2> HIDE DEF item
  <2> QED
    BY <1>2, <2>1, <2>2
<1>4. CASE format # "pdf"
  <2>1. FilesOf(stem, format) =
          [i \in DOMAIN Included |-> [file |-> [stem |-> stem, format |-> format, number |-> i],
                                     holds |-> [export |-> export, pages |-> <<Included[i]>>]]]
    BY <1>4, Zenon DEF FilesOf
  <2>2. \A i : item(i) = [file |-> [stem |-> stem, format |-> format, number |-> i],
                         holds |-> [export |-> export, pages |-> <<Included[i]>>]]
    BY <1>4 DEF NameOf, HoldsOf
  <2>3. Total(Included, format) = Len(Included)
    BY <1>4 DEF Total
  <2> QED
    BY <1>1, <1>2, <2>1, <2>2, <2>3
<1> QED
  BY <1>3, <1>4

\* The pages that are in the output are in session order, and no more than there are.
LEMMA IncludedInOrder ==
  ASSUME included \in Seq(BOOLEAN), Len(included) <= MaxExportPages
  PROVE  InOrder(Included)
<1> DEFINE set == {page \in DOMAIN included : included[page]}
<1>1. Ascends(Included, Len(included), set)
  <2>1. Len(included) \in Nat
    OBVIOUS
  <2> HIDE DEF set
  <2>2. Ascends(Ascending(Len(included), set), Len(included), set)
    BY <2>1, AscendingAscends
  <2> QED
    BY <2>2, Zenon DEF Included, set
<1>2. Len(included) \in Nat /\ MaxExportPages \in Nat
  BY ExportAssumption
<1> HIDE DEF set
<1>3. Included \in Seq(1 .. Len(included)) /\ Len(Included) <= Len(included)
  BY <1>1, Zenon DEF Ascends
<1>4. Included \in Seq(Nat) /\ Len(Included) <= MaxExportPages
  BY <1>2, <1>3
<1> QED
  BY <1>1, <1>4 DEF Ascends, InOrder

\* A file of another program belongs to no export.
LEMMA OtherFileKeepsFolder ==
  ASSUME NEW files, NEW last, NEW file \in File, file \notin DOMAIN files,
         FilesOwned(files, last), FilesWhole(files)
  PROVE  FilesOwned(With(files, file, Foreign), last) /\ FilesWhole(With(files, file, Foreign))
<1> DEFINE after == With(files, file, Foreign)
<1>1. /\ DOMAIN after = DOMAIN files \cup {file} /\ after[file] = Foreign
      /\ \A f \in DOMAIN files : f # file /\ after[f] = files[f]
  BY DEF With
<1> HIDE DEF after
<1>2. FilesOwned(after, last)
  BY <1>1 DEF FilesOwned
<1>3. FilesWhole(after)
  <2> SUFFICES ASSUME NEW f \in DOMAIN after, NEW g \in DOMAIN after,
                      after[f] # Foreign, after[g] # Foreign, f.stem = g.stem, f.format = g.format
               PROVE  Agree(after, f, g)
    BY Zenon DEF FilesWhole
  <2>1. f \in DOMAIN files /\ g \in DOMAIN files
    BY <1>1
  <2>2. Agree(files, f, g)
    BY <1>1, <2>1 DEF FilesWhole
  <2> QED
    BY <1>1, <2>1, <2>2 DEF Agree
<1> QED
  BY <1>2, <1>3 DEF after

LEMMA OtherFileKeepsExport ==
  ASSUME NEW files, NEW kept, NEW export \in Nat \ {0}, NEW stem, NEW format, NEW done,
         NEW file \in File, file \notin DOMAIN files,
         Published(files, kept, export, stem, format, done)
  PROVE  Published(With(files, file, Foreign), kept, export, stem, format, done)
<1> DEFINE after == With(files, file, Foreign)
<1>1. /\ DOMAIN after = DOMAIN files \cup {file} /\ after[file] = Foreign
      /\ \A f \in DOMAIN files : f # file /\ after[f] = files[f]
  BY DEF With
<1>2. Foreign.export = 0
  BY DEF Foreign
<1> HIDE DEF after
<1>3. Published(after, kept, export, stem, format, done)
  BY <1>1, <1>2 DEF Published
<1> QED
  BY <1>3 DEF after

-----------------------------------------------------------------------------
\* The export under this name has published so many of its files.
Running(stem, format, done) ==
  /\ done < Total(Included, format)
  /\ batch = Rest(Included, exports, stem, format, done)
  /\ Published(folder, Included, exports, stem, format, done)

\* The export under this name has published all of them.
Saved(stem, format) ==
  Published(folder, Included, exports, stem, format, Total(Included, format))

ExportInv ==
  /\ included \in Seq(BOOLEAN) /\ Len(included) <= MaxExportPages
  /\ exports \in Nat
  /\ FilesOwned(folder, exports) /\ FilesWhole(folder)
  /\ staged => batch # <<>>
  /\ batch # <<>> => /\ exports # 0
                     /\ \E stem \in Stem, format \in Formats, done \in Nat : Running(stem, format, done)
  /\ outcome = "saved" => /\ batch = <<>> /\ exports # 0
                          /\ \E stem \in Stem, format \in Formats : Saved(stem, format)

LEMMA ExportInvInit == ExportInit => ExportInv
<1> SUFFICES ASSUME ExportInit PROVE ExportInv
  OBVIOUS
<1>1. included \in Seq(BOOLEAN) /\ Len(included) <= MaxExportPages
  BY ExportAssumption DEF ExportInit, SeqOf
<1>2. DOMAIN folder = {}
  BY DEF ExportInit
<1>3. exports = 0 /\ batch = <<>> /\ staged = FALSE /\ outcome = "none"
  BY DEF ExportInit
<1> QED
  BY <1>1, <1>2, <1>3 DEF ExportInv, FilesOwned, FilesWhole

\* A failed export leaves its files as they are.
LEMMA ExportFailsKeeps == ExportInv /\ ExportFails => ExportInv'
  BY DEF ExportInv, ExportFails

\* Everything but the batch and its stage file is as it was.
LEMMA SaveKeeps ==
  ASSUME ExportInv, NEW stem \in Stem, NEW format \in Formats, Save(stem, format)
  PROVE  ExportInv'
<1>1. InOrder(Included)
  BY IncludedInOrder DEF ExportInv
<1>2. /\ Included' = Included /\ included' = included /\ folder' = folder /\ exports' = exports + 1
      /\ batch = <<>> /\ staged' = staged /\ exports \in Nat
  BY Zenon DEF Save, Included, ExportInv
<1>3. FilesOwned(folder, exports + 1) /\ ~staged
  BY <1>2 DEF ExportInv, FilesOwned
<1>4. CASE outcome' = "failed" /\ batch' = batch
  BY <1>2, <1>3, <1>4 DEF ExportInv
<1>5. CASE /\ Included # <<>>
           /\ format = "jpg" => ~ \E i \in DOMAIN FilesOf(stem, format) : Exists(FilesOf(stem, format)[i].file)
           /\ outcome' = "none" /\ batch' = FilesOf(stem, format)
  <2>1. Len(Included) \in Nat \ {0}
    BY <1>1, <1>5 DEF InOrder
  <2>2. 0 < Total(Included, format)
    BY <2>1 DEF Total
  <2>3. batch' = Rest(Included, exports + 1, stem, format, 0)
    BY <1>1, <1>5, FilesOfIsRest
  <2>4. \A file \in DOMAIN folder : folder[file].export # exports + 1
    <3> TAKE file \in DOMAIN folder
    <3>1. folder[file].export = 0 \/ folder[file].export \in 1 .. exports
      BY DEF ExportInv, FilesOwned, Foreign
    <3> QED
      BY <1>2, <3>1
  <2>5. ASSUME format = "jpg", NEW file \in DOMAIN folder,
               file.stem = stem, file.format = format, folder[file] # Foreign
        PROVE  FALSE
    <3>1. file \in File /\ file.number # 0
      BY <2>5 DEF ExportInv, FilesOwned
    <3>2. 1 \in 1 .. file.number
      BY <3>1, ExportAssumption DEF File
    <3>3. [file EXCEPT !.number = 1] \in DOMAIN folder
      <4>1. Agree(folder, file, file)
        BY <2>5 DEF ExportInv, FilesWhole
      <4> QED
        BY <3>2, <4>1 DEF Agree
    <3>4. [file EXCEPT !.number = 1] = NameOf(stem, format, 1)
      BY <2>5, <3>1 DEF File, NameOf
    <3>5. Rest(Included, exports + 1, stem, format, 0)[1].file = NameOf(stem, format, 1)
      <4>1. Rest(Included, exports + 1, stem, format, 0)[1].file = NameOf(stem, format, 0 + 1)
        <5>1. 0 \in Nat /\ Len(Included) \in Nat
          BY <2>1
        <5>2. Rest(Included, exports + 1, stem, format, 0)[1] =
                [file |-> NameOf(stem, format, 0 + 1), holds |-> HoldsOf(Included, exports + 1, format, 0 + 1)]
          <6>1. RestGoesOn(Included, exports + 1, stem, format, 0)
            BY <2>2, <5>1, RestSteps
          <6> QED
            BY <6>1, Zenon DEF RestGoesOn
        <5> QED
          BY <5>2
      <4> QED
        BY <4>1
    <3>6. 1 \in DOMAIN Rest(Included, exports + 1, stem, format, 0)
      BY <2>1, <2>5 DEF Rest, Total
    <3> QED
      BY <1>5, <2>3, <2>5, <3>3, <3>4, <3>5, <3>6 DEF Exists
  <2>6. Published(folder, Included, exports + 1, stem, format, 0)
    BY <2>4, <2>5 DEF Published
  <2>7. Running(stem, format, 0)'
    BY <1>2, <2>2, <2>3, <2>6 DEF Running
  <2> QED
    BY <1>2, <1>3, <1>5, <2>7 DEF ExportInv
<1> QED
  BY <1>4, <1>5, Zenon DEF Save

LEMMA PublishKeepsExport == ExportInv /\ Publish => ExportInv'
<1> SUFFICES ASSUME ExportInv, Publish PROVE ExportInv'
  OBVIOUS
<1>1. CASE ExportFails
  BY <1>1, ExportFailsKeeps
<1>2. CASE /\ folder' = [file \in DOMAIN folder \cup {batch[1].file} |->
                            IF file = batch[1].file THEN batch[1].holds ELSE folder[file]]
           /\ batch' = Tail(batch) /\ staged' = FALSE
           /\ outcome' = IF Len(batch) = 1 THEN "saved" ELSE "none"
           /\ UNCHANGED <<included, exports, foreign>>
  <2>1. batch # <<>>
    BY DEF ExportInv, Publish
  <2>2. PICK stem \in Stem, format \in Formats, done \in Nat : Running(stem, format, done)
    BY <2>1 DEF ExportInv
  <2>3. InOrder(Included) /\ Included' = Included /\ Len(Included) \in Nat /\ Len(Included) <= MaxExportPages
    <3>1. InOrder(Included)
      BY IncludedInOrder DEF ExportInv
    <3>2. Included' = Included
      BY <1>2, Zenon DEF Included
    <3> QED
      BY <3>1, <3>2 DEF InOrder
  <2> DEFINE total == Total(Included, format)
             name == NameOf(stem, format, done + 1)
             holds == HoldsOf(Included, exports, format, done + 1)
  <2>4. done < total /\ total \in Nat /\ exports \in Nat \ {0} /\ exports' = exports
    BY <1>2, <2>1, <2>2, <2>3 DEF Running, Total, ExportInv
  <2>5. /\ batch[1].file = name /\ batch[1].holds = holds
        /\ batch' = Rest(Included, exports, stem, format, done + 1)
        /\ Len(batch) = total - done
        /\ done + 1 = total => batch' = <<>>
    <3>1. batch = Rest(Included, exports, stem, format, done) /\ batch' = Tail(batch)
      BY <1>2, <2>2 DEF Running
    <3>2. /\ batch[1] = [file |-> name, holds |-> holds]
          /\ Tail(batch) = Rest(Included, exports, stem, format, done + 1)
          /\ Len(batch) = total - done
          /\ done + 1 = total => Rest(Included, exports, stem, format, done + 1) = <<>>
      <4>1. Len(Included) \in Nat /\ done < Total(Included, format)
        BY <2>3, <2>4
      <4>2. RestGoesOn(Included, exports, stem, format, done)
        BY <4>1, RestSteps
      <4> QED
        BY <3>1, <4>2, Zenon DEF RestGoesOn
    <3> HIDE DEF name, holds, total
    <3> QED
      BY <3>1, <3>2
  <2>6. format = "pdf" \/ done + 1 <= MaxExportPages
    BY <2>3, <2>4, ExportAssumption DEF Total
  <2>7. /\ FilesOwned(folder', exports) /\ FilesWhole(folder')
        /\ Published(folder', Included, exports, stem, format, done + 1)
    <3>1. folder' = With(folder, name, holds)
      BY <1>2, <2>5, Zenon DEF With
    <3>2. KeepsFolder(folder, Included, exports, stem, format, done)
      BY <2>2 DEF ExportInv, Running, KeepsFolder
    <3>3. InOrder(Included) /\ exports \in Nat \ {0} /\ done < Total(Included, format)
      BY <2>3, <2>4
    <3>4. KeepsFolder(With(folder, name, holds), Included, exports, stem, format, done + 1)
      BY <2>6, <3>2, <3>3, PublishKeepsFolder
    <3> QED
      BY <3>1, <3>4 DEF KeepsFolder
  <2>8. CASE done + 1 = total
    <3>1. Saved(stem, format)' /\ batch' = <<>> /\ outcome' = "saved"
      BY <1>2, <2>3, <2>4, <2>5, <2>7, <2>8 DEF Saved
    <3> QED
      BY <1>2, <2>3, <2>4, <2>7, <3>1 DEF ExportInv
  <2>9. CASE done + 1 < total
    <3>1. Running(stem, format, done + 1)' /\ outcome' = "none"
      BY <1>2, <2>3, <2>4, <2>5, <2>7, <2>9 DEF Running
    <3> QED
      BY <1>2, <2>3, <2>4, <2>7, <3>1 DEF ExportInv
  <2> QED
    BY <2>4, <2>8, <2>9
<1> QED
  BY <1>1, <1>2, Zenon DEF Publish

LEMMA ExportInvStep == ExportInv /\ [ExportNext]_exportVars => ExportInv'
<1> SUFFICES ASSUME ExportInv, [ExportNext]_exportVars PROVE ExportInv'
  OBVIOUS
<1>1. ASSUME NEW stem \in Stem, NEW format \in Formats, Save(stem, format) PROVE ExportInv'
  BY <1>1, SaveKeeps
<1>2. CASE Stage
  <2>1. CASE ExportFails
    BY <2>1, ExportFailsKeeps
  <2>2. CASE batch # <<>> /\ UNCHANGED <<included, folder, batch, exports, foreign, outcome>>
    BY <2>2 DEF ExportInv, Running, Saved, Included
  <2> QED
    BY <1>2, <2>1, <2>2, Zenon DEF Stage
<1>3. CASE Publish
  BY <1>3, PublishKeepsExport
<1>4. CASE WriteFails
  BY <1>4, ExportFailsKeeps DEF WriteFails
<1>5. ASSUME NEW file \in File, OtherCreates(file) PROVE ExportInv'
  <2>1. /\ included' = included /\ Included' = Included /\ batch' = batch /\ staged' = staged
        /\ exports' = exports /\ outcome' = outcome /\ file \notin DOMAIN folder
        /\ folder' = With(folder, file, Foreign)
    BY <1>5, Zenon DEF OtherCreates, Included, Exists, With
  <2>2. FilesOwned(folder', exports) /\ FilesWhole(folder')
    BY <2>1, OtherFileKeepsFolder DEF ExportInv
  <2>3. \A stem, format, done :
          exports # 0 /\ Published(folder, Included, exports, stem, format, done)
          => Published(folder', Included, exports, stem, format, done)
    <3>1. exports \in Nat
      BY DEF ExportInv
    <3> QED
      BY <2>1, <3>1, OtherFileKeepsExport
  <2>4. \A stem, format, done :
          /\ exports # 0 /\ Running(stem, format, done) => Running(stem, format, done)'
          /\ exports # 0 /\ Saved(stem, format) => Saved(stem, format)'
    BY <2>1, <2>3 DEF Running, Saved
  <2> QED
    BY <2>1, <2>2, <2>4 DEF ExportInv
<1>6. ASSUME NEW page \in DOMAIN included, TogglePage(page) PROVE ExportInv'
  <2>1. included' \in Seq(BOOLEAN) /\ Len(included') = Len(included)
    BY <1>6 DEF TogglePage, ExportInv
  <2> QED
    BY <1>6, <2>1 DEF TogglePage, ExportInv
<1>7. CASE UNCHANGED exportVars
  BY <1>7 DEF exportVars, ExportInv, Running, Saved, Included
<1> QED
  BY <1>1, <1>2, <1>3, <1>4, <1>5, <1>6, <1>7 DEF ExportNext

-----------------------------------------------------------------------------
\* What has been published of a whole export are its pages.
LEMMA PublishedPages ==
  ASSUME NEW files, NEW kept, InOrder(kept), NEW export, NEW stem, NEW format \in Formats,
         Published(files, kept, export, stem, format, Total(kept, format))
  PROVE  ToSet(kept) = UNION {ToSet(files[file].pages) : file \in {f \in DOMAIN files : files[f].export = export}}
<1> DEFINE total == Total(kept, format)
           mine == {f \in DOMAIN files : files[f].export = export}
<1>1. Len(kept) \in Nat /\ DOMAIN kept = 1 .. Len(kept)
  BY DEF InOrder
<1>2. mine = {NameOf(stem, format, k) : k \in 1 .. total}
  <2>1. \A k \in 1 .. total : NameOf(stem, format, k) \in DOMAIN files /\ files[NameOf(stem, format, k)].export = export
    <3> TAKE k \in 1 .. total
    <3>1. HoldsOf(kept, export, format, k).export = export
      BY DEF HoldsOf
    <3> HIDE DEF total
    <3> QED
      BY <3>1, Zenon DEF Published, total
  <2>2. \A f \in mine : \E k \in 1 .. total : f = NameOf(stem, format, k)
    BY Zenon DEF Published
  <2> HIDE DEF total
  <2> QED
    BY <2>1, <2>2
<1>3. \A k \in 1 .. total : ToSet(files[NameOf(stem, format, k)].pages) =
                            IF format = "pdf" THEN ToSet(kept) ELSE {kept[k]}
  <2> TAKE k \in 1 .. total
  <2>1. files[NameOf(stem, format, k)].pages = IF format = "pdf" THEN kept ELSE <<kept[k]>>
    <3>1. HoldsOf(kept, export, format, k).pages = IF format = "pdf" THEN kept ELSE <<kept[k]>>
      BY DEF HoldsOf
    <3> HIDE DEF total
    <3> QED
      BY <3>1, Zenon DEF Published, total
  <2>2. \A e : ToSet(<<e>>) = {e}
    BY DEF ToSet
  <2> QED
    BY <2>1, <2>2
<1>4. ToSet(kept) = UNION {IF format = "pdf" THEN ToSet(kept) ELSE {kept[k]} : k \in 1 .. total}
  <2>1. CASE format = "pdf"
    BY <2>1 DEF Total
  <2>2. CASE format # "pdf"
    BY <1>1, <2>2 DEF Total, ToSet
  <2> QED
    BY <2>1, <2>2
<1> HIDE DEF total, mine
<1>5. UNION {ToSet(files[file].pages) : file \in mine} =
        UNION {IF format = "pdf" THEN ToSet(kept) ELSE {kept[k]} : k \in 1 .. total}
  <2> DEFINE name(k) == NameOf(stem, format, k)
             part(k) == ToSet(files[name(k)].pages)
             share(k) == IF format = "pdf" THEN ToSet(kept) ELSE {kept[k]}
  <2>1. \A k \in 1 .. total : part(k) = share(k)
    BY <1>3
  <2>2. mine = {name(k) : k \in 1 .. total}
    BY <1>2
  <2> HIDE DEF name, share
  <2>3. UNION {ToSet(files[file].pages) : file \in mine} = UNION {part(k) : k \in 1 .. total}
    BY <2>2
  <2>4. {part(k) : k \in 1 .. total} = {share(k) : k \in 1 .. total}
    BY <2>1
  <2> QED
    BY <2>3, <2>4 DEF share
<1> QED
  BY <1>4, <1>5 DEF mine

LEMMA ExportInvIsWhole == ExportInv => ExportsAreWhole
<1> SUFFICES ASSUME ExportInv PROVE ExportsAreWhole
  OBVIOUS
<1>1. ASSUME NEW file \in DOMAIN folder, NEW other \in DOMAIN folder,
             Foreign \notin {folder[file], folder[other]},
             file.stem = other.stem /\ file.format = other.format
      PROVE  /\ folder[file].export = folder[other].export
             /\ file.number < other.number => folder[file].pages[1] < folder[other].pages[1]
             /\ \A number \in 1 .. file.number : Exists([file EXCEPT !.number = number])
  <2>1. Agree(folder, file, other)
    BY <1>1 DEF ExportInv, FilesWhole
  <2> QED
    BY <2>1, Zenon DEF Agree, Exists
<1>2. ASSUME outcome = "saved"
      PROVE  ToSet(Included) =
               UNION {ToSet(folder[file].pages) : file \in {f \in DOMAIN folder : folder[f].export = exports}}
  <2>1. PICK stem \in Stem, format \in Formats : Saved(stem, format)
    BY <1>2 DEF ExportInv
  <2>2. InOrder(Included)
    BY IncludedInOrder DEF ExportInv
  <2> QED
    BY <2>1, <2>2, PublishedPages DEF Saved
<1> QED
  BY <1>1, <1>2 DEF ExportsAreWhole

\* The files that exports left under one name are the first pages of one export, in
\* session order and without a gap, and an export that says it has saved the document
\* has saved every included page: for any number of pages, and whether or not
\* rename() replaces a file.
THEOREM ExportsStayWhole == ExportSpec => []ExportsAreWhole
  BY ExportInvInit, ExportInvStep, ExportInvIsWhole, PTL DEF ExportSpec

\* A file that an export is to publish.
Item == [file : File, holds : Contents]

FileTypes ==
  /\ DOMAIN folder \subseteq File
  /\ \A file \in DOMAIN folder : folder[file] \in Contents
  /\ batch \in Seq(Item)

CounterTypes == exports \in 0 .. MaxExports /\ foreign \in 0 .. MaxForeign

FlagTypes == staged \in BOOLEAN /\ outcome \in {"none", "saved", "failed"}

\* The numbers of the files fit the session's limit.
LEMMA FilesOfAreItems ==
  ASSUME ExportInv, NEW stem \in Stem, NEW format \in Formats
  PROVE  FilesOf(stem, format) \in Seq(Item)
<1>1. Included \in Seq(Nat) /\ Len(Included) <= MaxExportPages /\ exports + 1 \in Nat
  BY IncludedInOrder DEF ExportInv, InOrder
<1>2. CASE format = "pdf"
  <2> DEFINE item == [file |-> [stem |-> stem, format |-> format, number |-> 0],
                      holds |-> [export |-> exports + 1, pages |-> Included]]
  <2>1. item \in Item
    BY <1>1, ExportAssumption DEF Item, File, Contents
  <2>2. FilesOf(stem, format) = <<item>>
    BY <1>2, Zenon DEF FilesOf
  <2> HIDE DEF item
  <2> QED
    BY <2>1, <2>2
<1>3. CASE format # "pdf"
  <2> DEFINE item(i) == [file |-> [stem |-> stem, format |-> format, number |-> i],
                         holds |-> [export |-> exports + 1, pages |-> <<Included[i]>>]]
  <2>1. \A i \in 1 .. Len(Included) : item(i) \in Item
    <3> TAKE i \in 1 .. Len(Included)
    <3>1. i \in 0 .. MaxExportPages /\ <<Included[i]>> \in Seq(Nat)
      BY <1>1, ExportAssumption
    <3> QED
      BY <1>1, <3>1 DEF Item, File, Contents
  <2>2. FilesOf(stem, format) = [i \in DOMAIN Included |-> item(i)]
    BY <1>3, Zenon DEF FilesOf
  <2>3. DOMAIN Included = 1 .. Len(Included) /\ Len(Included) \in Nat
    BY <1>1
  <2> HIDE DEF item
  <2> QED
    BY <2>1, <2>2, <2>3
<1> QED
  BY <1>2, <1>3

\* A name that gets other contents, or is new.
LEMMA WithTypes ==
  ASSUME FileTypes, NEW name \in File, NEW holds \in Contents,
         folder' = [file \in DOMAIN folder \cup {name} |-> IF file = name THEN holds ELSE folder[file]]
  PROVE  DOMAIN folder' \subseteq File /\ \A file \in DOMAIN folder' : folder'[file] \in Contents
  BY DEF FileTypes

LEMMA FileTypesStep ==
  ASSUME ExportInv, FileTypes, [ExportNext]_exportVars
  PROVE  FileTypes'
<1>1. ASSUME NEW stem \in Stem, NEW format \in Formats, Save(stem, format) PROVE FileTypes'
  <2>1. UNCHANGED folder /\ (UNCHANGED batch \/ batch' = FilesOf(stem, format))
    BY <1>1, Zenon DEF Save
  <2> QED
    BY <2>1, FilesOfAreItems DEF FileTypes
<1>2. ExportFails => FileTypes'
  <2> SUFFICES ASSUME ExportFails PROVE FileTypes'
    OBVIOUS
  <2>1. UNCHANGED folder /\ batch' = <<>>
    BY DEF ExportFails
  <2>2. batch' \in Seq(Item)
    BY <2>1
  <2> QED
    BY <2>1, <2>2 DEF FileTypes
<1>3. CASE Stage
  BY <1>2, <1>3 DEF Stage, FileTypes
<1>4. CASE Publish
  <2>1. batch \in Seq(Item) /\ batch # <<>>
    BY <1>4 DEF Publish, ExportInv, FileTypes
  <2>2. batch[1] \in Item /\ Tail(batch) \in Seq(Item)
    BY <2>1
  <2>3. batch[1].file \in File /\ batch[1].holds \in Contents
    BY <2>2 DEF Item
  <2>4. CASE /\ folder' = [file \in DOMAIN folder \cup {batch[1].file} |->
                             IF file = batch[1].file THEN batch[1].holds ELSE folder[file]]
             /\ batch' = Tail(batch)
    <3>1. DOMAIN folder' \subseteq File /\ \A file \in DOMAIN folder' : folder'[file] \in Contents
      BY <2>3, <2>4, WithTypes
    <3> QED
      BY <2>2, <2>4, <3>1 DEF FileTypes
  <2> QED
    BY <1>2, <1>4, <2>4, Zenon DEF Publish
<1>5. CASE WriteFails
  BY <1>2, <1>5 DEF WriteFails
<1>6. ASSUME NEW file \in File, OtherCreates(file) PROVE FileTypes'
  <2>1. /\ folder' = [f \in DOMAIN folder \cup {file} |-> IF f = file THEN Foreign ELSE folder[f]]
        /\ UNCHANGED batch
    BY <1>6 DEF OtherCreates
  <2>2. Foreign \in Contents
    BY DEF Foreign, Contents
  <2>3. DOMAIN folder' \subseteq File /\ \A f \in DOMAIN folder' : folder'[f] \in Contents
    BY <2>1, <2>2, WithTypes
  <2> QED
    BY <2>1, <2>3 DEF FileTypes
<1>7. CASE (\E page \in DOMAIN included : TogglePage(page)) \/ UNCHANGED exportVars
  BY <1>7 DEF TogglePage, exportVars, FileTypes
<1> QED
  BY <1>1, <1>3, <1>4, <1>5, <1>6, <1>7, Zenon DEF ExportNext

LEMMA CounterTypesStep == CounterTypes /\ [ExportNext]_exportVars => CounterTypes'
<1> SUFFICES ASSUME CounterTypes, [ExportNext]_exportVars PROVE CounterTypes'
  OBVIOUS
<1>1. \/ exports < MaxExports /\ exports' = exports + 1 /\ UNCHANGED foreign
      \/ foreign < MaxForeign /\ foreign' = foreign + 1 /\ UNCHANGED exports
      \/ UNCHANGED <<exports, foreign>>
  BY Zenon DEF ExportNext, Save, Stage, Publish, WriteFails, ExportFails, OtherCreates, TogglePage, exportVars
<1> QED
  BY <1>1, ExportAssumption DEF CounterTypes

LEMMA FlagTypesStep == FlagTypes /\ [ExportNext]_exportVars => FlagTypes'
<1> SUFFICES ASSUME FlagTypes, [ExportNext]_exportVars PROVE FlagTypes'
  OBVIOUS
<1>1. staged' \in {TRUE, FALSE, staged} /\ outcome' \in {"none", "saved", "failed", outcome}
  BY Zenon DEF ExportNext, Save, Stage, Publish, WriteFails, ExportFails, OtherCreates, TogglePage, exportVars
<1> QED
  BY <1>1, Zenon DEF FlagTypes

\* However exports end and whatever other programs create, the files that an export
\* still has to publish have names within the session's limit and hold pages of it.
THEOREM ExportTypeCorrect == ExportSpec => []ExportTypeOK
<1>1. ExportInit => FileTypes /\ CounterTypes /\ FlagTypes
  <2> SUFFICES ASSUME ExportInit PROVE FileTypes /\ CounterTypes /\ FlagTypes
    OBVIOUS
  <2>1. /\ folder = <<>> /\ batch = <<>> /\ staged = FALSE
        /\ exports = 0 /\ foreign = 0 /\ outcome = "none"
    BY DEF ExportInit
  <2>2. DOMAIN folder = {} /\ batch \in Seq(Item)
    BY <2>1
  <2>3. FlagTypes
    BY <2>1, Zenon DEF FlagTypes
  <2> QED
    BY <2>1, <2>2, <2>3, ExportAssumption DEF FileTypes, CounterTypes
<1>2. ExportInv /\ FileTypes /\ CounterTypes /\ FlagTypes => ExportTypeOK
  BY Zenon DEF ExportInv, FileTypes, CounterTypes, FlagTypes, ExportTypeOK, Item
<1>3. ExportInv /\ FileTypes /\ [ExportNext]_exportVars => FileTypes'
  BY FileTypesStep
<1> QED
  BY <1>1, <1>2, <1>3, ExportInvInit, ExportInvStep, CounterTypesStep, FlagTypesStep, PTL DEF ExportSpec

-----------------------------------------------------------------------------
(* The rendering of a page.                                                *)

\* The column and row of a pixel in an image of this width and height, and its index.
Inside(w, h, x, y) ==
  /\ w \in Nat \ {0} /\ h \in Nat \ {0}
  /\ x \in 0 .. w - 1 /\ y \in 0 .. h - 1

Indexes(w, h, i, x, y) ==
  /\ Inside(w, h, x, y) /\ i \in 1 .. w * h
  /\ i = At(w, x, y) /\ x = (i - 1) % w /\ y = (i - 1) \div w

LEMMA IndexOfPosition ==
  ASSUME NEW w, NEW h, NEW x, NEW y, Inside(w, h, x, y)
  PROVE  Indexes(w, h, At(w, x, y), x, y)
<1>0. w \in Nat \ {0} /\ h \in Nat \ {0} /\ x \in 0 .. w - 1 /\ y \in 0 .. h - 1
  BY DEF Inside
<1>1. At(w, x, y) - 1 = y * w + x /\ y * w \in Nat /\ w * h \in Nat /\ At(w, x, y) \in Int
  BY <1>0 DEF At
<1>2. (y * w + x) % w = x
  BY <1>0
<1>3. (y * w + x) \div w = y
  BY <1>0
<1>4. y * w + x < w * h
  <2>1. y * w <= (h - 1) * w
    BY <1>0, TimesKeepsOrder
  <2>2. (h - 1) * w = w * h - w
    BY <1>0
  <2> DEFINE rows == y * w
             all == w * h
  <2>3. rows <= all - w /\ rows \in Int /\ all \in Int
    BY <1>0, <1>1, <2>1, <2>2
  <2> HIDE DEF rows, all
  <2>4. rows + x < all
    BY <1>0, <2>3
  <2> QED
    BY <2>4 DEF rows, all
<1>5. At(w, x, y) \in 1 .. w * h
  <2> DEFINE rows == y * w
             all == w * h
             i == At(w, x, y)
  <2>1. i - 1 = rows + x /\ rows \in Nat /\ all \in Nat /\ i \in Int /\ rows + x < all
    BY <1>1, <1>4
  <2> HIDE DEF rows, all, i
  <2>2. i \in 1 .. all
    BY <1>0, <2>1
  <2> QED
    BY <2>2 DEF all, i
<1> QED
  BY <1>1, <1>2, <1>3, <1>5 DEF Indexes

LEMMA PositionOfIndex ==
  ASSUME NEW w \in Nat \ {0}, NEW h \in Nat \ {0}, NEW i \in 1 .. w * h
  PROVE  Indexes(w, h, i, (i - 1) % w, (i - 1) \div w)
<1> DEFINE y == (i - 1) \div w
           x == (i - 1) % w
<1>1. i - 1 \in Nat /\ i - 1 < w * h
  OBVIOUS
<1>2. y \in Int /\ y * w <= i - 1 /\ i - 1 < y * w + w
  BY <1>1, QuotientBounds
<1>3. x = i - 1 - y * w
  OBVIOUS
<1> HIDE DEF x, y
<1>4. y \in 0 .. h - 1
  <2>1. y * w < h * w
    BY <1>1, <1>2
  <2>2. y < h
    BY <1>2, <2>1, TimesKeepsOrder
  <2>3. 0 * w < (y + 1) * w
    BY <1>1, <1>2
  <2>4. 0 < y + 1
    BY <1>2, <2>3, TimesKeepsOrder
  <2> QED
    BY <1>2, <2>2, <2>4
<1>5. x \in 0 .. w - 1 /\ i = At(w, x, y)
  BY <1>1, <1>2, <1>3 DEF At
<1>6. Inside(w, h, x, y)
  BY <1>4, <1>5 DEF Inside
<1> QED
  BY <1>5, <1>6, Zenon DEF Indexes, x, y

\* An image of this width and height.
Drawn(image, w, h) ==
  /\ w \in Nat \ {0} /\ h \in Nat \ {0}
  /\ image = [width |-> w, height |-> h, pixels |-> image.pixels]
  /\ image.pixels \in [1 .. w * h -> 0 .. MaxSample]

LEMMA DrawnSize ==
  ASSUME NEW image, NEW w, NEW h, Drawn(image, w, h)
  PROVE  /\ image.width = w /\ image.height = h
         /\ DOMAIN image.pixels = 1 .. w * h
  BY DEF Drawn

LEMMA DrawnPixel ==
  ASSUME NEW image, NEW w, NEW h, Drawn(image, w, h), NEW x, NEW y, Inside(w, h, x, y)
  PROVE  Pixel(image, x, y) = image.pixels[At(w, x, y)] /\ Pixel(image, x, y) \in 0 .. MaxSample
<1>1. Pixel(image, x, y) = image.pixels[At(w, x, y)]
  BY DrawnSize DEF Pixel
<1>2. At(w, x, y) \in 1 .. w * h
  BY IndexOfPosition DEF Indexes
<1> QED
  BY <1>1, <1>2 DEF Drawn

\* An image is what is in its columns and rows.
LEMMA SameImage ==
  ASSUME NEW a, NEW b, NEW w, NEW h, Drawn(a, w, h), Drawn(b, w, h),
         \A x, y : Inside(w, h, x, y) => Pixel(a, x, y) = Pixel(b, x, y)
  PROVE  a = b
<1>1. \A i \in 1 .. w * h : a.pixels[i] = b.pixels[i]
  <2> TAKE i \in 1 .. w * h
  <2> DEFINE x == (i - 1) % w
             y == (i - 1) \div w
  <2>1. Indexes(w, h, i, x, y)
    BY PositionOfIndex DEF Drawn
  <2> HIDE DEF x, y
  <2>2. Inside(w, h, x, y) /\ At(w, x, y) = i
    BY <2>1 DEF Indexes
  <2>3. Pixel(a, x, y) = a.pixels[i] /\ Pixel(b, x, y) = b.pixels[i]
    BY <2>2, DrawnPixel
  <2> QED
    BY <2>2, <2>3
<1>2. a.pixels = b.pixels
  BY <1>1 DEF Drawn
<1> QED
  BY <1>2, Zenon DEF Drawn

\* What Image() makes of a table of samples.
IsTable(table, w, h) ==
  /\ w \in Nat \ {0} /\ h \in Nat \ {0}
  /\ table \in [(0 .. w - 1) \X (0 .. h - 1) -> 0 .. MaxSample]

TableImage(table, w, h) ==
  [width |-> w, height |-> h,
   pixels |-> [i \in 1 .. w * h |-> table[<<(i - 1) % w, (i - 1) \div w>>]]]

Shows(image, w, h, table) ==
  /\ Drawn(image, w, h)
  /\ \A x, y : Inside(w, h, x, y) => Pixel(image, x, y) = table[<<x, y>>]

LEMMA TableImageShows ==
  ASSUME NEW w, NEW h, NEW table, IsTable(table, w, h)
  PROVE  Shows(TableImage(table, w, h), w, h, table)
<1> DEFINE image == TableImage(table, w, h)
<1>0. /\ w \in Nat \ {0} /\ h \in Nat \ {0}
      /\ table \in [(0 .. w - 1) \X (0 .. h - 1) -> 0 .. MaxSample]
  BY DEF IsTable
<1>1. \A i \in 1 .. w * h : <<(i - 1) % w, (i - 1) \div w>> \in (0 .. w - 1) \X (0 .. h - 1)
  BY <1>0, PositionOfIndex DEF Indexes, Inside
<1>2. /\ image = [width |-> w, height |-> h, pixels |-> image.pixels]
      /\ image.pixels = [i \in 1 .. w * h |-> table[<<(i - 1) % w, (i - 1) \div w>>]]
  BY DEF TableImage
<1>3. \A i \in 1 .. w * h : table[<<(i - 1) % w, (i - 1) \div w>>] \in 0 .. MaxSample
  BY <1>0, <1>1
<1> HIDE DEF image
<1>4. Drawn(image, w, h)
  BY <1>0, <1>2, <1>3 DEF Drawn
<1>5. ASSUME NEW x, NEW y, Inside(w, h, x, y)
      PROVE  Pixel(image, x, y) = table[<<x, y>>]
  <2> DEFINE i == At(w, x, y)
  <2>1. Pixel(image, x, y) = image.pixels[i]
    BY <1>4, <1>5, DrawnPixel
  <2>2. Indexes(w, h, i, x, y)
    BY <1>5, IndexOfPosition, Zenon
  <2> HIDE DEF i
  <2>3. i \in 1 .. w * h /\ x = (i - 1) % w /\ y = (i - 1) \div w
    BY <2>2, Zenon DEF Indexes
  <2> QED
    BY <1>2, <2>1, <2>3, Zenon
<1>6. Shows(image, w, h, table)
  BY <1>4, <1>5, Zenon DEF Shows
<1> QED
  BY <1>6 DEF image

\* A quarter turn.
IsQuarter(turned, image, w, h) ==
  /\ Drawn(turned, h, w)
  /\ \A x, y : Inside(h, w, x, y) => Pixel(turned, x, y) = Pixel(image, y, h - 1 - x)

LEMMA QuarterOf ==
  ASSUME NEW image, NEW w, NEW h, Drawn(image, w, h)
  PROVE  IsQuarter(Quarter(image), image, w, h)
<1> DEFINE E(x, y) == Pixel(image, y, h - 1 - x)
           table == [p \in (0 .. h - 1) \X (0 .. w - 1) |-> E(p[1], p[2])]
<1>0. w \in Nat \ {0} /\ h \in Nat \ {0} /\ image.width = w /\ image.height = h
  BY DrawnSize DEF Drawn
<1>1. Quarter(image) = [width |-> h, height |-> w,
                        pixels |-> [i \in 1 .. h * w |-> E((i - 1) % h, (i - 1) \div h)]]
  BY <1>0 DEF Quarter, Image
<1>2. \A x \in 0 .. h - 1, y \in 0 .. w - 1 : E(x, y) \in 0 .. MaxSample
  <2> TAKE x \in 0 .. h - 1, y \in 0 .. w - 1
  <2>1. Inside(w, h, y, h - 1 - x)
    BY <1>0 DEF Inside
  <2> QED
    BY <2>1, DrawnPixel, Zenon
<1> HIDE DEF E
<1>3. IsTable(table, h, w)
  BY <1>0, <1>2 DEF IsTable
<1>4. \A x \in 0 .. h - 1, y \in 0 .. w - 1 : table[<<x, y>>] = E(x, y)
  OBVIOUS
<1> HIDE DEF table
<1>5. \A i \in 1 .. h * w : E((i - 1) % h, (i - 1) \div h) = table[<<(i - 1) % h, (i - 1) \div h>>]
  <2> TAKE i \in 1 .. h * w
  <2> DEFINE x == (i - 1) % h
             y == (i - 1) \div h
  <2>1. Indexes(h, w, i, x, y)
    BY <1>0, PositionOfIndex
  <2> HIDE DEF x, y
  <2>2. x \in 0 .. h - 1 /\ y \in 0 .. w - 1
    BY <2>1 DEF Indexes, Inside
  <2>3. E(x, y) = table[<<x, y>>]
    BY <1>4, <2>2
  <2> QED
    BY <2>3 DEF x, y
<1>6. Quarter(image) = TableImage(table, h, w)
  <2>1. [i \in 1 .. h * w |-> E((i - 1) % h, (i - 1) \div h)] =
          [i \in 1 .. h * w |-> table[<<(i - 1) % h, (i - 1) \div h>>]]
    BY <1>5
  <2> QED
    BY <1>1, <2>1, Zenon DEF TableImage
<1>7. Shows(Quarter(image), h, w, table)
  BY <1>3, <1>6, TableImageShows
<1>8. \A x, y : Inside(h, w, x, y) => Pixel(Quarter(image), x, y) = E(x, y)
  BY <1>4, <1>7 DEF Shows, Inside
<1> QED
  BY <1>7, <1>8 DEF E, IsQuarter, Shows

\* Where the rotation loop takes the pixel in column x and row y from.
SourceX(w, rotation, x, y) == IF rotation = 90 THEN y ELSE IF rotation = 180 THEN w - 1 - x ELSE w - 1 - y
SourceY(h, rotation, x, y) == IF rotation = 90 THEN h - 1 - x ELSE IF rotation = 180 THEN h - 1 - y ELSE x

TurnedWidth(w, h, rotation) == IF rotation \in {90, 270} THEN h ELSE w

IsRotated(turned, image, w, h, rotation) ==
  LET W == TurnedWidth(w, h, rotation)
      H == TurnedWidth(h, w, rotation)
  IN /\ Drawn(turned, W, H)
     /\ \A x, y : Inside(W, H, x, y) =>
          Pixel(turned, x, y) = Pixel(image, SourceX(w, rotation, x, y), SourceY(h, rotation, x, y))

\* It is the only pixel that the loop puts there.
LEMMA OneSource ==
  ASSUME NEW image, NEW w, NEW h, Drawn(image, w, h), NEW rotation \in {90, 180, 270},
         NEW x, NEW y, Inside(TurnedWidth(w, h, rotation), TurnedWidth(h, w, rotation), x, y)
  PROVE  LET sx == SourceX(w, rotation, x, y)
             sy == SourceY(h, rotation, x, y)
         IN /\ Inside(w, h, sx, sy)
            /\ Target(image, rotation, sx, sy) = <<x, y>>
            /\ \A a, b : Inside(w, h, a, b) /\ Target(image, rotation, a, b) = <<x, y>> => a = sx /\ b = sy
<1>0. /\ w \in Nat \ {0} /\ h \in Nat \ {0} /\ image.width = w /\ image.height = h
      /\ x \in 0 .. TurnedWidth(w, h, rotation) - 1 /\ y \in 0 .. TurnedWidth(h, w, rotation) - 1
  BY DrawnSize DEF Drawn, Inside
<1>1. CASE rotation = 90
  <2>1. /\ SourceX(w, rotation, x, y) = y /\ SourceY(h, rotation, x, y) = h - 1 - x
        /\ x \in 0 .. h - 1 /\ y \in 0 .. w - 1
    BY <1>0, <1>1 DEF SourceX, SourceY, TurnedWidth
  <2>2. \A a, b : Target(image, rotation, a, b) = <<h - 1 - b, a>>
    BY <1>0, <1>1 DEF Target
  <2> QED
    BY <1>0, <2>1, <2>2 DEF Inside
<1>2. CASE rotation = 180
  <2>1. /\ SourceX(w, rotation, x, y) = w - 1 - x /\ SourceY(h, rotation, x, y) = h - 1 - y
        /\ x \in 0 .. w - 1 /\ y \in 0 .. h - 1
    BY <1>0, <1>2 DEF SourceX, SourceY, TurnedWidth
  <2>2. \A a, b : Target(image, rotation, a, b) = <<w - 1 - a, h - 1 - b>>
    BY <1>0, <1>2 DEF Target
  <2> QED
    BY <1>0, <2>1, <2>2 DEF Inside
<1>3. CASE rotation = 270
  <2>1. /\ SourceX(w, rotation, x, y) = w - 1 - y /\ SourceY(h, rotation, x, y) = x
        /\ x \in 0 .. h - 1 /\ y \in 0 .. w - 1
    BY <1>0, <1>3 DEF SourceX, SourceY, TurnedWidth
  <2>2. \A a, b : Target(image, rotation, a, b) = <<b, w - 1 - a>>
    BY <1>0, <1>3 DEF Target
  <2> QED
    BY <1>0, <2>1, <2>2 DEF Inside
<1> QED
  BY <1>1, <1>2, <1>3

LEMMA RotatedOf ==
  ASSUME NEW image, NEW w, NEW h, Drawn(image, w, h), NEW rotation \in {90, 180, 270}
  PROVE  IsRotated(Rotated(image, rotation), image, w, h, rotation)
<1> DEFINE W == TurnedWidth(w, h, rotation)
           H == TurnedWidth(h, w, rotation)
           Lands(i, x, y) ==
             Target(image, rotation, (i - 1) % image.width, (i - 1) \div image.width) = <<x, y>>
           source(x, y) == CHOOSE i \in DOMAIN image.pixels : Lands(i, x, y)
           E(x, y) == image.pixels[source(x, y)]
           From(x, y) == Pixel(image, SourceX(w, rotation, x, y), SourceY(h, rotation, x, y))
           table == [p \in (0 .. W - 1) \X (0 .. H - 1) |-> E(p[1], p[2])]
<1>0. /\ w \in Nat \ {0} /\ h \in Nat \ {0} /\ image.width = w /\ image.height = h
      /\ DOMAIN image.pixels = 1 .. w * h
      /\ W \in Nat \ {0} /\ H \in Nat \ {0}
  <2>1. /\ w \in Nat \ {0} /\ h \in Nat \ {0} /\ image.width = w /\ image.height = h
        /\ DOMAIN image.pixels = 1 .. w * h
    BY DrawnSize DEF Drawn
  <2> QED
    BY <2>1 DEF TurnedWidth
<1>1. ASSUME NEW x, NEW y, Inside(W, H, x, y)
      PROVE  E(x, y) = From(x, y) /\ E(x, y) \in 0 .. MaxSample
  <2> DEFINE sx == SourceX(w, rotation, x, y)
             sy == SourceY(h, rotation, x, y)
             j == At(w, sx, sy)
  <2>1. /\ Inside(w, h, sx, sy)
        /\ Target(image, rotation, sx, sy) = <<x, y>>
        /\ \A a, b : Inside(w, h, a, b) /\ Target(image, rotation, a, b) = <<x, y>> => a = sx /\ b = sy
    BY <1>1, OneSource
  <2> HIDE DEF sx, sy
  <2>2. j \in 1 .. w * h /\ Lands(j, x, y)
    <3>1. Indexes(w, h, j, sx, sy)
      BY <2>1, IndexOfPosition
    <3> HIDE DEF j
    <3>2. j \in 1 .. w * h /\ sx = (j - 1) % w /\ sy = (j - 1) \div w
      BY <3>1, Zenon DEF Indexes
    <3> QED
      BY <1>0, <2>1, <3>2, Zenon
  <2>3. ASSUME NEW i \in 1 .. w * h, Lands(i, x, y) PROVE i = j
    <3> DEFINE a == (i - 1) % w
               b == (i - 1) \div w
    <3>1. Indexes(w, h, i, a, b)
      BY <1>0, PositionOfIndex
    <3>2. Target(image, rotation, a, b) = <<x, y>>
      BY <1>0, <2>3, Zenon
    <3> HIDE DEF a, b
    <3>3. a = sx /\ b = sy
      BY <2>1, <3>1, <3>2, Zenon DEF Indexes
    <3> QED
      BY <3>1, <3>3, Zenon DEF Indexes
  <2> HIDE DEF j, Lands
  <2>4. source(x, y) = j
    <3>1. \E i \in DOMAIN image.pixels : Lands(i, x, y)
      BY <1>0, <2>2
    <3>2. source(x, y) \in DOMAIN image.pixels /\ Lands(source(x, y), x, y)
      BY <3>1, Zenon
    <3> HIDE DEF source
    <3> QED
      BY <1>0, <2>3, <3>2
  <2> HIDE DEF source
  <2>5. Pixel(image, sx, sy) = image.pixels[At(w, sx, sy)] /\ Pixel(image, sx, sy) \in 0 .. MaxSample
    BY <2>1, DrawnPixel
  <2> QED
    BY <2>4, <2>5 DEF j, sx, sy
<1>2. Rotated(image, rotation) = [width |-> W, height |-> H,
                                  pixels |-> [i \in 1 .. W * H |-> E((i - 1) % W, (i - 1) \div W)]]
  <2>1. rotation # 0
    OBVIOUS
  <2> DEFINE width == IF rotation \in {90, 270} THEN image.height ELSE image.width
             height == IF rotation \in {90, 270} THEN image.width ELSE image.height
  <2>2. W = width /\ H = height
    BY <1>0, Zenon DEF TurnedWidth
  <2>3. Rotated(image, rotation) =
          [width |-> width, height |-> height,
           pixels |-> [i \in 1 .. width * height |-> E((i - 1) % width, (i - 1) \div width)]]
    BY <2>1, Zenon DEF Rotated, Image
  <2> HIDE DEF width, height, W, H, E
  <2> QED
    BY <2>2, <2>3
<1> HIDE DEF E, From, W, H
<1>3. IsTable(table, W, H)
  BY <1>0, <1>1 DEF IsTable, Inside
<1>4. \A x \in 0 .. W - 1, y \in 0 .. H - 1 : table[<<x, y>>] = E(x, y)
  OBVIOUS
<1> HIDE DEF table
<1>5. \A i \in 1 .. W * H : E((i - 1) % W, (i - 1) \div W) = table[<<(i - 1) % W, (i - 1) \div W>>]
  <2> TAKE i \in 1 .. W * H
  <2> DEFINE x == (i - 1) % W
             y == (i - 1) \div W
  <2>1. Indexes(W, H, i, x, y)
    BY <1>0, PositionOfIndex
  <2> HIDE DEF x, y
  <2>2. x \in 0 .. W - 1 /\ y \in 0 .. H - 1
    BY <2>1 DEF Indexes, Inside
  <2>3. E(x, y) = table[<<x, y>>]
    BY <1>4, <2>2
  <2> QED
    BY <2>3 DEF x, y
<1>6. Rotated(image, rotation) = TableImage(table, W, H)
  <2>1. [i \in 1 .. W * H |-> E((i - 1) % W, (i - 1) \div W)] =
          [i \in 1 .. W * H |-> table[<<(i - 1) % W, (i - 1) \div W>>]]
    BY <1>5
  <2> QED
    BY <1>2, <2>1, Zenon DEF TableImage
<1>7. Shows(Rotated(image, rotation), W, H, table)
  BY <1>3, <1>6, TableImageShows
<1>8. \A x, y : Inside(W, H, x, y) => Pixel(Rotated(image, rotation), x, y) = From(x, y)
  <2> TAKE x, y
  <2> HAVE Inside(W, H, x, y)
  <2>1. Pixel(Rotated(image, rotation), x, y) = table[<<x, y>>]
    BY <1>7 DEF Shows
  <2>2. table[<<x, y>>] = E(x, y)
    BY <1>4 DEF Inside
  <2> QED
    BY <1>1, <2>1, <2>2
<1> QED
  BY <1>7, <1>8 DEF From, W, H, IsRotated, Shows

\* Turning by so many degrees is turning by so many quarters.
IsTurned(turned, image, rotation) ==
  /\ turned = TurnedBy(image)[rotation \div 90]
  /\ \E W, H : Drawn(turned, W, H)

LEMMA TurnedIs ==
  ASSUME NEW image, NEW w, NEW h, Drawn(image, w, h), NEW rotation \in {0, 90, 180, 270}
  PROVE  IsTurned(Rotated(image, rotation), image, rotation)
<1> SUFFICES /\ Rotated(image, rotation) = TurnedBy(image)[rotation \div 90]
             /\ \E W, H : Drawn(Rotated(image, rotation), W, H)
  BY Zenon DEF IsTurned
<1> DEFINE first == Quarter(image)
           second == Quarter(first)
           third == Quarter(second)
<1>0. w \in Nat \ {0} /\ h \in Nat \ {0}
  BY DEF Drawn
<1>1. IsQuarter(first, image, w, h)
  BY QuarterOf
<1> HIDE DEF first
<1>2. IsQuarter(second, first, h, w)
  <2>1. Drawn(first, h, w)
    BY <1>1 DEF IsQuarter
  <2> QED
    BY <2>1, QuarterOf
<1> HIDE DEF second
<1>3. IsQuarter(third, second, w, h)
  <2>1. Drawn(second, w, h)
    BY <1>2 DEF IsQuarter
  <2> QED
    BY <2>1, QuarterOf
<1>4. /\ TurnedBy(image)[0] = image /\ TurnedBy(image)[1] = first
      /\ TurnedBy(image)[2] = second /\ TurnedBy(image)[3] = third
  BY DEF TurnedBy, first, second
<1> HIDE DEF third
<1>5. CASE rotation = 0
  <2>1. Rotated(image, rotation) = image /\ rotation \div 90 = 0
    BY <1>5 DEF Rotated
  <2> QED
    BY <1>4, <2>1
<1> DEFINE turned == Rotated(image, rotation)
<1>6. CASE rotation = 90
  <2>1. IsRotated(turned, image, w, h, rotation)
    BY <1>6, RotatedOf
  <2> HIDE DEF turned
  <2>2. Drawn(turned, h, w)
    BY <1>6, <2>1 DEF IsRotated, TurnedWidth
  <2>3. ASSUME NEW x, NEW y, Inside(h, w, x, y) PROVE Pixel(turned, x, y) = Pixel(first, x, y)
    <3>1. Pixel(turned, x, y) = Pixel(image, y, h - 1 - x)
      BY <1>6, <2>1, <2>3 DEF IsRotated, TurnedWidth, SourceX, SourceY
    <3>2. Pixel(first, x, y) = Pixel(image, y, h - 1 - x)
      BY <1>1, <2>3 DEF IsQuarter
    <3> QED
      BY <3>1, <3>2
  <2>4. turned = first
    BY <1>1, <2>2, <2>3, SameImage DEF IsQuarter
  <2>5. rotation \div 90 = 1
    BY <1>6
  <2> QED
    BY <1>4, <2>2, <2>4, <2>5, Zenon DEF turned
<1>7. CASE rotation = 180
  <2>1. IsRotated(turned, image, w, h, rotation)
    BY <1>7, RotatedOf
  <2> HIDE DEF turned
  <2>2. Drawn(turned, w, h)
    BY <1>7, <2>1 DEF IsRotated, TurnedWidth
  <2>3. ASSUME NEW x, NEW y, Inside(w, h, x, y) PROVE Pixel(turned, x, y) = Pixel(second, x, y)
    <3>1. Pixel(turned, x, y) = Pixel(image, w - 1 - x, h - 1 - y)
      BY <1>7, <2>1, <2>3 DEF IsRotated, TurnedWidth, SourceX, SourceY
    <3>2. Pixel(second, x, y) = Pixel(first, y, w - 1 - x)
      BY <1>2, <2>3 DEF IsQuarter
    <3>3. Inside(h, w, y, w - 1 - x)
      BY <2>3 DEF Inside
    <3>4. Pixel(first, y, w - 1 - x) = Pixel(image, w - 1 - x, h - 1 - y)
      BY <1>1, <3>3 DEF IsQuarter
    <3> QED
      BY <3>1, <3>2, <3>4
  <2>4. turned = second
    BY <1>2, <2>2, <2>3, SameImage DEF IsQuarter
  <2>5. rotation \div 90 = 2
    BY <1>7
  <2> QED
    BY <1>4, <2>2, <2>4, <2>5, Zenon DEF turned
<1>8. CASE rotation = 270
  <2>1. IsRotated(turned, image, w, h, rotation)
    BY <1>8, RotatedOf
  <2> HIDE DEF turned
  <2>2. Drawn(turned, h, w)
    BY <1>8, <2>1 DEF IsRotated, TurnedWidth
  <2>3. ASSUME NEW x, NEW y, Inside(h, w, x, y) PROVE Pixel(turned, x, y) = Pixel(third, x, y)
    <3>1. Pixel(turned, x, y) = Pixel(image, w - 1 - y, x)
      BY <1>8, <2>1, <2>3 DEF IsRotated, TurnedWidth, SourceX, SourceY
    <3>2. Pixel(third, x, y) = Pixel(second, y, h - 1 - x)
      BY <1>3, <2>3 DEF IsQuarter
    <3>3. Inside(w, h, y, h - 1 - x) /\ Inside(h, w, h - 1 - x, w - 1 - y) /\ h - 1 - (h - 1 - x) = x
      BY <2>3 DEF Inside
    <3>4. Pixel(second, y, h - 1 - x) = Pixel(first, h - 1 - x, w - 1 - y)
      BY <1>2, <3>3 DEF IsQuarter
    <3>5. Pixel(first, h - 1 - x, w - 1 - y) = Pixel(image, w - 1 - y, x)
      BY <1>1, <3>3 DEF IsQuarter
    <3> QED
      BY <3>1, <3>2, <3>4, <3>5
  <2>4. turned = third
    BY <1>3, <2>2, <2>3, SameImage DEF IsQuarter
  <2>5. rotation \div 90 = 3
    BY <1>8
  <2> QED
    BY <1>4, <2>2, <2>4, <2>5, Zenon DEF turned
<1> QED
  BY <1>5, <1>6, <1>7, <1>8

\* The part of an image that a crop selects, as RenderIsExact names it.
Region(image, cut) ==
  IF cut = WholePage THEN [x |-> 0, y |-> 0, width |-> image.width, height |-> image.height] ELSE cut

Part(image, region) ==
  Image(region.width, region.height, LAMBDA x, y : Pixel(image, region.x + x, region.y + y))

Fits(region, w, h) ==
  /\ region.x \in Nat /\ region.y \in Nat /\ region.width \in Nat \ {0} /\ region.height \in Nat \ {0}
  /\ region.x + region.width <= w /\ region.y + region.height <= h

IsPart(part, image, region) ==
  /\ Drawn(part, region.width, region.height)
  /\ \A x, y : Inside(region.width, region.height, x, y) =>
       Pixel(part, x, y) = Pixel(image, region.x + x, region.y + y)

LEMMA PartOf ==
  ASSUME NEW image, NEW w, NEW h, Drawn(image, w, h), NEW region, Fits(region, w, h)
  PROVE  IsPart(Part(image, region), image, region)
<1> DEFINE E(x, y) == Pixel(image, region.x + x, region.y + y)
           W == region.width
           H == region.height
           table == [p \in (0 .. W - 1) \X (0 .. H - 1) |-> E(p[1], p[2])]
<1>0. w \in Nat \ {0} /\ h \in Nat \ {0} /\ W \in Nat \ {0} /\ H \in Nat \ {0}
  BY DEF Drawn, Fits
<1>1. Part(image, region) = [width |-> W, height |-> H,
                             pixels |-> [i \in 1 .. W * H |-> E((i - 1) % W, (i - 1) \div W)]]
  BY DEF Part, Image
<1>2. \A x \in 0 .. W - 1, y \in 0 .. H - 1 : E(x, y) \in 0 .. MaxSample
  <2> TAKE x \in 0 .. W - 1, y \in 0 .. H - 1
  <2>1. Inside(w, h, region.x + x, region.y + y)
    BY <1>0 DEF Inside, Fits
  <2> QED
    BY <2>1, DrawnPixel, Zenon
<1> HIDE DEF E, W, H
<1>3. IsTable(table, W, H)
  BY <1>0, <1>2 DEF IsTable
<1>4. \A x \in 0 .. W - 1, y \in 0 .. H - 1 : table[<<x, y>>] = E(x, y)
  OBVIOUS
<1> HIDE DEF table
<1>5. \A i \in 1 .. W * H : E((i - 1) % W, (i - 1) \div W) = table[<<(i - 1) % W, (i - 1) \div W>>]
  <2> TAKE i \in 1 .. W * H
  <2> DEFINE x == (i - 1) % W
             y == (i - 1) \div W
  <2>1. Indexes(W, H, i, x, y)
    BY <1>0, PositionOfIndex
  <2> HIDE DEF x, y
  <2>2. x \in 0 .. W - 1 /\ y \in 0 .. H - 1
    BY <2>1 DEF Indexes, Inside
  <2>3. E(x, y) = table[<<x, y>>]
    BY <1>4, <2>2
  <2> QED
    BY <2>3 DEF x, y
<1>6. Part(image, region) = TableImage(table, W, H)
  <2>1. [i \in 1 .. W * H |-> E((i - 1) % W, (i - 1) \div W)] =
          [i \in 1 .. W * H |-> table[<<(i - 1) % W, (i - 1) \div W>>]]
    BY <1>5
  <2> QED
    BY <1>1, <2>1, Zenon DEF TableImage
<1>7. Shows(Part(image, region), W, H, table)
  BY <1>3, <1>6, TableImageShows
<1>8. \A x, y : Inside(W, H, x, y) => Pixel(Part(image, region), x, y) = E(x, y)
  BY <1>4, <1>7 DEF Shows, Inside
<1> QED
  BY <1>7, <1>8, Zenon DEF E, W, H, IsPart, Shows

\* A crop leaves the part it selects, and no crop leaves the image as it is.
LEMMA CroppedIs ==
  ASSUME NEW image, NEW w, NEW h, Drawn(image, w, h), NEW cut \in CropsOf(image)
  PROVE  /\ Cropped(image, cut) = Part(image, Region(image, cut))
         /\ \E W, H : Drawn(Part(image, Region(image, cut)), W, H)
<1> DEFINE region == Region(image, cut)
<1>0. w \in Nat \ {0} /\ h \in Nat \ {0} /\ image.width = w /\ image.height = h
  BY DrawnSize DEF Drawn
<1>1. CASE cut = WholePage
  <2>1. region.x = 0 /\ region.y = 0 /\ region.width = w /\ region.height = h
    BY <1>0, <1>1 DEF Region
  <2>2. IsPart(Part(image, region), image, region)
    BY <1>0, <2>1, PartOf DEF Fits
  <2> DEFINE part == Part(image, region)
  <2> HIDE DEF part, region
  <2>3. Drawn(part, w, h)
    BY <2>1, <2>2 DEF IsPart, part
  <2>4. ASSUME NEW x, NEW y, Inside(w, h, x, y) PROVE Pixel(part, x, y) = Pixel(image, x, y)
    <3>1. Pixel(part, x, y) = Pixel(image, 0 + x, 0 + y)
      BY <2>1, <2>2, <2>4 DEF IsPart, part
    <3>2. 0 + x = x /\ 0 + y = y
      BY <2>4 DEF Inside
    <3> QED
      BY <3>1, <3>2
  <2>5. part = image
    BY <2>3, <2>4, SameImage
  <2>6. Cropped(image, cut) = image
    BY <1>1 DEF Cropped
  <2> QED
    BY <2>3, <2>5, <2>6 DEF part, region
<1>2. CASE cut # WholePage
  <2>1. region = cut /\ Cropped(image, cut) = Part(image, cut)
    BY <1>2, Zenon DEF Region, Cropped, Part
  <2>2. Fits(cut, w, h)
    BY <1>0, <1>2 DEF CropsOf, Fits
  <2>3. IsPart(Part(image, cut), image, cut)
    BY <2>2, PartOf
  <2> QED
    BY <2>1, <2>3, Zenon DEF IsPart
<1> QED
  BY <1>1, <1>2

\* Rounding and clamping keep the order of numbers.
LEMMA LroundKeepsOrder ==
  ASSUME NEW a \in Int, NEW b \in Int, a <= b
  PROVE  Lround(a, 200) <= Lround(b, 200) /\ Lround(a, 200) \in Int /\ Lround(b, 200) \in Int
  BY DEF Lround

LEMMA ClampKeepsOrder ==
  ASSUME NEW a \in Int, NEW b \in Int, a <= b
  PROVE  Clamp(a) <= Clamp(b)
  BY RenderingAssumption DEF Clamp

\* So does a tone, whose contrast is not below -100.
LEMMA ToneKeepsOrder ==
  ASSUME NEW a \in Int, NEW b \in Int, a <= b,
         NEW tone \in [brightness : -100 .. 100, contrast : -100 .. 100]
  PROVE  Toned(a, tone) <= Toned(b, tone)
<1> DEFINE gain == 100 + tone.contrast
           offset == 25500 + 510 * tone.brightness
           from == 2 * a - 255
           to == 2 * b - 255
           low == from * gain
           high == to * gain
<1>1. gain \in Nat /\ offset \in Int /\ from \in Int /\ to \in Int /\ from <= to
  OBVIOUS
<1> HIDE DEF gain, offset, from, to
<1>2. low \in Int /\ high \in Int
  BY <1>1
<1>3. low <= high
  <2>1. CASE gain = 0
    BY <1>1, <2>1
  <2>2. CASE gain # 0
    BY <1>1, <2>2, TimesKeepsOrder
  <2> QED
    BY <2>1, <2>2
<1>4. Toned(a, tone) = Clamp(Lround(low + 25500 + 510 * tone.brightness, 200))
  BY DEF Toned, from, gain
<1>5. Toned(b, tone) = Clamp(Lround(high + 25500 + 510 * tone.brightness, 200))
  BY DEF Toned, to, gain
<1> HIDE DEF low, high
<1>6. /\ low + 25500 + 510 * tone.brightness \in Int
      /\ high + 25500 + 510 * tone.brightness \in Int
      /\ low + 25500 + 510 * tone.brightness <= high + 25500 + 510 * tone.brightness
  BY <1>2, <1>3
<1> QED
  BY <1>4, <1>5, <1>6, LroundKeepsOrder, ClampKeepsOrder

\* A tone changes neither the size of an image nor the order of its samples.
IsToned(toned, image, tone) ==
  /\ toned.width = image.width /\ toned.height = image.height
  /\ \A i, j \in DOMAIN image.pixels :
       image.pixels[i] <= image.pixels[j] => toned.pixels[i] <= toned.pixels[j]
  /\ tone = NoTone => toned = image

LEMMA TonedOf ==
  ASSUME NEW image, NEW w, NEW h, Drawn(image, w, h),
         NEW tone \in [brightness : -100 .. 100, contrast : -100 .. 100]
  PROVE  IsToned(TonedImage(image, tone), image, tone)
<1>1. CASE tone = NoTone
  BY <1>1 DEF TonedImage, IsToned
<1>2. CASE tone # NoTone
  <2> DEFINE toned == TonedImage(image, tone)
             pixels == [i \in DOMAIN image.pixels |-> Toned(image.pixels[i], tone)]
  <2>1. toned = [image EXCEPT !.pixels = pixels]
    BY <1>2 DEF TonedImage
  <2>2. image = [width |-> w, height |-> h, pixels |-> image.pixels]
    BY DEF Drawn
  <2>3. toned.width = w /\ toned.height = h /\ toned.pixels = pixels
    BY <2>1, <2>2
  <2> HIDE DEF toned
  <2>4. ASSUME NEW i \in DOMAIN image.pixels, NEW j \in DOMAIN image.pixels,
               image.pixels[i] <= image.pixels[j]
        PROVE  toned.pixels[i] <= toned.pixels[j]
    <3>1. image.pixels[i] \in Int /\ image.pixels[j] \in Int
      BY RenderingAssumption DEF Drawn
    <3>2. Toned(image.pixels[i], tone) <= Toned(image.pixels[j], tone)
      BY <2>4, <3>1, ToneKeepsOrder
    <3> QED
      BY <2>3, <3>2
  <2> QED
    BY <1>2, <2>3, <2>4, DrawnSize DEF IsToned, toned
<1> QED
  BY <1>1, <1>2

\* The export is asked for a page, and what is rendered is rendered from it.
RenderInv ==
  /\ IsImage(master)
  /\ edits.crop \in CropsOf(master)
  /\ edits.rotation \in {0, 90, 180, 270}
  /\ edits.tone \in [brightness : -100 .. 100, contrast : -100 .. 100]
  /\ rendered = Nothing \/ rendered = Render(master, edits)

LEMMA RenderInvInit == RenderInit => RenderInv
<1> SUFFICES ASSUME NEW image \in Masters, NEW rotation \in {0, 90, 180, 270}, NEW tone \in Tones,
                    NEW cut \in CropsOf(image),
                    master = image, edits = [crop |-> cut, rotation |-> rotation, tone |-> tone],
                    rendered = Nothing
             PROVE  RenderInv
  BY DEF RenderInit
<1>1. edits.crop = cut /\ edits.rotation = rotation /\ edits.tone = tone
  OBVIOUS
<1>2. IsImage(master) /\ tone \in [brightness : -100 .. 100, contrast : -100 .. 100]
  BY RenderingAssumption
<1> QED
  BY <1>1, <1>2, Zenon DEF RenderInv

LEMMA RenderInvStep == RenderInv /\ [RenderPage]_renderVars => RenderInv'
<1> SUFFICES ASSUME RenderInv, [RenderPage]_renderVars PROVE RenderInv'
  OBVIOUS
<1>1. master' = master /\ edits' = edits
  BY Zenon DEF RenderPage, renderVars
<1>2. rendered' = rendered \/ rendered' = Render(master, edits)
  BY Zenon DEF RenderPage, renderVars
<1> QED
  BY <1>1, <1>2, Zenon DEF RenderInv

LEMMA RenderInvExact == RenderInv => RenderIsExact
<1> SUFFICES ASSUME RenderInv, rendered # Nothing PROVE RenderIsExact
  BY Zenon DEF RenderIsExact
<1> DEFINE part == Part(master, Region(master, edits.crop))
           exact == TurnedBy(part)[edits.rotation \div 90]
<1>1. Drawn(master, master.width, master.height)
  BY DEF RenderInv, IsImage, Drawn
<1>2. Cropped(master, edits.crop) = part /\ \E W, H : Drawn(part, W, H)
  BY <1>1, CroppedIs DEF RenderInv
<1> HIDE DEF part
<1>3. Rotated(part, edits.rotation) = exact /\ \E W, H : Drawn(exact, W, H)
  <2>1. PICK w, h : Drawn(part, w, h)
    BY <1>2
  <2>2. edits.rotation \in {0, 90, 180, 270}
    BY DEF RenderInv
  <2>3. IsTurned(Rotated(part, edits.rotation), part, edits.rotation)
    BY <2>1, <2>2, TurnedIs
  <2> QED
    BY <2>3, Zenon DEF IsTurned
<1>4. rendered = TonedImage(exact, edits.tone)
  BY <1>2, <1>3, Zenon DEF RenderInv, Render
<1>5. IsToned(rendered, exact, edits.tone)
  BY <1>3, <1>4, TonedOf DEF RenderInv
<1> HIDE DEF exact
<1>6. /\ rendered.width = exact.width /\ rendered.height = exact.height
      /\ \A i, j \in DOMAIN exact.pixels :
           exact.pixels[i] <= exact.pixels[j] => rendered.pixels[i] <= rendered.pixels[j]
      /\ edits.tone = NoTone => rendered = exact
  BY <1>5 DEF IsToned
<1> QED
  BY <1>6 DEF RenderIsExact, exact, part, Part, Region

\* An export shows the selected part of a page, turned by the page's rotation, every
\* sample in its place, and its tone keeps the order of the samples: render_page(),
\* for every image, crop, rotation and tone.
THEOREM RenderingIsExact == RenderSpec => []RenderIsExact
<1>1. RenderInit => RenderInv
  BY RenderInvInit
<1>2. RenderInv /\ [RenderPage]_renderVars => RenderInv'
  BY RenderInvStep
<1>3. RenderInv => RenderIsExact
  BY RenderInvExact
<1> QED
  BY <1>1, <1>2, <1>3, PTL DEF RenderSpec
=============================================================================
