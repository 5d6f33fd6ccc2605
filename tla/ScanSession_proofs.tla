------------------------- MODULE ScanSession_proofs -------------------------
(***************************************************************************)
(* Proofs about ScanSession for every limit, frame size and argument.      *)
(***************************************************************************)
EXTENDS ScanSession, SequenceTheorems, TLAPS

-----------------------------------------------------------------------------
(* The inductive invariant. Contents says what is true of every list of    *)
(* pages in memory or on disk, Publication how the manifests on disk are   *)
(* related to the ones that were published.                                *)

\* A page as it is from its creation on, over the published masters m.
GoodPage(page, m) ==
  /\ page.rotation \in {0, 90, 180, 270}
  /\ page.tone \in -100 .. 100
  /\ <<page.id, page.revision>> \in DOMAIN m
  /\ m[<<page.id, page.revision>>] = page.extent
  /\ page.crop # NoCrop => CropFits(page.crop, page.extent)
  /\ page.history = [r \in 1 .. page.revision - 1 |-> r]
  /\ \A r \in 1 .. page.revision - 1 : <<page.id, r>> \in DOMAIN m

GoodPages(content, m) ==
  /\ content \in Seq(Pages)
  /\ Len(content) <= MaxPages
  /\ \A i \in DOMAIN content : content[i].id \in 1 .. Len(content) /\ GoodPage(content[i], m)
  /\ \A i, j \in DOMAIN content : content[i].id = content[j].id => i = j

Contents == \A content \in Everywhere : GoodPages(content, masters)

Sized(content) ==
  /\ HistoryRecords(content) <= MaxHistory
  /\ Len(content) + HistoryRecords(content) <= MaxRecords

Publication ==
  /\ \A manifest \in {current, backup, stage} :
       manifest.status = "valid" => Sized(manifest.pages)
  /\ saving # "no" => stage.status = "valid"
  /\ saving = "copied" => backup \in {current, committed}
  /\ current = committed \/ (corruptions > 0 /\ current = Corrupt)
  /\ backup \in {Absent, Corrupt, committed, prior}
  /\ committed = Absent =>
       current = Absent /\ prior = Absent /\ backup = Absent /\ saving \in {"no", "staged"}
  /\ committed = Absent \/ committed.status = "valid"

IInv == TypeOK /\ Contents /\ Publication

MastersGrow ==
  \A path \in DOMAIN masters : path \in DOMAIN masters' /\ masters'[path] = masters[path]

-----------------------------------------------------------------------------
(* Types.                                                                  *)

\* The fields of a page.
LEMMA PageFields ==
  ASSUME NEW page \in Pages
  PROVE  /\ page.id \in PageIds /\ page.revision \in Revisions
         /\ page.history \in Seq(Revisions) /\ page.extent \in Extents
         /\ page.rotation \in {0, 90, 180, 270} /\ page.crop \in Crops \cup {NoCrop}
         /\ page.tone \in -100 .. 100 /\ page.included \in BOOLEAN
  BY DEF Pages

\* The records the editing calls make are pages.
LEMMA RotatedType ==
  ASSUME NEW page \in Pages, NEW degrees \in Turns
  PROVE  Rotated(page, degrees) \in Pages
<1>1. \A a \in {0, 90, 180, 270}, b \in {90, 180, 270} : (a + b) % 360 \in {0, 90, 180, 270}
  OBVIOUS
<1>2. Turned(page.rotation, degrees) \in {0, 90, 180, 270}
  BY <1>1, PageFields DEF Turns, Turned
<1> QED
  BY <1>2 DEF Rotated, Edited, Pages

LEMMA CroppedType ==
  ASSUME NEW page \in Pages, NEW crop \in Crops \cup {NoCrop}
  PROVE  Cropped(page, crop) \in Pages
  BY DEF Cropped, Edited, Pages

LEMMA TonedType ==
  ASSUME NEW page \in Pages, NEW tone \in -100 .. 100
  PROVE  Edited(page, page.rotation, page.crop, tone, page.included) \in Pages
  BY DEF Edited, Pages

LEMMA IncludedType ==
  ASSUME NEW page \in Pages, NEW included \in BOOLEAN
  PROVE  Edited(page, page.rotation, page.crop, page.tone, included) \in Pages
  BY DEF Edited, Pages

LEMMA RescannedType ==
  ASSUME NEW page \in Pages, NEW extent \in Extents, page.revision < MaxRevision
  PROVE  /\ Rescanned(page, extent) \in Pages
         /\ <<page.id, page.revision + 1>> \in Paths
<1>1. /\ page.id \in PageIds /\ page.revision \in Revisions
      /\ page.history \in Seq(Revisions) /\ page.included \in BOOLEAN
  BY PageFields
<1>2. page.revision + 1 \in Revisions
  BY <1>1, SessionAssumption DEF Revisions
<1>3. Append(page.history, page.revision) \in Seq(Revisions)
  BY <1>1
<1> QED
  BY <1>1, <1>2, <1>3 DEF Rescanned, Pages, Paths

\* Replacing a page leaves a list of pages.
LEMMA ReplaceType ==
  ASSUME NEW S, NEW content \in Seq(S), NEW i \in DOMAIN content, NEW page \in S
  PROVE  /\ [content EXCEPT ![i] = page] \in Seq(S)
         /\ Len([content EXCEPT ![i] = page]) = Len(content)
  OBVIOUS

LEMMA ManifestType ==
  ASSUME NEW content \in Seq(Pages)
  PROVE  Manifest(content) \in Manifests /\ Absent \in Manifests /\ Corrupt \in Manifests
  BY DEF Manifests, Manifest, Corrupt, Absent

\* A published master has its place and its extent.
LEMMA PublishType ==
  ASSUME DOMAIN masters \subseteq Paths, \A p \in DOMAIN masters : masters[p] \in Extents,
         NEW path \in Paths, NEW extent \in Extents, PublishMaster(path, extent)
  PROVE  DOMAIN masters' \subseteq Paths /\ \A p \in DOMAIN masters' : masters'[p] \in Extents
<1>1. DOMAIN masters' = DOMAIN masters \cup {path}
  BY DEF PublishMaster
<1>2. \A p \in DOMAIN masters' : masters'[p] \in Extents
  BY DEF PublishMaster
<1> QED
  BY <1>1, <1>2

\* reorder() finds a page for every identifier it is given.
LEMMA OrderedPage ==
  ASSUME NEW order, Reorder(order), NEW j \in DOMAIN pages
  PROVE  /\ IndexOf(pages, order[j]) \in DOMAIN pages
         /\ pages[IndexOf(pages, order[j])].id = order[j]
<1>1. order[j] \in Ids(pages)
  BY DEF Reorder, Range
<1>2. \E k \in DOMAIN pages : pages[k].id = order[j]
  BY <1>1 DEF Ids
<1> QED
  BY <1>2, Zenon DEF IndexOf

\* No step makes a value of the wrong type.
LEMMA TypeStep == TypeOK /\ [Next]_vars => TypeOK'
<1> SUFFICES ASSUME TypeOK, [Next]_vars PROVE TypeOK'
  OBVIOUS
<1> USE SessionAssumption
<1> USE DEF TypeOK, disk, ghosts, Unsaved, Edit
<1>0. \A i \in DOMAIN pages : pages[i] \in Pages
  OBVIOUS
<1>1. CASE Create
  BY <1>1 DEF Create, Pages
<1>2. CASE Load
  BY <1>2 DEF Load, Recovered, Manifests, Absent
<1>3. CASE Crash
  <2>1. open' \in BOOLEAN
    BY <1>3, Zenon DEF Crash
  <2> QED
    BY <1>3, <2>1 DEF Crash
<1>4. CASE Decay
  BY <1>4 DEF Decay, Manifests, Corrupt
<1>5. ASSUME NEW extent \in Extents, AddPage(extent) PROVE TypeOK'
  <2>1. NewPage(Len(pages) + 1, extent) \in Pages
    BY <1>5 DEF AddPage, NewPage, Pages, PageIds, Revisions
  <2>2. <<Len(pages) + 1, 1>> \in Paths
    BY <1>5 DEF AddPage, Paths, PageIds, Revisions
  <2>3. DOMAIN masters' \subseteq Paths /\ \A path \in DOMAIN masters' : masters'[path] \in Extents
    BY <1>5, <2>2, PublishType DEF AddPage
  <2>4. pages' \in Seq(Pages)
    BY <1>5, <2>1 DEF AddPage
  <2>5. edits' \in Nat /\ UNCHANGED <<open, current, backup, stage, saving, ghosts, saves>>
    BY <1>5 DEF AddPage
  <2> QED
    BY <2>3, <2>4, <2>5
<1>6. ASSUME NEW i \in DOMAIN pages, NEW extent \in Extents, Rescan(i, extent) PROVE TypeOK'
  <2>1. /\ Rescanned(pages[i], extent) \in Pages
        /\ <<pages[i].id, pages[i].revision + 1>> \in Paths
    BY <1>6, RescannedType DEF Rescan
  <2>2. DOMAIN masters' \subseteq Paths /\ \A path \in DOMAIN masters' : masters'[path] \in Extents
    BY <1>6, <2>1, PublishType DEF Rescan
  <2>3. pages' \in Seq(Pages)
    BY <1>6, <2>1, ReplaceType DEF Rescan
  <2>4. edits' \in Nat /\ UNCHANGED <<open, current, backup, stage, saving, ghosts, saves>>
    BY <1>6 DEF Rescan
  <2> QED
    BY <2>2, <2>3, <2>4
<1>7. ASSUME NEW order \in [DOMAIN pages -> PageIds], Reorder(order) PROVE TypeOK'
  <2>1. \A j \in DOMAIN pages : pages[IndexOf(pages, order[j])] \in Pages
    BY <1>0, <1>7, OrderedPage
  <2> QED
    BY <1>7, <2>1 DEF Reorder
<1>8. ASSUME NEW i \in DOMAIN pages, NEW degrees \in Degrees, Rotate(i, degrees) PROVE TypeOK'
  <2>1. Rotated(pages[i], degrees) \in Pages
    BY <1>0, <1>8, RotatedType DEF Rotate
  <2>2. pages' \in Seq(Pages)
    BY <1>8, <2>1, ReplaceType DEF Rotate
  <2> QED
    BY <1>8, <2>2 DEF Rotate
<1>9. ASSUME NEW i \in DOMAIN pages, NEW crop \in Crops, SetCrop(i, crop) PROVE TypeOK'
  <2>1. Cropped(pages[i], crop) \in Pages
    BY <1>0, CroppedType
  <2>2. pages' \in Seq(Pages)
    BY <1>9, <2>1, ReplaceType DEF SetCrop
  <2> QED
    BY <1>9, <2>2 DEF SetCrop
<1>10. ASSUME NEW i \in DOMAIN pages, ClearCrop(i) PROVE TypeOK'
  <2>1. Cropped(pages[i], NoCrop) \in Pages
    BY <1>0, CroppedType
  <2>2. pages' \in Seq(Pages)
    BY <1>10, <2>1, ReplaceType DEF ClearCrop
  <2> QED
    BY <1>10, <2>2 DEF ClearCrop
<1>11. ASSUME NEW i \in DOMAIN pages, NEW tone \in Tones, SetTone(i, tone) PROVE TypeOK'
  <2>1. Edited(pages[i], pages[i].rotation, pages[i].crop, tone, pages[i].included) \in Pages
    BY <1>0, <1>11, TonedType DEF SetTone
  <2>2. pages' \in Seq(Pages)
    BY <1>11, <2>1, ReplaceType DEF SetTone
  <2> QED
    BY <1>11, <2>2 DEF SetTone
<1>12. ASSUME NEW i \in DOMAIN pages, NEW included \in BOOLEAN, SetIncluded(i, included)
       PROVE  TypeOK'
  <2>1. Edited(pages[i], pages[i].rotation, pages[i].crop, pages[i].tone, included) \in Pages
    BY <1>0, IncludedType
  <2>2. pages' \in Seq(Pages)
    BY <1>12, <2>1, ReplaceType DEF SetIncluded
  <2> QED
    BY <1>12, <2>2 DEF SetIncluded
<1>13. CASE SaveStage
  <2>1. stage' \in {Corrupt, Absent, Manifest(pages)}
    BY <1>13 DEF SaveStage
  <2>3. stage' \in Manifests
    BY <2>1, ManifestType
  <2>2. saving' \in {"no", "staged"}
    BY <1>13 DEF SaveStage
  <2> QED
    BY <1>13, <2>2, <2>3 DEF SaveStage
<1>14. CASE CopyBegins
  BY <1>14 DEF CopyBegins, Manifests, Corrupt
<1>15. CASE CopyEnds
  BY <1>15 DEF CopyEnds
<1>16. CASE Publish
  BY <1>16 DEF Publish, Manifests, Absent
<1>17. CASE SaveFails
  BY <1>17 DEF SaveFails, Manifests, Absent
<1>18. CASE UNCHANGED vars
  BY <1>18 DEF vars
<1> QED
  BY <1>1, <1>2, <1>3, <1>4, <1>5, <1>6, <1>7, <1>8, <1>9, <1>10, <1>11, <1>12, <1>13, <1>14, <1>15,
     <1>16, <1>17, <1>18 DEF Next, Editing, Saving

-----------------------------------------------------------------------------
(* Masters.                                                                *)

\* No step replaces or removes a published master.
LEMMA GrowStep == [Next]_vars => MastersGrow
<1> SUFFICES ASSUME [Next]_vars PROVE MastersGrow
  OBVIOUS
<1> USE DEF MastersGrow
<1>1. ASSUME NEW extent \in Extents, AddPage(extent) PROVE MastersGrow
  BY <1>1 DEF AddPage, PublishMaster
<1>2. ASSUME NEW i \in DOMAIN pages, NEW extent \in Extents, Rescan(i, extent) PROVE MastersGrow
  BY <1>2 DEF Rescan, PublishMaster
<1>3. CASE UNCHANGED masters
  BY <1>3
<1>4. Create \/ Load \/ Saving \/ Crash \/ Decay \/ UNCHANGED vars => UNCHANGED masters
  BY DEF Create, Load, Saving, Crash, Decay, SaveStage, CopyBegins, CopyEnds, Publish, SaveFails,
         vars, disk, Unsaved
<1>5. /\ \A order : Reorder(order) => UNCHANGED masters
      /\ \A i, x : Rotate(i, x) \/ SetCrop(i, x) \/ SetTone(i, x) \/ SetIncluded(i, x)
                     => UNCHANGED masters
      /\ \A i : ClearCrop(i) => UNCHANGED masters
  BY DEF Reorder, Rotate, SetCrop, ClearCrop, SetTone, SetIncluded
<1> QED
  BY <1>1, <1>2, <1>3, <1>4, <1>5 DEF Next, Editing

\* What is true of a list of pages stays true while masters are added.
LEMMA GoodStays ==
  ASSUME NEW content, GoodPages(content, masters), MastersGrow
  PROVE  GoodPages(content, masters')
<1>1. \A i \in DOMAIN content : GoodPage(content[i], masters) => GoodPage(content[i], masters')
  BY DEF MastersGrow, GoodPage
<1> QED
  BY <1>1 DEF GoodPages

\* Replacing a page by a good one with the same identifier keeps a list good.
LEMMA GoodReplaced ==
  ASSUME NEW content, NEW m, GoodPages(content, m), NEW i \in DOMAIN content,
         NEW page \in Pages, GoodPage(page, m), page.id = content[i].id
  PROVE  GoodPages([content EXCEPT ![i] = page], m)
<1> DEFINE new == [content EXCEPT ![i] = page]
<1>1. new \in Seq(Pages) /\ Len(new) = Len(content) /\ DOMAIN new = DOMAIN content
  BY ReplaceType DEF GoodPages
<1>2. \A j \in DOMAIN new : new[j] = IF j = i THEN page ELSE content[j]
  BY DEF GoodPages
<1>3. \A j \in DOMAIN new : new[j].id = content[j].id /\ GoodPage(new[j], m)
  BY <1>1, <1>2 DEF GoodPages
<1> QED
  BY <1>1, <1>3 DEF GoodPages

-----------------------------------------------------------------------------
(* The lists of pages.                                                     *)

\* preserved_masters.push_back(current_master) continues the list of revisions.
LEMMA HistoryAppend ==
  ASSUME NEW n \in Nat \ {0}
  PROVE  Append([r \in 1 .. n - 1 |-> r], n) = [r \in 1 .. n |-> r]
<1> DEFINE history == [r \in 1 .. n - 1 |-> r]
<1>1. history \in Seq(Nat) /\ Len(history) = n - 1
  OBVIOUS
<1> HIDE DEF history
<1>2. Append(history, n) \in Seq(Nat) /\ Len(Append(history, n)) = n
  BY <1>1
<1>3. \A r \in 1 .. n : Append(history, n)[r] = IF r = n THEN n ELSE history[r]
  BY <1>1
<1>4. \A r \in 1 .. n - 1 : history[r] = r
  BY DEF history
<1>5. \A r \in 1 .. n : Append(history, n)[r] = r
  BY <1>3, <1>4
<1> DEFINE longer == [r \in 1 .. n |-> r]
<1>6. longer \in Seq(Nat) /\ Len(longer) = n /\ \A r \in 1 .. n : longer[r] = r
  OBVIOUS
<1> HIDE DEF longer
<1>7. Append(history, n) = longer
  BY <1>2, <1>5, <1>6, SeqEqual
<1> QED
  BY <1>7 DEF history, longer

\* Every editing call leaves a good list.
LEMMA EditStep ==
  ASSUME TypeOK, GoodPages(pages, masters), Editing, TypeOK', MastersGrow
  PROVE  GoodPages(pages', masters')
<1>0. /\ GoodPages(pages, masters') /\ pages' \in Seq(Pages)
      /\ \A i \in DOMAIN pages :
           pages[i] \in Pages /\ GoodPage(pages[i], masters) /\ GoodPage(pages[i], masters')
  BY GoodStays DEF TypeOK, GoodPages
<1>1. ASSUME NEW extent \in Extents, AddPage(extent) PROVE GoodPages(pages', masters')
  <2> DEFINE id == Len(pages) + 1
  <2> DEFINE new == NewPage(id, extent)
  <2>1. pages' = Append(pages, new) /\ Len(pages) < MaxPages
    BY <1>1 DEF AddPage
  <2>2. <<id, 1>> \in DOMAIN masters' /\ masters'[<<id, 1>>] = extent
    BY <1>1 DEF AddPage, PublishMaster
  <2>3. GoodPage(new, masters')
    BY <2>2 DEF GoodPage, NewPage
  <2>4. new.id = id
    BY DEF NewPage
  <2>5. /\ Len(pages') = id /\ DOMAIN pages' = 1 .. id /\ pages'[id] = new
        /\ \A i \in DOMAIN pages : pages'[i] = pages[i]
        /\ DOMAIN pages' = DOMAIN pages \cup {id}
    BY <2>1 DEF TypeOK
  <2>6. \A i \in DOMAIN pages : pages[i].id \in 1 .. Len(pages)
    BY DEF GoodPages
  <2>7. \A i, j \in DOMAIN pages' : pages'[i].id = pages'[j].id => i = j
    BY <2>4, <2>5, <2>6 DEF GoodPages, TypeOK
  <2>8. \A i \in DOMAIN pages' : pages'[i].id \in 1 .. Len(pages') /\ GoodPage(pages'[i], masters')
    BY <1>0, <2>3, <2>4, <2>5, <2>6 DEF TypeOK
  <2>9. Len(pages') <= MaxPages
    BY <2>1, <2>5, SessionAssumption DEF TypeOK
  <2> QED
    BY <1>0, <2>7, <2>8, <2>9 DEF GoodPages
<1>2. ASSUME NEW i \in DOMAIN pages, NEW extent \in Extents, Rescan(i, extent)
      PROVE  GoodPages(pages', masters')
  <2> DEFINE new == Rescanned(pages[i], extent)
  <2>1. new \in Pages /\ pages' = [pages EXCEPT ![i] = new]
    BY <1>0, <1>2, RescannedType DEF Rescan
  <2>2. /\ <<pages[i].id, pages[i].revision + 1>> \in DOMAIN masters'
        /\ masters'[<<pages[i].id, pages[i].revision + 1>>] = extent
    BY <1>2 DEF Rescan, PublishMaster
  <2>3. pages[i].revision \in Nat \ {0}
    BY <1>0, PageFields, SessionAssumption DEF Revisions
  <2> DEFINE old == pages[i]
  <2>4. /\ new.id = old.id /\ new.revision = old.revision + 1 /\ new.extent = extent
        /\ new.rotation = 0 /\ new.tone = 0 /\ new.crop = NoCrop
        /\ new.history = Append(old.history, old.revision)
    BY DEF Rescanned
  <2>5. new.history = [r \in 1 .. new.revision - 1 |-> r]
    <3>1. old.history = [r \in 1 .. old.revision - 1 |-> r]
      BY <1>0 DEF GoodPage
    <3>2. new.revision - 1 = old.revision
      BY <2>3, <2>4
    <3> QED
      BY <2>3, <2>4, <3>1, <3>2, HistoryAppend
  <2>6. GoodPage(new, masters')
    <3>1. \A r \in 1 .. old.revision : <<old.id, r>> \in DOMAIN masters'
      <4>1. \A r \in 1 .. old.revision : r = old.revision \/ r \in 1 .. old.revision - 1
        BY <2>3
      <4>2. /\ <<old.id, old.revision>> \in DOMAIN masters'
            /\ \A r \in 1 .. old.revision - 1 : <<old.id, r>> \in DOMAIN masters'
        BY <1>0 DEF GoodPage
      <4> QED
        BY <4>1, <4>2
    <3>2. \A r \in 1 .. new.revision - 1 : <<new.id, r>> \in DOMAIN masters'
      BY <2>3, <2>4, <3>1
    <3> HIDE DEF new
    <3> QED
      BY <2>2, <2>4, <2>5, <3>2 DEF GoodPage
  <2>7. new.id = pages[i].id
    BY DEF Rescanned
  <2> QED
    BY <1>0, <2>1, <2>6, <2>7, GoodReplaced
<1>3. ASSUME NEW order \in [DOMAIN pages -> PageIds], Reorder(order)
      PROVE  GoodPages(pages', masters')
  <2>1. \A j \in DOMAIN pages :
          /\ IndexOf(pages, order[j]) \in DOMAIN pages
          /\ pages[IndexOf(pages, order[j])].id = order[j]
    BY <1>3, OrderedPage
  <2>2. /\ DOMAIN pages' = DOMAIN pages
        /\ \A j \in DOMAIN pages : pages'[j] = pages[IndexOf(pages, order[j])]
    BY <1>3 DEF Reorder
  <2>3. Len(pages') = Len(pages)
    BY <1>0, <2>2 DEF TypeOK
  <2>4. \A j, k \in DOMAIN pages : order[j] = order[k] => j = k
    BY <1>3 DEF Reorder, IsInjective
  <2>5. \A j \in DOMAIN pages : pages'[j].id = order[j]
    BY <2>1, <2>2
  <2>6. \A j \in DOMAIN pages : pages'[j].id \in 1 .. Len(pages) /\ GoodPage(pages'[j], masters')
    BY <1>0, <2>1, <2>2 DEF GoodPages
  <2> QED
    BY <1>0, <2>2, <2>3, <2>4, <2>5, <2>6 DEF GoodPages
<1>4. ASSUME NEW i \in DOMAIN pages, NEW degrees \in Degrees, Rotate(i, degrees)
      PROVE  GoodPages(pages', masters')
  <2> DEFINE new == Rotated(pages[i], degrees)
  <2>1. new \in Pages /\ pages' = [pages EXCEPT ![i] = new]
    BY <1>0, <1>4, RotatedType DEF Rotate
  <2>2. new.rotation \in {0, 90, 180, 270}
    BY <2>1, PageFields
  <2>3. GoodPage(new, masters') /\ new.id = pages[i].id
    BY <1>0, <2>2 DEF GoodPage, Rotated, Edited
  <2> QED
    BY <1>0, <2>1, <2>3, GoodReplaced
<1>5. ASSUME NEW i \in DOMAIN pages, NEW crop \in Crops, SetCrop(i, crop)
      PROVE  GoodPages(pages', masters')
  <2> DEFINE new == Cropped(pages[i], crop)
  <2>1. new \in Pages /\ pages' = [pages EXCEPT ![i] = new]
    BY <1>0, <1>5, CroppedType DEF SetCrop
  <2>2. GoodPage(new, masters') /\ new.id = pages[i].id
    BY <1>0, <1>5 DEF SetCrop, GoodPage, Cropped, Edited
  <2> QED
    BY <1>0, <2>1, <2>2, GoodReplaced
<1>6. ASSUME NEW i \in DOMAIN pages, ClearCrop(i) PROVE GoodPages(pages', masters')
  <2> DEFINE new == Cropped(pages[i], NoCrop)
  <2>1. new \in Pages /\ pages' = [pages EXCEPT ![i] = new]
    BY <1>0, <1>6, CroppedType DEF ClearCrop
  <2>2. GoodPage(new, masters') /\ new.id = pages[i].id
    BY <1>0 DEF GoodPage, Cropped, Edited
  <2> QED
    BY <1>0, <2>1, <2>2, GoodReplaced
<1>7. ASSUME NEW i \in DOMAIN pages, NEW tone \in Tones, SetTone(i, tone)
      PROVE  GoodPages(pages', masters')
  <2> DEFINE new == Edited(pages[i], pages[i].rotation, pages[i].crop, tone, pages[i].included)
  <2>1. new \in Pages /\ pages' = [pages EXCEPT ![i] = new]
    BY <1>0, <1>7, TonedType DEF SetTone
  <2>2. GoodPage(new, masters') /\ new.id = pages[i].id
    BY <1>0, <1>7 DEF SetTone, GoodPage, Edited
  <2> QED
    BY <1>0, <2>1, <2>2, GoodReplaced
<1>8. ASSUME NEW i \in DOMAIN pages, NEW included \in BOOLEAN, SetIncluded(i, included)
      PROVE  GoodPages(pages', masters')
  <2> DEFINE new == Edited(pages[i], pages[i].rotation, pages[i].crop, pages[i].tone, included)
  <2>1. new \in Pages /\ pages' = [pages EXCEPT ![i] = new]
    BY <1>0, <1>8, IncludedType DEF SetIncluded
  <2>2. GoodPage(new, masters') /\ new.id = pages[i].id
    BY <1>0 DEF GoodPage, Edited
  <2> QED
    BY <1>0, <2>1, <2>2, GoodReplaced
<1> QED
  BY <1>1, <1>2, <1>3, <1>4, <1>5, <1>6, <1>7, <1>8 DEF Editing

\* An empty list is good.
LEMMA GoodEmpty == GoodPages(<< >>, masters')
  BY SessionAssumption DEF GoodPages

\* Steps other than editing calls make no new list, except the empty one.
LEMMA ContentsStep ==
  ASSUME TypeOK, Contents, [Next]_vars, TypeOK'
  PROVE  Contents'
<1>1. MastersGrow
  BY GrowStep
<1>2. \A content \in Everywhere \cup {<< >>} : GoodPages(content, masters')
  BY <1>1, GoodStays, GoodEmpty DEF Contents
<1>3. CASE Editing
  <2>1. UNCHANGED <<current, backup, stage, ghosts>>
    BY <1>3 DEF Editing, AddPage, Rescan, Reorder, Rotate, SetCrop, ClearCrop, SetTone,
                SetIncluded, Edit
  <2>2. GoodPages(pages', masters')
    BY <1>1, <1>3, EditStep DEF Contents, Everywhere
  <2> QED
    BY <1>2, <2>1, <2>2 DEF Contents, Everywhere, ghosts
<1>4. CASE ~Editing
  <2> USE DEF Everywhere, disk, ghosts, Unsaved, Absent, Corrupt
  <2>1. Everywhere' \subseteq Everywhere \cup {<< >>}
    <3>1. CASE Create
      BY <3>1 DEF Create
    <3>2. CASE Load
      BY <3>2 DEF Load, Recovered
    <3>3. CASE Crash
      BY <3>3 DEF Crash
    <3>4. CASE Decay
      BY <3>4 DEF Decay
    <3>5. CASE SaveStage
      <4>1. stage'.pages \in {<< >>, pages}
        BY <3>5 DEF SaveStage, Manifest
      <4> QED
        BY <3>5, <4>1 DEF SaveStage
    <3>6. CASE CopyBegins
      BY <3>6 DEF CopyBegins
    <3>7. CASE CopyEnds
      BY <3>7 DEF CopyEnds
    <3>8. CASE Publish
      BY <3>8 DEF Publish
    <3>9. CASE SaveFails
      BY <3>9 DEF SaveFails
    <3>10. CASE UNCHANGED vars
      BY <3>10 DEF vars
    <3> QED
      BY <1>4, <3>1, <3>2, <3>3, <3>4, <3>5, <3>6, <3>7, <3>8, <3>9, <3>10 DEF Next, Saving
  <2> QED
    BY <1>2, <2>1 DEF Contents
<1> QED
  BY <1>3, <1>4

-----------------------------------------------------------------------------
(* Publication.                                                            *)

\* Every step of save(), every failure and every crash keeps the relation of
\* the manifests on disk to the published ones.
LEMMA PublicationStep ==
  ASSUME TypeOK, Publication, [Next]_vars
  PROVE  Publication'
<1> USE DEF Publication, TypeOK, disk, ghosts, Unsaved, Absent, Corrupt
<1>1. CASE Editing
  <2>1. UNCHANGED <<current, backup, stage, saving, committed, prior, corruptions>>
    BY <1>1 DEF Editing, AddPage, Rescan, Reorder, Rotate, SetCrop, ClearCrop, SetTone,
                SetIncluded, Edit
  <2> QED
    BY <2>1
<1>2. CASE Create
  BY <1>2 DEF Create
<1>3. CASE Load
  BY <1>3 DEF Load
<1>4. CASE Crash
  BY <1>4 DEF Crash
<1>5. CASE Decay
  BY <1>5 DEF Decay
<1>6. CASE SaveStage
  <2>1. stage' \in {Corrupt, Absent} \/ (stage' = Manifest(pages) /\ Sized(pages))
    BY <1>6 DEF SaveStage, Sized
  <2> QED
    BY <1>6, <2>1 DEF SaveStage, Manifest
<1>7. CASE CopyBegins
  BY <1>7 DEF CopyBegins
<1>8. CASE CopyEnds
  BY <1>8 DEF CopyEnds
<1>9. CASE Publish
  BY <1>9 DEF Publish
<1>10. CASE SaveFails
  BY <1>10 DEF SaveFails
<1>11. CASE UNCHANGED vars
  BY <1>11 DEF vars
<1> QED
  BY <1>1, <1>2, <1>3, <1>4, <1>5, <1>6, <1>7, <1>8, <1>9, <1>10, <1>11 DEF Next, Saving

\* A valid manifest on disk can be loaded.
LEMMA ValidLoads ==
  ASSUME IInv, NEW manifest \in {current, backup, stage}, manifest.status = "valid"
  PROVE  Loads(manifest)
<1> DEFINE content == manifest.pages
<1>1. GoodPages(content, masters)
  BY DEF IInv, Contents, Everywhere
<1>2. \A i \in DOMAIN content : ValidPage(content[i])
  <2> SUFFICES ASSUME NEW i \in DOMAIN content PROVE ValidPage(content[i])
    OBVIOUS
  <2>1. GoodPage(content[i], masters)
    BY <1>1 DEF GoodPages
  <2> QED
    BY <2>1 DEF GoodPage, ValidPage
<1>3. IsInjective([i \in DOMAIN content |-> content[i].id])
  BY <1>1 DEF GoodPages, IsInjective
<1>4. Sized(content)
  BY DEF IInv, Publication
<1> QED
  BY <1>1, <1>2, <1>3, <1>4 DEF Loads, ValidPages, GoodPages, Sized

-----------------------------------------------------------------------------
(* The theorems.                                                           *)

\* The facts about lists of pages and manifests hold in every reachable state.
THEOREM Invariance == Spec => []IInv
<1>1. Init => IInv
  <2> SUFFICES ASSUME Init PROVE IInv
    OBVIOUS
  <2> USE DEF Init
  <2>1. TypeOK
    <3>1. open \in BOOLEAN
      BY Zenon
    <3>2. Absent \in Manifests
      BY DEF Absent, Manifests
    <3> QED
      BY <3>1, <3>2 DEF TypeOK
  <2>2. Contents
    <3>1. GoodPages(<< >>, masters)
      BY SessionAssumption DEF GoodPages
    <3> QED
      BY <3>1 DEF Contents, Everywhere, Absent
  <2>3. Publication
    BY DEF Publication, Absent
  <2> QED
    BY <2>1, <2>2, <2>3 DEF IInv
<1>2. IInv /\ [Next]_vars => IInv'
  BY TypeStep, ContentsStep, PublicationStep DEF IInv
<1> QED
  BY <1>1, <1>2, PTL DEF Spec

\* Every variable keeps the type of the member or file it stands for.
THEOREM TypeCorrect == Spec => []TypeOK
<1>1. IInv => TypeOK
  BY DEF IInv
<1> QED
  BY Invariance, <1>1, PTL

\* No call and no crash replaces or removes a published master.
THEOREM MastersKept == Spec => MastersImmutable
<1>1. [Next]_vars => [MastersGrow]_vars
  BY GrowStep
<1> QED
  BY <1>1, PTL DEF Spec, MastersImmutable, MastersGrow

\* A page's history lists all its earlier revisions in order.
THEOREM HistoryKept == Spec => []HistoryComplete
<1>1. IInv => HistoryComplete
  <2> SUFFICES ASSUME IInv, NEW content \in Everywhere, NEW i \in DOMAIN content
               PROVE  content[i].history = [r \in 1 .. content[i].revision - 1 |-> r]
    BY DEF HistoryComplete
  <2>1. GoodPage(content[i], masters)
    BY DEF IInv, Contents, GoodPages
  <2> QED
    BY <2>1 DEF GoodPage
<1> QED
  BY Invariance, <1>1, PTL

\* The identifiers add_page() derives from the number of pages never collide.
THEOREM IdsDense == Spec => []IdsAreDense
<1>1. IInv => IdsAreDense
  BY DEF IInv, Contents, GoodPages, IdsAreDense, IsInjective
<1> QED
  BY Invariance, <1>1, PTL

\* A crop that passes the checks lies inside the image: their subtraction does not wrap.
LEMMA FittingIsInside ==
  ASSUME NEW crop \in Crops, NEW extent \in Extents, CropFits(crop, extent)
  PROVE  CropInside(crop, extent)
<1>1. crop.offset \in Nat /\ crop.extent \in Nat /\ extent \in Nat
  BY SessionAssumption DEF Bytes
<1> QED
  BY <1>1 DEF CropFits, CropInside, Minus

\* The recorded dimensions are those of the master and a crop is a part of its image,
\* wherever a page is listed.
THEOREM PagesMatch == Spec => []PagesMatchMasters
<1>1. IInv => PagesMatchMasters
  <2> SUFFICES ASSUME IInv, NEW content \in Everywhere, NEW i \in DOMAIN content
               PROVE  /\ <<content[i].id, content[i].revision>> \in DOMAIN masters
                      /\ masters[<<content[i].id, content[i].revision>>] = content[i].extent
                      /\ content[i].crop # NoCrop => CropInside(content[i].crop, content[i].extent)
    BY Zenon DEF PagesMatchMasters
  <2>1. GoodPage(content[i], masters) /\ content[i] \in Pages
    BY DEF IInv, Contents, GoodPages
  <2>2. content[i].extent \in Extents /\ content[i].crop \in Crops \cup {NoCrop}
    BY <2>1, PageFields
  <2>3. ASSUME content[i].crop # NoCrop PROVE CropInside(content[i].crop, content[i].extent)
    BY <2>1, <2>2, <2>3, FittingIsInside DEF GoodPage
  <2> QED
    BY <2>1, <2>3 DEF GoodPage
<1> QED
  BY Invariance, <1>1, PTL

\* The pages in memory can be saved, and every valid manifest can be loaded.
THEOREM ManifestsLoadable == Spec => []ManifestsLoad
<1>1. IInv => ManifestsLoad
  <2> SUFFICES ASSUME IInv PROVE ManifestsLoad
    OBVIOUS
  <2>1. GoodPages(pages, masters)
    BY DEF IInv, Contents, Everywhere
  <2>2. ValidPages(pages)
    <3> SUFFICES ASSUME NEW i \in DOMAIN pages PROVE ValidPage(pages[i])
      BY DEF ValidPages
    <3>1. GoodPage(pages[i], masters)
      BY <2>1 DEF GoodPages
    <3> QED
      BY <3>1 DEF GoodPage, ValidPage
  <2> QED
    BY <2>2, ValidLoads DEF ManifestsLoad
<1> QED
  BY Invariance, <1>1, PTL

\* After a crash at any step of save(), load() finds the last published manifest.
THEOREM CrashSafe == Spec => []CrashKeepsCommitted
<1>1. IInv => CrashKeepsCommitted
  <2> SUFFICES ASSUME IInv, corruptions = 0 PROVE Recovered = committed
    BY DEF CrashKeepsCommitted
  <2>1. current = committed
    BY DEF IInv, Publication
  <2>2. CASE committed = Absent
    <3>1. ~Loads(current) /\ ~Loads(backup)
      BY <2>1, <2>2 DEF IInv, Publication, Loads, Absent
    <3> QED
      BY <2>2, <3>1 DEF Recovered
  <2>3. CASE committed # Absent
    <3>1. Loads(current)
      BY <2>1, <2>3, ValidLoads DEF IInv, Publication
    <3> QED
      BY <2>1, <3>1 DEF Recovered
  <2> QED
    BY <2>2, <2>3
<1> QED
  BY Invariance, <1>1, PTL

\* load() returns the last published manifest, or its predecessor after decay.
THEOREM RecoveryFaithful == Spec => []RecoversPublished
<1>1. IInv => RecoversPublished
  <2> SUFFICES ASSUME IInv, Recovered # Absent
               PROVE  Recovered = committed \/ (corruptions > 0 /\ Recovered = prior)
    BY DEF RecoversPublished
  <2>1. CASE Loads(current)
    BY <2>1 DEF IInv, Publication, Recovered, Loads, Corrupt
  <2>2. CASE ~Loads(current)
    <3>1. Recovered = backup /\ Loads(backup)
      BY <2>2 DEF Recovered
    <3>2. backup \in {committed, prior} /\ committed # Absent
      BY <3>1 DEF IInv, Publication, Loads, Absent, Corrupt
    <3>3. current # committed
      BY <2>2, <3>2, ValidLoads DEF IInv, Publication
    <3> QED
      BY <3>1, <3>2, <3>3 DEF IInv, Publication
  <2> QED
    BY <2>1, <2>2
<1> QED
  BY Invariance, <1>1, PTL
=============================================================================
