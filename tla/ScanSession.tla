---------------------------- MODULE ScanSession ----------------------------
(***************************************************************************)
(* ScanSession of src/src/scanner_core.cpp: an in-memory list of pages     *)
(* over immutable master files, and its manifest, published through a      *)
(* stage file with the previous manifest kept as a backup.                 *)
(*                                                                         *)
(* One process works on one session root. Its calls are atomic unless they *)
(* change several files that a later load() reads: save() is therefore a   *)
(* sequence of steps between which the process may crash. A call that      *)
(* throws before it changes anything is a stuttering step. A master is     *)
(* staged and renamed in one step: an abandoned *.tmp file is overwritten  *)
(* by the next call and read by none.                                      *)
(*                                                                         *)
(* Widths and heights are treated alike everywhere, so a page has one      *)
(* extent, and a crop is an offset and an extent on that axis.             *)
(***************************************************************************)
EXTENDS PageEdits, Sequences, SequencesExt

CONSTANTS
  MaxPages,         \* kMaxPages
  MaxHistory,       \* kMaxHistoryRecords
  MaxRecords,       \* kMaxManifestBytes, counted in PAGE and HISTORY records
  Extents,          \* sizes of the frames the scanner delivers
  Degrees,          \* what callers pass to rotate()
  Crops,            \* what callers pass to set_crop()
  Tones,            \* what callers pass to set_tone() (one of brightness, contrast)
  MaxRevision,      \* the largest value of Page::revision
  MaxEdits,         \* bound of the model: editing calls
  MaxSaves,         \* bound of the model: save() calls
  MaxCorruptions    \* bound of the model: how often the current manifest decays

ASSUME SessionAssumption ==
  /\ MaxPages \in Nat \ {0} /\ MaxHistory \in Nat /\ MaxRecords \in Nat
  /\ Word \in Nat /\ Extents \subseteq Bytes \ {0}
  /\ Degrees \subseteq Nat
  /\ Crops \subseteq [offset : Bytes, extent : Bytes]
  /\ Tones \subseteq Int
  /\ MaxRevision \in Nat \ {0}
  /\ MaxEdits \in Nat /\ MaxSaves \in Nat /\ MaxCorruptions \in Nat

VARIABLES
  open,         \* the process holds a ScanSession
  pages,        \* pages_
  masters,      \* originals/: the extent of the image in each published master
  current,      \* session.jscan
  backup,       \* session.jscan.bak
  stage,        \* session.jscan.tmp, as save() wrote it
  saving,       \* where save() is
  committed,    \* history: the pages of the last manifest that was published
  prior,        \* history: the pages of the one before it
  edits, saves, corruptions   \* history: calls, for the bounds

disk == <<masters, current, backup, stage>>
ghosts == <<committed, prior, corruptions>>
vars == <<open, pages, disk, saving, ghosts, edits, saves>>

PageIds == 1 .. MaxPages

Revisions == 1 .. MaxRevision

\* A master's path: originals/page-<id>-r<revision>.pgm.
Paths == PageIds \X Revisions

\* The Page record. Its history holds the revisions of preserved_masters.
Pages ==
  [id : PageIds, revision : Revisions, history : Seq(Revisions), extent : Extents,
   rotation : {0, 90, 180, 270}, crop : Crops \cup {NoCrop}, tone : -100 .. 100,
   included : BOOLEAN]

Absent == [status |-> "absent", pages |-> << >>]
Corrupt == [status |-> "corrupt", pages |-> << >>]
Manifest(content) == [status |-> "valid", pages |-> content]

Ids(content) == {content[i].id : i \in DOMAIN content}

\* page_by_id().
IndexOf(content, id) == CHOOSE i \in DOMAIN content : content[i].id = id

-----------------------------------------------------------------------------
\* validate_page() does not throw.
ValidPage(page) ==
  /\ page.rotation \in {0, 90, 180, 270}
  /\ page.tone \in -100 .. 100
  /\ <<page.id, page.revision>> \in DOMAIN masters
  /\ page.crop # NoCrop => CropFits(page.crop, page.extent)
  /\ \A i \in DOMAIN page.history : <<page.id, page.history[i]>> \in DOMAIN masters

ValidPages(content) == \A i \in DOMAIN content : ValidPage(content[i])

HistoryRecords(content) ==
  FoldLeft(LAMBDA n, page : n + Len(page.history), 0, content)

\* load_manifest() does not throw.
Loads(manifest) ==
  /\ manifest.status = "valid"
  /\ Len(manifest.pages) + HistoryRecords(manifest.pages) <= MaxRecords
  /\ Len(manifest.pages) <= MaxPages
  /\ HistoryRecords(manifest.pages) <= MaxHistory
  /\ IsInjective([i \in DOMAIN manifest.pages |-> manifest.pages[i].id])
  /\ ValidPages(manifest.pages)

\* What load() finds: the current manifest or else the backup.
Recovered == IF Loads(current) THEN current ELSE IF Loads(backup) THEN backup ELSE Absent

-----------------------------------------------------------------------------
Init ==
  /\ open = FALSE
  /\ pages = << >>
  /\ masters = [path \in {} |-> 0]
  /\ current = Absent
  /\ backup = Absent
  /\ stage = Absent
  /\ saving = "no"
  /\ committed = Absent
  /\ prior = Absent
  /\ edits = 0
  /\ saves = 0
  /\ corruptions = 0

\* create(): the root may be one that holds a session already.
Create ==
  /\ ~open
  /\ open' = TRUE
  /\ pages' = << >>
  /\ UNCHANGED <<disk, saving, ghosts, edits, saves>>

Load ==
  /\ ~open
  /\ Recovered # Absent
  /\ open' = TRUE
  /\ pages' = Recovered.pages
  /\ UNCHANGED <<disk, saving, ghosts, edits, saves>>

\* The process ends, by crashing in the middle of save() or by dropping the
\* session between two calls, saved or not.
Crash ==
  /\ open
  /\ open' = FALSE
  /\ pages' = << >>
  /\ saving' = "no"
  /\ UNCHANGED <<disk, ghosts, edits, saves>>

\* The published manifest becomes unreadable outside the program.
Decay ==
  /\ corruptions < MaxCorruptions
  /\ current.status = "valid"
  /\ current' = Corrupt
  /\ corruptions' = corruptions + 1
  /\ UNCHANGED <<open, pages, masters, backup, stage, saving, committed, prior, edits, saves>>

-----------------------------------------------------------------------------
\* An editing call on an open session between two saves.
Edit ==
  /\ open
  /\ saving = "no"
  /\ edits < MaxEdits
  /\ edits' = edits + 1
  /\ UNCHANGED <<open, current, backup, stage, saving, ghosts, saves>>

\* A mutant: an existing file is replaced.
PublishMasterOver(path, extent) ==
  masters' = [p \in DOMAIN masters \cup {path} |-> IF p = path THEN extent ELSE masters[p]]

\* publish_master() of a new file; it throws if the destination exists.
PublishMaster(path, extent) ==
  /\ path \notin DOMAIN masters
  /\ masters' = [p \in DOMAIN masters \cup {path} |-> IF p = path THEN extent ELSE masters[p]]

NewPage(id, extent) ==
  [id |-> id, revision |-> 1, history |-> << >>, extent |-> extent, rotation |-> 0,
   crop |-> NoCrop, tone |-> 0, included |-> TRUE]

AddPage(extent) ==
  /\ Edit
  /\ Len(pages) < MaxPages
  /\ LET id == Len(pages) + 1
     IN  /\ PublishMaster(<<id, 1>>, extent)
         /\ pages' = Append(pages, NewPage(id, extent))

\* A mutant: the master that is replaced is not preserved.
RescannedForgetful(page, new) ==
  [id |-> page.id, revision |-> page.revision + 1, history |-> page.history, extent |-> new,
   rotation |-> 0, crop |-> NoCrop, tone |-> 0, included |-> page.included]

\* A mutant: the crop of the earlier image stays.
RescannedKeepsCrop(page, new) ==
  [id |-> page.id, revision |-> page.revision + 1, history |-> Append(page.history, page.revision),
   extent |-> new, rotation |-> 0, crop |-> page.crop, tone |-> 0, included |-> page.included]

\* What rescan() makes of a page: the next revision, with every edit reset.
Rescanned(page, new) ==
  [id |-> page.id, revision |-> page.revision + 1, history |-> Append(page.history, page.revision),
   extent |-> new, rotation |-> 0, crop |-> NoCrop, tone |-> 0, included |-> page.included]

Rescan(i, extent) ==
  /\ Edit
  /\ pages[i].revision < MaxRevision
  /\ Len(pages[i].history) < MaxHistory
  /\ PublishMaster(<<pages[i].id, pages[i].revision + 1>>, extent)
  /\ pages' = [pages EXCEPT ![i] = Rescanned(pages[i], extent)]

\* A mutant: an identifier may be given twice.
ReorderTwice(order) ==
  /\ Edit
  /\ DOMAIN order = DOMAIN pages
  /\ Range(order) \subseteq Ids(pages)
  /\ pages' = [i \in DOMAIN order |-> pages[IndexOf(pages, order[i])]]
  /\ UNCHANGED masters

Reorder(order) ==
  /\ Edit
  /\ DOMAIN order = DOMAIN pages
  /\ IsInjective(order)
  /\ Range(order) \subseteq Ids(pages)
  /\ pages' = [i \in DOMAIN order |-> pages[IndexOf(pages, order[i])]]
  /\ UNCHANGED masters

\* A page after an edit of its presentation.
Edited(page, rotation, crop, tone, included) ==
  [id |-> page.id, revision |-> page.revision, history |-> page.history, extent |-> page.extent,
   rotation |-> rotation, crop |-> crop, tone |-> tone, included |-> included]

Rotated(page, degrees) ==
  Edited(page, Turned(page.rotation, degrees), page.crop, page.tone, page.included)

Rotate(i, degrees) ==
  /\ Edit
  /\ degrees \in Turns
  /\ pages' = [pages EXCEPT ![i] = Rotated(pages[i], degrees)]
  /\ UNCHANGED masters

Cropped(page, crop) == Edited(page, page.rotation, crop, page.tone, page.included)

SetCrop(i, crop) ==
  /\ Edit
  /\ CropFits(crop, pages[i].extent)
  /\ pages' = [pages EXCEPT ![i] = Cropped(pages[i], crop)]
  /\ UNCHANGED masters

ClearCrop(i) ==
  /\ Edit
  /\ pages' = [pages EXCEPT ![i] = Cropped(pages[i], NoCrop)]
  /\ UNCHANGED masters

SetTone(i, tone) ==
  /\ Edit
  /\ tone \in -100 .. 100
  /\ pages' = [pages EXCEPT ![i] =
       Edited(pages[i], pages[i].rotation, pages[i].crop, tone, pages[i].included)]
  /\ UNCHANGED masters

SetIncluded(i, included) ==
  /\ Edit
  /\ pages' = [pages EXCEPT ![i] =
       Edited(pages[i], pages[i].rotation, pages[i].crop, pages[i].tone, included)]
  /\ UNCHANGED masters

-----------------------------------------------------------------------------
(* save(), one action per change of a file that load() may read.           *)

Unsaved == <<open, pages, masters, ghosts>>

\* The checks, and the stage file: complete, or cut short by a failed write, or
\* too large and removed before anything else is touched.
SaveStage ==
  /\ open
  /\ saving = "no"
  /\ saves < MaxSaves
  /\ saves' = saves + 1
  /\ ValidPages(pages)
  /\ HistoryRecords(pages) <= MaxHistory
  /\ LET fits == Len(pages) + HistoryRecords(pages) <= MaxRecords
     IN  stage' \in {Corrupt, IF fits THEN Manifest(pages) ELSE Absent}
  /\ saving' = IF stage'.status = "valid" THEN "staged" ELSE "no"
  /\ UNCHANGED <<Unsaved, current, backup, edits>>

\* A mutant: source and destination of the copy are swapped.
CopyBeginsSwapped ==
  /\ saving = "staged"
  /\ current # Absent
  /\ current' = Corrupt
  /\ saving' = "copying"
  /\ UNCHANGED <<Unsaved, backup, stage, edits, saves>>

\* copy_file() truncates the backup before it writes it.
CopyBegins ==
  /\ saving = "staged"
  /\ current # Absent
  /\ backup' = Corrupt
  /\ saving' = "copying"
  /\ UNCHANGED <<Unsaved, current, stage, edits, saves>>

\* A mutant: the stage is copied, not the published manifest.
CopyEndsOfStage ==
  /\ saving = "copying"
  /\ backup' = stage
  /\ saving' = "copied"
  /\ UNCHANGED <<Unsaved, current, stage, edits, saves>>

CopyEnds ==
  /\ saving = "copying"
  /\ backup' = current
  /\ saving' = "copied"
  /\ UNCHANGED <<Unsaved, current, stage, edits, saves>>

\* The rename of the stage over the current manifest: the commit point.
Publish ==
  /\ saving = "copied" \/ (saving = "staged" /\ current = Absent)
  /\ current' = stage
  /\ stage' = Absent
  /\ committed' = stage
  /\ prior' = committed
  /\ saving' = "no"
  /\ UNCHANGED <<open, pages, masters, backup, corruptions, edits, saves>>

\* A copy or a rename that fails: the stage is removed and save() throws.
SaveFails ==
  /\ saving # "no"
  /\ stage' = Absent
  /\ saving' = "no"
  /\ UNCHANGED <<Unsaved, current, backup, edits, saves>>

-----------------------------------------------------------------------------
Editing ==
  \/ \E extent \in Extents : AddPage(extent)
  \/ \E order \in [DOMAIN pages -> PageIds] : Reorder(order)
  \/ \E i \in DOMAIN pages :
       \/ \E extent \in Extents : Rescan(i, extent)
       \/ \E degrees \in Degrees : Rotate(i, degrees)
       \/ \E crop \in Crops : SetCrop(i, crop)
       \/ ClearCrop(i)
       \/ \E tone \in Tones : SetTone(i, tone)
       \/ \E included \in BOOLEAN : SetIncluded(i, included)

Saving == SaveStage \/ CopyBegins \/ CopyEnds \/ Publish \/ SaveFails

Next == Create \/ Load \/ Editing \/ Saving \/ Crash \/ Decay

Spec == Init /\ [][Next]_vars

-----------------------------------------------------------------------------
Manifests == [status : {"absent", "corrupt", "valid"}, pages : Seq(Pages)]

\* Every variable has the type of the member or the file it stands for.
TypeOK ==
  /\ open \in BOOLEAN
  /\ pages \in Seq(Pages)
  /\ DOMAIN masters \subseteq Paths
  /\ \A path \in DOMAIN masters : masters[path] \in Extents
  /\ current \in Manifests /\ backup \in Manifests /\ stage \in Manifests
  /\ saving \in {"no", "staged", "copying", "copied"}
  /\ committed \in Manifests /\ prior \in Manifests
  /\ edits \in Nat /\ saves \in Nat /\ corruptions \in Nat

\* The lists of pages that exist somewhere: in memory and in manifests.
Everywhere == {pages, current.pages, backup.pages, stage.pages, committed.pages, prior.pages}

\* Rescans keep every earlier master: the history of a page, in memory and in
\* every manifest, lists its revisions from the first to the one before the
\* current one, in order.
HistoryComplete ==
  \A content \in Everywhere : \A i \in DOMAIN content :
    content[i].history = [r \in 1 .. content[i].revision - 1 |-> r]

\* add_page() derives a page's identifier from the number of pages. This never
\* collides, whatever was reordered, rescanned, loaded or recovered before: the
\* identifiers in a list are distinct and none exceeds its length.
IdsAreDense ==
  \A content \in Everywhere :
    /\ \A i \in DOMAIN content : content[i].id \in 1 .. Len(content)
    /\ IsInjective([i \in DOMAIN content |-> content[i].id])

\* Whatever legal calls led here, save() would find each single page valid and load()
\* accepts every manifest on disk that is not corrupt: masters named in it are there,
\* and crops fit the image they were made for or have been reset. This does not say
\* that save() accepts every session: rescan() limits the history of a page, and save()
\* that of all pages together and the size of the manifest.
ManifestsLoad ==
  /\ ValidPages(pages)
  /\ \A manifest \in {current, backup, stage} : manifest.status = "valid" => Loads(manifest)

\* The dimensions a page records are those of the image its master holds, which
\* decoding the master for an export checks, and its crop is a part of that image,
\* although the crop checks subtract unsigned numbers; in memory and in every manifest.
PagesMatchMasters ==
  \A content \in Everywhere : \A i \in DOMAIN content :
    LET page == content[i]
    IN  /\ <<page.id, page.revision>> \in DOMAIN masters
        /\ masters[<<page.id, page.revision>>] = page.extent
        /\ page.crop # NoCrop => CropInside(page.crop, page.extent)

\* A published master is never replaced or removed.
MastersImmutable ==
  [][\A path \in DOMAIN masters :
       path \in DOMAIN masters' /\ masters'[path] = masters[path]]_vars

\* Atomic publication: at every step of save(), and so after a crash at any
\* step, load() returns the manifest published last.
CrashKeepsCommitted == corruptions = 0 => Recovered = committed

\* load() never returns anything but a manifest that was published: the last
\* one, or its predecessor if the current file has decayed.
RecoversPublished ==
  Recovered # Absent =>
    \/ Recovered = committed
    \/ corruptions > 0 /\ Recovered = prior

\* No step of the program gives up the last manifest that can be loaded:
\* publication retains the previous manifest as the backup until the new one is
\* in place.
KeepsAManifest ==
  [][Recovered # Absent /\ corruptions' = corruptions => Recovered' # Absent]_vars

\* A rescan creates the next revision: no file is in the way of the next
\* revision of a page of the open session, so that publish_master() could refuse.
RescanNotBlocked ==
  \A i \in DOMAIN pages : <<pages[i].id, pages[i].revision + 1>> \notin DOMAIN masters
=============================================================================
