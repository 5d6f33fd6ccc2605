--------------------------- MODULE SessionExport ---------------------------
(***************************************************************************)
(* The exports of ScanSession (src/src/scanner_core.cpp) as the window's   *)
(* Save button calls them (save_output() of src/src/mock_gui.cpp): the     *)
(* included pages as one image file each, or all in one PDF file, in a     *)
(* folder where other programs create files too. A file is written beside  *)
(* its destination and renamed, and the call goes on with the next one; a  *)
(* failure ends it where it is. An action is what happens up to the next   *)
(* access to the file system that another program's access may precede.    *)
(***************************************************************************)
EXTENDS Naturals, SequencesExt, Subsequences

CONSTANTS
  Stem,             \* the document names that callers give
  MaxExportPages,   \* how many pages the session may have
  RenameReplaces,   \* rename() replaces a file: elsewhere than on Windows
  MaxExports,       \* bound of the model: exports
  MaxForeign        \* bound of the model: files of other programs

ASSUME ExportAssumption ==
  /\ {MaxExportPages, MaxExports, MaxForeign} \subseteq Nat
  /\ RenameReplaces \in BOOLEAN

VARIABLES
  included,   \* for each page of the session whether it is in the output
  folder,     \* the files of the output folder: what each name holds
  batch,      \* the files still to publish: [file, holds]
  staged,     \* the stage file of the first of them is complete
  exports,    \* history: how many exports have begun
  foreign,    \* history: how many files other programs have created
  outcome     \* what the last export came to

exportVars == <<included, folder, batch, staged, exports, foreign, outcome>>

Formats == {"jpg", "pdf"}

\* The file of an image or, with number 0, of a document.
File == [stem : Stem, format : Formats, number : 0 .. MaxExportPages]

Foreign == [export |-> 0, pages |-> <<>>]

\* The contents of a file of an export are the pages in it.
Contents == [export : Nat, pages : Seq(Nat)]

\* A session without pages behaves like one whose pages are all excluded.
ExportInit ==
  /\ included \in SeqOf(BOOLEAN, MaxExportPages) \ {<<>>}
  /\ folder = <<>>
  /\ batch = <<>> /\ staged = FALSE
  /\ exports = 0 /\ foreign = 0
  /\ outcome = "none"

\* The included pages in session order.
Included == Ascending(Len(included), {page \in DOMAIN included : included[page]})

Exists(file) == file \in DOMAIN folder

\* The files of an export, in the order in which they are published.
FilesOf(stem, format) ==
  IF format = "pdf"
  THEN <<[file |-> [stem |-> stem, format |-> format, number |-> 0],
          holds |-> [export |-> exports + 1, pages |-> Included]]>>
  ELSE [i \in DOMAIN Included |->
          [file |-> [stem |-> stem, format |-> format, number |-> i],
           holds |-> [export |-> exports + 1, pages |-> <<Included[i]>>]]]

\* A mutant: a batch leaves out the files that are there already.
SaveMissing(stem, format) ==
  /\ batch = <<>>
  /\ exports < MaxExports
  /\ exports' = exports + 1
  /\ batch' = SelectSeq(FilesOf(stem, format), LAMBDA item : ~Exists(item.file))
  /\ outcome' = "none"
  /\ UNCHANGED <<included, folder, staged, foreign>>

\* save_output() until the first file is to be written: a session without included
\* pages, or an image that is there already, ends the export.
Save(stem, format) ==
  /\ batch = <<>>
  /\ exports < MaxExports
  /\ exports' = exports + 1
  /\ IF \/ Included = <<>>
        \/ format = "jpg" /\ \E i \in DOMAIN FilesOf(stem, format) : Exists(FilesOf(stem, format)[i].file)
     THEN outcome' = "failed" /\ UNCHANGED batch
     ELSE outcome' = "none" /\ batch' = FilesOf(stem, format)
  /\ UNCHANGED <<included, folder, staged, foreign>>

\* The export throws; its earlier files stay.
ExportFails ==
  /\ batch' = <<>> /\ staged' = FALSE
  /\ outcome' = "failed"
  /\ UNCHANGED <<included, folder, exports, foreign>>

\* publish_new_file() or encode_wic_gray(), which look at the destination again,
\* until the stage file is complete.
Stage ==
  /\ batch # <<>> /\ ~staged
  /\ IF Exists(batch[1].file)
     THEN ExportFails
     ELSE staged' = TRUE /\ UNCHANGED <<included, folder, batch, exports, foreign, outcome>>

\* A mutant: the rename replaces what is there.
PublishOver ==
  /\ staged
  /\ folder' = [file \in DOMAIN folder \cup {batch[1].file} |->
                  IF file = batch[1].file THEN batch[1].holds ELSE folder[file]]
  /\ batch' = Tail(batch) /\ staged' = FALSE
  /\ outcome' = IF Len(batch) = 1 THEN "saved" ELSE "none"
  /\ UNCHANGED <<included, exports, foreign>>

\* The rename, and the end of the export after the last file.
Publish ==
  /\ staged
  /\ IF Exists(batch[1].file) /\ ~RenameReplaces
     THEN ExportFails
     ELSE /\ folder' = [file \in DOMAIN folder \cup {batch[1].file} |->
                          IF file = batch[1].file THEN batch[1].holds ELSE folder[file]]
          /\ batch' = Tail(batch) /\ staged' = FALSE
          /\ outcome' = IF Len(batch) = 1 THEN "saved" ELSE "none"
          /\ UNCHANGED <<included, exports, foreign>>

\* A page cannot be rendered, or a file not be written or renamed.
WriteFails == batch # <<>> /\ ExportFails

\* Another program creates a file.
OtherCreates(file) ==
  /\ ~Exists(file)
  /\ foreign < MaxForeign
  /\ foreign' = foreign + 1
  /\ folder' = [f \in DOMAIN folder \cup {file} |-> IF f = file THEN Foreign ELSE folder[f]]
  /\ UNCHANGED <<included, batch, staged, exports, outcome>>

\* Between two exports the user excludes a page or restores it, and the status
\* line no longer speaks of the export.
TogglePage(page) ==
  /\ batch = <<>>
  /\ included' = [included EXCEPT ![page] = ~included[page]]
  /\ outcome' = "none"
  /\ UNCHANGED <<folder, batch, staged, exports, foreign>>

-----------------------------------------------------------------------------
ExportNext ==
  \/ \E stem \in Stem, format \in Formats : Save(stem, format)
  \/ Stage
  \/ Publish
  \/ WriteFails
  \/ \E file \in File : OtherCreates(file)
  \/ \E page \in DOMAIN included : TogglePage(page)

ExportSpec == ExportInit /\ [][ExportNext]_exportVars

-----------------------------------------------------------------------------
ExportTypeOK ==
  /\ included \in Seq(BOOLEAN)
  /\ DOMAIN folder \subseteq File
  /\ \A file \in DOMAIN folder : folder[file] \in Contents
  /\ batch \in Seq([file : File, holds : Contents])
  /\ staged \in BOOLEAN
  /\ exports \in 0 .. MaxExports /\ foreign \in 0 .. MaxForeign
  /\ outcome \in {"none", "saved", "failed"}

\* An export refuses to replace an existing file name: whatever is in the folder,
\* its own earlier files and those of another program that appear while it runs,
\* stays as it is. (So it is where the rename refuses to replace.)
NeverReplaces ==
  [][\A file \in DOMAIN folder : file \in DOMAIN folder' /\ folder'[file] = folder[file]]_exportVars

\* The files that exports left under one name come from one export: the first
\* pages of it in session order, numbered without a gap, also where an export
\* failed at a later page and another was tried under the same name. An export
\* that says it has saved the document has saved every included page.
ExportsAreWhole ==
  /\ \A file, other \in DOMAIN folder :
       /\ Foreign \notin {folder[file], folder[other]}
       /\ file.stem = other.stem /\ file.format = other.format
       => /\ folder[file].export = folder[other].export
          /\ file.number < other.number => folder[file].pages[1] < folder[other].pages[1]
          /\ \A number \in 1 .. file.number : Exists([file EXCEPT !.number = number])
  /\ outcome = "saved" =>
       ToSet(Included) =
         UNION {ToSet(folder[file].pages) : file \in {f \in DOMAIN folder : folder[f].export = exports}}
=============================================================================
