----------------------------- MODULE MCMockGui -----------------------------
(***************************************************************************)
(* The instance of the window's page list, of the export of its pages and  *)
(* of their rendering that TLC checks. An export neither changes the list  *)
(* nor the pages and a rendering neither of them, so that each behaviour   *)
(* exercises one of the three.                                             *)
(***************************************************************************)
EXTENDS MockGuiPages, SessionExport, PageRendering

VARIABLE activity   \* what this behaviour exercises

guiVars == <<vars, exportVars, renderVars, activity>>

\* Two sizes of the window; the image is narrower than the space for it.
TwoLayouts ==
  {[bounds |-> <<1, 12>>, fitted |-> <<3, 10>>],
   [bounds |-> <<3, 14>>, fitted |-> <<5, 14>>]}

\* Images with one row, with one column, and higher than they are wide. Every pixel
\* is different, so that none can take another's place.
MCMasters ==
  {Image(size.width, size.height, LAMBDA x, y : 40 * At(size.width, x, y)) :
     size \in {[width |-> 2, height |-> 3], [width |-> 3, height |-> 1], [width |-> 1, height |-> 1]}}

\* No change, every bound of each slider, and both together.
MCTones ==
  [brightness : {-100, 0, 100}, contrast : {-100, 0}] \cup
  {[brightness |-> -7, contrast |-> 31], [brightness |-> 0, contrast |-> 100]}

GuiInit ==
  /\ activity \in {"pages", "saving", "rendering"}
  /\ Init
  /\ activity # "pages" => layout = CHOOSE l \in Layouts : TRUE
  /\ ExportInit
  /\ activity # "saving" => included = <<TRUE>>
  /\ IF activity = "rendering" THEN RenderInit ELSE RenderIdle

GuiNext ==
  /\ UNCHANGED activity
  /\ \/ activity = "pages" /\ Next /\ UNCHANGED <<exportVars, renderVars>>
     \/ activity = "saving" /\ ExportNext /\ UNCHANGED <<vars, renderVars>>
     \/ activity = "rendering" /\ RenderPage /\ UNCHANGED <<vars, exportVars>>

GuiSpec == GuiInit /\ [][GuiNext]_guiVars
=============================================================================
