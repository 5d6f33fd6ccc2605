--------------------------- MODULE MCMockGuiPages ---------------------------
(* Instances of MockGuiPages for TLC. *)
EXTENDS MockGuiPages

\* Two sizes of the window; the image is narrower than the space for it.
TwoLayouts ==
  {[bounds |-> <<1, 12>>, fitted |-> <<3, 10>>],
   [bounds |-> <<3, 14>>, fitted |-> <<5, 14>>]}

OneLayout == {[bounds |-> <<1, 12>>, fitted |-> <<3, 10>>]}
=============================================================================
