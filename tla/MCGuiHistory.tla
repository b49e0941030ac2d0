---------------------------- MODULE MCGuiHistory ----------------------------
(***************************************************************************)
(* GuiHistory with two windows and one more entry than a list holds.       *)
(***************************************************************************)
EXTENDS GuiHistory, TLC

Symmetry == Permutations(Windows) \cup Permutations(Entries)
=============================================================================
