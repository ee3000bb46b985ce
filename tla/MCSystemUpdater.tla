---------------------------- MODULE MCSystemUpdater ----------------------------
(* Starters are interchangeable, and so are the threads that confirm.  AnImage
   is a CHOOSE, so images are not. *)
EXTENDS SystemUpdater, TLC

ThreadSymmetry == Permutations(Starters) \cup Permutations(Confirmers)
=============================================================================
