---------------------------- MODULE MCWinWatcher ----------------------------
(***************************************************************************)
(* Small instances of WinWatcher for TLC.                                  *)
(***************************************************************************)
EXTENDS WinWatcher, TLC

CONSTANTS p1, p2, h1, h2, c1, c2, e1

Symmetry == Permutations(Paths) \cup Permutations(Handles) \cup Permutations(Cbs)
=============================================================================
