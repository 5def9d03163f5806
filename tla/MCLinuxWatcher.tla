--------------------------- MODULE MCLinuxWatcher ---------------------------
(***************************************************************************)
(* Small instances of LinuxWatcher for TLC.                                *)
(***************************************************************************)
EXTENDS LinuxClaims, TLC

CONSTANTS p1, p2, i1, i2, c1, c2, e1, noErr, t1, t2

\* Two directories, of which the second path may be missing at first.
BothDirs == p1 :> i1 @@ p2 :> i2
FirstDir == p1 :> i1 @@ p2 :> NoInode
OneDir == p1 :> i1

Symmetry == Permutations({c1, c2})
=============================================================================
