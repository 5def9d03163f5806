---------------------------- MODULE MCMacWatcher ----------------------------
(***************************************************************************)
(* Small instances of MacWatcher for TLC.                                  *)
(***************************************************************************)
EXTENDS MacClaims, TLC

CONSTANTS c1, c2, e1

\* A directory, one below it, and a file in each.
OuterDir == <<"a">>
InnerDir == <<"a", "b">>
NestedDirs == {OuterDir, InnerDir}
InnerFile == {<<"a", "b", "f">>}
BothFiles == {<<"a", "b", "f">>, <<"a", "g">>}
JustOuter == {OuterDir}

Symmetry == Permutations({c1, c2})
=============================================================================
