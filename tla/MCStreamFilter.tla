---------------------------- MODULE MCStreamFilter ----------------------------
(***************************************************************************)
(* Small instances of StreamFilter for TLC: the constants are numbers and  *)
(* switches, which the configurations give.                                *)
(***************************************************************************)
EXTENDS StreamFilter
=============================================================================
