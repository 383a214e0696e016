----------------------------- MODULE MCWorldData -----------------------------
(***************************************************************************)
(* Model-checking instances of WorldData.  Allowance 2 leaves room for the *)
(* current state and one Backup, so that the third unit starts a Storage   *)
(* Grace Period; a day each of grace and of Pending Deletion lets the      *)
(* maintenance run before and after they are over.                         *)
(***************************************************************************)
EXTENDS WorldData

CONSTANTS s1, s2
===============================================================================
