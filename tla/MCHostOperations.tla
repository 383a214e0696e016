---------------------------- MODULE MCHostOperations ----------------------------
(***************************************************************************)
(* Model-checking instance of HostOperations.  The three operations of a   *)
(* Runtime are a wake and what follows it: a sleep that players call off,  *)
(* a recovery, a sleep; a marker has one command that waits besides the    *)
(* one that runs; progress tells the stored state, the saved one and what  *)
(* was not saved apart.                                                    *)
(***************************************************************************)
EXTENDS HostOperations
===============================================================================
