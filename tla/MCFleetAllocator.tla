--------------------------- MODULE MCFleetAllocator ---------------------------
(***************************************************************************)
(* FleetAllocator for TLC.  Tasks are interchangeable.                     *)
(***************************************************************************)
EXTENDS FleetAllocator, TLC

TaskSymmetry == Permutations(Tasks)
===============================================================================
