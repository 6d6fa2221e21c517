--------------------------- MODULE MCFleetSnapshots ---------------------------
(***************************************************************************)
(* FleetSnapshots for TLC: three agents, two of them in one shard.         *)
(***************************************************************************)
EXTENDS FleetSnapshots

ThreeAgents == 1..3
TwoShards == <<"s1", "s1", "s2">>
===============================================================================
