---------------------------- MODULE MCStatsSync ----------------------------
(***************************************************************************)
(* Instances of StatsSync for TLC.                                         *)
(***************************************************************************)
EXTENDS StatsSync

MCCreation == [s \in Sources |-> s + 1]
=============================================================================
