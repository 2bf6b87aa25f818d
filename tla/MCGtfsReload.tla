---------------------------- MODULE MCGtfsReload ----------------------------
(***************************************************************************)
(* Bundles of two files, one of which (as transfers.txt may be) is left    *)
(* out of the second bundle in one instance.                               *)
(***************************************************************************)
EXTENDS GtfsReload

CONSTANTS trips, transfers

MCFiles   == {trips, transfers}
MCAll     == [v \in Versions |-> MCFiles]
MCDropped == [v \in Versions |-> IF v = 2 THEN {trips} ELSE MCFiles]
=============================================================================
