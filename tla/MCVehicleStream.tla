-------------------------- MODULE MCVehicleStream --------------------------
(***************************************************************************)
(* One or two browsers, a channel of one or two places.                    *)
(***************************************************************************)
EXTENDS VehicleStream

CONSTANTS ann, bob
=============================================================================
