--------------------------- MODULE MCVehicleControl ---------------------------
(***************************************************************************)
(* VehicleControl for TLC: one value inside the accepted range and one     *)
(* outside it.                                                             *)
(***************************************************************************)
EXTENDS VehicleControl

MCOperatorValues == {30, 60}
=============================================================================
