---------------------------- MODULE MCVirtualWire ----------------------------
(***************************************************************************)
(* A header of the report cogzilla sends (RF_X_EKF) and a short value.    *)
(***************************************************************************)
EXTENDS VirtualWire

MCMessages == <<<<96>>, <<200, 7>>>>
=============================================================================
