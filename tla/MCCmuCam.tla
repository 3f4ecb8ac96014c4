------------------------------ MODULE MCCmuCam ------------------------------
(***************************************************************************)
(* Packets for the model checker: a target in view whose data look like    *)
(* the beginning of an acknowledgement, and the same with a coordinate     *)
(* that has the value of a colon.                                          *)
(***************************************************************************)
EXTENDS CmuCam

Mimic == <<A, A, A, A, A, A, A, A>>
BreaksOff == <<1, COLON, A, A, A, A, A, A>>

MCMeasured == {Mimic, BreaksOff}
=============================================================================
