---------------------------- MODULE MCTwiMaster ----------------------------
(***************************************************************************)
(* The transactions of SRF08::range.                                       *)
(***************************************************************************)
EXTENDS TwiMaster

\* Bytes of insula's: CMD_REG, 0x51 and RANGE_REG.
MCCommand == <<[dev |-> 0, n |-> 100, i |-> 0],
               [dev |-> 0, n |-> 100, i |-> 81]>>
Select == <<[dev |-> 0, n |-> 100, i |-> 2]>>

RangeScript ==
    << [op |-> "write", data |-> MCCommand],
       [op |-> "write", data |-> Select],
       [op |-> "read", n |-> 2] >>
=============================================================================
