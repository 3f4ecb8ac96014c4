------------------------------ MODULE Datagram ------------------------------
(***************************************************************************)
(* What a radio without acknowledgement can promise: a message arrives     *)
(* whole, in order and once, or not at all.                                *)
(***************************************************************************)
EXTENDS Naturals, Sequences

CONSTANT Message

VARIABLES sent, received

\* s is t with some elements left out.
SubSequence(s, t) ==
    \E f \in [DOMAIN s -> DOMAIN t] :
        /\ \A i, j \in DOMAIN s : i < j => f[i] < f[j]
        /\ \A i \in DOMAIN s : s[i] = t[f[i]]

Init == sent = <<>> /\ received = <<>>

Send == /\ \E m \in Message : sent' = Append(sent, m)
        /\ UNCHANGED received

Deliver == /\ \E m \in Message : received' = Append(received, m)
           /\ SubSequence(received', sent)
           /\ UNCHANGED sent

DatagramSpec == Init /\ [][Send \/ Deliver]_<<sent, received>>
=============================================================================
