---------------------------- MODULE MCStreamLoad ----------------------------
(* Instances of StreamLoad for TLC.                                         *)
EXTENDS StreamLoad

CONSTANTS c1, c2, c3, b1, b2

\* All calls were given the same label.
SharedBase == [c \in Calls |-> b1]

=============================================================================
