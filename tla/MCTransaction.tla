---------------------------- MODULE MCTransaction ----------------------------
(* Instances of Transaction for TLC.                                        *)
EXTENDS Transaction, TLC

CONSTANTS c1, c2, l1, l2, b1, b2

\* Every call has the label l1: two calls compete for it.
SharedLabel == [c \in Calls |-> l1]

\* Every call has a label of its own.
OwnLabels == [c \in Calls |-> IF c = c1 THEN l1 ELSE l2]

\* Calls that share a label are interchangeable.
SymmetricCalls == Permutations(Calls)

=============================================================================
