---------------------------- MODULE LabelledLoad ----------------------------
(***************************************************************************)
(* What a stream load promises, without requests or retries: the rows of   *)
(* a label enter the table once, whoever loads under it and however often; *)
(* a call reports them as loaded only if they are its own and are in; a    *)
(* call that fails or is told of a duplicate promises nothing.             *)
(***************************************************************************)
CONSTANTS
  Calls,
  Copies,     \* the copies of its data a call may put on the wire
  CallOf,     \* CallOf[x]: the call that sent copy x
  BaseLabel   \* BaseLabel[c]: the label call c loads under

VARIABLES
  outcome,  \* outcome[c]: what the call reported
  rows      \* the copies whose rows are in the table

vars == <<outcome, rows>>

Init == outcome = [c \in Calls |-> "working"] /\ rows = {}

Enter(x) ==
  /\ \A y \in rows : BaseLabel[CallOf[y]] # BaseLabel[CallOf[x]]
  /\ rows' = rows \cup {x}
  /\ UNCHANGED outcome

Report(c, how) ==
  /\ outcome[c] = "working"
  /\ how = "loaded" => \E x \in rows : CallOf[x] = c
  /\ outcome' = [outcome EXCEPT ![c] = how]
  /\ UNCHANGED rows

Next ==
  \/ \E x \in Copies : Enter(x)
  \/ \E c \in Calls : Report(c, "loaded") \/ Report(c, "duplicate") \/ Report(c, "failed")

Spec == Init /\ [][Next]_vars

=============================================================================
