----------------------------- MODULE AtomicLoad -----------------------------
(***************************************************************************)
(* What the transaction service promises of each withTransaction call,     *)
(* without requests, retries or a server: the rows of a call appear once,  *)
(* as a whole, and only if its function succeeded; success is reported     *)
(* only when they have appeared; a call that failed before asking for its  *)
(* commit leaves nothing; one that failed after asking is in doubt, and    *)
(* its rows may still appear.                                              *)
(***************************************************************************)
CONSTANT Calls

VARIABLES
  status,   \* status[c]: what the call has reported, or how far it is
  visible   \* the calls whose rows readers can see

vars == <<status, visible>>

Init == status = [c \in Calls |-> "working"] /\ visible = {}

Move(c, from, to) ==
  /\ status[c] = from
  /\ status' = [status EXCEPT ![c] = to]
  /\ UNCHANGED visible

AskCommit(c) == Move(c, "working", "deciding")
Fail(c) == Move(c, "working", "failed")
LeaveInDoubt(c) == Move(c, "deciding", "indoubt")
Succeed(c) == c \in visible /\ Move(c, "deciding", "success")

Appear(c) ==
  /\ status[c] \in {"deciding", "indoubt"}
  /\ visible' = visible \cup {c}
  /\ UNCHANGED status

Next == \E c \in Calls : \/ AskCommit(c) \/ Fail(c) \/ LeaveInDoubt(c)
                         \/ Succeed(c) \/ Appear(c)

Spec == Init /\ [][Next]_vars

=============================================================================
