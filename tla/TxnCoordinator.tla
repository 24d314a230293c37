--------------------------- MODULE TxnCoordinator ---------------------------
(***************************************************************************)
(* The StarRocks frontend's transaction manager, as the SDK relies on it.  *)
(* It is not code of the repository: what it answers is taken from the     *)
(* requests the SDK sends (src/src/layers/transaction.layer.ts) and from   *)
(* the answers the integration tests expect (src/test/transaction.test.ts  *)
(* and src/test/effect-services.test.ts):                                  *)
(*   - begin of a label in use fails with LABEL_ALREADY_EXISTS;            *)
(*   - load, commit and rollback of an unknown transaction fail;           *)
(*   - load after commit or rollback, a second commit, a second rollback   *)
(*     and commit after rollback fail; commit without prepare is accepted; *)
(*   - a prepared transaction may be gone when its commit arrives: "prepare*)
(*     operation works but subsequent commit fails with TXN_NOT_EXISTS"    *)
(*     (transaction.test.ts:17-19).  Expire may strike right after prepare.*)
(* A request names its transaction by label only: makeHeaders              *)
(* (transaction.layer.ts:199) sends label and db, never the TxnId.         *)
(***************************************************************************)
EXTENDS Naturals

CONSTANTS
  Calls,            \* the withTransaction calls of the application(s)
  Labels,           \* transaction labels
  LabelOf,          \* the label each call was given in its options
  Batches,          \* the data a call loads, one batch per load(handle, data)
  MaxAttempts,      \* attempts of one operation: the first and its retries
  LabelReuse,       \* does a label become free again after a rollback?
  NoCall, NoBatch

ASSUME CallsAssumption ==
  /\ LabelOf \in [Calls -> Labels]
  /\ NoCall \notin Calls
  /\ NoBatch \notin Batches
ASSUME AttemptsAssumption == MaxAttempts \in Nat \ {0}
ASSUME ServerAssumption == LabelReuse \in BOOLEAN

Ops == {"begin", "load", "prepare", "commit", "abort"}

\* One HTTP request.  Retries resend the same headers and body, so two
\* requests of one operation differ only in attempt, which the server cannot
\* see; life tells a process from the one restarted after its crash.
Requests ==
  [call: Calls, op: {"load"}, batch: Batches, attempt: 1..MaxAttempts, life: {1, 2}]
  \cup [call: Calls, op: Ops \ {"load"}, batch: {NoBatch}, attempt: 1..MaxAttempts,
        life: {1, 2}]

RejectStatuses == {"FAILED", "LABEL_ALREADY_EXISTS", "TXN_NOT_EXISTS",
                   "ANALYSIS_ERROR", "INTERNAL_ERROR"}
Statuses == {"OK"} \cup RejectStatuses

VARIABLES
  txn,     \* txn[l]: what the server knows of label l
  staged,  \* staged[l]: the load requests whose rows the transaction holds
  owner    \* owner[l]: the call whose begin opened it (history variable)

serverVars == <<txn, staged, owner>>

TxnStates == {"none", "open", "prepared", "committed", "aborted"}

ServerTypeOK ==
  /\ txn \in [Labels -> TxnStates]
  /\ staged \in [Labels -> SUBSET Requests]
  /\ owner \in [Labels -> Calls \cup {NoCall}]

ServerInit ==
  /\ txn = [l \in Labels |-> "none"]
  /\ staged = [l \in Labels |-> {}]
  /\ owner = [l \in Labels |-> NoCall]

Free(l) == txn[l] = "none" \/ (LabelReuse /\ txn[l] = "aborted")

\* The request takes effect and is answered OK.
GrantBegin(r) ==
  LET l == LabelOf[r.call] IN
  /\ r.op = "begin" /\ Free(l)
  /\ txn' = [txn EXCEPT ![l] = "open"]
  /\ staged' = [staged EXCEPT ![l] = {}]
  /\ owner' = [owner EXCEPT ![l] = r.call]

GrantLoad(r) ==
  LET l == LabelOf[r.call] IN
  /\ r.op = "load" /\ txn[l] = "open"
  /\ staged' = [staged EXCEPT ![l] = @ \cup {r}]
  /\ UNCHANGED <<txn, owner>>

\* Whether a repeated prepare is granted is not known: both are possible.
GrantPrepare(r) ==
  LET l == LabelOf[r.call] IN
  /\ r.op = "prepare" /\ txn[l] \in {"open", "prepared"}
  /\ txn' = [txn EXCEPT ![l] = "prepared"]
  /\ UNCHANGED <<staged, owner>>

GrantCommit(r) ==
  LET l == LabelOf[r.call] IN
  /\ r.op = "commit" /\ txn[l] \in {"open", "prepared"}
  /\ txn' = [txn EXCEPT ![l] = "committed"]
  /\ UNCHANGED <<staged, owner>>

GrantRollback(r) ==
  LET l == LabelOf[r.call] IN
  /\ r.op = "abort" /\ txn[l] \in {"open", "prepared"}
  /\ txn' = [txn EXCEPT ![l] = "aborted"]
  /\ UNCHANGED <<staged, owner>>

Grant(r) == \/ GrantBegin(r) \/ GrantLoad(r) \/ GrantPrepare(r)
            \/ GrantCommit(r) \/ GrantRollback(r)

\* The statuses a request can be refused with, always without effect.  An
\* internal error can hit any request, bad data any load.
Refusals(r) ==
  LET l == LabelOf[r.call] IN
  {"INTERNAL_ERROR"}
    \cup (IF r.op = "begin" /\ ~Free(l) THEN {"LABEL_ALREADY_EXISTS"} ELSE {})
    \cup (IF r.op # "begin" /\ txn[l] # "open" THEN {"TXN_NOT_EXISTS"} ELSE {})
    \cup (IF r.op # "begin" /\ txn[l] \notin {"none", "open"} THEN {"FAILED"} ELSE {})
    \cup (IF r.op = "load" THEN {"ANALYSIS_ERROR"} ELSE {})

\* The server's answer to r, with its effect.
Serve(r, status) ==
  \/ status = "OK" /\ Grant(r)
  \/ status \in Refusals(r) /\ UNCHANGED serverVars

\* The timeout and idle_transaction_timeout a begin asks for, and the
\* prepared_timeout a prepare asks for: the server rolls back on its own, a
\* prepared transaction as well as an open one.
Expire(l) ==
  /\ txn[l] \in {"open", "prepared"}
  /\ txn' = [txn EXCEPT ![l] = "aborted"]
  /\ UNCHANGED <<staged, owner>>

=============================================================================
