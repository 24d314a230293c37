----------------------------- MODULE Transaction -----------------------------
(***************************************************************************)
(* The two-phase-commit load service of src/src/layers/transaction.layer.ts*)
(* composed with the HTTP channel and the server.  Each call c is one      *)
(* withTransaction(options, fn): it begins a transaction, runs the user's  *)
(* function, commits when the function succeeds, rolls back when anything  *)
(* fails.  Every operation is retried on a transient error.  The calls in  *)
(* Legacy go through stream-load-transaction.ts instead, whose operations  *)
(* send one request each, wait for its answer without a timeout, and leave *)
(* it to the application whether to roll back after an error.              *)
(*                                                                         *)
(* The channel: a request may be lost, may be served long after its sender *)
(* gave up on it (AbortSignal.timeout ends the wait, not the request), and *)
(* its answer may be lost.                                                 *)
(***************************************************************************)
EXTENDS TxnCoordinator

CONSTANTS
  Legacy,           \* the calls made through the legacy client
  NoRequest, NoReply

ASSUME LegacyAssumption == Legacy \subseteq Calls
ASSUME SentinelAssumption == NoRequest \notin Requests /\ NoReply \notin Statuses

VARIABLES
  pc,      \* where the fiber running the call is
  cur,     \* the request whose answer it awaits
  acked,   \* batches whose load was answered OK
  seen,    \* what the call has asked for or been told of, never forgotten
  life,    \* 1, or 2 once restarted after a crash
  result,  \* how withTransaction (or the recovery) ended
  net,     \* requests sent that the server may still serve
  reply    \* the answer to cur, when it has arrived

clientVars == <<pc, cur, acked, seen, life, result>>
netVars == <<net, reply>>
vars == <<clientVars, netVars, serverVars>>

PCs == {"start", "calling", "fn", "crashed", "done"}
Milestones == {"begun", "prepared", "committing", "aborting", "aborted"}

TypeOK ==
  /\ ServerTypeOK
  /\ pc \in [Calls -> PCs]
  /\ cur \in [Calls -> Requests \cup {NoRequest}]
  /\ \A c \in Calls : pc[c] = "calling" => /\ cur[c] \in Requests
                                           /\ cur[c].call = c
  /\ acked \in [Calls -> SUBSET Batches]
  /\ seen \in [Calls -> SUBSET Milestones]
  /\ life \in [Calls -> {1, 2}]
  /\ result \in [Calls -> {"none", "success", "failure"}]
  /\ net \subseteq Requests
  /\ reply \in [Calls -> Statuses \cup {NoReply}]

Init ==
  /\ ServerInit
  /\ pc = [c \in Calls |-> "start"]
  /\ cur = [c \in Calls |-> NoRequest]
  /\ acked = [c \in Calls |-> {}]
  /\ seen = [c \in Calls |-> {}]
  /\ life = [c \in Calls |-> 1]
  /\ result = [c \in Calls |-> "none"]
  /\ net = {}
  /\ reply = [c \in Calls |-> NoReply]

-----------------------------------------------------------------------------
(* Errors.  Only what isRetryableError looks at is kept: the class of the  *)
(* HTTP status, and whether the text matches a transient-error pattern.    *)

Errors == [http: {"none", "ok", "transient", "client", "other"}, text: BOOLEAN]

\* What a fetch that brings no usable answer can end in: a rejected promise
\* (timeout, reset: no HTTP status), an HTTP error, a 200 that is not JSON.
\* "HTTP request timed out" matches a pattern; "Failed to parse response"
\* does not.
TransportErrors == Errors \ [http: {"ok"}, text: {TRUE}]

IsRetryable(e) == e.http = "transient" \/ (e.http # "client" /\ e.text)

\* parseResponse fails on these statuses and accepts every other one.
ErrorStatuses == {"FAILED", "LABEL_ALREADY_EXISTS", "TXN_NOT_EXISTS",
                  "ANALYSIS_ERROR", "INTERNAL_ERROR"}
\* (mutants) A second rollback or commit, or a begin of a label in use, taken
\* for the success of the first.
AcceptedFailed(status) == status \notin ErrorStatuses \ {"FAILED"}
AcceptedLabelExists(status) == status \notin ErrorStatuses \ {"LABEL_ALREADY_EXISTS"}
Accepted(status) == status \notin ErrorStatuses

-----------------------------------------------------------------------------
(* Sending.                                                                *)

Send(c, r) ==
  /\ pc' = [pc EXCEPT ![c] = "calling"]
  /\ cur' = [cur EXCEPT ![c] = r]
  /\ net' = net \cup {r}
  /\ reply' = [reply EXCEPT ![c] = NoReply]

Request(c, op, batch) ==
  [call |-> c, op |-> op, batch |-> batch, attempt |-> 1, life |-> life[c]]

Reach(c, milestone) == seen' = [seen EXCEPT ![c] = @ \cup {milestone}]

Begin(c) ==
  /\ pc[c] = "start"
  /\ Send(c, Request(c, "begin", NoBatch))
  /\ UNCHANGED <<acked, seen, life, result, serverVars>>

\* validateIdentifier refuses the database or table name: nothing is sent.
BeginInvalid(c) ==
  /\ c \notin Legacy /\ pc[c] = "start"
  /\ pc' = [pc EXCEPT ![c] = "done"]
  /\ result' = [result EXCEPT ![c] = "failure"]
  /\ UNCHANGED <<cur, acked, seen, life, netVars, serverVars>>

\* The user's function: loads batches in any order, may prepare, may load
\* after it prepared (which the server refuses), and stops at its first error.
Load(c, b) ==
  /\ pc[c] = "fn" /\ b \notin acked[c]
  /\ Send(c, Request(c, "load", b))
  /\ UNCHANGED <<acked, seen, life, result, serverVars>>

Prepare(c) ==
  /\ pc[c] = "fn" /\ "prepared" \notin seen[c]
  /\ Send(c, Request(c, "prepare", NoBatch))
  /\ UNCHANGED <<acked, seen, life, result, serverVars>>

\* The function succeeded: Effect.tap(() => commit(handle)).
Commit(c) ==
  /\ pc[c] = "fn"
  /\ Send(c, Request(c, "commit", NoBatch))
  /\ Reach(c, "committing")
  /\ UNCHANGED <<acked, life, result, serverVars>>

\* The release of acquireUseRelease on a failed exit.
Abort(c) ==
  /\ Send(c, Request(c, "abort", NoBatch))
  /\ Reach(c, "aborting")
  /\ UNCHANGED <<acked, life, result>>

\* (mutant) The commit runs whether or not the function succeeded.
FnFailsCommitting(c) ==
  /\ pc[c] = "fn"
  /\ Send(c, Request(c, "commit", NoBatch))
  /\ UNCHANGED <<acked, seen, life, result, serverVars>>

FnFails(c) == pc[c] = "fn" /\ Abort(c) /\ UNCHANGED serverVars

\* The fiber is interrupted inside "use".  tryPromise drops the pending fetch
\* without cancelling it.  acquire and release are uninterruptible.
Interrupt(c) ==
  /\ c \notin Legacy /\ pc[c] = "calling" /\ life[c] = 1
  /\ cur[c].op \in {"load", "prepare", "commit"}
  /\ Abort(c)
  /\ UNCHANGED serverVars

-----------------------------------------------------------------------------
(* Answers.                                                                *)

Finish(c, how) ==
  /\ pc' = [pc EXCEPT ![c] = "done"]
  /\ result' = [result EXCEPT ![c] = how]

Resume(c) ==
  /\ pc' = [pc EXCEPT ![c] = "fn"]
  /\ UNCHANGED result

Succeed(c) ==
  LET op == cur[c].op IN
  /\ \/ op = "begin" /\ Resume(c) /\ Reach(c, "begun") /\ UNCHANGED acked
     \/ /\ op = "load" /\ Resume(c)
        /\ acked' = [acked EXCEPT ![c] = @ \cup {cur[c].batch}]
        /\ UNCHANGED seen
     \/ op = "prepare" /\ Resume(c) /\ Reach(c, "prepared") /\ UNCHANGED acked
     \/ op = "commit" /\ Finish(c, "success") /\ UNCHANGED <<seen, acked>>
     \/ op = "abort" /\ Finish(c, "failure") /\ Reach(c, "aborted") /\ UNCHANGED acked
  /\ UNCHANGED <<cur, life, netVars>>

\* (mutant) A schedule that never counts.
RetryForever(c) ==
  /\ Send(c, cur[c])
  /\ UNCHANGED <<acked, seen, life, result>>

\* The retry schedule: the same operation again, at most MaxAttempts times.
Retry(c) ==
  /\ Send(c, [cur[c] EXCEPT !.attempt = @ + 1])
  /\ UNCHANGED <<acked, seen, life, result>>

\* (mutant) A failed load is swallowed and the function goes on.
GiveUpSwallowingLoad(c) ==
  \/ /\ cur[c].op = "load" /\ Resume(c)
     /\ UNCHANGED <<cur, acked, seen, life, netVars>>
  \/ /\ cur[c].op \in {"begin", "abort"} \/ life[c] = 2
     /\ Finish(c, "failure")
     /\ UNCHANGED <<cur, acked, seen, life, netVars>>
  \/ /\ cur[c].op \in {"prepare", "commit"} /\ life[c] = 1
     /\ Abort(c)

\* (mutant) A failed prepare is taken for a failed acquisition.
GiveUpUnreleased(c) ==
  \/ /\ cur[c].op \in {"begin", "prepare", "abort"} \/ life[c] = 2
     /\ Finish(c, "failure")
     /\ UNCHANGED <<cur, acked, seen, life, netVars>>
  \/ /\ cur[c].op \in {"load", "commit"} /\ life[c] = 1
     /\ Abort(c)

\* (mutant) A failed begin is released like an acquired one.
GiveUpReleasing(c) ==
  \/ /\ cur[c].op = "abort" \/ life[c] = 2
     /\ Finish(c, "failure")
     /\ UNCHANGED <<cur, acked, seen, life, netVars>>
  \/ /\ cur[c].op # "abort" /\ life[c] = 1
     /\ Abort(c)

\* The application catches the error of a legacy operation.
LegacyGiveUp(c) ==
  \/ /\ Finish(c, "failure")
     /\ UNCHANGED <<cur, acked, seen, life, netVars>>
  \/ /\ cur[c].op \in {"load", "prepare", "commit"} /\ life[c] = 1
     /\ Abort(c)

\* No attempt is left, or the error is final.  A failed begin acquired
\* nothing, so nothing is released; a failed abort is swallowed; a recovery
\* after a crash runs commit or abort alone.
GiveUp(c) ==
  \/ /\ cur[c].op \in {"begin", "abort"} \/ life[c] = 2
     /\ Finish(c, "failure")
     /\ UNCHANGED <<cur, acked, seen, life, netVars>>
  \/ /\ cur[c].op \in {"load", "prepare", "commit"} /\ life[c] = 1
     /\ Abort(c)

\* (mutant) One retry too many.
HandleErrorOnceMore(c, e) ==
  \/ c \notin Legacy /\ IsRetryable(e) /\ cur[c].attempt <= MaxAttempts /\ Retry(c)
  \/ c \notin Legacy /\ ~(IsRetryable(e) /\ cur[c].attempt <= MaxAttempts) /\ GiveUp(c)
  \/ c \in Legacy /\ LegacyGiveUp(c)

HandleError(c, e) ==
  \/ c \notin Legacy /\ IsRetryable(e) /\ cur[c].attempt < MaxAttempts /\ Retry(c)
  \/ c \notin Legacy /\ ~(IsRetryable(e) /\ cur[c].attempt < MaxAttempts) /\ GiveUp(c)
  \/ c \in Legacy /\ LegacyGiveUp(c)

\* The answer is read.  An error status carries no httpStatus: whether it is
\* retried depends on the text of its Message.
Answer(c) ==
  /\ pc[c] = "calling" /\ reply[c] # NoReply
  /\ \/ Accepted(reply[c]) /\ Succeed(c)
     \/ /\ ~Accepted(reply[c])
        /\ \E text \in BOOLEAN : HandleError(c, [http |-> "none", text |-> text])
  /\ UNCHANGED serverVars

\* The attempt ends without a usable answer, served or not.
TransportFailure(c) ==
  /\ pc[c] = "calling"
  /\ \E e \in TransportErrors : HandleError(c, e)
  /\ UNCHANGED serverVars

-----------------------------------------------------------------------------
(* The channel and the process.                                            *)

Deliver(r) ==
  /\ r \in net
  /\ \E status \in Statuses :
       /\ Serve(r, status)
       /\ reply' = IF pc[r.call] = "calling" /\ cur[r.call] = r
                   THEN [reply EXCEPT ![r.call] = status] ELSE reply
  /\ net' = net \ {r}
  /\ UNCHANGED clientVars

Lose(r) ==
  /\ r \in net
  /\ net' = net \ {r}
  /\ UNCHANGED <<reply, clientVars, serverVars>>

Crash(c) ==
  /\ pc[c] \in {"calling", "fn"} /\ life[c] = 1
  /\ pc' = [pc EXCEPT ![c] = "crashed"]
  /\ UNCHANGED <<cur, acked, seen, life, result, netVars, serverVars>>

\* "If app crashes, it can still commit() after recovery": the restarted
\* process knows the transaction was prepared and tries to finish it by its
\* label (the server may have rolled it back in between).
Recover(c) ==
  /\ pc[c] = "crashed" /\ "prepared" \in seen[c]
  /\ life' = [life EXCEPT ![c] = 2]
  /\ \/ /\ Send(c, [Request(c, "commit", NoBatch) EXCEPT !.life = 2])
        /\ Reach(c, "committing")
     \/ /\ Send(c, [Request(c, "abort", NoBatch) EXCEPT !.life = 2])
        /\ Reach(c, "aborting")
  /\ UNCHANGED <<acked, result, serverVars>>

ServerTimeout(l) ==
  /\ Expire(l)
  /\ UNCHANGED <<clientVars, netVars>>

FnStep(c) == (\E b \in Batches : Load(c, b)) \/ Prepare(c) \/ Commit(c) \/ FnFails(c)

\* What a call does through either client.  The legacy client has the same five
\* operations, and its tests use them in the order in which withTransaction does.
LegacyStep(c) ==
  \/ Begin(c) \/ FnStep(c)
  \/ Answer(c) \/ TransportFailure(c) \/ Crash(c) \/ Recover(c)

CallStep(c) == LegacyStep(c) \/ BeginInvalid(c) \/ Interrupt(c)

Next ==
  \/ \E c \in Calls : CallStep(c)
  \/ \E r \in net : Deliver(r) \/ Lose(r)
  \/ \E l \in Labels : ServerTimeout(l)

Spec == Init /\ [][Next]_vars

\* Every fetch of the service carries AbortSignal.timeout, so an attempt always
\* ends; the user's function is assumed to make progress, as loads are finite.
Fairness ==
  \A c \in Calls \ Legacy : /\ WF_vars(Answer(c) \/ TransportFailure(c))
                   /\ WF_vars(FnStep(c))

FairSpec == Spec /\ Fairness

-----------------------------------------------------------------------------
(* Properties.  Those marked (no reuse) are stated for a server that keeps *)
(* the label of a rolled back transaction: with reuse, a begin served late *)
(* can reopen the label under the feet of the call that rolled it back.    *)

\* Success is reported only of a transaction that is committed, and (no reuse)
\* only by the call that began it: withTransaction's use of commit.
SuccessIsCommitted ==
  \A c \in Calls : result[c] = "success" => txn[LabelOf[c]] = "committed"

SuccessIsOwn ==
  \A c \in Calls : result[c] = "success" => owner[LabelOf[c]] = c

\* (no reuse) Atomicity: the batches readers can see are exactly those whose
\* load was answered OK to the call that owns the transaction, however many
\* requests were lost, retried or served late, and whoever was interrupted.
VisibleIsAcked ==
  \A l \in Labels : txn[l] = "committed" =>
    {r.batch : r \in staged[l]} = acked[owner[l]]

\* (no reuse) A call whose begin failed never touches the transaction another
\* call holds under its label: acquireUseRelease releases nothing it did not
\* acquire.
OnlyOwnerActs ==
  \A r \in net : r.op # "begin" => owner[LabelOf[r.call]] = r.call

\* (no reuse) abort "discards all data": once rollback was answered OK,
\* no commit still on its way can bring the rows back.
AbortIsFinal ==
  \A c \in Calls : "aborted" \in seen[c] => txn[LabelOf[c]] = "aborted"

\* (no reuse) What a call of the service leaves open or prepared behind it is
\* what it asked in vain to roll back: acquireUseRelease releases whatever was
\* acquired, on every failure and interruption, and a rollback answered OK is
\* one.  (A restarted process, life 2, sends only the one request it chose.)
LeftOpenIsUnanswered ==
  \A c \in Calls \ Legacy :
    /\ pc[c] = "done" /\ life[c] = 1 /\ "begun" \in seen[c]
    /\ txn[LabelOf[c]] \in {"open", "prepared"}
    => "aborting" \in seen[c] /\ "aborted" \notin seen[c]

\* Rows appear only under a call that owns the label and whose function
\* succeeded or whose recovery chose to commit.
CommitOnlyIfAsked ==
  \A l \in Labels : txn[l] = "committed" => "committing" \in seen[owner[l]]

\* Every call of the service returns, whatever the channel does: attempts end by
\* their timeout and their number is bounded.
Terminates ==
  \A c \in Calls \ Legacy : pc[c] \in {"calling", "fn"} ~> pc[c] \in {"done", "crashed"}

\* The service implements AtomicLoad (no reuse).
StatusOf(c) ==
  IF pc[c] = "done"
  THEN IF result[c] = "success" THEN "success"
       ELSE IF "committing" \in seen[c] THEN "indoubt" ELSE "failed"
  ELSE IF "committing" \in seen[c] THEN "deciding" ELSE "working"

VisibleCalls == {c \in Calls : txn[LabelOf[c]] = "committed" /\ owner[LabelOf[c]] = c}

Abstract == INSTANCE AtomicLoad WITH
              status <- [c \in Calls |-> StatusOf(c)], visible <- VisibleCalls

ImplementsAtomicLoad == Abstract!Spec

=============================================================================
