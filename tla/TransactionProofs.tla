-------------------------- MODULE TransactionProofs --------------------------
(***************************************************************************)
(* What holds of Transaction for any number of calls, labels, batches and  *)
(* attempts.  What the label of a transaction tells of it holds on servers *)
(* that keep the label of a rolled back transaction (~LabelReuse); what is *)
(* said of commits (the last section) holds on the others as well.         *)
(***************************************************************************)
EXTENDS Transaction, TLAPS

Awaits(c, op) == pc[c] = "calling" /\ cur[c].op = op
Txn(c) == txn[LabelOf[c]]
Owns(c) == owner[LabelOf[c]] = c

\* What the call's own record says of where it is.
CallInv ==
  \A c \in Calls :
    /\ pc[c] = "start" => seen[c] = {}
    /\ seen[c] # {} => "begun" \in seen[c]
    /\ pc[c] = "fn" \/ (pc[c] = "calling" /\ cur[c].op # "begin")
         => "begun" \in seen[c]
    /\ pc[c] = "fn" \/ Awaits(c, "load") \/ Awaits(c, "prepare")
         => {"committing", "aborting"} \cap seen[c] = {} /\ life[c] = 1
    /\ Awaits(c, "begin") => seen[c] = {} /\ life[c] = 1
    /\ Awaits(c, "commit") => "committing" \in seen[c]
    /\ Awaits(c, "abort") => "aborting" \in seen[c]
    /\ pc[c] # "done" => result[c] = "none"
    /\ pc[c] = "done" => result[c] # "none"
    /\ life[c] = 2 => "prepared" \in seen[c]

\* A label has one owner, which alone acts on it, and the requests on their
\* way are ones it has asked for.
OwnerInv ==
  /\ \A l \in Labels : owner[l] = NoCall <=> txn[l] = "none"
  /\ \A l \in Labels : owner[l] # NoCall => LabelOf[owner[l]] = l
  /\ \A c \in Calls : "begun" \in seen[c] => Owns(c)
  /\ \A r \in net : /\ r.op # "begin" => Owns(r.call)
                    /\ r.op = "commit" => "committing" \in seen[r.call]
                    /\ r.op = "abort" => "aborting" \in seen[r.call]
  /\ CommitOnlyIfAsked

\* An OK that has arrived still tells the truth when it is read.
ReplyInv ==
  \A c \in Calls : pc[c] = "calling" /\ reply[c] = "OK" =>
    /\ cur[c].op = "begin" => Owns(c)
    /\ cur[c].op = "load" => \E r \in staged[LabelOf[c]] : r.batch = cur[c].batch
    /\ cur[c].op = "prepare" => Txn(c) \notin {"none", "open"}
    /\ cur[c].op = "commit" => Txn(c) = "committed"
    /\ cur[c].op = "abort" => Txn(c) = "aborted"

\* What the call was told stays true.
ToldInv ==
  \A c \in Calls :
    /\ "aborted" \in seen[c] => Txn(c) = "aborted"
    /\ "prepared" \in seen[c] => Txn(c) \notin {"none", "open"}
    /\ result[c] = "success" => Txn(c) = "committed" /\ Owns(c) /\ "committing" \in seen[c]
    /\ acked[c] \subseteq {r.batch : r \in staged[LabelOf[c]]}

\* A load not yet answered can only be around while its call awaits it or is
\* past asking for a commit.
Loading(c, b) == Awaits(c, "load") /\ cur[c].batch = b /\ "prepared" \notin seen[c]
Unsettled(c) ==
  /\ {"committing", "prepared"} \cap seen[c] = {}
  /\ pc[c] \in {"crashed", "done"} \/ Awaits(c, "abort")

Tracked(c, b) == b \in acked[c] \/ Loading(c, b) \/ Unsettled(c)

LoadInv ==
  /\ \A l \in Labels : \A r \in staged[l] :
       r.op = "load" /\ r.call = owner[l] /\ Tracked(r.call, r.batch)
  /\ \A r \in net : r.op = "load" =>
       Tracked(r.call, r.batch) \/ "prepared" \in seen[r.call]

\* Nothing acquired is left without a release: the call ended in success, or it
\* asked for a rollback, or it is a recovery that did what it was started for.
ReleaseInv ==
  \A c \in Calls \ Legacy : pc[c] = "done" /\ life[c] = 1 /\ "begun" \in seen[c]
    => result[c] = "success" \/ "aborting" \in seen[c]

IInv == /\ TypeOK /\ CallInv /\ OwnerInv /\ ReplyInv /\ ToldInv /\ LoadInv
        /\ ReleaseInv

-----------------------------------------------------------------------------
(* Type correctness.                                                       *)

LEMMA RequestParts ==
  \A r \in Requests : /\ r.call \in Calls /\ r.op \in Ops
                      /\ r.op = "load" => r.batch \in Batches
BY DEF Requests, Ops

LEMMA RequestType ==
  ASSUME TypeOK, NEW c \in Calls, NEW op \in Ops, NEW b,
         IF op = "load" THEN b \in Batches ELSE b = NoBatch
  PROVE  /\ Request(c, op, b) \in Requests
         /\ Request(c, op, b).call = c
         /\ Request(c, op, b).op = op
         /\ Request(c, op, b).batch = b
BY AttemptsAssumption DEF TypeOK, Request, Requests

\* Sending keeps the types of what it assigns.
LEMMA SendType ==
  ASSUME TypeOK, NEW c \in Calls, NEW r \in Requests, r.call = c, Send(c, r)
  PROVE  /\ pc' \in [Calls -> PCs]
         /\ cur' \in [Calls -> Requests \cup {NoRequest}]
         /\ \A d \in Calls : pc'[d] = "calling" => cur'[d] \in Requests /\ cur'[d].call = d
         /\ net' \subseteq Requests
         /\ reply' \in [Calls -> Statuses \cup {NoReply}]
BY DEF TypeOK, Send, PCs

LEMMA AbortType ==
  ASSUME TypeOK, NEW c \in Calls, Abort(c), UNCHANGED serverVars
  PROVE  TypeOK'
<1>1. Send(c, Request(c, "abort", NoBatch))
  BY DEF Abort
<1>2. Request(c, "abort", NoBatch) \in Requests /\ Request(c, "abort", NoBatch).call = c
  BY RequestType DEF Ops
<1>3. QED
  BY <1>1, <1>2, SendType DEF TypeOK, Abort, Reach, Milestones, ServerTypeOK, serverVars

LEMMA HandleErrorType ==
  ASSUME TypeOK, NEW c \in Calls, pc[c] = "calling", NEW e, HandleError(c, e),
         UNCHANGED serverVars
  PROVE  TypeOK'
<1>1. CASE cur[c].attempt < MaxAttempts /\ Retry(c)
  <2> DEFINE r == [cur[c] EXCEPT !.attempt = @ + 1]
  <2>1. r \in Requests /\ r.call = c
    BY <1>1, AttemptsAssumption DEF TypeOK, Requests
  <2>2. QED
    BY <1>1, <2>1, SendType DEF TypeOK, Retry, ServerTypeOK, serverVars
<1>2. CASE GiveUp(c) \/ LegacyGiveUp(c)
  <2>1. CASE Abort(c)
    BY <2>1, AbortType
  <2>2. CASE Finish(c, "failure") /\ UNCHANGED <<cur, acked, seen, life, netVars>>
    BY <2>2 DEF TypeOK, Finish, PCs, netVars, ServerTypeOK, serverVars
  <2>3. QED
    BY <1>2, <2>1, <2>2 DEF GiveUp, LegacyGiveUp
<1>3. QED
  BY <1>1, <1>2 DEF HandleError

LEMMA SucceedType ==
  ASSUME TypeOK, NEW c \in Calls, pc[c] = "calling", Succeed(c), UNCHANGED serverVars
  PROVE  TypeOK'
<1>1. cur[c] \in Requests
  BY DEF TypeOK
<1>2. cur[c].op = "load" => cur[c].batch \in Batches
  BY <1>1 DEF Requests
<1>3. QED
  BY <1>1, <1>2 DEF TypeOK, Succeed, Resume, Finish, Reach, Milestones, PCs, netVars,
                    ServerTypeOK, serverVars

LEMMA CallStepType ==
  ASSUME TypeOK, NEW c \in Calls, CallStep(c)
  PROVE  TypeOK'
<1> USE DEF ServerTypeOK, serverVars
<1>1. CASE Begin(c)
  BY <1>1, RequestType, SendType DEF Begin, TypeOK, Ops
<1>2. CASE BeginInvalid(c)
  BY <1>2 DEF BeginInvalid, TypeOK, PCs, netVars
<1>3. ASSUME NEW b \in Batches, Load(c, b) PROVE TypeOK'
  BY <1>3, RequestType, SendType DEF Load, TypeOK, Ops
<1>4. CASE Prepare(c)
  BY <1>4, RequestType, SendType DEF Prepare, TypeOK, Ops
<1>5. CASE Commit(c)
  BY <1>5, RequestType, SendType DEF Commit, Reach, Milestones, TypeOK, Ops
<1>6. CASE FnFails(c)
  BY <1>6, AbortType DEF FnFails
<1>7. CASE Interrupt(c)
  BY <1>7, AbortType DEF Interrupt
<1>8. CASE Answer(c)
  BY <1>8, SucceedType, HandleErrorType DEF Answer
<1>9. CASE TransportFailure(c)
  BY <1>9, HandleErrorType DEF TransportFailure
<1>10. CASE Crash(c)
  BY <1>10 DEF Crash, TypeOK, PCs, netVars
<1>11. CASE Recover(c)
  <2>1. ASSUME NEW op \in {"commit", "abort"}
        PROVE  /\ [Request(c, op, NoBatch) EXCEPT !.life = 2] \in Requests
               /\ [Request(c, op, NoBatch) EXCEPT !.life = 2].call = c
    BY RequestType DEF Request, Requests, Ops
  <2>2. CASE /\ Send(c, [Request(c, "commit", NoBatch) EXCEPT !.life = 2])
             /\ Reach(c, "committing")
    BY <1>11, <2>1, <2>2, SendType DEF Recover, Reach, Milestones, TypeOK
  <2>3. CASE /\ Send(c, [Request(c, "abort", NoBatch) EXCEPT !.life = 2])
             /\ Reach(c, "aborting")
    BY <1>11, <2>1, <2>3, SendType DEF Recover, Reach, Milestones, TypeOK
  <2>4. QED
    BY <1>11, <2>2, <2>3 DEF Recover
<1>12. QED
  BY <1>1, <1>2, <1>3, <1>4, <1>5, <1>6, <1>7, <1>8, <1>9, <1>10, <1>11
     DEF CallStep, LegacyStep, FnStep

LEMMA ServeType ==
  ASSUME TypeOK, NEW r \in Requests, NEW s \in Statuses, Serve(r, s)
  PROVE  ServerTypeOK'
<1>1. LabelOf[r.call] \in Labels /\ r.call \in Calls
  BY CallsAssumption DEF Requests
<1>2. CASE Grant(r)
  BY <1>1, <1>2 DEF Grant, GrantBegin, GrantLoad, GrantPrepare, GrantCommit, GrantRollback,
                    TypeOK, ServerTypeOK, TxnStates
<1>3. QED
  BY <1>2 DEF Serve, TypeOK, ServerTypeOK, serverVars

\* Every reachable state has the declared types.
THEOREM TypeCorrect == Spec => []TypeOK
<1>1. Init => TypeOK
  BY CallsAssumption DEF Init, ServerInit, TypeOK, ServerTypeOK, PCs, TxnStates
<1>2. TypeOK /\ [Next]_vars => TypeOK'
  <2> SUFFICES ASSUME TypeOK, [Next]_vars PROVE TypeOK'
    OBVIOUS
  <2>1. ASSUME NEW c \in Calls, CallStep(c) PROVE TypeOK'
    BY <2>1, CallStepType
  <2>2. ASSUME NEW r \in net, Deliver(r) PROVE TypeOK'
    <3>1. PICK s \in Statuses :
            /\ Serve(r, s)
            /\ reply' = IF pc[r.call] = "calling" /\ cur[r.call] = r
                        THEN [reply EXCEPT ![r.call] = s] ELSE reply
      BY <2>2 DEF Deliver
    <3>2. ServerTypeOK'
      BY <3>1, ServeType DEF TypeOK
    <3>3. QED
      BY <2>2, <3>1, <3>2 DEF Deliver, TypeOK, clientVars
  <2>3. ASSUME NEW r \in net, Lose(r) PROVE TypeOK'
    BY <2>3 DEF Lose, TypeOK, clientVars, serverVars, ServerTypeOK
  <2>4. ASSUME NEW l \in Labels, ServerTimeout(l) PROVE TypeOK'
    BY <2>4 DEF ServerTimeout, Expire, TypeOK, clientVars, netVars, ServerTypeOK, TxnStates
  <2>5. CASE UNCHANGED vars
    BY <2>5 DEF vars, clientVars, netVars, serverVars, TypeOK, ServerTypeOK
  <2>6. QED
    BY <2>1, <2>2, <2>3, <2>4, <2>5 DEF Next
<1>3. QED
  BY <1>1, <1>2, PTL DEF Spec

-----------------------------------------------------------------------------
(* The inductive invariant.                                                *)

\* An operation sent at the start of the call or by the user's function, with
\* nothing recorded, preserves the invariant.
LEMMA BeginStep ==
  ASSUME IInv, NEW c \in Calls, Begin(c)
  PROVE  IInv'
<1> USE DEF IInv
<1> DEFINE r == Request(c, "begin", NoBatch)
<1>1. TypeOK'
  BY CallStepType DEF CallStep, LegacyStep
<1>2. r \in Requests /\ r.call = c /\ r.op = "begin" /\ r.batch = NoBatch
  BY RequestType DEF Ops
<1>3. /\ pc[c] = "start" /\ pc' = [pc EXCEPT ![c] = "calling"]
      /\ cur' = [cur EXCEPT ![c] = r] /\ net' = net \cup {r}
      /\ reply' = [reply EXCEPT ![c] = NoReply]
      /\ UNCHANGED <<acked, seen, life, result, txn, staged, owner>>
  BY DEF Begin, Send, serverVars
<1> HIDE DEF r
<1> USE <1>1, <1>2, <1>3
<1>4. CallInv'
  BY DEF CallInv, TypeOK, Awaits
<1>5. OwnerInv'
  BY DEF OwnerInv, CommitOnlyIfAsked, Owns
<1>6. ReplyInv'
  BY SentinelAssumption DEF ReplyInv, TypeOK, Statuses, Owns, Txn
<1>7. ToldInv'
  BY DEF ToldInv, Txn, Owns
<1>8. LoadInv'
  <2>1. \A d \in Calls, x \in Batches : Tracked(d, x) => Tracked(d, x)'
    BY DEF TypeOK, Tracked, Loading, Unsettled, Awaits, CallInv
  <2>2. QED
    BY <2>1, RequestParts DEF LoadInv, TypeOK, ServerTypeOK
<1>9. ReleaseInv'
  BY DEF ReleaseInv, TypeOK, CallInv
<1>10. QED
  BY <1>4, <1>5, <1>6, <1>7, <1>8, <1>9

LEMMA BeginInvalidStep ==
  ASSUME IInv, NEW c \in Calls, BeginInvalid(c)
  PROVE  IInv'
<1> USE DEF IInv
<1>1. TypeOK'
  BY CallStepType DEF CallStep, LegacyStep
<1>2. /\ pc[c] = "start" /\ pc' = [pc EXCEPT ![c] = "done"]
      /\ result' = [result EXCEPT ![c] = "failure"]
      /\ UNCHANGED <<cur, acked, seen, life, net, reply, txn, staged, owner>>
  BY DEF BeginInvalid, netVars, serverVars
<1>3. CallInv' /\ OwnerInv'
  BY <1>1, <1>2 DEF CallInv, OwnerInv, CommitOnlyIfAsked, Owns, TypeOK, Awaits
<1>4. ReplyInv' /\ ToldInv'
  BY <1>1, <1>2 DEF ReplyInv, ToldInv, Txn, Owns, TypeOK
<1>5. LoadInv' /\ ReleaseInv'
  <2>1. \A d \in Calls, x \in Batches : Tracked(d, x) => Tracked(d, x)'
    BY <1>1, <1>2 DEF TypeOK, Tracked, Loading, Unsettled, Awaits, CallInv
  <2>2. QED
    BY <1>1, <1>2, <2>1, RequestParts DEF LoadInv, ReleaseInv, CallInv, Awaits, TypeOK, ServerTypeOK
<1>6. QED
  BY <1>1, <1>3, <1>4, <1>5

LEMMA LoadStep ==
  ASSUME IInv, NEW c \in Calls, NEW b \in Batches, Load(c, b)
  PROVE  IInv'
<1> USE DEF IInv
<1> DEFINE r == Request(c, "load", b)
<1>1. TypeOK'
  BY CallStepType DEF CallStep, LegacyStep, FnStep
<1>2. r \in Requests /\ r.call = c /\ r.op = "load" /\ r.batch = b
  BY RequestType DEF Ops
<1>3. /\ pc[c] = "fn" /\ pc' = [pc EXCEPT ![c] = "calling"]
      /\ cur' = [cur EXCEPT ![c] = r] /\ net' = net \cup {r}
      /\ reply' = [reply EXCEPT ![c] = NoReply]
      /\ UNCHANGED <<acked, seen, life, result, txn, staged, owner>>
  BY DEF Load, Send, serverVars
<1> HIDE DEF r
<1> USE <1>1, <1>2, <1>3
<1>4. CallInv'
  BY DEF CallInv, TypeOK, Awaits
<1>5. OwnerInv'
  BY DEF OwnerInv, CommitOnlyIfAsked, Owns, CallInv
<1>6. ReplyInv' /\ ToldInv'
  BY SentinelAssumption DEF ReplyInv, ToldInv, TypeOK, Statuses, Owns, Txn
<1>7. LoadInv'
  <2>1. \A d \in Calls, x \in Batches : Tracked(d, x) => Tracked(d, x)'
    BY DEF TypeOK, Tracked, Loading, Unsettled, Awaits, CallInv
  <2>2. QED
    BY <2>1, RequestParts DEF LoadInv, Tracked, Loading, Awaits, TypeOK, ServerTypeOK
<1>8. ReleaseInv'
  BY DEF ReleaseInv, TypeOK, CallInv
<1>9. QED
  BY <1>4, <1>5, <1>6, <1>7, <1>8

LEMMA PrepareStep ==
  ASSUME IInv, NEW c \in Calls, Prepare(c)
  PROVE  IInv'
<1> USE DEF IInv
<1> DEFINE r == Request(c, "prepare", NoBatch)
<1>1. TypeOK'
  BY CallStepType DEF CallStep, LegacyStep, FnStep
<1>2. r \in Requests /\ r.call = c /\ r.op = "prepare"
  BY RequestType DEF Ops
<1>3. /\ pc[c] = "fn" /\ pc' = [pc EXCEPT ![c] = "calling"]
      /\ cur' = [cur EXCEPT ![c] = r] /\ net' = net \cup {r}
      /\ reply' = [reply EXCEPT ![c] = NoReply]
      /\ UNCHANGED <<acked, seen, life, result, txn, staged, owner>>
  BY DEF Prepare, Send, serverVars
<1> HIDE DEF r
<1> USE <1>1, <1>2, <1>3
<1>4. CallInv'
  BY DEF CallInv, TypeOK, Awaits
<1>5. OwnerInv'
  BY DEF OwnerInv, CommitOnlyIfAsked, Owns, CallInv
<1>6. ReplyInv' /\ ToldInv'
  BY SentinelAssumption DEF ReplyInv, ToldInv, TypeOK, Statuses, Owns, Txn
<1>7. LoadInv'
  <2>1. \A d \in Calls, x \in Batches : Tracked(d, x) => Tracked(d, x)'
    BY DEF TypeOK, Tracked, Loading, Unsettled, Awaits, CallInv
  <2>2. QED
    BY <2>1, RequestParts DEF LoadInv, Tracked, Loading, Awaits, TypeOK, ServerTypeOK
<1>8. ReleaseInv'
  BY DEF ReleaseInv, TypeOK, CallInv
<1>9. QED
  BY <1>4, <1>5, <1>6, <1>7, <1>8

\* Asking for a commit settles what is loaded: every load was answered.
LEMMA CommitStep ==
  ASSUME IInv, NEW c \in Calls, Commit(c)
  PROVE  IInv'
<1> USE DEF IInv
<1> DEFINE r == Request(c, "commit", NoBatch)
<1>1. TypeOK'
  BY CallStepType DEF CallStep, LegacyStep, FnStep
<1>2. r \in Requests /\ r.call = c /\ r.op = "commit"
  BY RequestType DEF Ops
<1>3. /\ pc[c] = "fn" /\ pc' = [pc EXCEPT ![c] = "calling"]
      /\ cur' = [cur EXCEPT ![c] = r] /\ net' = net \cup {r}
      /\ reply' = [reply EXCEPT ![c] = NoReply]
      /\ seen' = [seen EXCEPT ![c] = @ \cup {"committing"}]
      /\ UNCHANGED <<acked, life, result, txn, staged, owner>>
  BY DEF Commit, Send, Reach, serverVars
<1> HIDE DEF r
<1> USE <1>1, <1>2, <1>3
<1>4. CallInv'
  BY DEF CallInv, TypeOK, Awaits
<1>5. OwnerInv'
  BY DEF OwnerInv, CommitOnlyIfAsked, Owns, CallInv, TypeOK, ServerTypeOK
<1>6. ReplyInv' /\ ToldInv'
  BY SentinelAssumption DEF ReplyInv, ToldInv, TypeOK, Statuses, Owns, Txn
<1>7. LoadInv'
  <2>1. \A d \in Calls, x \in Batches : Tracked(d, x) => Tracked(d, x)'
    BY DEF TypeOK, Tracked, Loading, Unsettled, Awaits, CallInv
  <2>2. QED
    BY <2>1, RequestParts DEF LoadInv, Tracked, Loading, Awaits, TypeOK, ServerTypeOK
<1>8. ReleaseInv'
  BY DEF ReleaseInv, TypeOK, CallInv
<1>9. QED
  BY <1>4, <1>5, <1>6, <1>7, <1>8

\* Asking for a rollback, from the function or from any operation of "use".
LEMMA AbortStep ==
  ASSUME IInv, NEW c \in Calls, Abort(c), UNCHANGED serverVars,
         \/ pc[c] = "fn"
         \/ Awaits(c, "load") \/ Awaits(c, "prepare") \/ Awaits(c, "commit")
  PROVE  IInv'
<1> USE DEF IInv
<1> DEFINE r == Request(c, "abort", NoBatch)
<1>1. TypeOK'
  BY AbortType
<1>2. r \in Requests /\ r.call = c /\ r.op = "abort"
  BY RequestType DEF Ops
<1>3. /\ pc' = [pc EXCEPT ![c] = "calling"]
      /\ cur' = [cur EXCEPT ![c] = r] /\ net' = net \cup {r}
      /\ reply' = [reply EXCEPT ![c] = NoReply]
      /\ seen' = [seen EXCEPT ![c] = @ \cup {"aborting"}]
      /\ UNCHANGED <<acked, life, result, txn, staged, owner>>
  BY DEF Abort, Send, Reach, serverVars
<1> HIDE DEF r
<1> USE <1>1, <1>2, <1>3
<1>4. CallInv'
  BY DEF CallInv, TypeOK, Awaits
<1>5. OwnerInv'
  BY DEF OwnerInv, CommitOnlyIfAsked, Owns, CallInv, Awaits, TypeOK, ServerTypeOK
<1>6. ReplyInv' /\ ToldInv'
  BY SentinelAssumption DEF ReplyInv, ToldInv, TypeOK, Statuses, Owns, Txn
<1>7. LoadInv'
  <2>1. \A d \in Calls, x \in Batches : Tracked(d, x) => Tracked(d, x)'
    BY DEF TypeOK, Tracked, Loading, Unsettled, Awaits, CallInv
  <2>2. QED
    BY <2>1, RequestParts DEF LoadInv, Tracked, Loading, Awaits, TypeOK, ServerTypeOK
<1>8. ReleaseInv'
  BY DEF ReleaseInv, TypeOK, CallInv
<1>9. QED
  BY <1>4, <1>5, <1>6, <1>7, <1>8

\* A retry sends the operation the call is already waiting for.
LEMMA RetryStep ==
  ASSUME IInv, NEW c \in Calls, pc[c] = "calling", cur[c].attempt < MaxAttempts, Retry(c),
         UNCHANGED serverVars
  PROVE  IInv'
<1> USE DEF IInv
<1> DEFINE r == [cur[c] EXCEPT !.attempt = @ + 1]
<1>1. r \in Requests /\ r.call = c /\ r.op = cur[c].op /\ r.batch = cur[c].batch
  BY AttemptsAssumption DEF TypeOK, Requests
<1>2. /\ pc' = [pc EXCEPT ![c] = "calling"]
      /\ cur' = [cur EXCEPT ![c] = r] /\ net' = net \cup {r}
      /\ reply' = [reply EXCEPT ![c] = NoReply]
      /\ UNCHANGED <<acked, seen, life, result, txn, staged, owner>>
  BY DEF Retry, Send, serverVars
<1> HIDE DEF r
<1> USE <1>1, <1>2
<1>3. TypeOK'
  BY SendType DEF Retry, TypeOK, ServerTypeOK
<1>4. CallInv'
  BY DEF CallInv, TypeOK, Awaits
<1>5. OwnerInv'
  BY DEF OwnerInv, CommitOnlyIfAsked, Owns, CallInv, Awaits
<1>6. ReplyInv' /\ ToldInv'
  BY SentinelAssumption DEF ReplyInv, ToldInv, TypeOK, Statuses, Owns, Txn
<1>7. LoadInv'
  <2>1. \A d \in Calls, x \in Batches : Tracked(d, x) => Tracked(d, x)'
    BY DEF TypeOK, Tracked, Loading, Unsettled, Awaits, CallInv
  <2>2. QED
    BY <2>1, RequestParts DEF LoadInv, Tracked, Loading, Awaits, TypeOK, ServerTypeOK
<1>8. ReleaseInv'
  BY DEF ReleaseInv, TypeOK, CallInv
<1>9. QED
  BY <1>3, <1>4, <1>5, <1>6, <1>7, <1>8

\* Ending in failure.
LEMMA FinishFailureStep ==
  ASSUME IInv, NEW c \in Calls, pc[c] = "calling",
         c \in Legacy \/ cur[c].op \in {"begin", "abort"} \/ life[c] = 2,
         Finish(c, "failure"), UNCHANGED <<cur, acked, seen, life, netVars>>,
         UNCHANGED serverVars
  PROVE  IInv'
<1> USE DEF IInv
<1>1. /\ pc' = [pc EXCEPT ![c] = "done"] /\ result' = [result EXCEPT ![c] = "failure"]
      /\ UNCHANGED <<cur, acked, seen, life, net, reply, txn, staged, owner>>
  BY DEF Finish, netVars, serverVars
<1>2. TypeOK'
  BY <1>1 DEF TypeOK, ServerTypeOK, PCs
<1>3. CallInv' /\ OwnerInv'
  BY <1>1, <1>2 DEF CallInv, OwnerInv, CommitOnlyIfAsked, Owns, TypeOK, Awaits
<1>4. ReplyInv' /\ ToldInv'
  BY <1>1, <1>2 DEF ReplyInv, ToldInv, Txn, Owns, TypeOK
<1>5. LoadInv' /\ ReleaseInv'
  <2>1. \A d \in Calls, x \in Batches : Tracked(d, x) => Tracked(d, x)'
    BY <1>1, <1>2 DEF TypeOK, Tracked, Loading, Unsettled, Awaits, CallInv
  <2>2. QED
    BY <1>1, <1>2, <2>1, RequestParts DEF LoadInv, ReleaseInv, CallInv, Awaits, TypeOK, ServerTypeOK
<1>6. QED
  BY <1>2, <1>3, <1>4, <1>5

LEMMA HandleErrorStep ==
  ASSUME IInv, NEW c \in Calls, pc[c] = "calling", NEW e, HandleError(c, e),
         UNCHANGED serverVars
  PROVE  IInv'
<1>1. CASE cur[c].attempt < MaxAttempts /\ Retry(c)
  BY <1>1, RetryStep
<1>2. CASE GiveUp(c) \/ (c \in Legacy /\ LegacyGiveUp(c))
  <2>1. CASE cur[c].op \in {"load", "prepare", "commit"} /\ Abort(c)
    BY <2>1, AbortStep DEF Awaits
  <2>2. CASE /\ c \in Legacy \/ cur[c].op \in {"begin", "abort"} \/ life[c] = 2
             /\ Finish(c, "failure") /\ UNCHANGED <<cur, acked, seen, life, netVars>>
    BY <2>2, FinishFailureStep
  <2>3. QED
    BY <1>2, <2>1, <2>2 DEF GiveUp, LegacyGiveUp
<1>3. QED
  BY <1>1, <1>2 DEF HandleError

\* An operation answered OK: what ReplyInv kept of the answer becomes what the
\* call was told.
LEMMA SucceedStep ==
  ASSUME IInv, NEW c \in Calls, pc[c] = "calling", reply[c] = "OK", Succeed(c),
         UNCHANGED serverVars
  PROVE  IInv'
<1> USE DEF IInv
<1>1. TypeOK'
  BY SucceedType
<1>2. UNCHANGED <<cur, life, net, reply, txn, staged, owner>>
  BY DEF Succeed, netVars, serverVars
<1>3. CASE /\ cur[c].op = "begin" /\ pc' = [pc EXCEPT ![c] = "fn"]
           /\ seen' = [seen EXCEPT ![c] = @ \cup {"begun"}] /\ UNCHANGED <<result, acked>>
  <2>1. CallInv' /\ OwnerInv'
    BY <1>1, <1>2, <1>3 DEF CallInv, OwnerInv, CommitOnlyIfAsked, Owns, TypeOK, Awaits,
                            ReplyInv, ServerTypeOK
  <2>2. ReplyInv' /\ ToldInv' /\ ReleaseInv'
    BY <1>1, <1>2, <1>3 DEF ReplyInv, ToldInv, ReleaseInv, CallInv, Txn, Owns, TypeOK
  <2>3. \A d \in Calls, x \in Batches : Tracked(d, x) => Tracked(d, x)'
    BY <1>1, <1>2, <1>3 DEF TypeOK, Tracked, Loading, Unsettled, Awaits, CallInv
  <2>4. LoadInv'
    BY <1>1, <1>2, <1>3, <2>3, RequestParts DEF LoadInv, TypeOK, ServerTypeOK
  <2>5. QED
    BY <1>1, <2>1, <2>2, <2>4
<1>4. CASE /\ cur[c].op = "load" /\ pc' = [pc EXCEPT ![c] = "fn"]
           /\ acked' = [acked EXCEPT ![c] = @ \cup {cur[c].batch}] /\ UNCHANGED <<result, seen>>
  <2>1. CallInv' /\ OwnerInv'
    BY <1>1, <1>2, <1>4 DEF CallInv, OwnerInv, CommitOnlyIfAsked, Owns, TypeOK, Awaits
  <2>2. ReplyInv' /\ ReleaseInv'
    BY <1>1, <1>2, <1>4 DEF ReplyInv, ReleaseInv, CallInv, Awaits, Txn, Owns, TypeOK
  <2>3. ToldInv'
    BY <1>1, <1>2, <1>4 DEF ReplyInv, ToldInv, Txn, Owns, TypeOK
  <2>5. \A d \in Calls, x \in Batches : Tracked(d, x) => Tracked(d, x)'
    BY <1>1, <1>2, <1>4 DEF TypeOK, Tracked, Loading, Unsettled, Awaits, CallInv
  <2>6. LoadInv'
    BY <1>1, <1>2, <1>4, <2>5, RequestParts DEF LoadInv, TypeOK, ServerTypeOK
  <2>7. QED
    BY <1>1, <2>1, <2>2, <2>3, <2>6
<1>5. CASE /\ cur[c].op = "prepare" /\ pc' = [pc EXCEPT ![c] = "fn"]
           /\ seen' = [seen EXCEPT ![c] = @ \cup {"prepared"}] /\ UNCHANGED <<result, acked>>
  <2>1. CallInv' /\ OwnerInv'
    BY <1>1, <1>2, <1>5 DEF CallInv, OwnerInv, CommitOnlyIfAsked, Owns, TypeOK, Awaits,
                            ServerTypeOK
  <2>2. ReplyInv' /\ ToldInv' /\ ReleaseInv'
    BY <1>1, <1>2, <1>5 DEF ReplyInv, ToldInv, ReleaseInv, CallInv, Txn, Owns, TypeOK
  <2>3. \A d \in Calls, x \in Batches : Tracked(d, x) => Tracked(d, x)'
    BY <1>1, <1>2, <1>5 DEF TypeOK, Tracked, Loading, Unsettled, Awaits, CallInv
  <2>4. LoadInv'
    BY <1>1, <1>2, <1>5, <2>3, RequestParts DEF LoadInv, TypeOK, ServerTypeOK
  <2>5. QED
    BY <1>1, <2>1, <2>2, <2>4
<1>6. CASE /\ cur[c].op = "commit" /\ pc' = [pc EXCEPT ![c] = "done"]
           /\ result' = [result EXCEPT ![c] = "success"] /\ UNCHANGED <<seen, acked>>
  <2>1. CallInv' /\ OwnerInv'
    BY <1>1, <1>2, <1>6 DEF CallInv, OwnerInv, CommitOnlyIfAsked, Owns, TypeOK, Awaits
  <2>2. ReplyInv' /\ ReleaseInv'
    BY <1>1, <1>2, <1>6 DEF ReplyInv, ReleaseInv, CallInv, Awaits, Txn, Owns, TypeOK
  <2>3. ToldInv'
    BY <1>1, <1>2, <1>6 DEF ReplyInv, ToldInv, Txn, Owns, TypeOK, CallInv, OwnerInv, Awaits
  <2>4. \A d \in Calls, x \in Batches : Tracked(d, x) => Tracked(d, x)'
    BY <1>1, <1>2, <1>6 DEF TypeOK, Tracked, Loading, Unsettled, Awaits, CallInv
  <2>5. LoadInv'
    BY <1>1, <1>2, <1>6, <2>4, RequestParts DEF LoadInv, TypeOK, ServerTypeOK
  <2>6. QED
    BY <1>1, <2>1, <2>2, <2>3, <2>5
<1>7. CASE /\ cur[c].op = "abort" /\ pc' = [pc EXCEPT ![c] = "done"]
           /\ result' = [result EXCEPT ![c] = "failure"]
           /\ seen' = [seen EXCEPT ![c] = @ \cup {"aborted"}] /\ UNCHANGED acked
  <2>1. CallInv' /\ OwnerInv'
    BY <1>1, <1>2, <1>7 DEF CallInv, OwnerInv, CommitOnlyIfAsked, Owns, TypeOK, Awaits,
                            ServerTypeOK
  <2>2. ReplyInv' /\ ReleaseInv'
    BY <1>1, <1>2, <1>7 DEF ReplyInv, ReleaseInv, CallInv, Awaits, Txn, Owns, TypeOK
  <2>3. ToldInv'
    BY <1>1, <1>2, <1>7 DEF ReplyInv, ToldInv, Txn, Owns, TypeOK, CallInv
  <2>4. \A d \in Calls, x \in Batches : Tracked(d, x) => Tracked(d, x)'
    BY <1>1, <1>2, <1>7 DEF TypeOK, Tracked, Loading, Unsettled, Awaits, CallInv
  <2>5. LoadInv'
    BY <1>1, <1>2, <1>7, <2>4, RequestParts DEF LoadInv, TypeOK, ServerTypeOK
  <2>6. QED
    BY <1>1, <2>1, <2>2, <2>3, <2>5
<1>8. QED
  BY <1>3, <1>4, <1>5, <1>6, <1>7 DEF Succeed, Resume, Finish, Reach

LEMMA CrashStep ==
  ASSUME IInv, NEW c \in Calls, Crash(c)
  PROVE  IInv'
<1> USE DEF IInv
<1>1. TypeOK'
  BY CallStepType DEF CallStep, LegacyStep
<1>2. /\ pc[c] \in {"calling", "fn"} /\ pc' = [pc EXCEPT ![c] = "crashed"]
      /\ UNCHANGED <<cur, acked, seen, life, result, net, reply, txn, staged, owner>>
  BY DEF Crash, netVars, serverVars
<1>3. CallInv' /\ OwnerInv'
  BY <1>1, <1>2 DEF CallInv, OwnerInv, CommitOnlyIfAsked, Owns, TypeOK, Awaits
<1>4. ReplyInv' /\ ToldInv'
  BY <1>1, <1>2 DEF ReplyInv, ToldInv, Txn, Owns, TypeOK
<1>5. LoadInv' /\ ReleaseInv'
  <2>1. \A d \in Calls, x \in Batches : Tracked(d, x) => Tracked(d, x)'
    BY <1>1, <1>2 DEF TypeOK, Tracked, Loading, Unsettled, Awaits, CallInv
  <2>2. QED
    BY <1>1, <1>2, <2>1, RequestParts DEF LoadInv, ReleaseInv, CallInv, Awaits, TypeOK, ServerTypeOK
<1>6. QED
  BY <1>1, <1>3, <1>4, <1>5

LEMMA RecoverStep ==
  ASSUME IInv, NEW c \in Calls, Recover(c)
  PROVE  IInv'
<1> USE DEF IInv
<1>1. TypeOK'
  BY CallStepType DEF CallStep, LegacyStep
<1>2. PICK op \in {"commit", "abort"}, m \in {"committing", "aborting"} :
        /\ op = "commit" <=> m = "committing"
        /\ Send(c, [Request(c, op, NoBatch) EXCEPT !.life = 2]) /\ Reach(c, m)
  BY DEF Recover
<1> DEFINE r == [Request(c, op, NoBatch) EXCEPT !.life = 2]
<1>3. r \in Requests /\ r.call = c /\ r.op = op
  BY RequestType DEF Request, Requests, Ops
<1>4. /\ pc[c] = "crashed" /\ "prepared" \in seen[c]
      /\ pc' = [pc EXCEPT ![c] = "calling"]
      /\ cur' = [cur EXCEPT ![c] = r] /\ net' = net \cup {r}
      /\ reply' = [reply EXCEPT ![c] = NoReply]
      /\ seen' = [seen EXCEPT ![c] = @ \cup {m}]
      /\ life' = [life EXCEPT ![c] = 2]
      /\ UNCHANGED <<acked, result, txn, staged, owner>>
  BY <1>2 DEF Recover, Send, Reach, serverVars
<1> HIDE DEF r
<1> USE <1>1, <1>2, <1>3, <1>4
<1>5. CallInv'
  BY DEF CallInv, TypeOK, Awaits
<1>6. OwnerInv'
  BY DEF OwnerInv, CommitOnlyIfAsked, Owns, CallInv, TypeOK, ServerTypeOK
<1>7. ReplyInv' /\ ToldInv'
  BY SentinelAssumption DEF ReplyInv, ToldInv, TypeOK, Statuses, Owns, Txn
<1>8. LoadInv'
  <2>1. \A d \in Calls, x \in Batches : Tracked(d, x) => Tracked(d, x)'
    BY DEF TypeOK, Tracked, Loading, Unsettled, Awaits, CallInv
  <2>2. QED
    BY <2>1, RequestParts DEF LoadInv, TypeOK, ServerTypeOK
<1>9. ReleaseInv'
  BY DEF ReleaseInv, TypeOK, CallInv
<1>10. QED
  BY <1>5, <1>6, <1>7, <1>8, <1>9

LEMMA CallStepInv ==
  ASSUME IInv, NEW c \in Calls, CallStep(c)
  PROVE  IInv'
<1>1. CASE Begin(c) \/ BeginInvalid(c)
  BY <1>1, BeginStep, BeginInvalidStep
<1>2. CASE FnStep(c)
  <2>1. CASE FnFails(c)
    BY <2>1, AbortStep DEF FnFails
  <2>2. QED
    BY <1>2, <2>1, LoadStep, PrepareStep, CommitStep DEF FnStep
<1>3. CASE Interrupt(c)
  BY <1>3, AbortStep DEF Interrupt, Awaits
<1>4. CASE Answer(c)
  <2>1. CASE Accepted(reply[c]) /\ Succeed(c)
    <3>1. reply[c] = "OK"
      BY <1>4, <2>1 DEF Answer, Accepted, ErrorStatuses, IInv, TypeOK, Statuses, RejectStatuses
    <3>2. QED
      BY <1>4, <2>1, <3>1, SucceedStep DEF Answer
  <2>2. CASE \E text \in BOOLEAN : HandleError(c, [http |-> "none", text |-> text])
    BY <1>4, <2>2, HandleErrorStep DEF Answer
  <2>3. QED
    BY <1>4, <2>1, <2>2 DEF Answer
<1>5. CASE TransportFailure(c)
  BY <1>5, HandleErrorStep DEF TransportFailure
<1>6. CASE Crash(c) \/ Recover(c)
  BY <1>6, CrashStep, RecoverStep
<1>7. QED
  BY <1>1, <1>2, <1>3, <1>4, <1>5, <1>6 DEF CallStep, LegacyStep

\* The server takes a request up: one case per effect it can have.
LEMMA DeliverStep ==
  ASSUME ~LabelReuse, IInv, NEW r \in net, Deliver(r)
  PROVE  IInv'
<1> USE DEF IInv
<1> DEFINE l == LabelOf[r.call]
<1>1. PICK s \in Statuses :
        /\ Serve(r, s)
        /\ reply' = IF pc[r.call] = "calling" /\ cur[r.call] = r
                    THEN [reply EXCEPT ![r.call] = s] ELSE reply
  BY DEF Deliver
<1>2. r \in Requests /\ r.call \in Calls /\ l \in Labels
  BY RequestParts, CallsAssumption DEF TypeOK
<1>3. net' = net \ {r} /\ UNCHANGED <<pc, cur, acked, seen, life, result>>
  BY DEF Deliver, clientVars
<1>4. TypeOK'
  <2>1. ServerTypeOK'
    BY <1>1, <1>2, ServeType DEF TypeOK
  <2>2. QED
    BY <1>1, <1>2, <1>3, <2>1 DEF TypeOK
<1>5. CallInv' /\ \A d \in Calls, x \in Batches : Tracked(d, x) <=> Tracked(d, x)'
  BY <1>3 DEF CallInv, Awaits, Tracked, Loading, Unsettled
<1>6. reply' = reply \/ \E d \in Calls : /\ pc[d] = "calling" /\ cur[d] = r /\ d = r.call
                                        /\ reply' = [reply EXCEPT ![d] = s]
  BY <1>1, <1>2
<1> HIDE DEF l
<1> USE <1>2, <1>3, <1>4, <1>5
<1>7. CASE s # "OK" /\ UNCHANGED serverVars
  <2>1. OwnerInv' /\ ToldInv' /\ LoadInv' /\ ReleaseInv'
    BY <1>7, RequestParts DEF serverVars, OwnerInv, CommitOnlyIfAsked, ToldInv, LoadInv,
       ReleaseInv, Owns, Txn, TypeOK, ServerTypeOK
  <2>2. ReplyInv'
    BY <1>6, <1>7 DEF serverVars, ReplyInv, Txn, Owns, TypeOK
  <2>3. QED
    BY <2>1, <2>2
<1>8. CASE s = "OK" /\ GrantBegin(r)
  <2>1. /\ r.op = "begin" /\ txn[l] = "none" /\ owner[l] = NoCall
        /\ txn' = [txn EXCEPT ![l] = "open"] /\ staged' = [staged EXCEPT ![l] = {}]
        /\ owner' = [owner EXCEPT ![l] = r.call]
    BY <1>8 DEF GrantBegin, Free, l, OwnerInv
  <2>2. \A d \in Calls : LabelOf[d] = l => seen[d] = {}
    BY <2>1, CallsAssumption DEF OwnerInv, CallInv, Owns
  <2>3. OwnerInv'
    <3>1. \A m \in Labels : m # l => txn'[m] = txn[m] /\ owner'[m] = owner[m]
      BY <2>1 DEF TypeOK, ServerTypeOK
    <3>2. txn'[l] = "open" /\ owner'[l] = r.call
      BY <2>1 DEF TypeOK, ServerTypeOK
    <3>3. \A d \in Calls : Owns(d) => LabelOf[d] # l /\ Owns(d)'
      BY <2>1, <3>1, CallsAssumption DEF Owns
    <3>4. \A q \in net : q.call \in Calls
      BY RequestParts DEF TypeOK
    <3>5. CommitOnlyIfAsked'
      BY <3>1, <3>2 DEF OwnerInv, CommitOnlyIfAsked
    <3>6. \A m \in Labels : /\ owner'[m] = NoCall <=> txn'[m] = "none"
                            /\ owner'[m] # NoCall => LabelOf[owner'[m]] = m
      BY <3>1, <3>2, CallsAssumption DEF OwnerInv, l
    <3>7. QED
      BY <3>3, <3>4, <3>5, <3>6 DEF OwnerInv
  <2>4. ReplyInv'
    BY <1>6, <1>8, <2>1, <2>2, CallsAssumption DEF ReplyInv, Txn, Owns, TypeOK, ServerTypeOK,
       CallInv, OwnerInv, Awaits, l
  <2>5. ToldInv'
    <3>1. staged[l] = {}
      BY <2>1, RequestParts, CallsAssumption DEF LoadInv, TypeOK, ServerTypeOK
    <3>2. \A d \in Calls : LabelOf[d] = l => acked[d] = {} /\ result[d] # "success"
      BY <2>1, <3>1, CallsAssumption DEF ToldInv, Owns
    <3>3. \A m \in Labels : m # l => /\ txn'[m] = txn[m] /\ owner'[m] = owner[m]
                                     /\ staged'[m] = staged[m]
      BY <2>1 DEF TypeOK, ServerTypeOK
    <3>4. QED
      BY <2>2, <3>2, <3>3, CallsAssumption DEF ToldInv, Txn, Owns
  <2>6. LoadInv'
    BY <2>1, RequestParts DEF LoadInv, TypeOK, ServerTypeOK
  <2>7. ReleaseInv'
    BY DEF ReleaseInv
  <2>8. QED
    BY <2>3, <2>4, <2>5, <2>6, <2>7
<1>9. CASE s = "OK" /\ GrantLoad(r)
  <2>1. /\ r.op = "load" /\ txn[l] = "open" /\ staged' = [staged EXCEPT ![l] = @ \cup {r}]
        /\ UNCHANGED <<txn, owner>>
    BY <1>9 DEF GrantLoad, l
  <2>2. OwnerInv' /\ ReleaseInv'
    BY <2>1 DEF OwnerInv, CommitOnlyIfAsked, Owns, ReleaseInv
  <2>3. ReplyInv'
    BY <1>6, <1>9, <2>1, CallsAssumption DEF ReplyInv, Txn, Owns, TypeOK, ServerTypeOK, l
  <2>4. ToldInv'
    BY <2>1, CallsAssumption DEF ToldInv, Txn, Owns, TypeOK, ServerTypeOK
  <2>5. "prepared" \notin seen[r.call] /\ owner[l] = r.call
    BY <2>1 DEF ToldInv, Txn, OwnerInv, Owns, l
  <2>6. LoadInv'
    BY <2>1, <2>5, RequestParts DEF LoadInv, TypeOK, ServerTypeOK
  <2>7. QED
    BY <2>2, <2>3, <2>4, <2>6
<1>10. CASE s = "OK" /\ (GrantPrepare(r) \/ GrantCommit(r) \/ GrantRollback(r))
  <2>1. PICK t \in {"prepared", "committed", "aborted"} :
          /\ txn[l] \in {"open", "prepared"} /\ txn' = [txn EXCEPT ![l] = t]
          /\ UNCHANGED <<staged, owner>>
          /\ r.op = "prepare" <=> t = "prepared"
          /\ r.op = "commit" <=> t = "committed"
          /\ r.op = "abort" <=> t = "aborted"
    BY <1>10 DEF GrantPrepare, GrantCommit, GrantRollback, l
  <2>2. owner[l] = r.call
    BY <2>1 DEF OwnerInv, Owns, l
  <2>3. OwnerInv'
    BY <2>1, <2>2 DEF OwnerInv, CommitOnlyIfAsked, Owns, TypeOK, ServerTypeOK
  <2>4. ReplyInv'
    <3>1. \A d \in Calls : LabelOf[d] = l /\ pc[d] = "calling" /\ cur[d].op # "begin"
                           => d = r.call
      BY <2>2 DEF CallInv, OwnerInv, Owns
    <3>2. r.op = "commit" => "committing" \in seen[r.call]
      BY DEF OwnerInv
    <3>3. r.op = "abort" => "aborting" \in seen[r.call]
      BY DEF OwnerInv
    <3>4. QED
      BY <1>6, <1>10, <2>1, <2>2, <3>1, <3>2, <3>3, CallsAssumption
         DEF ReplyInv, Txn, Owns, TypeOK, ServerTypeOK, l, CallInv, Awaits
  <2>5. ToldInv'
    BY <2>1, CallsAssumption DEF ToldInv, Txn, Owns, TypeOK, ServerTypeOK
  <2>6. LoadInv'
    BY <2>1, RequestParts DEF LoadInv, TypeOK, ServerTypeOK
  <2>7. ReleaseInv'
    BY DEF ReleaseInv
  <2>8. QED
    BY <2>3, <2>4, <2>5, <2>6, <2>7
<1>11. QED
  BY <1>1, <1>7, <1>8, <1>9, <1>10 DEF Serve, Grant, Refusals, serverVars

LEMMA LoseStep ==
  ASSUME IInv, NEW r \in net, Lose(r)
  PROVE  IInv'
<1>1. net' = net \ {r} /\ UNCHANGED <<reply, pc, cur, acked, seen, life, result, txn, staged, owner>>
  BY DEF Lose, clientVars, serverVars
<1>2. TypeOK' /\ CallInv' /\ ReleaseInv'
  BY <1>1 DEF IInv, TypeOK, ServerTypeOK, CallInv, Awaits, ReleaseInv
<1>3. OwnerInv' /\ ReplyInv' /\ ToldInv'
  BY <1>1 DEF IInv, OwnerInv, CommitOnlyIfAsked, ReplyInv, ToldInv, Awaits, Owns, Txn
<1>4. LoadInv'
  BY <1>1 DEF IInv, LoadInv, Tracked, Loading, Unsettled, Awaits
<1>5. QED
  BY <1>2, <1>3, <1>4 DEF IInv

LEMMA ServerTimeoutStep ==
  ASSUME IInv, NEW l \in Labels, ServerTimeout(l)
  PROVE  IInv'
<1> USE DEF IInv
<1>1. /\ txn[l] \in {"open", "prepared"}
      /\ txn' = [txn EXCEPT ![l] = "aborted"]
      /\ UNCHANGED <<staged, owner, net, reply, pc, cur, acked, seen, life, result>>
  BY DEF ServerTimeout, Expire, clientVars, netVars
<1>2. TypeOK'
  BY <1>1 DEF TypeOK, ServerTypeOK, TxnStates
<1>3. CallInv' /\ LoadInv'
  BY <1>1 DEF CallInv, LoadInv, Awaits, Tracked, Loading, Unsettled
<1>4. OwnerInv' /\ ReplyInv' /\ ToldInv' /\ ReleaseInv'
  BY <1>1, CallsAssumption DEF OwnerInv, CommitOnlyIfAsked, ReplyInv, ToldInv, ReleaseInv,
     Owns, Txn, TypeOK, ServerTypeOK
<1>5. QED
  BY <1>2, <1>3, <1>4

\* Every reachable state satisfies the inductive invariant, on a server that
\* keeps the label of a rolled back transaction.
THEOREM Invariance == ASSUME ~LabelReuse PROVE Spec => []IInv
<1>1. Init => IInv
  BY CallsAssumption DEF Init, ServerInit, IInv, TypeOK, ServerTypeOK, PCs, TxnStates, CallInv,
     OwnerInv, CommitOnlyIfAsked, ReplyInv, ToldInv, LoadInv, ReleaseInv, Awaits, Owns, Txn
<1>2. IInv /\ [Next]_vars => IInv'
  <2> SUFFICES ASSUME IInv, [Next]_vars PROVE IInv'
    OBVIOUS
  <2>1. ASSUME UNCHANGED vars PROVE IInv'
    <3>1. UNCHANGED <<pc, cur, acked, seen, life, result, net, reply, txn, staged, owner>>
      BY <2>1 DEF vars, clientVars, netVars, serverVars
    <3>2. TypeOK' /\ CallInv' /\ ReleaseInv'
      BY <3>1 DEF IInv, TypeOK, ServerTypeOK, CallInv, Awaits, ReleaseInv
    <3>3. OwnerInv' /\ ReplyInv' /\ ToldInv'
      BY <3>1 DEF IInv, OwnerInv, CommitOnlyIfAsked, ReplyInv, ToldInv, Awaits, Owns, Txn
    <3>4. LoadInv'
      BY <3>1 DEF IInv, LoadInv, Tracked, Loading, Unsettled, Awaits
    <3>5. QED
      BY <3>2, <3>3, <3>4 DEF IInv
  <2>2. QED
    BY <2>1, CallStepInv, DeliverStep, LoseStep, ServerTimeoutStep DEF Next
<1>3. QED
  BY <1>1, <1>2, PTL DEF Spec

-----------------------------------------------------------------------------
(* What follows from the invariant.                                        *)

\* Atomicity: what readers see of a committed transaction is exactly what its
\* owner was told has been loaded, however many calls, batches and retries.
THEOREM VisibleIsAckedAlways == ASSUME ~LabelReuse PROVE Spec => []VisibleIsAcked
<1>1. IInv => VisibleIsAcked
  <2> SUFFICES ASSUME IInv, NEW l \in Labels, txn[l] = "committed"
               PROVE  {r.batch : r \in staged[l]} = acked[owner[l]]
    BY DEF VisibleIsAcked
  <2> DEFINE c == owner[l]
  <2>1. c \in Calls /\ LabelOf[c] = l
    BY DEF IInv, TypeOK, ServerTypeOK, OwnerInv
  <2>2. "committing" \in seen[c]
    BY DEF IInv, OwnerInv, CommitOnlyIfAsked
  <2>3. \A b : ~Loading(c, b) /\ ~Unsettled(c)
    BY <2>1, <2>2 DEF IInv, CallInv, Loading, Unsettled
  <2>4. \A r \in staged[l] : r.batch \in acked[c]
    BY <2>3 DEF IInv, LoadInv, Tracked
  <2>5. acked[c] \subseteq {r.batch : r \in staged[l]}
    BY <2>1 DEF IInv, ToldInv
  <2>6. QED
    BY <2>4, <2>5
<1>2. QED
  BY <1>1, Invariance, PTL

\* Success is reported by the owner of a committed transaction, and by nobody
\* else that was given the same label.
THEOREM SuccessIsOwnAlways == ASSUME ~LabelReuse PROVE Spec => []SuccessIsOwn
<1>1. IInv => SuccessIsOwn
  BY DEF IInv, ToldInv, Owns, SuccessIsOwn
<1>2. QED
  BY <1>1, Invariance, PTL

\* A call whose begin failed never acts on the transaction of another call.
THEOREM OnlyOwnerActsAlways == ASSUME ~LabelReuse PROVE Spec => []OnlyOwnerActs
<1>1. IInv => OnlyOwnerActs
  BY DEF IInv, OwnerInv, Owns, OnlyOwnerActs
<1>2. QED
  BY <1>1, Invariance, PTL

\* A rollback that was answered OK cannot be undone by a commit still on its
\* way, nor by anything else.
THEOREM AbortIsFinalAlways == ASSUME ~LabelReuse PROVE Spec => []AbortIsFinal
<1>1. IInv => AbortIsFinal
  BY DEF IInv, ToldInv, Txn, AbortIsFinal
<1>2. QED
  BY <1>1, Invariance, PTL

\* What a finished call of the service leaves open or prepared at the server is
\* what it asked in vain to roll back.
THEOREM LeftOpenIsUnansweredAlways == ASSUME ~LabelReuse PROVE Spec => []LeftOpenIsUnanswered
<1>1. IInv => LeftOpenIsUnanswered
  BY DEF IInv, ReleaseInv, ToldInv, Txn, LeftOpenIsUnanswered
<1>2. QED
  BY <1>1, Invariance, PTL

-----------------------------------------------------------------------------
(* The service implements AtomicLoad.                                      *)

\* A step of one call: it takes the abstract call at most one move on.
Steps(c) ==
  /\ pc[c] # "done" /\ seen[c] \subseteq seen'[c]
  /\ pc'[c] = "done" => ("committing" \in seen[c] <=> "committing" \in seen'[c])
  /\ \A d \in Calls \ {c} :
       pc'[d] = pc[d] /\ seen'[d] = seen[d] /\ result'[d] = result[d]
  /\ UNCHANGED serverVars

\* Sending records at most a milestone.
LEMMA SendSteps ==
  ASSUME TypeOK, NEW c \in Calls, pc[c] # "done", NEW r, Send(c, r),
         seen' = seen \/ \E m : Reach(c, m), UNCHANGED result, UNCHANGED serverVars
  PROVE  Steps(c)
BY DEF TypeOK, Send, Reach, Steps

LEMMA HandleErrorSteps ==
  ASSUME TypeOK, NEW c \in Calls, pc[c] = "calling", NEW e, HandleError(c, e),
         UNCHANGED serverVars
  PROVE  Steps(c)
<1>1. CASE Retry(c)
  BY <1>1, SendSteps DEF Retry
<1>2. CASE Abort(c)
  BY <1>2, SendSteps DEF Abort
<1>3. CASE Finish(c, "failure") /\ UNCHANGED seen
  BY <1>3 DEF Finish, Steps, TypeOK
<1>4. QED
  BY <1>1, <1>2, <1>3 DEF HandleError, GiveUp, LegacyGiveUp

LEMMA CallSteps ==
  ASSUME TypeOK, NEW c \in Calls, CallStep(c)
  PROVE  Steps(c)
<1>1. CASE Begin(c)
  BY <1>1, SendSteps DEF Begin
<1>2. CASE BeginInvalid(c)
  BY <1>2 DEF BeginInvalid, Steps, TypeOK
<1>3. CASE FnStep(c)
  BY <1>3, SendSteps DEF FnStep, Load, Prepare, Commit, FnFails, Abort
<1>4. CASE Interrupt(c)
  BY <1>4, SendSteps DEF Interrupt, Abort
<1>5. CASE Answer(c)
  <2>1. CASE Succeed(c)
    BY <1>5, <2>1 DEF Answer, Succeed, Resume, Finish, Reach, Steps, TypeOK
  <2>2. QED
    BY <1>5, <2>1, HandleErrorSteps DEF Answer
<1>6. CASE TransportFailure(c)
  BY <1>6, HandleErrorSteps DEF TransportFailure
<1>7. CASE Crash(c)
  BY <1>7 DEF Crash, Steps, TypeOK
<1>8. CASE Recover(c)
  BY <1>8, SendSteps DEF Recover
<1>9. QED
  BY <1>1, <1>2, <1>3, <1>4, <1>5, <1>6, <1>7, <1>8 DEF CallStep, LegacyStep

\* A step of a call is a move of the abstract call, or none.
LEMMA CallRefines ==
  ASSUME IInv, IInv', NEW c \in Calls, Steps(c)
  PROVE  [Abstract!Next]_(Abstract!vars)
<1> DEFINE status == [d \in Calls |-> StatusOf(d)]
           to == StatusOf(c)'
<1>1. \A d \in Calls \ {c} : StatusOf(d)' = StatusOf(d)
  BY DEF Steps, StatusOf
<1>2. status' = [status EXCEPT ![c] = to]
  BY <1>1
<1>3. VisibleCalls' = VisibleCalls
  BY DEF Steps, VisibleCalls, serverVars
<1>4. ASSUME NEW from, status[c] = from PROVE Abstract!Move(c, from, to)
  BY <1>2, <1>3, <1>4 DEF Abstract!Move
<1>5. CASE pc'[c] # "done"
  <2>1. \/ status[c] = to
        \/ status[c] = "working" /\ to = "deciding"
    BY <1>5 DEF Steps, StatusOf
  <2>2. CASE status[c] = to
    BY <1>2, <1>3, <2>2 DEF Abstract!vars
  <2>3. QED
    BY <1>4, <2>1, <2>2 DEF Abstract!Next, Abstract!AskCommit
<1>6. CASE pc'[c] = "done" /\ result'[c] = "success"
  <2>1. status[c] = "deciding" /\ to = "success"
    BY <1>6 DEF Steps, StatusOf, IInv, ToldInv
  <2>2. c \in VisibleCalls
    BY <1>6 DEF Steps, VisibleCalls, IInv, ToldInv, Txn, Owns, serverVars
  <2>3. QED
    BY <1>4, <2>1, <2>2 DEF Abstract!Next, Abstract!Succeed
<1>7. CASE pc'[c] = "done" /\ result'[c] # "success"
  <2>1. \/ status[c] = "working" /\ to = "failed"
        \/ status[c] = "deciding" /\ to = "indoubt"
    BY <1>7 DEF Steps, StatusOf
  <2>2. QED
    BY <1>4, <2>1 DEF Abstract!Next, Abstract!Fail, Abstract!LeaveInDoubt
<1>8. QED
  BY <1>5, <1>6, <1>7

\* A commit that the server takes up makes the rows of its call appear; no
\* other request changes what readers see.
LEMMA DeliverRefines ==
  ASSUME ~LabelReuse, IInv, NEW r \in net, Deliver(r)
  PROVE  [Abstract!Next]_(Abstract!vars)
<1> DEFINE l == LabelOf[r.call]
           status == [d \in Calls |-> StatusOf(d)]
<1>1. r.call \in Calls /\ l \in Labels /\ r \in Requests
  BY RequestParts, CallsAssumption DEF IInv, TypeOK
<1>2. status' = status
  BY DEF Deliver, clientVars, StatusOf
<1>3. PICK s \in Statuses : Serve(r, s)
  BY DEF Deliver
<1>4. CASE VisibleCalls' = VisibleCalls
  BY <1>2, <1>4 DEF Abstract!vars
<1>5. CASE GrantCommit(r)
  <2>1. /\ r.op = "commit" /\ txn[l] \in {"open", "prepared"} /\ owner' = owner
        /\ txn' = [txn EXCEPT ![l] = "committed"]
    BY <1>5 DEF GrantCommit
  <2>2. owner[l] = r.call /\ "committing" \in seen[r.call]
    BY <2>1 DEF IInv, OwnerInv, Owns
  <2>3. VisibleCalls' = VisibleCalls \cup {r.call}
    BY <1>1, <2>1, <2>2, CallsAssumption DEF VisibleCalls, IInv, TypeOK, ServerTypeOK
  <2>4. StatusOf(r.call) \in {"deciding", "indoubt"}
    BY <1>1, <2>1, <2>2 DEF StatusOf, IInv, ToldInv, Txn
  <2>5. QED
    BY <1>1, <1>2, <2>3, <2>4 DEF Abstract!Next, Abstract!Appear
<1>6. CASE GrantBegin(r) \/ GrantLoad(r) \/ GrantPrepare(r) \/ GrantRollback(r)
  <2>1. \A m \in Labels : txn'[m] = "committed" <=> txn[m] = "committed"
    BY <1>1, <1>6 DEF GrantBegin, GrantLoad, GrantPrepare, GrantRollback, Free, IInv, TypeOK,
       ServerTypeOK
  <2>2. \A m \in Labels : txn[m] = "committed" => owner'[m] = owner[m]
    BY <1>1, <1>6 DEF GrantBegin, GrantLoad, GrantPrepare, GrantRollback, Free, IInv, TypeOK,
       ServerTypeOK
  <2>3. VisibleCalls' = VisibleCalls
    BY <2>1, <2>2, CallsAssumption DEF VisibleCalls
  <2>4. QED
    BY <1>4, <2>3
<1>7. CASE UNCHANGED serverVars
  BY <1>4, <1>7 DEF VisibleCalls, serverVars
<1>8. QED
  BY <1>3, <1>5, <1>6, <1>7 DEF Serve, Grant

\* Losing a request and the server's own timeout are invisible.
LEMMA OtherRefines ==
  ASSUME IInv, \/ \E r \in net : Lose(r)
               \/ \E l \in Labels : ServerTimeout(l)
               \/ UNCHANGED vars
  PROVE  UNCHANGED Abstract!vars
<1>1. UNCHANGED clientVars
  BY DEF Lose, ServerTimeout, vars
<1>2. \A m \in Labels : /\ txn'[m] = "committed" <=> txn[m] = "committed"
                        /\ owner'[m] = owner[m]
  BY DEF Lose, ServerTimeout, Expire, vars, serverVars, IInv, TypeOK, ServerTypeOK
<1>3. VisibleCalls' = VisibleCalls
  BY <1>2, CallsAssumption DEF VisibleCalls
<1>4. QED
  BY <1>1, <1>3 DEF Abstract!vars, clientVars, StatusOf

\* The transaction service, composed with a channel that loses and delays
\* requests, implements AtomicLoad.
THEOREM Refinement == ASSUME ~LabelReuse PROVE Spec => ImplementsAtomicLoad
<1>1. Init => Abstract!Init
  BY CallsAssumption DEF Init, ServerInit, Abstract!Init, StatusOf, VisibleCalls
<1>2. IInv /\ IInv' /\ [Next]_vars => [Abstract!Next]_(Abstract!vars)
  <2> SUFFICES ASSUME IInv, IInv', [Next]_vars PROVE [Abstract!Next]_(Abstract!vars)
    OBVIOUS
  <2>1. ASSUME NEW c \in Calls, CallStep(c) PROVE [Abstract!Next]_(Abstract!vars)
    BY <2>1, CallSteps, CallRefines DEF IInv
  <2>2. QED
    BY <2>1, DeliverRefines, OtherRefines DEF Next
<1>3. QED
  BY <1>1, <1>2, Invariance, PTL DEF Spec, ImplementsAtomicLoad, Abstract!Spec

-----------------------------------------------------------------------------
(* What stays true when the server frees the label of a rolled back        *)
(* transaction.                                                            *)

\* A commit on its way or awaited was asked for, and an OK to it is still true:
\* a committed transaction is final.
CommitInv ==
  /\ \A c \in Calls : Awaits(c, "commit") =>
       "committing" \in seen[c] /\ (reply[c] = "OK" => Txn(c) = "committed")
  /\ \A r \in net : r.op = "commit" => "committing" \in seen[r.call]
  /\ SuccessIsCommitted

\* What a step of call c does to the record of its commit.
Speaks(c) ==
  /\ UNCHANGED serverVars
  /\ \A d \in Calls \ {c} : /\ pc'[d] = pc[d] /\ cur'[d] = cur[d] /\ reply'[d] = reply[d]
                            /\ seen'[d] = seen[d] /\ result'[d] = result[d]
  /\ seen[c] \subseteq seen'[c]
  /\ \A r \in net' \ net : r.call = c /\ (r.op = "commit" => "committing" \in seen'[c])
  /\ Awaits(c, "commit")' => "committing" \in seen'[c] /\ reply'[c] = NoReply
  /\ result'[c] = "success" => result[c] = "success" \/ (Awaits(c, "commit") /\ reply[c] = "OK")

LEMMA SendSpeaks ==
  ASSUME TypeOK, NEW c \in Calls, NEW r, Send(c, r), r.call = c,
         r.op = "commit" => "committing" \in seen'[c],
         seen' = seen \/ \E m : Reach(c, m), UNCHANGED result, UNCHANGED serverVars
  PROVE  Speaks(c)
BY DEF TypeOK, Send, Reach, Speaks, Awaits

LEMMA AbortSpeaks ==
  ASSUME TypeOK, NEW c \in Calls, Abort(c), UNCHANGED serverVars
  PROVE  Speaks(c)
<1>1. Request(c, "abort", NoBatch).call = c /\ Request(c, "abort", NoBatch).op = "abort"
  BY DEF Request
<1>2. QED
  BY <1>1, SendSpeaks DEF Abort

LEMMA HandleErrorSpeaks ==
  ASSUME TypeOK, CommitInv, NEW c \in Calls, pc[c] = "calling", NEW e, HandleError(c, e),
         UNCHANGED serverVars
  PROVE  Speaks(c)
<1>1. CASE Retry(c)
  <2>1. PICK r : r = [cur[c] EXCEPT !.attempt = @ + 1]
    OBVIOUS
  <2>2. cur[c] \in Requests /\ cur[c].call = c
    BY DEF TypeOK
  <2>3. r.call = c /\ r.op = cur[c].op
    BY <2>1, <2>2 DEF Requests
  <2>4. Send(c, r) /\ UNCHANGED <<seen, result>>
    BY <1>1, <2>1 DEF Retry
  <2>5. QED
    BY <2>3, <2>4, SendSpeaks DEF CommitInv, Awaits
<1>2. CASE Abort(c)
  BY <1>2, AbortSpeaks
<1>3. CASE Finish(c, "failure") /\ UNCHANGED <<cur, seen, netVars>>
  BY <1>3 DEF Finish, Speaks, TypeOK, Awaits, netVars
<1>4. QED
  BY <1>1, <1>2, <1>3 DEF HandleError, GiveUp, LegacyGiveUp

LEMMA CallSpeaks ==
  ASSUME TypeOK, CommitInv, NEW c \in Calls, CallStep(c)
  PROVE  Speaks(c)
<1>a. ASSUME NEW op, NEW b PROVE Request(c, op, b).call = c /\ Request(c, op, b).op = op
  BY DEF Request
<1>1. CASE Begin(c)
  BY <1>1, <1>a, SendSpeaks DEF Begin
<1>2. CASE BeginInvalid(c)
  BY <1>2 DEF BeginInvalid, Speaks, TypeOK, Awaits, netVars
<1>3. ASSUME NEW b \in Batches, Load(c, b) PROVE Speaks(c)
  BY <1>3, <1>a, SendSpeaks DEF Load
<1>4. CASE Prepare(c)
  BY <1>4, <1>a, SendSpeaks DEF Prepare
<1>5. CASE Commit(c)
  <2>1. "committing" \in seen'[c]
    BY <1>5 DEF Commit, Reach, TypeOK
  <2>2. QED
    BY <1>5, <1>a, <2>1, SendSpeaks DEF Commit
<1>6. CASE FnFails(c) \/ Interrupt(c)
  BY <1>6, AbortSpeaks DEF FnFails, Interrupt
<1>7. CASE Answer(c)
  <2>1. CASE Succeed(c) /\ Accepted(reply[c])
    <3>1. reply[c] = "OK"
      BY <1>7, <2>1 DEF Answer, TypeOK, Statuses, RejectStatuses, Accepted, ErrorStatuses
    <3>2. QED
      BY <1>7, <2>1, <3>1
         DEF Answer, Succeed, Resume, Finish, Reach, Speaks, TypeOK, Awaits, netVars
  <2>2. QED
    BY <1>7, <2>1, HandleErrorSpeaks DEF Answer
<1>8. CASE TransportFailure(c)
  BY <1>8, HandleErrorSpeaks DEF TransportFailure
<1>9. CASE Crash(c)
  BY <1>9 DEF Crash, Speaks, TypeOK, Awaits, netVars
<1>10. CASE Recover(c)
  <2>1. ASSUME NEW op
        PROVE  /\ [Request(c, op, NoBatch) EXCEPT !.life = 2].call = c
               /\ [Request(c, op, NoBatch) EXCEPT !.life = 2].op = op
    BY DEF Request
  <2>2. CASE /\ Send(c, [Request(c, "commit", NoBatch) EXCEPT !.life = 2])
             /\ Reach(c, "committing")
    <3>1. "committing" \in seen'[c]
      BY <2>2 DEF Reach, TypeOK
    <3>2. QED
      BY <1>10, <2>1, <2>2, <3>1, SendSpeaks DEF Recover
  <2>3. CASE /\ Send(c, [Request(c, "abort", NoBatch) EXCEPT !.life = 2])
             /\ Reach(c, "aborting")
    BY <1>10, <2>1, <2>3, SendSpeaks DEF Recover
  <2>4. QED
    BY <1>10, <2>2, <2>3 DEF Recover
<1>11. QED
  BY <1>1, <1>2, <1>3, <1>4, <1>5, <1>6, <1>7, <1>8, <1>9, <1>10
     DEF CallStep, LegacyStep, FnStep

LEMMA SpeakingKeeps ==
  ASSUME TypeOK, CommitInv, NEW c \in Calls, Speaks(c)
  PROVE  CommitInv'
<1>1. \A d \in Calls : seen[d] \subseteq seen'[d]
  BY DEF Speaks
<1>2. \A d \in Calls : Awaits(d, "commit")' =>
        "committing" \in seen'[d] /\ (reply'[d] = "OK" => Txn(d)' = "committed")
  BY SentinelAssumption DEF Speaks, CommitInv, Awaits, Txn, serverVars, Statuses
<1>3. \A r \in net' : r.op = "commit" => "committing" \in seen'[r.call]
  <2> SUFFICES ASSUME NEW r \in net', r.op = "commit" PROVE "committing" \in seen'[r.call]
    OBVIOUS
  <2>1. CASE r \in net
    BY <1>1, <2>1, RequestParts DEF CommitInv, TypeOK
  <2>2. CASE r \notin net
    BY <2>2 DEF Speaks
  <2>3. QED
    BY <2>1, <2>2
<1>4. SuccessIsCommitted'
  BY DEF Speaks, CommitInv, SuccessIsCommitted, Txn, serverVars
<1>5. QED
  BY <1>2, <1>3, <1>4 DEF CommitInv

\* The server gives up no commit: what it frees was rolled back.
LEMMA DeliverKeeps ==
  ASSUME TypeOK, CommitInv, NEW r \in net, Deliver(r)
  PROVE  CommitInv'
<1>1. r \in Requests /\ r.call \in Calls /\ LabelOf[r.call] \in Labels
  BY RequestParts, CallsAssumption DEF TypeOK
<1>2. PICK s \in Statuses :
        /\ Serve(r, s)
        /\ reply' = IF pc[r.call] = "calling" /\ cur[r.call] = r
                    THEN [reply EXCEPT ![r.call] = s] ELSE reply
  BY DEF Deliver
<1>3. net' \subseteq net /\ UNCHANGED <<pc, cur, acked, seen, life, result>>
  BY DEF Deliver, clientVars
<1>4. \A l \in Labels : txn[l] = "committed" => txn'[l] = "committed"
  BY <1>1, <1>2 DEF Serve, Grant, GrantBegin, GrantLoad, GrantPrepare, GrantCommit, GrantRollback,
     Free, TypeOK, ServerTypeOK, serverVars
<1>5. r.op = "commit" /\ s = "OK" => txn'[LabelOf[r.call]] = "committed"
  <2>1. "OK" \notin Refusals(r)
    BY DEF Refusals
  <2>2. QED
    BY <1>1, <1>2, <2>1 DEF Serve, Grant, GrantBegin, GrantLoad, GrantPrepare, GrantCommit,
       GrantRollback, TypeOK, ServerTypeOK
<1>6. \A c \in Calls : Awaits(c, "commit")' =>
        "committing" \in seen'[c] /\ (reply'[c] = "OK" => Txn(c)' = "committed")
  BY <1>1, <1>2, <1>3, <1>4, <1>5, CallsAssumption DEF CommitInv, Awaits, Txn, TypeOK
<1>7. QED
  BY <1>3, <1>4, <1>6, CallsAssumption DEF CommitInv, SuccessIsCommitted, TypeOK

LEMMA OthersKeep ==
  ASSUME TypeOK, CommitInv,
         \/ \E r \in net : Lose(r)
         \/ \E l \in Labels : ServerTimeout(l)
         \/ UNCHANGED vars
  PROVE  CommitInv'
<1>1. /\ UNCHANGED <<pc, cur, seen, result, reply>> /\ net' \subseteq net
      /\ \A l \in Labels : txn[l] = "committed" => txn'[l] = "committed"
  BY DEF Lose, ServerTimeout, Expire, vars, clientVars, netVars, serverVars, TypeOK, ServerTypeOK
<1>2. QED
  BY <1>1, CallsAssumption DEF CommitInv, Awaits, Txn, SuccessIsCommitted, TypeOK

\* Commits are asked for and answered truly, whatever the server does with the
\* label of a rolled back transaction and however many calls share one.
THEOREM CommitInvariance == Spec => []CommitInv
<1>1. Init => CommitInv
  BY DEF Init, CommitInv, Awaits, SuccessIsCommitted
<1>2. TypeOK /\ CommitInv /\ [Next]_vars => CommitInv'
  BY CallSpeaks, SpeakingKeeps, DeliverKeeps, OthersKeep DEF Next
<1>3. QED
  BY <1>1, <1>2, TypeCorrect, PTL DEF Spec

\* Success is reported only of a transaction that is committed, on any server.
THEOREM SuccessIsCommittedAlways == Spec => []SuccessIsCommitted
<1>1. CommitInv => SuccessIsCommitted
  BY DEF CommitInv
<1>2. QED
  BY <1>1, CommitInvariance, PTL

\* A label in use belongs to a call that was given it.
LabelInv ==
  /\ \A l \in Labels : txn[l] # "none" => owner[l] \in Calls /\ LabelOf[owner[l]] = l
  /\ CommitOnlyIfAsked

DistinctLabels == \A c, d \in Calls : LabelOf[c] = LabelOf[d] => c = d

LEMMA LabelStep ==
  ASSUME TypeOK, CommitInv, LabelInv, DistinctLabels, [Next]_vars
  PROVE  LabelInv'
<1>1. CASE \E c \in Calls : CallStep(c)
  <2>1. UNCHANGED serverVars /\ \A c \in Calls : seen[c] \subseteq seen'[c]
    BY <1>1, CallSpeaks DEF Speaks
  <2>2. QED
    BY <2>1 DEF LabelInv, CommitOnlyIfAsked, serverVars
<1>2. ASSUME NEW r \in net, Deliver(r) PROVE LabelInv'
  <2>1. r.call \in Calls /\ LabelOf[r.call] \in Labels
    BY RequestParts, CallsAssumption DEF TypeOK
  <2>2. (UNCHANGED serverVars \/ Grant(r)) /\ UNCHANGED seen
    BY <1>2 DEF Deliver, Serve, clientVars
  <2>3. CASE GrantCommit(r)
    <3>1. /\ txn[LabelOf[r.call]] # "none" /\ r.op = "commit" /\ UNCHANGED owner
          /\ txn' = [txn EXCEPT ![LabelOf[r.call]] = "committed"]
      BY <2>3 DEF GrantCommit
    <3>2. owner[LabelOf[r.call]] = r.call
      BY <2>1, <3>1 DEF LabelInv, DistinctLabels
    <3>3. QED
      BY <2>1, <2>2, <3>1, <3>2
         DEF CommitInv, LabelInv, CommitOnlyIfAsked, TypeOK, ServerTypeOK
  <2>4. CASE GrantBegin(r) \/ GrantLoad(r) \/ GrantPrepare(r) \/ GrantRollback(r)
    BY <2>1, <2>2, <2>4 DEF GrantBegin, GrantLoad, GrantPrepare, GrantRollback, LabelInv,
       CommitOnlyIfAsked, TypeOK, ServerTypeOK
  <2>5. QED
    BY <2>2, <2>3, <2>4 DEF Grant, LabelInv, CommitOnlyIfAsked, serverVars
<1>3. CASE \/ \E r \in net : Lose(r)
           \/ \E l \in Labels : ServerTimeout(l)
           \/ UNCHANGED vars
  BY <1>3 DEF Lose, ServerTimeout, Expire, vars, clientVars, serverVars, LabelInv,
     CommitOnlyIfAsked, TypeOK, ServerTypeOK
<1>4. QED
  BY <1>1, <1>2, <1>3 DEF Next

\* Rows appear only under a call whose function succeeded or whose recovery
\* chose to commit: on a server that keeps the label of a rolled back
\* transaction, and on any other if no two calls are given the same label.
THEOREM CommitOnlyIfAskedAlways ==
  ASSUME LabelReuse => DistinctLabels PROVE Spec => []CommitOnlyIfAsked
<1>1. CASE ~LabelReuse
  <2>1. IInv => CommitOnlyIfAsked
    BY DEF IInv, OwnerInv
  <2>2. QED
    BY <1>1, <2>1, Invariance, PTL
<1>2. CASE DistinctLabels
  <2>1. Init => LabelInv
    BY DEF Init, ServerInit, LabelInv, CommitOnlyIfAsked
  <2>2. TypeOK /\ CommitInv /\ LabelInv /\ [Next]_vars => LabelInv'
    BY <1>2, LabelStep
  <2>3. LabelInv => CommitOnlyIfAsked
    BY DEF LabelInv
  <2>4. QED
    BY <2>1, <2>2, <2>3, TypeCorrect, CommitInvariance, PTL DEF Spec
<1>3. QED
  BY <1>1, <1>2
=============================================================================
