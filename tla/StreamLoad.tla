----------------------------- MODULE StreamLoad -----------------------------
(***************************************************************************)
(* Bulk loads over HTTP: the retrying service of                           *)
(* src/src/layers/stream-load.layer.ts and the older client of             *)
(* src/src/stream-load.ts, which sends once, side by side against one      *)
(* StarRocks frontend.  The frontend knows a load by its label only: while *)
(* one is running or loaded, another under the same label is answered      *)
(* "Label Already Exists"; a load that failed frees its label.             *)
(***************************************************************************)
EXTENDS Naturals

CONSTANTS
  Calls,        \* the load calls of the application(s)
  Legacy,       \* those made with the older client
  Bases,        \* labels given, or generated, in the options
  BaseLabel,    \* BaseLabel[c]: the label of call c, without any suffix
  MaxRetries,   \* options.retry.maxRetries
  NoRequest, NoReply

ASSUME CallsAssumption ==
  /\ Legacy \subseteq Calls
  /\ BaseLabel \in [Calls -> Bases]
ASSUME RetriesAssumption == MaxRetries \in Nat

\* `${baseLabel}_retry${k}`, of which 1 stands for the bare label.
Labels == [base: Bases, suffix: 1..(MaxRetries + 1)]

\* try tells the attempts of one call apart; the server cannot see it.
Requests == [call: Calls, label: Labels, try: 1..(MaxRetries + 1)]

Statuses == {"Success", "Publish Timeout", "Label Already Exists", "Fail"}
RawStatuses == Statuses \cup {"unknown"}

ASSUME SentinelAssumption == NoRequest \notin Requests /\ NoReply \notin RawStatuses

VARIABLES
  pc,            \* "start", "calling" or "done"
  attemptCount,  \* how often doLoadInner's attempt() was evaluated
  cur,           \* the request whose answer the call awaits
  result,        \* how the call ended: a status it returned, or "error"
  net,           \* requests the server has not taken up yet
  reply,         \* the answer to cur, when it has arrived
  job,           \* job[l]: what the server knows of label l
  loader,        \* loader[l]: the request that runs, or ran, under l
  applied        \* the requests whose rows are committed

clientVars == <<pc, attemptCount, cur, result>>
serverVars == <<job, loader, applied>>
vars == <<clientVars, net, reply, serverVars>>

TypeOK ==
  /\ pc \in [Calls -> {"start", "calling", "done"}]
  /\ attemptCount \in [Calls -> 0..(MaxRetries + 1)]
  /\ cur \in [Calls -> Requests \cup {NoRequest}]
  /\ \A c \in Calls : pc[c] = "calling" => cur[c] \in Requests /\ cur[c].call = c
  /\ result \in [Calls -> {"none", "error"} \cup RawStatuses]
  /\ net \subseteq Requests
  /\ reply \in [Calls -> RawStatuses \cup {NoReply}]
  /\ job \in [Labels -> {"none", "running", "committed", "visible"}]
  /\ loader \in [Labels -> Requests \cup {NoRequest}]
  /\ applied \subseteq Requests

Init ==
  /\ pc = [c \in Calls |-> "start"]
  /\ attemptCount = [c \in Calls |-> 0]
  /\ cur = [c \in Calls |-> NoRequest]
  /\ result = [c \in Calls |-> "none"]
  /\ net = {}
  /\ reply = [c \in Calls |-> NoReply]
  /\ job = [l \in Labels |-> "none"]
  /\ loader = [l \in Labels |-> NoRequest]
  /\ applied = {}

-----------------------------------------------------------------------------
(* Errors, reduced to what isRetryableError looks at: the class of the     *)
(* HTTP status and whether the text matches one of its patterns.           *)

Errors == [http: {"none", "ok", "transient", "client", "other"}, text: BOOLEAN]

\* A rejected fetch (timeout, reset), an HTTP error, a 200 that is not JSON,
\* whose message "Failed to parse response JSON" matches no pattern.
TransportErrors == Errors \ [http: {"ok"}, text: {TRUE}]

IsRetryable(e) == e.http = "transient" \/ (e.http # "client" /\ e.text)

\* parseResponse: a status it does not know is a failure.
\* (mutants) ... is a success; a duplicate is one, the data being there already.
ParseStatusLenient(raw) == IF raw \in Statuses THEN raw ELSE "Success"
ParseStatusIdempotent(raw) ==
  IF raw = "Label Already Exists" THEN "Success"
  ELSE IF raw \in Statuses THEN raw ELSE "Fail"
ParseStatus(raw) == IF raw \in Statuses THEN raw ELSE "Fail"

-----------------------------------------------------------------------------
(* The calls.                                                              *)

Send(c, r) ==
  /\ pc' = [pc EXCEPT ![c] = "calling"]
  /\ cur' = [cur EXCEPT ![c] = r]
  /\ net' = net \cup {r}
  /\ reply' = [reply EXCEPT ![c] = NoReply]

End(c, how) ==
  /\ pc' = [pc EXCEPT ![c] = "done"]
  /\ result' = [result EXCEPT ![c] = how]

\* The label attempt() closes over when it is evaluated for the n-th time.
AttemptLabel(c, n) == [base |-> BaseLabel[c], suffix |-> n]

\* doLoad validates, picks the base label and evaluates attempt() once.
Start(c) ==
  /\ pc[c] = "start"
  /\ attemptCount' = [attemptCount EXCEPT ![c] = @ + 1]
  /\ Send(c, [call |-> c, label |-> AttemptLabel(c, attemptCount'[c]), try |-> 1])
  /\ UNCHANGED <<result, serverVars>>

\* validateLoadOptions, an empty payload, or one that cannot be serialised.
Invalid(c) ==
  /\ pc[c] = "start"
  /\ End(c, "error")
  /\ UNCHANGED <<attemptCount, cur, net, reply, serverVars>>

\* (mutant) attempt() evaluated at every retry, as its comments intend.
RetryRelabelled(c) ==
  /\ attemptCount' = [attemptCount EXCEPT ![c] = @ + 1]
  /\ Send(c, [cur[c] EXCEPT !.try = @ + 1, !.label = AttemptLabel(c, attemptCount'[c])])
  /\ UNCHANGED result

\* (mutant) A schedule that starts afresh.
RetryForever(c) ==
  /\ Send(c, cur[c])
  /\ UNCHANGED <<attemptCount, result>>

\* Effect.retry runs again the effect that attempt() returned: attempt itself
\* is not evaluated again, so neither the count nor the label changes.
Retry(c) ==
  /\ Send(c, [cur[c] EXCEPT !.try = @ + 1])
  /\ UNCHANGED <<attemptCount, result>>

GiveUp(c) ==
  /\ End(c, "error")
  /\ UNCHANGED <<attemptCount, cur, net, reply>>

\* (mutant) One retry too many.
HandleErrorOnceMore(c, e) ==
  LET again == IsRetryable(e) /\ c \notin Legacy /\ cur[c].try <= MaxRetries + 1 IN
  (again /\ Retry(c)) \/ (~again /\ GiveUp(c))

\* The older client rejects at once; the service follows its schedule.
HandleError(c, e) ==
  LET again == IsRetryable(e) /\ c \notin Legacy /\ cur[c].try <= MaxRetries IN
  (again /\ Retry(c)) \/ (~again /\ GiveUp(c))

\* The older client returns the server's status, whatever it is; and it reads
\* the body whatever the HTTP status, "Fail" when there is no Status in it.
LegacyReturns(c, status) ==
  /\ c \in Legacy
  /\ End(c, status)
  /\ UNCHANGED <<attemptCount, cur, net, reply>>

\* The service returns every status but "Fail", which is an error.
ServiceReturns(c, status) ==
  /\ c \notin Legacy
  /\ \/ /\ status # "Fail"
        /\ End(c, status)
        /\ UNCHANGED <<attemptCount, cur, net, reply>>
     \/ /\ status = "Fail"
        /\ \E text \in BOOLEAN : HandleError(c, [http |-> "none", text |-> text])

Answer(c) ==
  /\ pc[c] = "calling" /\ reply[c] # NoReply
  /\ LegacyReturns(c, reply[c]) \/ ServiceReturns(c, ParseStatus(reply[c]))
  /\ UNCHANGED serverVars

\* The attempt ends without a usable answer; the request is not recalled.
TransportFailure(c) ==
  /\ pc[c] = "calling"
  /\ (\E e \in TransportErrors : HandleError(c, e)) \/ LegacyReturns(c, "Fail")
  /\ UNCHANGED serverVars

\* The fiber is interrupted: the pending fetch goes on without it.
Interrupt(c) ==
  /\ pc[c] = "calling" /\ c \notin Legacy
  /\ GiveUp(c)
  /\ UNCHANGED serverVars

-----------------------------------------------------------------------------
(* The channel and the server (external).                                  *)

Tell(r, status) ==
  reply' = IF pc[r.call] = "calling" /\ cur[r.call] = r
           THEN [reply EXCEPT ![r.call] = status] ELSE reply

TakeUp(r) ==
  /\ r \in net /\ net' = net \ {r}
  /\ \/ /\ job[r.label] = "none"
        /\ job' = [job EXCEPT ![r.label] = "running"]
        /\ loader' = [loader EXCEPT ![r.label] = r]
        /\ UNCHANGED <<reply, applied>>
     \/ /\ job[r.label] # "none"
        /\ Tell(r, "Label Already Exists")
        /\ UNCHANGED serverVars
     \/ \E status \in {"Fail", "unknown"} : Tell(r, status) /\ UNCHANGED serverVars
  /\ UNCHANGED clientVars

Lose(r) ==
  /\ r \in net /\ net' = net \ {r}
  /\ UNCHANGED <<reply, clientVars, serverVars>>

\* A running load commits, and is published in time or not; or it fails.
Complete(l) ==
  /\ job[l] = "running"
  /\ \E state \in {"visible", "committed"} :
       /\ job' = [job EXCEPT ![l] = state]
       /\ Tell(loader[l], IF state = "visible" THEN "Success" ELSE "Publish Timeout")
  /\ applied' = applied \cup {loader[l]}
  /\ UNCHANGED <<loader, net, clientVars>>

JobFails(l) ==
  /\ job[l] = "running"
  /\ job' = [job EXCEPT ![l] = "none"]
  /\ Tell(loader[l], "Fail")
  /\ UNCHANGED <<loader, applied, net, clientVars>>

Publish(l) ==
  /\ job[l] = "committed"
  /\ job' = [job EXCEPT ![l] = "visible"]
  /\ UNCHANGED <<loader, applied, net, reply, clientVars>>

-----------------------------------------------------------------------------
CallStep(c) ==
  Start(c) \/ Invalid(c) \/ Answer(c) \/ TransportFailure(c) \/ Interrupt(c)

Next ==
  \/ \E c \in Calls : CallStep(c)
  \/ \E r \in net : TakeUp(r) \/ Lose(r)
  \/ \E l \in Labels : Complete(l) \/ JobFails(l) \/ Publish(l)

Spec == Init /\ [][Next]_vars

\* The service's fetch carries AbortSignal.timeout, the older client's does
\* not: only the former's attempts are sure to end.
Fairness == \A c \in Calls \ Legacy : WF_vars(Answer(c) \/ TransportFailure(c))

FairSpec == Spec /\ Fairness

-----------------------------------------------------------------------------
(* Properties.                                                             *)

\* However often it is sent, and whoever else loads under the same label, one
\* copy at most of the data given under a label enters the table.
AtMostOnce ==
  \A r, s \in applied : BaseLabel[r.call] = BaseLabel[s.call] => r = s

\* "Success" and "Publish Timeout" tell of the call's own data: committed, and
\* in the first case visible.
SuccessIsOwn ==
  \A c \in Calls :
    result[c] \in {"Success", "Publish Timeout"} =>
      \E r \in applied : /\ r.call = c
                        /\ result[c] = "Success" => job[r.label] = "visible"

\* Every call of the service returns, whatever the channel does.
Returns == \A c \in Calls \ Legacy : pc[c] = "calling" ~> pc[c] = "done"

\* The calls implement LabelledLoad.
OutcomeOf(c) ==
  CASE pc[c] # "done" -> "working"
    [] pc[c] = "done" /\ result[c] \in {"Success", "Publish Timeout"} -> "loaded"
    [] pc[c] = "done" /\ result[c] = "Label Already Exists" -> "duplicate"
    [] OTHER -> "failed"

Abstract == INSTANCE LabelledLoad WITH
              Copies <- Requests, CallOf <- [r \in Requests |-> r.call],
              outcome <- [c \in Calls |-> OutcomeOf(c)], rows <- applied

ImplementsLabelledLoad == Abstract!Spec

=============================================================================
