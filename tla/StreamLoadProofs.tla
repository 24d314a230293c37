-------------------------- MODULE StreamLoadProofs --------------------------
(***************************************************************************)
(* What holds of StreamLoad for any number of calls, labels and retries.   *)
(***************************************************************************)
EXTENDS StreamLoad, TLAPS

\* Every request carries its call's label without a suffix.
Bare(r) == r.label = AttemptLabel(r.call, 1)

\* The call's own record: attempt() was evaluated once, and what it awaits is
\* its own request.
CallInv ==
  \A c \in Calls :
    /\ pc[c] = "start" => attemptCount[c] = 0
    /\ pc[c] = "calling" => Bare(cur[c])
    /\ pc[c] # "done" => result[c] = "none"

\* The server serves one request under a label, and keeps its rows for good.
ServerInv ==
  /\ \A r \in net : Bare(r)
  /\ \A l \in Labels : job[l] # "none" => /\ loader[l] \in Requests
                                          /\ loader[l].label = l /\ Bare(loader[l])
  /\ \A r \in applied : /\ job[r.label] \in {"committed", "visible"}
                        /\ loader[r.label] = r
  /\ \A l \in Labels : job[l] \in {"committed", "visible"} => loader[l] \in applied

\* Request r's rows are in, and visible if status says so.
Loaded(r, status) ==
  /\ r \in applied
  /\ status = "Success" => job[r.label] = "visible"

\* What has been answered, and what was reported of it, stays true.
AnswerInv ==
  \A c \in Calls :
    /\ pc[c] = "calling" /\ reply[c] \in {"Success", "Publish Timeout"}
         => Loaded(cur[c], reply[c])
    /\ result[c] \in {"Success", "Publish Timeout"}
         => \E r \in applied : r.call = c /\ Loaded(r, result[c])

IInv == TypeOK /\ CallInv /\ ServerInv /\ AnswerInv

-----------------------------------------------------------------------------
(* The steps of a call.                                                    *)

\* Sending a request of one's own under the bare label.
LEMMA SendStep ==
  ASSUME IInv, NEW c \in Calls, NEW r \in Requests, r.call = c, Bare(r), Send(c, r),
         attemptCount' \in [Calls -> 0..(MaxRetries + 1)],
         \A d \in Calls \ {c} : attemptCount'[d] = attemptCount[d],
         UNCHANGED <<result, serverVars>>, pc[c] # "done"
  PROVE  IInv'
<1> USE DEF IInv, serverVars
<1>1. TypeOK'
  BY DEF TypeOK, Send
<1>2. CallInv' /\ ServerInv'
  BY <1>1 DEF CallInv, ServerInv, Send, TypeOK, Bare, AttemptLabel
<1>3. \A s, how : Loaded(s, how) => Loaded(s, how)'
  BY DEF Loaded
<1>4. reply'[c] \notin {"Success", "Publish Timeout"}
  BY SentinelAssumption DEF Send, TypeOK, RawStatuses, Statuses
<1>5. \A d \in Calls \ {c} : pc'[d] = pc[d] /\ cur'[d] = cur[d] /\ reply'[d] = reply[d]
  BY DEF Send, TypeOK
<1>6. AnswerInv'
  BY <1>3, <1>4, <1>5 DEF AnswerInv
<1>7. QED
  BY <1>1, <1>2, <1>6

\* Ending a call with a result that tells the truth.
LEMMA EndStep ==
  ASSUME IInv, NEW c \in Calls, NEW how \in {"error"} \cup RawStatuses, End(c, how),
         UNCHANGED <<attemptCount, cur, net, reply, serverVars>>,
         how \in {"Success", "Publish Timeout"} => \E r \in applied : r.call = c /\ Loaded(r, how)
  PROVE  IInv'
<1> USE DEF IInv, serverVars, End
<1>1. TypeOK'
  BY DEF TypeOK
<1>2. CallInv' /\ ServerInv'
  <2>1. CallInv'
    BY DEF CallInv, TypeOK, Bare
  <2>2. ServerInv'
    BY DEF ServerInv
  <2> QED BY <2>1, <2>2
<1>3. \A s, h : Loaded(s, h) => Loaded(s, h)'
  BY DEF Loaded
<1>4. /\ pc'[c] = "done" /\ result'[c] = how
      /\ \A d \in Calls \ {c} : pc'[d] = pc[d] /\ result'[d] = result[d]
  BY DEF TypeOK
<1>5. AnswerInv'
  <2> SUFFICES ASSUME NEW d \in Calls
               PROVE  /\ pc'[d] = "calling" /\ reply'[d] \in {"Success", "Publish Timeout"}
                           => Loaded(cur[d], reply[d])'
                      /\ result'[d] \in {"Success", "Publish Timeout"}
                           => \E r \in applied' : r.call = d /\ Loaded(r, result[d])'
    BY DEF AnswerInv
  <2>1. CASE d = c
    BY <1>3, <1>4, <2>1
  <2>2. CASE d # c
    BY <1>3, <1>4, <2>2 DEF AnswerInv
  <2>3. QED
    BY <2>1, <2>2
<1>6. QED
  BY <1>1, <1>2, <1>5

LEMMA HandleErrorStep ==
  ASSUME IInv, NEW c \in Calls, pc[c] = "calling", NEW e, HandleError(c, e),
         UNCHANGED serverVars
  PROVE  IInv'
<1>1. CASE cur[c].try <= MaxRetries /\ Retry(c)
  <2> DEFINE r == [cur[c] EXCEPT !.try = @ + 1]
  <2>1. r \in Requests /\ r.call = c /\ r.label = cur[c].label
    BY <1>1, RetriesAssumption DEF IInv, TypeOK, Requests
  <2>2. Bare(r)
    BY <2>1 DEF IInv, CallInv, TypeOK, Bare
  <2>3. QED
    BY <1>1, <2>1, <2>2, SendStep DEF Retry, IInv, TypeOK
<1>2. CASE GiveUp(c)
  BY <1>2, EndStep DEF GiveUp
<1>3. QED
  BY <1>1, <1>2 DEF HandleError

LEMMA CallStepInv ==
  ASSUME IInv, NEW c \in Calls, CallStep(c)
  PROVE  IInv'
<1>1. CASE Start(c)
  <2>1. attemptCount[c] = 0
    BY <1>1 DEF Start, IInv, CallInv
  <2>2. /\ attemptCount' \in [Calls -> 0..(MaxRetries + 1)] /\ attemptCount'[c] = 1
        /\ \A d \in Calls \ {c} : attemptCount'[d] = attemptCount[d]
    BY <1>1, <2>1, RetriesAssumption DEF Start, IInv, TypeOK
  <2> DEFINE r == [call |-> c, label |-> AttemptLabel(c, 1), try |-> 1]
  <2>3. r \in Requests /\ r.call = c /\ Bare(r)
    BY CallsAssumption, RetriesAssumption DEF Requests, Labels, AttemptLabel, Bare
  <2>4. Send(c, r) /\ UNCHANGED <<result, serverVars>> /\ pc[c] # "done"
    BY <1>1, <2>2 DEF Start
  <2>5. QED
    BY <2>2, <2>3, <2>4, SendStep
<1>2. CASE Invalid(c)
  BY <1>2, EndStep DEF Invalid
<1>3. CASE Answer(c)
  <2> DEFINE status == IF c \in Legacy THEN reply[c] ELSE ParseStatus(reply[c])
  <2>1. pc[c] = "calling" /\ reply[c] \in RawStatuses /\ UNCHANGED serverVars
    BY <1>3 DEF Answer, IInv, TypeOK
  <2>2. CASE End(c, status) /\ UNCHANGED <<attemptCount, cur, net, reply>>
    <3>1. status \in RawStatuses
      BY <2>1 DEF ParseStatus, RawStatuses, Statuses
    <3>2. status \in {"Success", "Publish Timeout"} => status = reply[c]
      BY <2>1 DEF ParseStatus, RawStatuses, Statuses
    <3>3. cur[c].call = c
      BY <2>1 DEF IInv, TypeOK
    <3>4. status \in {"Success", "Publish Timeout"}
            => \E r \in applied : r.call = c /\ Loaded(r, status)
      BY <2>1, <3>2, <3>3 DEF IInv, AnswerInv, Loaded
    <3>5. QED
      BY <2>1, <2>2, <3>1, <3>4, EndStep
  <2>3. CASE \E text \in BOOLEAN : HandleError(c, [http |-> "none", text |-> text])
    BY <2>1, <2>3, HandleErrorStep
  <2>4. QED
    BY <1>3, <2>2, <2>3 DEF Answer, LegacyReturns, ServiceReturns
<1>4. CASE TransportFailure(c)
  <2>1. CASE \E e \in TransportErrors : HandleError(c, e)
    BY <1>4, <2>1, HandleErrorStep DEF TransportFailure
  <2>2. CASE LegacyReturns(c, "Fail")
    <3>1. "Fail" \in RawStatuses
      BY DEF RawStatuses, Statuses
    <3>2. QED
      BY <1>4, <2>2, <3>1, EndStep DEF TransportFailure, LegacyReturns
  <2>3. QED
    BY <1>4, <2>1, <2>2 DEF TransportFailure
<1>5. CASE Interrupt(c)
  BY <1>5, EndStep DEF Interrupt, GiveUp
<1>6. QED
  BY <1>1, <1>2, <1>3, <1>4, <1>5 DEF CallStep

-----------------------------------------------------------------------------
(* The steps of the channel and the server.                                *)

\* An answer that tells the truth is delivered to the call that awaits it.
LEMMA TellStep ==
  ASSUME IInv, NEW r \in Requests, NEW status \in RawStatuses, Tell(r, status),
         UNCHANGED clientVars, applied \subseteq applied',
         \A l \in Labels : job[l] = "visible" => job'[l] = "visible",
         status \in {"Success", "Publish Timeout"} => Loaded(r, status)'
  PROVE  AnswerInv' /\ reply' \in [Calls -> RawStatuses \cup {NoReply}]
<1>1. r.call \in Calls
  BY DEF Requests
<1>2. \A s \in applied : s.label \in Labels
  BY DEF IInv, TypeOK, Requests
<1>3. \A s, how : Loaded(s, how) => Loaded(s, how)'
  BY <1>2 DEF Loaded
<1>4. reply' \in [Calls -> RawStatuses \cup {NoReply}]
  BY <1>1 DEF Tell, IInv, TypeOK
<1>5. \A c \in Calls : \/ reply'[c] = reply[c]
                       \/ cur[c] = r /\ reply'[c] = status
  BY <1>1 DEF Tell, IInv, TypeOK
<1>6. AnswerInv'
  BY <1>3, <1>5 DEF AnswerInv, IInv, clientVars
<1>7. QED
  BY <1>4, <1>6

LEMMA TakeUpStep ==
  ASSUME IInv, NEW r \in net, TakeUp(r)
  PROVE  IInv'
<1> USE DEF IInv
<1>1. r \in Requests /\ r.label \in Labels /\ Bare(r)
  BY DEF TypeOK, Requests, ServerInv
<1>2. net' = net \ {r} /\ UNCHANGED clientVars
  BY DEF TakeUp
<1>3. CallInv'
  BY <1>2 DEF CallInv, clientVars, Bare
<1>4. CASE /\ job[r.label] = "none" /\ job' = [job EXCEPT ![r.label] = "running"]
           /\ loader' = [loader EXCEPT ![r.label] = r] /\ UNCHANGED <<reply, applied>>
  <2>1. TypeOK'
    BY <1>1, <1>2, <1>4 DEF TypeOK, clientVars
  <2>2. \A s \in applied : s.label # r.label /\ s.label \in Labels
    BY <1>4 DEF ServerInv, TypeOK, Requests
  <2>3. ServerInv'
    BY <1>1, <1>2, <1>4, <2>2 DEF ServerInv, TypeOK, Bare
  <2>4. \A s, how : Loaded(s, how) => Loaded(s, how)'
    BY <1>4, <2>2 DEF Loaded, TypeOK
  <2>5. AnswerInv'
    BY <1>2, <1>4, <2>4 DEF AnswerInv, clientVars
  <2>6. QED
    BY <1>3, <2>1, <2>3, <2>5
<1>5. ASSUME NEW status \in {"Label Already Exists", "Fail", "unknown"},
             Tell(r, status), UNCHANGED serverVars
      PROVE  IInv'
  <2>1. AnswerInv' /\ reply' \in [Calls -> RawStatuses \cup {NoReply}]
    BY <1>1, <1>2, <1>5, TellStep DEF serverVars, RawStatuses, Statuses
  <2>2. TypeOK' /\ ServerInv'
    BY <1>2, <1>5, <2>1 DEF TypeOK, ServerInv, clientVars, serverVars, Bare
  <2>3. QED
    BY <1>3, <2>1, <2>2
<1>6. QED
  BY <1>4, <1>5 DEF TakeUp

LEMMA CompleteStep ==
  ASSUME IInv, NEW l \in Labels, Complete(l)
  PROVE  IInv'
<1> USE DEF IInv
<1> DEFINE r == loader[l]
<1>1. PICK state \in {"visible", "committed"} :
        /\ job' = [job EXCEPT ![l] = state]
        /\ Tell(r, IF state = "visible" THEN "Success" ELSE "Publish Timeout")
  BY DEF Complete
<1>2. /\ job[l] = "running" /\ applied' = applied \cup {r}
      /\ UNCHANGED <<loader, net, clientVars>>
  BY DEF Complete
<1>3. r \in Requests /\ r.label = l /\ Bare(r)
  BY <1>2 DEF ServerInv
<1>4. AnswerInv' /\ reply' \in [Calls -> RawStatuses \cup {NoReply}]
  <2>1. PICK status \in {"Success", "Publish Timeout"}, own \in Requests :
          /\ own = r /\ Tell(own, status)
          /\ status = IF state = "visible" THEN "Success" ELSE "Publish Timeout"
    BY <1>1, <1>3
  <2>2. status \in RawStatuses
    BY <2>1 DEF RawStatuses, Statuses
  <2>3. \A k \in Labels : job[k] = "visible" => job'[k] = "visible"
    <3>1. job \in [Labels -> {"none", "running", "committed", "visible"}]
      BY DEF TypeOK
    <3> QED BY <1>1, <1>2, <3>1
  <2>4. Loaded(own, status)'
    <3>1. status = "Success" => job'[l] = "visible"
      <4>1. l \in DOMAIN job
        BY DEF TypeOK
      <4> QED BY <1>1, <2>1, <4>1
    <3>2. own \in applied' /\ own.label = l
      BY <1>2, <1>3, <2>1
    <3> QED BY <3>1, <3>2 DEF Loaded
  <2>5. applied \subseteq applied' /\ UNCHANGED clientVars
    BY <1>2
  <2> HIDE DEF r, IInv
  <2> QED BY <2>1, <2>2, <2>3, <2>4, <2>5, TellStep
<1>5. TypeOK' /\ CallInv'
  <2>1. TypeOK'
    BY <1>1, <1>2, <1>3, <1>4 DEF TypeOK, clientVars
  <2>2. CallInv'
    BY <1>2 DEF CallInv, clientVars, Bare
  <2> QED BY <2>1, <2>2
<1>6. \A s \in applied : s.label \in Labels /\ s.label # l
  BY <1>2 DEF ServerInv, TypeOK, Requests
<1>7. /\ job'[l] \in {"committed", "visible"}
      /\ \A m \in Labels \ {l} : job'[m] = job[m]
  BY <1>1 DEF TypeOK
<1>8. ServerInv'
  BY <1>2, <1>3, <1>6, <1>7 DEF ServerInv, Bare
<1>9. QED
  BY <1>4, <1>5, <1>8

LEMMA JobFailsStep ==
  ASSUME IInv, NEW l \in Labels, JobFails(l)
  PROVE  IInv'
<1> USE DEF IInv
<1>1. /\ job[l] = "running" /\ job' = [job EXCEPT ![l] = "none"] /\ Tell(loader[l], "Fail")
      /\ UNCHANGED <<loader, applied, net, clientVars>>
  BY DEF JobFails
<1>2. loader[l] \in Requests
  BY <1>1 DEF ServerInv
<1>3. AnswerInv' /\ reply' \in [Calls -> RawStatuses \cup {NoReply}]
  BY <1>1, <1>2, TellStep DEF TypeOK, RawStatuses, Statuses
<1>4. TypeOK' /\ CallInv'
  BY <1>1, <1>3 DEF TypeOK, CallInv, clientVars, Bare
<1>5. ServerInv'
  BY <1>1 DEF ServerInv, TypeOK, Requests, Bare
<1>6. QED
  BY <1>3, <1>4, <1>5

LEMMA OtherStep ==
  ASSUME IInv, \/ \E r \in net : Lose(r)
               \/ \E l \in Labels : Publish(l)
               \/ UNCHANGED vars
  PROVE  IInv'
<1> USE DEF IInv, clientVars, serverVars
<1>1. net' \subseteq net /\ UNCHANGED <<reply, clientVars, loader, applied>>
  BY DEF Lose, Publish, vars
<1>2. \A l \in Labels : \/ job'[l] = job[l]
                        \/ job[l] = "committed" /\ job'[l] = "visible"
  BY DEF Lose, Publish, vars, TypeOK
<1>3. job' \in [Labels -> {"none", "running", "committed", "visible"}]
  BY DEF Lose, Publish, vars, TypeOK
<1>4. TypeOK' /\ CallInv'
  BY <1>1, <1>3 DEF TypeOK, CallInv, Bare
<1>5. \A r \in applied : r.label \in Labels
  BY DEF TypeOK, Requests
<1>6. ServerInv'
  BY <1>1, <1>2, <1>5 DEF ServerInv, Bare
<1>7. \A r, how : Loaded(r, how) => Loaded(r, how)'
  BY <1>1, <1>2, <1>5 DEF Loaded
<1>8. AnswerInv'
  BY <1>1, <1>7 DEF AnswerInv
<1>9. QED
  BY <1>4, <1>6, <1>8

\* Every reachable state satisfies the inductive invariant.
THEOREM Invariance == Spec => []IInv
<1>1. Init => IInv
  BY RetriesAssumption DEF Init, IInv, TypeOK, CallInv, ServerInv, AnswerInv
<1>2. IInv /\ [Next]_vars => IInv'
  BY CallStepInv, TakeUpStep, CompleteStep, JobFailsStep, OtherStep DEF Next
<1>3. QED
  BY <1>1, <1>2, PTL DEF Spec

-----------------------------------------------------------------------------
(* What follows from the invariant.                                        *)

\* Every reachable state has the declared types.
THEOREM TypeCorrect == Spec => []TypeOK
BY Invariance, PTL DEF IInv

\* One copy at most of the data given under a label enters the table, however
\* often it is sent.
THEOREM AtMostOnceAlways == Spec => []AtMostOnce
<1>1. IInv => AtMostOnce
  <2> SUFFICES ASSUME IInv, NEW r \in applied, NEW s \in applied,
                      BaseLabel[r.call] = BaseLabel[s.call]
               PROVE  r = s
    BY DEF AtMostOnce
  <2>1. Bare(r) /\ Bare(s)
    BY DEF IInv, ServerInv, TypeOK, Requests
  <2>2. r.label = s.label
    BY <2>1 DEF Bare, AttemptLabel
  <2>3. QED
    BY <2>2 DEF IInv, ServerInv
<1>2. QED
  BY <1>1, Invariance, PTL

\* A reported success tells of the call's own data.
THEOREM SuccessIsOwnAlways == Spec => []SuccessIsOwn
<1>1. IInv => SuccessIsOwn
  BY DEF IInv, AnswerInv, Loaded, SuccessIsOwn
<1>2. QED
  BY <1>1, Invariance, PTL

-----------------------------------------------------------------------------
(* The calls implement LabelledLoad.                                       *)

\* What a step of one call may change: it goes on, or it ends once.
Goes(c) == pc'[c] # "done" /\ UNCHANGED result
Ends(c, how) == End(c, how) /\ how # "none"

LEMMA HandleErrorEffect ==
  ASSUME TypeOK, NEW c \in Calls, pc[c] = "calling", NEW e, HandleError(c, e)
  PROVE  \/ Goes(c) /\ \A d \in Calls \ {c} : pc'[d] = pc[d]
         \/ Ends(c, "error")
BY DEF HandleError, Retry, GiveUp, Send, Goes, Ends, TypeOK

LEMMA CallRefines ==
  ASSUME IInv, IInv', NEW c \in Calls, CallStep(c)
  PROVE  [Abstract!Next]_(Abstract!vars)
<1> DEFINE outcome == [d \in Calls |-> OutcomeOf(d)]
<1>1. UNCHANGED serverVars /\ pc[c] # "done"
  BY DEF CallStep, Start, Invalid, Answer, TransportFailure, Interrupt
<1>2. applied' = applied
  BY <1>1 DEF serverVars
<1>3. CASE Goes(c) /\ \A d \in Calls \ {c} : pc'[d] = pc[d]
  <2>1. outcome' = outcome
    BY <1>1, <1>3 DEF Goes, OutcomeOf
  <2>2. QED
    BY <1>2, <2>1 DEF Abstract!vars
<1>4. ASSUME NEW how \in RawStatuses \cup {"error"}, Ends(c, how)
      PROVE  [Abstract!Next]_(Abstract!vars)
  <2> DEFINE to == OutcomeOf(c)'
  <2>1. /\ pc'[c] = "done" /\ result'[c] = how
        /\ \A d \in Calls \ {c} : pc'[d] = pc[d] /\ result'[d] = result[d]
    BY <1>4 DEF Ends, End, IInv, TypeOK
  <2>2. outcome' = [outcome EXCEPT ![c] = to]
    BY <2>1 DEF OutcomeOf
  <2>3. outcome[c] = "working" /\ to \in {"loaded", "duplicate", "failed"}
    BY <1>1, <2>1 DEF OutcomeOf
  <2>4. to = "loaded" => \E r \in applied : [x \in Requests |-> x.call][r] = c
    <3>1. to = "loaded" => how \in {"Success", "Publish Timeout"}
      BY <2>1 DEF OutcomeOf
    <3>2. QED
      BY <1>2, <2>1, <3>1 DEF IInv, AnswerInv, TypeOK
  <2>5. Abstract!Report(c, to)
    BY <1>2, <2>2, <2>3, <2>4 DEF Abstract!Report
  <2>6. QED
    BY <2>3, <2>5 DEF Abstract!Next
<1>5. CASE Start(c)
  <2>1. Goes(c) /\ \A d \in Calls \ {c} : pc'[d] = pc[d]
    BY <1>5 DEF Start, Send, Goes, IInv, TypeOK
  <2>2. QED
    BY <1>3, <2>1
<1>6. CASE Invalid(c)
  BY <1>4, <1>6 DEF Invalid, Ends
<1>7. CASE Answer(c)
  <2>1. pc[c] = "calling" /\ reply[c] \in RawStatuses
    BY <1>7 DEF Answer, IInv, TypeOK
  <2>2. CASE \E text \in BOOLEAN : HandleError(c, [http |-> "none", text |-> text])
    BY <1>3, <1>4, <2>1, <2>2, HandleErrorEffect DEF IInv
  <2>3. CASE End(c, IF c \in Legacy THEN reply[c] ELSE ParseStatus(reply[c]))
    <3> DEFINE how == IF c \in Legacy THEN reply[c] ELSE ParseStatus(reply[c])
    <3>1. how \in RawStatuses /\ how # "none"
      BY <2>1 DEF ParseStatus, RawStatuses, Statuses
    <3>2. Ends(c, how)
      BY <2>3, <3>1 DEF Ends
    <3>3. QED
      BY <1>4, <3>1, <3>2
  <2>4. QED
    BY <1>7, <2>2, <2>3 DEF Answer, LegacyReturns, ServiceReturns
<1>8. CASE TransportFailure(c)
  <2>1. CASE \E e \in TransportErrors : HandleError(c, e)
    BY <1>3, <1>4, <1>8, <2>1, HandleErrorEffect DEF TransportFailure, IInv
  <2>2. CASE LegacyReturns(c, "Fail")
    <3>1. "Fail" \in RawStatuses /\ Ends(c, "Fail")
      BY <2>2 DEF RawStatuses, Statuses, LegacyReturns, Ends
    <3>2. QED
      BY <1>4, <3>1
  <2>3. QED
    BY <1>8, <2>1, <2>2 DEF TransportFailure
<1>9. CASE Interrupt(c)
  BY <1>4, <1>9 DEF Interrupt, GiveUp, Ends
<1>10. QED
  BY <1>5, <1>6, <1>7, <1>8, <1>9 DEF CallStep

\* A load that commits enters the table first under its label.
LEMMA CompleteRefines ==
  ASSUME IInv, NEW l \in Labels, Complete(l)
  PROVE  [Abstract!Next]_(Abstract!vars)
<1> DEFINE r == loader[l]
           CallOf == [x \in Requests |-> x.call]
<1>1. /\ job[l] = "running" /\ applied' = applied \cup {r} /\ UNCHANGED <<pc, result>>
  BY DEF Complete, clientVars
<1>2. r \in Requests /\ r.label = l /\ Bare(r)
  BY <1>1 DEF IInv, ServerInv
<1>3. \A y \in applied : BaseLabel[y.call] # BaseLabel[r.call] /\ y \in Requests
  <2> SUFFICES ASSUME NEW y \in applied
               PROVE  BaseLabel[y.call] # BaseLabel[r.call] /\ y \in Requests
    OBVIOUS
  <2>1. y \in Requests /\ y.label \in Labels /\ job[y.label] # "running" /\ loader[y.label] = y
    BY DEF IInv, TypeOK, ServerInv, Requests
  <2>2. Bare(y)
    BY <2>1 DEF IInv, TypeOK, ServerInv
  <2>3. QED
    BY <1>1, <1>2, <2>1, <2>2 DEF Bare, AttemptLabel
<1>4. \A y \in applied : BaseLabel[CallOf[y]] # BaseLabel[CallOf[r]]
  BY <1>2, <1>3
<1>5. Abstract!Enter(r)
  BY <1>1, <1>4 DEF Abstract!Enter, OutcomeOf
<1>6. QED
  BY <1>2, <1>5 DEF Abstract!Next

\* Nothing else that the channel and the server do is visible.
LEMMA OtherRefines ==
  ASSUME \/ \E r \in net : TakeUp(r) \/ Lose(r)
         \/ \E l \in Labels : JobFails(l) \/ Publish(l)
         \/ UNCHANGED vars
  PROVE  UNCHANGED Abstract!vars
<1>1. UNCHANGED <<pc, result, applied>>
  BY DEF TakeUp, Lose, JobFails, Publish, vars, clientVars, serverVars
<1>2. QED
  BY <1>1 DEF Abstract!vars, OutcomeOf

\* The service and the older client, over a channel that loses and delays
\* requests, implement LabelledLoad.
THEOREM Refinement == Spec => ImplementsLabelledLoad
<1>1. Init => Abstract!Init
  BY DEF Init, Abstract!Init, OutcomeOf
<1>2. IInv /\ IInv' /\ [Next]_vars => [Abstract!Next]_(Abstract!vars)
  BY CallRefines, CompleteRefines, OtherRefines DEF Next
<1>3. QED
  BY <1>1, <1>2, Invariance, PTL DEF Spec, ImplementsLabelledLoad, Abstract!Spec

=============================================================================
