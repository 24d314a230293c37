------------------------- MODULE SqlClientOrderProofs -------------------------
(***************************************************************************)
(* Operations of several statements, for any callers, operations and       *)
(* pools: the indexes of a createTable come in their order, rows given     *)
(* under one label land once, and validate reports what was so while it    *)
(* ran.  The first two theorems see a step only through what it does to    *)
(* the operations (Shape); all rest on the same two invariants: the        *)
(* sessions stay in the database of the configuration (HInv), and the      *)
(* statements of an operation go out one after the other (WorkOK).         *)
(***************************************************************************)
EXTENDS SqlClientProofs, NaturalsInduction, WellFoundedInduction

LEMMA Least ==
  ASSUME NEW T \in SUBSET Nat, T # {}
  PROVE  \E n \in T : \A m \in T : n <= m
<1>1. IsWellFoundedOn(OpToRel(<,Nat), Nat)
  BY NatLessThanWellFounded
<1>2. PICK n \in T : \A m \in T : ~(<<m, n>> \in OpToRel(<,Nat))
  BY <1>1, WFMin
<1>3. \A m \in T : ~(m < n)
  BY <1>2 DEF OpToRel
<1> QED BY <1>3

(***************************************************************************)
(* Sessions                                                                *)
(***************************************************************************)
\* A session under a statement is open and serves one caller, who had a statement to send.
SessionsOK ==
    /\ DOMAIN sessions = Pools
    /\ \A c \in Callers : call[c].stage \in {"queued", "running"} => Head(call[c].todo).kind # "invalid"
    /\ \A c \in Callers : call[c].stage = "running" =>
          call[c].session \in DOMAIN sessions[PoolOf(call[c].op)]
    /\ \A c, d \in Callers : /\ call[c].stage = "running" /\ call[d].stage = "running"
                             /\ PoolOf(call[c].op) = PoolOf(call[d].op)
                             /\ call[c].session = call[d].session
                             => c = d
\* Until a session is moved, all are in the database of the configuration.
AtHome ==
    ~history.roamed =>
        /\ \A p \in Pools : \A s \in DOMAIN sessions[p] : sessions[p][s] = Home
        /\ \A l \in late : l.db = Home

(***************************************************************************)
(* A step as the operations see it                                         *)
(***************************************************************************)
\* The operations that send one statement after the other, whatever was answered.
Steady == {"createTable", "insertMany"}

\* The statements of an introspection that its answers bring about.
Listing == {"show create", "describe"}

Kept(c) == /\ call'[c].stage = "idle" <=> call[c].stage = "idle"
           /\ call[c].stage # "idle" => call'[c].op = call[c].op /\ call'[c].todo = call[c].todo

\* c has had the answer to a statement, or an error.
Advance(c, ok) ==
    LET op == call[c].op
        todo == call[c].todo
    IN  /\ call[c].stage # "idle"
        /\ \A d \in Callers \ {c} : Kept(d)
        /\ \/ /\ told' = told /\ call'[c].stage # "idle" /\ call'[c].op = op
              /\ op.kind \in Steady => ok /\ call'[c].todo = Tail(todo) /\ Tail(todo) # <<>>
              /\ \A i \in DOMAIN call'[c].todo :
                    \/ \E j \in DOMAIN todo : call'[c].todo[i] = todo[j]
                    \/ call'[c].todo[i].kind \in Listing
           \/ /\ call'[c].stage = "idle"
              /\ \E answer : /\ told' = [told EXCEPT ![c] = Append(@, answer)] /\ answer.op = op
                             /\ op.kind \in Steady => answer.ok = ok /\ (ok => Tail(todo) = <<>>)

Unaffected == /\ server'.tables = server.tables /\ server'.labels = server.labels
              /\ history'.roamed = history.roamed /\ history'.dropped = history.dropped
Effect(db, st) ==
    /\ Accepts(server, db, st) /\ server' = After(server, db, st)
    /\ history'.roamed = (\/ history.roamed \/ (st.kind = "use" /\ st.db # Home)
                          \/ (st.kind = "drop database" /\ st.db = Home))
    /\ history'.dropped = history.dropped \cup
                            (IF st.kind \in {"drop table", "drop index"} THEN {st.table} ELSE {})

Rests == /\ Unaffected /\ UNCHANGED <<late, told, left>> /\ \A d \in Callers : Kept(d)
Begins(c) ==
    /\ Unaffected /\ late' = late /\ \A d \in Callers \ {c} : Kept(d)
    /\ call[c].stage = "idle" /\ left[c] # <<>> /\ left' = [left EXCEPT ![c] = Tail(@)]
    /\ LET op == Head(left[c])
       IN  \/ op.kind = "purgeArchived" /\ call'[c].stage = "idle" /\ told' = told
           \/ /\ call'[c].stage = "idle" /\ Statements(op) = <<>>
              /\ \E answer : told' = [told EXCEPT ![c] = Append(@, answer)] /\ answer.op = op
           \/ /\ call'[c].stage # "idle" /\ call'[c].op = op
              /\ call'[c].todo = Statements(op) /\ Statements(op) # <<>> /\ told' = told
Fails(c) ==
    /\ Unaffected /\ Advance(c, FALSE) /\ left' = left
    /\ \E l : /\ l.st = Head(call[c].todo) /\ (~history.roamed => l.db = Home)
              /\ late' = late \cup {l} \/ late' = late
Replies(c) ==
    /\ late' = late /\ Advance(c, TRUE) /\ left' = left /\ Head(call[c].todo).kind # "invalid"
    /\ \E db : (~history.roamed => db = Home) /\ Effect(db, Head(call[c].todo))
Lates == /\ told' = told /\ left' = left /\ \A d \in Callers : Kept(d)
         /\ \E l \in late : late' = late \ {l} /\ Effect(l.db, l.st)
            /\ (~history.roamed => l.db = Home)
Shape == \/ Rests \/ Lates \/ \E c \in Callers : Begins(c) \/ Fails(c) \/ Replies(c)

\* The homing invariant.
HInv == IInv /\ SessionsOK /\ AtHome

LEMMA SeqTail ==
    ASSUME NEW S, NEW s, s \in Seq(S), s # <<>>
    PROVE  \A i \in DOMAIN Tail(s) : i + 1 \in DOMAIN s /\ Tail(s)[i] = s[i + 1]
OBVIOUS

LEMMA SeqJoin ==
    ASSUME NEW x, NEW S, NEW s, s \in Seq(S)
    PROVE  \A i \in DOMAIN (<<x>> \o s) :
               (<<x>> \o s)[i] = x \/ (i - 1 \in DOMAIN s /\ (<<x>> \o s)[i] = s[i - 1])
OBVIOUS

\* Each statement left was there before, or is one of a listing.
LEMMA NextFrom ==
    ASSUME NEW op, NEW todo, NEW S, todo \in Seq(S), todo # <<>>, NEW ok, NEW value
    PROVE  LET rest == NextOf(op, Head(todo), Tail(todo), ok, value)
           IN  \A i \in DOMAIN rest : (\E j \in DOMAIN todo : rest[i] = todo[j]) \/ rest[i].kind \in Listing
<1>0. PICK rest : rest = NextOf(op, Head(todo), Tail(todo), ok, value)
  OBVIOUS
<1> SUFFICES \A i \in DOMAIN rest : (\E j \in DOMAIN todo : rest[i] = todo[j]) \/ rest[i].kind \in Listing
  BY <1>0
<1>1. /\ Tail(todo) \in Seq(S)
      /\ \A i \in DOMAIN Tail(todo) : \E j \in DOMAIN todo : Tail(todo)[i] = todo[j]
  BY SeqParts, SeqTail
<1>2. CASE op.kind = "validate" /\ Head(todo).kind = "show tables"
  BY <1>0, <1>2 DEF NextOf, Listing
<1>3. CASE op.kind = "validate" /\ Head(todo).kind = "show create" /\ ok
  <2> DEFINE describe == [kind |-> "describe", table |-> Head(todo).table]
  <2>1. rest = <<describe>> \o Tail(todo)
    BY <1>0, <1>3 DEF NextOf
  <2>2. describe.kind \in Listing
    BY DEF Listing
  <2> HIDE DEF describe
  <2> QED BY <1>1, <2>1, <2>2, SeqJoin
<1>4. CASE ~(op.kind = "validate" /\ Head(todo).kind = "show tables")
           /\ ~(op.kind = "validate" /\ Head(todo).kind = "show create" /\ ok)
  <2>1. rest = Tail(todo)
    BY <1>0, <1>4 DEF NextOf
  <2> QED BY <1>1, <2>1
<1> QED BY <1>2, <1>3, <1>4

LEMMA AdvanceStep ==
    ASSUME CallsOK, ToldOK, NEW c \in Callers, call[c].stage # "idle", NEW ok \in BOOLEAN, NEW value, GoOn(c, ok, value)
    PROVE  Advance(c, ok) /\ call'[c].stage \notin {"queued", "running"} /\ \A d \in Callers \ {c} : call'[d] = call[d]
<1> DEFINE op == call[c].op
           todo == call[c].todo
           stops == ~ok /\ ~Catches(op, Head(todo))
<1>0. PICK rest, got : /\ rest = NextOf(op, Head(todo), Tail(todo), ok, value)
                       /\ got = Append(call[c].got, [st |-> Head(todo), ok |-> ok, value |-> value])
  OBVIOUS
<1>1. op.kind \in Steady => rest = Tail(todo) /\ (stops <=> ~ok)
  BY <1>0 DEF Steady, NextOf, Catches
<1>2. CASE stops \/ rest = <<>>
  <2>0. PICK answer : answer = Returned(op, got, ~stops)
    OBVIOUS
  <2>1. /\ call' = [call EXCEPT ![c] = Idle]
        /\ told' = [told EXCEPT ![c] = Append(@, answer)]
    BY <1>0, <1>2, <2>0 DEF GoOn, Finish
  <2>2. answer.op = op /\ (op.kind \in Steady => answer.ok = ok)
    BY <2>0, <1>1 DEF Returned, Steady
  <2>3. call'[c] = Idle /\ \A d \in Callers \ {c} : call'[d] = call[d]
    BY <2>1 DEF CallsOK
  <2>4. Idle.stage = "idle"
    BY DEF Idle
  <2>5. op.kind \in Steady => (ok => Tail(todo) = <<>>)
    BY <1>1, <1>2
  <2> HIDE DEF stops
  <2> QED BY <2>1, <2>2, <2>3, <2>4, <2>5 DEF Advance, Kept
<1>3. CASE ~(stops \/ rest = <<>>)
  <2>0. PICK r : r = [stage |-> "ready", op |-> op, todo |-> rest, got |-> got, session |-> NoSession]
    OBVIOUS
  <2>1. call' = [call EXCEPT ![c] = r] /\ told' = told
    BY <1>0, <1>3, <2>0 DEF GoOn
  <2>2. r.stage = "ready" /\ r.op = op /\ r.todo = rest
    BY <2>0
  <2>3. call'[c] = r /\ \A d \in Callers \ {c} : call'[d] = call[d]
    BY <2>1 DEF CallsOK
  <2>4. \A i \in DOMAIN rest : (\E j \in DOMAIN todo : rest[i] = todo[j]) \/ rest[i].kind \in Listing
    <3>1. Live(c, call[c])
      BY DEF CallsOK
    <3>2. PICK S : todo \in Seq(S) /\ todo # <<>>
      BY <3>1 DEF Live
    <3> HIDE DEF op, todo, stops
    <3> QED BY <1>0, <3>2, NextFrom
  <2>5. op.kind \in Steady => ok /\ r.todo = Tail(todo) /\ Tail(todo) # <<>>
    BY <1>1, <1>3, <2>2
  <2>6. r.stage # "idle" /\ \A d \in Callers \ {c} : Kept(d)
    BY <2>2, <2>3 DEF Kept
  <2>7. \A i \in DOMAIN r.todo : (\E j \in DOMAIN todo : r.todo[i] = todo[j]) \/ r.todo[i].kind \in Listing
    BY <2>2, <2>4
  <2>8. Advance(c, ok)
    <3> HIDE DEF stops
    <3>1. /\ told' = told /\ call'[c].stage # "idle" /\ call'[c].op = op
          /\ op.kind \in Steady => ok /\ call'[c].todo = Tail(todo) /\ Tail(todo) # <<>>
      BY <2>1, <2>2, <2>3, <2>5, <2>6
    <3>2. \A i \in DOMAIN call'[c].todo :
              \/ \E j \in DOMAIN todo : call'[c].todo[i] = todo[j]
              \/ call'[c].todo[i].kind \in Listing
      BY <2>3, <2>7
    <3> QED BY <2>6, <3>1, <3>2 DEF Advance
  <2> QED BY <2>2, <2>3, <2>8
<1> QED BY <1>2, <1>3

\* c has no session any more, and the others keep theirs.
LEMMA SessionsLeft ==
    ASSUME SessionsOK, NEW c \in Callers, call'[c].stage # "running",
           call'[c].stage = "queued" => Head(call'[c].todo).kind # "invalid",
           \A d \in Callers \ {c} : call'[d] = call[d],
           DOMAIN sessions' = Pools,
           \A p \in Pools : \A s \in DOMAIN sessions[p] :
               \/ s \in DOMAIN sessions'[p]
               \/ call[c].stage = "running" /\ p = PoolOf(call[c].op) /\ s = call[c].session
    PROVE  SessionsOK'
<1>1. ASSUME NEW d \in Callers, call'[d].stage = "running"
      PROVE  d # c /\ call'[d] = call[d]
  BY <1>1
<1>2. ASSUME NEW d \in Callers, call'[d].stage = "running"
      PROVE  call'[d].session \in DOMAIN sessions'[PoolOf(call'[d].op)]
  <2>0. PICK p, s : p = PoolOf(call[d].op) /\ s = call[d].session
    OBVIOUS
  <2>1. p \in Pools
    BY <2>0 DEF PoolOf, Pools
  <2>2. s \in DOMAIN sessions[p]
    BY <1>1, <1>2, <2>0 DEF SessionsOK
  <2>3. ~(call[c].stage = "running" /\ p = PoolOf(call[c].op) /\ s = call[c].session)
    BY <1>1, <1>2, <2>0 DEF SessionsOK
  <2> QED BY <1>1, <1>2, <2>0, <2>1, <2>2, <2>3
<1>3. ASSUME NEW d \in Callers, call'[d].stage \in {"queued", "running"}
      PROVE  Head(call'[d].todo).kind # "invalid"
  BY <1>1, <1>3 DEF SessionsOK
<1> QED BY <1>1, <1>2, <1>3 DEF SessionsOK

LEMMA TakeHome ==
    ASSUME CallsOK, SessionsOK, AtHome, NEW c \in Callers, call[c].stage \notin {"idle", "running"},
           Head(call[c].todo).kind # "invalid",
           NEW p \in Pools, p = PoolOf(call[c].op), SomeSession(p), Take(c, p),
           history' = history, late' = late
    PROVE  SessionsOK' /\ AtHome' /\ told' = told /\ \A d \in Callers : Kept(d)
<1>1. PICK s : /\ Run(c, p, s) /\ s \notin Held(p) /\ s \in DOMAIN sessions'[p]
               /\ DOMAIN sessions' = Pools
               /\ \A q \in Pools : \A x \in DOMAIN sessions'[q] :
                      sessions'[q][x] = Home \/ (x \in DOMAIN sessions[q] /\ sessions'[q][x] = sessions[q][x])
               /\ \A q \in Pools : DOMAIN sessions[q] \subseteq DOMAIN sessions'[q]
  <2>1. CASE IdleSessions(p) # {}
    <3>1. PICK s \in IdleSessions(p) : Run(c, p, s)
      BY <2>1 DEF Take
    <3>2. sessions' = sessions
      BY <2>1 DEF Take
    <3> QED BY <3>1, <3>2 DEF IdleSessions, SessionsOK
  <2>2. CASE IdleSessions(p) = {}
    <3> DEFINE T == Unopened(p)
    <3>1. T \in SUBSET Nat /\ T # {} /\ T \cap DOMAIN sessions[p] = {}
      BY <2>2 DEF SomeSession, Unopened
    <3> HIDE DEF T
    <3>2. PICK n \in T : \A m \in T : n <= m
      BY <3>1, Least
    <3>3. PICK s : s = CHOOSE k \in T : \A m \in T : k <= m
      OBVIOUS
    <3>4. s \in T
      BY <3>2, <3>3
    <3>5. Run(c, p, s) /\ sessions' = [sessions EXCEPT ![p] = With(@, s, Home)]
      BY <2>2, <3>3 DEF Take, T
    <3>6. PICK new : new = With(sessions[p], s, Home)
      OBVIOUS
    <3>7. /\ DOMAIN new = DOMAIN sessions[p] \cup {s}
          /\ \A x \in DOMAIN new : new[x] = Home \/ (x \in DOMAIN sessions[p] /\ new[x] = sessions[p][x])
      BY <3>6 DEF With
    <3>8. sessions' = [sessions EXCEPT ![p] = new]
      BY <3>5, <3>6
    <3>9. s \notin Held(p)
      <4>1. s \notin DOMAIN sessions[p]
        BY <3>1, <3>4
      <4> QED BY <4>1 DEF Held, SessionsOK
    <3>10. DOMAIN sessions' = Pools /\ sessions'[p] = new /\ \A q \in Pools \ {p} : sessions'[q] = sessions[q]
      BY <3>8 DEF SessionsOK
    <3> QED BY <3>5, <3>7, <3>9, <3>10
  <2> QED BY <2>1, <2>2
<1>2. PICK r : r = [call[c] EXCEPT !.stage = "running", !.session = s]
  OBVIOUS
<1>3. Live(c, call[c])
  BY DEF CallsOK
<1>4. call' = [call EXCEPT ![c] = r] /\ told' = told
  BY <1>1, <1>2 DEF Run
<1>5. r.stage = "running" /\ r.session = s /\ r.op = call[c].op /\ r.todo = call[c].todo
  BY <1>2, <1>3 DEF Live, CallFields
<1>6. call'[c] = r /\ \A d \in Callers \ {c} : call'[d] = call[d]
  BY <1>4 DEF CallsOK
<1>7. SessionsOK'
  <2>1. ASSUME NEW d \in Callers \ {c}, call[d].stage = "running", PoolOf(call[d].op) = p
        PROVE  call[d].session # s
    BY <1>1, <2>1 DEF Held
  <2>2. ASSUME NEW d \in Callers, call'[d].stage = "running"
        PROVE  call'[d].session \in DOMAIN sessions'[PoolOf(call'[d].op)]
    <3>0. PoolOf(call[d].op) \in Pools
      BY DEF PoolOf, Pools
    <3>1. CASE d = c
      BY <1>1, <1>5, <1>6, <3>1
    <3>2. CASE d # c
      BY <1>1, <1>6, <2>2, <3>0, <3>2 DEF SessionsOK
    <3> QED BY <3>1, <3>2
  <2>3. ASSUME NEW d \in Callers, NEW e \in Callers, call'[d].stage = "running", call'[e].stage = "running",
               PoolOf(call'[d].op) = PoolOf(call'[e].op), call'[d].session = call'[e].session, d # e
        PROVE  FALSE
    <3>1. CASE d = c
      BY <1>5, <1>6, <2>1, <2>3, <3>1
    <3>2. CASE e = c
      BY <1>5, <1>6, <2>1, <2>3, <3>2
    <3>3. CASE d # c /\ e # c
      BY <1>6, <2>3, <3>3 DEF SessionsOK
    <3> QED BY <3>1, <3>2, <3>3
  <2>4. ASSUME NEW d \in Callers, call'[d].stage \in {"queued", "running"}
        PROVE  Head(call'[d].todo).kind # "invalid"
    BY <1>5, <1>6, <2>4 DEF SessionsOK
  <2> QED BY <1>1, <2>2, <2>3, <2>4 DEF SessionsOK
<1>8. AtHome'
  BY <1>1 DEF AtHome
<1>9. \A d \in Callers : Kept(d)
  BY <1>5, <1>6 DEF Kept
<1> QED BY <1>4, <1>7, <1>8, <1>9

LEMMA ForgetsNothing ==
    ASSUME NEW h, DOMAIN h = HistoryFields, NEW c
    PROVE  Mislead(h, c).roamed = h.roamed /\ Mislead(h, c).dropped = h.dropped
BY DEF Mislead, HistoryFields

\* A caller whose statement failed, or was never sent.
LEMMA FailHome ==
    ASSUME CallsOK, ToldOK, SessionsOK, AtHome, NEW c \in Callers, call[c].stage # "idle",
           Advance(c, FALSE), call'[c].stage \notin {"queued", "running"}, \A d \in Callers \ {c} : call'[d] = call[d],
           server' = server, history'.roamed = history.roamed, history'.dropped = history.dropped,
           sessions' = sessions, late' = late, left' = left
    PROVE  Fails(c) /\ SessionsOK' /\ AtHome'
<1>1. SessionsOK'
  BY SessionsLeft DEF SessionsOK
<1>2. AtHome'
  BY DEF AtHome
<1>3. Fails(c)
  <2>1. PICK l : l = [db |-> Home, st |-> Head(call[c].todo)]
    OBVIOUS
  <2>2. l.st = Head(call[c].todo) /\ l.db = Home
    BY <2>1
  <2> QED BY <2>2 DEF Fails, Unaffected
<1> QED BY <1>1, <1>2, <1>3

LEMMA Effects ==
    ASSUME HistoryOK, NEW c, NEW db, NEW st, NEW remembered,
           Accepts(server, db, st), server' = After(server, db, st),
           remembered = Remember(c, db, st, server, server'),
           history'.roamed = remembered.roamed, history'.dropped = remembered.dropped
    PROVE  Effect(db, st)
<1>1. remembered.roamed = (\/ history.roamed \/ (st.kind = "use" /\ st.db # Home)
                           \/ (st.kind = "drop database" /\ st.db = Home))
  BY DEF Remember, HistoryOK, HistoryFields
<1>2. remembered.dropped = history.dropped \cup
                             (IF st.kind \in {"drop table", "drop index"} THEN {st.table} ELSE {})
  BY DEF Remember, HistoryOK, HistoryFields
<1> QED BY <1>1, <1>2 DEF Effect

LEMMA AskHome ==
    ASSUME HInv, NEW c \in Callers, Ask(c)
    PROVE  Shape /\ SessionsOK' /\ AtHome'
<1>1. PICK p, st : p = PoolOf(call[c].op) /\ st = Head(call[c].todo)
  OBVIOUS
<1>2. call[c].stage = "ready" /\ UNCHANGED <<server, left, late, breaks>> /\ p \in Pools
  BY <1>1 DEF Ask, PoolOf, Pools
<1>3. HistoryOK /\ CallsOK /\ ToldOK /\ SessionsOK /\ AtHome /\ Live(c, call[c])
  BY <1>2 DEF HInv, IInv, CallsOK
<1>4. CASE Finish(c, call[c].got, FALSE) /\ UNCHANGED <<sessions, waiting, history>>
  <2>1. PICK answer : answer = Returned(call[c].op, call[c].got, FALSE)
    OBVIOUS
  <2>2. call' = [call EXCEPT ![c] = Idle] /\ told' = [told EXCEPT ![c] = Append(@, answer)]
    BY <1>4, <2>1 DEF Finish
  <2>3. answer.op = call[c].op /\ (call[c].op.kind \in Steady => answer.ok = FALSE)
    BY <2>1 DEF Returned, Steady
  <2>4. call'[c] = Idle /\ Idle.stage = "idle" /\ \A d \in Callers \ {c} : call'[d] = call[d]
    BY <1>3, <2>2 DEF CallsOK, Idle
  <2>5. Advance(c, FALSE)
    BY <1>2, <2>2, <2>3, <2>4 DEF Advance, Kept
  <2> QED BY <1>2, <1>3, <1>4, <2>4, <2>5, FailHome DEF Shape
<1>5. CASE st.kind # "invalid" /\ SomeSession(p) /\ Take(c, p) /\ UNCHANGED <<waiting, history>>
  <2>1. SessionsOK' /\ AtHome' /\ told' = told /\ \A d \in Callers : Kept(d)
    BY <1>1, <1>2, <1>3, <1>5, TakeHome
  <2> QED BY <1>2, <1>5, <2>1 DEF Shape, Rests, Unaffected
<1>6. CASE /\ st.kind # "invalid" /\ call' = [call EXCEPT ![c].stage = "queued"]
           /\ UNCHANGED <<sessions, told, history>>
  <2>1. PICK r : r = [call[c] EXCEPT !.stage = "queued"]
    OBVIOUS
  <2>2. call'[c] = r /\ \A d \in Callers \ {c} : call'[d] = call[d]
    BY <1>3, <1>6, <2>1 DEF CallsOK
  <2>3. r.stage = "queued" /\ r.op = call[c].op /\ r.todo = call[c].todo
    BY <1>3, <2>1 DEF Live, CallFields
  <2>4. SessionsOK'
    BY <1>1, <1>3, <1>6, <2>2, <2>3, SessionsLeft DEF SessionsOK
  <2>5. AtHome'
    BY <1>2, <1>3, <1>6 DEF AtHome
  <2>6. \A d \in Callers : Kept(d)
    BY <1>2, <2>2, <2>3 DEF Kept
  <2> QED BY <1>2, <1>6, <2>4, <2>5, <2>6 DEF Shape, Rests, Unaffected
<1>7. CASE GoOn(c, FALSE, <<>>) /\ history' = Mislead(history, c) /\ UNCHANGED <<sessions, waiting>>
  <2>1. /\ Advance(c, FALSE) /\ call'[c].stage \notin {"queued", "running"}
        /\ \A d \in Callers \ {c} : call'[d] = call[d]
    BY <1>2, <1>3, <1>7, AdvanceStep
  <2>2. history'.roamed = history.roamed /\ history'.dropped = history.dropped
    BY <1>3, <1>7, ForgetsNothing DEF HistoryOK
  <2> QED BY <1>2, <1>3, <1>7, <2>1, <2>2, FailHome DEF Shape
<1> QED BY <1>1, <1>4, <1>5, <1>6, <1>7 DEF Ask

LEMMA HandOverHome ==
    ASSUME HInv, NEW p \in Pools, HandOver(p)
    PROVE  Shape /\ SessionsOK' /\ AtHome'
<1>1. PICK c : c = Head(waiting[p])
  OBVIOUS
<1>2. /\ waiting[p] # <<>> /\ SomeSession(p) /\ Take(c, p)
      /\ UNCHANGED <<server, left, late, breaks, history>>
  BY <1>1 DEF HandOver, HandOverDue
<1>3. /\ c \in Callers /\ call[c].stage = "queued" /\ PoolOf(call[c].op) = p
      /\ Head(call[c].todo).kind # "invalid"
  <2>1. waiting[p] \in Seq(Callers) /\ 1 \in DOMAIN waiting[p] /\ c = waiting[p][1]
    BY <1>1, <1>2 DEF HInv, IInv, QueueOK
  <2> QED BY <2>1 DEF HInv, IInv, QueueOK, SessionsOK
<1>4. SessionsOK' /\ AtHome' /\ told' = told /\ \A d \in Callers : Kept(d)
  BY <1>2, <1>3, TakeHome DEF HInv, IInv
<1> QED BY <1>2, <1>4 DEF Shape, Rests, Unaffected

LEMMA BreakHome ==
    ASSUME HInv, NEW c \in Callers, Break(c)
    PROVE  Shape /\ SessionsOK' /\ AtHome'
<1>1. PICK p, s, l : /\ p = PoolOf(call[c].op) /\ s = call[c].session
                     /\ l = [by |-> c, db |-> sessions[p][s], st |-> Head(call[c].todo)]
  OBVIOUS
<1>2. /\ call[c].stage = "running" /\ GoOn(c, FALSE, <<>>) /\ history' = Mislead(history, c)
      /\ late' = late \cup {l} /\ UNCHANGED <<server, waiting, left>>
      /\ sessions' = [sessions EXCEPT ![p] = Restrict(@, DOMAIN @ \ {s})]
  BY <1>1 DEF Break
<1>3. HistoryOK /\ CallsOK /\ ToldOK /\ SessionsOK /\ AtHome /\ p \in Pools
  BY <1>1 DEF HInv, IInv, PoolOf, Pools
<1>4. /\ Advance(c, FALSE) /\ call'[c].stage \notin {"queued", "running"}
      /\ \A d \in Callers \ {c} : call'[d] = call[d]
  BY <1>2, <1>3, AdvanceStep
<1>5. history'.roamed = history.roamed /\ history'.dropped = history.dropped
  BY <1>2, <1>3, ForgetsNothing DEF HistoryOK
<1>6. PICK rest : rest = Restrict(sessions[p], DOMAIN sessions[p] \ {s})
  OBVIOUS
<1>7. DOMAIN rest = DOMAIN sessions[p] \ {s} /\ \A x \in DOMAIN rest : rest[x] = sessions[p][x]
  BY <1>6 DEF Restrict
<1>8. /\ DOMAIN sessions' = Pools /\ sessions'[p] = rest
      /\ \A q \in Pools \ {p} : sessions'[q] = sessions[q]
  BY <1>2, <1>3, <1>6 DEF SessionsOK
<1>9. SessionsOK'
  <2>1. ASSUME NEW q \in Pools, NEW x \in DOMAIN sessions[q]
        PROVE  \/ x \in DOMAIN sessions'[q]
               \/ call[c].stage = "running" /\ q = PoolOf(call[c].op) /\ x = call[c].session
    BY <1>1, <1>2, <1>7, <1>8, <2>1
  <2> QED BY <1>3, <1>4, <1>8, <2>1, SessionsLeft
<1>10. s \in DOMAIN sessions[p]
  BY <1>1, <1>2, <1>3 DEF SessionsOK
<1>11. l.db = sessions[p][s] /\ l.st = Head(call[c].todo)
  BY <1>1
<1>12. ~history.roamed => l.db = Home
  BY <1>3, <1>10, <1>11 DEF AtHome
<1>13. AtHome'
  BY <1>2, <1>3, <1>5, <1>7, <1>8, <1>12 DEF AtHome
<1>14. Fails(c)
  BY <1>2, <1>4, <1>5, <1>11, <1>12 DEF Fails, Unaffected
<1> QED BY <1>9, <1>13, <1>14 DEF Shape

LEMMA ReplyHome ==
    ASSUME HInv, NEW c \in Callers, Reply(c)
    PROVE  Shape /\ SessionsOK' /\ AtHome'
<1>1. PICK p, s, db, st : /\ p = PoolOf(call[c].op) /\ s = call[c].session
                          /\ db = sessions[p][s] /\ st = Head(call[c].todo)
  OBVIOUS
<1>2. PICK ok, value, remembered :
          /\ ok = Accepts(server, db, st)
          /\ remembered = IF ok THEN Remember(c, db, st, server, server') ELSE history
          /\ server' = IF ok THEN After(server, db, st) ELSE server
          /\ GoOn(c, ok, value)
          /\ history' = remembered \/ history' = Mislead(remembered, c)
          /\ sessions' = [sessions EXCEPT ![p][s] = SessionAfter(server, db, st)]
  BY <1>1 DEF Reply
<1>3. call[c].stage = "running" /\ UNCHANGED <<waiting, left, late, breaks>>
  BY DEF Reply
<1>4. HistoryOK /\ CallsOK /\ ToldOK /\ SessionsOK /\ AtHome /\ p \in Pools
  BY <1>1 DEF HInv, IInv, PoolOf, Pools
<1>5. DOMAIN remembered = HistoryFields
  BY <1>2, <1>4 DEF Remember, HistoryOK
<1>6. history'.roamed = remembered.roamed /\ history'.dropped = remembered.dropped
  BY <1>2, <1>5, ForgetsNothing
<1>7. s \in DOMAIN sessions[p] /\ (~history.roamed => db = Home)
  BY <1>1, <1>3, <1>4 DEF SessionsOK, AtHome
<1>8. /\ DOMAIN sessions' = Pools /\ \A q \in Pools : DOMAIN sessions'[q] = DOMAIN sessions[q]
      /\ \A q \in Pools : \A x \in DOMAIN sessions[q] :
             sessions'[q][x] = IF q = p /\ x = s THEN SessionAfter(server, db, st) ELSE sessions[q][x]
  BY <1>2, <1>4, <1>7 DEF SessionsOK
<1>9. CASE ok
  <2>0. GoOn(c, TRUE, value)
    BY <1>2, <1>9
  <2>1. /\ Advance(c, TRUE) /\ call'[c].stage \notin {"queued", "running"}
        /\ \A d \in Callers \ {c} : call'[d] = call[d]
    BY <1>3, <1>4, <2>0, AdvanceStep
  <2>2. Effect(db, st)
    BY <1>2, <1>4, <1>6, <1>9, Effects
  <2>3. AtHome'
    <3>1. ASSUME ~history'.roamed PROVE ~history.roamed /\ SessionAfter(server, db, st) = Home
      BY <1>7, <2>2, <3>1 DEF Effect, SessionAfter
    <3> QED BY <1>3, <1>4, <1>8, <3>1 DEF AtHome
  <2>4. SessionsOK'
    BY <1>4, <1>8, <2>1, SessionsLeft
  <2>5. Replies(c)
    <3>1. Head(call[c].todo).kind # "invalid"
      BY <1>3, <1>4 DEF SessionsOK
    <3> QED BY <1>1, <1>3, <1>7, <2>1, <2>2, <3>1 DEF Replies
  <2> QED BY <2>3, <2>4, <2>5 DEF Shape
<1>10. CASE ~ok
  <2>0. GoOn(c, FALSE, value)
    <3>1. ok = FALSE
      BY <1>2, <1>10
    <3> QED BY <1>2, <3>1
  <2>1. /\ Advance(c, FALSE) /\ call'[c].stage \notin {"queued", "running"}
        /\ \A d \in Callers \ {c} : call'[d] = call[d]
    BY <1>3, <1>4, <2>0, AdvanceStep
  <2>2. server' = server /\ history'.roamed = history.roamed /\ history'.dropped = history.dropped
    BY <1>2, <1>6, <1>10
  <2>3. SessionsOK'
    BY <1>4, <1>8, <2>1, SessionsLeft
  <2>4. AtHome'
    <3>1. SessionAfter(server, db, st) = db
      BY <1>2, <1>10 DEF SessionAfter
    <3> QED BY <1>3, <1>4, <1>7, <1>8, <2>2, <3>1 DEF AtHome
  <2>5. Fails(c)
    <3>1. PICK l : l = [db |-> Home, st |-> Head(call[c].todo)]
      OBVIOUS
    <3>2. l.st = Head(call[c].todo) /\ l.db = Home
      BY <3>1
    <3> QED BY <1>3, <2>1, <2>2, <3>2 DEF Fails, Unaffected
  <2> QED BY <2>3, <2>4, <2>5 DEF Shape
<1> QED BY <1>9, <1>10

LEMMA CallHome ==
    ASSUME HInv, NEW c \in Callers, Call(c)
    PROVE  Shape /\ SessionsOK' /\ AtHome'
<1>1. PICK op : op = Head(left[c])
  OBVIOUS
<1>2. /\ call[c].stage = "idle" /\ left[c] # <<>> /\ left' = [left EXCEPT ![c] = Tail(@)]
      /\ UNCHANGED <<server, sessions, waiting, late, breaks>>
  BY DEF Call
<1>3. HistoryOK /\ CallsOK /\ ToldOK /\ SessionsOK /\ AtHome
  BY DEF HInv, IInv
<1>4. /\ history'.roamed = history.roamed /\ history'.dropped = history.dropped
      /\ call'[c].stage \notin {"queued", "running"} /\ \A d \in Callers \ {c} : call'[d] = call[d]
      /\ \/ op.kind = "purgeArchived" /\ call'[c].stage = "idle" /\ told' = told
         \/ /\ call'[c].stage = "idle" /\ Statements(op) = <<>>
            /\ \E answer : told' = [told EXCEPT ![c] = Append(@, answer)] /\ answer.op = op
         \/ /\ call'[c].stage # "idle" /\ call'[c].op = op
            /\ call'[c].todo = Statements(op) /\ Statements(op) # <<>> /\ told' = told
  <2>1. CASE ~Calls(c, op)
    <3>1. call' = call /\ told' = told /\ history' = history
      BY <1>1, <2>1 DEF Call
    <3>2. op.kind = "purgeArchived"
      BY <2>1 DEF Calls
    <3> QED BY <1>2, <3>1, <3>2
  <2>2. CASE Calls(c, op) /\ Statements(op) = <<>>
    <3>1. PICK answer : answer = Returned(op, <<>>, TRUE)
      OBVIOUS
    <3>2. told' = [told EXCEPT ![c] = Append(@, answer)] /\ call' = call /\ history' = history
      BY <1>1, <2>2, <3>1 DEF Call
    <3>3. answer.op = op
      BY <3>1 DEF Returned
    <3> QED BY <1>2, <2>2, <3>2, <3>3
  <2>3. CASE Calls(c, op) /\ Statements(op) # <<>>
    <3>1. PICK r : r = [stage |-> "ready", op |-> op, todo |-> Statements(op),
                        got |-> <<>>, session |-> NoSession]
      OBVIOUS
    <3>2. /\ call' = [call EXCEPT ![c] = r] /\ told' = told
          /\ history' = IF op.kind = "validate"
                        THEN [history EXCEPT !.seen[c] = {Shapes(server, op.db)}, !.misled[c] = FALSE]
                        ELSE history
      BY <1>1, <2>3, <3>1 DEF Call
    <3>3. history'.roamed = history.roamed /\ history'.dropped = history.dropped
      BY <1>3, <3>2 DEF HistoryOK, HistoryFields
    <3>4. r.stage = "ready" /\ r.op = op /\ r.todo = Statements(op)
      BY <3>1
    <3>5. call'[c] = r /\ \A d \in Callers \ {c} : call'[d] = call[d]
      BY <1>3, <3>2 DEF CallsOK
    <3> QED BY <2>3, <3>2, <3>3, <3>4, <3>5
  <2> QED BY <2>1, <2>2, <2>3
<1>5. SessionsOK'
  BY <1>2, <1>3, <1>4, SessionsLeft DEF SessionsOK
<1>6. AtHome'
  BY <1>2, <1>3, <1>4 DEF AtHome
<1>7. Begins(c)
  BY <1>1, <1>2, <1>4 DEF Begins, Unaffected, Kept
<1> QED BY <1>5, <1>6, <1>7 DEF Shape

LEMMA LateHome ==
    ASSUME HInv, LateEffect
    PROVE  Shape /\ SessionsOK' /\ AtHome'
<1>1. PICK l \in late : /\ late' = late \ {l} /\ Accepts(server, l.db, l.st)
                        /\ server' = After(server, l.db, l.st)
                        /\ history' = Remember(l.by, l.db, l.st, server, server')
  BY DEF LateEffect
<1>2. UNCHANGED <<sessions, waiting, call, left, told, breaks>>
  BY DEF LateEffect
<1>3. Effect(l.db, l.st)
  BY <1>1, Effects DEF HInv, IInv
<1>4. SessionsOK'
  BY <1>2 DEF HInv, SessionsOK
<1>5. AtHome'
  BY <1>1, <1>2, <1>3 DEF HInv, AtHome, Effect
<1>6. Lates
  BY <1>1, <1>2, <1>3 DEF Lates, Kept, HInv, AtHome
<1> QED BY <1>4, <1>5, <1>6 DEF Shape

\* Every step has a shape, and keeps the sessions at home.
LEMMA ShapeStep == ASSUME HInv, [Next]_vars PROVE Shape /\ HInv'
<1>1. IInv'
  BY NextStep DEF HInv
<1>2. ASSUME NEW c \in Callers, Call(c) \/ Ask(c) \/ Reply(c) \/ Break(c)
      PROVE  Shape /\ SessionsOK' /\ AtHome'
  BY <1>2, CallHome, AskHome, ReplyHome, BreakHome
<1>3. ASSUME NEW p \in Pools, HandOver(p) PROVE Shape /\ SessionsOK' /\ AtHome'
  BY <1>3, HandOverHome
<1>4. CASE LateEffect
  BY <1>1, <1>4, LateHome DEF HInv
<1>5. CASE Tick \/ UNCHANGED vars
  <2>1. /\ UNCHANGED <<sessions, call, told, left, late, history>>
        /\ server'.tables = server.tables /\ server'.labels = server.labels
    <3>1. CASE Tick
      <4>1. DOMAIN server = ServerFields /\ server' = [server EXCEPT !.now = @ + 1]
        BY <3>1 DEF Tick, HInv, IInv, ServerOK
      <4> QED BY <3>1, <4>1 DEF Tick, ServerFields
    <3>2. CASE UNCHANGED vars
      BY <3>2 DEF vars
    <3> QED BY <1>5, <3>1, <3>2
  <2>2. SessionsOK' /\ AtHome'
    BY <2>1 DEF HInv, SessionsOK, AtHome
  <2>3. Rests
    BY <2>1 DEF Rests, Unaffected, Kept
  <2> QED BY <1>1, <2>2, <2>3 DEF Shape, HInv
<1> QED BY <1>1, <1>2, <1>3, <1>4, <1>5 DEF Next, HInv

LEMMA HomeInit == ASSUME Init PROVE HInv
<1>1. IInv
  BY InitStep
<1>2. SessionsOK
  BY DEF Init, SessionsOK, Idle
<1>3. AtHome
  <2>1. PICK none : none = <<>>
    OBVIOUS
  <2>2. sessions = [p \in Pools |-> none] /\ DOMAIN none = {}
    BY <2>1 DEF Init
  <2>3. late = {}
    BY DEF Init
  <2> QED BY <2>2, <2>3 DEF AtHome
<1> QED BY <1>1, <1>2, <1>3 DEF HInv

(***************************************************************************)
(* The operations of the callers                                           *)
(***************************************************************************)
Under(c) == IF call[c].stage = "idle" THEN {} ELSE {call[c].op}
Answered(c) == {told[c][i].op : i \in DOMAIN told[c]}
Called == UNION {Answered(c) \cup Under(c) : c \in Callers}

LEMMA SeqAppended ==
    ASSUME NEW S, NEW s, s \in Seq(S), NEW x
    PROVE  /\ DOMAIN Append(s, x) = DOMAIN s \cup {Len(s) + 1}
           /\ Append(s, x)[Len(s) + 1] = x
           /\ \A i \in DOMAIN s : Append(s, x)[i] = s[i]
OBVIOUS

LEMMA SeqSplit ==
    ASSUME NEW S, NEW s, s \in Seq(S), s # <<>>
    PROVE  ToSet(s) = {Head(s)} \cup ToSet(Tail(s))
<1>1. 1 \in DOMAIN s /\ Head(s) = s[1] /\ \A i \in DOMAIN s : i = 1 \/ i - 1 \in DOMAIN Tail(s)
  OBVIOUS
<1>2. \A i \in DOMAIN s : i = 1 \/ s[i] = Tail(s)[i - 1]
  OBVIOUS
<1>3. \A i \in DOMAIN Tail(s) : i + 1 \in DOMAIN s /\ Tail(s)[i] = s[i + 1]
  BY SeqTail
<1> QED BY <1>1, <1>2, <1>3 DEF ToSet

\* One caller has been answered.
LEMMA AnswerMore ==
    ASSUME ToldOK, NEW c \in Callers, NEW answer, told' = [told EXCEPT ![c] = Append(@, answer)]
    PROVE  /\ DOMAIN told' = Callers
           /\ \A d \in Callers \ {c} : told'[d] = told[d]
           /\ \A i \in DOMAIN told'[c] : told'[c][i] = answer
                                         \/ (i \in DOMAIN told[c] /\ told'[c][i] = told[c][i])
           /\ \A i \in DOMAIN told[c] : i \in DOMAIN told'[c] /\ told'[c][i] = told[c][i]
           /\ \E i \in DOMAIN told'[c] : told'[c][i] = answer
<1>1. PICK S : told[c] \in Seq(S)
  BY DEF ToldOK
<1>2. told'[c] = Append(told[c], answer) /\ DOMAIN told' = Callers
      /\ \A d \in Callers \ {c} : told'[d] = told[d]
  BY DEF ToldOK
<1> QED BY <1>1, <1>2, SeqAppended

\* What a step leaves of the operations, and what it calls.
LEMMA OpsStep ==
    ASSUME HInv, Shape
    PROVE  /\ Ops' \subseteq Ops /\ Called \subseteq Called' /\ Called' \subseteq Ops'
           /\ \A op \in Ops : op.kind # "purgeArchived" => op \in Ops'
<1> DEFINE Of(c) == ToSet(left[c]) \cup Answered(c) \cup Under(c)
<1>0. /\ Ops = UNION {Of(c) : c \in Callers}
      /\ Ops' = UNION {Of(c)' : c \in Callers}
      /\ \A c \in Callers : Of(c)' = ToSet(left'[c]) \cup Answered(c)' \cup Under(c)'
  BY DEF Ops, Answered, Under
<1>1. ToldOK /\ LeftOK
  BY DEF HInv, IInv
<1>2. ASSUME \A c \in Callers :
                /\ Of(c)' \subseteq Of(c)
                /\ Answered(c) \cup Under(c) \subseteq Answered(c)' \cup Under(c)'
                /\ \A op \in Of(c) : op.kind # "purgeArchived" => op \in Of(c)'
      PROVE  /\ Ops' \subseteq Ops /\ Called \subseteq Called' /\ Called' \subseteq Ops'
             /\ \A op \in Ops : op.kind # "purgeArchived" => op \in Ops'
  <2> HIDE DEF Of
  <2>1. Ops' \subseteq Ops /\ \A op \in Ops : op.kind # "purgeArchived" => op \in Ops'
    BY <1>0, <1>2
  <2>2. Called \subseteq Called'
    BY <1>2 DEF Called
  <2>3. Called' \subseteq Ops'
    BY <1>0 DEF Called, Of
  <2> QED BY <2>1, <2>2, <2>3
<1>3. ASSUME NEW d \in Callers, Kept(d), told'[d] = told[d], left'[d] = left[d]
      PROVE  Of(d)' = Of(d) /\ Answered(d)' = Answered(d) /\ Under(d)' = Under(d)
  BY <1>0, <1>3 DEF Kept, Answered, Under
<1>4. ASSUME NEW c \in Callers, NEW answer, told' = [told EXCEPT ![c] = Append(@, answer)]
      PROVE  /\ Answered(c)' = Answered(c) \cup {answer.op}
             /\ \A d \in Callers \ {c} : told'[d] = told[d]
  <2>1. \A i \in DOMAIN told'[c] : told'[c][i] = answer
                                   \/ (i \in DOMAIN told[c] /\ told'[c][i] = told[c][i])
    BY <1>1, <1>4, AnswerMore
  <2>2. /\ \A i \in DOMAIN told[c] : i \in DOMAIN told'[c] /\ told'[c][i] = told[c][i]
        /\ \E i \in DOMAIN told'[c] : told'[c][i] = answer
        /\ \A d \in Callers \ {c} : told'[d] = told[d]
    BY <1>1, <1>4, AnswerMore
  <2> QED BY <2>1, <2>2 DEF Answered
<1>5. CASE Rests \/ Lates
  <2>1. \A d \in Callers : Kept(d) /\ told'[d] = told[d] /\ left'[d] = left[d]
    BY <1>5 DEF Rests, Lates
  <2> HIDE DEF Of
  <2> QED BY <1>2, <1>3, <2>1
<1>6. ASSUME NEW c \in Callers, NEW ok, Advance(c, ok), left' = left
      PROVE  \A d \in Callers : Of(d)' = Of(d) /\ Answered(d) \cup Under(d) = Answered(d)' \cup Under(d)'
  <2>1. \A d \in Callers \ {c} : Kept(d) /\ told'[d] = told[d] /\ left'[d] = left[d]
    BY <1>4, <1>6 DEF Advance
  <2>2. Answered(c) \cup Under(c) = Answered(c)' \cup Under(c)'
    <3>1. call[c].stage # "idle" /\ Under(c) = {call[c].op}
      BY <1>6 DEF Advance, Under
    <3>2. CASE told' = told /\ call'[c].stage # "idle" /\ call'[c].op = call[c].op
      BY <3>1, <3>2 DEF Answered, Under
    <3>3. CASE /\ call'[c].stage = "idle"
               /\ \E answer : /\ told' = [told EXCEPT ![c] = Append(@, answer)] /\ answer.op = call[c].op
      <4>1. Answered(c)' = Answered(c) \cup {call[c].op}
        <5>1. PICK answer : told' = [told EXCEPT ![c] = Append(@, answer)] /\ answer.op = call[c].op
          BY <3>3
        <5>2. Answered(c)' = Answered(c) \cup {answer.op}
          BY <1>4, <5>1, Zenon
        <5> QED BY <5>1, <5>2
      <4>2. Under(c)' = {}
        BY <3>3 DEF Under
      <4> QED BY <3>1, <4>1, <4>2
    <3> QED BY <1>6, <3>2, <3>3 DEF Advance
  <2>3. Of(c)' = Of(c)
    BY <1>0, <1>6, <2>2
  <2> HIDE DEF Of
  <2>4. ASSUME NEW d \in Callers
        PROVE  Of(d)' = Of(d) /\ Answered(d) \cup Under(d) = Answered(d)' \cup Under(d)'
    BY <1>3, <2>1, <2>2, <2>3
  <2> QED BY <2>4
<1>7. ASSUME NEW c \in Callers, Fails(c) \/ Replies(c)
      PROVE  /\ Ops' \subseteq Ops /\ Called \subseteq Called' /\ Called' \subseteq Ops'
             /\ \A op \in Ops : op.kind # "purgeArchived" => op \in Ops'
  <2>1. \A d \in Callers : Of(d)' = Of(d) /\ Answered(d) \cup Under(d) = Answered(d)' \cup Under(d)'
    BY <1>6, <1>7 DEF Fails, Replies
  <2> HIDE DEF Of
  <2> QED BY <1>2, <2>1
<1>8. ASSUME NEW c \in Callers, Begins(c)
      PROVE  /\ Ops' \subseteq Ops /\ Called \subseteq Called' /\ Called' \subseteq Ops'
             /\ \A op \in Ops : op.kind # "purgeArchived" => op \in Ops'
  <2>0. PICK op : op = Head(left[c])
    OBVIOUS
  <2>1. /\ call[c].stage = "idle" /\ left[c] # <<>> /\ left' = [left EXCEPT ![c] = Tail(@)]
        /\ \A d \in Callers \ {c} : Kept(d)
    BY <1>8 DEF Begins
  <2>2. PICK S : left[c] \in Seq(S)
    BY <1>1 DEF LeftOK
  <2>3. left'[c] = Tail(left[c]) /\ \A d \in Callers \ {c} : left'[d] = left[d]
    BY <1>1, <2>1 DEF LeftOK
  <2>4. ToSet(left[c]) = {op} \cup ToSet(left'[c])
    BY <2>0, <2>1, <2>2, <2>3, SeqSplit
  <2>5. Under(c) = {}
    BY <2>1 DEF Under
  <2>6. /\ \A d \in Callers \ {c} : told'[d] = told[d]
        /\ \/ op.kind = "purgeArchived" /\ Answered(c)' = Answered(c) /\ Under(c)' = {}
           \/ Answered(c)' = Answered(c) \cup {op} /\ Under(c)' = {}
           \/ Answered(c)' = Answered(c) /\ Under(c)' = {op}
    <3>1. CASE op.kind = "purgeArchived" /\ call'[c].stage = "idle" /\ told' = told
      BY <3>1 DEF Answered, Under
    <3>2. CASE /\ call'[c].stage = "idle"
               /\ \E answer : told' = [told EXCEPT ![c] = Append(@, answer)] /\ answer.op = op
      <4>1. Answered(c)' = Answered(c) \cup {op} /\ \A d \in Callers \ {c} : told'[d] = told[d]
        BY <1>4, <3>2
      <4> QED BY <3>2, <4>1 DEF Under
    <3>3. CASE call'[c].stage # "idle" /\ call'[c].op = op /\ told' = told
      BY <3>3 DEF Answered, Under
    <3> QED BY <1>8, <2>0, <3>1, <3>2, <3>3 DEF Begins
  <2>7. /\ Of(c)' \subseteq Of(c)
        /\ Answered(c) \cup Under(c) \subseteq Answered(c)' \cup Under(c)'
        /\ \A o \in Of(c) : o.kind # "purgeArchived" => o \in Of(c)'
    BY <1>0, <2>4, <2>5, <2>6
  <2>8. \A d \in Callers \ {c} : Of(d)' = Of(d) /\ Answered(d) \cup Under(d) = Answered(d)' \cup Under(d)'
    BY <1>3, <2>1, <2>3, <2>6
  <2> HIDE DEF Of
  <2> QED BY <1>2, <2>7, <2>8
<1> QED BY <1>5, <1>7, <1>8 DEF Shape

(***************************************************************************)
(* Statements and the operations they are of                               *)
(***************************************************************************)
\* The last elements of a sequence, after the first k.
From(s, k) == [i \in 1..(Len(s) - k) |-> s[k + i]]

LEMMA SeqLen ==
    ASSUME NEW n \in Nat, NEW s, s = [i \in 1..n |-> s[i]]
    PROVE  s \in Seq({s[i] : i \in 1..n}) /\ Len(s) = n
OBVIOUS

LEMMA SeqTailIs ==
    ASSUME NEW S, NEW s, s \in Seq(S), s # <<>>
    PROVE  Tail(s) = [i \in 1..(Len(s) - 1) |-> s[i + 1]] /\ Head(s) = s[1]
<1>1. PICK t : t = Tail(s)
  OBVIOUS
<1>2. t \in Seq(S) /\ Len(t) = Len(s) - 1 /\ \A i \in 1..Len(t) : t[i] = s[i + 1]
  BY <1>1
<1>3. t = [i \in 1..Len(t) |-> t[i]]
  BY <1>2
<1>4. Head(s) = s[1]
  OBVIOUS
<1> QED BY <1>1, <1>2, <1>3, <1>4

LEMMA SeqEmpty == ASSUME NEW S, NEW s, s \in Seq(S) PROVE (s = <<>>) <=> (Len(s) = 0)
<1>1. ASSUME s # <<>> PROVE Len(s) # 0
  BY <1>1
<1>2. ASSUME s = <<>> PROVE Len(s) = 0
  BY <1>2
<1> QED BY <1>1, <1>2

LEMMA SeqFrom ==
    ASSUME NEW S, NEW s, s \in Seq(S), NEW k \in Nat, k <= Len(s)
    PROVE  /\ \E T : From(s, k) \in Seq(T)
           /\ Len(From(s, k)) = Len(s) - k /\ DOMAIN From(s, k) = 1..(Len(s) - k)
           /\ \A i \in DOMAIN From(s, k) : k + i \in DOMAIN s /\ From(s, k)[i] = s[k + i]
<1>1. PICK n : n = Len(s) - k
  OBVIOUS
<1>2. n \in Nat /\ Len(s) \in Nat /\ DOMAIN s = 1..Len(s)
  BY <1>1
<1>3. PICK t : t = From(s, k)
  OBVIOUS
<1>4. t = [i \in 1..n |-> s[k + i]]
  BY <1>1, <1>3 DEF From
<1>5. t = [i \in 1..n |-> t[i]] /\ DOMAIN t = 1..n /\ \A i \in 1..n : t[i] = s[k + i]
  BY <1>4
<1>6. t \in Seq({t[i] : i \in 1..n}) /\ Len(t) = n
  BY <1>2, <1>5, SeqLen
<1>7. \A i \in 1..n : k + i \in DOMAIN s
  BY <1>1, <1>2
<1> QED BY <1>1, <1>3, <1>5, <1>6, <1>7

LEMMA SeqAfter ==
    ASSUME NEW S, NEW s, s \in Seq(S), NEW k \in Nat, k < Len(s)
    PROVE  /\ From(s, 0) = s
           /\ From(s, k) # <<>> /\ Head(From(s, k)) = s[k + 1] /\ k + 1 \in DOMAIN s
           /\ Tail(From(s, k)) = From(s, k + 1)
           /\ From(s, k + 1) = <<>> <=> k + 1 = Len(s)
<1>0. Len(s) \in Nat /\ DOMAIN s = 1..Len(s) /\ s = [i \in 1..Len(s) |-> s[i]]
  OBVIOUS
<1>1. From(s, 0) = s
  BY <1>0 DEF From
<1>2. PICK t, u : t = From(s, k) /\ u = From(s, k + 1)
  OBVIOUS
<1>3. PICK T : t \in Seq(T)
  BY <1>0, <1>2, SeqFrom
<1>4. /\ Len(t) = Len(s) - k /\ DOMAIN t = 1..(Len(s) - k)
      /\ \A i \in DOMAIN t : k + i \in DOMAIN s /\ t[i] = s[k + i]
  BY <1>0, <1>2, SeqFrom
<1>5. PICK U : u \in Seq(U) /\ Len(u) = Len(s) - (k + 1)
  BY <1>0, <1>2, SeqFrom
<1>6. t # <<>>
  BY <1>0, <1>3, <1>4, SeqEmpty
<1>7. Head(t) = t[1] /\ Tail(t) = [i \in 1..(Len(t) - 1) |-> t[i + 1]]
  BY <1>3, <1>6, SeqTailIs
<1>8. 1 \in DOMAIN t /\ k + 1 \in DOMAIN s
  BY <1>0, <1>4
<1>9. Tail(t) = u
  <2>1. Len(t) - 1 = Len(s) - (k + 1)
    BY <1>0, <1>4
  <2>2. \A i \in 1..(Len(s) - (k + 1)) : t[i + 1] = s[k + 1 + i]
    BY <1>0, <1>4
  <2>3. u = [i \in 1..(Len(s) - (k + 1)) |-> s[k + 1 + i]]
    BY <1>2 DEF From
  <2> QED BY <1>7, <2>1, <2>2, <2>3
<1>10. u = <<>> <=> k + 1 = Len(s)
  BY <1>0, <1>5, SeqEmpty
<1> QED BY <1>1, <1>2, <1>4, <1>6, <1>7, <1>8, <1>9, <1>10

Stems(st, op) == (\E j \in DOMAIN Statements(op) : st = Statements(op)[j]) \/ st.kind \in Listing
\* An operation has k of its statements behind it.
Placed(r, k) == k \in Nat /\ k < Len(Statements(r.op)) /\ r.todo = From(Statements(r.op), k)

WorkOK ==
    /\ Ops \subseteq Given
    /\ \A c \in Callers : call[c].stage # "idle" =>
          /\ \A i \in DOMAIN call[c].todo : Stems(call[c].todo[i], call[c].op)
          /\ call[c].op.kind \in Steady => \E k : Placed(call[c], k)
    /\ \A l \in late : \E op \in Called : Stems(l.st, op)

LEMMA GivenWell == \A op \in Given : WellFormed(op)
BY OperationsAssumption DEF Given

LEMMA SteadySeq ==
    ASSUME NEW op \in Given, op.kind \in Steady
    PROVE  \E S : Statements(op) \in Seq(S)
BY GivenWell, StatementsLawful DEF Steady

\* c goes on to its next statement, or is told of its last.
Goes(c, op, k, ok) ==
    \/ ok /\ call'[c].stage # "idle" /\ call'[c].op = op /\ told' = told /\ Placed(call'[c], k + 1)
    \/ /\ call'[c].stage = "idle"
       /\ \E answer : /\ told' = [told EXCEPT ![c] = Append(@, answer)]
                      /\ answer.op = op /\ answer.ok = ok
                      /\ ok => k + 1 = Len(Statements(op))

LEMMA PlacedAdvance ==
    ASSUME NEW c \in Callers, NEW ok, Advance(c, ok), NEW op \in Given, op = call[c].op,
           op.kind \in Steady, NEW k, Placed(call[c], k)
    PROVE  /\ k + 1 \in DOMAIN Statements(op) /\ Head(call[c].todo) = Statements(op)[k + 1]
           /\ Goes(c, op, k, ok)
<1>1. PICK S, s : s = Statements(op) /\ s \in Seq(S)
  BY SteadySeq
<1>2. k \in Nat /\ k < Len(s) /\ call[c].todo = From(s, k)
  BY <1>1 DEF Placed
<1>3. /\ Head(From(s, k)) = s[k + 1] /\ k + 1 \in DOMAIN s
      /\ Tail(From(s, k)) = From(s, k + 1) /\ (From(s, k + 1) = <<>> <=> k + 1 = Len(s))
      /\ Len(s) \in Nat
  BY <1>1, <1>2, SeqAfter
<1>4. CASE /\ told' = told /\ call'[c].stage # "idle" /\ call'[c].op = op
           /\ ok /\ call'[c].todo = Tail(call[c].todo) /\ Tail(call[c].todo) # <<>>
  <2>1. call'[c].todo = From(s, k + 1) /\ k + 1 # Len(s)
    BY <1>2, <1>3, <1>4
  <2>2. k + 1 \in Nat /\ k + 1 < Len(s)
    BY <1>2, <1>3, <2>1
  <2>3. Placed(call'[c], k + 1)
    BY <1>1, <1>4, <2>1, <2>2 DEF Placed
  <2> QED BY <1>1, <1>2, <1>3, <1>4, <2>3 DEF Goes
<1>5. CASE /\ call'[c].stage = "idle"
           /\ \E answer : /\ told' = [told EXCEPT ![c] = Append(@, answer)] /\ answer.op = op
                          /\ answer.ok = ok /\ (ok => Tail(call[c].todo) = <<>>)
  <2>1. PICK answer : /\ told' = [told EXCEPT ![c] = Append(@, answer)] /\ answer.op = op
                      /\ answer.ok = ok /\ (ok => Tail(call[c].todo) = <<>>)
    BY <1>5
  <2>2. ok => k + 1 = Len(s)
    BY <1>2, <1>3, <2>1
  <2> QED BY <1>1, <1>2, <1>3, <1>5, <2>1, <2>2 DEF Goes
<1> QED BY <1>4, <1>5 DEF Advance

LEMMA WorkStep ==
    ASSUME HInv, WorkOK, Shape
    PROVE  WorkOK'
<1>1. Ops' \subseteq Given /\ Called \subseteq Called' /\ Called' \subseteq Given
  BY OpsStep DEF WorkOK
<1>2. ToldOK /\ CallsOK /\ LeftOK
  BY DEF HInv, IInv
<1> DEFINE Working(r) == r.stage # "idle" =>
              /\ \A i \in DOMAIN r.todo : Stems(r.todo[i], r.op)
              /\ r.op.kind \in Steady => \E k : Placed(r, k)
<1>3. \A c \in Callers : Working(call[c])
  BY DEF WorkOK
<1>4. ASSUME NEW c \in Callers, Kept(c) PROVE Working(call'[c])
  <2>1. PICK r, s : r = call[c] /\ s = call'[c]
    OBVIOUS
  <2>2. s.stage # "idle" => r.stage # "idle" /\ s.op = r.op /\ s.todo = r.todo
    BY <1>4, <2>1 DEF Kept
  <2>3. Working(r)
    BY <1>3, <2>1
  <2>4. Working(s)
    BY <2>2, <2>3 DEF Placed
  <2> QED BY <2>1, <2>4
<1>5. ASSUME \A c \in Callers : Working(call'[c]),
             \A l \in late' : l \in late \/ \E op \in Called : Stems(l.st, op)
      PROVE  WorkOK'
  <2>1. \A l \in late' : \E op \in Called' : Stems(l.st, op)
    BY <1>1, <1>5 DEF WorkOK
  <2> QED BY <1>1, <1>5, <2>1 DEF WorkOK
<1>6. ASSUME NEW c \in Callers, NEW ok, Advance(c, ok) PROVE \A d \in Callers : Working(call'[d])
  <2>1. \A d \in Callers \ {c} : Working(call'[d])
    BY <1>4, <1>6 DEF Advance
  <2>2. PICK op, todo : op = call[c].op /\ todo = call[c].todo
    OBVIOUS
  <2>3. call[c].stage # "idle" /\ op \in Given
    BY <1>6, <2>2 DEF Advance, WorkOK, Ops
  <2>4. ASSUME call'[c].stage # "idle" PROVE Working(call'[c])
    <3>1. call'[c].op = op
      BY <1>6, <2>2, <2>4 DEF Advance
    <3>2. \A i \in DOMAIN call'[c].todo :
              (\E j \in DOMAIN todo : call'[c].todo[i] = todo[j]) \/ call'[c].todo[i].kind \in Listing
      BY <1>6, <2>2, <2>4 DEF Advance
    <3>3. \A j \in DOMAIN todo : Stems(todo[j], op)
      BY <1>3, <2>2, <2>3
    <3>4. \A i \in DOMAIN call'[c].todo : Stems(call'[c].todo[i], op)
      BY <3>2, <3>3 DEF Stems
    <3>5. ASSUME op.kind \in Steady PROVE \E k : Placed(call'[c], k)
      <4>1. PICK k : Placed(call[c], k)
        BY <1>3, <2>2, <2>3, <3>5
      <4>2. Placed(call'[c], k + 1)
        <5>1. Goes(c, op, k, ok)
          BY <1>6, <2>2, <2>3, <3>5, <4>1, PlacedAdvance
        <5> QED BY <2>4, <5>1 DEF Goes
      <4> QED BY <4>2
    <3> QED BY <3>1, <3>4, <3>5
  <2>5. Working(call'[c])
    BY <2>4
  <2> HIDE DEF Working
  <2> QED BY <2>1, <2>5
<1>7. ASSUME NEW c \in Callers, call[c].stage # "idle"
      PROVE  \E op \in Called : Stems(Head(call[c].todo), op)
  <2>1. PICK op, todo : op = call[c].op /\ todo = call[c].todo
    OBVIOUS
  <2>2. op \in Called
    BY <1>7, <2>1 DEF Called, Under
  <2>3. PICK S : todo \in Seq(S) /\ todo # <<>>
    BY <1>2, <1>7, <2>1 DEF CallsOK, Live
  <2>4. 1 \in DOMAIN todo /\ Head(todo) = todo[1]
    BY <2>3
  <2>5. Stems(Head(todo), op)
    BY <1>3, <1>7, <2>1, <2>4
  <2> QED BY <2>1, <2>2, <2>5
<1>8. CASE Rests \/ Lates
  <2>1. \A c \in Callers : Kept(c)
    BY <1>8 DEF Rests, Lates
  <2>2. late' \subseteq late
    BY <1>8 DEF Rests, Lates
  <2> HIDE DEF Working
  <2> QED BY <1>4, <1>5, <2>1, <2>2
<1>9. ASSUME NEW c \in Callers, Fails(c) PROVE WorkOK'
  <2>1. \A l \in late' : l \in late \/ l.st = Head(call[c].todo)
    BY <1>9 DEF Fails
  <2>2. call[c].stage # "idle" /\ Advance(c, FALSE)
    BY <1>9 DEF Fails, Advance
  <2> HIDE DEF Working
  <2>3. \A d \in Callers : Working(call'[d])
    BY <1>6, <2>2
  <2> QED BY <1>5, <1>7, <2>1, <2>2, <2>3
<1>10. ASSUME NEW c \in Callers, Replies(c) PROVE WorkOK'
  <2>1. late' = late /\ Advance(c, TRUE)
    BY <1>10 DEF Replies
  <2> HIDE DEF Working
  <2>2. \A d \in Callers : Working(call'[d])
    BY <1>6, <2>1
  <2> QED BY <1>5, <2>1, <2>2
<1>11. ASSUME NEW c \in Callers, Begins(c) PROVE WorkOK'
  <2>1. late' = late /\ \A d \in Callers \ {c} : Working(call'[d])
    BY <1>4, <1>11 DEF Begins
  <2>2. PICK op : op = Head(left[c])
    OBVIOUS
  <2>3. ASSUME call'[c].stage # "idle" PROVE Working(call'[c])
    <3>1. call'[c].op = op /\ call'[c].todo = Statements(op) /\ Statements(op) # <<>>
      BY <1>11, <2>2, <2>3 DEF Begins
    <3>2. op \in Given
      BY <1>1, <2>3, <3>1 DEF Ops
    <3>3. \A i \in DOMAIN call'[c].todo : Stems(call'[c].todo[i], op)
      BY <3>1 DEF Stems
    <3>4. ASSUME op.kind \in Steady PROVE Placed(call'[c], 0)
      <4>1. PICK S, s : s = Statements(op) /\ s \in Seq(S)
        BY <3>2, <3>4, SteadySeq
      <4>2. 0 < Len(s)
        BY <3>1, <4>1
      <4>3. From(s, 0) = s
        BY <4>1, <4>2, SeqAfter
      <4> QED BY <3>1, <4>1, <4>2, <4>3 DEF Placed
    <3> QED BY <3>1, <3>3, <3>4
  <2>4. Working(call'[c])
    BY <2>3
  <2> HIDE DEF Working
  <2> QED BY <1>5, <2>1, <2>4
<1> QED BY <1>8, <1>9, <1>10, <1>11 DEF Shape

(***************************************************************************)
(* Indexes                                                                 *)
(***************************************************************************)
Formed(table) == {"indexes", "bloom"} \subseteq DOMAIN table
IndexKinds == {"create index", "set bloom filter", "drop index"}

LEMMA NeedsTable ==
    ASSUME NEW s, NEW db, NEW st, Accepts(s, db, st), st.kind \in TableKinds, st.kind # "drop table"
    PROVE  HasTable(s, Within(db, st), st.table)
<1>1. CASE st.kind \in {"create index", "drop index"}
  BY <1>1 DEF Accepts
<1>2. CASE st.kind \in {"insert", "insert select", "overwrite"}
  BY <1>2 DEF Accepts
<1>3. CASE st.kind \in {"set bloom filter", "show create", "describe", "count", "show partitions",
                       "export", "delete"}
  BY <1>3 DEF Accepts
<1> QED BY <1>1, <1>2, <1>3 DEF TableKinds

LEMMA NotCreated ==
    ASSUME NEW s, ServerOK(s), NEW db, NEW st, Accepts(s, db, st), Names(st), NEW t,
           ~HasTable(s, Home, t), HasTable(After(s, db, st), Home, t)
    PROVE  After(s, db, st).tables[Home][t] = EmptyTable(st.def)
<1> DEFINE in == Within(db, st)
<1>0. PICK new : new = After(s, db, st)
  OBVIOUS
<1>1. Keeps(s, new, db, st)
  BY <1>0, Carried
<1>2. "table" \in DOMAIN st /\ in = Home /\ st.table = t
  BY <1>0, <1>1 DEF Keeps
<1>3. DOMAIN s = ServerFields
  BY DEF ServerOK
<1>4. CASE st.kind = "create table"
  <2>1. new = ChangeTable(s, in, st.table, EmptyTable(st.def)) /\ in \in DOMAIN s.tables
    BY <1>0, <1>2, <1>4 DEF After, Accepts
  <2>2. PICK table : table = EmptyTable(st.def)
    OBVIOUS
  <2>3. new.tables[in][st.table] = table
    BY <2>1, <2>2, ChangeOne
  <2> QED BY <1>0, <1>2, <1>4, <2>2, <2>3
<1>5. CASE st.kind \in TableKinds \ {"drop table"}
  BY <1>2, <1>5, NeedsTable
<1>6. CASE st.kind = "drop table"
  <2> DEFINE rest == Restrict(s.tables[in], DOMAIN s.tables[in] \ {st.table})
  <2>1. new = [s EXCEPT !.tables[in] = rest]
    BY <1>0, <1>6 DEF After
  <2>2. DOMAIN rest \subseteq DOMAIN s.tables[in]
    BY DEF Restrict
  <2> HIDE DEF rest
  <2>3. new.tables = [s.tables EXCEPT ![in] = rest]
    BY <1>3, <2>1 DEF ServerFields
  <2> QED BY <1>0, <1>2, <2>2, <2>3 DEF HasTable
<1>7. CASE st.kind = "create database" /\ st.db \notin DOMAIN s.tables
  <2>1. PICK none : none = <<>>
    OBVIOUS
  <2>2. new = [s EXCEPT !.tables = With(@, st.db, <<>>)]
    BY <1>0, <1>7 DEF After
  <2>3. new = [s EXCEPT !.tables = With(@, st.db, none)] /\ DOMAIN none = {}
    BY <2>1, <2>2
  <2>4. new.tables = With(s.tables, st.db, none)
    BY <1>3, <2>3 DEF ServerFields
  <2>5. \A d \in DOMAIN new.tables : new.tables[d] = none \/ (d \in DOMAIN s.tables /\ new.tables[d] = s.tables[d])
    BY <2>4, WithOne
  <2> QED BY <1>0, <2>3, <2>5 DEF HasTable
<1>8. CASE st.kind = "drop database"
  <2>1. new = [s EXCEPT !.tables = Restrict(@, DOMAIN @ \ {st.db}), !.labels = {l \in @ : l[1] # st.db}]
    BY <1>0, <1>8 DEF After
  <2>2. new.tables = Restrict(s.tables, DOMAIN s.tables \ {st.db})
    BY <1>3, <2>1 DEF ServerFields
  <2>3. DOMAIN new.tables \subseteq DOMAIN s.tables /\ \A d \in DOMAIN new.tables : new.tables[d] = s.tables[d]
    BY <2>2 DEF Restrict
  <2> QED BY <1>0, <2>3 DEF HasTable
<1>9. CASE /\ st.kind \notin TableKinds \cup {"create table", "drop database"}
           /\ ~(st.kind = "create database" /\ st.db \notin DOMAIN s.tables)
  <2>1. new = s
    BY <1>0, <1>9 DEF After, TableKinds
  <2> QED BY <1>0, <2>1
<1> QED BY <1>4, <1>5, <1>6, <1>7, <1>8, <1>9 DEF TableKinds

\* What leaves the indexes of a table alone.
Alone(db, st, t) ==
    /\ ~(st.kind = "drop database" /\ st.db = Home)
    /\ ~(st.kind = "drop table" /\ st.table = t)
    /\ ~(st.kind \in IndexKinds /\ Within(db, st) = Home /\ st.table = t)

LEMMA IndexesStay ==
    ASSUME NEW s, ServerOK(s), NEW db, NEW st, Accepts(s, db, st), Names(st), NEW t,
           HasTable(s, Home, t), Formed(s.tables[Home][t]), Alone(db, st, t)
    PROVE  LET new == After(s, db, st)
           IN  /\ HasTable(new, Home, t) /\ Formed(new.tables[Home][t])
               /\ new.tables[Home][t].indexes = s.tables[Home][t].indexes
               /\ new.tables[Home][t].bloom = s.tables[Home][t].bloom
<1> DEFINE in == Within(db, st)
           old == s.tables[Home][t]
<1>0. PICK new : new = After(s, db, st)
  OBVIOUS
<1> DEFINE Stays == /\ HasTable(new, Home, t) /\ Formed(new.tables[Home][t])
                    /\ new.tables[Home][t].indexes = old.indexes /\ new.tables[Home][t].bloom = old.bloom
<1> SUFFICES Stays
  BY <1>0
<1>1. Keeps(s, new, db, st)
  BY <1>0, Carried
<1>2. DOMAIN s = ServerFields
  BY DEF ServerOK
<1>3. ASSUME HasTable(new, Home, t), new.tables[Home][t] = old PROVE Stays
  BY <1>3
<1>4. CASE st.kind = "create database" /\ st.db \notin DOMAIN s.tables
  <2>1. new = [s EXCEPT !.tables = With(@, st.db, <<>>)]
    BY <1>0, <1>4 DEF After
  <2>2. new.tables = With(s.tables, st.db, <<>>)
    BY <1>2, <2>1 DEF ServerFields
  <2>3. Home \in DOMAIN new.tables /\ new.tables[Home] = s.tables[Home]
    BY <1>4, <2>2 DEF With, HasTable
  <2> QED BY <1>3, <2>3 DEF HasTable
<1>5. CASE st.kind = "drop database"
  <2>1. new = [s EXCEPT !.tables = Restrict(@, DOMAIN @ \ {st.db}), !.labels = {l \in @ : l[1] # st.db}]
    BY <1>0, <1>5 DEF After
  <2>2. new.tables = Restrict(s.tables, DOMAIN s.tables \ {st.db})
    BY <1>2, <2>1 DEF ServerFields
  <2>3. Home \in DOMAIN new.tables /\ new.tables[Home] = s.tables[Home]
    BY <1>5, <2>2 DEF Restrict, HasTable, Alone
  <2> QED BY <1>3, <2>3 DEF HasTable
<1>6. CASE st.kind = "drop table"
  <2> DEFINE rest == Restrict(s.tables[in], DOMAIN s.tables[in] \ {st.table})
  <2>1. new = [s EXCEPT !.tables[in] = rest]
    BY <1>0, <1>6 DEF After
  <2>2. \A u \in DOMAIN s.tables[in] : u # st.table => u \in DOMAIN rest /\ rest[u] = s.tables[in][u]
    BY DEF Restrict
  <2>3. st.table # t
    BY <1>6 DEF Alone
  <2> HIDE DEF rest
  <2>4. new.tables = [s.tables EXCEPT ![in] = rest]
    BY <1>2, <2>1 DEF ServerFields
  <2>5. HasTable(new, Home, t) /\ new.tables[Home][t] = old
    BY <2>2, <2>3, <2>4 DEF HasTable
  <2> QED BY <1>3, <2>5
<1>7. CASE st.kind = "export"
  <2>1. new = [s EXCEPT !.files = @ \cup Exported(s, in, st)]
    BY <1>0, <1>7 DEF After
  <2>2. new.tables = s.tables
    BY <1>2, <2>1 DEF ServerFields
  <2> QED BY <1>3, <2>2 DEF HasTable
<1>8. CASE /\ st.kind \notin TableKinds \cup {"create table", "drop database"}
           /\ ~(st.kind = "create database" /\ st.db \notin DOMAIN s.tables)
  <2>1. new = s
    BY <1>0, <1>8 DEF After, TableKinds
  <2> QED BY <1>3, <2>1
<1>9. ASSUME NEW table, NEW label, in \in DOMAIN s.tables,
             new = Used(ChangeTable(s, in, st.table, table), in, label),
             in = Home /\ st.table = t =>
                 /\ DOMAIN table = DOMAIN old
                 /\ table.indexes = old.indexes /\ table.bloom = old.bloom
      PROVE  Stays
  <2>1. PICK changed : changed = ChangeTable(s, in, st.table, table)
    OBVIOUS
  <2>2. /\ DOMAIN changed = ServerFields /\ changed.tables[in][st.table] = table
        /\ HasTable(changed, in, st.table)
    BY <1>9, <2>1, ChangeOne
  <2>3. /\ DOMAIN changed.tables = DOMAIN s.tables
        /\ \A d \in DOMAIN s.tables : d # in => changed.tables[d] = s.tables[d]
        /\ changed.tables[in] = With(s.tables[in], st.table, table)
    BY <1>2, <1>9, <2>1 DEF ChangeTable, ServerFields
  <2>4. new.tables = changed.tables
    BY <1>9, <2>1, <2>2, UsedSame
  <2>5. CASE in = Home /\ st.table = t
    BY <1>9, <2>2, <2>4, <2>5 DEF HasTable, Formed
  <2>6. CASE in = Home /\ st.table # t
    <3>1. t \in DOMAIN With(s.tables[in], st.table, table) /\ With(s.tables[in], st.table, table)[t] = old
      BY <2>6 DEF With, HasTable
    <3>2. HasTable(new, Home, t) /\ new.tables[Home][t] = old
      BY <1>9, <2>3, <2>4, <2>6, <3>1 DEF HasTable
    <3> QED BY <1>3, <3>2
  <2>7. CASE in # Home
    <3>1. HasTable(new, Home, t) /\ new.tables[Home][t] = old
      BY <2>3, <2>4, <2>7 DEF HasTable
    <3> QED BY <1>3, <3>1
  <2> QED BY <2>5, <2>6, <2>7
<1>10. ASSUME NEW table, in \in DOMAIN s.tables, new = ChangeTable(s, in, st.table, table),
              in = Home /\ st.table = t =>
                  /\ DOMAIN table = DOMAIN old
                  /\ table.indexes = old.indexes /\ table.bloom = old.bloom
       PROVE  Stays
  <2>1. new = Used(ChangeTable(s, in, st.table, table), in, NoLabel)
    BY <1>10 DEF Used
  <2> QED BY <1>9, <1>10, <2>1
<1>11. CASE st.kind = "create table"
  <2>1. CASE HasTable(s, in, st.table)
    <3>1. new = s
      BY <1>0, <1>11, <2>1 DEF After
    <3> QED BY <1>3, <3>1
  <2>2. CASE ~HasTable(s, in, st.table)
    <3>1. new = ChangeTable(s, in, st.table, EmptyTable(st.def)) /\ in \in DOMAIN s.tables
      BY <1>0, <1>11, <2>2 DEF After, Accepts
    <3> QED BY <1>10, <2>2, <3>1
  <2> QED BY <2>1, <2>2
<1>12. CASE st.kind \in IndexKinds
  <2>1. in \in DOMAIN s.tables /\ ~(in = Home /\ st.table = t)
    BY <1>12 DEF Accepts, HasTable, IndexKinds, Alone
  <2>2. \E table : new = ChangeTable(s, in, st.table, table)
    BY <1>0, <1>12 DEF After, IndexKinds
  <2> QED BY <1>10, <2>1, <2>2
<1>13. CASE st.kind \in {"insert", "insert select", "overwrite", "delete"}
  <2> DEFINE table == s.tables[in][st.table]
             Changed(other) == /\ DOMAIN other = DOMAIN table
                               /\ Formed(table) => other.indexes = table.indexes /\ other.bloom = table.bloom
  <2>1. in \in DOMAIN s.tables
    BY <1>13 DEF Accepts, HasTable
  <2>2. \A v : Changed([table EXCEPT !.rows = v])
    BY DEF Formed
  <2>3. ASSUME st.kind = "insert"
        PROVE  \E other, label : Changed(other) /\ new = Used(ChangeTable(s, in, st.table, other), in, label)
    <3>1. new = Used(ChangeTable(s, in, st.table, [table EXCEPT !.rows = Both(table.rows, Copies(st.rows))]), in, st.label)
      BY <1>0, <2>3 DEF After
    <3> HIDE DEF table
    <3> QED BY <2>2, <3>1
  <2>4. ASSUME st.kind = "insert select"
        PROVE  \E other, label : Changed(other) /\ new = Used(ChangeTable(s, in, st.table, other), in, label)
    <3>1. new = Used(ChangeTable(s, in, st.table, [table EXCEPT !.rows = Both(table.rows, s.tables[in][st.from].rows)]), in, st.label)
      BY <1>0, <2>4 DEF After
    <3> HIDE DEF table
    <3> QED BY <2>2, <3>1
  <2>5. ASSUME st.kind = "overwrite"
        PROVE  \E other : Changed(other) /\ new = ChangeTable(s, in, st.table, other)
    <3>1. new = ChangeTable(s, in, st.table, [table EXCEPT !.rows = s.tables[in][st.from].rows])
      BY <1>0, <2>5 DEF After
    <3> HIDE DEF table
    <3> QED BY <2>2, <3>1
  <2>6. ASSUME st.kind = "delete"
        PROVE  \E other : Changed(other) /\ new = ChangeTable(s, in, st.table, other)
    <3>1. new = ChangeTable(s, in, st.table,
                    [table EXCEPT !.rows = [r \in Rows |-> IF r \in Filtered(s, st) THEN 0 ELSE table.rows[r]]])
      BY <1>0, <2>6 DEF After
    <3> HIDE DEF table
    <3> QED BY <2>2, <3>1
  <2>7. ASSUME NEW other, Changed(other), in = Home, st.table = t
        PROVE  /\ DOMAIN other = DOMAIN old
               /\ other.indexes = old.indexes /\ other.bloom = old.bloom
    BY <2>7
  <2> HIDE DEF table, Changed, Stays
  <2>8. CASE st.kind \in {"insert", "insert select"}
    <3>1. PICK other, label : Changed(other) /\ new = Used(ChangeTable(s, in, st.table, other), in, label)
      BY <2>3, <2>4, <2>8
    <3> QED BY <1>9, <2>1, <2>7, <3>1
  <2>9. CASE st.kind \in {"overwrite", "delete"}
    <3>1. PICK other : Changed(other) /\ new = ChangeTable(s, in, st.table, other)
      BY <2>5, <2>6, <2>9
    <3> QED BY <1>10, <2>1, <2>7, <3>1
  <2> QED BY <1>13, <2>8, <2>9
<1>14. CASE st.kind \in {"show create", "describe", "count", "show partitions"}
  <2>1. new = s
    BY <1>0, <1>14 DEF After
  <2> QED BY <1>3, <2>1
<1> HIDE DEF Stays
<1> QED BY <1>4, <1>5, <1>6, <1>7, <1>8, <1>11, <1>12, <1>13, <1>14 DEF TableKinds, IndexKinds

LEMMA SeqPrefix ==
    ASSUME NEW S, NEW s, s \in Seq(S), NEW k \in Nat, k <= Len(s)
    PROVE  /\ DOMAIN SubSeq(s, 1, k) = 1..k /\ \A i \in 1..k : i \in DOMAIN s /\ SubSeq(s, 1, k)[i] = s[i]
           /\ SubSeq(s, 1, Len(s)) = s
<1>1. DOMAIN SubSeq(s, 1, k) = 1..k /\ \A i \in 1..k : i \in DOMAIN s /\ SubSeq(s, 1, k)[i] = s[i]
  OBVIOUS
<1>2. SubSeq(s, 1, Len(s)) = [i \in 1..Len(s) |-> s[i]]
  OBVIOUS
<1>3. s = [i \in 1..Len(s) |-> s[i]]
  OBVIOUS
<1> QED BY <1>1, <1>2, <1>3

OneBloom(all) == \A i, j \in Blooms(all) : i = j
Prefix(all, k) == SubSeq(all, 1, k)

LEMMA PrefixOne ==
    ASSUME NEW S, NEW all, all \in Seq(S), NEW k \in Nat, k < Len(all), NEW index, index = all[k + 1],
           OneBloom(all)
    PROVE  /\ index.type # "BLOOM_FILTER" =>
                 /\ NamesOf(Prefix(all, k + 1)) = NamesOf(Prefix(all, k)) \cup {index.name}
                 /\ BloomOf(Prefix(all, k + 1)) = BloomOf(Prefix(all, k))
           /\ index.type = "BLOOM_FILTER" =>
                 /\ NamesOf(Prefix(all, k + 1)) = NamesOf(Prefix(all, k))
                 /\ BloomOf(Prefix(all, k + 1)) = index.columns
<1>1. PICK p, q : p = Prefix(all, k) /\ q = Prefix(all, k + 1)
  OBVIOUS
<1>2. Len(all) \in Nat /\ k + 1 \in Nat /\ k + 1 <= Len(all) /\ DOMAIN all = 1..Len(all)
  OBVIOUS
<1>3. /\ DOMAIN p = 1..k /\ \A i \in 1..k : i \in DOMAIN all /\ p[i] = all[i]
      /\ DOMAIN q = 1..(k + 1) /\ \A i \in 1..(k + 1) : i \in DOMAIN all /\ q[i] = all[i]
  BY <1>1, <1>2, SeqPrefix DEF Prefix
<1>4. DOMAIN q = DOMAIN p \cup {k + 1} /\ k + 1 \notin DOMAIN p /\ q[k + 1] = index
      /\ \A i \in DOMAIN p : q[i] = p[i]
  BY <1>3
<1>5. CASE index.type # "BLOOM_FILTER"
  <2>1. Blooms(q) = Blooms(p)
    BY <1>4, <1>5 DEF Blooms
  <2>2. DOMAIN q \ Blooms(q) = (DOMAIN p \ Blooms(p)) \cup {k + 1}
    BY <1>4, <1>5, <2>1 DEF Blooms
  <2>3. NamesOf(q) = NamesOf(p) \cup {index.name}
    BY <1>4, <2>2 DEF NamesOf
  <2>4. BloomOf(q) = BloomOf(p)
    <3>1. PICK B : B = Blooms(p)
      OBVIOUS
    <3>2. B \subseteq DOMAIN p
      BY <3>1 DEF Blooms
    <3>3. B # {} => (CHOOSE i \in B : TRUE) \in DOMAIN p
      BY <3>2
    <3> QED BY <1>4, <2>1, <3>1, <3>3 DEF BloomOf
  <2> QED BY <1>1, <1>5, <2>3, <2>4
<1>6. CASE index.type = "BLOOM_FILTER"
  <2>1. Blooms(q) = {k + 1} /\ Blooms(p) = {}
    <3>1. \A i \in DOMAIN q : i \in Blooms(q) => i \in Blooms(all)
      BY <1>3 DEF Blooms
    <3>2. k + 1 \in Blooms(all) /\ k + 1 \in Blooms(q)
      BY <1>2, <1>4, <1>6 DEF Blooms
    <3>3. Blooms(q) = {k + 1}
      BY <3>1, <3>2 DEF OneBloom, Blooms
    <3> QED BY <1>4, <3>3 DEF Blooms
  <2>2. DOMAIN q \ Blooms(q) = DOMAIN p \ Blooms(p)
    BY <1>4, <2>1
  <2>3. NamesOf(q) = NamesOf(p)
    BY <1>4, <2>2 DEF NamesOf
  <2>4. BloomOf(q) = index.columns
    <3>1. (CHOOSE i \in {k + 1} : TRUE) = k + 1
      OBVIOUS
    <3> QED BY <1>4, <2>1, <3>1 DEF BloomOf
  <2> QED BY <1>1, <1>6, <2>3, <2>4
<1> QED BY <1>5, <1>6

LEMMA PrefixHolds ==
    ASSUME NEW S, NEW all, all \in Seq(S), NEW k \in Nat, k <= Len(all), OneBloom(all), NEW j \in 1..k
    PROVE  /\ all[j].type # "BLOOM_FILTER" => all[j].name \in NamesOf(Prefix(all, k))
           /\ all[j].type = "BLOOM_FILTER" => BloomOf(Prefix(all, k)) = all[j].columns
<1>1. PICK p : p = Prefix(all, k)
  OBVIOUS
<1>2. DOMAIN p = 1..k /\ \A i \in 1..k : i \in DOMAIN all /\ p[i] = all[i]
  BY <1>1, SeqPrefix DEF Prefix
<1>3. CASE all[j].type # "BLOOM_FILTER"
  BY <1>1, <1>2, <1>3 DEF NamesOf, Blooms
<1>4. CASE all[j].type = "BLOOM_FILTER"
  <2>1. j \in Blooms(p) /\ Blooms(p) \subseteq Blooms(all)
    BY <1>2, <1>4 DEF Blooms
  <2>2. Blooms(p) = {j}
    BY <2>1 DEF OneBloom
  <2>3. (CHOOSE i \in {j} : TRUE) = j
    OBVIOUS
  <2> QED BY <1>1, <1>2, <1>4, <2>2, <2>3 DEF BloomOf
<1> QED BY <1>3, <1>4

\* The table t has the first j indexes at least.
Built(s, t, all, j) ==
    /\ HasTable(s, Home, t) /\ Formed(s.tables[Home][t])
    /\ \E k \in j..Len(all) : Has(s.tables[Home][t], Prefix(all, k))

\* The next index, or one of those before, is set.
LEMMA IndexSet ==
    ASSUME NEW s, ServerOK(s), NEW db, NEW st, Accepts(s, db, st), Within(db, st) = Home, NEW t,
           NEW S, NEW all, all \in Seq(S), OneBloom(all), NEW j \in Nat, j < Len(all),
           st = createIndex(t, all[j + 1]), st.kind # "invalid", Built(s, t, all, j)
    PROVE  /\ Built(After(s, db, st), t, all, j + 1)
           /\ \A i \in Nat : Built(s, t, all, i) => Built(After(s, db, st), t, all, i)
<1> DEFINE in == Home
           old == s.tables[Home][t]
           index == all[j + 1]
<1>0. PICK new : new = After(s, db, st)
  OBVIOUS
<1>1. HasTable(s, Home, t) /\ Formed(old) /\ Home \in DOMAIN s.tables /\ "rows" \in DOMAIN old
  BY DEF Built, HasTable, ServerOK
<1>2. PICK table : /\ new.tables[Home][t] = table /\ HasTable(new, Home, t) /\ Formed(table)
                   /\ index.type = "BLOOM_FILTER" => table.indexes = old.indexes /\ table.bloom = index.columns
                   /\ index.type # "BLOOM_FILTER" =>
                         /\ table.indexes = old.indexes \cup {index.name} /\ table.bloom = old.bloom
                         /\ index.name \notin old.indexes
  <2>1. CASE index.type = "BLOOM_FILTER"
    <3>1. st.kind = "set bloom filter" /\ st.table = t /\ st.columns = index.columns
      BY <2>1 DEF createIndex
    <3>2. PICK table : table = [old EXCEPT !.bloom = st.columns]
      OBVIOUS
    <3>3. new = ChangeTable(s, Home, t, table)
      BY <1>0, <3>1, <3>2 DEF After
    <3>4. table.indexes = old.indexes /\ table.bloom = index.columns /\ Formed(table)
      BY <1>1, <3>1, <3>2 DEF Formed
    <3>5. new.tables[Home][t] = table /\ HasTable(new, Home, t)
      BY <1>1, <3>3, ChangeOne
    <3> QED BY <2>1, <3>4, <3>5
  <2>2. CASE index.type # "BLOOM_FILTER"
    <3>1. st.kind = "create index" /\ st.table = t /\ st.index = index.name
      BY <2>2 DEF createIndex
    <3>2. PICK table : table = [old EXCEPT !.indexes = @ \cup {st.index}]
      OBVIOUS
    <3>3. new = ChangeTable(s, Home, t, table)
      BY <1>0, <3>1, <3>2 DEF After
    <3>4. /\ table.indexes = old.indexes \cup {index.name} /\ table.bloom = old.bloom /\ Formed(table)
      BY <1>1, <3>1, <3>2 DEF Formed
    <3>5. index.name \notin old.indexes
      BY <3>1 DEF Accepts
    <3>6. new.tables[Home][t] = table /\ HasTable(new, Home, t)
      BY <1>1, <3>3, ChangeOne
    <3> QED BY <2>2, <3>4, <3>5, <3>6
  <2> QED BY <2>1, <2>2
<1>3. Len(all) \in Nat
  OBVIOUS
<1>4. ASSUME NEW k \in Nat, k <= Len(all), j <= k, Has(old, Prefix(all, k))
      PROVE  \E m \in (j + 1)..Len(all) : k <= m /\ Has(table, Prefix(all, m))
  <2>1. CASE k = j
    <3>0. Has(old, Prefix(all, j))
      BY <1>4, <2>1
    <3>1. /\ index.type # "BLOOM_FILTER" =>
                /\ NamesOf(Prefix(all, j + 1)) = NamesOf(Prefix(all, j)) \cup {index.name}
                /\ BloomOf(Prefix(all, j + 1)) = BloomOf(Prefix(all, j))
          /\ index.type = "BLOOM_FILTER" =>
                /\ NamesOf(Prefix(all, j + 1)) = NamesOf(Prefix(all, j))
                /\ BloomOf(Prefix(all, j + 1)) = index.columns
      BY PrefixOne
    <3> HIDE DEF old, index
    <3>2. Has(table, Prefix(all, j + 1))
      BY <1>2, <3>0, <3>1 DEF Has
    <3> QED BY <1>3, <2>1, <3>2
  <2>2. CASE k # j
    <3>1. j + 1 \in 1..k
      BY <1>4, <2>2
    <3>2. /\ index.type # "BLOOM_FILTER" => index.name \in old.indexes
          /\ index.type = "BLOOM_FILTER" => old.bloom = index.columns
      BY <1>4, <3>1, PrefixHolds DEF Has
    <3>3. Has(table, Prefix(all, k))
      BY <1>2, <1>4, <3>2 DEF Has
    <3> QED BY <1>3, <1>4, <3>1, <3>3
  <2> QED BY <2>1, <2>2
<1>5. PICK k \in j..Len(all) : Has(old, Prefix(all, k))
  BY DEF Built
<1>6. PICK m \in (j + 1)..Len(all) : Has(table, Prefix(all, m))
  BY <1>3, <1>4, <1>5
<1>7. ASSUME NEW i \in Nat, Built(s, t, all, i) PROVE \E n \in i..Len(all) : Has(table, Prefix(all, n))
  <2>1. PICK n \in i..Len(all) : Has(old, Prefix(all, n))
    BY <1>7 DEF Built
  <2>2. CASE j <= n
    <3>1. PICK o \in (j + 1)..Len(all) : n <= o /\ Has(table, Prefix(all, o))
      BY <1>3, <1>4, <2>1, <2>2
    <3> QED BY <1>3, <2>1, <3>1
  <2>3. CASE n < j
    BY <1>3, <1>6, <2>1, <2>3
  <2> QED BY <1>3, <2>1, <2>2, <2>3
<1> QED BY <1>0, <1>2, <1>6, <1>7 DEF Built

(***************************************************************************)
(* How far a createTable has come                                          *)
(***************************************************************************)
Makes(op, t) == op.kind = "createTable" /\ op.def.name = t
Setting == {"create index", "set bloom filter"}

\* The table t has its indexes in the order of all, as far as each createTable has come.
Begun(t, all) == HasTable(server, Home, t) => Built(server, t, all, 0)
CallBuilds(c, t, all) ==
    call[c].stage # "idle" /\ Makes(call[c].op, t) =>
        \E k : Placed(call[c], k) /\ (k # 0 => Built(server, t, all, k - 1))
LateBuilds(l, t, all) ==
    l.st.kind \in Setting /\ l.st.table = t =>
        \E j \in Nat : j < Len(all) /\ l.st = createIndex(t, all[j + 1]) /\ Built(server, t, all, j)
ToldBuilds(c, t, all) ==
    \A i \in DOMAIN told[c] :
        Makes(told[c][i].op, t) /\ told[c][i].ok => Built(server, t, all, Len(all))
Orderly(t, all) ==
    /\ Begun(t, all)
    /\ \A c \in Callers : CallBuilds(c, t, all) /\ ToldBuilds(c, t, all)
    /\ \A l \in late : LateBuilds(l, t, all)
IndexOK ==
    ~history.roamed =>
        \A t : t \notin history.dropped /\ CreatesOneWay(t) =>
            \A op \in Creating(t) : Orderly(t, op.def.indexes)

Creation(op) ==
    [kind |-> "create table", table |-> op.def.name, def |-> op.def, lenient |-> op.lenient]

LEMMA CreateTableIs ==
    ASSUME NEW op \in Given, op.kind = "createTable"
    PROVE  LET all == op.def.indexes
           IN  /\ \E S : all \in Seq(S)
               /\ Len(Statements(op)) = Len(all) + 1 /\ DOMAIN Statements(op) = 1..(Len(all) + 1)
               /\ Statements(op)[1] = Creation(op)
               /\ \A k \in 1..Len(all) : Statements(op)[k + 1] = createIndex(op.def.name, all[k])
<1> DEFINE all == op.def.indexes
<1>1. PICK first, rest :
          /\ first = Creation(op)
          /\ rest = [i \in DOMAIN all |-> createIndex(op.def.name, all[i])]
  OBVIOUS
<1>2. PICK S : all \in Seq(S)
  BY GivenWell DEF WellFormed, IsSequence
<1>3. Statements(op) = <<first>> \o rest
  BY <1>1 DEF Statements, createTable, Creation
<1>4. Len(all) \in Nat /\ DOMAIN all = 1..Len(all)
  BY <1>2
<1>5. rest = [i \in 1..Len(all) |-> rest[i]] /\ \A i \in 1..Len(all) : rest[i] = createIndex(op.def.name, all[i])
  BY <1>1, <1>4
<1> HIDE DEF all
<1>6. rest \in Seq({rest[i] : i \in 1..Len(all)}) /\ Len(rest) = Len(all)
  BY <1>4, <1>5, SeqLen
<1>7. /\ Len(<<first>> \o rest) = Len(rest) + 1 /\ (<<first>> \o rest)[1] = first
      /\ DOMAIN (<<first>> \o rest) = 1..(Len(rest) + 1)
      /\ \A k \in 1..Len(rest) : (<<first>> \o rest)[k + 1] = rest[k]
  BY <1>6
<1> QED BY <1>1, <1>2, <1>3, <1>5, <1>6, <1>7 DEF all

LEMMA SeqOnly == ASSUME NEW x, NEW s, s = <<x>>, NEW j \in DOMAIN s PROVE s[j] = x
OBVIOUS

LEMMA SeqPair == ASSUME NEW x, NEW y, NEW s, s = <<x, y>>, NEW j \in DOMAIN s PROVE s[j] \in {x, y}
OBVIOUS

LEMMA After1 == ASSUME NEW n \in Nat, NEW j \in 1..(n + 1) PROVE j = 1 \/ \E k \in 1..n : j = k + 1
<1>1. j # 1 => j - 1 \in 1..n /\ j = (j - 1) + 1
  OBVIOUS
<1> QED BY <1>1

\* The statements of each kind of operation.
LEMMA StatementIs ==
    ASSUME NEW op, NEW j \in DOMAIN Statements(op), NEW st, st = Statements(op)[j]
    PROVE  /\ op.kind \notin Composite => st = op.statement
           /\ op.kind = "insertMany" => st = insertMany(op)[j] /\ j \in DOMAIN insertMany(op)
           /\ op.kind \in Composite \ {"createTable", "insertMany"} =>
                 st.kind \in {"count", "show partitions", "use", "show tables", "export", "invalid", "delete"}
<1>1. CASE op.kind \notin Composite
  <2>1. Statements(op) = <<op.statement>>
    BY <1>1 DEF Statements, Composite
  <2>2. st = op.statement
    BY <2>1, SeqOnly
  <2> QED BY <1>1, <2>2 DEF Composite
<1>2. CASE op.kind = "insertMany"
  BY <1>2 DEF Statements, Composite
<1>3. ASSUME NEW x, NEW y, Statements(op) = <<x>> \/ Statements(op) = <<x, y>>,
             {x.kind, y.kind} \subseteq {"count", "show partitions", "use", "show tables", "export", "invalid", "delete"}
      PROVE  st.kind \in {"count", "show partitions", "use", "show tables", "export", "invalid", "delete"}
  <2>1. st \in {x, y}
    BY <1>3, SeqOnly, SeqPair
  <2> QED BY <1>3, <2>1
<1>4. CASE op.kind = "getTableStats"
  <2>1. PICK x, y : /\ x = [kind |-> "count", table |-> op.table]
                    /\ y = [kind |-> "show partitions", table |-> op.table]
    OBVIOUS
  <2>2. Statements(op) = <<x, y>> /\ x.kind = "count" /\ y.kind = "show partitions"
    BY <1>4, <2>1 DEF Statements, getTableStats
  <2> QED BY <1>3, <1>4, <2>2 DEF Composite
<1>5. CASE op.kind = "validate"
  <2>1. PICK x, y : x = useDatabase(op.db) /\ y = [kind |-> "show tables"]
    OBVIOUS
  <2>2. Statements(op) = <<x, y>> /\ x.kind = "use" /\ y.kind = "show tables"
    BY <1>5, <2>1 DEF Statements, introspect, useDatabase
  <2> QED BY <1>3, <1>5, <2>2 DEF Composite
<1>6. CASE op.kind = "archive"
  <2>1. PICK x : x = [kind |-> "export", db |-> op.db, table |-> op.table, filter |-> op.filter]
    OBVIOUS
  <2>2. Statements(op) = <<x>> /\ x.kind = "export"
    BY <1>6, <2>1 DEF Statements, archive
  <2> QED BY <1>3, <1>6, <2>2 DEF Composite
<1>7. CASE op.kind = "purgeArchived"
  <2>1. CASE op.filter = NoFilter
    <3>1. PICK x : x = [kind |-> "invalid"]
      OBVIOUS
    <3>2. Statements(op) = <<x>> /\ x.kind = "invalid"
      BY <1>7, <2>1, <3>1 DEF Statements, purgeArchived
    <3> QED BY <1>3, <1>7, <3>2 DEF Composite
  <2>2. CASE op.filter # NoFilter
    <3>1. PICK x : x = [kind |-> IF op.dryRun THEN "count" ELSE "delete",
                        db |-> op.db, table |-> op.table, filter |-> op.filter]
      OBVIOUS
    <3>2. Statements(op) = <<x>> /\ x.kind \in {"count", "delete"}
      BY <1>7, <2>2, <3>1 DEF Statements, purgeArchived
    <3> QED BY <1>3, <1>7, <3>2 DEF Composite
  <2> QED BY <2>1, <2>2
<1>8. CASE op.kind = "createTable"
  BY <1>8 DEF Composite
<1> QED BY <1>1, <1>2, <1>4, <1>5, <1>6, <1>7, <1>8 DEF Composite

\* Who sends a statement that makes a table or an index.
LEMMA WhoMakes ==
    ASSUME IndexesAreCreateTables, NEW op \in Given, NEW st, Stems(st, op),
           st.kind \in Setting \cup {"create table"}
    PROVE  /\ op.kind = "createTable" /\ st.table = op.def.name
           /\ \A db : Within(db, st) = db
           /\ st.kind = "create table" => st.def = op.def
           /\ st.kind \in Setting => \E j \in 1..Len(op.def.indexes) : st = createIndex(op.def.name, op.def.indexes[j])
<1>1. PICK j \in DOMAIN Statements(op) : st = Statements(op)[j]
  BY DEF Stems, Setting, Listing
<1>2. op.kind = "createTable"
  <2>1. CASE op.kind \notin Composite
    <3>1. st = op.statement
      BY <1>1, <2>1, StatementIs
    <3> QED BY <2>1, <3>1 DEF IndexesAreCreateTables, Setting
  <2>2. CASE op.kind = "insertMany"
    <3>1. st = insertMany(op)[j] /\ j \in DOMAIN insertMany(op)
      BY <1>1, <2>2, StatementIs
    <3>2. st.kind = "insert"
      BY <3>1 DEF insertMany
    <3> QED BY <3>2 DEF Setting
  <2>3. CASE op.kind \in Composite \ {"createTable", "insertMany"}
    <3>1. st.kind \in {"count", "show partitions", "use", "show tables", "export", "invalid", "delete"}
      BY <1>1, <2>3, StatementIs
    <3> QED BY <3>1 DEF Setting
  <2> QED BY <2>1, <2>2, <2>3
<1>3. PICK all, S : all = op.def.indexes /\ all \in Seq(S)
  BY <1>2, CreateTableIs
<1>4. PICK n : n = Len(all) /\ n \in Nat
  BY <1>3, SeqDomain
<1>5. j = 1 \/ \E k \in 1..Len(all) : j = k + 1
  <2>1. DOMAIN Statements(op) = 1..(n + 1)
    BY <1>2, <1>3, <1>4, CreateTableIs
  <2>2. j \in 1..(n + 1)
    BY <1>1, <2>1
  <2> QED BY <1>4, <2>2, After1
<1>6. CASE j = 1
  <2>1. st = Creation(op)
    BY <1>1, <1>2, <1>6, CreateTableIs
  <2> QED BY <1>2, <2>1 DEF Creation, Setting, Within
<1>7. ASSUME NEW k \in 1..Len(all), j = k + 1
      PROVE  /\ st = createIndex(op.def.name, all[k])
             /\ st.kind # "create table" /\ st.table = op.def.name /\ \A db : Within(db, st) = db
  <2>1. PICK index, t : index = all[k] /\ t = op.def.name
    OBVIOUS
  <2>2. st = createIndex(t, index)
    <3>1. Statements(op)[k + 1] = createIndex(op.def.name, op.def.indexes[k])
      BY <1>2, <1>3, <1>7, CreateTableIs
    <3> QED BY <1>1, <1>3, <1>7, <2>1, <3>1
  <2>3. st = [kind |-> "set bloom filter", table |-> t, columns |-> index.columns]
        \/ st = [kind |-> "create index", table |-> t, index |-> index.name]
        \/ st.kind = "invalid"
    BY <2>2 DEF createIndex
  <2>4. st.kind # "create table" /\ st.table = t /\ "db" \notin DOMAIN st
    <3>1. st.kind # "invalid"
      BY DEF Setting
    <3>2. CASE st = [kind |-> "set bloom filter", table |-> t, columns |-> index.columns]
      BY <3>2
    <3>3. CASE st = [kind |-> "create index", table |-> t, index |-> index.name]
      BY <3>3
    <3> QED BY <2>3, <3>1, <3>2, <3>3
  <2> QED BY <2>1, <2>2, <2>4 DEF Within
<1> QED BY <1>2, <1>3, <1>5, <1>6, <1>7

Creates(st, t) == st.kind = "create table" /\ st.table = t

LEMMA CreationIs == ASSUME NEW op PROVE Creates(Creation(op), op.def.name)
BY DEF Creates, Creation

\* What is built stays so, and the next index comes on top.
LEMMA EffectBuilds ==
    ASSUME IndexesAreCreateTables, ServerOK(server), NEW st, Names(st), Effect(Home, st),
           NEW t, t \notin history'.dropped, ~history'.roamed, NEW op \in Given, Stems(st, op),
           NEW S, NEW all, all \in Seq(S), OneBloom(all), Begun(t, all),
           st.kind \in Setting /\ st.table = t =>
               \E j \in Nat : j < Len(all) /\ st = createIndex(t, all[j + 1]) /\ Built(server, t, all, j)
    PROVE  /\ Begun(t, all)'
           /\ \A i \in Nat : Built(server, t, all, i) => Built(server', t, all, i)
           /\ Creates(st, t) => HasTable(server', Home, t)
           /\ \A j \in Nat : /\ j < Len(all) /\ st = createIndex(t, all[j + 1]) /\ st.kind # "invalid"
                             /\ Built(server, t, all, j)
                             => Built(server', t, all, j + 1)
<1>1. PICK new : new = server' /\ new = After(server, Home, st) /\ Accepts(server, Home, st)
  BY DEF Effect
<1>2. st.kind \in Setting \cup {"create table"} => Within(Home, st) = Home
  BY WhoMakes
<1>3. Creates(st, t) => HasTable(new, Home, t)
  <2> SUFFICES ASSUME st.kind = "create table", st.table = t PROVE HasTable(new, Home, t)
    BY DEF Creates
  <2>1. CASE HasTable(server, Home, t)
    <3>1. new = server
      BY <1>1, <1>2, <2>1 DEF After
    <3> QED BY <2>1, <3>1
  <2>2. CASE ~HasTable(server, Home, t)
    <3>1. Home \in DOMAIN server.tables
      BY <1>1, <1>2 DEF Accepts
    <3>2. PICK table : table = EmptyTable(st.def)
      OBVIOUS
    <3>3. new = ChangeTable(server, Home, t, table)
      BY <1>1, <1>2, <2>2, <3>2 DEF After
    <3> QED BY <3>1, <3>3, ChangeOne
  <2> QED BY <2>1, <2>2
<1>4. CASE ~HasTable(server, Home, t)
  <2>1. \A i : ~Built(server, t, all, i)
    BY <1>4 DEF Built
  <2>2. ASSUME HasTable(new, Home, t) PROVE Built(new, t, all, 0)
    <3>1. PICK table : table = EmptyTable(st.def)
      OBVIOUS
    <3>2. new.tables[Home][t] = table
      BY <1>1, <1>4, <2>2, <3>1, NotCreated
    <3>3. Formed(table) /\ table.indexes = {} /\ table.bloom = <<>>
      BY <3>1 DEF EmptyTable, Formed
    <3>4. PICK p : p = Prefix(all, 0)
      OBVIOUS
    <3>5. Len(all) \in Nat
      OBVIOUS
    <3>6. DOMAIN p = {}
      <4>1. DOMAIN p = 1..0
        BY <3>4, <3>5, SeqPrefix DEF Prefix
      <4> QED BY <4>1
    <3>7. NamesOf(p) = {} /\ BloomOf(p) = <<>>
      BY <3>6 DEF NamesOf, BloomOf, Blooms
    <3> QED BY <2>2, <3>2, <3>3, <3>4, <3>5, <3>7 DEF Built, Has
  <2> QED BY <1>1, <1>3, <2>1, <2>2 DEF Begun
<1>5. CASE HasTable(server, Home, t)
  <2>1. Built(server, t, all, 0) /\ Formed(server.tables[Home][t])
    BY <1>5 DEF Begun, Built
  <2>2. CASE st.kind \in Setting /\ st.table = t
    <3>1. PICK j \in Nat : j < Len(all) /\ st = createIndex(t, all[j + 1]) /\ Built(server, t, all, j)
      BY <2>2
    <3>2. st.kind # "invalid"
      BY <2>2 DEF Setting
    <3>3. \A i \in Nat : Built(server, t, all, i) => Built(new, t, all, i)
      BY <1>1, <1>2, <2>2, <3>1, <3>2, IndexSet
    <3>4. \A i \in Nat : /\ i < Len(all) /\ st = createIndex(t, all[i + 1]) /\ Built(server, t, all, i)
                         => Built(new, t, all, i + 1)
      BY <1>1, <1>2, <2>2, <3>2, IndexSet
    <3>5. Built(new, t, all, 0)
      BY <2>1, <3>3
    <3> QED BY <1>1, <1>3, <3>3, <3>4, <3>5 DEF Begun
  <2>3. CASE ~(st.kind \in Setting /\ st.table = t)
    <3>1. Alone(Home, st, t)
      <4>1. ~(st.kind = "drop database" /\ st.db = Home)
        BY DEF Effect
      <4>2. ~(st.kind \in {"drop table", "drop index"} /\ st.table = t)
        BY DEF Effect
      <4> QED BY <2>3, <4>1, <4>2 DEF Alone, IndexKinds, Setting
    <3>2. /\ HasTable(new, Home, t) /\ Formed(new.tables[Home][t])
          /\ new.tables[Home][t].indexes = server.tables[Home][t].indexes
          /\ new.tables[Home][t].bloom = server.tables[Home][t].bloom
      BY <1>1, <1>5, <2>1, <3>1, IndexesStay
    <3>3. \A i : Built(server, t, all, i) => Built(new, t, all, i)
      BY <3>2 DEF Built, Has
    <3>4. Built(new, t, all, 0)
      BY <2>1, <3>3
    <3>5. ASSUME NEW j \in Nat, st = createIndex(t, all[j + 1]), st.kind # "invalid"
          PROVE  Built(new, t, all, j + 1)
      <4>1. PICK index : index = all[j + 1]
        OBVIOUS
      <4>2. st.kind = "invalid" \/ (st.kind \in Setting /\ st.table = t)
        BY <3>5, <4>1 DEF createIndex, Setting
      <4> QED BY <2>3, <3>5, <4>2
    <3> QED BY <1>1, <1>3, <3>3, <3>4, <3>5 DEF Begun
  <2> QED BY <2>2, <2>3
<1> QED BY <1>4, <1>5

LEMMA OneBloomOnly ==
    ASSUME NEW S, NEW all, all \in Seq(S), Cardinality(Blooms(all)) <= 1
    PROVE  OneBloom(all)
<1>1. PICK n, B : B = Blooms(all) /\ n = Len(all)
  OBVIOUS
<1>2. n \in Nat /\ DOMAIN all = 1..n
  BY <1>1
<1>3. IsFiniteSet(1..n)
  BY <1>2, FS_Interval
<1>4. B \subseteq 1..n
  BY <1>1, <1>2 DEF Blooms
<1>5. IsFiniteSet(B)
  BY <1>3, <1>4, FS_Subset
<1>6. Cardinality(B) \in Nat
  BY <1>5, FS_CardinalityType
<1>7. Cardinality(B) = 0 \/ Cardinality(B) = 1
  BY <1>1, <1>6
<1>8. B = {} \/ \E x : B = {x}
  BY <1>5, <1>7, FS_EmptySet, FS_Singleton
<1> QED BY <1>1, <1>8 DEF OneBloom

\* The statement at the head of a caller's list, and where it stands in a createTable.
LEMMA HeadIs ==
    ASSUME CallsOK, WorkOK, NEW c \in Callers, call[c].stage # "idle"
    PROVE  call[c].op \in Given /\ call[c].op \in Called /\ Stems(Head(call[c].todo), call[c].op)
<1>1. PICK op, todo : op = call[c].op /\ todo = call[c].todo
  OBVIOUS
<1>2. op \in Called /\ op \in Ops
  BY <1>1 DEF Called, Under, Ops
<1>3. PICK S : todo \in Seq(S) /\ todo # <<>>
  BY <1>1 DEF CallsOK, Live
<1>4. 1 \in DOMAIN todo /\ Head(todo) = todo[1]
  BY <1>3
<1> QED BY <1>1, <1>2, <1>4 DEF WorkOK

\* The operations that create a table stay what they are.
LEMMA CreatingSame ==
    ASSUME HInv, Shape, NEW t
    PROVE  Creating(t)' = Creating(t) /\ CreatesOneWay(t)' = CreatesOneWay(t)
<1>1. \A op : op \in Ops /\ op.kind # "purgeArchived" <=> op \in Ops' /\ op.kind # "purgeArchived"
  BY OpsStep
<1>2. Creating(t)' = Creating(t)
  BY <1>1 DEF Creating
<1> QED BY <1>2 DEF CreatesOneWay

LEMMA CreatingIs ==
    ASSUME WorkOK, NEW t, CreatesOneWay(t), NEW op \in Creating(t)
    PROVE  LET all == op.def.indexes
           IN  /\ op \in Given /\ Makes(op, t) /\ OneBloom(all)
               /\ \E S : all \in Seq(S)
               /\ \A other \in Ops : Makes(other, t) => other.def.indexes = all
<1>1. op \in Given /\ Makes(op, t)
  BY DEF Creating, WorkOK, Makes
<1>2. PICK S, all : all = op.def.indexes /\ all \in Seq(S)
  BY <1>1, CreateTableIs DEF Makes
<1>3. OneBloom(all)
  BY <1>2, OneBloomOnly DEF CreatesOneWay
<1>4. \A other \in Ops : Makes(other, t) => other.def.indexes = all
  BY <1>2 DEF CreatesOneWay, Creating, Makes
<1> QED BY <1>1, <1>2, <1>3, <1>4

\* Where a createTable stands, and what the table has.
LEMMA HeadBuilds ==
    ASSUME IndexesAreCreateTables, CallsOK, WorkOK, NEW c \in Callers, call[c].stage # "idle",
           NEW t, NEW S, NEW all, all \in Seq(S),
           \A other \in Ops : Makes(other, t) => other.def.indexes = all, CallBuilds(c, t, all),
           NEW st, st = Head(call[c].todo), NEW op, op = call[c].op
    PROVE  /\ st.kind \in Setting /\ st.table = t =>
                 \E j \in Nat : j < Len(all) /\ st = createIndex(t, all[j + 1]) /\ Built(server, t, all, j)
           /\ Makes(op, t) =>
                 /\ Len(Statements(op)) = Len(all) + 1
                 /\ \E k : /\ Placed(call[c], k)
                           /\ k = 0 => Creates(st, t)
                           /\ k # 0 => /\ k - 1 \in Nat /\ k - 1 < Len(all)
                                       /\ st = createIndex(t, all[k]) /\ Built(server, t, all, k - 1)
<1>1. op \in Given /\ Stems(st, op) /\ op \in Ops
  BY HeadIs DEF Ops
<1>2. ASSUME Makes(op, t)
      PROVE  /\ Len(Statements(op)) = Len(all) + 1
             /\ \E k : /\ Placed(call[c], k)
                       /\ k = 0 => Creates(st, t)
                       /\ k # 0 => /\ k - 1 \in Nat /\ k - 1 < Len(all)
                                   /\ st = createIndex(t, all[k]) /\ Built(server, t, all, k - 1)
  <2>1. PICK k : Placed(call[c], k) /\ (k # 0 => Built(server, t, all, k - 1))
    BY <1>2 DEF CallBuilds
  <2>2. PICK T, s, n : s = Statements(op) /\ s \in Seq(T) /\ n = Len(all) /\ n \in Nat
    BY <1>1, <1>2, SteadySeq, SeqDomain DEF Makes, Steady
  <2>3. /\ op.def.indexes = all /\ op.def.name = t /\ op.kind = "createTable"
    BY <1>1, <1>2 DEF Makes
  <2>4. /\ Len(s) = n + 1
        /\ \A i \in 1..n : s[i + 1] = createIndex(t, all[i])
    BY <1>1, <2>2, <2>3, CreateTableIs
  <2>5. k \in Nat /\ k < n + 1 /\ call[c].todo = From(s, k)
    BY <2>1, <2>2, <2>4 DEF Placed
  <2>6. st = s[k + 1]
    BY <2>2, <2>4, <2>5, SeqAfter
  <2>7. CASE k = 0
    <3>1. s[1] = Creation(op)
      BY <1>1, <2>2, <2>3, CreateTableIs
    <3>2. Creates(s[1], t)
      BY <2>3, <3>1, CreationIs
    <3>3. st = s[1]
      BY <2>6, <2>7
    <3> QED BY <3>2, <3>3, <2>1, <2>2, <2>4, <2>6, <2>7, <3>1
  <2>8. CASE k # 0
    <3>1. k \in 1..n /\ k - 1 \in Nat /\ k - 1 < n
      BY <2>2, <2>5, <2>8
    <3> QED BY <2>1, <2>2, <2>4, <2>6, <2>8, <3>1
  <2> QED BY <2>7, <2>8
<1>3. ASSUME st.kind \in Setting, st.table = t
      PROVE  \E j \in Nat : j < Len(all) /\ st = createIndex(t, all[j + 1]) /\ Built(server, t, all, j)
  <2>1. Makes(op, t)
    BY <1>1, <1>3, WhoMakes DEF Makes
  <2>2. PICK k : /\ Placed(call[c], k)
                 /\ k = 0 => Creates(st, t)
                 /\ k # 0 => /\ k - 1 \in Nat /\ k - 1 < Len(all)
                             /\ st = createIndex(t, all[k]) /\ Built(server, t, all, k - 1)
    BY <1>2, <2>1
  <2>3. k # 0
    <3>1. ~Creates(st, t)
      BY <1>3 DEF Setting, Creates
    <3> QED BY <2>2, <3>1
  <2>4. (k - 1) + 1 = k
    BY <2>2 DEF Placed
  <2> QED BY <2>2, <2>3, <2>4
<1> QED BY <1>2, <1>3

More(t, all) == Begun(t, all)' /\ \A i \in Nat : Built(server, t, all, i) => Built(server', t, all, i)

\* What stays as it was while the table has more.
LEMMA BuildsStay ==
    ASSUME NEW t, NEW all, Len(all) \in Nat, More(t, all), Orderly(t, all)
    PROVE  /\ \A d \in Callers : Kept(d) => CallBuilds(d, t, all)'
           /\ \A d \in Callers : told'[d] = told[d] => ToldBuilds(d, t, all)'
           /\ \A l \in late : LateBuilds(l, t, all)'
<1>1. \A i \in Nat : Built(server, t, all, i) => Built(server', t, all, i)
  BY DEF More
<1>2. ASSUME NEW d \in Callers, Kept(d) PROVE CallBuilds(d, t, all)'
  <2>1. PICK r, s : r = call[d] /\ s = call'[d]
    OBVIOUS
  <2>2. SUFFICES ASSUME s.stage # "idle", Makes(s.op, t)
                 PROVE  \E k : Placed(s, k) /\ (k # 0 => Built(server', t, all, k - 1))
    BY <2>1 DEF CallBuilds
  <2>3. r.stage # "idle" /\ s.op = r.op /\ s.todo = r.todo
    BY <1>2, <2>1, <2>2 DEF Kept
  <2>4. PICK k : Placed(r, k) /\ (k # 0 => Built(server, t, all, k - 1))
    BY <2>1, <2>2, <2>3 DEF Orderly, CallBuilds
  <2>5. Placed(s, k) /\ k \in Nat
    BY <2>3, <2>4 DEF Placed
  <2>6. k # 0 => k - 1 \in Nat
    BY <2>5
  <2> QED BY <1>1, <2>4, <2>5, <2>6
<1>3. ASSUME NEW d \in Callers, told'[d] = told[d] PROVE ToldBuilds(d, t, all)'
  <2>1. ASSUME NEW i \in DOMAIN told[d], Makes(told[d][i].op, t), told[d][i].ok
        PROVE  Built(server', t, all, Len(all))
    <3>1. Built(server, t, all, Len(all))
      BY <2>1 DEF Orderly, ToldBuilds
    <3> QED BY <1>1, <3>1
  <2> QED BY <1>3, <2>1 DEF ToldBuilds
<1>4. ASSUME NEW l \in late PROVE LateBuilds(l, t, all)'
  <2>1. LateBuilds(l, t, all)
    BY DEF Orderly
  <2> QED BY <1>1, <2>1 DEF LateBuilds
<1> QED BY <1>2, <1>3, <1>4

LEMMA HistoryGrows ==
    ASSUME Shape
    PROVE  /\ history.roamed => history'.roamed
           /\ \A t : t \in history.dropped => t \in history'.dropped
<1>1. ASSUME NEW db, NEW st, Effect(db, st)
      PROVE  /\ history.roamed => history'.roamed
             /\ \A t : t \in history.dropped => t \in history'.dropped
  BY <1>1 DEF Effect
<1>2. ASSUME Unaffected
      PROVE  /\ history.roamed => history'.roamed
             /\ \A t : t \in history.dropped => t \in history'.dropped
  BY <1>2 DEF Unaffected
<1> QED BY <1>1, <1>2 DEF Shape, Rests, Lates, Begins, Fails, Replies

\* An effect on a table in order.
LEMMA EffectMore ==
    ASSUME IndexesAreCreateTables, HInv, WorkOK, NEW st, Effect(Home, st), Names(st),
           NEW t, t \notin history'.dropped, ~history'.roamed, NEW op \in Called, Stems(st, op),
           NEW S, NEW all, all \in Seq(S), OneBloom(all), Begun(t, all),
           st.kind \in Setting /\ st.table = t =>
               \E j \in Nat : j < Len(all) /\ st = createIndex(t, all[j + 1]) /\ Built(server, t, all, j)
    PROVE  /\ More(t, all)
           /\ Creates(st, t) => Built(server', t, all, 0)
           /\ \A j \in Nat : /\ j < Len(all) /\ st = createIndex(t, all[j + 1]) /\ st.kind # "invalid"
                             /\ Built(server, t, all, j)
                             => Built(server', t, all, j + 1)
<1>1. op \in Given
  BY DEF WorkOK, Called, Ops, Answered, Under
<1>2. ServerOK(server)
  BY DEF HInv, IInv
<1>3. /\ Begun(t, all)'
      /\ \A i \in Nat : Built(server, t, all, i) => Built(server', t, all, i)
      /\ Creates(st, t) => HasTable(server', Home, t)
      /\ \A j \in Nat : /\ j < Len(all) /\ st = createIndex(t, all[j + 1]) /\ st.kind # "invalid"
                        /\ Built(server, t, all, j)
                        => Built(server', t, all, j + 1)
  BY <1>1, <1>2, EffectBuilds
<1>4. Creates(st, t) => Built(server', t, all, 0)
  BY <1>3 DEF Begun
<1> QED BY <1>3, <1>4 DEF More

\* A caller whose statement was carried out.
LEMMA ReplyBuilds ==
    ASSUME IndexesAreCreateTables, HInv, WorkOK, NEW c \in Callers, Replies(c), ~history'.roamed, ~history.roamed,
           NEW t, t \notin history'.dropped, NEW S, NEW all, all \in Seq(S), OneBloom(all),
           \A other \in Ops : Makes(other, t) => other.def.indexes = all, Orderly(t, all)
    PROVE  Orderly(t, all)'
<1>1. CallsOK /\ ToldOK
  BY DEF HInv, IInv
<1>2. /\ late' = late /\ Advance(c, TRUE) /\ call[c].stage # "idle"
      /\ Effect(Home, Head(call[c].todo)) /\ Head(call[c].todo).kind # "invalid"
  BY DEF Replies, Advance
<1>3. PICK st, op : st = Head(call[c].todo) /\ op = call[c].op
  OBVIOUS
<1>4. op \in Called /\ op \in Given /\ Stems(st, op)
  BY <1>1, <1>2, <1>3, HeadIs
<1>5. Names(st)
  <2>1. PICK T : call[c].todo \in Seq(T) /\ call[c].todo # <<>> /\ \A x \in T : Lawful(c, x)
    BY <1>1, <1>2 DEF CallsOK, Live
  <2> QED BY <1>3, <2>1, SeqParts DEF Lawful
<1>6. /\ st.kind \in Setting /\ st.table = t =>
            \E j \in Nat : j < Len(all) /\ st = createIndex(t, all[j + 1]) /\ Built(server, t, all, j)
      /\ Makes(op, t) =>
            /\ Len(Statements(op)) = Len(all) + 1
            /\ \E k : /\ Placed(call[c], k)
                      /\ k = 0 => Creates(st, t)
                      /\ k # 0 => /\ k - 1 \in Nat /\ k - 1 < Len(all)
                                  /\ st = createIndex(t, all[k]) /\ Built(server, t, all, k - 1)
  BY <1>1, <1>2, <1>3, HeadBuilds DEF Orderly
<1>7. /\ More(t, all)
      /\ Creates(st, t) => Built(server', t, all, 0)
      /\ \A j \in Nat : /\ j < Len(all) /\ st = createIndex(t, all[j + 1]) /\ st.kind # "invalid"
                        /\ Built(server, t, all, j)
                        => Built(server', t, all, j + 1)
  BY <1>2, <1>3, <1>4, <1>5, <1>6, EffectMore DEF Orderly
<1>8. Len(all) \in Nat
  BY SeqDomain
<1>9. /\ \A d \in Callers : Kept(d) => CallBuilds(d, t, all)'
      /\ \A d \in Callers : told'[d] = told[d] => ToldBuilds(d, t, all)'
      /\ \A l \in late : LateBuilds(l, t, all)'
  BY <1>7, <1>8, BuildsStay
<1>10. \A d \in Callers \ {c} : Kept(d) /\ told'[d] = told[d]
  BY <1>1, <1>2, AnswerMore DEF Advance
<1>11. CallBuilds(c, t, all)' /\ ToldBuilds(c, t, all)'
  <2>1. CASE ~Makes(op, t)
    <3>1. CallBuilds(c, t, all)'
      BY <1>2, <1>3, <2>1 DEF Advance, CallBuilds
    <3>2. \A i \in DOMAIN told'[c] : \/ told'[c][i].op = op
                                     \/ i \in DOMAIN told[c] /\ told'[c][i] = told[c][i]
      <4>1. CASE told' = told
        BY <4>1
      <4>2. ASSUME NEW answer, told' = [told EXCEPT ![c] = Append(@, answer)], answer.op = op
            PROVE  \A i \in DOMAIN told'[c] : \/ told'[c][i].op = op
                                              \/ i \in DOMAIN told[c] /\ told'[c][i] = told[c][i]
        BY <1>1, <4>2, AnswerMore
      <4> QED BY <1>2, <1>3, <4>1, <4>2 DEF Advance
    <3>3. \A i \in DOMAIN told[c] : Makes(told[c][i].op, t) /\ told[c][i].ok => Built(server', t, all, Len(all))
      BY <1>7, <1>8 DEF Orderly, ToldBuilds, More
    <3>4. ToldBuilds(c, t, all)'
      BY <2>1, <3>2, <3>3 DEF ToldBuilds
    <3> QED BY <3>1, <3>4
  <2>2. CASE Makes(op, t)
    <3>1. PICK k : /\ Placed(call[c], k)
                   /\ k = 0 => Creates(st, t)
                   /\ k # 0 => /\ k - 1 \in Nat /\ k - 1 < Len(all)
                               /\ st = createIndex(t, all[k]) /\ Built(server, t, all, k - 1)
      BY <1>6, <2>2
    <3>2. k \in Nat
      BY <3>1 DEF Placed
    <3>3. Built(server', t, all, k)
      <4>1. CASE k = 0
        BY <1>7, <3>1, <4>1
      <4>2. CASE k # 0
        <5>1. (k - 1) + 1 = k
          BY <3>2
        <5> QED BY <1>2, <1>3, <1>7, <3>1, <4>2, <5>1
      <4> QED BY <4>1, <4>2
    <3>4. \/ /\ call'[c].stage # "idle" /\ call'[c].op = op /\ told' = told
             /\ Placed(call'[c], k + 1)
          \/ /\ call'[c].stage = "idle"
             /\ \E answer : /\ told' = [told EXCEPT ![c] = Append(@, answer)] /\ answer.op = op
                            /\ k + 1 = Len(Statements(op))
      <4>1. op.kind \in Steady
        BY <2>2 DEF Makes, Steady
      <4>2. Goes(c, op, k, TRUE)
        BY <1>2, <1>3, <1>4, <3>1, <4>1, PlacedAdvance
      <4> QED BY <4>2 DEF Goes
    <3>5. CASE /\ call'[c].stage # "idle" /\ call'[c].op = op /\ told' = told
               /\ Placed(call'[c], k + 1)
      <4>1. (k + 1) - 1 = k
        BY <3>2
      <4>2. CallBuilds(c, t, all)'
        BY <3>3, <3>5, <4>1 DEF CallBuilds
      <4> QED BY <1>9, <3>5, <4>2
    <3>6. ASSUME call'[c].stage = "idle", NEW answer, told' = [told EXCEPT ![c] = Append(@, answer)],
                 answer.op = op, k + 1 = Len(Statements(op))
          PROVE  CallBuilds(c, t, all)' /\ ToldBuilds(c, t, all)'
      <4>1. k = Len(all)
        BY <1>6, <1>8, <2>2, <3>2, <3>6
      <4>2. Built(server', t, all, Len(all))
        BY <3>3, <4>1
      <4> QED BY <3>6, <4>2 DEF CallBuilds, ToldBuilds
    <3> QED BY <3>4, <3>5, <3>6
  <2> QED BY <2>1, <2>2
<1>12. \A d \in Callers : CallBuilds(d, t, all)' /\ ToldBuilds(d, t, all)'
  BY <1>9, <1>10, <1>11
<1>13. \A l \in late' : LateBuilds(l, t, all)'
  BY <1>2, <1>9
<1>14. Begun(t, all)'
  BY <1>7 DEF More
<1> QED BY <1>12, <1>13, <1>14 DEF Orderly

LEMMA SameBuilt == ASSUME Unaffected, NEW t, NEW all, NEW i PROVE Built(server', t, all, i) <=> Built(server, t, all, i)
BY DEF Unaffected, Built, HasTable
LEMMA SameMore == ASSUME Unaffected, NEW t, NEW all, Begun(t, all) PROVE More(t, all)
BY SameBuilt DEF Unaffected, More, Begun, HasTable

\* A caller whose statement failed, or may still be carried out.
LEMMA FailBuilds ==
    ASSUME IndexesAreCreateTables, HInv, WorkOK, NEW c \in Callers, Fails(c), ~history.roamed,
           NEW t, NEW S, NEW all, all \in Seq(S),
           \A other \in Ops : Makes(other, t) => other.def.indexes = all, Orderly(t, all)
    PROVE  Orderly(t, all)'
<1>1. CallsOK /\ ToldOK
  BY DEF HInv, IInv
<1>2. /\ Unaffected /\ Advance(c, FALSE) /\ call[c].stage # "idle"
  BY DEF Fails, Advance
<1>3. PICK l : l.st = Head(call[c].todo) /\ (late' = late \cup {l} \/ late' = late)
  BY DEF Fails
<1>4. PICK st, op : st = Head(call[c].todo) /\ op = call[c].op
  OBVIOUS
<1>5. op \in Given
  BY <1>1, <1>2, <1>4, HeadIs
<1>6. /\ st.kind \in Setting /\ st.table = t =>
            \E j \in Nat : j < Len(all) /\ st = createIndex(t, all[j + 1]) /\ Built(server, t, all, j)
      /\ Makes(op, t) => \E k : Placed(call[c], k)
  BY <1>1, <1>2, <1>4, HeadBuilds DEF Orderly
<1>7. More(t, all) /\ Len(all) \in Nat
  BY <1>2, SameMore, SeqDomain DEF Orderly
<1>8. /\ \A d \in Callers : Kept(d) => CallBuilds(d, t, all)'
      /\ \A d \in Callers : told'[d] = told[d] => ToldBuilds(d, t, all)'
      /\ \A x \in late : LateBuilds(x, t, all)'
  BY <1>7, BuildsStay
<1>9. \A d \in Callers \ {c} : Kept(d) /\ told'[d] = told[d]
  BY <1>1, <1>2, AnswerMore DEF Advance
<1>10. LateBuilds(l, t, all)'
  BY <1>2, <1>3, <1>4, <1>6, SameBuilt DEF LateBuilds
<1>11. CallBuilds(c, t, all)' /\ ToldBuilds(c, t, all)'
  <2>1. CASE ~Makes(op, t)
    <3>1. CallBuilds(c, t, all)'
      BY <1>2, <1>4, <2>1 DEF Advance, CallBuilds
    <3>2. \A i \in DOMAIN told'[c] : \/ told'[c][i].op = op
                                     \/ i \in DOMAIN told[c] /\ told'[c][i] = told[c][i]
      <4>1. CASE told' = told
        BY <4>1
      <4>2. ASSUME NEW answer, told' = [told EXCEPT ![c] = Append(@, answer)], answer.op = op
            PROVE  \A i \in DOMAIN told'[c] : \/ told'[c][i].op = op
                                              \/ i \in DOMAIN told[c] /\ told'[c][i] = told[c][i]
        BY <1>1, <4>2, AnswerMore
      <4> QED BY <1>2, <1>4, <4>1, <4>2 DEF Advance
    <3>3. ToldBuilds(c, t, all)'
      BY <1>7, <2>1, <3>2 DEF Orderly, ToldBuilds, More
    <3> QED BY <3>1, <3>3
  <2>2. CASE Makes(op, t)
    <3>1. PICK k : Placed(call[c], k)
      BY <1>6, <2>2
    <3>2. Goes(c, op, k, FALSE)
      <4>1. op.kind \in Steady
        BY <2>2 DEF Makes, Steady
      <4> QED BY <1>2, <1>4, <1>5, <3>1, <4>1, PlacedAdvance
    <3>3. PICK answer : /\ told' = [told EXCEPT ![c] = Append(@, answer)] /\ answer.ok = FALSE
                        /\ call'[c].stage = "idle"
      BY <3>2 DEF Goes
    <3>4. \A i \in DOMAIN told'[c] : \/ told'[c][i].ok = FALSE
                                     \/ i \in DOMAIN told[c] /\ told'[c][i] = told[c][i]
      BY <1>1, <3>3, AnswerMore
    <3>5. ToldBuilds(c, t, all)'
      BY <1>7, <3>4 DEF Orderly, ToldBuilds, More
    <3> QED BY <3>3, <3>5 DEF CallBuilds
  <2> QED BY <2>1, <2>2
<1>12. \A d \in Callers : CallBuilds(d, t, all)' /\ ToldBuilds(d, t, all)'
  BY <1>8, <1>9, <1>11
<1>13. \A x \in late' : LateBuilds(x, t, all)'
  BY <1>3, <1>8, <1>10
<1>14. Begun(t, all)'
  BY <1>7 DEF More
<1> QED BY <1>12, <1>13, <1>14 DEF Orderly

\* A caller that calls an operation.
LEMMA BeginBuilds ==
    ASSUME IndexesAreCreateTables, HInv, WorkOK, WorkOK', NEW c \in Callers, Begins(c),
           NEW t, NEW all, Len(all) \in Nat, Orderly(t, all)
    PROVE  Orderly(t, all)'
<1>1. ToldOK
  BY DEF HInv, IInv
<1>2. PICK op : op = Head(left[c])
  OBVIOUS
<1>3. /\ Unaffected /\ late' = late /\ \A d \in Callers \ {c} : Kept(d)
      /\ \/ op.kind = "purgeArchived" /\ call'[c].stage = "idle" /\ told' = told
         \/ /\ call'[c].stage = "idle" /\ Statements(op) = <<>>
            /\ \E answer : told' = [told EXCEPT ![c] = Append(@, answer)] /\ answer.op = op
         \/ /\ call'[c].stage # "idle" /\ call'[c].op = op
            /\ call'[c].todo = Statements(op) /\ Statements(op) # <<>> /\ told' = told
  BY <1>2 DEF Begins
<1>4. More(t, all)
  BY <1>3, SameMore DEF Orderly
<1>5. /\ \A d \in Callers : Kept(d) => CallBuilds(d, t, all)'
      /\ \A d \in Callers : told'[d] = told[d] => ToldBuilds(d, t, all)'
      /\ \A x \in late : LateBuilds(x, t, all)'
  BY <1>4, BuildsStay
<1>6. CASE call'[c].stage = "idle" /\ told' = told
  <2>1. \A d \in Callers : CallBuilds(d, t, all)' /\ ToldBuilds(d, t, all)'
    BY <1>3, <1>5, <1>6 DEF CallBuilds
  <2> QED BY <1>3, <1>4, <1>5, <2>1 DEF Orderly, More
<1>7. ASSUME call'[c].stage = "idle", Statements(op) = <<>>,
             NEW answer, told' = [told EXCEPT ![c] = Append(@, answer)], answer.op = op
      PROVE  Orderly(t, all)'
  <2>1. /\ \A d \in Callers \ {c} : told'[d] = told[d]
        /\ \A i \in DOMAIN told'[c] : told'[c][i] = answer
                                      \/ (i \in DOMAIN told[c] /\ told'[c][i] = told[c][i])
        /\ \E i \in DOMAIN told'[c] : told'[c][i] = answer
    <3>1. told' = [told EXCEPT ![c] = Append(@, answer)]
      BY <1>7
    <3>2. \A d \in Callers \ {c} : told'[d] = told[d]
      BY <1>1, <3>1, AnswerMore
    <3>3. \A i \in DOMAIN told'[c] : told'[c][i] = answer
                                     \/ (i \in DOMAIN told[c] /\ told'[c][i] = told[c][i])
      BY <1>1, <3>1, AnswerMore
    <3>4. \E i \in DOMAIN told'[c] : told'[c][i] = answer
      BY <1>1, <3>1, AnswerMore
    <3> QED BY <3>2, <3>3, <3>4
  <2>2. ~Makes(op, t)
    <3>1. op \in Given
      <4>1. op \in Ops'
        BY <1>7, <2>1 DEF Ops
      <4> QED BY <4>1 DEF WorkOK
    <3>2. ASSUME op.kind = "createTable" PROVE FALSE
      <4>1. PICK S, T, defs, s : /\ defs = op.def.indexes /\ defs \in Seq(S)
                                 /\ s = Statements(op) /\ s \in Seq(T)
        BY <3>1, <3>2, CreateTableIs, SteadySeq DEF Steady
      <4>2. Len(s) = Len(defs) + 1 /\ Len(defs) \in Nat
        BY <3>1, <3>2, <4>1, CreateTableIs, SeqDomain
      <4> QED BY <1>7, <4>1, <4>2, SeqEmpty
    <3> QED BY <3>2 DEF Makes
  <2>3. ToldBuilds(c, t, all)'
    <3>1. \A i \in DOMAIN told[c] : Makes(told[c][i].op, t) /\ told[c][i].ok => Built(server', t, all, Len(all))
      BY <1>4 DEF Orderly, ToldBuilds, More
    <3> QED BY <1>7, <2>1, <2>2, <3>1 DEF ToldBuilds
  <2>4. \A d \in Callers : CallBuilds(d, t, all)' /\ ToldBuilds(d, t, all)'
    BY <1>3, <1>5, <1>7, <2>1, <2>3 DEF CallBuilds
  <2> QED BY <1>3, <1>4, <1>5, <2>4 DEF Orderly, More
<1>8. CASE /\ call'[c].stage # "idle" /\ call'[c].op = op
           /\ call'[c].todo = Statements(op) /\ Statements(op) # <<>> /\ told' = told
  <2>1. ASSUME Makes(op, t) PROVE Placed(call'[c], 0)
    <3>1. op \in Given
      <4>1. op \in Ops'
        BY <1>8 DEF Ops
      <4> QED BY <4>1 DEF WorkOK
    <3>2. PICK S, s : s = Statements(op) /\ s \in Seq(S)
      BY <2>1, <3>1, SteadySeq DEF Makes, Steady
    <3>3. 0 < Len(s)
      BY <1>8, <3>2
    <3>4. From(s, 0) = s
      BY <3>2, <3>3, SeqAfter
    <3> QED BY <1>8, <3>2, <3>3, <3>4 DEF Placed
  <2>2. CallBuilds(c, t, all)'
    BY <1>8, <2>1 DEF CallBuilds
  <2>3. \A d \in Callers : CallBuilds(d, t, all)' /\ ToldBuilds(d, t, all)'
    BY <1>3, <1>5, <1>8, <2>2
  <2> QED BY <1>3, <1>4, <1>5, <2>3 DEF Orderly, More
<1> QED BY <1>3, <1>6, <1>7, <1>8

LEMMA IndexStep ==
    ASSUME IndexesAreCreateTables, HInv, WorkOK, WorkOK', IndexOK, Shape
    PROVE  IndexOK'
<1> SUFFICES ASSUME ~history'.roamed, NEW t, t \notin history'.dropped, CreatesOneWay(t)',
                    NEW op \in Creating(t)'
             PROVE  Orderly(t, op.def.indexes)'
  BY DEF IndexOK
<1>1. ~history.roamed /\ t \notin history.dropped
  BY HistoryGrows
<1>2. CreatesOneWay(t) /\ op \in Creating(t)
  BY CreatingSame
<1>3. PICK all, S : all = op.def.indexes /\ all \in Seq(S)
  BY <1>2, CreatingIs
<1>4. /\ OneBloom(all) /\ Orderly(t, all) /\ Len(all) \in Nat
      /\ \A other \in Ops : Makes(other, t) => other.def.indexes = all
  <2>1. Orderly(t, all)
    BY <1>1, <1>2, <1>3 DEF IndexOK
  <2> QED BY <1>2, <1>3, <2>1, CreatingIs, SeqDomain
<1>5. ASSUME More(t, all), late' \subseteq late, told' = told, \A d \in Callers : Kept(d)
      PROVE  Orderly(t, all)'
  <2>1. /\ \A d \in Callers : CallBuilds(d, t, all)'
        /\ \A d \in Callers : ToldBuilds(d, t, all)'
        /\ \A l \in late' : LateBuilds(l, t, all)'
    BY <1>4, <1>5, BuildsStay
  <2> QED BY <1>5, <2>1 DEF Orderly, More
<1>6. CASE Rests
  <2>1. More(t, all)
    BY <1>4, <1>6, SameMore DEF Rests, Orderly
  <2>2. late' \subseteq late /\ told' = told /\ \A d \in Callers : Kept(d)
    BY <1>6 DEF Rests
  <2> QED BY <1>3, <1>5, <2>1, <2>2
<1>7. CASE Lates
  <2>1. PICK l \in late : late' = late \ {l} /\ Effect(l.db, l.st) /\ l.db = Home
    BY <1>1, <1>7 DEF Lates
  <2>2. PICK st : st = l.st
    OBVIOUS
  <2>3. PICK other \in Called : Stems(st, other)
    BY <2>2 DEF WorkOK
  <2>4. Names(st)
    BY <2>2 DEF HInv, IInv, LateOK, Lawful
  <2>5. st.kind \in Setting /\ st.table = t =>
            \E j \in Nat : j < Len(all) /\ st = createIndex(t, all[j + 1]) /\ Built(server, t, all, j)
    BY <1>4, <2>2 DEF Orderly, LateBuilds
  <2>6. More(t, all)
    BY <1>3, <1>4, <2>1, <2>2, <2>3, <2>4, <2>5, EffectMore DEF Orderly
  <2>7. late' \subseteq late /\ told' = told /\ \A d \in Callers : Kept(d)
    BY <1>7, <2>1 DEF Lates
  <2> QED BY <1>3, <1>5, <2>6, <2>7
<1>8. ASSUME NEW c \in Callers, Begins(c) PROVE Orderly(t, all)'
  BY <1>4, <1>8, BeginBuilds
<1>9. ASSUME NEW c \in Callers, Fails(c) PROVE Orderly(t, all)'
  BY <1>1, <1>3, <1>4, <1>9, FailBuilds
<1>10. ASSUME NEW c \in Callers, Replies(c) PROVE Orderly(t, all)'
  BY <1>1, <1>3, <1>4, <1>10, ReplyBuilds
<1> QED BY <1>3, <1>6, <1>7, <1>8, <1>9, <1>10 DEF Shape

LEMMA WorkInit == ASSUME Init PROVE WorkOK
<1>1. \A c \in Callers : call[c].stage = "idle"
  BY DEF Init, Idle
<1>2. \A c \in Callers : DOMAIN told[c] = {}
  <2>1. PICK none : none = <<>>
    OBVIOUS
  <2>2. told = [c \in Callers |-> none] /\ DOMAIN none = {}
    BY <2>1 DEF Init
  <2> QED BY <2>2
<1>3. Ops \subseteq Given
  <2>1. \A c \in Callers : ToSet(left[c]) \subseteq Given
    BY DEF Init, Given
  <2> QED BY <1>1, <1>2, <2>1 DEF Ops
<1>4. late = {}
  BY DEF Init
<1> QED BY <1>1, <1>3, <1>4 DEF WorkOK

LEMMA IndexInit == ASSUME IndexesAreCreateTables, Init PROVE IndexOK
<1>1. WorkOK
  BY WorkInit
<1>2. SUFFICES ASSUME NEW t, CreatesOneWay(t), NEW op \in Creating(t) PROVE Orderly(t, op.def.indexes)
  BY DEF IndexOK
<1>3. op \in Given /\ op.kind = "createTable" /\ op.def.name = t
  BY <1>1 DEF WorkOK, Creating
<1>4. PICK all : all = op.def.indexes
  OBVIOUS
<1>5. HasTable(Start, Home, t) =>
          /\ Formed(Start.tables[Home][t])
          /\ \E k \in 0..Len(all) : Has(Start.tables[Home][t], SubSeq(all, 1, k))
  BY <1>3, <1>4 DEF IndexesAreCreateTables, Formed
<1>6. Begun(t, all)
  BY <1>5 DEF Begun, Built, Prefix, Init
<1>7. \A c \in Callers : CallBuilds(c, t, all)
  BY DEF CallBuilds, Init, Idle
<1>8. \A c \in Callers : ToldBuilds(c, t, all)
  <2>1. PICK none : none = <<>>
    OBVIOUS
  <2>2. told = [c \in Callers |-> none] /\ DOMAIN none = {}
    BY <2>1 DEF Init
  <2> QED BY <2>2 DEF ToldBuilds
<1>9. late = {}
  BY DEF Init
<1> QED BY <1>4, <1>6, <1>7, <1>8, <1>9 DEF Orderly

LEMMA OrderlyIndexes ==
    ASSUME WorkOK, IndexOK
    PROVE  IndexesInOrder
<1> SUFFICES ASSUME ~history.roamed, Home \in DOMAIN server.tables,
                    NEW t \in DOMAIN server.tables[Home] \ history.dropped,
                    NEW op \in Creating(t), CreatesOneWay(t)
             PROVE  LET table == server.tables[Home][t]
                        all == op.def.indexes
                        returned == \E c \in Callers : \E i \in DOMAIN told[c] :
                                        told[c][i].op \in Creating(t) /\ told[c][i].ok
                    IN  /\ \E k \in 0..Len(all) : Has(table, SubSeq(all, 1, k))
                        /\ returned => Has(table, all)
  BY DEF IndexesInOrder
<1>1. PICK all, S : all = op.def.indexes /\ all \in Seq(S)
  BY CreatingIs
<1>2. Orderly(t, all)
  BY <1>1 DEF IndexOK
<1>3. HasTable(server, Home, t)
  BY DEF HasTable
<1>4. \E k \in 0..Len(all) : Has(server.tables[Home][t], SubSeq(all, 1, k))
  BY <1>2, <1>3 DEF Orderly, Begun, Built, Prefix
<1>5. ASSUME NEW c \in Callers, NEW i \in DOMAIN told[c], told[c][i].op \in Creating(t), told[c][i].ok
      PROVE  Has(server.tables[Home][t], all)
  <2>1. Makes(told[c][i].op, t)
    BY <1>5 DEF Creating, Makes
  <2>2. Built(server, t, all, Len(all))
    BY <1>2, <1>5, <2>1 DEF Orderly, ToldBuilds
  <2>3. PICK n : n = Len(all) /\ n \in Nat
    BY <1>1, SeqDomain
  <2>4. Has(server.tables[Home][t], Prefix(all, n))
    <3>1. \A k \in n..n : k = n
      BY <2>3
    <3> QED BY <2>2, <2>3, <3>1 DEF Built
  <2>5. Prefix(all, n) = all
    BY <1>1, <2>3, SeqPrefix DEF Prefix
  <2> QED BY <2>4, <2>5
<1> QED BY <1>1, <1>4, <1>5

(* However often createTable is called for one definition, by how many      *)
(* callers, refused or cut off, the table has the first of its indexes, and *)
(* all of them once a call has returned: until it or an index is dropped,   *)
(* or a session leaves the database (client.ts: createTable).               *)
THEOREM IndexesInOrderAlways ==
    ASSUME IndexesAreCreateTables
    PROVE  Spec => []IndexesInOrder
<1> DEFINE Inv == HInv /\ WorkOK /\ IndexOK
<1>1. Init => Inv
  BY HomeInit, WorkInit, IndexInit
<1>2. Inv /\ [Next]_vars => Inv'
  <2> SUFFICES ASSUME Inv, [Next]_vars PROVE Inv'
    OBVIOUS
  <2>1. Shape /\ HInv'
    BY ShapeStep
  <2>2. WorkOK'
    BY <2>1, WorkStep
  <2>3. IndexOK'
    BY <2>1, <2>2, IndexStep
  <2> QED BY <2>1, <2>2, <2>3
<1>3. Inv => IndexesInOrder
  BY OrderlyIndexes
<1> HIDE DEF Inv
<1> QED BY <1>1, <1>2, <1>3, PTL DEF Spec

(***************************************************************************)
(* Rows and labels                                                         *)
(***************************************************************************)
Copying(st) == st.kind \in {"insert select", "overwrite"}
Dropping(st, db) == st.kind = "drop database" /\ st.db = db

\* What becomes of the copies of r in the table t of d.
Row(s, d, t, r) == s.tables[d][t].rows[r]
RowBecomes(s, new, in, st, d, t, r) ==
    \/ HasTable(s, d, t) /\ Row(new, d, t, r) = Row(s, d, t, r)
    \/ Row(new, d, t, r) = 0
    \/ /\ st.kind = "insert" /\ d = in /\ t = st.table /\ HasTable(s, d, t)
       /\ Row(new, d, t, r) = Row(s, d, t, r) + Copies(st.rows)[r]
    \/ Copying(st)

LEMMA ChangeRow ==
    ASSUME NEW s, ServerOK(s), NEW in \in DOMAIN s.tables, NEW st, NEW table, NEW label, NEW r \in Rows,
           NEW new, new = Used(ChangeTable(s, in, st.table, table), in, label),
           \/ HasTable(s, in, st.table) /\ table.rows[r] = Row(s, in, st.table, r)
           \/ table.rows[r] = 0
           \/ /\ st.kind = "insert" /\ HasTable(s, in, st.table)
              /\ table.rows[r] = Row(s, in, st.table, r) + Copies(st.rows)[r]
           \/ Copying(st)
    PROVE  \A d, t : HasTable(new, d, t) => RowBecomes(s, new, in, st, d, t, r)
<1>1. PICK changed : changed = ChangeTable(s, in, st.table, table)
  OBVIOUS
<1>2. /\ \A d, t : HasTable(changed, d, t) /\ ~(d = in /\ t = st.table) =>
            HasTable(s, d, t) /\ changed.tables[d][t] = s.tables[d][t]
      /\ changed.tables[in][st.table] = table /\ DOMAIN changed = ServerFields
  BY <1>1, ChangeOne
<1>3. new.tables = changed.tables
  BY <1>1, <1>2, UsedSame
<1>4. SUFFICES ASSUME NEW d, NEW t, HasTable(new, d, t) PROVE RowBecomes(s, new, in, st, d, t, r)
  OBVIOUS
<1>5. CASE d = in /\ t = st.table
  <2>1. Row(new, d, t, r) = table.rows[r]
    BY <1>2, <1>3, <1>5 DEF Row
  <2> QED BY <1>5, <2>1 DEF RowBecomes
<1>6. CASE ~(d = in /\ t = st.table)
  <2>1. HasTable(changed, d, t)
    BY <1>3, <1>4 DEF HasTable
  <2>2. HasTable(s, d, t) /\ new.tables[d][t] = s.tables[d][t]
    BY <1>2, <1>3, <1>6, <2>1
  <2> QED BY <2>2 DEF RowBecomes, Row
<1> QED BY <1>5, <1>6

LEMMA RowsBecome ==
    ASSUME NEW s, ServerOK(s), NEW db, NEW st, Accepts(s, db, st), Names(st), NEW r \in Rows
    PROVE  LET new == After(s, db, st)
           IN  \A d, t : HasTable(new, d, t) => RowBecomes(s, new, Within(db, st), st, d, t, r)
<1> DEFINE in == Within(db, st)
           table == s.tables[in][st.table]
<1>0. PICK new : new = After(s, db, st)
  OBVIOUS
<1> DEFINE Become == \A d, t : HasTable(new, d, t) => RowBecomes(s, new, in, st, d, t, r)
<1> SUFFICES Become
  BY <1>0
<1>1. DOMAIN s = ServerFields
  BY DEF ServerOK
<1>2. ASSUME \A d, t : HasTable(new, d, t) => HasTable(s, d, t) /\ new.tables[d][t] = s.tables[d][t]
      PROVE  Become
  BY <1>2 DEF RowBecomes, Row
<1>3. ASSUME NEW other, in \in DOMAIN s.tables, new = ChangeTable(s, in, st.table, other),
             \/ HasTable(s, in, st.table) /\ other.rows[r] = Row(s, in, st.table, r)
             \/ other.rows[r] = 0
             \/ Copying(st)
      PROVE  Become
  <2>1. new = Used(ChangeTable(s, in, st.table, other), in, NoLabel)
    BY <1>3 DEF Used
  <2> QED BY <1>3, <2>1, ChangeRow
<1>4. CASE st.kind = "create database" /\ st.db \notin DOMAIN s.tables
  <2>0. PICK none : none = <<>>
    OBVIOUS
  <2>1. new = [s EXCEPT !.tables = With(@, st.db, <<>>)]
    BY <1>0, <1>4 DEF After
  <2>2. new = [s EXCEPT !.tables = With(@, st.db, none)] /\ DOMAIN none = {}
    BY <2>0, <2>1
  <2>3. new.tables = With(s.tables, st.db, none)
    BY <1>1, <2>2 DEF ServerFields
  <2>4. \A d \in DOMAIN new.tables : new.tables[d] = none \/ (d \in DOMAIN s.tables /\ new.tables[d] = s.tables[d])
    BY <2>3, WithOne
  <2> QED BY <1>2, <2>2, <2>4 DEF HasTable
<1>5. CASE st.kind = "drop database"
  <2>1. new = [s EXCEPT !.tables = Restrict(@, DOMAIN @ \ {st.db}), !.labels = {l \in @ : l[1] # st.db}]
    BY <1>0, <1>5 DEF After
  <2>2. new.tables = Restrict(s.tables, DOMAIN s.tables \ {st.db})
    BY <1>1, <2>1 DEF ServerFields
  <2>3. DOMAIN new.tables \subseteq DOMAIN s.tables /\ \A d \in DOMAIN new.tables : new.tables[d] = s.tables[d]
    BY <2>2 DEF Restrict
  <2> QED BY <1>2, <2>3 DEF HasTable
<1>6. CASE st.kind = "drop table"
  <2> DEFINE rest == Restrict(s.tables[in], DOMAIN s.tables[in] \ {st.table})
  <2>1. new = [s EXCEPT !.tables[in] = rest]
    BY <1>0, <1>6 DEF After
  <2>2. DOMAIN rest \subseteq DOMAIN s.tables[in] /\ \A t \in DOMAIN rest : rest[t] = s.tables[in][t]
    BY DEF Restrict
  <2> HIDE DEF rest
  <2>3. new.tables = [s.tables EXCEPT ![in] = rest]
    BY <1>1, <2>1 DEF ServerFields
  <2> QED BY <1>2, <2>2, <2>3 DEF HasTable
<1>7. CASE st.kind = "export"
  <2>1. new = [s EXCEPT !.files = @ \cup Exported(s, in, st)]
    BY <1>0, <1>7 DEF After
  <2>2. new.tables = s.tables
    BY <1>1, <2>1 DEF ServerFields
  <2> QED BY <1>2, <2>2 DEF HasTable
<1>8. CASE st.kind = "create table"
  <2>1. CASE HasTable(s, in, st.table)
    <3>1. new = s
      BY <1>0, <1>8, <2>1 DEF After
    <3> QED BY <1>2, <3>1
  <2>2. CASE ~HasTable(s, in, st.table)
    <3>1. in \in DOMAIN s.tables
      BY <1>8 DEF Accepts
    <3>2. PICK other : other = EmptyTable(st.def)
      OBVIOUS
    <3>3. new = ChangeTable(s, in, st.table, other)
      BY <1>0, <1>8, <2>2, <3>2 DEF After
    <3>4. other.rows[r] = 0
      BY <3>2 DEF EmptyTable
    <3> QED BY <1>3, <3>1, <3>3, <3>4
  <2> QED BY <2>1, <2>2
<1>9. CASE st.kind \in {"create index", "drop index", "set bloom filter", "delete", "overwrite"}
  <2>1. in \in DOMAIN s.tables /\ HasTable(s, in, st.table) /\ "rows" \in DOMAIN table
    BY <1>9 DEF Accepts, HasTable, ServerOK
  <2>2. ASSUME NEW other, new = ChangeTable(s, in, st.table, other), other.rows = table.rows PROVE Become
    BY <1>3, <2>1, <2>2 DEF Row
  <2>3. CASE st.kind = "create index"
    <3>1. PICK other : other = [table EXCEPT !.indexes = @ \cup {st.index}]
      OBVIOUS
    <3>2. new = ChangeTable(s, in, st.table, other)
      BY <1>0, <2>3, <3>1 DEF After
    <3>3. other.rows = table.rows
      <4> HIDE DEF table
      <4> QED BY <2>1, <3>1
    <3> QED BY <2>2, <3>2, <3>3
  <2>4. CASE st.kind = "drop index"
    <3>1. PICK other : other = [table EXCEPT !.indexes = @ \ {st.index}]
      OBVIOUS
    <3>2. new = ChangeTable(s, in, st.table, other)
      BY <1>0, <2>4, <3>1 DEF After
    <3>3. other.rows = table.rows
      <4> HIDE DEF table
      <4> QED BY <2>1, <3>1
    <3> QED BY <2>2, <3>2, <3>3
  <2>5. CASE st.kind = "set bloom filter"
    <3>1. PICK other : other = [table EXCEPT !.bloom = st.columns]
      OBVIOUS
    <3>2. new = ChangeTable(s, in, st.table, other)
      BY <1>0, <2>5, <3>1 DEF After
    <3>3. other.rows = table.rows
      <4> HIDE DEF table
      <4> QED BY <2>1, <3>1
    <3> QED BY <2>2, <3>2, <3>3
  <2>6. CASE st.kind = "delete"
    <3>1. PICK rows : rows = [x \in Rows |-> IF x \in Filtered(s, st) THEN 0 ELSE table.rows[x]]
      OBVIOUS
    <3>2. PICK other : other = [table EXCEPT !.rows = rows]
      OBVIOUS
    <3>3. new = ChangeTable(s, in, st.table, other)
      BY <1>0, <2>6, <3>1, <3>2 DEF After
    <3>4. other.rows[r] = 0 \/ other.rows[r] = table.rows[r]
      BY <2>1, <3>1, <3>2
    <3> QED BY <1>3, <2>1, <3>3, <3>4 DEF Row
  <2>7. CASE st.kind = "overwrite"
    <3>1. PICK other : other = [table EXCEPT !.rows = s.tables[in][st.from].rows]
      OBVIOUS
    <3>2. new = ChangeTable(s, in, st.table, other)
      BY <1>0, <2>7, <3>1 DEF After
    <3>3. Copying(st)
      BY <2>7 DEF Copying
    <3> QED BY <1>3, <2>1, <3>2, <3>3
  <2> QED BY <1>9, <2>3, <2>4, <2>5, <2>6, <2>7
<1>10. CASE st.kind = "insert"
  <2>1. in \in DOMAIN s.tables /\ HasTable(s, in, st.table) /\ "rows" \in DOMAIN table
    BY <1>10 DEF Accepts, HasTable, ServerOK
  <2>2. PICK rows : rows = Both(table.rows, Copies(st.rows))
    OBVIOUS
  <2>3. PICK other : other = [table EXCEPT !.rows = rows]
    OBVIOUS
  <2>4. new = Used(ChangeTable(s, in, st.table, other), in, st.label)
    BY <1>0, <1>10, <2>2, <2>3 DEF After
  <2>5. other.rows = rows /\ rows[r] = table.rows[r] + Copies(st.rows)[r]
    BY <2>1, <2>2, <2>3 DEF Both
  <2>6. other.rows[r] = Row(s, in, st.table, r) + Copies(st.rows)[r]
    BY <2>5 DEF Row
  <2> QED BY <1>10, <2>1, <2>4, <2>6, ChangeRow
<1>11. CASE st.kind = "insert select"
  <2>1. in \in DOMAIN s.tables
    BY <1>11 DEF Accepts, HasTable
  <2>2. PICK other : other = [table EXCEPT !.rows = Both(@, s.tables[in][st.from].rows)]
    OBVIOUS
  <2>3. new = Used(ChangeTable(s, in, st.table, other), in, st.label)
    BY <1>0, <1>11, <2>2 DEF After
  <2>4. Copying(st)
    BY <1>11 DEF Copying
  <2> QED BY <2>1, <2>3, <2>4, ChangeRow
<1>12. CASE ~(\/ st.kind \in {"create index", "drop index", "set bloom filter", "delete", "overwrite"}
              \/ st.kind \in {"create table", "insert", "insert select"}
              \/ st.kind = "create database" /\ st.db \notin DOMAIN s.tables
              \/ st.kind \in {"drop database", "drop table", "export"})
  <2>1. new = s
    BY <1>0, <1>12 DEF After
  <2> QED BY <1>2, <2>1
<1> HIDE DEF Become
<1> QED BY <1>4, <1>5, <1>6, <1>7, <1>8, <1>9, <1>10, <1>11, <1>12

LEMMA LabelsStay ==
    ASSUME NEW s, ServerOK(s), NEW db, NEW st, Accepts(s, db, st), Names(st), NEW x \in s.labels
    PROVE  x \in After(s, db, st).labels \/ Dropping(st, x[1])
<1> DEFINE in == Within(db, st)
<1>0. PICK new : new = After(s, db, st)
  OBVIOUS
<1>1. DOMAIN s = ServerFields
  BY DEF ServerOK
<1>2. Forms(s, new, db, st)
  BY <1>0, AllForms
<1>3. CASE st.kind = "drop database"
  <2>1. new = [s EXCEPT !.tables = Restrict(@, DOMAIN @ \ {st.db}), !.labels = {l \in @ : l[1] # st.db}]
    BY <1>0, <1>3 DEF After
  <2>2. new.labels = {l \in s.labels : l[1] # st.db}
    BY <1>1, <2>1 DEF ServerFields
  <2> QED BY <1>0, <1>3, <2>2 DEF Dropping
<1>4. CASE st.kind # "drop database"
  <2> SUFFICES x \in new.labels
    BY <1>0
  <2>1. ASSUME NEW table, NEW label, new = Used(ChangeTable(s, in, st.table, table), in, label)
        PROVE  x \in new.labels
    <3>1. PICK changed : changed = ChangeTable(s, in, st.table, table)
      OBVIOUS
    <3>2. changed.labels = s.labels /\ DOMAIN changed = ServerFields
      BY <1>1, <3>1 DEF ChangeTable, ServerFields
    <3> QED BY <2>1, <3>1, <3>2 DEF Used, ServerFields
  <2>2. CASE st.kind = "drop table"
    <3>1. new = [s EXCEPT !.tables[in] = Restrict(@, DOMAIN @ \ {st.table})]
      BY <1>0, <2>2 DEF After
    <3> QED BY <1>1, <3>1 DEF ServerFields
  <2>3. CASE st.kind = "export"
    <3>1. new = [s EXCEPT !.files = @ \cup Exported(s, in, st)]
      BY <1>0, <2>3 DEF After
    <3> QED BY <1>1, <3>1 DEF ServerFields
  <2>4. CASE st.kind = "create database" /\ st.db \notin DOMAIN s.tables
    <3>1. new = [s EXCEPT !.tables = With(@, st.db, <<>>)]
      BY <1>0, <2>4 DEF After
    <3> QED BY <1>1, <3>1 DEF ServerFields
  <2>5. CASE new = s
    BY <2>5
  <2>6. ASSUME NEW table, new = ChangeTable(s, in, st.table, table) PROVE x \in new.labels
    <3>1. new = Used(ChangeTable(s, in, st.table, table), in, NoLabel)
      BY <2>6 DEF Used
    <3> QED BY <2>1, <3>1
  <2>7. CASE st.kind \in {"create index", "drop index", "set bloom filter", "overwrite", "delete"}
    <3>1. \E table : new = ChangeTable(s, in, st.table, table)
      BY <1>0, <2>7 DEF After
    <3> QED BY <2>6, <3>1
  <2>8. CASE st.kind = "create table"
    <3>1. new = s \/ new = ChangeTable(s, in, st.table, EmptyTable(st.def))
      BY <1>0, <2>8 DEF After
    <3> QED BY <2>5, <2>6, <3>1
  <2>9. CASE st.kind \in {"insert", "insert select"}
    <3>1. \E table : new = Used(ChangeTable(s, in, st.table, table), in, st.label)
      BY <1>0, <2>9 DEF After
    <3> QED BY <2>1, <3>1
  <2>10. CASE ~(\/ st.kind \in {"create index", "drop index", "set bloom filter", "delete", "overwrite"}
                \/ st.kind \in {"create table", "insert", "insert select"}
                \/ st.kind = "create database" /\ st.db \notin DOMAIN s.tables
                \/ st.kind \in {"drop database", "drop table", "export"})
    <3>1. new = s
      BY <1>0, <2>10 DEF After
    <3> QED BY <3>1
  <2> QED BY <1>4, <2>2, <2>3, <2>4, <2>7, <2>8, <2>9, <2>10
<1> QED BY <1>3, <1>4

LEMMA LabelTaken ==
    ASSUME NEW s, ServerOK(s), NEW db, NEW st, Accepts(s, db, st), st.kind = "insert", st.label # NoLabel
    PROVE  LET in == Within(db, st)
           IN  <<in, st.label>> \notin s.labels /\ <<in, st.label>> \in After(s, db, st).labels
<1> DEFINE in == Within(db, st)
<1>1. DOMAIN s = ServerFields
  BY DEF ServerOK
<1>2. <<in, st.label>> \notin s.labels
  BY DEF Accepts
<1>3. PICK table : After(s, db, st) = Used(ChangeTable(s, in, st.table, table), in, st.label)
  BY DEF After
<1>4. PICK changed : changed = ChangeTable(s, in, st.table, table)
  OBVIOUS
<1>5. DOMAIN changed = ServerFields
  BY <1>1, <1>4 DEF ChangeTable, ServerFields
<1>6. <<in, st.label>> \in Used(changed, in, st.label).labels
  BY <1>5 DEF Used, ServerFields
<1> QED BY <1>2, <1>3, <1>4, <1>6

(***************************************************************************)
(* Batches                                                                 *)
(***************************************************************************)
LEMMA TimesPositive == ASSUME NEW n \in Nat, NEW b \in Nat \ {0}, n # 0 PROVE n * b \in Nat \ {0}
<1>1. PICK m \in Nat : n = m + 1
  <2>1. n - 1 \in Nat /\ n = (n - 1) + 1
    OBVIOUS
  <2> QED BY <2>1
<1>2. n * b = m * b + b
  BY <1>1
<1>3. m * b \in Nat
  BY <1>1
<1> QED BY <1>2, <1>3

LEMMA TimesGrows == ASSUME NEW m \in Nat, NEW n \in Nat, NEW b \in Nat, m < n PROVE m * b + b <= n * b
<1>1. PICK k \in Nat : n = m + 1 + k
  <2>1. n - (m + 1) \in Nat /\ n = m + 1 + (n - (m + 1))
    OBVIOUS
  <2> QED BY <2>1
<1>2. n * b = m * b + b + k * b
  BY <1>1
<1>3. k * b \in Nat /\ m * b \in Nat
  BY <1>1
<1> QED BY <1>2, <1>3

LEMMA SeqPart ==
    ASSUME NEW S, NEW s, s \in Seq(S), NEW i \in Nat, NEW e \in Nat, e <= Len(s)
    PROVE  /\ \A m \in DOMAIN SubSeq(s, i + 1, e) :
                 m \in Nat /\ i + m \in DOMAIN s /\ m > 0 /\ i + m <= e /\ SubSeq(s, i + 1, e)[m] = s[i + m]
OBVIOUS

LEMMA LabelPlaces ==
    ASSUME NEW S, NEW label, label \in Seq(S), NEW i \in Nat, NEW j \in Nat, label \o <<i>> = label \o <<j>>
    PROVE  i = j
<1>1. PICK T : label \in Seq(T) /\ <<i>> \in Seq(T) /\ <<j>> \in Seq(T)
  <2>1. label \in Seq(S \cup Nat) /\ <<i>> \in Seq(S \cup Nat) /\ <<j>> \in Seq(S \cup Nat)
    BY SeqWider, SeqOne
  <2> QED BY <2>1
<1>2. (label \o <<i>>)[Len(label) + 1] = i /\ (label \o <<j>>)[Len(label) + 1] = j
  BY <1>1
<1> QED BY <1>2

\* r is given once in rows.
OnceIn(r, rows) == \A i, j \in DOMAIN rows : rows[i] = r /\ rows[j] = r => i = j

Offset(op, j) == (j - 1) * op.batchSize

\* What the j-th statement of an insertMany is, with i rows before its own.
RowsFrom(op, i, rows) ==
    \A m \in DOMAIN rows : /\ m \in Nat /\ i + m \in DOMAIN op.rows /\ rows[m] = op.rows[i + m]
                           /\ m > 0 /\ m <= op.batchSize
IsBatch(op, i, st) ==
    /\ st.kind = "insert" /\ st.table = op.table /\ "db" \notin DOMAIN st
    /\ op.label # NoLabel => st.label = op.label \o <<i>>
    /\ i \in Nat
    /\ RowsFrom(op, i, st.rows)

LEMMA BatchIs ==
    ASSUME NEW op, WellFormed(op), op.kind = "insertMany", NEW j \in DOMAIN Statements(op)
    PROVE  j \in Nat \ {0} /\ IsBatch(op, Offset(op, j), Statements(op)[j])
<1> DEFINE st == Statements(op)[j]
<1>1. PICK S, rows, b : rows = op.rows /\ rows \in Seq(S) /\ b = op.batchSize /\ b \in Nat \ {0}
  BY DEF WellFormed, IsSequence
<1>2. PICK len : len = Len(rows) /\ len \in Nat
  BY <1>1, SeqDomain
<1>3. PICK n : n = (len + b - 1) \div b
  OBVIOUS
<1>4. n \in Nat
  <2>1. \A x \in Nat, y \in Nat \ {0} : x \div y \in Nat
    OBVIOUS
  <2>2. len + b - 1 \in Nat
    BY <1>1, <1>2
  <2> QED BY <1>1, <1>3, <2>1, <2>2
<1>5. PICK all : all = insertMany(op) /\ all = Statements(op) /\ DOMAIN all = 1..n
  <2>1. Statements(op) = insertMany(op)
    BY DEF Statements
  <2>2. insertMany(op) = [k \in 1..n |-> insertMany(op)[k]]
    BY <1>1, <1>2, <1>3 DEF insertMany
  <2> QED BY <2>1, <2>2
<1>6. j \in 1..n
  BY <1>5
<1>7. j \in Nat \ {0} /\ j - 1 \in Nat
  BY <1>4, <1>6
<1>8. PICK i : i = (j - 1) * b /\ i \in Nat
  BY <1>1, <1>7
<1>9. PICK end : end = IF i + b < len THEN i + b ELSE len
  OBVIOUS
<1>10. end \in Nat /\ end <= len /\ end <= i + b
  BY <1>1, <1>2, <1>8, <1>9
<1>11. st = [kind |-> "insert", table |-> op.table, rows |-> SubSeq(op.rows, i + 1, end),
             label |-> IF op.label = NoLabel THEN NoLabel ELSE op.label \o <<i>>]
  BY <1>1, <1>2, <1>3, <1>5, <1>6, <1>8, <1>9 DEF insertMany
<1>12. /\ st.kind = "insert" /\ st.table = op.table /\ "db" \notin DOMAIN st
       /\ st.rows = SubSeq(rows, i + 1, end)
       /\ op.label # NoLabel => st.label = op.label \o <<i>>
  <2>1. PICK label : label = IF op.label = NoLabel THEN NoLabel ELSE op.label \o <<i>>
    OBVIOUS
  <2>2. PICK part : part = SubSeq(rows, i + 1, end)
    OBVIOUS
  <2>3. st = [kind |-> "insert", table |-> op.table, rows |-> part, label |-> label]
    BY <1>1, <1>11, <2>1, <2>2
  <2>4. st.kind = "insert" /\ st.table = op.table /\ "db" \notin DOMAIN st /\ st.rows = part /\ st.label = label
    BY <2>3
  <2> QED BY <2>1, <2>2, <2>4
<1>13. Offset(op, j) = i
  <2>1. b = op.batchSize
    BY <1>1
  <2>2. Offset(op, j) = (j - 1) * b
    BY <2>1, Zenon DEF Offset
  <2> QED BY <1>8, <2>2
<1>14. \A m \in DOMAIN SubSeq(rows, i + 1, end) :
           m \in Nat /\ i + m \in DOMAIN rows /\ m > 0 /\ i + m <= end /\ SubSeq(rows, i + 1, end)[m] = rows[i + m]
  <2>1. i \in Nat /\ end <= Len(rows)
    BY <1>2, <1>8, <1>10
  <2> QED BY <1>1, <1>10, <2>1, SeqPart
<1>15. ASSUME NEW m \in DOMAIN st.rows
       PROVE  /\ m \in Nat /\ i + m \in DOMAIN op.rows /\ st.rows[m] = op.rows[i + m]
              /\ m > 0 /\ m <= op.batchSize
  <2>1. m \in Nat /\ i + m \in DOMAIN rows /\ m > 0 /\ i + m <= end /\ st.rows[m] = rows[i + m]
    BY <1>12, <1>14
  <2>2. m <= b
    BY <1>1, <1>8, <1>10, <2>1
  <2> QED BY <1>1, <2>1, <2>2
<1>16. RowsFrom(op, i, st.rows)
  BY <1>15 DEF RowsFrom
<1>17. IsBatch(op, i, st)
  BY <1>8, <1>12, <1>16 DEF IsBatch
<1> HIDE DEF st
<1> QED BY <1>7, <1>13, <1>17 DEF st

\* The first batch, and only that, has the label of the first row.
LEMMA FirstBatch ==
    ASSUME NEW op, WellFormed(op), op.kind = "insertMany", op.label # NoLabel,
           NEW j \in DOMAIN Statements(op), NEW st, st = Statements(op)[j]
    PROVE  st.label # NoLabel /\ (st.label = op.label \o <<0>> <=> j = 1)
<1>1. PICK S, label : label = op.label /\ label \in Seq(S)
  BY DEF WellFormed, IsSequence
<1>2. PICK i : i = Offset(op, j) /\ i \in Nat /\ st.label = label \o <<i>> /\ j \in Nat \ {0}
  <2>1. IsBatch(op, Offset(op, j), st) /\ j \in Nat \ {0}
    BY BatchIs
  <2> QED BY <1>1, <2>1 DEF IsBatch
<1>3. i = 0 <=> j = 1
  <2>1. op.batchSize \in Nat \ {0}
    BY DEF WellFormed
  <2>2. j = 1 => i = 0
    BY <1>2, <2>1 DEF Offset
  <2>3. ASSUME j # 1 PROVE i # 0
    <3>1. j - 1 \in Nat /\ j - 1 # 0
      BY <1>2, <2>3
    <3>2. (j - 1) * op.batchSize \in Nat \ {0}
      BY <2>1, <3>1, TimesPositive
    <3> QED BY <1>2, <3>2 DEF Offset
  <2> QED BY <2>2, <2>3
<1>4. label \o <<i>> = label \o <<0>> => i = 0
  BY <1>1, <1>2, LabelPlaces
<1>5. label \o <<i>> # <<>>
  <2>1. label \in Seq(S \cup Nat) /\ <<i>> \in Seq(S \cup Nat)
    BY <1>1, <1>2, SeqWider, SeqOne
  <2>2. Len(label \o <<i>>) = Len(label) + 1 /\ Len(label) \in Nat /\ label \o <<i>> \in Seq(S \cup Nat)
    BY <2>1
  <2> QED BY <2>2, SeqEmpty
<1> QED BY <1>1, <1>2, <1>3, <1>4, <1>5 DEF NoLabel

\* A row given once is in one batch, and there once.
LEMMA OneBatch ==
    ASSUME NEW op, WellFormed(op), op.kind = "insertMany", NEW r \in Rows, OnceIn(r, op.rows),
           NEW j \in DOMAIN Statements(op), NEW st, st = Statements(op)[j]
    PROVE  /\ r \in ToSet(st.rows) => r \in ToSet(op.rows) /\ Copies(st.rows)[r] = 1
           /\ r \notin ToSet(st.rows) => Copies(st.rows)[r] = 0
           /\ \A i \in DOMAIN Statements(op) :
                 r \in ToSet(st.rows) /\ r \in ToSet(Statements(op)[i].rows) => i = j
<1>1. PICK o : o = Offset(op, j) /\ o \in Nat /\ j \in Nat \ {0} /\ RowsFrom(op, o, st.rows)
  <2>1. IsBatch(op, Offset(op, j), st) /\ j \in Nat \ {0}
    BY BatchIs
  <2> QED BY <2>1 DEF IsBatch
<1>2. \A m \in DOMAIN st.rows : /\ m \in Nat /\ o + m \in DOMAIN op.rows /\ st.rows[m] = op.rows[o + m]
                                /\ m > 0 /\ m <= op.batchSize
  BY <1>1 DEF RowsFrom
<1>3. Copies(st.rows)[r] = Cardinality({m \in DOMAIN st.rows : st.rows[m] = r})
  BY DEF Copies
<1>4. ASSUME NEW m \in DOMAIN st.rows, st.rows[m] = r
      PROVE  r \in ToSet(op.rows) /\ Copies(st.rows)[r] = 1
  <2>1. \A k \in DOMAIN st.rows : st.rows[k] = r => k = m
    <3> SUFFICES ASSUME NEW k \in DOMAIN st.rows, st.rows[k] = r PROVE k = m
      OBVIOUS
    <3>1. o + k = o + m
      BY <1>2, <1>4 DEF OnceIn
    <3> QED BY <1>1, <1>2, <3>1
  <2>2. {k \in DOMAIN st.rows : st.rows[k] = r} = {m}
    BY <1>4, <2>1
  <2>3. r \in ToSet(op.rows)
    BY <1>2, <1>4 DEF ToSet
  <2> QED BY <1>3, <2>2, <2>3, FS_Singleton
<1>5. ASSUME r \notin ToSet(st.rows) PROVE Copies(st.rows)[r] = 0
  <2>1. {k \in DOMAIN st.rows : st.rows[k] = r} = {}
    BY <1>5 DEF ToSet
  <2> QED BY <1>3, <2>1, FS_EmptySet
<1>6. ASSUME NEW i \in DOMAIN Statements(op), r \in ToSet(st.rows), r \in ToSet(Statements(op)[i].rows)
      PROVE  i = j
  <2>1. PICK u, q : u = Statements(op)[i] /\ q = Offset(op, i) /\ q \in Nat /\ i \in Nat \ {0} /\ RowsFrom(op, q, u.rows)
    <3>1. IsBatch(op, Offset(op, i), Statements(op)[i]) /\ i \in Nat \ {0}
      BY BatchIs
    <3> QED BY <3>1 DEF IsBatch
  <2>2. PICK m \in DOMAIN st.rows : st.rows[m] = r
    BY <1>6 DEF ToSet
  <2>3. PICK k \in DOMAIN u.rows : u.rows[k] = r
    BY <1>6, <2>1 DEF ToSet
  <2>4. /\ k \in Nat /\ q + k \in DOMAIN op.rows /\ op.rows[q + k] = r /\ k > 0 /\ k <= op.batchSize
    BY <2>1, <2>3 DEF RowsFrom
  <2>5. q + k = o + m
    BY <1>2, <2>2, <2>4 DEF OnceIn
  <2>6. PICK b : b = op.batchSize /\ b \in Nat \ {0}
    BY DEF WellFormed
  <2>7. o = (j - 1) * b /\ q = (i - 1) * b /\ j - 1 \in Nat /\ i - 1 \in Nat
    BY <1>1, <2>1, <2>6 DEF Offset
  <2>8. ~(i - 1 < j - 1)
    <3> SUFFICES ASSUME i - 1 < j - 1 PROVE FALSE
      OBVIOUS
    <3>1. (i - 1) * b + b <= (j - 1) * b
      BY <2>6, <2>7, TimesGrows
    <3> QED BY <1>1, <1>2, <2>1, <2>2, <2>4, <2>5, <2>6, <2>7, <3>1
  <2>9. ~(j - 1 < i - 1)
    <3> SUFFICES ASSUME j - 1 < i - 1 PROVE FALSE
      OBVIOUS
    <3>1. (j - 1) * b + b <= (i - 1) * b
      BY <2>6, <2>7, TimesGrows
    <3> QED BY <1>1, <1>2, <2>1, <2>2, <2>4, <2>5, <2>6, <2>7, <3>1
  <2> QED BY <1>1, <2>1, <2>8, <2>9
<1> QED BY <1>4, <1>5, <1>6 DEF ToSet

(***************************************************************************)
(* Rows given under one label                                              *)
(***************************************************************************)
Givers(r) == {op \in Ops : Inserts(op, r)}
\* All who are given r are given it once, and under L.
Once(r, L) == \A op \in Givers(r) : /\ op.kind = "insertMany" /\ op.label # NoLabel /\ op.label = L
                                    /\ OnceIn(r, op.rows)
First(L) == L \o <<0>>
Gives(st, r) == st.kind = "insert" /\ r \in ToSet(st.rows)

\* What may still put r into a table without the label of a first batch to stop it.
CallThreat(c, r) ==
    /\ call[c].stage # "idle" /\ call[c].op \in Givers(r)
    /\ \E k : /\ Placed(call[c], k) /\ k # 0
              /\ \E j \in DOMAIN Statements(call[c].op) :
                    j > k /\ r \in ToSet(Statements(call[c].op)[j].rows)
LateThreat(l, r, L) == Gives(l.st, r) /\ l.st.label # First(L)
Threatened(r, L) == (\E c \in Callers : CallThreat(c, r)) \/ (\E l \in late : LateThreat(l, r, L))
OneThreat(r, L) ==
    /\ \A c, d \in Callers : CallThreat(c, r) /\ CallThreat(d, r) => c = d
    /\ \A l, m \in late : LateThreat(l, r, L) /\ LateThreat(m, r, L) => l = m
    /\ \A c \in Callers : \A l \in late : ~(CallThreat(c, r) /\ LateThreat(l, r, L))

Single(r) == \A d, t : HasTable(server, d, t) => Row(server, d, t, r) \in {0, 1}
Clear(r) == \A op \in Givers(r) : HasTable(server, Home, op.table) => Row(server, Home, op.table, r) = 0
UsedUp(L) == <<Home, First(L)>> \in server.labels
Safe(r, L) ==
    /\ Single(r) /\ OneThreat(r, L)
    /\ Threatened(r, L) => UsedUp(L) /\ Clear(r)
    /\ ~UsedUp(L) => Clear(r)
LabelOK == ~history.roamed => \A r \in Rows : \A L : Once(r, L) => Safe(r, L)

LEMMA GiversSame ==
    ASSUME HInv, Shape, NEW r
    PROVE  Givers(r)' = Givers(r)
<1>1. \A op : op \in Ops /\ op.kind # "purgeArchived" <=> op \in Ops' /\ op.kind # "purgeArchived"
  BY OpsStep
<1>2. \A op : Inserts(op, r) => op.kind # "purgeArchived"
  BY DEF Inserts, Composite
<1> QED BY <1>1, <1>2 DEF Givers

LEMMA NoCopies ==
    ASSUME NEW rows, NEW r \in Rows, r \notin ToSet(rows)
    PROVE  Copies(rows)[r] = 0
<1>1. {k \in DOMAIN rows : rows[k] = r} = {}
  BY DEF ToSet
<1>2. Copies(rows)[r] = Cardinality({k \in DOMAIN rows : rows[k] = r})
  BY DEF Copies
<1> QED BY <1>1, <1>2, FS_EmptySet

\* A statement that brings r is a batch of an insertMany that is given it.
LEMMA GiverIs ==
    ASSUME NEW r \in Rows, NEW L, Once(r, L), NEW op \in Ops, op \in Given, NEW st, Stems(st, op), Gives(st, r)
    PROVE  /\ op \in Givers(r) /\ op.kind = "insertMany" /\ st.table = op.table /\ Copies(st.rows)[r] = 1
           /\ "db" \notin DOMAIN st /\ st.label # NoLabel
           /\ \E j \in DOMAIN Statements(op) : st = Statements(op)[j] /\ (st.label = First(L) <=> j = 1)
<1>1. PICK j \in DOMAIN Statements(op) : st = Statements(op)[j]
  <2>1. st.kind \notin Listing
    BY DEF Gives, Listing
  <2> QED BY <2>1 DEF Stems
<1>2. WellFormed(op)
  BY GivenWell
<1>3. op.kind = "insertMany"
  <2>1. CASE op.kind \notin Composite
    <3>1. st = op.statement
      BY <1>1, <2>1, StatementIs
    <3>2. op \in Givers(r)
      BY <2>1, <3>1 DEF Gives, Givers, Inserts
    <3> QED BY <3>2 DEF Once
  <2>2. CASE op.kind = "createTable"
    <3>1. PICK n, def : def = op.def /\ n = Len(op.def.indexes)
      OBVIOUS
    <3>2. /\ DOMAIN Statements(op) = 1..(n + 1) /\ Statements(op)[1] = Creation(op)
          /\ \A k \in 1..n : Statements(op)[k + 1] = createIndex(op.def.name, op.def.indexes[k])
      BY <2>2, <3>1, CreateTableIs
    <3>3. n \in Nat
      BY <2>2, <3>1, CreateTableIs
    <3>4. Creation(op).kind # "insert"
      BY DEF Creation
    <3>5. \A index : createIndex(op.def.name, index).kind # "insert"
      BY DEF createIndex
    <3>6. j = 1 \/ \E k \in 1..n : j = k + 1
      BY <1>1, <3>2, <3>3, After1
    <3>7. st.kind # "insert"
      BY <1>1, <3>2, <3>4, <3>5, <3>6
    <3> QED BY <3>7 DEF Gives
  <2>3. CASE op.kind \in Composite \ {"createTable", "insertMany"}
    <3>1. st.kind \in {"count", "show partitions", "use", "show tables", "export", "invalid", "delete"}
      BY <1>1, <2>3, StatementIs
    <3> QED BY <3>1 DEF Gives
  <2> QED BY <2>1, <2>2, <2>3
<1>4. IsBatch(op, Offset(op, j), st)
  BY <1>1, <1>2, <1>3, BatchIs
<1>5. op \in Givers(r)
  <2>1. PICK m \in DOMAIN st.rows : st.rows[m] = r
    BY DEF Gives, ToSet
  <2>2. r \in ToSet(op.rows)
    BY <1>4, <2>1 DEF IsBatch, RowsFrom, ToSet
  <2> QED BY <1>3, <2>2 DEF Givers, Inserts
<1>6. op.label # NoLabel /\ op.label = L /\ OnceIn(r, op.rows)
  BY <1>5 DEF Once
<1>7. Copies(st.rows)[r] = 1
  BY <1>1, <1>2, <1>3, <1>6, OneBatch DEF Gives
<1>8. st.label # NoLabel /\ (st.label = First(L) <=> j = 1)
  BY <1>1, <1>2, <1>3, <1>6, FirstBatch DEF First
<1> QED BY <1>1, <1>3, <1>4, <1>5, <1>7, <1>8 DEF IsBatch

\* Nothing copies rows from table to table where r is given so.
LEMMA NoCopying ==
    ASSUME NEW r \in Rows, NEW L, Once(r, L), NEW op \in Ops, op \in Given, NEW st, Stems(st, op)
    PROVE  ~Copying(st)
<1> SUFFICES ASSUME Copying(st) PROVE FALSE
  OBVIOUS
<1>1. PICK j \in DOMAIN Statements(op) : st = Statements(op)[j]
  <2>1. st.kind \notin Listing
    BY DEF Copying, Listing
  <2> QED BY <2>1 DEF Stems
<1>2. CASE op.kind \notin Composite
  <2>1. st = op.statement
    BY <1>1, <1>2, StatementIs
  <2>2. op \in Givers(r)
    BY <1>2, <2>1 DEF Copying, Givers, Inserts
  <2> QED BY <1>2, <2>2 DEF Once, Composite
<1>3. CASE op.kind = "createTable"
  <2>1. PICK n : n = Len(op.def.indexes)
    OBVIOUS
  <2>2. /\ DOMAIN Statements(op) = 1..(n + 1) /\ Statements(op)[1] = Creation(op)
        /\ \A k \in 1..n : Statements(op)[k + 1] = createIndex(op.def.name, op.def.indexes[k])
    BY <1>3, <2>1, CreateTableIs
  <2>3. n \in Nat
    BY <1>3, <2>1, CreateTableIs
  <2>4. ~Copying(Creation(op))
    BY DEF Creation, Copying
  <2>5. \A index : ~Copying(createIndex(op.def.name, index))
    BY DEF createIndex, Copying
  <2>6. j = 1 \/ \E k \in 1..n : j = k + 1
    BY <1>1, <2>2, <2>3, After1
  <2> QED BY <1>1, <2>2, <2>4, <2>5, <2>6
<1>4. CASE op.kind = "insertMany"
  <2>1. IsBatch(op, Offset(op, j), st)
    BY <1>1, <1>4, GivenWell, BatchIs
  <2> QED BY <2>1 DEF IsBatch, Copying
<1>5. CASE op.kind \in Composite \ {"createTable", "insertMany"}
  <2>1. st.kind \in {"count", "show partitions", "use", "show tables", "export", "invalid", "delete"}
    BY <1>1, <1>5, StatementIs
  <2> QED BY <2>1 DEF Copying
<1> QED BY <1>2, <1>3, <1>4, <1>5

LEMMA UsedStays ==
    ASSUME ServerOK(server), NEW st, Names(st), Effect(Home, st), ~history'.roamed, NEW L, UsedUp(L)
    PROVE  UsedUp(L)'
<1>1. PICK x : x = <<Home, First(L)>> /\ x[1] = Home /\ x \in server.labels
  BY DEF UsedUp
<1>2. Accepts(server, Home, st) /\ server' = After(server, Home, st)
  BY DEF Effect
<1>3. ~Dropping(st, Home)
  BY DEF Effect, Dropping
<1>4. x \in server'.labels
  BY <1>1, <1>2, <1>3, LabelsStay
<1> QED BY <1>1, <1>4 DEF UsedUp

LEMMA FirstUsed ==
    ASSUME ServerOK(server), NEW st, Effect(Home, st), NEW L,
           st.kind = "insert", "db" \notin DOMAIN st, st.label = First(L), st.label # NoLabel
    PROVE  ~UsedUp(L) /\ UsedUp(L)'
<1>1. Accepts(server, Home, st) /\ server' = After(server, Home, st)
  BY DEF Effect
<1>2. Within(Home, st) = Home
  BY DEF Within
<1>3. <<Home, st.label>> \notin server.labels /\ <<Home, st.label>> \in server'.labels
  BY <1>1, <1>2, LabelTaken
<1> QED BY <1>3 DEF UsedUp

\* What a statement that is carried out does to a row.
LEMMA Fires ==
    ASSUME ServerOK(server), NEW st, Names(st), Effect(Home, st), NEW r \in Rows, NEW L, Once(r, L),
           NEW op \in Ops, op \in Given, Stems(st, op), Single(r), Gives(st, r) => Clear(r),
           Givers(r)' = Givers(r)
    PROVE  Single(r)' /\ (~Gives(st, r) /\ Clear(r) => Clear(r)')
<1>1. Accepts(server, Home, st) /\ server' = After(server, Home, st)
  BY DEF Effect
<1>2. ~Copying(st)
  BY NoCopying
<1>3. ASSUME NEW d, NEW t, HasTable(server', d, t)
      PROVE  \/ HasTable(server, d, t) /\ Row(server', d, t, r) = Row(server, d, t, r)
             \/ Row(server', d, t, r) = 0
             \/ Gives(st, r) /\ Row(server', d, t, r) = 1
  <2>1. RowBecomes(server, server', Within(Home, st), st, d, t, r)
    BY <1>1, <1>3, RowsBecome
  <2>2. CASE /\ st.kind = "insert" /\ d = Within(Home, st) /\ t = st.table /\ HasTable(server, d, t)
             /\ Row(server', d, t, r) = Row(server, d, t, r) + Copies(st.rows)[r]
    <3>1. PICK n, c : n = Row(server, d, t, r) /\ c = Copies(st.rows)[r]
      OBVIOUS
    <3>2. n \in {0, 1}
      BY <2>2, <3>1 DEF Single
    <3>3. CASE Gives(st, r)
      <4>1. op \in Givers(r) /\ st.table = op.table /\ "db" \notin DOMAIN st /\ c = 1
        BY <3>1, <3>3, GiverIs
      <4>2. d = Home
        BY <2>2, <4>1 DEF Within
      <4>3. n = 0
        BY <2>2, <3>1, <3>3, <4>1, <4>2 DEF Clear
      <4> QED BY <2>2, <3>1, <3>3, <4>1, <4>3
    <3>4. CASE ~Gives(st, r)
      <4>1. c = 0
        BY <2>2, <3>1, <3>4, NoCopies DEF Gives
      <4>2. Row(server', d, t, r) = n
        BY <2>2, <3>1, <3>2, <4>1
      <4> QED BY <2>2, <3>1, <4>2
    <3> QED BY <3>3, <3>4
  <2> QED BY <1>2, <2>1, <2>2 DEF RowBecomes
<1>4. Single(r)'
  BY <1>3 DEF Single
<1>5. ASSUME ~Gives(st, r), Clear(r) PROVE Clear(r)'
  BY <1>3, <1>5 DEF Clear
<1> QED BY <1>4, <1>5

LEMMA FromOnce ==
    ASSUME NEW S, NEW s, s \in Seq(S), NEW k \in Nat, k < Len(s), NEW m \in Nat, m < Len(s), From(s, k) = From(s, m)
    PROVE  k = m
<1>1. PICK n : n = Len(s) /\ n \in Nat
  OBVIOUS
<1>2. DOMAIN From(s, k) = 1..(n - k) /\ DOMAIN From(s, m) = 1..(n - m)
  BY <1>1 DEF From
<1>3. PICK a, b : a = n - k /\ b = n - m /\ a \in Nat \ {0} /\ b \in Nat \ {0}
  BY <1>1
<1>4. a \in 1..b /\ b \in 1..a
  BY <1>2, <1>3
<1>5. a = b
  BY <1>3, <1>4
<1> QED BY <1>1, <1>3, <1>5

LEMMA PlacedOnce ==
    ASSUME NEW x, x.op \in Given, x.op.kind \in Steady, NEW k, Placed(x, k), NEW m, Placed(x, m)
    PROVE  k = m
<1>1. PICK S, s, n : s = Statements(x.op) /\ s \in Seq(S) /\ n = Len(s) /\ n \in Nat
  BY SteadySeq, SeqDomain
<1>2. k \in Nat /\ m \in Nat /\ k < n /\ m < n /\ x.todo = From(s, k) /\ x.todo = From(s, m)
  BY <1>1 DEF Placed
<1> QED BY <1>1, <1>2, FromOnce

LEMMA ThreatKept ==
    ASSUME NEW r, NEW L, Givers(r)' = Givers(r), NEW d \in Callers, Kept(d), CallThreat(d, r)'
    PROVE  CallThreat(d, r)
<1>1. PICK x, y : x = call[d] /\ y = call'[d]
  OBVIOUS
<1>2. x.stage # "idle" /\ y.op = x.op /\ y.todo = x.todo
  BY <1>1 DEF Kept, CallThreat
<1>3. PICK k : /\ Placed(y, k) /\ k # 0 /\ y.op \in Givers(r)
               /\ \E j \in DOMAIN Statements(y.op) : j > k /\ r \in ToSet(Statements(y.op)[j].rows)
  BY <1>1 DEF CallThreat
<1>4. Placed(x, k)
  BY <1>2, <1>3 DEF Placed
<1> QED BY <1>1, <1>2, <1>3, <1>4 DEF CallThreat

\* A caller at a batch with r that is not its first is a threat.
LEMMA HeadThreat ==
    ASSUME CallsOK, WorkOK, NEW c \in Callers, call[c].stage # "idle", NEW r \in Rows, NEW L, Once(r, L),
           NEW st, st = Head(call[c].todo), Gives(st, r), st.label # First(L)
    PROVE  CallThreat(c, r)
<1>1. PICK op : op = call[c].op
  OBVIOUS
<1>2. op \in Given /\ op \in Ops /\ Stems(st, op)
  BY <1>1, HeadIs DEF Ops
<1>3. op \in Givers(r) /\ op.kind = "insertMany"
  BY <1>2, GiverIs
<1>4. PICK k : Placed(call[c], k)
  BY <1>1, <1>3 DEF WorkOK, Steady
<1>5. PICK S, s, n : s = Statements(op) /\ s \in Seq(S) /\ n = Len(s) /\ n \in Nat
  BY <1>2, <1>3, SteadySeq, SeqDomain DEF Steady
<1>6. k \in Nat /\ k < n /\ call[c].todo = From(s, k)
  BY <1>1, <1>4, <1>5 DEF Placed
<1>7. st = s[k + 1] /\ k + 1 \in DOMAIN s
  BY <1>5, <1>6, SeqAfter
<1>8. WellFormed(op) /\ op.label # NoLabel /\ op.label = L
  BY <1>2, <1>3, GivenWell DEF Once
<1>9. k + 1 # 1
  BY <1>3, <1>5, <1>7, <1>8, FirstBatch DEF First
<1>10. k # 0 /\ k + 1 > k
  BY <1>6, <1>9
<1>11. r \in ToSet(s[k + 1].rows)
  BY <1>7 DEF Gives
<1> QED BY <1>1, <1>3, <1>4, <1>5, <1>7, <1>10, <1>11 DEF CallThreat

\* A caller is a threat after a reply only if it was one or its first batch is in.
LEMMA NextThreat ==
    ASSUME CallsOK, WorkOK, NEW c \in Callers, NEW ok, Advance(c, ok), NEW r \in Rows, NEW L, Once(r, L),
           Givers(r)' = Givers(r), CallThreat(c, r)', NEW st, st = Head(call[c].todo)
    PROVE  /\ ok /\ ~Gives(st, r)
           /\ \/ CallThreat(c, r)
              \/ /\ st.kind = "insert" /\ "db" \notin DOMAIN st
                 /\ st.label = First(L) /\ st.label # NoLabel
<1>1. PICK x, y, op : x = call[c] /\ y = call'[c] /\ op = x.op
  OBVIOUS
<1>2. x.stage # "idle" /\ y.stage # "idle" /\ y.op = op
  BY <1>1 DEF Advance, CallThreat
<1>3. op \in Given /\ op \in Ops
  BY <1>1, <1>2, HeadIs DEF Ops
<1>4. op \in Givers(r)
  BY <1>1, <1>2 DEF CallThreat
<1>5. op.kind = "insertMany" /\ WellFormed(op) /\ op.label # NoLabel /\ op.label = L /\ OnceIn(r, op.rows)
  BY <1>3, <1>4, GivenWell DEF Once
<1>6. op.kind \in Steady
  BY <1>5 DEF Steady
<1>7. PICK k : Placed(x, k)
  BY <1>1, <1>2, <1>6 DEF WorkOK
<1>8. k + 1 \in DOMAIN Statements(op) /\ st = Statements(op)[k + 1] /\ Goes(c, op, k, ok)
  BY <1>1, <1>3, <1>6, <1>7, PlacedAdvance
<1>9. ok /\ Placed(y, k + 1)
  BY <1>1, <1>2, <1>8 DEF Goes
<1>10. PICK m, j : /\ Placed(y, m) /\ j \in DOMAIN Statements(op) /\ j > m
                   /\ r \in ToSet(Statements(op)[j].rows)
  BY <1>1, <1>2 DEF CallThreat
<1>11. m = k + 1
  BY <1>2, <1>3, <1>6, <1>9, <1>10, PlacedOnce
<1>12. k \in Nat /\ j \in Nat /\ j > k + 1
  <2>1. j \in Nat
    BY <1>5, <1>10, BatchIs
  <2> QED BY <1>7, <1>10, <1>11, <2>1 DEF Placed
<1>13. r \notin ToSet(st.rows)
  <2>1. j # k + 1
    BY <1>12
  <2> QED BY <1>5, <1>8, <1>10, <2>1, OneBatch
<1>14. CASE k # 0
  <2>1. j > k
    BY <1>12
  <2>2. CallThreat(c, r)
    BY <1>1, <1>2, <1>4, <1>7, <1>10, <1>14, <2>1 DEF CallThreat
  <2> QED BY <1>9, <1>13, <2>2 DEF Gives
<1>15. CASE k = 0
  <2>1. k + 1 = 1
    BY <1>15
  <2>2. st.label # NoLabel /\ st.label = First(L)
    BY <1>5, <1>8, <2>1, FirstBatch DEF First
  <2>3. IsBatch(op, Offset(op, k + 1), st)
    BY <1>5, <1>8, BatchIs
  <2> QED BY <1>9, <1>13, <2>2, <2>3 DEF Gives, IsBatch
<1> QED BY <1>14, <1>15

LEMMA Quiet ==
    ASSUME Unaffected, NEW r, NEW L, Givers(r)' = Givers(r)
    PROVE  /\ Single(r)' = Single(r) /\ Clear(r)' = Clear(r) /\ UsedUp(L)' = UsedUp(L)
BY DEF Unaffected, Single, Clear, UsedUp, HasTable, Row

\* Nothing new threatens, and what is known of the server stays.
LEMMA SafeStays ==
    ASSUME NEW r, NEW L, Safe(r, L), Givers(r)' = Givers(r),
           Single(r)', UsedUp(L) => UsedUp(L)', Clear(r) => Clear(r)',
           \A c \in Callers : CallThreat(c, r)' => CallThreat(c, r),
           \A l \in late' : LateThreat(l, r, L) => l \in late
    PROVE  Safe(r, L)'
<1>1. \A l : LateThreat(l, r, L)' <=> LateThreat(l, r, L)
  BY DEF LateThreat, Gives, First
<1>2. OneThreat(r, L)'
  BY <1>1 DEF OneThreat, Safe
<1>3. Threatened(r, L)' => Threatened(r, L)
  BY <1>1 DEF Threatened
<1> QED BY <1>2, <1>3 DEF Safe

\* Nothing threatens any more.
LEMMA SafeAtLast ==
    ASSUME NEW r, NEW L, Single(r)', UsedUp(L)',
           \A c \in Callers : ~CallThreat(c, r)',
           \A l \in late' : ~LateThreat(l, r, L)
    PROVE  Safe(r, L)'
<1>1. \A l : LateThreat(l, r, L)' <=> LateThreat(l, r, L)
  BY DEF LateThreat, Gives, First
<1> QED BY <1>1 DEF Safe, OneThreat, Threatened

LEMMA SafeLate ==
    ASSUME HInv, WorkOK, Shape, Lates, ~history.roamed, ~history'.roamed, NEW r \in Rows, NEW L, Once(r, L), Safe(r, L)
    PROVE  Safe(r, L)'
<1>1. PICK l \in late : late' = late \ {l} /\ Effect(l.db, l.st) /\ l.db = Home
  BY DEF Lates
<1>2. PICK st : st = l.st /\ Effect(Home, st)
  BY <1>1
<1>3. \A d \in Callers : Kept(d)
  BY DEF Lates
<1>4. ServerOK(server) /\ Names(st) /\ Givers(r)' = Givers(r)
  BY <1>2, GiversSame DEF HInv, IInv, LateOK, Lawful
<1>5. PICK op : op \in Ops /\ op \in Given /\ Stems(st, op)
  <2>1. PICK other \in Called : Stems(st, other)
    BY <1>2 DEF WorkOK
  <2>2. other \in Ops
    BY DEF Called, Answered, Under, Ops
  <2> QED BY <2>1, <2>2 DEF WorkOK
<1>6. \A d \in Callers : CallThreat(d, r)' => CallThreat(d, r)
  BY <1>3, <1>4, ThreatKept
<1>7. UsedUp(L) => UsedUp(L)'
  BY <1>2, <1>4, UsedStays
<1>8. ASSUME Gives(st, r)
      PROVE  Clear(r) /\ UsedUp(L)' /\ (\A d \in Callers : ~CallThreat(d, r))
             /\ \A m \in late \ {l} : ~LateThreat(m, r, L)
  <2>1. CASE st.label = First(L)
    <3>1. "db" \notin DOMAIN st /\ st.label # NoLabel /\ st.kind = "insert"
      BY <1>5, <1>8, GiverIs DEF Gives
    <3>2. ~UsedUp(L) /\ UsedUp(L)'
      BY <1>2, <1>4, <2>1, <3>1, FirstUsed
    <3> QED BY <3>2 DEF Safe, Threatened
  <2>2. CASE st.label # First(L)
    <3>1. LateThreat(l, r, L)
      BY <1>2, <1>8, <2>2 DEF LateThreat
    <3>2. Threatened(r, L)
      BY <3>1 DEF Threatened
    <3> QED BY <1>7, <3>1, <3>2 DEF Safe, OneThreat
  <2> QED BY <2>1, <2>2
<1>9. Single(r)' /\ (~Gives(st, r) /\ Clear(r) => Clear(r)')
  <2>1. Single(r)
    BY DEF Safe
  <2> QED BY <1>2, <1>4, <1>5, <1>8, <2>1, Fires
<1>10. CASE Gives(st, r)
  BY <1>1, <1>6, <1>8, <1>9, <1>10, SafeAtLast
<1>11. CASE ~Gives(st, r)
  BY <1>1, <1>4, <1>6, <1>7, <1>9, <1>11, SafeStays
<1> QED BY <1>10, <1>11

LEMMA SafeReply ==
    ASSUME HInv, WorkOK, Shape, NEW c \in Callers, Replies(c), ~history.roamed, ~history'.roamed,
           NEW r \in Rows, NEW L, Once(r, L), Safe(r, L)
    PROVE  Safe(r, L)'
<1>1. CallsOK /\ ServerOK(server) /\ Givers(r)' = Givers(r)
  BY GiversSame DEF HInv, IInv
<1>2. late' = late /\ Advance(c, TRUE) /\ call[c].stage # "idle" /\ Effect(Home, Head(call[c].todo))
  BY DEF Replies, Advance
<1>3. PICK st, op : st = Head(call[c].todo) /\ op = call[c].op /\ Effect(Home, st)
  BY <1>2
<1>4. op \in Ops /\ op \in Given /\ Stems(st, op)
  BY <1>1, <1>2, <1>3, HeadIs DEF Ops
<1>5. Names(st)
  <2>1. PICK T : call[c].todo \in Seq(T) /\ call[c].todo # <<>> /\ \A x \in T : Lawful(c, x)
    BY <1>1, <1>2 DEF CallsOK, Live
  <2> QED BY <1>3, <2>1, SeqParts DEF Lawful
<1>6. \A d \in Callers \ {c} : CallThreat(d, r)' => CallThreat(d, r)
  <2>1. \A d \in Callers \ {c} : Kept(d)
    BY <1>2 DEF Advance
  <2> QED BY <1>1, <2>1, ThreatKept
<1>7. UsedUp(L) => UsedUp(L)'
  BY <1>1, <1>3, <1>5, UsedStays
<1>8. CallThreat(c, r)' =>
          /\ ~Gives(st, r)
          /\ \/ CallThreat(c, r)
             \/ /\ st.kind = "insert" /\ "db" \notin DOMAIN st
                /\ st.label = First(L) /\ st.label # NoLabel
  BY <1>1, <1>2, <1>3, NextThreat
<1>9. ASSUME st.kind = "insert", "db" \notin DOMAIN st, st.label = First(L), st.label # NoLabel
      PROVE  /\ UsedUp(L)' /\ Clear(r)
             /\ \A d \in Callers : ~CallThreat(d, r)
             /\ \A l \in late : ~LateThreat(l, r, L)
  <2>1. ~UsedUp(L) /\ UsedUp(L)'
    BY <1>1, <1>3, <1>9, FirstUsed
  <2> QED BY <2>1 DEF Safe, Threatened
<1>10. ASSUME Gives(st, r)
       PROVE  /\ Clear(r) /\ UsedUp(L)'
              /\ \A d \in Callers \ {c} : ~CallThreat(d, r)
              /\ \A l \in late : ~LateThreat(l, r, L)
  <2>1. CASE st.label = First(L)
    <3>1. "db" \notin DOMAIN st /\ st.label # NoLabel /\ st.kind = "insert"
      BY <1>4, <1>10, GiverIs DEF Gives
    <3> QED BY <1>9, <2>1, <3>1
  <2>2. CASE st.label # First(L)
    <3>1. CallThreat(c, r)
      BY <1>1, <1>2, <1>3, <1>10, <2>2, HeadThreat
    <3>2. Threatened(r, L)
      BY <3>1 DEF Threatened
    <3> QED BY <1>7, <3>1, <3>2 DEF Safe, OneThreat
  <2> QED BY <2>1, <2>2
<1>11. Single(r)' /\ (~Gives(st, r) /\ Clear(r) => Clear(r)')
  <2>1. Single(r)
    BY DEF Safe
  <2> QED BY <1>1, <1>3, <1>4, <1>5, <1>10, <2>1, Fires
<1>12. CASE Gives(st, r)
  <2>1. \A d \in Callers : ~CallThreat(d, r)'
    BY <1>6, <1>8, <1>10, <1>12
  <2> QED BY <1>2, <1>10, <1>11, <1>12, <2>1, SafeAtLast
<1>13. CASE ~Gives(st, r) /\ (CallThreat(c, r)' => CallThreat(c, r))
  <2>1. \A d \in Callers : CallThreat(d, r)' => CallThreat(d, r)
    BY <1>6, <1>13
  <2> QED BY <1>1, <1>2, <1>7, <1>11, <1>13, <2>1, SafeStays
<1>14. CASE ~Gives(st, r) /\ CallThreat(c, r)' /\ ~CallThreat(c, r)
  <2>1. /\ UsedUp(L)' /\ Clear(r)
        /\ \A d \in Callers : ~CallThreat(d, r)
        /\ \A l \in late : ~LateThreat(l, r, L)
    BY <1>8, <1>9, <1>14
  <2>2. \A d \in Callers \ {c} : ~CallThreat(d, r)'
    BY <1>6, <2>1
  <2>3. \A l \in late' : ~LateThreat(l, r, L)'
    BY <1>2, <2>1 DEF LateThreat, Gives, First
  <2>4. OneThreat(r, L)'
    BY <2>2, <2>3 DEF OneThreat
  <2> QED BY <1>11, <1>14, <2>1, <2>4 DEF Safe
<1> QED BY <1>12, <1>13, <1>14

LEMMA SafeFail ==
    ASSUME HInv, WorkOK, Shape, NEW c \in Callers, Fails(c), NEW r \in Rows, NEW L, Once(r, L), Safe(r, L)
    PROVE  Safe(r, L)'
<1>1. CallsOK /\ Givers(r)' = Givers(r)
  BY GiversSame DEF HInv, IInv
<1>2. Unaffected /\ Advance(c, FALSE) /\ call[c].stage # "idle"
  BY DEF Fails, Advance
<1>3. PICK l : l.st = Head(call[c].todo) /\ (late' = late \cup {l} \/ late' = late)
  BY DEF Fails
<1>4. ~CallThreat(c, r)'
  <2>1. FALSE \in BOOLEAN
    OBVIOUS
  <2> QED BY <1>1, <1>2, NextThreat
<1>5. \A d \in Callers \ {c} : CallThreat(d, r)' => CallThreat(d, r)
  <2>1. \A d \in Callers \ {c} : Kept(d)
    BY <1>2 DEF Advance
  <2> QED BY <1>1, <2>1, ThreatKept
<1>6. Single(r)' /\ Clear(r)' = Clear(r) /\ UsedUp(L)' = UsedUp(L)
  BY <1>1, <1>2, Quiet DEF Safe
<1>7. LateThreat(l, r, L) => CallThreat(c, r)
  BY <1>1, <1>2, <1>3, HeadThreat DEF LateThreat
<1>8. CASE LateThreat(l, r, L)
  <2>1. CallThreat(c, r) /\ Threatened(r, L)
    BY <1>7, <1>8 DEF Threatened
  <2>2. /\ \A d \in Callers \ {c} : ~CallThreat(d, r)
        /\ \A m \in late : ~LateThreat(m, r, L)
    BY <2>1 DEF Safe, OneThreat
  <2>3. \A d \in Callers : ~CallThreat(d, r)'
    BY <1>4, <1>5, <2>2
  <2>4. \A m \in late' : LateThreat(m, r, L)' => m = l
    BY <1>3, <2>2 DEF LateThreat, Gives, First
  <2>5. OneThreat(r, L)'
    BY <2>3, <2>4 DEF OneThreat
  <2> QED BY <1>6, <2>1, <2>5 DEF Safe
<1>9. CASE ~LateThreat(l, r, L)
  <2>1. \A d \in Callers : CallThreat(d, r)' => CallThreat(d, r)
    BY <1>4, <1>5
  <2>2. \A m \in late' : LateThreat(m, r, L) => m \in late
    BY <1>3, <1>9
  <2> QED BY <1>1, <1>6, <2>1, <2>2, SafeStays
<1> QED BY <1>8, <1>9

LEMMA LabelStep ==
    ASSUME HInv, WorkOK, WorkOK', LabelOK, Shape
    PROVE  LabelOK'
<1> SUFFICES ASSUME ~history'.roamed, NEW r \in Rows, NEW L, Once(r, L)' PROVE Safe(r, L)'
  BY DEF LabelOK
<1>1. ~history.roamed /\ Givers(r)' = Givers(r)
  BY HistoryGrows, GiversSame
<1>2. Once(r, L)
  BY <1>1 DEF Once
<1>3. Safe(r, L)
  BY <1>1, <1>2 DEF LabelOK
<1>4. CASE Rests
  <2>1. \A d \in Callers : CallThreat(d, r)' => CallThreat(d, r)
    BY <1>1, <1>4, ThreatKept DEF Rests
  <2>2. Single(r)' /\ Clear(r)' = Clear(r) /\ UsedUp(L)' = UsedUp(L)
    BY <1>1, <1>3, <1>4, Quiet DEF Safe, Rests
  <2>3. late' = late
    BY <1>4 DEF Rests
  <2> QED BY <1>1, <1>3, <2>1, <2>2, <2>3, SafeStays
<1>5. CASE Lates
  BY <1>1, <1>2, <1>3, <1>5, SafeLate
<1>6. ASSUME NEW c \in Callers, Begins(c) PROVE Safe(r, L)'
  <2>1. Unaffected /\ late' = late /\ \A d \in Callers \ {c} : Kept(d)
    BY <1>6 DEF Begins
  <2>2. ~CallThreat(c, r)'
    <3> SUFFICES ASSUME CallThreat(c, r)' PROVE FALSE
      OBVIOUS
    <3>1. PICK y, op : y = call'[c] /\ op = y.op
      OBVIOUS
    <3>2. y.stage # "idle" /\ op \in Givers(r)
      BY <1>1, <3>1 DEF CallThreat
    <3>3. op \in Given /\ op.kind \in Steady
      BY <1>2, <3>2 DEF Once, Steady, Givers, WorkOK
    <3>4. y.todo = Statements(op) /\ Statements(op) # <<>>
      BY <1>6, <3>1, <3>2 DEF Begins
    <3>5. PICK S, s : s = Statements(op) /\ s \in Seq(S) /\ s # <<>>
      BY <3>3, <3>4, SteadySeq
    <3>6. 0 < Len(s)
      BY <3>5
    <3>7. Placed(y, 0)
      BY <3>1, <3>4, <3>5, <3>6, SeqAfter DEF Placed
    <3>8. PICK k : Placed(y, k) /\ k # 0
      BY <3>1 DEF CallThreat
    <3> QED BY <3>1, <3>3, <3>7, <3>8, PlacedOnce
  <2>3. \A d \in Callers : CallThreat(d, r)' => CallThreat(d, r)
    BY <1>1, <2>1, <2>2, ThreatKept
  <2>4. Single(r)' /\ Clear(r)' = Clear(r) /\ UsedUp(L)' = UsedUp(L)
    BY <1>1, <1>3, <2>1, Quiet DEF Safe
  <2> QED BY <1>1, <1>3, <2>1, <2>3, <2>4, SafeStays
<1>7. ASSUME NEW c \in Callers, Fails(c) PROVE Safe(r, L)'
  BY <1>2, <1>3, <1>7, SafeFail
<1>8. ASSUME NEW c \in Callers, Replies(c) PROVE Safe(r, L)'
  BY <1>1, <1>2, <1>3, <1>8, SafeReply
<1> QED BY <1>4, <1>5, <1>6, <1>7, <1>8 DEF Shape

LEMMA LabelInit == ASSUME RowsAreNew, Init PROVE LabelOK
<1>1. WorkOK
  BY WorkInit
<1>2. server = Start /\ late = {} /\ \A c \in Callers : call[c].stage = "idle"
  BY DEF Init, Idle
<1> SUFFICES ASSUME NEW r \in Rows, NEW L, Once(r, L) PROVE Safe(r, L)
  BY DEF LabelOK
<1>3. Single(r)
  BY <1>2 DEF Single, Row, HasTable, RowsAreNew
<1>4. \A op \in Givers(r) : op \in Given /\ op.kind = "insertMany" /\ r \in ToSet(op.rows)
  BY <1>1 DEF Givers, WorkOK, Once, Inserts, Composite
<1>5. Clear(r)
  BY <1>2, <1>4 DEF Clear, Row, RowsAreNew
<1>6. ~Threatened(r, L) /\ OneThreat(r, L)
  BY <1>2 DEF Threatened, OneThreat, CallThreat
<1> QED BY <1>3, <1>5, <1>6 DEF Safe

LEMMA LabelsHold ==
    ASSUME LabelOK
    PROVE  LabelledOnce
<1> SUFFICES ASSUME ~history.roamed, NEW db \in DOMAIN server.tables, NEW t \in DOMAIN server.tables[db],
                    NEW r \in Rows, GivenAsOne(r)
             PROVE  server.tables[db][t].rows[r] <= 1
  BY DEF LabelledOnce
<1>1. PICK L : Once(r, L)
  <2>1. CASE Givers(r) = {}
    BY <2>1 DEF Once
  <2>2. ASSUME NEW one \in Givers(r) PROVE \E L : Once(r, L)
    <3>1. \A op \in Givers(r) : /\ op.kind = "insertMany" /\ op.label # NoLabel /\ op.label = one.label
                                /\ OnceIn(r, op.rows)
      BY <2>2 DEF GivenAsOne, Givers, OnceIn
    <3> QED BY <3>1 DEF Once
  <2> QED BY <2>1, <2>2
<1>2. Single(r)
  BY <1>1 DEF LabelOK, Safe
<1>3. Row(server, db, t, r) \in {0, 1}
  BY <1>2 DEF Single, HasTable
<1> QED BY <1>3 DEF Row

(* Rows given under one label, as often as one likes, in batches of any     *)
(* size and by any number of callers, land at most once, whichever sessions *)
(* break (client.ts: insertMany).                                           *)
THEOREM LabelledOnceAlways ==
    ASSUME RowsAreNew
    PROVE  Spec => []LabelledOnce
<1> DEFINE Inv == HInv /\ WorkOK /\ LabelOK
<1>1. Init => Inv
  BY HomeInit, WorkInit, LabelInit
<1>2. Inv /\ [Next]_vars => Inv'
  <2> SUFFICES ASSUME Inv, [Next]_vars PROVE Inv'
    OBVIOUS
  <2>1. Shape /\ HInv'
    BY ShapeStep
  <2>2. WorkOK'
    BY <2>1, WorkStep
  <2>3. LabelOK'
    BY <2>1, <2>2, LabelStep
  <2> QED BY <2>1, <2>2, <2>3
<1>3. Inv => LabelledOnce
  BY LabelsHold
<1> HIDE DEF Inv
<1> QED BY <1>1, <1>2, <1>3, PTL DEF Spec

(***************************************************************************)
(* What the validator makes of two tables                                  *)
(***************************************************************************)
LEMMA KeyTypeRead ==
    ASSUME NEW create, create.keyType \in KeyTypes, create.comment = {}
    PROVE  parsedKeyType(create) = create.keyType
<1>1. PICK type : type = create.keyType /\ type \in KeyTypes
  OBVIOUS
<1>2. \A word : Mentions(create, word) <=> word = KeyClause[type]
  BY <1>1 DEF Mentions
<1>3. /\ KeyClause["PRIMARY"] = "PRIMARY KEY" /\ KeyClause["UNIQUE"] = "UNIQUE KEY"
      /\ KeyClause["AGGREGATE"] = "AGGREGATE KEY" /\ KeyClause["DUPLICATE"] = "DUPLICATE KEY"
  BY DEF KeyClause
<1>4. /\ Mentions(create, "PRIMARY KEY") <=> type = "PRIMARY"
      /\ Mentions(create, "UNIQUE KEY") <=> type = "UNIQUE"
      /\ Mentions(create, "AGGREGATE KEY") <=> type = "AGGREGATE"
  BY <1>1, <1>2, <1>3 DEF KeyTypes
<1> QED BY <1>1, <1>4 DEF parsedKeyType, KeyTypes

LEMMA TypesAgree ==
    ASSUME NEW col, NEW other, Comparable(col), Shown(other)
    PROVE  typesMatch(formatType(col), other) <=>
              /\ col.base = other.base
              /\ col.base \in {"VARCHAR", "CHAR"} => col.args = other.args
<1>1. PICK expected : expected = formatType(col)
  OBVIOUS
<1>2. CASE col.base \in {"VARCHAR", "CHAR"}
  <2>1. expected.base = col.base /\ expected.args = col.args
    BY <1>1, <1>2 DEF formatType, Comparable
  <2> QED BY <1>1, <1>2, <2>1 DEF typesMatch
<1>3. CASE col.base = "DECIMAL"
  <2>1. expected.base = "DECIMAL" /\ Len(expected.args) = 2
    BY <1>1, <1>3 DEF formatType, Comparable
  <2>2. other.base = "DECIMAL" => Len(other.args) = 2
    BY DEF Shown
  <2> QED BY <1>1, <1>3, <2>1, <2>2 DEF typesMatch
<1>4. CASE col.base \notin {"VARCHAR", "CHAR", "DECIMAL"}
  <2>1. expected.base = col.base /\ expected.args = <<>>
    BY <1>1, <1>4 DEF formatType, Comparable
  <2>2. other.base = col.base => \/ other.args = <<>>
                                 \/ col.base \in {"BIGINT", "INT"} /\ Len(other.args) = 1
    BY <1>4 DEF Shown
  <2> QED BY <1>1, <1>4, <2>1, <2>2 DEF typesMatch
<1> QED BY <1>2, <1>3, <1>4

\* The columns of a name among those of a table.
ByName(columns, name) == {columns[i] : i \in {j \in DOMAIN columns : columns[j].name = name}}

Chosen(columns, name) == CHOOSE other \in ByName(columns, name) : TRUE
Compared(def, actual, col) ==
    IF ByName(actual.columns, col.name) = {}
    THEN {ColumnDiff("column_missing", "error", def.name, col.name)}
    ELSE diffColumn(def.name, col, Chosen(actual.columns, col.name))
Extra(def, actual) ==
    {ColumnDiff("column_extra", "warning", def.name, col.name)
        : col \in {c \in ToSet(actual.columns) : ByName(def.columns, c.name) = {}}}

\* The errors about columns, by what is the case.
ColumnError(def, actual, d) ==
    \/ \E col \in ToSet(def.columns) :
          /\ ByName(actual.columns, col.name) = {}
          /\ d = ColumnDiff("column_missing", "error", def.name, col.name)
    \/ \E col \in ToSet(def.columns) :
          /\ ByName(actual.columns, col.name) # {}
          /\ ~typesMatch(formatType(col), Chosen(actual.columns, col.name))
          /\ d = ColumnDiff("column_type_mismatch", "error", def.name, col.name)
    \/ d \in Extra(def, actual)

LEMMA ColumnParts ==
    ASSUME NEW def, NEW actual, NEW d
    PROVE  d \in diffColumns(def, actual) <=>
              (\E col \in ToSet(def.columns) : d \in Compared(def, actual, col)) \/ d \in Extra(def, actual)
<1>1. PICK parts : parts = {Compared(def, actual, col) : col \in ToSet(def.columns)}
  OBVIOUS
<1>2. diffColumns(def, actual)
        = (UNION {Compared(def, actual, col) : col \in ToSet(def.columns)}) \cup Extra(def, actual)
  BY Zenon DEF diffColumns, Compared, Extra, ByName, Chosen
<1>3. d \in UNION parts <=> \E col \in ToSet(def.columns) : d \in Compared(def, actual, col)
  BY <1>1, Zenon
<1>4. diffColumns(def, actual) = (UNION parts) \cup Extra(def, actual)
  BY <1>1, <1>2
<1> QED BY <1>3, <1>4

LEMMA ColumnDiffs ==
    ASSUME NEW def, NEW actual, NEW d
    PROVE  d \in diffColumns(def, actual) /\ d.type \in ColumnErrors <=> ColumnError(def, actual, d)
<1>1. \A type, severity, column : ColumnDiff(type, severity, def.name, column).type = type
  BY DEF ColumnDiff
<1>4. d \in Extra(def, actual) => d.type \in ColumnErrors
  BY <1>1 DEF Extra, ColumnErrors
<1>5. ASSUME NEW col
      PROVE  d \in Compared(def, actual, col) /\ d.type \in ColumnErrors <=>
                \/ /\ ByName(actual.columns, col.name) = {}
                   /\ d = ColumnDiff("column_missing", "error", def.name, col.name)
                \/ /\ ByName(actual.columns, col.name) # {}
                   /\ ~typesMatch(formatType(col), Chosen(actual.columns, col.name))
                   /\ d = ColumnDiff("column_type_mismatch", "error", def.name, col.name)
  <2>1. CASE ByName(actual.columns, col.name) = {}
    BY <1>1, <2>1 DEF Compared, ColumnErrors
  <2>2. CASE ByName(actual.columns, col.name) # {}
    <3>1. PICK other : other = Chosen(actual.columns, col.name)
      OBVIOUS
    <3>2. Compared(def, actual, col) = diffColumn(def.name, col, other)
      BY <2>2, <3>1 DEF Compared
    <3>3. d \in diffColumn(def.name, col, other) /\ d.type \in ColumnErrors <=>
              /\ ~typesMatch(formatType(col), other)
              /\ d = ColumnDiff("column_type_mismatch", "error", def.name, col.name)
      BY <1>1 DEF diffColumn, ColumnErrors
    <3> QED BY <2>2, <3>1, <3>2, <3>3
  <2> QED BY <2>1, <2>2
<1> QED BY <1>4, <1>5, ColumnParts DEF ColumnError

\* A warning that a column and the one found by its name differ in being nullable.
NullableError(def, actual, d) ==
    \E col \in ToSet(def.columns) :
        /\ ByName(actual.columns, col.name) # {}
        /\ col.nullable # Chosen(actual.columns, col.name).nullable
        /\ d = ColumnDiff("column_nullable_mismatch", "warning", def.name, col.name)

LEMMA NullableDiffs ==
    ASSUME NEW def, NEW actual, NEW d
    PROVE  d \in diffColumns(def, actual) /\ d.type = "column_nullable_mismatch"
              <=> NullableError(def, actual, d)
<1>1. \A type, severity, column : ColumnDiff(type, severity, def.name, column).type = type
  BY DEF ColumnDiff
<1>2. d \in Extra(def, actual) => d.type # "column_nullable_mismatch"
  BY <1>1 DEF Extra
<1>3. ASSUME NEW col
      PROVE  d \in Compared(def, actual, col) /\ d.type = "column_nullable_mismatch" <=>
                /\ ByName(actual.columns, col.name) # {}
                /\ col.nullable # Chosen(actual.columns, col.name).nullable
                /\ d = ColumnDiff("column_nullable_mismatch", "warning", def.name, col.name)
  <2>1. CASE ByName(actual.columns, col.name) = {}
    BY <1>1, <2>1 DEF Compared
  <2>2. CASE ByName(actual.columns, col.name) # {}
    <3>1. PICK other : other = Chosen(actual.columns, col.name)
      OBVIOUS
    <3>2. Compared(def, actual, col) = diffColumn(def.name, col, other)
      BY <2>2, <3>1 DEF Compared
    <3>3. d \in diffColumn(def.name, col, other) /\ d.type = "column_nullable_mismatch" <=>
              /\ col.nullable # other.nullable
              /\ d = ColumnDiff("column_nullable_mismatch", "warning", def.name, col.name)
      BY <1>1 DEF diffColumn
    <3> QED BY <2>2, <3>1, <3>2, <3>3
  <2> QED BY <2>1, <2>2
<1> QED BY <1>2, <1>3, ColumnParts DEF NullableError

\* In a table whose columns have different names, one is found by its name.
LEMMA FoundByName ==
    ASSUME NEW columns, Differing(columns), NEW i \in DOMAIN columns
    PROVE  ByName(columns, columns[i].name) # {} /\ Chosen(columns, columns[i].name) = columns[i]
<1>1. ByName(columns, columns[i].name) = {columns[i]}
  BY DEF ByName, Differing
<1> QED BY <1>1 DEF Chosen

LEMMA NullablesAgree ==
    ASSUME NEW def, NEW actual, Differing(actual.columns)
    PROVE  (\E d : NullableError(def, actual, d)) <=> ~NullableAlike(def, actual)
<1>1. PICK D, A : D = def.columns /\ A = actual.columns
  OBVIOUS
<1>2. ASSUME NEW i \in DOMAIN D, ByName(A, D[i].name) # {}
      PROVE  \E j \in DOMAIN A : A[j].name = D[i].name /\ Chosen(A, D[i].name) = A[j]
  <2>1. PICK j \in DOMAIN A : A[j].name = D[i].name
    BY <1>2 DEF ByName
  <2>2. Chosen(A, A[j].name) = A[j]
    BY <1>1, FoundByName
  <2> QED BY <2>1, <2>2
<1>3. ASSUME NEW i \in DOMAIN D, NEW j \in DOMAIN A, D[i].name = A[j].name
      PROVE  ByName(A, D[i].name) # {} /\ Chosen(A, D[i].name) = A[j]
  <2>1. ByName(A, A[j].name) # {} /\ Chosen(A, A[j].name) = A[j]
    BY <1>1, FoundByName
  <2> QED BY <1>3, <2>1
<1>4. NullableAlike(def, actual) <=>
          \A i \in DOMAIN D : \A j \in DOMAIN A : D[i].name = A[j].name => D[i].nullable = A[j].nullable
  BY <1>1 DEF NullableAlike
<1>5. (\E d : NullableError(def, actual, d)) <=>
          \E i \in DOMAIN D : ByName(A, D[i].name) # {} /\ D[i].nullable # Chosen(A, D[i].name).nullable
  <2>1. (\E d : NullableError(def, actual, d)) <=>
            \E col \in ToSet(D) : ByName(A, col.name) # {} /\ col.nullable # Chosen(A, col.name).nullable
    BY <1>1 DEF NullableError
  <2>2. ToSet(D) = {D[i] : i \in DOMAIN D}
    BY DEF ToSet
  <2> QED BY <2>1, <2>2
<1>6. ASSUME NEW i \in DOMAIN D, ByName(A, D[i].name) # {}, D[i].nullable # Chosen(A, D[i].name).nullable
      PROVE  \E j \in DOMAIN A : D[i].name = A[j].name /\ D[i].nullable # A[j].nullable
  BY <1>2, <1>6
<1>7. ASSUME NEW i \in DOMAIN D, NEW j \in DOMAIN A, D[i].name = A[j].name, D[i].nullable # A[j].nullable
      PROVE  ByName(A, D[i].name) # {} /\ D[i].nullable # Chosen(A, D[i].name).nullable
  BY <1>3, <1>7
<1> QED BY <1>4, <1>5, <1>6, <1>7

\* What is compared of a column.
Token(col) == <<col.name, col.base, IF col.base \in {"VARCHAR", "CHAR"} THEN col.args ELSE <<>>>>

\* Errors about columns are reported exactly if the columns are described differently.
LEMMA ColumnsAgree ==
    ASSUME NEW def, NEW actual, \A col \in ToSet(def.columns) : Comparable(col),
           Differing(actual.columns), \A col \in ToSet(actual.columns) : Shown(col)
    PROVE  (\E d : ColumnError(def, actual, d)) <=> Described(def.columns) # Described(actual.columns)
<1> DEFINE D == def.columns
           A == actual.columns
<1>1. /\ Described(D) = {Token(D[i]) : i \in DOMAIN D}
      /\ Described(A) = {Token(A[i]) : i \in DOMAIN A}
  BY DEF Described, Token
<1>2. ASSUME NEW i \in DOMAIN D, NEW j \in DOMAIN A, D[i].name = A[j].name
      PROVE  typesMatch(formatType(D[i]), A[j]) <=> Token(D[i]) = Token(A[j])
  <2>1. Comparable(D[i]) /\ Shown(A[j])
    BY DEF ToSet
  <2>2. typesMatch(formatType(D[i]), A[j]) <=>
            D[i].base = A[j].base /\ (D[i].base \in {"VARCHAR", "CHAR"} => D[i].args = A[j].args)
    BY <2>1, TypesAgree
  <2> QED BY <1>2, <2>2 DEF Token
<1>3. ASSUME NEW i \in DOMAIN D, NEW j \in DOMAIN A, Token(D[i]) = Token(A[j])
      PROVE  D[i].name = A[j].name
  BY <1>3 DEF Token
<1>4. ASSUME NEW i \in DOMAIN D
      PROVE  \/ ByName(A, D[i].name) = {} /\ \A j \in DOMAIN A : A[j].name # D[i].name
             \/ \E j \in DOMAIN A : /\ A[j].name = D[i].name /\ ByName(A, D[i].name) # {}
                                   /\ Chosen(A, D[i].name) = A[j]
  <2>1. CASE \E j \in DOMAIN A : A[j].name = D[i].name
    <3>1. PICK j \in DOMAIN A : A[j].name = D[i].name
      BY <2>1
    <3> HIDE DEF A, D
    <3>2. ByName(A, A[j].name) # {} /\ Chosen(A, A[j].name) = A[j]
      BY FoundByName DEF A
    <3> QED BY <3>1, <3>2
  <2>2. CASE ~\E j \in DOMAIN A : A[j].name = D[i].name
    BY <2>2 DEF ByName
  <2> QED BY <2>1, <2>2
<1>5. ASSUME NEW d, ColumnError(def, actual, d) PROVE Described(D) # Described(A)
  <2>1. ASSUME NEW col \in ToSet(D), ByName(A, col.name) = {} PROVE Described(D) # Described(A)
    <3>1. PICK i \in DOMAIN D : col = D[i]
      BY DEF ToSet
    <3>2. \A j \in DOMAIN A : A[j].name # D[i].name
      BY <2>1, <3>1 DEF ByName
    <3>3. Token(D[i]) \in Described(D) /\ Token(D[i]) \notin Described(A)
      BY <1>1, <1>3, <3>2
    <3> QED BY <3>3
  <2>2. ASSUME NEW col \in ToSet(D), ByName(A, col.name) # {}, ~typesMatch(formatType(col), Chosen(A, col.name))
        PROVE  Described(D) # Described(A)
    <3>1. PICK i \in DOMAIN D : col = D[i]
      BY DEF ToSet
    <3>2. PICK j \in DOMAIN A : A[j].name = D[i].name /\ Chosen(A, D[i].name) = A[j]
      BY <1>4, <2>2, <3>1
    <3>3. Token(D[i]) # Token(A[j])
      BY <1>2, <2>2, <3>1, <3>2
    <3>4. \A k \in DOMAIN A : A[k].name = A[j].name => k = j
      BY DEF Differing
    <3>5. Token(D[i]) \in Described(D) /\ Token(D[i]) \notin Described(A)
      BY <1>1, <1>3, <3>2, <3>3, <3>4
    <3> QED BY <3>5
  <2>3. ASSUME d \in Extra(def, actual) PROVE Described(D) # Described(A)
    <3>1. PICK col \in ToSet(A) : ByName(D, col.name) = {}
      BY <2>3 DEF Extra
    <3>2. PICK j \in DOMAIN A : col = A[j]
      BY DEF ToSet
    <3>3. \A i \in DOMAIN D : D[i].name # A[j].name
      BY <3>1, <3>2 DEF ByName
    <3>4. Token(A[j]) \in Described(A) /\ Token(A[j]) \notin Described(D)
      BY <1>1, <1>3, <3>3
    <3> QED BY <3>4
  <2> QED BY <1>5, <2>1, <2>2, <2>3 DEF ColumnError
<1>6. ASSUME \A d : ~ColumnError(def, actual, d) PROVE Described(D) = Described(A)
  <2>1. ASSUME NEW i \in DOMAIN D PROVE Token(D[i]) \in Described(A)
    <3>1. D[i] \in ToSet(D)
      BY DEF ToSet
    <3>2. ByName(A, D[i].name) # {}
      BY <1>6, <3>1 DEF ColumnError
    <3>3. typesMatch(formatType(D[i]), Chosen(A, D[i].name))
      BY <1>6, <3>1, <3>2 DEF ColumnError
    <3>4. PICK j \in DOMAIN A : A[j].name = D[i].name /\ Chosen(A, D[i].name) = A[j]
      BY <1>4, <3>2
    <3>5. Token(D[i]) = Token(A[j])
      BY <1>2, <3>3, <3>4
    <3> QED BY <1>1, <3>5
  <2>2. ASSUME NEW j \in DOMAIN A PROVE Token(A[j]) \in Described(D)
    <3>1. A[j] \in ToSet(A)
      BY DEF ToSet
    <3>2. Extra(def, actual) = {}
      BY <1>6 DEF ColumnError
    <3>3. ByName(D, A[j].name) # {}
      BY <3>1, <3>2 DEF Extra
    <3>4. PICK i \in DOMAIN D : D[i].name = A[j].name
      BY <3>3 DEF ByName
    <3>5. D[i] \in ToSet(D)
      BY DEF ToSet
    <3>6. PICK k \in DOMAIN A : A[k].name = D[i].name /\ Chosen(A, D[i].name) = A[k] /\ ByName(A, D[i].name) # {}
      BY <1>4, <3>4
    <3>7. k = j
      BY <3>4, <3>6 DEF Differing
    <3>8. typesMatch(formatType(D[i]), Chosen(A, D[i].name))
      BY <1>6, <3>5, <3>6 DEF ColumnError
    <3>9. Token(D[i]) = Token(A[j])
      BY <1>2, <3>4, <3>6, <3>7, <3>8
    <3> QED BY <1>1, <3>9
  <2> QED BY <1>1, <2>1, <2>2
<1> QED BY <1>5, <1>6

LEMMA DiffTypes ==
    ASSUME NEW type, NEW severity, NEW table, NEW column
    PROVE  /\ Diff(type, severity, table).type = type /\ Diff(type, severity, table).table = table
           /\ ColumnDiff(type, severity, table, column).type = type
           /\ ColumnDiff(type, severity, table, column).table = table
BY DEF Diff, ColumnDiff

\* What diffTable says, and of which table.
LEMMA TableDiffs ==
    ASSUME NEW def, NEW actual
    PROVE  /\ \A d \in diffTable(def, actual) :
                 d.table = def.name /\ d.type \notin {"table_missing", "table_extra"}
           /\ (\E d \in diffTable(def, actual) : d.type \in KeyErrors)
                <=> ~(def.keyType = actual.keyType /\ def.keys = actual.keys)
           /\ (\E d \in diffTable(def, actual) : d.type \in ColumnErrors)
                <=> \E d : ColumnError(def, actual, d)
           /\ (\E d \in diffTable(def, actual) : d.type = "distribution_mismatch")
                <=> ~SpreadAlike(def, actual)
           /\ (\E d \in diffTable(def, actual) : d.type = "column_nullable_mismatch")
                <=> \E d : NullableError(def, actual, d)
<1> DEFINE keyType == Diff("key_type_mismatch", "error", def.name)
           keys == Diff("key_columns_mismatch", "error", def.name)
           distribution == Diff("distribution_mismatch", "warning", def.name)
<1>1. ASSUME NEW d
      PROVE  d \in diffTable(def, actual) <=>
                \/ def.keyType # actual.keyType /\ d = keyType
                \/ def.keys # actual.keys /\ d = keys
                \/ d \in diffDistribution(def, actual)
                \/ d \in diffColumns(def, actual)
  BY DEF diffTable
<1>2. \A d \in diffDistribution(def, actual) : d = distribution
  BY DEF diffDistribution
<1>3. /\ keyType.type = "key_type_mismatch" /\ keys.type = "key_columns_mismatch"
      /\ distribution.type = "distribution_mismatch"
      /\ keyType.table = def.name /\ keys.table = def.name /\ distribution.table = def.name
  BY DiffTypes
<1>4. \A d \in diffColumns(def, actual) :
          /\ d.table = def.name
          /\ d.type \in {"column_missing", "column_extra", "column_type_mismatch", "column_nullable_mismatch"}
  <2>1. ASSUME NEW d \in diffColumns(def, actual)
        PROVE  \E severity, column :
                  \E type \in {"column_missing", "column_extra", "column_type_mismatch", "column_nullable_mismatch"} :
                      d = ColumnDiff(type, severity, def.name, column)
    <3>1. (\E col \in ToSet(def.columns) : d \in Compared(def, actual, col)) \/ d \in Extra(def, actual)
      BY ColumnParts
    <3>2. ASSUME NEW col, d \in Compared(def, actual, col)
          PROVE  \/ d = ColumnDiff("column_missing", "error", def.name, col.name)
                 \/ d = ColumnDiff("column_type_mismatch", "error", def.name, col.name)
                 \/ d = ColumnDiff("column_nullable_mismatch", "warning", def.name, col.name)
      BY <3>2 DEF Compared, diffColumn
    <3>3. d \in Extra(def, actual) => \E col : d = ColumnDiff("column_extra", "warning", def.name, col.name)
      BY DEF Extra
    <3> QED BY <3>1, <3>2, <3>3
  <2> QED BY <2>1, DiffTypes
<1> HIDE DEF keyType, keys, distribution
<1>5. \A d \in diffTable(def, actual) :
          d.table = def.name /\ d.type \notin {"table_missing", "table_extra"}
  BY <1>1, <1>2, <1>3, <1>4
<1>6. (\E d \in diffTable(def, actual) : d.type \in KeyErrors)
        <=> ~(def.keyType = actual.keyType /\ def.keys = actual.keys)
  <2>1. \A d \in diffTable(def, actual) : d.type \in KeyErrors =>
            \/ def.keyType # actual.keyType
            \/ def.keys # actual.keys
    BY <1>1, <1>2, <1>3, <1>4 DEF KeyErrors
  <2>2. def.keyType # actual.keyType => keyType \in diffTable(def, actual) /\ keyType.type \in KeyErrors
    BY <1>1, <1>3 DEF KeyErrors
  <2>3. def.keys # actual.keys => keys \in diffTable(def, actual) /\ keys.type \in KeyErrors
    BY <1>1, <1>3 DEF KeyErrors
  <2> QED BY <2>1, <2>2, <2>3
<1>7. (\E d \in diffTable(def, actual) : d.type \in ColumnErrors) <=> \E d : ColumnError(def, actual, d)
  <2>1. \A d : d \in diffTable(def, actual) /\ d.type \in ColumnErrors
                 <=> d \in diffColumns(def, actual) /\ d.type \in ColumnErrors
    BY <1>1, <1>2, <1>3 DEF ColumnErrors
  <2> QED BY <2>1, ColumnDiffs
<1>8. (\E d \in diffTable(def, actual) : d.type = "distribution_mismatch") <=> ~SpreadAlike(def, actual)
  <2>1. diffDistribution(def, actual) # {} <=> ~SpreadAlike(def, actual)
    BY DEF diffDistribution, SpreadAlike
  <2>2. \A d \in diffTable(def, actual) : d.type = "distribution_mismatch" <=> d \in diffDistribution(def, actual)
    BY <1>1, <1>2, <1>3, <1>4
  <2>3. \A d \in diffDistribution(def, actual) : d \in diffTable(def, actual)
    BY <1>1
  <2> QED BY <2>1, <2>2, <2>3
<1>9. (\E d \in diffTable(def, actual) : d.type = "column_nullable_mismatch")
        <=> \E d : NullableError(def, actual, d)
  <2>1. \A d : d \in diffTable(def, actual) /\ d.type = "column_nullable_mismatch"
                 <=> d \in diffColumns(def, actual) /\ d.type = "column_nullable_mismatch"
    BY <1>1, <1>2, <1>3
  <2> QED BY <2>1, NullableDiffs
<1> QED BY <1>5, <1>6, <1>7, <1>8, <1>9

\* The table that diff takes for a name among those read.
Read(actual, t) == {a \in actual : a.name = t}
Taken(actual, t) == CHOOSE a \in Read(actual, t) : TRUE

\* The differences, by what is the case.
Difference(defined, actual, d) ==
    \/ \E def \in defined : Read(actual, def.name) = {} /\ d = Diff("table_missing", "error", def.name)
    \/ \E def \in defined : /\ Read(actual, def.name) # {}
                            /\ d \in diffTable(def, Taken(actual, def.name))
    \/ \E a \in actual : /\ \A def \in defined : def.name # a.name
                         /\ d = Diff("table_extra", "warning", a.name)

LEMMA DiffIs ==
    ASSUME NEW defined, NEW actual, NEW d
    PROVE  d \in diff(defined, actual) <=> Difference(defined, actual, d)
<1> DEFINE Part(def) == IF Read(actual, def.name) = {} THEN {Diff("table_missing", "error", def.name)}
                        ELSE diffTable(def, Taken(actual, def.name))
           Extras == {Diff("table_extra", "warning", a.name)
                         : a \in {t \in actual : \A def \in defined : def.name # t.name}}
<1>1. diff(defined, actual) = (UNION {Part(def) : def \in defined}) \cup Extras
  BY Zenon DEF diff, Read, Taken
<1>2. d \in Extras <=> \E a \in actual : /\ \A def \in defined : def.name # a.name
                                         /\ d = Diff("table_extra", "warning", a.name)
  OBVIOUS
<1>3. \A def : d \in Part(def) <=>
          \/ Read(actual, def.name) = {} /\ d = Diff("table_missing", "error", def.name)
          \/ Read(actual, def.name) # {} /\ d \in diffTable(def, Taken(actual, def.name))
  OBVIOUS
<1> HIDE DEF Part, Extras
<1>4. PICK parts : parts = {Part(def) : def \in defined}
  OBVIOUS
<1>5. d \in UNION parts <=> \E def \in defined : d \in Part(def)
  BY <1>4, Zenon
<1>6. diff(defined, actual) = (UNION parts) \cup Extras
  BY <1>1, <1>4
<1> QED BY <1>2, <1>3, <1>5, <1>6 DEF Difference

\* What a report says of a table that is defined once.
LEMMA ReportIs ==
    ASSUME NEW defined, NEW actual, NEW def \in defined,
           \A other \in defined : other.name = def.name => other = def
    PROVE  LET diffs == diff(defined, actual)
               taken == Taken(actual, def.name)
           IN  /\ Reports(diffs, def.name, {"table_missing"}) <=> Read(actual, def.name) = {}
               /\ Read(actual, def.name) # {} =>
                     /\ Reports(diffs, def.name, KeyErrors)
                          <=> ~(def.keyType = taken.keyType /\ def.keys = taken.keys)
                     /\ Reports(diffs, def.name, ColumnErrors) <=> \E d : ColumnError(def, taken, d)
                     /\ Reports(diffs, def.name, {"distribution_mismatch"}) <=> ~SpreadAlike(def, taken)
                     /\ Reports(diffs, def.name, {"column_nullable_mismatch"})
                          <=> \E d : NullableError(def, taken, d)
<1> DEFINE diffs == diff(defined, actual)
           t == def.name
<1>1. PICK taken : taken = Taken(actual, t)
  OBVIOUS
<1>2. ASSUME NEW d, d \in diffs, d.table = t
      PROVE  \/ Read(actual, t) = {} /\ d = Diff("table_missing", "error", t)
             \/ Read(actual, t) # {} /\ d \in diffTable(def, taken)
             \/ d.type = "table_extra"
  <2>1. ASSUME NEW other \in defined, Read(actual, other.name) = {},
               d = Diff("table_missing", "error", other.name)
        PROVE  Read(actual, t) = {} /\ d = Diff("table_missing", "error", t)
    BY <1>2, <2>1, DiffTypes
  <2>2. ASSUME NEW other \in defined, Read(actual, other.name) # {},
               d \in diffTable(other, Taken(actual, other.name))
        PROVE  Read(actual, t) # {} /\ d \in diffTable(def, taken)
    <3>1. d.table = other.name
      BY <2>2, TableDiffs
    <3>2. other = def
      BY <1>2, <3>1
    <3> QED BY <1>1, <2>2, <3>2
  <2>3. \A table : Diff("table_extra", "warning", table).type = "table_extra"
    BY DiffTypes
  <2>4. Difference(defined, actual, d)
    BY <1>2, DiffIs
  <2> HIDE DEF t, diffs
  <2> QED BY <2>1, <2>2, <2>3, <2>4 DEF Difference
<1>3. Read(actual, t) = {} => Diff("table_missing", "error", t) \in diffs
  BY DiffIs DEF Difference
<1>4. Read(actual, t) # {} => \A d \in diffTable(def, taken) : d \in diffs
  BY <1>1, DiffIs DEF Difference
<1>5. /\ Diff("table_missing", "error", t).type = "table_missing"
      /\ Diff("table_missing", "error", t).table = t
  BY DiffTypes
<1> HIDE DEF diffs, t
<1>6. /\ \A d \in diffTable(def, taken) : d.table = t /\ d.type \notin {"table_missing", "table_extra"}
      /\ (\E d \in diffTable(def, taken) : d.type \in KeyErrors)
                <=> ~(def.keyType = taken.keyType /\ def.keys = taken.keys)
      /\ (\E d \in diffTable(def, taken) : d.type \in ColumnErrors) <=> \E d : ColumnError(def, taken, d)
      /\ (\E d \in diffTable(def, taken) : d.type = "distribution_mismatch") <=> ~SpreadAlike(def, taken)
      /\ (\E d \in diffTable(def, taken) : d.type = "column_nullable_mismatch")
                <=> \E d : NullableError(def, taken, d)
  BY TableDiffs DEF t
<1>7. Reports(diffs, t, {"table_missing"}) <=> Read(actual, t) = {}
  BY <1>2, <1>3, <1>5, <1>6 DEF Reports
<1>8. ASSUME Read(actual, t) # {}, NEW types,
             types \in {KeyErrors, ColumnErrors, {"distribution_mismatch"}, {"column_nullable_mismatch"}}
      PROVE  Reports(diffs, t, types) <=> \E d \in diffTable(def, taken) : d.type \in types
  <2>1. "table_extra" \notin types
    BY <1>8 DEF KeyErrors, ColumnErrors
  <2> QED BY <1>2, <1>4, <1>6, <1>8, <2>1 DEF Reports
<1> QED BY <1>1, <1>6, <1>7, <1>8 DEF diffs, t

\* What is read of each table was so at a moment, and what is not read was not there at one.
Sound(actual, moments) == \A a \in actual :
    /\ \E m \in moments : /\ a.name \in DOMAIN m
                          /\ a.keyType = parsedKeyType(m[a.name]) /\ a.keys = m[a.name].keys
                          /\ a.distribution = parsedDistribution(m[a.name])
    /\ \E m \in moments : a.name \in DOMAIN m /\ a.columns = m[a.name].columns
Complete(actual, moments) == \A t : (\E m \in moments : t \notin DOMAIN m) \/ Read(actual, t) # {}
Legible(moments) == \A m \in moments : \A t \in DOMAIN m : Readable(m[t])
Validated(op) ==
    /\ \A one, other \in op.tables : one.name = other.name => one = other
    /\ \A def \in op.tables : \A col \in ToSet(def.columns) : Comparable(col)

LEMMA ReportTells ==
    ASSUME NEW op, Validated(op), NEW actual, NEW moments,
           Sound(actual, moments), Complete(actual, moments), Legible(moments), PlainTables(moments)
    PROVE  TellsWhatWas(op.tables, diff(op.tables, actual), moments)
<1>1. PICK defined, diffs : defined = op.tables /\ diffs = diff(defined, actual)
  OBVIOUS
<1>2. ASSUME NEW def \in defined, Reports(diffs, def.name, {"table_missing"})
      PROVE  \E m \in moments : def.name \notin DOMAIN m
  <2>1. Read(actual, def.name) = {}
    BY <1>1, <1>2, ReportIs DEF Validated
  <2> QED BY <2>1 DEF Complete
<1>3. ASSUME NEW def \in defined, ~Reports(diffs, def.name, {"table_missing"})
      PROVE  /\ \E m \in moments : /\ def.name \in DOMAIN m
                                   /\ KeysAlike(def, m[def.name]) <=> ~Reports(diffs, def.name, KeyErrors)
                                   /\ SpreadAlike(def, m[def.name])
                                        <=> ~Reports(diffs, def.name, {"distribution_mismatch"})
             /\ \E m \in moments : /\ def.name \in DOMAIN m
                                   /\ Alike(def, m[def.name]) <=> ~Reports(diffs, def.name, ColumnErrors)
                                   /\ NullableAlike(def, m[def.name])
                                        <=> ~Reports(diffs, def.name, {"column_nullable_mismatch"})
  <2>1. PICK t, taken : t = def.name /\ taken = Taken(actual, t)
    OBVIOUS
  <2>2. /\ Read(actual, t) # {}
        /\ Reports(diffs, t, KeyErrors) <=> ~(def.keyType = taken.keyType /\ def.keys = taken.keys)
        /\ Reports(diffs, t, ColumnErrors) <=> \E d : ColumnError(def, taken, d)
        /\ Reports(diffs, t, {"distribution_mismatch"}) <=> ~SpreadAlike(def, taken)
        /\ Reports(diffs, t, {"column_nullable_mismatch"}) <=> \E d : NullableError(def, taken, d)
    BY <1>1, <1>3, <2>1, ReportIs DEF Validated
  <2>3. taken \in actual /\ taken.name = t
    BY <2>1, <2>2 DEF Taken, Read
  <2>4. PICK m \in moments : t \in DOMAIN m /\ taken.keyType = parsedKeyType(m[t]) /\ taken.keys = m[t].keys
                           /\ taken.distribution = parsedDistribution(m[t])
    BY <2>3 DEF Sound
  <2>5. parsedKeyType(m[t]) = m[t].keyType
    BY <2>4, KeyTypeRead DEF Legible, Readable, PlainTables
  <2>6. KeysAlike(def, m[t]) <=> ~Reports(diffs, t, KeyErrors)
    BY <2>2, <2>4, <2>5 DEF KeysAlike
  <2>7. PICK n \in moments : t \in DOMAIN n /\ taken.columns = n[t].columns
    BY <2>3 DEF Sound
  <2>8. Readable(n[t]) /\ \A col \in ToSet(def.columns) : Comparable(col)
    BY <1>1, <2>7 DEF Legible, Validated
  <2>9. (\E d : ColumnError(def, taken, d)) <=> Described(def.columns) # Described(taken.columns)
    BY <2>7, <2>8, ColumnsAgree DEF Readable
  <2>10. Alike(def, n[t]) <=> ~Reports(diffs, t, ColumnErrors)
    BY <2>2, <2>7, <2>9 DEF Alike
  <2>11. SpreadAlike(def, m[t]) <=> ~Reports(diffs, t, {"distribution_mismatch"})
    <3>1. m[t].comment = {}
      BY <2>4 DEF PlainTables
    <3>2. /\ taken.distribution.type = m[t].distribution.type
          /\ m[t].distribution.type = "RANDOM" \/ taken.distribution.columns = m[t].distribution.columns
      BY <2>4, <3>1 DEF parsedDistribution
    <3>3. SpreadAlike(def, m[t]) <=> SpreadAlike(def, taken)
      BY <3>2 DEF SpreadAlike
    <3> QED BY <2>2, <3>3
  <2>12. NullableAlike(def, n[t]) <=> ~Reports(diffs, t, {"column_nullable_mismatch"})
    <3>1. Differing(taken.columns)
      BY <2>7, <2>8 DEF Readable
    <3>2. NullableAlike(def, n[t]) <=> NullableAlike(def, taken)
      BY <2>7 DEF NullableAlike
    <3> QED BY <2>2, <3>1, <3>2, NullablesAgree
  <2> QED BY <2>1, <2>4, <2>6, <2>7, <2>10, <2>11, <2>12
<1>4. ASSUME NEW d \in diffs, d.type = "table_extra" PROVE \E m \in moments : d.table \in DOMAIN m
  <2>1. PICK a \in actual : d = Diff("table_extra", "warning", a.name)
    <3>1. \A table : Diff("table_missing", "error", table).type = "table_missing"
      BY DiffTypes
    <3>2. \A def, table : \A e \in diffTable(def, table) : e.type # "table_extra"
      BY TableDiffs
    <3>3. Difference(defined, actual, d)
      BY <1>1, DiffIs
    <3> QED BY <1>4, <3>1, <3>2, <3>3 DEF Difference
  <2>2. d.table = a.name
    BY <2>1, DiffTypes
  <2> QED BY <2>2 DEF Sound
<1> QED BY <1>1, <1>2, <1>3, <1>4 DEF TellsWhatWas

(***************************************************************************)
(* The tables of the server                                                *)
(***************************************************************************)
ShapesOK(s) == \A d, t : HasTable(s, d, t) =>
                   "shape" \in DOMAIN s.tables[d][t] /\ Readable(s.tables[d][t].shape)

\* A table that st creates can be read.
MakesReadable(st) == st.kind = "create table" => Readable(Stored(st.def))

\* A table is changed to one of the shape it had, or made.
LEMMA ChangeShape ==
    ASSUME NEW s, ServerOK(s), ShapesOK(s), NEW in \in DOMAIN s.tables, NEW t, NEW table, NEW label,
           NEW new, new = Used(ChangeTable(s, in, t, table), in, label),
           "shape" \in DOMAIN table /\ Readable(table.shape)
    PROVE  ShapesOK(new)
<1>1. PICK changed : changed = ChangeTable(s, in, t, table)
  OBVIOUS
<1>2. /\ \A d, u : HasTable(changed, d, u) /\ ~(d = in /\ u = t) =>
            HasTable(s, d, u) /\ changed.tables[d][u] = s.tables[d][u]
      /\ changed.tables[in][t] = table /\ DOMAIN changed = ServerFields
  BY <1>1, ChangeOne
<1>3. new.tables = changed.tables
  BY <1>1, <1>2, UsedSame
<1>4. SUFFICES ASSUME NEW d, NEW u, HasTable(new, d, u)
               PROVE  "shape" \in DOMAIN new.tables[d][u] /\ Readable(new.tables[d][u].shape)
  BY DEF ShapesOK
<1>5. CASE d = in /\ u = t
  BY <1>2, <1>3, <1>5
<1>6. CASE ~(d = in /\ u = t)
  <2>1. HasTable(changed, d, u)
    BY <1>3, <1>4 DEF HasTable
  <2>2. HasTable(s, d, u) /\ new.tables[d][u] = s.tables[d][u]
    BY <1>2, <1>3, <1>6, <2>1
  <2> QED BY <2>2 DEF ShapesOK
<1> QED BY <1>5, <1>6

LEMMA ShapesStay ==
    ASSUME NEW s, ServerOK(s), ShapesOK(s), NEW db, NEW st, Accepts(s, db, st), Names(st),
           MakesReadable(st)
    PROVE  ShapesOK(After(s, db, st))
<1>0. PICK in, table, new : in = Within(db, st) /\ table = s.tables[in][st.table] /\ new = After(s, db, st)
  OBVIOUS
<1> SUFFICES ShapesOK(new)
  BY <1>0
<1>1. DOMAIN s = ServerFields
  BY DEF ServerOK
<1>2. ASSUME \A d, t : HasTable(new, d, t) => HasTable(s, d, t) /\ new.tables[d][t] = s.tables[d][t]
      PROVE  ShapesOK(new)
  BY <1>2 DEF ShapesOK
<1>3. ASSUME NEW other, NEW label, in \in DOMAIN s.tables,
             new = Used(ChangeTable(s, in, st.table, other), in, label),
             "shape" \in DOMAIN other /\ Readable(other.shape)
      PROVE  ShapesOK(new)
  BY <1>3, ChangeShape
<1>4. CASE st.kind = "create database" /\ st.db \notin DOMAIN s.tables
  <2>0. PICK none : none = <<>>
    OBVIOUS
  <2>1. new = [s EXCEPT !.tables = With(@, st.db, none)]
    BY <1>0, <1>4, <2>0 DEF After
  <2>2. DOMAIN none = {}
    BY <2>0
  <2>3. new.tables = With(s.tables, st.db, none)
    BY <1>1, <2>1 DEF ServerFields
  <2>4. \A d \in DOMAIN new.tables : new.tables[d] = none \/ (d \in DOMAIN s.tables /\ new.tables[d] = s.tables[d])
    BY <2>3, WithOne
  <2> QED BY <1>2, <2>2, <2>4 DEF HasTable
<1>5. CASE st.kind = "drop database"
  <2>1. new = [s EXCEPT !.tables = Restrict(@, DOMAIN @ \ {st.db}), !.labels = {l \in @ : l[1] # st.db}]
    BY <1>0, <1>5 DEF After
  <2>2. new.tables = Restrict(s.tables, DOMAIN s.tables \ {st.db})
    BY <1>1, <2>1 DEF ServerFields
  <2>3. DOMAIN new.tables \subseteq DOMAIN s.tables /\ \A d \in DOMAIN new.tables : new.tables[d] = s.tables[d]
    BY <2>2 DEF Restrict
  <2> QED BY <1>2, <2>3 DEF HasTable
<1>6. CASE st.kind = "drop table"
  <2>0. PICK rest : rest = Restrict(s.tables[in], DOMAIN s.tables[in] \ {st.table})
    OBVIOUS
  <2>1. new = [s EXCEPT !.tables[in] = rest]
    BY <1>0, <1>6, <2>0 DEF After
  <2>2. DOMAIN rest \subseteq DOMAIN s.tables[in] /\ \A t \in DOMAIN rest : rest[t] = s.tables[in][t]
    BY <2>0 DEF Restrict
  <2>3. new.tables = [s.tables EXCEPT ![in] = rest]
    BY <1>1, <2>1 DEF ServerFields
  <2> QED BY <1>2, <2>2, <2>3 DEF HasTable
<1>7. CASE st.kind = "export"
  <2>1. new = [s EXCEPT !.files = @ \cup Exported(s, in, st)]
    BY <1>0, <1>7 DEF After
  <2>2. new.tables = s.tables
    BY <1>1, <2>1 DEF ServerFields
  <2> QED BY <1>2, <2>2 DEF HasTable
<1>8. CASE st.kind = "create table"
  <2>1. CASE HasTable(s, in, st.table)
    <3>1. new = s
      BY <1>0, <1>8, <2>1 DEF After
    <3> QED BY <1>2, <3>1
  <2>2. CASE ~HasTable(s, in, st.table)
    <3>1. in \in DOMAIN s.tables
      BY <1>0, <1>8 DEF Accepts
    <3>2. PICK shape, other : shape = Stored(st.def) /\ other = EmptyTable(st.def)
      OBVIOUS
    <3>3. new = ChangeTable(s, in, st.table, other)
      BY <1>0, <1>8, <2>2, <3>2 DEF After
    <3>4. new = Used(ChangeTable(s, in, st.table, other), in, NoLabel)
      BY <3>3 DEF Used
    <3>5. "shape" \in DOMAIN other /\ other.shape = shape
      BY <3>2 DEF EmptyTable
    <3>6. Readable(shape)
      BY <1>8, <3>2 DEF MakesReadable
    <3> QED BY <1>3, <3>1, <3>4, <3>5, <3>6
  <2> QED BY <2>1, <2>2
<1>9. CASE st.kind \in {"create index", "drop index", "set bloom filter", "delete", "overwrite",
                        "insert", "insert select"}
  <2>1. in \in DOMAIN s.tables /\ HasTable(s, in, st.table)
    BY <1>0, <1>9 DEF Accepts, HasTable
  <2>2. "shape" \in DOMAIN table /\ Readable(table.shape)
    BY <1>0, <2>1 DEF ShapesOK
  <2>3. ASSUME NEW other, \/ new = ChangeTable(s, in, st.table, other)
                          \/ new = Used(ChangeTable(s, in, st.table, other), in, st.label),
               \/ \E x : other = [table EXCEPT !.rows = x]
               \/ \E x : other = [table EXCEPT !.indexes = x]
               \/ \E x : other = [table EXCEPT !.bloom = x]
        PROVE  ShapesOK(new)
    <3>1. \E label : new = Used(ChangeTable(s, in, st.table, other), in, label)
      BY <2>3 DEF Used
    <3>2. "shape" \in DOMAIN other /\ other.shape = table.shape
      BY <2>2, <2>3
    <3> QED BY <1>3, <2>1, <2>2, <3>1, <3>2
  <2>4. PICK copies : copies = IF st.kind = "delete"
                               THEN [x \in Rows |-> IF x \in Filtered(s, st) THEN 0 ELSE table.rows[x]]
                               ELSE IF st.kind = "overwrite" THEN s.tables[in][st.from].rows
                               ELSE IF st.kind = "insert" THEN Both(table.rows, Copies(st.rows))
                               ELSE Both(table.rows, s.tables[in][st.from].rows)
    OBVIOUS
  <2>5. PICK indexes : indexes = IF st.kind = "create index" THEN table.indexes \cup {st.index}
                                 ELSE table.indexes \ {st.index}
    OBVIOUS
  <2>6. CASE st.kind = "create index"
    <3>1. new = ChangeTable(s, in, st.table, [table EXCEPT !.indexes = indexes])
      BY <1>0, <2>5, <2>6 DEF After
    <3> QED BY <2>3, <3>1
  <2>7. CASE st.kind = "drop index"
    <3>1. new = ChangeTable(s, in, st.table, [table EXCEPT !.indexes = indexes])
      BY <1>0, <2>5, <2>7 DEF After
    <3> QED BY <2>3, <3>1
  <2>8. CASE st.kind = "set bloom filter"
    <3>1. new = ChangeTable(s, in, st.table, [table EXCEPT !.bloom = st.columns])
      BY <1>0, <2>8 DEF After
    <3> QED BY <2>3, <3>1
  <2>9. CASE st.kind = "delete"
    <3>1. new = ChangeTable(s, in, st.table, [table EXCEPT !.rows = copies])
      BY <1>0, <2>4, <2>9 DEF After
    <3> QED BY <2>3, <3>1
  <2>10. CASE st.kind = "overwrite"
    <3>1. new = ChangeTable(s, in, st.table, [table EXCEPT !.rows = copies])
      BY <1>0, <2>4, <2>10 DEF After
    <3> QED BY <2>3, <3>1
  <2>11. CASE st.kind = "insert"
    <3>1. new = Used(ChangeTable(s, in, st.table, [table EXCEPT !.rows = copies]), in, st.label)
      BY <1>0, <2>4, <2>11 DEF After
    <3> QED BY <2>3, <3>1
  <2>12. CASE st.kind = "insert select"
    <3>1. new = Used(ChangeTable(s, in, st.table, [table EXCEPT !.rows = copies]), in, st.label)
      BY <1>0, <2>4, <2>12 DEF After
    <3> QED BY <2>3, <3>1
  <2> QED BY <1>9, <2>6, <2>7, <2>8, <2>9, <2>10, <2>11, <2>12
<1>10. CASE ~(\/ st.kind \in {"create index", "drop index", "set bloom filter", "delete", "overwrite"}
              \/ st.kind \in {"create table", "insert", "insert select"}
              \/ st.kind = "create database" /\ st.db \notin DOMAIN s.tables
              \/ st.kind \in {"drop database", "drop table", "export"})
  <2>1. new = s
    BY <1>0, <1>10 DEF After
  <2> QED BY <1>2, <2>1
<1> QED BY <1>4, <1>5, <1>6, <1>7, <1>8, <1>9, <1>10

\* Whoever creates a table creates one that can be read.
LEMMA CreatedReadable ==
    ASSUME TablesAreComparable, NEW op \in Given, NEW st, Stems(st, op)
    PROVE  MakesReadable(st)
<1> SUFFICES ASSUME st.kind = "create table" PROVE Readable(Stored(st.def))
  BY DEF MakesReadable
<1>1. PICK j \in DOMAIN Statements(op) : st = Statements(op)[j]
  BY DEF Stems, Listing
<1>2. CASE op.kind \notin Composite
  <2>1. st = op.statement
    BY <1>1, <1>2, StatementIs
  <2> QED BY <1>2, <2>1 DEF TablesAreComparable
<1>3. CASE op.kind = "insertMany"
  <2>1. st = insertMany(op)[j] /\ j \in DOMAIN insertMany(op)
    BY <1>1, <1>3, StatementIs
  <2>2. st.kind = "insert"
    BY <2>1 DEF insertMany
  <2> QED BY <2>2
<1>4. CASE op.kind \in Composite \ {"createTable", "insertMany"}
  <2>1. st.kind \in {"count", "show partitions", "use", "show tables", "export", "invalid", "delete"}
    BY <1>1, <1>4, StatementIs
  <2> QED BY <2>1
<1>5. CASE op.kind = "createTable"
  <2>1. PICK all, S : all = op.def.indexes /\ all \in Seq(S)
    BY <1>5, CreateTableIs
  <2>2. PICK n : n = Len(all) /\ n \in Nat
    BY <2>1, SeqDomain
  <2>3. j = 1 \/ \E k \in 1..Len(all) : j = k + 1
    <3>1. DOMAIN Statements(op) = 1..(n + 1)
      BY <1>5, <2>1, <2>2, CreateTableIs
    <3>2. j \in 1..(n + 1)
      BY <1>1, <3>1
    <3> QED BY <2>2, <3>2, After1
  <2>4. CASE j = 1
    <3>1. st = Creation(op)
      BY <1>1, <1>5, <2>4, CreateTableIs
    <3>2. st.def = op.def
      BY <3>1 DEF Creation
    <3> QED BY <1>5, <3>2 DEF TablesAreComparable
  <2>5. ASSUME NEW k \in 1..Len(all), j = k + 1 PROVE st.kind # "create table"
    <3>1. PICK index, t : index = all[k] /\ t = op.def.name
      OBVIOUS
    <3>2. Statements(op)[k + 1] = createIndex(op.def.name, op.def.indexes[k])
      BY <1>5, <2>1, <2>5, CreateTableIs
    <3>3. st = createIndex(t, index)
      BY <1>1, <2>1, <2>5, <3>1, <3>2
    <3> QED BY <3>3 DEF createIndex
  <2> QED BY <2>3, <2>4, <2>5
<1> QED BY <1>2, <1>3, <1>4, <1>5

(***************************************************************************)
(* An introspection                                                        *)
(***************************************************************************)
Latest(got) == got[Len(got)]
\* A create statement has been read, and the columns are asked for next.
Pending(got) == got # <<>> /\ Latest(got).st.kind = "show create" /\ Latest(got).ok
ReadWith(last, e) == introspectTable(last.st.table, last.value, e.value)

LEMMA ReadFields ==
    ASSUME NEW last, NEW e
    PROVE  LET a == ReadWith(last, e)
           IN  /\ a.name = last.st.table /\ a.columns = e.value
               /\ a.keyType = parsedKeyType(last.value) /\ a.keys = last.value.keys
               /\ a.distribution = parsedDistribution(last.value)
BY DEF ReadWith, introspectTable, parseCreateTable

LEMMA SeqMore ==
    ASSUME NEW S, NEW s, s \in Seq(S), NEW e
    PROVE  /\ Len(s) \in Nat /\ Len(Append(s, e)) = Len(s) + 1 /\ Append(s, e)[Len(s) + 1] = e
           /\ \A i \in 1..Len(s) : Append(s, e)[i] = s[i]
           /\ s = <<>> <=> Len(s) = 0
           /\ Append(s, e) \in Seq(S \cup {e}) /\ Append(s, e) # <<>>
OBVIOUS

\* An answer completes at most the table whose create statement came before it.
LEMMA IntrospectedMore ==
    ASSUME NEW S, NEW got, got \in Seq(S), NEW e, NEW a
    PROVE  a \in Introspected(Append(got, e)) <=>
              a \in Introspected(got) \/ (Pending(got) /\ e.ok /\ a = ReadWith(Latest(got), e))
<1> DEFINE Pairs(g) == {j \in 1..(Len(g) - 1) : g[j].st.kind = "show create" /\ g[j].ok /\ g[j + 1].ok}
           At(g, i) == introspectTable(g[i].st.table, g[i].value, g[i + 1].value)
<1>0. PICK n, new : n = Len(got) /\ new = Append(got, e)
  OBVIOUS
<1>1. /\ n \in Nat /\ Len(new) = n + 1 /\ new[n + 1] = e /\ (got = <<>> <=> n = 0)
      /\ \A i \in 1..n : new[i] = got[i]
  BY <1>0, SeqMore
<1>2. \A g : a \in Introspected(g) <=> \E i \in Pairs(g) : a = At(g, i)
  BY DEF Introspected
<1>3. /\ \A j : j \in Pairs(new) <=>
                j \in 1..n /\ new[j].st.kind = "show create" /\ new[j].ok /\ new[j + 1].ok
      /\ \A j : j \in Pairs(got) <=>
                j \in 1..(n - 1) /\ got[j].st.kind = "show create" /\ got[j].ok /\ got[j + 1].ok
  <2>1. \A g, j : j \in Pairs(g) <=>
            j \in 1..(Len(g) - 1) /\ g[j].st.kind = "show create" /\ g[j].ok /\ g[j + 1].ok
    BY Zenon
  <2>2. Len(new) - 1 = n /\ Len(got) = n
    BY <1>0, <1>1
  <2> HIDE DEF Pairs
  <2> QED BY <2>1, <2>2, Zenon
<1>4. /\ \A j : j \in 1..n <=> j \in 1..(n - 1) \/ (j = n /\ n # 0)
      /\ \A j \in 1..(n - 1) : j + 1 \in 1..n
      /\ n \notin 1..(n - 1)
  BY <1>1
<1> HIDE DEF Pairs
<1>5. ASSUME NEW j PROVE j \in Pairs(new) <=> j \in Pairs(got) \/ (j = n /\ Pending(got) /\ e.ok)
  <2>1. CASE j \in 1..(n - 1)
    <3>1. new[j] = got[j] /\ new[j + 1] = got[j + 1] /\ j # n
      BY <1>1, <1>4, <2>1
    <3> QED BY <1>3, <1>4, <2>1, <3>1
  <2>2. CASE j = n /\ n # 0
    <3>1. new[j] = Latest(got) /\ new[j + 1] = e /\ got # <<>>
      BY <1>0, <1>1, <1>4, <2>2 DEF Latest
    <3> QED BY <1>3, <1>4, <2>2, <3>1 DEF Pending
  <2>3. CASE j \notin 1..n
    BY <1>0, <1>1, <1>3, <1>4, <2>3 DEF Pending
  <2> QED BY <1>4, <2>1, <2>2, <2>3
<1>6. ASSUME NEW j \in Pairs(got) PROVE At(new, j) = At(got, j)
  <2>1. j \in 1..n /\ j + 1 \in 1..n
    BY <1>3, <1>4, <1>6
  <2>2. new[j] = got[j] /\ new[j + 1] = got[j + 1]
    BY <1>1, <2>1
  <2> QED BY <2>2
<1>7. Pending(got) => At(new, n) = ReadWith(Latest(got), e)
  <2>1. Pending(got) => new[n] = Latest(got)
    BY <1>0, <1>1, <1>4 DEF Pending, Latest
  <2> QED BY <1>1, <2>1 DEF ReadWith
<1> HIDE DEF At
<1> QED BY <1>0, <1>2, <1>5, <1>6, <1>7

LEMMA NoneIntrospected == Introspected(<<>>) = {} /\ ~Pending(<<>>)
<1>1. PICK none : none = <<>>
  OBVIOUS
<1>2. Len(none) = 0
  BY <1>1
<1>3. 1..(Len(none) - 1) = {}
  BY <1>2
<1> QED BY <1>1, <1>3 DEF Introspected, Pending

\* Every element of a set has its place.
LEMMA AllPlaced ==
    ASSUME NEW V, IsFiniteSet(V), NEW f, f = SetToSeq(V)
    PROVE  f \in Seq(V) /\ \A t \in V : \E i \in DOMAIN f : f[i] = t
<1>1. PICK n : n = Cardinality(V)
  OBVIOUS
<1>2. n \in Nat /\ ExistsBijection(1..n, V)
  BY <1>1, FS_CardinalityType
<1>3. \E g \in [1..n -> V] : IsInjective(g)
  BY <1>2 DEF ExistsBijection, Bijection, Injection
<1>4. f \in [1..n -> V] /\ IsInjective(f)
  BY <1>1, <1>3 DEF SetToSeq
<1>5. f \in Injection(1..n, V)
  BY <1>4 DEF Injection
<1>6. Cardinality(1..n) = n
  <2>1. 1 \in Int /\ n \in Int /\ IF 1 > n THEN n = 0 ELSE n - 1 + 1 = n
    BY <1>2
  <2>2. Cardinality(1..n) = IF 1 > n THEN 0 ELSE n - 1 + 1
    BY <2>1, FS_Interval, Zenon
  <2> QED BY <2>1, <2>2
<1>7. f \in Surjection(1..n, V)
  BY <1>1, <1>5, <1>6, FS_Injection
<1>8. DOMAIN f = 1..n /\ \A t \in V : \E i \in 1..n : f[i] = t
  BY <1>4, <1>7 DEF Surjection
<1>9. f \in Seq(V)
  BY <1>2, <1>4, SeqWithin
<1> QED BY <1>8, <1>9

\* st asks for one of the tables of the session's database.
Asks(st) == st.kind \in Listing /\ "db" \notin DOMAIN st
IsCreate(st) == st.kind = "show create"
IsDescribe(st) == st.kind = "describe"
CreateOf(t) == [kind |-> "show create", table |-> t]
DescribeOf(t) == [kind |-> "describe", table |-> t]
\* At one of the moments, table t was what an answer says.
Showed(moments, t, value) == \E m \in moments : t \in DOMAIN m /\ value = m[t]
Missed(moments, t) == \E m \in moments : t \notin DOMAIN m

\* An introspection is past the names: every table has been missing, is yet to be read, or was read.
Lists(moments, todo, got) ==
    /\ \A i \in DOMAIN todo : Asks(todo[i]) /\ (IsDescribe(todo[i]) => i = 1 /\ Pending(got))
    /\ Pending(got) =>
          /\ todo # <<>> /\ IsDescribe(todo[1]) /\ todo[1].table = Latest(got).st.table
          /\ Showed(moments, Latest(got).st.table, Latest(got).value)
    /\ \A t : \/ Missed(moments, t)
              \/ \E i \in DOMAIN todo : todo[i].table = t
              \/ Read(Introspected(got), t) # {}

AskNames == [kind |-> "show tables"]
Reads(moments, op, todo, got) ==
    /\ \E S : got \in Seq(S)
    /\ Sound(Introspected(got), moments)
    /\ \/ todo = <<useDatabase(op.db), AskNames>> /\ got = <<>>
       \/ todo = <<AskNames>> /\ ~Pending(got)
       \/ Lists(moments, todo, got)

\* More moments make no difference to what was so at one of them.
LEMMA ReadsMore ==
    ASSUME NEW moments, NEW more, moments \subseteq more, NEW op, NEW todo, NEW got, Reads(moments, op, todo, got)
    PROVE  Reads(more, op, todo, got)
<1>1. Sound(Introspected(got), more)
  BY DEF Reads, Sound
<1>2. Lists(moments, todo, got) => Lists(more, todo, got)
  BY DEF Lists, Showed, Missed
<1> QED BY <1>1, <1>2 DEF Reads

\* At its end it has read every table that was there all the time.
LEMMA ReadsAll ==
    ASSUME NEW moments, NEW op, NEW got, Reads(moments, op, <<>>, got)
    PROVE  Sound(Introspected(got), moments) /\ Complete(Introspected(got), moments)
<1>1. PICK none : none = <<>>
  OBVIOUS
<1>2. DOMAIN none = {} /\ none # <<useDatabase(op.db), AskNames>> /\ none # <<AskNames>>
  BY <1>1
<1>3. Lists(moments, none, got)
  BY <1>1, <1>2 DEF Reads
<1>4. Complete(Introspected(got), moments)
  BY <1>2, <1>3 DEF Lists, Missed, Complete
<1> QED BY <1>4 DEF Reads

\* What the tables of a database look like.
LEMMA ShapesAre ==
    ASSUME NEW s, NEW db
    PROVE  /\ \A t : t \in DOMAIN Shapes(s, db) <=> HasTable(s, db, t)
           /\ \A t \in DOMAIN Shapes(s, db) : Shapes(s, db)[t] = s.tables[db][t].shape
<1>1. PICK none : none = <<>> /\ DOMAIN none = {}
  OBVIOUS
<1>2. CASE db \in DOMAIN s.tables
  BY <1>2 DEF Shapes, HasTable
<1>3. CASE db \notin DOMAIN s.tables
  <2>1. Shapes(s, db) = none
    BY <1>1, <1>3 DEF Shapes
  <2> QED BY <1>1, <1>3, <2>1 DEF HasTable
<1> QED BY <1>2, <1>3

\* The answer to a statement that asks for a table.
LEMMA AnswerIs ==
    ASSUME NEW s, NEW db, NEW st, Asks(st)
    PROVE  LET m == Shapes(s, db)
           IN  /\ Accepts(s, db, st) <=> st.table \in DOMAIN m
               /\ Accepts(s, db, st) =>
                     Shows(s, db, st) = IF IsCreate(st) THEN m[st.table] ELSE m[st.table].columns
<1>1. Within(db, st) = db
  BY DEF Within, Asks
<1>2. st.kind \in {"show create", "describe"}
  BY DEF Asks, Listing
<1>3. Accepts(s, db, st) <=> HasTable(s, db, st.table)
  BY <1>1, <1>2 DEF Accepts
<1>4. IsCreate(st) => Shows(s, db, st) = s.tables[db][st.table].shape
  BY <1>1 DEF Shows, IsCreate
<1>5. ~IsCreate(st) => Shows(s, db, st) = s.tables[db][st.table].shape.columns
  BY <1>1, <1>2 DEF Shows, IsCreate
<1>6. PICK m : m = Shapes(s, db)
  OBVIOUS
<1>7. st.table \in DOMAIN m <=> HasTable(s, db, st.table)
  BY <1>6, ShapesAre
<1>8. st.table \in DOMAIN m => m[st.table] = s.tables[db][st.table].shape
  BY <1>6, ShapesAre
<1> QED BY <1>3, <1>4, <1>5, <1>6, <1>7, <1>8

\* The statements that are left when the first was answered.
LEMMA TailIs ==
    ASSUME NEW S, NEW s, s \in Seq(S), s # <<>>
    PROVE  /\ 1 \in DOMAIN s /\ Head(s) = s[1]
           /\ \A i \in DOMAIN Tail(s) : i + 1 \in DOMAIN s /\ i + 1 # 1 /\ Tail(s)[i] = s[i + 1]
           /\ \A i \in DOMAIN s : i = 1 \/ \E j \in DOMAIN Tail(s) : Tail(s)[j] = s[i]
<1>1. ASSUME NEW i \in DOMAIN s, i # 1 PROVE i - 1 \in DOMAIN Tail(s) /\ Tail(s)[i - 1] = s[i]
  BY <1>1
<1>2. \A i \in DOMAIN Tail(s) : i + 1 \in DOMAIN s /\ i + 1 # 1 /\ Tail(s)[i] = s[i + 1]
  OBVIOUS
<1>3. 1 \in DOMAIN s /\ Head(s) = s[1]
  OBVIOUS
<1>4. PICK t : t = Tail(s)
  OBVIOUS
<1>5. \A i \in DOMAIN s : i = 1 \/ \E j \in DOMAIN t : t[j] = s[i]
  BY <1>1, <1>4
<1> QED BY <1>2, <1>3, <1>4, <1>5

LEMMA AheadIs ==
    ASSUME NEW S, NEW s, s \in Seq(S), s # <<>>, NEW x, NEW rest, rest = <<x>> \o Tail(s)
    PROVE  DOMAIN rest = DOMAIN s /\ rest[1] = x /\ rest # <<>> /\ \A i \in DOMAIN s : i # 1 => rest[i] = s[i]
OBVIOUS

LEMMA AskedKinds == /\ \A st : Asks(st) <=> (IsCreate(st) \/ IsDescribe(st)) /\ "db" \notin DOMAIN st
                    /\ \A st : ~(IsCreate(st) /\ IsDescribe(st))
                    /\ \A t : IsDescribe(DescribeOf(t)) /\ DescribeOf(t).table = t /\ Asks(DescribeOf(t))
                    /\ \A t : IsCreate(CreateOf(t)) /\ CreateOf(t).table = t /\ Asks(CreateOf(t))
<1>1. \A st : Asks(st) <=> (IsCreate(st) \/ IsDescribe(st)) /\ "db" \notin DOMAIN st
  BY DEF Asks, Listing, IsCreate, IsDescribe
<1>2. \A t : DescribeOf(t).kind = "describe" /\ DescribeOf(t).table = t /\ "db" \notin DOMAIN DescribeOf(t)
  BY DEF DescribeOf
<1>3. \A t : CreateOf(t).kind = "show create" /\ CreateOf(t).table = t /\ "db" \notin DOMAIN CreateOf(t)
  BY DEF CreateOf
<1> QED BY <1>1, <1>2, <1>3 DEF IsCreate, IsDescribe

LEMMA LatestIs ==
    ASSUME NEW S, NEW got, got \in Seq(S), NEW e
    PROVE  /\ Latest(Append(got, e)) = e
           /\ Pending(Append(got, e)) <=> IsCreate(e.st) /\ e.ok
<1>0. PICK new : new = Append(got, e)
  OBVIOUS
<1>1. new[Len(new)] = e /\ new # <<>>
  BY <1>0
<1>2. Latest(new) = e
  BY <1>1 DEF Latest
<1> QED BY <1>0, <1>1, <1>2 DEF Pending, IsCreate

\* An answer that completes no table.
LEMMA NothingRead ==
    ASSUME NEW S, NEW got, got \in Seq(S), NEW e, ~(Pending(got) /\ e.ok)
    PROVE  Introspected(Append(got, e)) = Introspected(got)
<1>1. \A a : a \in Introspected(Append(got, e)) <=> a \in Introspected(got)
  BY IntrospectedMore
<1> QED BY <1>1

\* What is asked for next is at hand, or was not there.
LEMMA ListsOn ==
    ASSUME NEW moments, NEW S, NEW todo, todo \in Seq(S), todo # <<>>,
           NEW T, NEW got, got \in Seq(T), Lists(moments, todo, got), Sound(Introspected(got), moments),
           NEW st, st = Head(todo), NEW m \in moments, NEW e, e.st = st,
           e.ok => st.table \in DOMAIN m /\ e.value = IF IsCreate(st) THEN m[st.table] ELSE m[st.table].columns,
           ~e.ok => st.table \notin DOMAIN m,
           NEW rest, rest = IF IsCreate(st) /\ e.ok
                            THEN <<DescribeOf(st.table)>> \o Tail(todo) ELSE Tail(todo)
    PROVE  Asks(st) /\ Lists(moments, rest, Append(got, e)) /\ Sound(Introspected(Append(got, e)), moments)
<1>1. /\ 1 \in DOMAIN todo /\ st = todo[1]
      /\ \A i \in DOMAIN Tail(todo) : i + 1 \in DOMAIN todo /\ i + 1 # 1 /\ Tail(todo)[i] = todo[i + 1]
      /\ \A i \in DOMAIN todo : i = 1 \/ \E j \in DOMAIN Tail(todo) : Tail(todo)[j] = todo[i]
  BY TailIs
<1>2. Asks(st)
  BY <1>1 DEF Lists
<1>3. PICK new : new = Append(got, e)
  OBVIOUS
<1>4. \A i \in DOMAIN Tail(todo) : Asks(Tail(todo)[i]) /\ ~IsDescribe(Tail(todo)[i])
  BY <1>1 DEF Lists
<1>5. \A t : \/ Missed(moments, t)
             \/ st.table = t \/ \E j \in DOMAIN Tail(todo) : Tail(todo)[j].table = t
             \/ Read(Introspected(got), t) # {}
  BY <1>1 DEF Lists
<1>6. CASE IsCreate(st) /\ e.ok
  <2>1. PICK describe : describe = DescribeOf(st.table)
    OBVIOUS
  <2>2. IsDescribe(describe) /\ describe.table = st.table /\ Asks(describe)
    BY <2>1, AskedKinds
  <2>3. DOMAIN rest = DOMAIN todo /\ rest[1] = describe /\ rest # <<>> /\ \A i \in DOMAIN todo : i # 1 => rest[i] = todo[i]
    <3>1. rest = <<describe>> \o Tail(todo)
      BY <1>6, <2>1
    <3> QED BY <3>1, AheadIs
  <2>4. ~Pending(got)
    BY <1>1, <1>6, AskedKinds DEF Lists
  <2>5. Introspected(new) = Introspected(got) /\ Pending(new) /\ Latest(new) = e
    BY <1>3, <1>6, <2>4, NothingRead, LatestIs
  <2>7. \A i \in DOMAIN rest : Asks(rest[i]) /\ (IsDescribe(rest[i]) => i = 1 /\ Pending(new))
    BY <2>2, <2>3, <2>5 DEF Lists
  <2>8. Showed(moments, e.st.table, e.value)
    BY <1>6 DEF Showed
  <2>9. ASSUME NEW t PROVE \/ Missed(moments, t)
                           \/ \E i \in DOMAIN rest : rest[i].table = t
                           \/ Read(Introspected(new), t) # {}
    <3>1. ASSUME NEW i \in DOMAIN todo, todo[i].table = t PROVE rest[i].table = t /\ i \in DOMAIN rest
      BY <1>1, <2>2, <2>3, <3>1
    <3> QED BY <2>5, <3>1 DEF Lists
  <2>10. Lists(moments, rest, new)
    BY <2>2, <2>3, <2>5, <2>7, <2>8, <2>9 DEF Lists
  <2> QED BY <1>2, <1>3, <2>5, <2>10
<1>7. CASE ~e.ok
  <2>1. rest = Tail(todo)
    BY <1>7
  <2>2. Introspected(new) = Introspected(got) /\ ~Pending(new)
    BY <1>3, <1>7, NothingRead, LatestIs
  <2>3. Missed(moments, st.table)
    BY <1>7 DEF Missed
  <2>4. Lists(moments, rest, new)
    BY <1>4, <1>5, <2>1, <2>2, <2>3 DEF Lists
  <2> QED BY <1>2, <1>3, <2>2, <2>4
<1>8. CASE ~IsCreate(st) /\ e.ok
  <2>1. rest = Tail(todo) /\ IsDescribe(st)
    BY <1>2, <1>8, AskedKinds
  <2>2. PICK last, t, a : last = Latest(got) /\ t = st.table /\ a = ReadWith(last, e)
    OBVIOUS
  <2>3. Pending(got) /\ t = last.st.table /\ Showed(moments, t, last.value)
    BY <1>1, <2>1, <2>2 DEF Lists
  <2>4. \A b : b \in Introspected(new) <=> b \in Introspected(got) \/ b = a
    BY <1>3, <1>8, <2>2, <2>3, IntrospectedMore
  <2>5. a.name = t /\ a.columns = e.value /\ a.keyType = parsedKeyType(last.value) /\ a.keys = last.value.keys
        /\ a.distribution = parsedDistribution(last.value)
    BY <2>2, <2>3, ReadFields
  <2>6. t \in DOMAIN m /\ e.value = m[t].columns
    BY <1>8, <2>2
  <2>7. Sound(Introspected(new), moments)
    <3>1. PICK shown \in moments : t \in DOMAIN shown /\ last.value = shown[t]
      BY <2>3 DEF Showed
    <3>2. SUFFICES ASSUME NEW b \in Introspected(new)
                   PROVE  /\ \E n \in moments : /\ b.name \in DOMAIN n
                                                /\ b.keyType = parsedKeyType(n[b.name])
                                                /\ b.keys = n[b.name].keys
                                                /\ b.distribution = parsedDistribution(n[b.name])
                          /\ \E n \in moments : b.name \in DOMAIN n /\ b.columns = n[b.name].columns
      BY DEF Sound
    <3>3. CASE b \in Introspected(got)
      BY <1>1, <3>3 DEF Sound
    <3>4. CASE b = a
      BY <2>5, <2>6, <3>1, <3>4
    <3> QED BY <2>4, <3>3, <3>4
  <2>8. ~Pending(new)
    BY <1>3, <1>8, LatestIs
  <2>9. \A u : Read(Introspected(got), u) # {} => Read(Introspected(new), u) # {}
    BY <2>4 DEF Read
  <2>10. Read(Introspected(new), t) # {}
    BY <2>4, <2>5 DEF Read
  <2>11. Lists(moments, rest, new)
    BY <1>4, <1>5, <2>1, <2>2, <2>8, <2>9, <2>10 DEF Lists
  <2> QED BY <1>2, <1>3, <2>7, <2>11
<1> QED BY <1>6, <1>7, <1>8

(* An introspection goes on with what the server answers from the database  *)
(* it asked for.                                                            *)
\* A statement of op answered as the server does, in a session of op's database.
Faithful(op, st, ok, value) ==
    \E db : /\ st.kind = "use" \/ db = op.db
            /\ ok <=> Accepts(server, db, st)
            /\ value = IF ok THEN Shows(server, db, st) ELSE <<>>

LEMMA ReadsOn ==
    ASSUME ServerOK(server), NEW c, NEW r, Live(c, r), r.op.kind = "validate",
           NEW moments, Shapes(server, r.op.db) \in moments, Reads(moments, r.op, r.todo, r.got),
           NEW ok \in BOOLEAN, NEW value, NEW st, st = Head(r.todo), Faithful(r.op, st, ok, value),
           ok \/ Catches(r.op, st), NEW rest, rest = NextOf(r.op, st, Tail(r.todo), ok, value)
    PROVE  Reads(moments, r.op, rest, Append(r.got, [st |-> st, ok |-> ok, value |-> value]))
<1>1. PICK db : /\ st.kind = "use" \/ db = r.op.db
                /\ ok <=> Accepts(server, db, st)
                /\ value = IF ok THEN Shows(server, db, st) ELSE <<>>
  BY DEF Faithful
<1>2. PICK S : r.todo \in Seq(S) /\ r.todo # <<>>
  BY DEF Live
<1>3. PICK e, s, op, todo, got : /\ e = [st |-> st, ok |-> ok, value |-> value]
                                 /\ s = server /\ op = r.op /\ todo = r.todo /\ got = r.got
  OBVIOUS
<1> e.st = st /\ e.ok = ok /\ e.value = value
  BY <1>3
<1> /\ ServerOK(s) /\ op.kind = "validate" /\ Shapes(s, op.db) \in moments
    /\ Reads(moments, op, todo, got)
  BY <1>3
<1> todo \in Seq(S) /\ todo # <<>> /\ st = Head(todo)
  BY <1>2, <1>3
<1> /\ st.kind = "use" \/ db = op.db
    /\ ok <=> Accepts(s, db, st)
    /\ value = IF ok THEN Shows(s, db, st) ELSE <<>>
  BY <1>1, <1>3
<1> (ok \/ Catches(op, st)) /\ rest = NextOf(op, st, Tail(todo), ok, value)
  BY <1>3
<1> SUFFICES Reads(moments, op, rest, Append(got, e))
  BY <1>3
<1>10. PICK T : got \in Seq(T)
  BY DEF Reads
<1>11. PICK new : new = Append(got, e) /\ \E U : new \in Seq(U)
  BY <1>10, SeqMore
<1>12. /\ AskNames.kind = "show tables" /\ "db" \notin DOMAIN AskNames
      /\ useDatabase(op.db).kind = "use"
  BY DEF AskNames, useDatabase
<1>13. CASE todo = <<useDatabase(op.db), AskNames>> /\ got = <<>>
  <2>1. st = useDatabase(op.db) /\ Tail(todo) = <<AskNames>>
    BY <1>13
  <2>2. rest = <<AskNames>>
    BY <1>12, <2>1 DEF NextOf
  <2>3. ~Pending(got) /\ Introspected(new) = Introspected(got)
    BY <1>10, <1>11, <1>13, NoneIntrospected, NothingRead
  <2>4. ~IsCreate(st)
    BY <1>12, <2>1 DEF IsCreate
  <2>5. ~Pending(new)
    BY <1>10, <1>11, <2>4, LatestIs
  <2> QED BY <1>11, <2>2, <2>3, <2>5 DEF Reads
<1>14. CASE todo = <<AskNames>> /\ ~Pending(got)
  <2>1. st = AskNames
    BY <1>14
  <2>2. st.kind = "show tables" /\ Within(db, st) = op.db /\ ~IsCreate(st)
    BY <1>12, <2>1 DEF Within, IsCreate
  <2>3. ok
    BY <2>2 DEF Catches
  <2>4. PICK V : V = DOMAIN s.tables[op.db]
    OBVIOUS
  <2>5. op.db \in DOMAIN s.tables /\ value = SetToSeq(V)
    BY <2>2, <2>3, <2>4 DEF Accepts, Shows
  <2>6. IsFiniteSet(V)
    BY <2>4, <2>5 DEF ServerOK
  <2>7. \A t \in V : \E i \in DOMAIN value : value[i] = t
    BY <2>5, <2>6, AllPlaced
  <2>8. rest = [i \in DOMAIN value |-> [kind |-> "show create", table |-> value[i]]]
    BY <2>2 DEF NextOf
  <2>9. DOMAIN rest = DOMAIN value /\ \A i \in DOMAIN rest : rest[i] = CreateOf(value[i])
    BY <2>8, Zenon DEF CreateOf
  <2>10. \A i \in DOMAIN rest : IsCreate(rest[i]) /\ Asks(rest[i]) /\ rest[i].table = value[i]
    BY <2>9, AskedKinds
  <2>11. ~Pending(new) /\ Introspected(new) = Introspected(got)
    BY <1>10, <1>11, <1>14, <2>2, NothingRead, LatestIs
  <2>12. \A t : Missed(moments, t) \/ \E i \in DOMAIN rest : rest[i].table = t
    <3>1. ASSUME NEW t, t \in V PROVE \E i \in DOMAIN rest : rest[i].table = t
      BY <2>7, <2>9, <2>10, <3>1
    <3>2. ASSUME NEW t, t \notin V PROVE t \notin DOMAIN Shapes(s, op.db)
      BY <2>4, <3>2, ShapesAre DEF HasTable
    <3> QED BY <3>1, <3>2 DEF Missed
  <2>13. Lists(moments, rest, new)
    BY <2>10, <2>11, <2>12, AskedKinds DEF Lists
  <2> QED BY <1>11, <2>11, <2>13 DEF Reads
<1>15. CASE Lists(moments, todo, got)
  <2>1. PICK m \in moments : m = Shapes(s, op.db)
    OBVIOUS
  <2>2. Asks(st)
    <3>1. 1 \in DOMAIN todo /\ st = todo[1]
      BY TailIs
    <3> QED BY <1>15, <3>1 DEF Lists
  <2>3. db = op.db /\ st.kind \in Listing
    BY <2>2 DEF Asks, Listing
  <2>4. /\ ok <=> st.table \in DOMAIN m
        /\ ok => value = IF IsCreate(st) THEN m[st.table] ELSE m[st.table].columns
    <3>1. /\ Accepts(s, db, st) <=> st.table \in DOMAIN m
          /\ Accepts(s, db, st) =>
                Shows(s, db, st) = IF IsCreate(st) THEN m[st.table] ELSE m[st.table].columns
      BY <2>1, <2>2, <2>3, AnswerIs
    <3> QED BY <3>1
  <2>5. rest = IF IsCreate(st) /\ e.ok THEN <<DescribeOf(st.table)>> \o Tail(todo) ELSE Tail(todo)
    BY <2>3 DEF NextOf, Listing, IsCreate, DescribeOf
  <2>6. Lists(moments, rest, new) /\ Sound(Introspected(new), moments)
    <3>1. Sound(Introspected(got), moments)
      BY DEF Reads
    <3>2. /\ e.ok => st.table \in DOMAIN m /\ e.value = IF IsCreate(st) THEN m[st.table] ELSE m[st.table].columns
          /\ ~e.ok => st.table \notin DOMAIN m
      BY <2>4
    <3> QED BY <1>10, <1>11, <1>15, <2>5, <3>1, <3>2, ListsOn
  <2> QED BY <1>11, <2>6 DEF Reads
<1> QED BY <1>11, <1>13, <1>14, <1>15 DEF Reads

(***************************************************************************)
(* The callers that validate                                               *)
(***************************************************************************)
Validating(r) == r.stage # "idle" /\ r.op.kind = "validate"
\* A validation under way has seen the server as it is, and reads what it has seen.
Follows(r, moments, misled, s) ==
    Validating(r) => /\ Shapes(s, r.op.db) \in moments
                     /\ ~misled => Reads(moments, r.op, r.todo, r.got)
Tells(report, moments, misled) ==
    report.op.kind = "validate" /\ report.ok /\ ~misled /\ PlainTables(moments) =>
        TellsWhatWas(report.op.tables, report.value, moments)
Told(r, answers, moments, misled) ==
    answers # <<>> /\ r.stage = "idle" => Tells(Last(answers), moments, misled)
Watched(r, answers, moments, misled, s) ==
    /\ Legible(moments)
    /\ Follows(r, moments, misled, s)
    /\ Told(r, answers, moments, misled)
WatchOK ==
    /\ DOMAIN history.seen = Callers /\ DOMAIN history.misled = Callers
    /\ ShapesOK(server)
    /\ \A c \in Callers : Watched(call[c], told[c], history.seen[c], history.misled[c], server)

LEMMA WatchedReports == ASSUME WatchOK PROVE ReportsWhatWas
BY DEF WatchOK, Watched, Told, Tells, ReportsWhatWas

LEMMA ShapesLegible == ASSUME NEW s, ShapesOK(s), NEW db PROVE Legible({Shapes(s, db)})
<1>1. PICK m : m = Shapes(s, db)
  OBVIOUS
<1>2. \A t \in DOMAIN m : Readable(m[t])
  BY <1>1, ShapesAre DEF ShapesOK
<1> QED BY <1>1, <1>2 DEF Legible

\* What a caller under way sees of a step.
Sees(r, moments, more, s, new) ==
    \/ new.tables = s.tables /\ more = moments
    \/ more = IF Validating(r) THEN moments \cup {Shapes(new, r.op.db)} ELSE moments

LEMMA SeesMore ==
    ASSUME NEW r, NEW moments, NEW more, NEW s, NEW new, Sees(r, moments, more, s, new),
           Legible(moments), ShapesOK(new)
    PROVE  /\ moments \subseteq more /\ Legible(more)
           /\ Validating(r) /\ Shapes(s, r.op.db) \in moments => Shapes(new, r.op.db) \in more
           /\ ~Validating(r) => more = moments
<1>1. PICK m : m = {Shapes(new, r.op.db)}
  OBVIOUS
<1>2. Legible(m)
  BY <1>1, ShapesLegible
<1>3. Legible(moments \cup m)
  BY <1>2 DEF Legible
<1>4. new.tables = s.tables => Shapes(new, r.op.db) = Shapes(s, r.op.db)
  BY DEF Shapes
<1> QED BY <1>1, <1>3, <1>4 DEF Sees

\* A caller that has no answer goes on as before.
Alters(r, q) == /\ r.stage = "idle" <=> q.stage = "idle"
                /\ r.stage # "idle" => q.op = r.op /\ q.todo = r.todo /\ q.got = r.got
LEMMA WatchedOn ==
    ASSUME NEW r, NEW answers, NEW moments, NEW misled, NEW s, Watched(r, answers, moments, misled, s),
           NEW q, Alters(r, q), NEW more, NEW new, Sees(r, moments, more, s, new), ShapesOK(new)
    PROVE  Watched(q, answers, more, misled, new)
<1>1. /\ moments \subseteq more /\ Legible(more)
      /\ Validating(r) /\ Shapes(s, r.op.db) \in moments => Shapes(new, r.op.db) \in more
      /\ ~Validating(r) => more = moments
  BY SeesMore DEF Watched
<1>2. Follows(q, more, misled, new)
  <2>1. SUFFICES ASSUME Validating(q) PROVE Follows(q, more, misled, new)
    BY DEF Follows
  <2>2. Validating(r) /\ q.op = r.op /\ q.todo = r.todo /\ q.got = r.got
    BY <2>1 DEF Alters, Validating
  <2>3. Follows(r, moments, misled, s)
    BY DEF Watched
  <2>4. ~misled => Reads(more, r.op, r.todo, r.got)
    BY <1>1, <2>2, <2>3, ReadsMore DEF Follows
  <2> QED BY <1>1, <2>2, <2>3, <2>4 DEF Follows
<1>3. Told(q, answers, more, misled)
  BY <1>1 DEF Watched, Told, Alters, Validating
<1> QED BY <1>1, <1>2, <1>3 DEF Watched

\* What is answered to an operation.
LEMMA ReturnedIs ==
    ASSUME NEW op, NEW got, NEW complete
    PROVE  LET answer == Returned(op, got, complete)
           IN  /\ answer.op = op
               /\ op.kind = "validate" => /\ answer.ok <=> complete
                                          /\ complete => answer.value = diff(op.tables, Introspected(got))
<1>1. op.kind = "validate" /\ complete => Value(op, got, complete) = diff(op.tables, Introspected(got))
  BY DEF Value
<1> QED BY <1>1 DEF Returned

LEMMA LastIs == ASSUME NEW S, NEW s, s \in Seq(S), NEW x PROVE Last(Append(s, x)) = x
BY SeqMore DEF Last

\* An operation that ends.
LEMMA WatchedEnd ==
    ASSUME NEW op, NEW got, NEW complete, NEW S, NEW answers, answers \in Seq(S), NEW misled,
           NEW moments, Legible(moments), NEW s,
           op.kind = "validate" /\ complete /\ ~misled =>
              Validated(op) /\ Reads(moments, op, <<>>, got)
    PROVE  Watched(Idle, Append(answers, Returned(op, got, complete)), moments, misled, s)
<1>1. PICK report, all : report = Returned(op, got, complete) /\ all = Append(answers, report)
  OBVIOUS
<1>2. Last(all) = report
  BY <1>1, LastIs
<1>3. /\ report.op = op
      /\ op.kind = "validate" => /\ report.ok <=> complete
                                 /\ complete => report.value = diff(op.tables, Introspected(got))
  BY <1>1, ReturnedIs
<1>4. Tells(report, moments, misled)
  <2>1. SUFFICES ASSUME op.kind = "validate", complete, ~misled, PlainTables(moments)
                 PROVE  TellsWhatWas(op.tables, diff(op.tables, Introspected(got)), moments)
    BY <1>3 DEF Tells
  <2>2. Sound(Introspected(got), moments) /\ Complete(Introspected(got), moments)
    BY <2>1, ReadsAll
  <2> QED BY <2>1, <2>2, ReportTells
<1>5. Told(Idle, all, moments, misled)
  BY <1>2, <1>4 DEF Told
<1>6. Follows(Idle, moments, misled, s)
  BY DEF Follows, Validating, Idle
<1> QED BY <1>1, <1>5, <1>6 DEF Watched

\* What the history makes of the answer to a statement of r, or of its failure.
Learns(r, ok, value, moments, misled, more, strayed, new) ==
    /\ moments \subseteq more /\ Legible(more)
    /\ r.op.kind = "validate" => Validated(r.op)
    /\ Validating(r) => Shapes(new, r.op.db) \in more
    /\ ~strayed /\ Validating(r) => ~misled /\ Faithful(r.op, Head(r.todo), ok, value)

\* The caller whose statement was answered, or failed.
LEMMA WatchedGoOn ==
    ASSUME ServerOK(server), CallsOK, ToldOK, NEW c \in Callers, call[c].stage # "idle",
           NEW ok \in BOOLEAN, NEW value, GoOn(c, ok, value),
           NEW moments, NEW misled, Watched(call[c], told[c], moments, misled, server),
           NEW more, NEW strayed, NEW new, Learns(call[c], ok, value, moments, misled, more, strayed, new)
    PROVE  Watched(call'[c], told'[c], more, strayed, new)
<1>1. PICK r, op, st : r = call[c] /\ op = r.op /\ st = Head(r.todo)
  OBVIOUS
<1>2. PICK stops : stops = (~ok /\ ~Catches(op, st))
  OBVIOUS
<1>3. PICK rest, got : /\ rest = NextOf(op, st, Tail(r.todo), ok, value)
                       /\ got = Append(r.got, [st |-> st, ok |-> ok, value |-> value])
  OBVIOUS
<1>4. Live(c, r) /\ (r.op.kind = "validate" <=> Validating(r))
  BY <1>1 DEF CallsOK, Validating
<1>5. ASSUME op.kind = "validate", ~stops, ~strayed PROVE Reads(more, op, rest, got)
  <2>1. Shapes(server, op.db) \in moments /\ Reads(moments, op, r.todo, r.got)
    BY <1>1, <1>4, <1>5 DEF Watched, Follows, Learns
  <2>2. Faithful(op, st, ok, value) /\ (ok \/ Catches(op, st))
    <3>1. Faithful(call[c].op, Head(call[c].todo), ok, value)
      BY <1>1, <1>4, <1>5 DEF Learns
    <3> QED BY <1>1, <1>2, <1>5, <3>1
  <2>3. Reads(moments, op, rest, got)
    BY <1>1, <1>3, <1>4, <1>5, <2>1, <2>2, ReadsOn
  <2> QED BY <2>3, ReadsMore DEF Learns
<1>6. PICK S : told[c] \in Seq(S)
  BY DEF ToldOK
<1>7. CASE stops \/ rest = <<>>
  <2>1. PICK answer, complete : complete = ~stops /\ answer = Returned(op, got, complete)
    OBVIOUS
  <2>2. call' = [call EXCEPT ![c] = Idle] /\ told' = [told EXCEPT ![c] = Append(@, answer)]
    BY <1>1, <1>2, <1>3, <1>7, <2>1 DEF GoOn, Finish
  <2>3. call'[c] = Idle /\ told'[c] = Append(told[c], answer)
    BY <2>2 DEF CallsOK, ToldOK
  <2>4. op.kind = "validate" /\ complete /\ ~strayed => Validated(op) /\ Reads(more, op, <<>>, got)
    BY <1>1, <1>5, <1>7, <2>1 DEF Learns
  <2>5. Watched(Idle, Append(told[c], answer), more, strayed, new)
    BY <1>6, <2>1, <2>4, WatchedEnd DEF Learns
  <2> QED BY <2>3, <2>5
<1>8. CASE ~(stops \/ rest = <<>>)
  <2>1. PICK q : q = [stage |-> "ready", op |-> op, todo |-> rest, got |-> got, session |-> NoSession]
    OBVIOUS
  <2>2. call' = [call EXCEPT ![c] = q] /\ told' = told
    BY <1>1, <1>2, <1>3, <1>8, <2>1 DEF GoOn
  <2>3. call'[c] = q /\ told'[c] = told[c]
    BY <2>2 DEF CallsOK
  <2>4. q.stage = "ready" /\ q.op = op /\ q.todo = rest /\ q.got = got
    BY <2>1
  <2>5. Follows(q, more, strayed, new)
    BY <1>1, <1>4, <1>5, <1>8, <2>4 DEF Follows, Validating, Learns
  <2>6. Told(q, told[c], more, strayed)
    BY <2>4 DEF Told
  <2> QED BY <2>3, <2>5, <2>6 DEF Watched, Learns
<1> QED BY <1>7, <1>8

\* What the history says of a caller.
LEMMA Remembers ==
    ASSUME HistoryOK, DOMAIN history.seen = Callers, NEW c, NEW db, NEW st, NEW old, NEW new,
           NEW h, h = Remember(c, db, st, old, new)
    PROVE  /\ DOMAIN h = HistoryFields /\ DOMAIN h.seen = Callers /\ h.misled = history.misled
           /\ \A d \in Callers : Sees(call[d], history.seen[d], h.seen[d], old, new)
<1>1. PICK seen : seen = [d \in Callers |-> IF Validates(d)
                                            THEN history.seen[d] \cup {Shapes(new, call[d].op.db)}
                                            ELSE history.seen[d]]
  OBVIOUS
<1>2. DOMAIN h = HistoryFields /\ h.misled = history.misled /\ h.seen = seen
  BY <1>1 DEF Remember, HistoryOK, HistoryFields
<1> QED BY <1>1, <1>2 DEF Validates, Validating, Sees

LEMMA Misleads ==
    ASSUME NEW h, DOMAIN h = HistoryFields, DOMAIN h.misled = Callers, NEW c \in Callers,
           NEW k, k = Mislead(h, c)
    PROVE  /\ k.seen = h.seen /\ DOMAIN k.misled = Callers
           /\ k.misled[c] /\ \A d \in Callers \ {c} : k.misled[d] = h.misled[d]
BY DEF Mislead, HistoryFields

\* The tables stay readable when a statement of the callers is carried out.
LEMMA ShapesKept ==
    ASSUME TablesAreComparable, ServerOK(server), ShapesOK(server), NEW db, NEW st, Accepts(server, db, st),
           Names(st), NEW op \in Given, Stems(st, op)
    PROVE  ShapesOK(After(server, db, st))
<1>1. MakesReadable(st)
  BY CreatedReadable
<1> QED BY <1>1, ShapesStay

LEMMA GivenValidated ==
    ASSUME TablesAreComparable, NEW op \in Given, op.kind = "validate"
    PROVE  Validated(op)
BY DEF TablesAreComparable, Validated

LEMMA OtherWatched ==
    ASSUME WatchOK, ShapesOK(server'), NEW d \in Callers, Alters(call[d], call'[d]), told'[d] = told[d],
           Sees(call[d], history.seen[d], history'.seen[d], server, server'),
           history'.misled[d] = history.misled[d]
    PROVE  Watched(call'[d], told'[d], history'.seen[d], history'.misled[d], server')
<1>1. Watched(call[d], told[d], history.seen[d], history.misled[d], server)
  BY DEF WatchOK
<1> QED BY <1>1, WatchedOn

LEMMA QuietWatched ==
    ASSUME WatchOK, server'.tables = server.tables, history' = history, told' = told,
           \A d \in Callers : Alters(call[d], call'[d])
    PROVE  WatchOK'
<1>1. ShapesOK(server') /\ \A d \in Callers : Sees(call[d], history.seen[d], history'.seen[d], server, server')
  BY DEF WatchOK, Sees, ShapesOK, HasTable
<1>2. \A d \in Callers : Watched(call'[d], told'[d], history'.seen[d], history'.misled[d], server')
  BY <1>1, OtherWatched
<1> QED BY <1>1, <1>2 DEF WatchOK

LEMMA TakeAlters ==
    ASSUME CallsOK, NEW c \in Callers, call[c].stage # "idle", NEW p, Take(c, p)
    PROVE  told' = told /\ \A d \in Callers : Alters(call[d], call'[d])
<1>1. PICK s : Run(c, p, s)
  BY DEF Take
<1>2. PICK r : r = [call[c] EXCEPT !.stage = "running", !.session = s]
  OBVIOUS
<1>3. call' = [call EXCEPT ![c] = r] /\ told' = told
  BY <1>1, <1>2 DEF Run
<1>4. call'[c] = r /\ \A d \in Callers \ {c} : call'[d] = call[d]
  BY <1>3 DEF CallsOK
<1>5. Live(c, call[c])
  BY DEF CallsOK
<1>6. r.stage = "running" /\ r.op = call[c].op /\ r.todo = call[c].todo /\ r.got = call[c].got
  BY <1>2, <1>5 DEF Live, CallFields
<1> QED BY <1>3, <1>4, <1>6 DEF Alters

LEMMA GoOnOthers ==
    ASSUME CallsOK, ToldOK, NEW c \in Callers, call[c].stage # "idle", NEW ok \in BOOLEAN, NEW value, GoOn(c, ok, value)
    PROVE  \A d \in Callers \ {c} : Alters(call[d], call'[d]) /\ told'[d] = told[d]
<1>1. Advance(c, ok) /\ \A d \in Callers \ {c} : call'[d] = call[d]
  BY AdvanceStep
<1>2. told' = told \/ \E answer : told' = [told EXCEPT ![c] = Append(@, answer)]
  BY <1>1 DEF Advance
<1>3. \A d \in Callers \ {c} : told'[d] = told[d]
  BY <1>2 DEF ToldOK
<1> QED BY <1>1, <1>3 DEF Alters

LEMMA UnderGiven ==
    ASSUME WorkOK, TablesAreComparable, NEW c \in Callers, call[c].stage # "idle"
    PROVE  /\ call[c].op \in Given
           /\ call[c].op.kind = "validate" => Validated(call[c].op)
<1>1. call[c].op \in Given
  BY DEF WorkOK, Ops
<1> QED BY <1>1, GivenValidated

\* A caller whose statement failed without an answer of the server.
LEMMA MisledWatched ==
    ASSUME HInv, WorkOK, WatchOK, TablesAreComparable, NEW c \in Callers, call[c].stage # "idle",
           GoOn(c, FALSE, <<>>), history' = Mislead(history, c), server' = server
    PROVE  WatchOK'
<1>1. CallsOK /\ ToldOK /\ ServerOK(server) /\ DOMAIN history = HistoryFields
  BY DEF HInv, IInv, HistoryOK
<1>2. DOMAIN history.seen = Callers /\ DOMAIN history.misled = Callers /\ ShapesOK(server)
      /\ \A d \in Callers : Watched(call[d], told[d], history.seen[d], history.misled[d], server)
  BY DEF WatchOK
<1>3. PICK k, h : k = history' /\ h = history
  OBVIOUS
<1>4. /\ k.seen = h.seen /\ DOMAIN k.misled = Callers
      /\ k.misled[c] /\ \A d \in Callers \ {c} : k.misled[d] = h.misled[d]
  <2>1. k = Mislead(h, c) /\ DOMAIN h = HistoryFields /\ DOMAIN h.misled = Callers
    BY <1>1, <1>2, <1>3
  <2> QED BY <2>1, Misleads
<1>5. PICK value : value = <<>>
  OBVIOUS
<1>6. GoOn(c, FALSE, value) /\ FALSE \in BOOLEAN
  BY <1>5
<1>7. ASSUME NEW d \in Callers \ {c} PROVE Watched(call'[d], told'[d], k.seen[d], k.misled[d], server')
  <2>1. Alters(call[d], call'[d]) /\ told'[d] = told[d]
    BY <1>1, <1>6, GoOnOthers
  <2>2. Sees(call[d], history.seen[d], history'.seen[d], server, server')
    BY <1>3, <1>4 DEF Sees
  <2>3. ShapesOK(server') /\ history'.misled[d] = history.misled[d]
    BY <1>2, <1>3, <1>4
  <2>4. Watched(call'[d], told'[d], history'.seen[d], history'.misled[d], server')
    BY <2>1, <2>2, <2>3, OtherWatched
  <2> QED BY <1>3, <2>4
<1>8. Watched(call'[c], told'[c], k.seen[c], k.misled[c], server')
  <2>1. PICK more, moments, misled, strayed :
            /\ more = k.seen[c] /\ moments = h.seen[c] /\ misled = h.misled[c] /\ strayed = k.misled[c]
    OBVIOUS
  <2>2. more = moments /\ strayed
    BY <1>4, <2>1
  <2>3. Watched(call[c], told[c], moments, misled, server)
    BY <1>2, <1>3, <2>1
  <2>4. moments \subseteq more /\ Legible(more) /\ (Validating(call[c]) => Shapes(server, call[c].op.db) \in more)
    BY <2>2, <2>3 DEF Watched, Follows
  <2>5. call[c].op.kind = "validate" => Validated(call[c].op)
    BY UnderGiven
  <2>6. Learns(call[c], FALSE, value, moments, misled, more, strayed, server)
    BY <2>2, <2>4, <2>5 DEF Learns
  <2>7. Watched(call'[c], told'[c], more, strayed, server)
    BY <1>1, <1>6, <2>3, <2>6, WatchedGoOn
  <2> QED BY <2>1, <2>7
<1> QED BY <1>2, <1>3, <1>4, <1>7, <1>8 DEF WatchOK

LEMMA AskWatched ==
    ASSUME HInv, WorkOK, WatchOK, TablesAreComparable, NEW c \in Callers, Ask(c)
    PROVE  WatchOK'
<1>1. PICK p, st : p = PoolOf(call[c].op) /\ st = Head(call[c].todo)
  OBVIOUS
<1>2. call[c].stage = "ready" /\ server' = server
  BY DEF Ask
<1>3. CallsOK /\ ToldOK /\ Live(c, call[c])
  BY <1>2 DEF HInv, IInv, CallsOK
<1>4. CASE Finish(c, call[c].got, FALSE) /\ UNCHANGED <<sessions, waiting, history>>
  <2>1. PICK answer, op, got : op = call[c].op /\ got = call[c].got /\ answer = Returned(op, got, FALSE)
    OBVIOUS
  <2>2. call' = [call EXCEPT ![c] = Idle] /\ told' = [told EXCEPT ![c] = Append(@, answer)]
    BY <1>4, <2>1 DEF Finish
  <2>3. /\ call'[c] = Idle /\ told'[c] = Append(told[c], answer)
        /\ \A d \in Callers \ {c} : Alters(call[d], call'[d]) /\ told'[d] = told[d]
    BY <1>3, <2>2 DEF CallsOK, ToldOK, Alters
  <2>4. ShapesOK(server') /\ history' = history
        /\ \A d \in Callers : Sees(call[d], history.seen[d], history'.seen[d], server, server')
    BY <1>2, <1>4 DEF WatchOK, Sees
  <2>5. \A d \in Callers \ {c} : Watched(call'[d], told'[d], history'.seen[d], history'.misled[d], server')
    BY <2>3, <2>4, OtherWatched
  <2>6. Watched(Idle, Append(told[c], answer), history.seen[c], history.misled[c], server)
    <3>1. PICK S : told[c] \in Seq(S)
      BY <1>3 DEF ToldOK
    <3>2. Legible(history.seen[c])
      BY DEF WatchOK, Watched
    <3>3. PICK complete : complete = FALSE
      OBVIOUS
    <3> QED BY <2>1, <3>1, <3>2, <3>3, WatchedEnd
  <2>7. Watched(call'[c], told'[c], history'.seen[c], history'.misled[c], server')
    BY <1>2, <2>3, <2>4, <2>6
  <2> QED BY <2>4, <2>5, <2>7 DEF WatchOK
<1>5. CASE Take(c, p) /\ UNCHANGED <<waiting, history>>
  <2>1. told' = told /\ \A d \in Callers : Alters(call[d], call'[d])
    BY <1>2, <1>3, <1>5, TakeAlters
  <2> QED BY <1>2, <1>5, <2>1, QuietWatched
<1>6. CASE call' = [call EXCEPT ![c].stage = "queued"] /\ UNCHANGED <<sessions, told, history>>
  <2>1. PICK r : r = [call[c] EXCEPT !.stage = "queued"]
    OBVIOUS
  <2>2. call'[c] = r /\ \A d \in Callers \ {c} : call'[d] = call[d]
    BY <1>3, <1>6, <2>1 DEF CallsOK
  <2>3. r.stage = "queued" /\ r.op = call[c].op /\ r.todo = call[c].todo /\ r.got = call[c].got
    BY <1>3, <2>1 DEF Live, CallFields
  <2>4. \A d \in Callers : Alters(call[d], call'[d])
    BY <1>2, <2>2, <2>3 DEF Alters
  <2> QED BY <1>2, <1>6, <2>4, QuietWatched
<1>7. CASE GoOn(c, FALSE, <<>>) /\ history' = Mislead(history, c)
  BY <1>2, <1>7, MisledWatched
<1> QED BY <1>1, <1>4, <1>5, <1>6, <1>7 DEF Ask

LEMMA HandOverWatched ==
    ASSUME HInv, WatchOK, NEW p \in Pools, HandOver(p)
    PROVE  WatchOK'
<1>1. PICK c : c = Head(waiting[p])
  OBVIOUS
<1>2. waiting[p] # <<>> /\ Take(c, p) /\ server' = server /\ history' = history
  BY <1>1 DEF HandOver, HandOverDue
<1>3. c \in Callers /\ call[c].stage = "queued"
  <2>1. waiting[p] \in Seq(Callers) /\ 1 \in DOMAIN waiting[p] /\ c = waiting[p][1]
    BY <1>1, <1>2 DEF HInv, IInv, QueueOK
  <2> QED BY <2>1 DEF HInv, IInv, QueueOK
<1>4. told' = told /\ \A d \in Callers : Alters(call[d], call'[d])
  BY <1>2, <1>3, TakeAlters DEF HInv, IInv
<1> QED BY <1>2, <1>4, QuietWatched

LEMMA BreakWatched ==
    ASSUME HInv, WorkOK, WatchOK, TablesAreComparable, NEW c \in Callers, Break(c)
    PROVE  WatchOK'
<1>1. call[c].stage = "running" /\ GoOn(c, FALSE, <<>>) /\ history' = Mislead(history, c) /\ server' = server
  BY DEF Break
<1> QED BY <1>1, MisledWatched

LEMMA StatementOf ==
    ASSUME HInv, WorkOK, NEW c \in Callers, call[c].stage # "idle", NEW st, st = Head(call[c].todo)
    PROVE  Names(st) /\ call[c].op \in Given /\ Stems(st, call[c].op)
<1>1. Live(c, call[c])
  BY DEF HInv, IInv, CallsOK
<1>2. PICK T : call[c].todo \in Seq(T) /\ call[c].todo # <<>> /\ \A x \in T : Lawful(c, x)
  BY <1>1 DEF Live
<1>3. Names(st)
  BY <1>2, SeqParts DEF Lawful
<1>4. call[c].op \in Given
  BY DEF WorkOK, Ops
<1>5. CallsOK
  BY DEF HInv, IInv
<1> QED BY <1>3, <1>4, <1>5, HeadIs

LEMMA ReplyWatched ==
    ASSUME HInv, WorkOK, WatchOK, TablesAreComparable, NEW c \in Callers, Reply(c)
    PROVE  WatchOK'
<1>1. PICK db, st : db = sessions[PoolOf(call[c].op)][call[c].session] /\ st = Head(call[c].todo)
  OBVIOUS
<1>2. PICK strays : strays = (Validates(c) /\ st.kind # "use" /\ db # call[c].op.db)
  OBVIOUS
<1>3. PICK ok, value, new, remembered :
          /\ ok = Accepts(server, db, st)
          /\ value = IF ok THEN Shows(server, db, st) ELSE <<>>
          /\ new = IF ok THEN After(server, db, st) ELSE server
          /\ remembered = IF ok THEN Remember(c, db, st, server, new) ELSE history
          /\ server' = new /\ GoOn(c, ok, value)
          /\ history' = IF strays THEN Mislead(remembered, c) ELSE remembered
  BY <1>1, <1>2 DEF Reply
<1>4. ok \in BOOLEAN /\ (ok <=> Accepts(server, db, st))
  <2>1. ok <=> Accepts(server, db, st)
    BY <1>3
  <2>2. ASSUME ~ok PROVE ok = FALSE
    BY <1>3, <2>2
  <2>3. ASSUME ok PROVE ok = TRUE
    BY <1>3, <2>3
  <2> QED BY <2>1, <2>2, <2>3
<1>5. call[c].stage = "running"
  BY DEF Reply
<1>6. CallsOK /\ ToldOK /\ ServerOK(server) /\ HistoryOK
  BY DEF HInv, IInv
<1>7. DOMAIN history.seen = Callers /\ DOMAIN history.misled = Callers /\ ShapesOK(server)
      /\ \A d \in Callers : Watched(call[d], told[d], history.seen[d], history.misled[d], server)
  BY DEF WatchOK
<1>8. ShapesOK(new)
  <2>1. Names(st) /\ call[c].op \in Given /\ Stems(st, call[c].op)
    BY <1>1, <1>5, StatementOf
  <2> QED BY <1>3, <1>4, <1>6, <1>7, <2>1, ShapesKept
<1>9. /\ DOMAIN remembered = HistoryFields /\ DOMAIN remembered.seen = Callers
      /\ remembered.misled = history.misled
      /\ \A d \in Callers : Sees(call[d], history.seen[d], remembered.seen[d], server, new)
  <2>1. CASE ok
    <3>1. remembered = Remember(c, db, st, server, new)
      BY <1>3, <2>1
    <3>2. /\ DOMAIN remembered = HistoryFields /\ DOMAIN remembered.seen = Callers
          /\ remembered.misled = history.misled
          /\ \A d \in Callers : Sees(call[d], history.seen[d], remembered.seen[d], server, new)
      BY <1>6, <1>7, <3>1, Remembers
    <3> QED BY <3>2
  <2>2. CASE ~ok
    BY <1>3, <1>6, <1>7, <2>2 DEF Sees, HistoryOK
  <2> QED BY <2>1, <2>2
<1>10. PICK h : h = history'
  OBVIOUS
<1>11. /\ h.seen = remembered.seen /\ DOMAIN h.misled = Callers
       /\ \A d \in Callers \ {c} : h.misled[d] = history.misled[d]
       /\ ~h.misled[c] => ~strays /\ ~history.misled[c]
  <2>1. CASE strays
    <3>1. h = Mislead(remembered, c) /\ DOMAIN remembered = HistoryFields /\ DOMAIN remembered.misled = Callers
      BY <1>3, <1>7, <1>9, <1>10, <2>1
    <3>2. /\ h.seen = remembered.seen /\ DOMAIN h.misled = Callers
          /\ h.misled[c] /\ \A d \in Callers \ {c} : h.misled[d] = remembered.misled[d]
      BY <3>1, Misleads
    <3> QED BY <1>9, <3>2
  <2>2. CASE ~strays
    BY <1>3, <1>7, <1>9, <1>10, <2>2
  <2> QED BY <2>1, <2>2
<1>12. ASSUME NEW d \in Callers \ {c} PROVE Watched(call'[d], told'[d], h.seen[d], h.misled[d], server')
  <2>1. Alters(call[d], call'[d]) /\ told'[d] = told[d]
    BY <1>3, <1>4, <1>5, <1>6, GoOnOthers
  <2>2. Sees(call[d], history.seen[d], history'.seen[d], server, server')
    BY <1>3, <1>9, <1>10, <1>11
  <2>3. ShapesOK(server') /\ history'.misled[d] = history.misled[d]
    BY <1>3, <1>8, <1>10, <1>11
  <2>4. Watched(call'[d], told'[d], history'.seen[d], history'.misled[d], server')
    BY <2>1, <2>2, <2>3, OtherWatched
  <2> QED BY <1>10, <2>4
<1>13. Watched(call'[c], told'[c], h.seen[c], h.misled[c], server')
  <2>1. PICK r, more, moments, misled, strayed :
            /\ r = call[c] /\ more = h.seen[c] /\ moments = history.seen[c]
            /\ misled = history.misled[c] /\ strayed = h.misled[c]
    OBVIOUS
  <2>2. Watched(r, told[c], moments, misled, server)
    BY <1>7, <2>1
  <2>3. /\ moments \subseteq more /\ Legible(more)
        /\ Validating(r) => Shapes(new, r.op.db) \in more
    <3>1. Sees(r, moments, more, server, new)
      BY <1>9, <1>11, <2>1
    <3> QED BY <1>8, <2>2, <3>1, SeesMore DEF Watched, Follows
  <2>4. ~strayed /\ Validating(r) => ~misled /\ Faithful(r.op, st, ok, value)
    <3> SUFFICES ASSUME ~strayed, Validating(r) PROVE ~misled /\ Faithful(r.op, st, ok, value)
      OBVIOUS
    <3>1. ~strays /\ ~misled
      BY <1>11, <2>1
    <3>2. st.kind = "use" \/ db = r.op.db
      BY <1>2, <2>1, <3>1 DEF Validates, Validating
    <3> QED BY <1>3, <1>4, <3>1, <3>2 DEF Faithful
  <2>5. r.op.kind = "validate" => Validated(r.op)
    BY <1>5, <2>1, UnderGiven
  <2>6. Learns(call[c], ok, value, moments, misled, more, strayed, new)
    BY <1>1, <2>1, <2>3, <2>4, <2>5 DEF Learns
  <2>7. Watched(call[c], told[c], moments, misled, server)
    BY <2>1, <2>2
  <2>8. Watched(call'[c], told'[c], more, strayed, new)
    BY <1>3, <1>4, <1>5, <1>6, <2>6, <2>7, WatchedGoOn
  <2> QED BY <1>3, <2>1, <2>8
<1>14. DOMAIN history'.seen = Callers /\ DOMAIN history'.misled = Callers /\ ShapesOK(server')
  BY <1>3, <1>8, <1>9, <1>10, <1>11
<1> QED BY <1>10, <1>12, <1>13, <1>14 DEF WatchOK

LEMMA LateWatched ==
    ASSUME HInv, WorkOK, WatchOK, TablesAreComparable, LateEffect
    PROVE  WatchOK'
<1>1. PICK l \in late : /\ Accepts(server, l.db, l.st) /\ server' = After(server, l.db, l.st)
                        /\ history' = Remember(l.by, l.db, l.st, server, server')
  BY DEF LateEffect
<1>2. call' = call /\ told' = told /\ ServerOK(server) /\ HistoryOK /\ Names(l.st)
  BY DEF LateEffect, HInv, IInv, LateOK, Lawful
<1>3. PICK op \in Given : Stems(l.st, op)
  <2>1. PICK op \in Called : Stems(l.st, op)
    BY DEF WorkOK
  <2>2. op \in Ops
    BY DEF Called, Answered, Under, Ops
  <2> QED BY <2>1, <2>2 DEF WorkOK
<1>4. ShapesOK(server') /\ DOMAIN history.seen = Callers /\ DOMAIN history.misled = Callers
  BY <1>1, <1>2, <1>3, ShapesKept DEF WatchOK
<1>5. PICK c, db, st, new, h : /\ c = l.by /\ db = l.db /\ st = l.st /\ new = server' /\ h = history'
                            /\ h = Remember(c, db, st, server, new)
  BY <1>1
<1>6. /\ DOMAIN h.seen = Callers /\ h.misled = history.misled
      /\ \A d \in Callers : Sees(call[d], history.seen[d], h.seen[d], server, new)
  BY <1>2, <1>4, <1>5, Remembers
<1>7. \A d \in Callers : Sees(call[d], history.seen[d], history'.seen[d], server, server')
  BY <1>5, <1>6
<1>8. \A d \in Callers : Alters(call[d], call'[d]) /\ told'[d] = told[d] /\ history'.misled[d] = history.misled[d]
  BY <1>2, <1>5, <1>6 DEF Alters
<1>9. \A d \in Callers : Watched(call'[d], told'[d], history'.seen[d], history'.misled[d], server')
  BY <1>4, <1>7, <1>8, OtherWatched
<1> QED BY <1>4, <1>5, <1>6, <1>9 DEF WatchOK

\* A validation that begins has read nothing.
LEMMA StartReads ==
    ASSUME NEW op, op.kind = "validate", NEW moments
    PROVE  Statements(op) # <<>> /\ Reads(moments, op, Statements(op), <<>>)
<1>1. Statements(op) = introspect(op)
  BY DEF Statements
<1>2. introspect(op) = <<useDatabase(op.db), AskNames>>
  BY Zenon DEF introspect, AskNames
<1>3. PICK todo, got : todo = Statements(op) /\ got = <<>>
  OBVIOUS
<1>4. got \in Seq({})
  BY <1>3
<1>5. Introspected(got) = {}
  BY <1>3, NoneIntrospected
<1>6. Sound(Introspected(got), moments)
  BY <1>5 DEF Sound
<1>7. todo = <<useDatabase(op.db), AskNames>> /\ todo # <<>>
  BY <1>1, <1>2, <1>3
<1>8. Reads(moments, op, todo, got)
  BY <1>3, <1>4, <1>6, <1>7 DEF Reads
<1> QED BY <1>3, <1>7, <1>8

\* An operation that is called and returns at once.
LEMMA ReturnsWatched ==
    ASSUME HInv, WatchOK, NEW c \in Callers, call[c].stage = "idle", NEW op, op.kind # "validate",
           NEW answer, answer = Returned(op, <<>>, TRUE), told' = [told EXCEPT ![c] = Append(@, answer)],
           call' = call, history' = history, server' = server
    PROVE  WatchOK'
<1>1. ToldOK /\ told'[c] = Append(told[c], answer) /\ \A d \in Callers \ {c} : told'[d] = told[d]
  BY DEF HInv, IInv, ToldOK
<1>2. ShapesOK(server') /\ \A d \in Callers : Sees(call[d], history.seen[d], history'.seen[d], server, server')
  BY DEF WatchOK, Sees
<1>3. \A d \in Callers \ {c} : Watched(call'[d], told'[d], history'.seen[d], history'.misled[d], server')
  BY <1>1, <1>2, OtherWatched DEF Alters
<1>4. PICK moments, misled : moments = history.seen[c] /\ misled = history.misled[c]
  OBVIOUS
<1>5. Watched(Idle, Append(told[c], answer), moments, misled, server)
  <2>1. PICK S : told[c] \in Seq(S)
    BY <1>1 DEF ToldOK
  <2>2. Legible(moments)
    BY <1>4 DEF WatchOK, Watched
  <2>3. PICK got : got = <<>> /\ answer = Returned(op, got, TRUE)
    OBVIOUS
  <2> QED BY <2>1, <2>2, <2>3, WatchedEnd
<1>6. Alters(Idle, call[c])
  BY DEF Alters, Idle
<1>7. Sees(Idle, moments, moments, server, server) /\ ShapesOK(server)
  BY DEF Sees, WatchOK
<1>8. PICK r, answers : r = Idle /\ answers = Append(told[c], answer)
  OBVIOUS
<1>9. Watched(call[c], answers, moments, misled, server)
  BY <1>5, <1>6, <1>7, <1>8, WatchedOn
<1> QED BY <1>1, <1>2, <1>3, <1>4, <1>8, <1>9 DEF WatchOK

\* An operation that is called and begins.
LEMMA BeginsWatched ==
    ASSUME HInv, WatchOK, NEW c \in Callers, call[c].stage = "idle", NEW op,
           NEW q, call' = [call EXCEPT ![c] = q],
           q.stage = "ready", q.op = op, q.todo = Statements(op), q.got = <<>>,
           history' = IF op.kind = "validate"
                      THEN [history EXCEPT !.seen[c] = {Shapes(server, op.db)}, !.misled[c] = FALSE]
                      ELSE history,
           told' = told, server' = server
    PROVE  WatchOK'
<1>1. CallsOK /\ DOMAIN history = HistoryFields
  <2>1. IInv
    BY DEF HInv
  <2> QED BY <2>1 DEF IInv, HistoryOK
<1>2. DOMAIN history.seen = Callers /\ DOMAIN history.misled = Callers /\ ShapesOK(server)
      /\ \A d \in Callers : Watched(call[d], told[d], history.seen[d], history.misled[d], server)
  BY DEF WatchOK
<1>3. call'[c] = q /\ \A d \in Callers \ {c} : call'[d] = call[d]
  BY <1>1 DEF CallsOK
<1>4. Told(q, told[c], history'.seen[c], history'.misled[c])
  BY DEF Told
<1>5. PICK h : h = history'
  OBVIOUS
<1>6. /\ DOMAIN h.seen = Callers /\ DOMAIN h.misled = Callers
      /\ \A d \in Callers \ {c} : h.seen[d] = history.seen[d] /\ h.misled[d] = history.misled[d]
      /\ Legible(h.seen[c]) /\ Follows(q, h.seen[c], h.misled[c], server)
  <2>1. CASE op.kind = "validate"
    <3>1. PICK moments : moments = {Shapes(server, op.db)}
      OBVIOUS
    <3>2. h = [history EXCEPT !.seen[c] = moments, !.misled[c] = FALSE]
      BY <1>5, <2>1, <3>1
    <3>3. /\ DOMAIN h.seen = Callers /\ DOMAIN h.misled = Callers /\ h.seen[c] = moments /\ ~h.misled[c]
          /\ \A d \in Callers \ {c} : h.seen[d] = history.seen[d] /\ h.misled[d] = history.misled[d]
      <4>1. DOMAIN history = HistoryFields /\ DOMAIN history.seen = Callers /\ DOMAIN history.misled = Callers
        BY <1>1, <1>2
      <4> QED BY <3>2, <4>1 DEF HistoryFields
    <3>4. Legible(moments) /\ Shapes(server, op.db) \in moments
      BY <1>2, <3>1, ShapesLegible
    <3>5. Reads(moments, op, q.todo, q.got)
      BY <2>1, StartReads
    <3>6. Follows(q, moments, h.misled[c], server)
      BY <3>4, <3>5 DEF Follows
    <3> QED BY <3>3, <3>4, <3>6
  <2>2. CASE op.kind # "validate"
    <3>1. h = history
      BY <1>5, <2>2
    <3>2. Follows(q, h.seen[c], h.misled[c], server)
      BY <2>2 DEF Follows, Validating
    <3>3. Legible(h.seen[c])
      BY <1>2, <3>1 DEF Watched
    <3> QED BY <1>2, <3>1, <3>2, <3>3
  <2> QED BY <2>1, <2>2
<1>7. \A d \in Callers \ {c} : Watched(call'[d], told'[d], h.seen[d], h.misled[d], server')
  BY <1>2, <1>3, <1>6
<1>8. Watched(call'[c], told'[c], h.seen[c], h.misled[c], server')
  BY <1>3, <1>4, <1>5, <1>6 DEF Watched
<1> QED BY <1>2, <1>5, <1>6, <1>7, <1>8 DEF WatchOK

LEMMA CallWatched ==
    ASSUME HInv, WatchOK, NEW c \in Callers, Call(c)
    PROVE  WatchOK'
<1>1. PICK op : op = Head(left[c])
  OBVIOUS
<1>2. call[c].stage = "idle" /\ server' = server
  BY DEF Call
<1>3. CASE ~Calls(c, op)
  <2>1. call' = call /\ told' = told /\ history' = history
    BY <1>1, <1>3 DEF Call
  <2> QED BY <1>2, <2>1, QuietWatched DEF Alters
<1>4. CASE Calls(c, op) /\ Statements(op) = <<>>
  <2>1. PICK answer : answer = Returned(op, <<>>, TRUE)
    OBVIOUS
  <2>2. told' = [told EXCEPT ![c] = Append(@, answer)] /\ call' = call /\ history' = history
    BY <1>1, <1>4, <2>1 DEF Call
  <2>3. op.kind # "validate"
    BY <1>4, StartReads
  <2> QED BY <1>2, <2>1, <2>2, <2>3, ReturnsWatched
<1>5. CASE Calls(c, op) /\ Statements(op) # <<>>
  <2>1. PICK q : q = [stage |-> "ready", op |-> op, todo |-> Statements(op),
                      got |-> <<>>, session |-> NoSession]
    OBVIOUS
  <2>2. /\ call' = [call EXCEPT ![c] = q] /\ told' = told
        /\ history' = IF op.kind = "validate"
                      THEN [history EXCEPT !.seen[c] = {Shapes(server, op.db)}, !.misled[c] = FALSE]
                      ELSE history
    BY <1>1, <1>5, <2>1 DEF Call
  <2>3. q.stage = "ready" /\ q.op = op /\ q.todo = Statements(op) /\ q.got = <<>>
    BY <2>1
  <2> QED BY <1>2, <2>2, <2>3, BeginsWatched
<1> QED BY <1>3, <1>4, <1>5

LEMMA WatchStep ==
    ASSUME HInv, WorkOK, WatchOK, TablesAreComparable, [Next]_vars
    PROVE  WatchOK'
<1>1. ASSUME NEW c \in Callers, Call(c) \/ Ask(c) \/ Reply(c) \/ Break(c)
      PROVE  WatchOK'
  BY <1>1, CallWatched, AskWatched, ReplyWatched, BreakWatched
<1>2. ASSUME NEW p \in Pools, HandOver(p) PROVE WatchOK'
  BY <1>2, HandOverWatched
<1>3. CASE LateEffect
  BY <1>3, LateWatched
<1>4. CASE Tick
  <2>1. DOMAIN server = ServerFields /\ server' = [server EXCEPT !.now = @ + 1]
    BY <1>4 DEF Tick, HInv, IInv, ServerOK
  <2>2. server'.tables = server.tables /\ history' = history /\ told' = told /\ call' = call
    BY <1>4, <2>1 DEF Tick, ServerFields
  <2> QED BY <2>2, QuietWatched DEF Alters
<1>5. CASE UNCHANGED vars
  BY <1>5, QuietWatched DEF vars, Alters
<1> QED BY <1>1, <1>2, <1>3, <1>4, <1>5 DEF Next

LEMMA WatchInit == ASSUME TablesAreComparable, Init PROVE WatchOK
<1>1. /\ server = Start /\ history = NoHistory /\ \A c \in Callers : call[c] = Idle /\ told[c] = <<>>
  BY DEF Init
<1>2. ShapesOK(server)
  BY <1>1 DEF TablesAreComparable, ShapesOK, HasTable
<1>3. PICK seen, misled : seen = [c \in Callers |-> {}] /\ misled = [c \in Callers |-> FALSE]
  OBVIOUS
<1>4. history.seen = seen /\ history.misled = misled
  BY <1>1, <1>3 DEF NoHistory
<1>5. ASSUME NEW c \in Callers PROVE Watched(call[c], told[c], {}, FALSE, server)
  <2>1. Legible({})
    BY DEF Legible
  <2>2. Follows(Idle, {}, FALSE, server)
    BY DEF Follows, Validating, Idle
  <2>3. Told(Idle, told[c], {}, FALSE)
    BY <1>1 DEF Told
  <2> QED BY <1>1, <2>1, <2>2, <2>3 DEF Watched
<1>6. \A c \in Callers : seen[c] = {} /\ misled[c] = FALSE
  BY <1>3
<1> QED BY <1>2, <1>3, <1>4, <1>5, <1>6 DEF WatchOK

(* What validate reports of a table was so at some moment while it ran, and *)
(* what it does not report was otherwise at some moment, whatever the other *)
(* callers make of the tables meanwhile and whichever sessions break, but   *)
(* for its own: of the key, the distribution, the names, types and          *)
(* nullability of the columns, with types compared as the code compares     *)
(* them, without the sizes of decimals and the widths of integers           *)
(* (client.ts: introspect; schema-diff.ts: diff, validate).                 *)
THEOREM ReportsWhatWasAlways ==
    ASSUME TablesAreComparable
    PROVE  Spec => []ReportsWhatWas
<1> DEFINE Inv == HInv /\ WorkOK /\ WatchOK
<1>1. Init => Inv
  BY HomeInit, WorkInit, WatchInit
<1>2. Inv /\ [Next]_vars => Inv'
  <2> SUFFICES ASSUME Inv, [Next]_vars PROVE Inv'
    OBVIOUS
  <2>1. Shape /\ HInv'
    BY ShapeStep
  <2>2. WorkOK'
    BY <2>1, WorkStep
  <2>3. WatchOK'
    BY WatchStep
  <2> QED BY <2>1, <2>2, <2>3
<1>3. Inv => ReportsWhatWas
  BY WatchedReports
<1> HIDE DEF Inv
<1> QED BY <1>1, <1>2, <1>3, PTL DEF Spec
=============================================================================
