------------------------ MODULE SessionTurn_proofs ------------------------
(***************************************************************************)
(* Proofs about the session services, for any set of requests, on either    *)
(* deployment and for any number of messages, tool calls and faults.        *)
(***************************************************************************)
EXTENDS SessionTurn, TLAPS

---------------------------------------------------------------------------
(* Type correctness.  What a task keeps and what the store keeps are typed   *)
(* apart, as constant-level formulas, so that the lemmas on how a store call *)
(* ends serve every action.                                                  *)

\* What the tasks keep, with m messages in the ledger and n entries.
Tasked(p, r, s, m, n) ==
    /\ p \in [Tasks -> Steps]
    /\ r \in [Tasks -> Requests]
    /\ s \in SUBSET Tasks
    /\ \A t \in Tasks :
          /\ Within(r[t], m, n)
          /\ p[t] \in CompactSteps => r[t].op \in {"compact", "hook"}

\* What the store keeps.
Stored(l, i, s, u, c) ==
    /\ l \in Seq(Messages)
    /\ i \in Seq(Entries)
    /\ s \in [row : BOOLEAN, seen : Nat, basis : Nat]
    /\ u \in [TurnIds -> Turns]
    /\ c \in [ForkPoints -> [messages : Nat, seen : Nat, basis : Nat]]
    /\ s.seen <= Len(l) /\ s.basis <= Len(i)
    /\ \A k \in TurnIds : u[k].base <= Len(i) /\ u[k].end <= Len(i)

TypeInv ==
    /\ holder \in Tasks \union {NoTask}
    /\ faults \in Nat
    /\ Tasked(pc, req, superseded, Len(ledger), Len(items))
    /\ Stored(ledger, items, soul, turns, children)

(* Lengths of sequences and of sequences grown by one. *)
LEMMA Growth ==
    ASSUME NEW S, NEW s \in Seq(S), NEW e \in S
    PROVE  /\ Len(s) \in Nat
           /\ Append(s, e) \in Seq(S)
           /\ Len(Append(s, e)) = Len(s) + 1
  OBVIOUS

(* Where an error leads is a step, and never one of a compaction's. *)
LEMMA ErrorStep ==
    ASSUME NEW t \in Tasks
    PROVE  AfterError(t) \in Steps /\ AfterError(t) \notin CompactSteps
  BY DEF AfterError, Steps, LockedSteps, SendSteps, CompactSteps, StartupSteps, BodySteps

(* A verdict changes nothing else of a request. *)
LEMMA JudgedTyped ==
    ASSUME NEW t \in Tasks, req[t] \in Requests, NEW m, NEW n,
           Within(req[t], m, n), NEW v \in {"none", "ok", "busy", "error"}
    PROVE  /\ Judged(t, v) \in Requests
           /\ Within(Judged(t, v), m, n)
           /\ Judged(t, v).op = req[t].op
  BY DEF Judged, Requests, Within

(* Sequence numbers stay good while the store grows. *)
LEMMA WithinGrows ==
    ASSUME NEW r \in Requests, NEW m \in Nat, NEW n \in Nat,
           NEW m2 \in Nat, NEW n2 \in Nat, m <= m2, n <= n2, Within(r, m, n)
    PROVE  Within(r, m2, n2)
  BY DEF Within, Requests

(* A request may keep the number of a row that exists, or one more tool call. *)
LEMMA KeepsNumber ==
    ASSUME NEW r \in Requests, NEW m \in Nat, NEW n \in Nat, Within(r, m, n),
           NEW k \in Nat
    PROVE  /\ k <= m => /\ [r EXCEPT !.trig = k] \in Requests
                        /\ Within([r EXCEPT !.trig = k], m, n)
                        /\ [r EXCEPT !.snap = k] \in Requests
                        /\ Within([r EXCEPT !.snap = k], m, n)
                        /\ [r EXCEPT !.answer = k] \in Requests
                        /\ Within([r EXCEPT !.answer = k], m, n)
                        /\ [r EXCEPT !.point = k] \in Requests
                        /\ Within([r EXCEPT !.point = k], m, n)
                        /\ [r EXCEPT !.point = k].op = r.op
           /\ k <= n => /\ [r EXCEPT !.entry = k] \in Requests
                        /\ Within([r EXCEPT !.entry = k], m, n)
           /\ [r EXCEPT !.calls = k] \in Requests
           /\ Within([r EXCEPT !.calls = k], m, n)
  BY DEF Requests, Within

(* A step that returns Ok leaves the tasks typed. *)
LEMMA GoesTyped ==
    ASSUME NEW m \in Nat, NEW n \in Nat, NEW m2 \in Nat, NEW n2 \in Nat,
           m <= m2, n <= n2, Tasked(pc, req, superseded, m, n),
           NEW t \in Tasks, NEW next \in Steps, NEW r \in Requests, Within(r, m2, n2),
           next \in CompactSteps => r.op \in {"compact", "hook"},
           Goes(t, next, r)
    PROVE  Tasked(pc', req', superseded', m2, n2)
<1>1. \A u \in Tasks : Within(req[u], m2, n2)
  BY WithinGrows DEF Tasked
<1> QED
  BY <1>1 DEF Tasked, Goes

(* A step that returns Err leaves the tasks typed. *)
LEMMA ErrsTyped ==
    ASSUME NEW m \in Nat, NEW n \in Nat, NEW m2 \in Nat, NEW n2 \in Nat,
           m <= m2, n <= n2, Tasked(pc, req, superseded, m, n),
           NEW t \in Tasks, Errs(t)
    PROVE  Tasked(pc', req', superseded', m2, n2)
<1>1. \A u \in Tasks : Within(req[u], m2, n2)
  BY WithinGrows DEF Tasked
<1>2. Judged(t, "error") \in Requests /\ Within(Judged(t, "error"), m2, n2)
  BY <1>1, JudgedTyped DEF Tasked
<1>3. AfterError(t) \in Steps /\ AfterError(t) \notin CompactSteps
  BY ErrorStep
<1> QED
  BY <1>1, <1>2, <1>3 DEF Tasked, Errs

(* A store call that took effect leaves the tasks typed. *)
LEMMA AnsweredTyped ==
    ASSUME NEW m \in Nat, NEW n \in Nat, NEW m2 \in Nat, NEW n2 \in Nat,
           m <= m2, n <= n2, Tasked(pc, req, superseded, m, n), faults \in Nat,
           NEW t \in Tasks, NEW next \in Steps, NEW r \in Requests, Within(r, m2, n2),
           next \in CompactSteps => r.op \in {"compact", "hook"},
           Answered(t, next, r)
    PROVE  Tasked(pc', req', superseded', m2, n2) /\ faults' \in Nat
<1>1. CASE Goes(t, next, r) /\ UNCHANGED faults
  BY <1>1, GoesTyped
<1>2. CASE Fault /\ Errs(t)
  BY <1>2, ErrsTyped DEF Fault
<1> QED
  BY <1>1, <1>2 DEF Answered

(* A closed turn is a turn row with the same base. *)
LEMMA ClosedTyped ==
    ASSUME NEW turn \in Turns, NEW status \in {"completed", "failed"}, Len(items) \in Nat
    PROVE  /\ Closed(turn, status) \in Turns
           /\ Closed(turn, status).base = turn.base
           /\ Closed(turn, status).end = Len(items)
  BY DEF Closed, Turns

(* Every step keeps the types, of one action after the other. *)
LEMMA TypeStep ==
    ASSUME TypeInv, [Next]_vars
    PROVE  TypeInv'
<1> USE SessionTurnAssumption
<1> DEFINE M == Len(ledger)
           N == Len(items)
<1>1. /\ M \in Nat /\ N \in Nat /\ faults \in Nat
      /\ Tasked(pc, req, superseded, M, N)
  BY Growth DEF TypeInv, Stored
<1>2. /\ ledger \in Seq(Messages) /\ items \in Seq(Entries)
      /\ soul \in [row : BOOLEAN, seen : Nat, basis : Nat]
      /\ turns \in [TurnIds -> Turns]
      /\ children \in [ForkPoints -> [messages : Nat, seen : Nat, basis : Nat]]
      /\ soul.seen <= M /\ soul.basis <= N
      /\ \A k \in TurnIds : turns[k].base <= N /\ turns[k].end <= N
  BY DEF TypeInv, Stored
<1>3. ASSUME NEW t \in Tasks
      PROVE  /\ req[t] \in Requests /\ pc[t] \in Steps
             /\ Within(req[t], M, N)
             /\ pc[t] \in CompactSteps => req[t].op \in {"compact", "hook"}
             /\ Judged(t, "ok") \in Requests /\ Within(Judged(t, "ok"), M, N)
             /\ Judged(t, "error") \in Requests /\ Within(Judged(t, "error"), M, N)
             /\ Judged(t, "busy") \in Requests /\ Within(Judged(t, "busy"), M, N)
  BY <1>1, JudgedTyped DEF Tasked
<1>4. /\ \A x \in LockedSteps \union {"idle", "lock", "hooks", "done", "dead"} : x \in Steps
      /\ CompactSteps = {"load", "c_soul", "c_start", "c_append", "c_complete"}
      /\ {"idle", "lock", "hooks", "done", "dead", "release", "soul", "trigger",
          "trigger_read", "ref", "assemble", "start", "provider", "call", "dispatch",
          "result", "answer", "answer_read", "answer_ref", "complete", "fail", "load",
          "c_soul", "c_start", "c_append", "c_complete", "f_soul", "f_child",
          "f_illegal", "f_copy"} \subseteq Steps
  BY DEF Steps, LockedSteps, SendSteps, StartupSteps, BodySteps, CompactSteps, ForkSteps
<1>5. ASSUME UNCHANGED db
      PROVE  Stored(ledger', items', soul', turns', children')
             /\ Len(ledger') = M /\ Len(items') = N
  BY <1>5 DEF TypeInv, db
<1> HIDE DEF M, N
<1>6. ASSUME NEW t \in Tasks, Request(t)
      PROVE  TypeInv'
  <2>1. PICK op \in Ops, point \in {0} \union DOMAIN ledger \union ForkPoints :
          /\ op = "reply" => point \in DOMAIN ledger
          /\ op = "fork" => point \in ForkPoints
          /\ op \in {"send", "compact"} => point = 0
          /\ req' = [req EXCEPT ![t].op = op, ![t].point = point]
    BY <1>6 DEF Request
  <2>2. point \in Nat /\ (op # "fork" => point <= M)
    BY <2>1, <1>1, <1>2 DEF ForkPoints, M
  <2>3. /\ req'[t] \in Requests
        /\ op \in {"reply", "compact", "hook"} => point <= M
        /\ Within(req'[t], M, N)
    <3>1. req'[t] = [req[t] EXCEPT !.op = op, !.point = point]
      BY <2>1, <1>1, <1>3 DEF Tasked, Requests
    <3>2. op \in {"send", "reply", "compact", "fork"}
      OBVIOUS
    <3>3. req[t] \in Requests /\ Within(req[t], M, N)
      BY <1>3
    <3>4. req'[t] \in Requests
      BY <3>1, <3>2, <3>3, <2>2 DEF Requests
    <3>5. op \in {"reply", "compact", "hook"} => point <= M
      BY <3>2, <2>2
    <3>6. /\ req'[t].trig = req[t].trig /\ req'[t].snap = req[t].snap
          /\ req'[t].answer = req[t].answer /\ req'[t].entry = req[t].entry
          /\ req'[t].op = op /\ req'[t].point = point
      BY <3>1, <3>3 DEF Requests
    <3>7. Within(req'[t], M, N)
      BY <3>3, <3>5, <3>6 DEF Within
    <3> QED
      BY <3>4, <3>5, <3>7
  <2>4. Tasked(pc', req', superseded', M, N)
    BY <2>1, <2>3, <1>1, <1>4, <1>6 DEF Request, lock, Tasked
  <2> QED
    BY <2>4, <1>5, <1>6 DEF Request, lock, TypeInv
<1>7. ASSUME NEW t \in Tasks, Acquire(t) \/ Busy(t) \/ AcquireFails(t)
      PROVE  TypeInv'
  <2>1. /\ FirstStep(t) \in Steps
        /\ FirstStep(t) \in CompactSteps => req[t].op \in {"compact", "hook"}
    BY <1>4 DEF FirstStep
  <2>2. superseded' \in SUBSET Tasks /\ holder' \in Tasks \union {NoTask} /\ faults' \in Nat
    BY <1>7, <1>1 DEF Acquire, Busy, AcquireFails, Inside, Fault, lock, Tasked, TypeInv
  <2>3. Tasked(pc', req', superseded', M, N)
    <3>1. CASE Acquire(t)
      BY <3>1, <2>1, <2>2, <1>1, <1>3 DEF Acquire, Tasked
    <3>2. CASE Busy(t)
      BY <3>2, <2>2, <1>1, <1>3, <1>4 DEF Busy, Tasked
    <3>3. CASE AcquireFails(t)
      BY <3>3, <2>2, <1>1, <1>3, <1>4 DEF AcquireFails, Tasked
    <3> QED
      BY <1>7, <3>1, <3>2, <3>3
  <2>4. UNCHANGED db
    BY <1>7 DEF Acquire, Busy, AcquireFails
  <2> QED
    BY <2>2, <2>3, <2>4, <1>5 DEF TypeInv
<1>8. ASSUME NEW t \in Tasks, Release(t) \/ ReleaseFails(t)
      PROVE  TypeInv'
  <2>1. AfterRelease(t) \in Steps /\ AfterRelease(t) \notin CompactSteps
    BY <1>4 DEF AfterRelease
  <2>2. superseded' \in SUBSET Tasks /\ holder' \in Tasks \union {NoTask} /\ faults' \in Nat
    BY <1>8, <1>1 DEF Release, ReleaseFails, Fault, Tasked, TypeInv
  <2>3. Tasked(pc', req', superseded', M, N)
    BY <2>1, <2>2, <1>1, <1>3, <1>4, <1>8 DEF Release, ReleaseFails, Tasked
  <2>4. UNCHANGED db
    BY <1>8 DEF Release, ReleaseFails
  <2> QED
    BY <2>2, <2>3, <2>4, <1>5 DEF TypeInv
<1>9. ASSUME NEW t \in Tasks, NEW next \in Steps, NEW r \in Requests, Within(r, M, N),
             next \in CompactSteps => r.op \in {"compact", "hook"},
             Goes(t, next, r) \/ Errs(t), UNCHANGED <<holder, db, faults>>
      PROVE  TypeInv'
  <2>1. Tasked(pc', req', superseded', M, N)
    BY <1>1, <1>9, GoesTyped, ErrsTyped
  <2> QED
    BY <2>1, <1>5, <1>9 DEF TypeInv
<1>10. ASSUME NEW t \in Tasks,
              \/ ReadTrigger(t) \/ LoadTrigger(t) \/ Assemble(t) \/ Provide(t)
              \/ Dispatch(t) \/ ReadAnswer(t) \/ Hooks(t) \/ Load(t) \/ AppendLoses(t)
              \/ LoadParent(t) \/ LoadChild(t)
       PROVE  TypeInv'
  <2>1. CASE ReadTrigger(t)
    <3>1. [req[t] EXCEPT !.trig = M] \in Requests
          /\ Within([req[t] EXCEPT !.trig = M], M, N)
      <4>1. M <= M
        BY <1>1
      <4> QED
        BY <4>1, <1>1, <1>3, KeepsNumber
    <3> QED
      BY <2>1, <3>1, <1>4, <1>9 DEF ReadTrigger, M
  <2>2. CASE LoadTrigger(t)
    <3>1. req[t].op = "reply"
          /\ \/ Goes(t, "ref", [req[t] EXCEPT !.trig = req[t].point])
             \/ Errs(t)
      BY <2>2 DEF LoadTrigger
    <3>2. [req[t] EXCEPT !.trig = req[t].point] \in Requests
          /\ Within([req[t] EXCEPT !.trig = req[t].point], M, N)
      BY <3>1, <1>1, <1>3 DEF Requests, Within
    <3> QED
      BY <2>2, <3>1, <3>2, <1>4, <1>9 DEF LoadTrigger
  <2>3. CASE Assemble(t)
    <3>1. [req[t] EXCEPT !.snap = M] \in Requests
          /\ Within([req[t] EXCEPT !.snap = M], M, N)
      <4>1. M <= M
        BY <1>1
      <4> QED
        BY <4>1, <1>1, <1>3, KeepsNumber
    <3> QED
      BY <2>3, <3>1, <1>4, <1>9 DEF Assemble, M
  <2>4. CASE Provide(t)
    BY <2>4, <1>3, <1>4, <1>9 DEF Provide, Continues
  <2>5. CASE Dispatch(t) \/ AppendLoses(t)
    BY <2>5, <1>3, <1>4, <1>9 DEF Dispatch, AppendLoses
  <2>6. CASE ReadAnswer(t)
    <3>1. [req[t] EXCEPT !.answer = M] \in Requests
          /\ Within([req[t] EXCEPT !.answer = M], M, N)
      <4>1. M <= M
        BY <1>1
      <4> QED
        BY <4>1, <1>1, <1>3, KeepsNumber
    <3> QED
      BY <2>6, <3>1, <1>4, <1>9 DEF ReadAnswer, M
  <2>7. CASE Hooks(t)
    <3>1. [req[t] EXCEPT !.op = "hook", !.point = req[t].answer] \in Requests
          /\ Within([req[t] EXCEPT !.op = "hook", !.point = req[t].answer], M, N)
      BY <1>1, <1>3 DEF Requests, Within
    <3> QED
      BY <2>7, <3>1, <1>3, <1>4, <1>9 DEF Hooks
  <2>8. CASE Load(t)
    <3>1. /\ pc[t] \in CompactSteps
          /\ \/ Goes(t, "release", Judged(t, "error")) \/ Errs(t)
             \/ \E k \in {req[t].point, M} : Goes(t, "c_soul", [req[t] EXCEPT !.point = k])
      BY <2>8, <1>4 DEF Load, M
    <3>2. ASSUME NEW k \in {req[t].point, M}
          PROVE  /\ [req[t] EXCEPT !.point = k] \in Requests
                 /\ Within([req[t] EXCEPT !.point = k], M, N)
                 /\ [req[t] EXCEPT !.point = k].op = req[t].op
      <4>1. k \in Nat /\ k <= M
        BY <3>1, <1>1, <1>3 DEF Requests, Within
      <4> QED
        BY <4>1, <1>1, <1>3, KeepsNumber
    <3> QED
      BY <2>8, <3>1, <3>2, <1>3, <1>4, <1>9 DEF Load
  <2>9. CASE LoadParent(t)
    BY <2>9, <1>3, <1>4, <1>9 DEF LoadParent
  <2>10. CASE LoadChild(t)
    BY <2>10, <1>3, <1>4, <1>9 DEF LoadChild
  <2> QED
    BY <1>10, <2>1, <2>2, <2>3, <2>4, <2>5, <2>6, <2>7, <2>8, <2>9, <2>10
<1>11. ASSUME NEW t \in Tasks, NEW next \in Steps, NEW r \in Requests,
              next \in CompactSteps => r.op \in {"compact", "hook"},
              Answered(t, next, r), UNCHANGED holder,
              Stored(ledger', items', soul', turns', children'),
              M <= Len(ledger'), N <= Len(items'), Within(r, Len(ledger'), Len(items'))
       PROVE  TypeInv'
  <2>1. Len(ledger') \in Nat /\ Len(items') \in Nat
    BY <1>11, Growth DEF Stored
  <2>2. Tasked(pc', req', superseded', Len(ledger'), Len(items')) /\ faults' \in Nat
    BY <2>1, <1>1, <1>11, AnsweredTyped
  <2> QED
    BY <2>2, <1>11 DEF TypeInv
<1>12. ASSUME NEW t \in Tasks, AcquireSoul(t) \/ StartTurn(t) \/ Complete(t) \/ Fail(t)
       PROVE  TypeInv'
  <2>1. /\ UNCHANGED <<holder, ledger, items, children>>
        /\ M = Len(ledger') /\ N = Len(items')
    BY <1>12 DEF AcquireSoul, StartTurn, Complete, Fail, M, N
  <2>2. TurnOf(t) \in TurnIds
    BY DEF TurnOf, TurnIds
  <2>3. CASE AcquireSoul(t)
    <3>1. Stored(ledger', items', soul', turns', children')
      BY <2>1, <2>3, <1>2 DEF AcquireSoul, Stored
    <3>2. /\ Answered(t, IF pc[t] = "soul" THEN "trigger" ELSE "c_start", req[t])
          /\ pc[t] # "soul" => pc[t] \in CompactSteps
      BY <2>3, <1>4 DEF AcquireSoul
    <3> QED
      BY <2>1, <3>1, <3>2, <1>1, <1>3, <1>4, <1>11
  <2>4. CASE StartTurn(t)
    <3>1. Stored(ledger', items', soul', turns', children')
      <4>1. req[t].trig \in Nat /\ req[t].point \in Nat
        BY <1>3 DEF Requests
      <4>2. turns' \in [TurnIds -> Turns]
            /\ \A k \in TurnIds : turns'[k].base <= N /\ turns'[k].end <= N
        BY <2>2, <2>4, <4>1, <1>1, <1>2 DEF StartTurn, Turns, N
      <4> QED
        BY <2>1, <2>4, <4>2, <1>2 DEF StartTurn, Stored
    <3>2. /\ Answered(t, IF pc[t] = "start" THEN "provider" ELSE "c_append", req[t])
          /\ pc[t] # "start" => pc[t] \in CompactSteps
      BY <2>4, <1>4 DEF StartTurn
    <3> QED
      BY <2>1, <3>1, <3>2, <1>1, <1>3, <1>4, <1>11
  <2>5. CASE Complete(t)
    <3>1. Stored(ledger', items', soul', turns', children')
      <4>1. turns' \in [TurnIds -> Turns]
            /\ \A k \in TurnIds : turns'[k].base <= N /\ turns'[k].end <= N
        <5>1. turns' = [turns EXCEPT ![TurnOf(t)] = Closed(@, "completed")]
          BY <2>5 DEF Complete
        <5>2. /\ Closed(turns[TurnOf(t)], "completed") \in Turns
              /\ Closed(turns[TurnOf(t)], "completed").base <= N
              /\ Closed(turns[TurnOf(t)], "completed").end <= N
          <6>1. turns[TurnOf(t)] \in Turns /\ turns[TurnOf(t)].base <= N
            BY <2>2, <1>2
          <6> QED
            BY <6>1, <1>1, ClosedTyped DEF N
        <5> QED
          BY <2>2, <5>1, <5>2, <1>2
      <4>2. /\ req[t].answer \in 0..M /\ req[t].entry \in 0..N
            /\ pc[t] = "c_complete" => req[t].point \in 0..M
            /\ \A basis \in Bases(t) : basis \in 0..N
        BY <1>1, <1>3, <1>4 DEF Requests, Within, Bases
      <4>3. /\ soul' \in [row : BOOLEAN, seen : Nat, basis : Nat]
            /\ soul'.seen <= M /\ soul'.basis <= N
        BY <2>5, <4>2, <1>1, <1>2 DEF Complete
      <4>4. /\ ledger' = ledger /\ items' = items /\ children' = children
            /\ Len(ledger') = M /\ Len(items') = N
        BY <2>1
      <4>5. /\ ledger' \in Seq(Messages) /\ items' \in Seq(Entries)
            /\ children' \in [ForkPoints -> [messages : Nat, seen : Nat, basis : Nat]]
        BY <4>4, <1>2
      <4> QED
        BY <4>1, <4>3, <4>4, <4>5 DEF Stored
    <3>2. Answered(t, "release", Judged(t, "ok"))
      BY <2>5 DEF Complete
    <3> QED
      BY <2>1, <3>1, <3>2, <1>1, <1>3, <1>4, <1>11
  <2>6. CASE Fail(t)
    <3>1. turns' \in [TurnIds -> Turns]
          /\ \A k \in TurnIds : turns'[k].base <= N /\ turns'[k].end <= N
      <4>1. turns' = [turns EXCEPT ![TurnOf(t)] = Closed(@, "failed")]
        BY <2>6 DEF Fail
      <4>2. /\ Closed(turns[TurnOf(t)], "failed") \in Turns
            /\ Closed(turns[TurnOf(t)], "failed").base <= N
            /\ Closed(turns[TurnOf(t)], "failed").end <= N
        <5>1. turns[TurnOf(t)] \in Turns /\ turns[TurnOf(t)].base <= N
          BY <2>2, <1>2
        <5> QED
          BY <5>1, <1>1, ClosedTyped DEF N
      <4> QED
        BY <2>2, <4>1, <4>2, <1>2
    <3>2. Stored(ledger', items', soul', turns', children')
      BY <2>1, <2>6, <3>1, <1>2 DEF Fail, Stored
    <3>3. Answered(t, "release", req[t])
      BY <2>6 DEF Fail
    <3> QED
      BY <2>1, <3>2, <3>3, <1>1, <1>3, <1>4, <1>11
  <2> QED
    BY <1>12, <2>3, <2>4, <2>5, <2>6
<1>13. ASSUME NEW t \in Tasks, AppendTrigger(t) \/ Answer(t)
       PROVE  TypeInv'
  <2> DEFINE m == M + 1
  <2>m. m \in Nat /\ M <= m /\ m <= m /\ N <= N /\ m = M + 1
    BY <1>1
  <2> HIDE DEF m
  <2>1. /\ ledger' \in Seq(Messages) /\ Len(ledger') = m /\ Len(items') = N
        /\ UNCHANGED <<holder, items, soul, turns, children>>
    <3>1. [by |-> t, fixed |-> TRUE] \in Messages
      BY DEF Messages
    <3>2. AppendMessage(t) /\ UNCHANGED <<holder, items, soul, turns, children>>
      BY <1>13 DEF AppendTrigger, Answer
    <3> QED
      BY <3>1, <3>2, <1>2, Growth DEF AppendMessage, M, N, m
  <2>2. Stored(ledger', items', soul', turns', children')
    BY <2>1, <2>m, <1>1, <1>2 DEF Stored, N
  <2>3. Within(req[t], m, N)
    BY <2>m, <1>1, <1>3, WithinGrows
  <2>4. CASE AppendTrigger(t)
    <3>1. [req[t] EXCEPT !.trig = m] \in Requests
          /\ Within([req[t] EXCEPT !.trig = m], m, N)
      BY <2>m, <2>3, <1>1, <1>3, KeepsNumber
    <3>2. Answered(t, IF Standalone THEN "trigger_read" ELSE "ref",
                   [req[t] EXCEPT !.trig = m])
      BY <2>1, <2>4 DEF AppendTrigger
    <3> QED
      BY <2>1, <2>2, <2>m, <3>1, <3>2, <1>4, <1>11
  <2>5. CASE Answer(t)
    <3>1. [req[t] EXCEPT !.answer = m] \in Requests
          /\ Within([req[t] EXCEPT !.answer = m], m, N)
      BY <2>m, <2>3, <1>1, <1>3, KeepsNumber
    <3>2. Answered(t, IF Standalone THEN "answer_read" ELSE "answer_ref",
                   [req[t] EXCEPT !.answer = m])
      BY <2>1, <2>5 DEF Answer
    <3> QED
      BY <2>1, <2>2, <2>m, <3>1, <3>2, <1>4, <1>11
  <2> QED
    BY <1>13, <2>4, <2>5
<1>14. ASSUME NEW t \in Tasks,
              \/ RefTrigger(t) \/ RefAnswer(t) \/ ToolCall(t) \/ ToolResult(t)
              \/ AppendCompact(t)
       PROVE  TypeInv'
  <2> DEFINE n == N + 1
  <2>n. n \in Nat /\ N <= n /\ n <= n /\ M <= M /\ n = N + 1
    BY <1>1
  <2> HIDE DEF n
  <2>1. UNCHANGED <<holder, ledger, soul, turns, children>> /\ Len(ledger') = M
    BY <1>14 DEF RefTrigger, RefAnswer, ToolCall, ToolResult, AppendCompact, M
  <2>2. /\ req[t].trig \in Nat /\ req[t].answer \in Nat /\ req[t].calls \in Nat
        /\ req[t].calls + 1 \in Nat /\ req[t].point \in Nat
        /\ Within(req[t], M, n)
    <3>1. Within(req[t], M, n)
      BY <2>n, <1>1, <1>3, WithinGrows
    <3> QED
      BY <3>1, <1>3 DEF Requests
  <2>3. ASSUME NEW kind \in {"message", "call", "result", "compact"}, NEW ref \in Nat,
               items' = Entry(t, kind, ref)
        PROVE  Stored(ledger', items', soul', turns', children') /\ Len(items') = n
    <3>1. [kind |-> kind, ref |-> ref, by |-> t] \in Entries
      BY DEF Entries
    <3>2. items' \in Seq(Entries) /\ Len(items') = n
      BY <2>3, <2>n, <3>1, <1>2, Growth DEF Entry, N
    <3> QED
      <4>1. \A k \in TurnIds : turns[k].base <= n /\ turns[k].end <= n
        BY <2>n, <1>1, <1>2 DEF Turns
      <4>2. soul.basis <= n
        BY <2>n, <1>1, <1>2
      <4> QED
        BY <2>1, <3>2, <4>1, <4>2, <1>2 DEF Stored
  <2>4. ASSUME NEW m \in Nat, NEW next \in Steps, next \notin CompactSteps,
               AppendMessageRef(t, m, next)
        PROVE  TypeInv'
    <3>1. CASE items' = Entry(t, "message", m)
               /\ Answered(t, next, [req[t] EXCEPT !.entry = Len(items')])
      <4>1. [req[t] EXCEPT !.entry = n] \in Requests
            /\ Within([req[t] EXCEPT !.entry = n], M, n)
        BY <2>n, <2>2, <1>1, <1>3, KeepsNumber
      <4>2. /\ Stored(ledger', items', soul', turns', children') /\ Len(items') = n
            /\ Answered(t, next, [req[t] EXCEPT !.entry = n])
        BY <2>3, <3>1
      <4> QED
        BY <2>1, <2>4, <2>n, <4>1, <4>2, <1>11
    <3>2. CASE Errs(t) /\ UNCHANGED <<items, faults>>
      BY <2>1, <3>2, <1>3, <1>4, <1>9 DEF db
    <3> QED
      BY <2>4, <3>1, <3>2 DEF AppendMessageRef
  <2>5. CASE RefTrigger(t)
    BY <2>2, <2>4, <2>5, <1>4 DEF RefTrigger
  <2>6. CASE RefAnswer(t)
    BY <2>2, <2>4, <2>6, <1>4 DEF RefAnswer
  <2>7. CASE ToolCall(t)
    <3>1. [req[t] EXCEPT !.calls = req[t].calls + 1] \in Requests
          /\ Within([req[t] EXCEPT !.calls = req[t].calls + 1], M, n)
      BY <2>n, <2>2, <1>1, <1>3, KeepsNumber
    <3>2. Answered(t, "dispatch", [req[t] EXCEPT !.calls = req[t].calls + 1])
      BY <2>7 DEF ToolCall
    <3>3. Stored(ledger', items', soul', turns', children') /\ Len(items') = n
      BY <2>2, <2>3, <2>7 DEF ToolCall
    <3> QED
      BY <2>1, <2>n, <3>1, <3>2, <3>3, <1>4, <1>11
  <2>8. CASE ToolResult(t)
    <3>1. Stored(ledger', items', soul', turns', children') /\ Len(items') = n
      BY <2>2, <2>3, <2>8 DEF ToolResult
    <3>2. Answered(t, "provider", req[t]) \/ Answered(t, "call", req[t])
      BY <2>8 DEF ToolResult
    <3> QED
      BY <2>1, <2>2, <2>n, <3>1, <3>2, <1>3, <1>4, <1>11
  <2>9. CASE AppendCompact(t)
    <3>1. Stored(ledger', items', soul', turns', children') /\ Len(items') = n
      BY <2>2, <2>3, <2>9 DEF AppendCompact
    <3>2. Answered(t, "c_complete", req[t]) /\ pc[t] \in CompactSteps
      BY <2>9, <1>4 DEF AppendCompact
    <3> QED
      BY <2>1, <2>2, <2>n, <3>1, <3>2, <1>3, <1>4, <1>11
  <2> QED
    BY <1>14, <2>5, <2>6, <2>7, <2>8, <2>9
<1>15. ASSUME NEW t \in Tasks, Copy(t)
       PROVE  TypeInv'
  <2>1. UNCHANGED <<holder, ledger, items, soul, turns>>
        /\ M = Len(ledger') /\ N = Len(items')
    BY <1>15 DEF Copy, M, N
  <2>2. CASE Errs(t) /\ UNCHANGED <<children, faults>>
    BY <2>1, <2>2, <1>3, <1>4, <1>9 DEF db
  <2>3. CASE /\ children' = [children EXCEPT ![req[t].point] = Child(req[t].point)]
             /\ Answered(t, "release", Judged(t, "ok"))
    <3>1. children' \in [ForkPoints -> [messages : Nat, seen : Nat, basis : Nat]]
      <4>1. ASSUME NEW p \in ForkPoints
            PROVE  Child(p) \in [messages : Nat, seen : Nat, basis : Nat]
        <5>1. p \in Nat /\ soul.seen \in Nat /\ soul.basis \in Nat /\ M \in Nat
          BY <1>1, <1>2 DEF ForkPoints
        <5> QED
          BY <5>1 DEF Child, Lesser, M
      <4> QED
        BY <2>3, <4>1, <1>2
    <3>2. Stored(ledger', items', soul', turns', children')
      BY <2>1, <3>1, <1>2 DEF Stored
    <3> QED
      <4>1. M <= Len(ledger') /\ N <= Len(items')
        BY <2>1, <1>1
      <4>2. Within(Judged(t, "ok"), Len(ledger'), Len(items'))
        BY <2>1, <1>3
      <4> QED
        BY <2>1, <2>3, <3>2, <4>1, <4>2, <1>3, <1>4, <1>11
  <2> QED
    BY <1>15, <2>2, <2>3 DEF Copy
<1>16. ASSUME NEW t \in Tasks, StoreFails(t)
       PROVE  TypeInv'
  <2>1. Errs(t) /\ UNCHANGED <<holder, db>> /\ faults' \in Nat
    BY <1>1, <1>16 DEF StoreFails, Fault
  <2>2. Tasked(pc', req', superseded', M, N)
    BY <2>1, <1>1, ErrsTyped
  <2> QED
    BY <2>1, <2>2, <1>5 DEF TypeInv
<1>17. CASE PeerWrites
  <2>1. UNCHANGED <<lock, pc, req, items, soul, turns, children, faults>>
    BY <1>17 DEF PeerWrites
  <2>2. ledger' \in Seq(Messages) /\ Len(ledger') \in Nat /\ M <= Len(ledger')
    <3>1. CASE \E fixed \in BOOLEAN :
                  ledger' = Append(ledger, [by |-> NoTask, fixed |-> fixed])
      <4>1. PICK fixed \in BOOLEAN :
                  ledger' = Append(ledger, [by |-> NoTask, fixed |-> fixed])
        BY <3>1
      <4>2. [by |-> NoTask, fixed |-> fixed] \in Messages
        BY DEF Messages
      <4> QED
        BY <4>1, <4>2, <1>1, <1>2, Growth DEF M
    <3>2. CASE \E m \in DOMAIN ledger : ledger' = [ledger EXCEPT ![m].fixed = TRUE]
      <4>1. PICK m \in DOMAIN ledger : ledger' = [ledger EXCEPT ![m].fixed = TRUE]
        BY <3>2
      <4>2. ledger[m] \in Messages
        BY <1>2
      <4>3. [ledger[m] EXCEPT !.fixed = TRUE] \in Messages
        BY <4>2 DEF Messages
      <4>4. ledger' = [ledger EXCEPT ![m] = [ledger[m] EXCEPT !.fixed = TRUE]]
        BY <4>1
      <4> HIDE <4>1
      <4>5. ledger' \in Seq(Messages) /\ Len(ledger') = Len(ledger)
        BY <4>3, <4>4, <1>2
      <4> QED
        BY <4>5, <1>1 DEF M
    <3> QED
      BY <3>1, <3>2, <1>17 DEF PeerWrites
  <2>3. Stored(ledger', items', soul', turns', children')
    BY <2>1, <2>2, <1>1, <1>2 DEF Stored, N
  <2>4. Tasked(pc', req', superseded', Len(ledger'), Len(items'))
    <3>1. N <= N /\ N = Len(items')
      BY <2>1, <1>1 DEF N
    <3>2. \A t \in Tasks : Within(req[t], Len(ledger'), N)
      BY <2>2, <3>1, <1>1, <1>3, WithinGrows
    <3> QED
      BY <2>1, <3>1, <3>2, <1>1 DEF Tasked, lock
  <2> QED
    BY <2>1, <2>3, <2>4 DEF TypeInv, lock
<1>18. ASSUME NEW t \in Tasks, Crash(t)
       PROVE  TypeInv'
  <2>1. Tasked(pc', req', superseded', M, N)
    BY <1>1, <1>4, <1>18 DEF Crash, Tasked
  <2> QED
    BY <2>1, <1>1, <1>5, <1>18 DEF Crash, Fault, TypeInv
<1>19. CASE Lapse
  BY <1>5, <1>19 DEF Lapse, TypeInv, M, N
<1>20. CASE Restart
  <2>1. Tasked(pc', req', superseded', M, N)
    BY <1>1, <1>4, <1>20 DEF Restart, Tasked
  <2> QED
    BY <2>1, <1>1, <1>5, <1>20 DEF Restart, Fault, TypeInv
<1>21. CASE UNCHANGED vars
  BY <1>21 DEF vars, TypeInv
<1> QED
  BY <1>6, <1>7, <1>8, <1>10, <1>12, <1>13, <1>14, <1>15, <1>16, <1>17, <1>18,
     <1>19, <1>20, <1>21 DEF Next, Work

(* The initial state is typed. *)
LEMMA TypeInit ==
    ASSUME Init
    PROVE  TypeInv
<1> USE SessionTurnAssumption
<1>1. /\ NoRequest \in Requests /\ Within(NoRequest, 0, 0)
      /\ NoTurn \in Turns /\ NoTurn.base = 0 /\ NoTurn.end = 0
      /\ NoChild \in [messages : Nat, seen : Nat, basis : Nat]
  BY DEF NoRequest, NoTurn, NoChild, Requests, Turns, Within
<1>2. "idle" \in Steps /\ "idle" \notin CompactSteps
  BY DEF Steps, CompactSteps
<1>3. ledger \in Seq(Messages) /\ items \in Seq(Entries) /\ Len(ledger) = 0 /\ Len(items) = 0
  BY DEF Init
<1>4. Tasked(pc, req, superseded, 0, 0)
  BY <1>1, <1>2 DEF Init, Tasked
<1>5. Stored(ledger, items, soul, turns, children)
  BY <1>1, <1>3 DEF Init, Stored
<1> QED
  BY <1>3, <1>4, <1>5 DEF Init, TypeInv

(* Every variable keeps its type and every sequence number that a task, a turn *)
(* or the soul session keeps is the number of a row that exists.               *)
THEOREM TypeCorrect == Spec => []TypeOK
<1>1. Init => TypeInv
  BY TypeInit
<1>2. TypeInv => TypeOK
  BY DEF TypeInv, Tasked, Stored, TypeOK, InRange
<1> QED
  BY <1>1, <1>2, TypeStep, PTL DEF Spec

---------------------------------------------------------------------------
(* The lock.  Every step of the services is a step of the lock port for the  *)
(* tasks between acquire and release, or one that the port does not see; what *)
(* follows for the guards is proved from the port's steps.                    *)

(* A task that moves enters the locked region, leaves it, or stays. *)
LEMMA InsideMoves ==
    ASSUME pc \in [Tasks -> Steps], NEW t \in Tasks, NEW x, pc' = [pc EXCEPT ![t] = x]
    PROVE  /\ x \in LockedSteps => Inside' = Inside \union {t}
           /\ x \notin LockedSteps => Inside' = Inside \ {t}
  BY DEF Inside

(* Ok of a store call under the lock does not touch the lock. *)
LEMMA GoesLock ==
    ASSUME pc \in [Tasks -> Steps], NEW t \in Tasks, pc[t] \in LockedSteps,
           NEW next \in LockedSteps, NEW r, Goes(t, next, r), UNCHANGED holder
    PROVE  UNCHANGED Abs!lockVars
<1>1. Inside' = Inside \union {t} /\ t \in Inside
  BY InsideMoves DEF Goes, Inside
<1> QED
  BY <1>1 DEF Goes, Abs!lockVars

(* Err under the lock goes on to the release or drops the guard. *)
LEMMA ErrsLock ==
    ASSUME pc \in [Tasks -> Steps], superseded \subseteq Inside, NEW t \in Tasks,
           Errs(t), UNCHANGED holder,
           pc[t] \in LockedSteps \/ (pc[t] \notin LockedSteps /\ AfterError(t) = "done")
    PROVE  UNCHANGED Abs!lockVars \/ Abs!Abandon(t)
<1>1. AfterError(t) \in {"release", "fail"} \/ AfterError(t) = "done"
  BY DEF AfterError
<1>2. /\ "release" \in LockedSteps /\ "fail" \in LockedSteps /\ "done" \notin LockedSteps
      /\ "release" # "done" /\ "fail" # "done"
  BY DEF LockedSteps, SendSteps, StartupSteps, BodySteps, CompactSteps, ForkSteps
<1>3. CASE AfterError(t) # "done"
  <2>1. Inside' = Inside \union {t} /\ t \in Inside
    BY <1>1, <1>2, <1>3, InsideMoves DEF Errs, Inside
  <2> QED
    BY <1>3, <2>1 DEF Errs, Abs!lockVars
<1>4. CASE AfterError(t) = "done"
  <2>1. Inside' = Inside \ {t} /\ superseded' = superseded \ {t}
    BY <1>2, <1>4, InsideMoves DEF Errs
  <2>2. CASE t \in Inside
    BY <2>1, <2>2 DEF Abs!Abandon
  <2>3. CASE t \notin Inside
    BY <2>1, <2>3 DEF Abs!lockVars
  <2> QED
    BY <2>2, <2>3
<1> QED
  BY <1>3, <1>4

(* A store call that took effect goes on or drops the guard. *)
LEMMA AnsweredLock ==
    ASSUME pc \in [Tasks -> Steps], superseded \subseteq Inside, NEW t \in Tasks,
           pc[t] \in LockedSteps, NEW next \in LockedSteps, NEW r,
           Answered(t, next, r), UNCHANGED holder
    PROVE  UNCHANGED Abs!lockVars \/ Abs!Abandon(t)
  BY GoesLock, ErrsLock DEF Answered

(* Every step is one of the lock port's; the key lapses under its own guard only. *)
LEMMA LockStep ==
    ASSUME TypeInv, Abs!LockTypeOK, [Next]_vars
    PROVE  \/ UNCHANGED Abs!lockVars
           \/ \E c \in Tasks : \/ Abs!Grant(c) \/ Abs!GrantLate(c)
                              \/ Abs!Release(c) \/ Abs!Abandon(c)
           \/ Lapse /\ Abs!Lapse
           \/ Abs!Restart
<1> DEFINE Small == UNCHANGED Abs!lockVars \/ \E c \in Tasks : Abs!Abandon(c)
<1>1. pc \in [Tasks -> Steps] /\ superseded \subseteq Inside
  BY DEF TypeInv, Tasked, Abs!LockTypeOK
<1>2. /\ {"soul", "trigger", "trigger_read", "ref", "assemble", "start", "provider",
          "call", "dispatch", "result", "answer", "answer_read", "answer_ref", "complete",
          "fail", "load", "c_soul", "c_start", "c_append", "c_complete", "f_soul",
          "f_child", "f_illegal", "f_copy", "release"} = LockedSteps
      /\ SendSteps \union CompactSteps \union ForkSteps \subseteq LockedSteps
      /\ "idle" \notin LockedSteps /\ "lock" \notin LockedSteps /\ "hooks" \notin LockedSteps
      /\ "done" \notin LockedSteps /\ "dead" \notin LockedSteps
  BY DEF LockedSteps, SendSteps, StartupSteps, BodySteps, CompactSteps, ForkSteps
<1>3. ASSUME NEW t \in Tasks, pc[t] \notin LockedSteps, NEW x, x \notin LockedSteps,
             pc' = [pc EXCEPT ![t] = x]
      PROVE  Inside' = Inside
  BY <1>1, <1>3, InsideMoves DEF Inside
<1>4. ASSUME NEW t \in Tasks, pc[t] \in LockedSteps, NEW next \in LockedSteps, NEW r,
             Answered(t, next, r) \/ Goes(t, next, r) \/ Errs(t), UNCHANGED holder
      PROVE  Small
  BY <1>1, <1>4, AnsweredLock, GoesLock, ErrsLock
<1> HIDE DEF Small
<1>5. ASSUME NEW t \in Tasks, Request(t)
      PROVE  UNCHANGED Abs!lockVars
  BY <1>2, <1>3, <1>5 DEF Request, lock, Abs!lockVars
<1>6. ASSUME NEW t \in Tasks, Acquire(t)
      PROVE  Abs!Grant(t)
  <2>1. FirstStep(t) \in LockedSteps
    BY <1>2 DEF FirstStep
  <2>2. Inside' = Inside \union {t} /\ t \notin Inside
    BY <1>1, <1>2, <1>6, <2>1, InsideMoves DEF Acquire, Inside
  <2> QED
    BY <1>6, <2>2 DEF Acquire, Abs!Grant
<1>7. ASSUME NEW t \in Tasks, Busy(t)
      PROVE  UNCHANGED Abs!lockVars
  <2>1. Inside' = Inside
    <3>1. pc[t] \notin LockedSteps /\ pc' = [pc EXCEPT ![t] = "done"]
      BY <1>2, <1>7 DEF Busy
    <3> QED
      BY <3>1, <1>2, <1>3
  <2> QED
    BY <1>7, <2>1 DEF Busy, lock, Abs!lockVars
<1>8. ASSUME NEW t \in Tasks, AcquireFails(t)
      PROVE  UNCHANGED Abs!lockVars \/ Abs!GrantLate(t)
  <2>1. Inside' = Inside /\ t \notin Inside
    BY <1>2, <1>3, <1>8 DEF AcquireFails, Inside
  <2>2. CASE UNCHANGED lock
    BY <2>1, <2>2 DEF lock, Abs!lockVars
  <2>3. CASE holder = NoTask /\ holder' = t /\ superseded' = Inside
    BY <1>8, <2>1, <2>3 DEF AcquireFails, Abs!GrantLate
  <2> QED
    BY <1>8, <2>2, <2>3 DEF AcquireFails
<1>9. ASSUME NEW t \in Tasks, Release(t)
      PROVE  Abs!Release(t)
  <2>1. AfterRelease(t) \notin LockedSteps
    BY <1>2 DEF AfterRelease
  <2>2. Inside' = Inside \ {t} /\ t \in Inside
    BY <1>1, <1>2, <1>9, <2>1, InsideMoves DEF Release, Inside
  <2> QED
    BY <1>9, <2>2 DEF Release, Abs!Release
<1>10. ASSUME NEW t \in Tasks, ReleaseFails(t)
       PROVE  Abs!Release(t) \/ Abs!Abandon(t)
  <2>1. Inside' = Inside \ {t} /\ t \in Inside /\ superseded' = superseded \ {t}
    BY <1>1, <1>2, <1>10, InsideMoves DEF ReleaseFails, Inside
  <2>2. CASE holder' = holder
    BY <2>1, <2>2 DEF Abs!Abandon
  <2>3. CASE holder = t /\ holder' = NoTask
    BY <2>1, <2>3 DEF Abs!Release
  <2> QED
    BY <1>10, <2>2, <2>3 DEF ReleaseFails
<1>11. ASSUME NEW t \in Tasks,
              \/ AcquireSoul(t) \/ AppendTrigger(t) \/ StartTurn(t) \/ ToolCall(t)
              \/ ToolResult(t) \/ Answer(t) \/ Complete(t) \/ Fail(t)
              \/ AppendCompact(t) \/ Copy(t)
       PROVE  Small
  <2>1. CASE AcquireSoul(t)
    BY <2>1, <1>2, <1>4 DEF AcquireSoul
  <2>2. CASE AppendTrigger(t)
    BY <2>2, <1>2, <1>4 DEF AppendTrigger
  <2>3. CASE StartTurn(t)
    BY <2>3, <1>2, <1>4 DEF StartTurn
  <2>4. CASE ToolCall(t)
    BY <2>4, <1>2, <1>4 DEF ToolCall
  <2>5. CASE ToolResult(t)
    BY <2>5, <1>2, <1>4 DEF ToolResult
  <2>6. CASE Answer(t)
    BY <2>6, <1>2, <1>4 DEF Answer
  <2>7. CASE Complete(t)
    BY <2>7, <1>2, <1>4 DEF Complete
  <2>8. CASE Fail(t)
    BY <2>8, <1>2, <1>4 DEF Fail
  <2>9. CASE AppendCompact(t)
    BY <2>9, <1>2, <1>4 DEF AppendCompact
  <2>10. CASE Copy(t)
    BY <2>10, <1>2, <1>4 DEF Copy
  <2> QED
    BY <1>11, <2>1, <2>2, <2>3, <2>4, <2>5, <2>6, <2>7, <2>8, <2>9, <2>10
<1>12. ASSUME NEW t \in Tasks, RefTrigger(t) \/ RefAnswer(t)
       PROVE  Small
  BY <1>2, <1>4, <1>12 DEF RefTrigger, RefAnswer, AppendMessageRef
<1>13. ASSUME NEW t \in Tasks,
              \/ ReadTrigger(t) \/ LoadTrigger(t) \/ Assemble(t) \/ Provide(t)
              \/ Dispatch(t) \/ ReadAnswer(t) \/ Load(t) \/ LoadParent(t) \/ LoadChild(t)
              \/ AppendLoses(t)
       PROVE  Small
  <2>1. CASE ReadTrigger(t) \/ LoadTrigger(t) \/ Assemble(t) \/ ReadAnswer(t)
    BY <2>1, <1>2, <1>4 DEF ReadTrigger, LoadTrigger, Assemble, ReadAnswer
  <2>2. CASE Provide(t) \/ Dispatch(t) \/ AppendLoses(t)
    BY <2>2, <1>2, <1>4 DEF Provide, Continues, Dispatch, AppendLoses
  <2>3. CASE Load(t)
    BY <2>3, <1>2, <1>4 DEF Load
  <2>4. CASE LoadParent(t)
    BY <2>4, <1>2, <1>4 DEF LoadParent
  <2>5. CASE LoadChild(t)
    BY <2>5, <1>2, <1>4 DEF LoadChild
  <2> QED
    BY <1>13, <2>1, <2>2, <2>3, <2>4, <2>5
<1>14. ASSUME NEW t \in Tasks, Hooks(t)
       PROVE  UNCHANGED Abs!lockVars
  BY <1>2, <1>3, <1>14 DEF Hooks, Goes, Abs!lockVars
<1>15. ASSUME NEW t \in Tasks, StoreFails(t)
       PROVE  Small
  <2>1. CASE pc[t] \in LockedSteps
    BY <1>2, <1>4, <1>15, <2>1 DEF StoreFails
  <2>2. CASE pc[t] = "hooks"
    <3>1. AfterError(t) = "done"
      BY <2>2 DEF AfterError, StartupSteps, BodySteps
    <3> QED
      BY <1>1, <1>2, <1>15, <2>2, <3>1, ErrsLock DEF StoreFails, Small
  <2> QED
    BY <1>2, <1>15, <2>1, <2>2 DEF StoreFails
<1>16. ASSUME NEW t \in Tasks, Crash(t)
       PROVE  Small
  <2>1. Inside' = Inside \ {t} /\ superseded' = superseded \ {t} /\ holder' = holder
    BY <1>1, <1>2, <1>16, InsideMoves DEF Crash
  <2>2. CASE t \in Inside
    BY <2>1, <2>2 DEF Abs!Abandon, Small
  <2>3. CASE t \notin Inside
    BY <1>1, <2>1, <2>3 DEF Abs!lockVars, Small
  <2> QED
    BY <2>2, <2>3
<1>17. CASE Lapse
  <2>1. Inside' = Inside
    BY <1>17 DEF Lapse, Inside
  <2> QED
    BY <1>17, <2>1 DEF Lapse, Abs!Lapse
<1>18. CASE Restart
  <2>1. ASSUME NEW t \in Tasks PROVE pc'[t] \notin LockedSteps
    BY <1>1, <1>2, <1>18 DEF Restart, Alive, Steps
  <2>2. Inside' = {}
    BY <2>1 DEF Inside
  <2> QED
    BY <1>18, <2>2 DEF Restart, Abs!Restart
<1>19. CASE PeerWrites
  BY <1>19 DEF PeerWrites, lock, Inside, Abs!lockVars
<1>20. CASE UNCHANGED vars
  BY <1>20 DEF vars, Inside, Abs!lockVars
<1> USE DEF Small
<1> QED
  BY <1>5, <1>6, <1>7, <1>8, <1>9, <1>10, <1>11, <1>12, <1>13, <1>14, <1>15, <1>16,
     <1>17, <1>18, <1>19, <1>20 DEF Next, Work

(* The lock's own types, and the order of grants they stand for. *)
LEMMA LockTyped ==
    ASSUME TypeInv, Abs!LockTypeOK, Abs!HolderNotSuperseded, [Next]_vars
    PROVE  Abs!LockTypeOK' /\ Abs!HolderNotSuperseded'
<1> USE SessionTurnAssumption DEF Abs!LockTypeOK, Abs!HolderNotSuperseded
<1>1. CASE UNCHANGED Abs!lockVars
  BY <1>1 DEF Abs!lockVars
<1>2. ASSUME NEW c \in Tasks, \/ Abs!Grant(c) \/ Abs!GrantLate(c)
                              \/ Abs!Release(c) \/ Abs!Abandon(c)
      PROVE  Abs!LockTypeOK' /\ Abs!HolderNotSuperseded'
  <2>1. CASE Abs!Grant(c)
    BY <2>1 DEF Abs!Grant, Inside
  <2>2. CASE Abs!GrantLate(c)
    BY <2>2 DEF Abs!GrantLate, Inside
  <2>3. CASE Abs!Release(c)
    BY <2>3 DEF Abs!Release, Inside
  <2>4. CASE Abs!Abandon(c)
    BY <2>4 DEF Abs!Abandon, Inside
  <2> QED
    BY <1>2, <2>1, <2>2, <2>3, <2>4
<1>3. CASE Abs!Lapse
  BY <1>3 DEF Abs!Lapse, Inside
<1>4. CASE Abs!Restart
  BY <1>4 DEF Abs!Restart
<1> QED
  BY <1>1, <1>2, <1>3, <1>4, LockStep

(* While leases are kept, the key is under the only guard there is. *)
LEMMA ExclusionStep ==
    ASSUME TypeInv, Abs!LockTypeOK, GuardExclusive, [Next]_vars
    PROVE  GuardExclusive'
<1> SUFFICES ASSUME ~MayLose PROVE Inside' \subseteq {holder'}
  BY DEF GuardExclusive
<1>1. Inside \subseteq {holder} /\ Inside \subseteq Tasks /\ NoTask \notin Tasks
  BY SessionTurnAssumption DEF GuardExclusive, Inside
<1>2. CASE UNCHANGED Abs!lockVars
  BY <1>1, <1>2 DEF Abs!lockVars
<1>3. ASSUME NEW c \in Tasks, Abs!Grant(c) \/ Abs!GrantLate(c)
      PROVE  Inside' \subseteq {holder'}
  BY <1>1, <1>3 DEF Abs!Grant, Abs!GrantLate
<1>4. ASSUME NEW c \in Tasks, Abs!Release(c) \/ Abs!Abandon(c)
      PROVE  Inside' \subseteq {holder'}
  BY <1>1, <1>4 DEF Abs!Release, Abs!Abandon
<1>5. CASE Lapse /\ Abs!Lapse
  BY <1>1, <1>5 DEF Lapse, Abs!Lapse
<1>6. CASE Abs!Restart
  BY <1>6 DEF Abs!Restart
<1> QED
  BY <1>2, <1>3, <1>4, <1>5, <1>6, LockStep

(* What the three lemmas preserve, and what it starts from. *)
LEMMA LockInvariant ==
    Spec => [](TypeInv /\ Abs!LockTypeOK /\ Abs!HolderNotSuperseded /\ GuardExclusive)
<1>1. Init => TypeInv
  BY TypeInit
<1>2. Init => Abs!LockTypeOK /\ Abs!HolderNotSuperseded /\ GuardExclusive
  <2>1. Init => Inside = {}
    BY DEF Init, Inside, LockedSteps, SendSteps, StartupSteps, BodySteps, CompactSteps,
       ForkSteps
  <2> QED
    BY <2>1 DEF Init, Abs!LockTypeOK, Abs!HolderNotSuperseded, GuardExclusive
<1> QED
  BY <1>1, <1>2, TypeStep, LockTyped, ExclusionStep, PTL DEF Spec

(* The services implement the lock port, on both deployments, whatever fails: *)
(* nobody takes a key that is held or deletes a key that is not theirs.        *)
THEOREM Refinement == Spec => ImplementsLock
<1>1. Init => Abs!LockInit
  BY DEF Init, Abs!LockInit, Inside, LockedSteps, SendSteps, StartupSteps, BodySteps,
     CompactSteps, ForkSteps
<1>2. TypeInv /\ Abs!LockTypeOK /\ [Next]_vars => [Abs!LockNext]_Abs!lockVars
  BY LockStep DEF Abs!LockNext
<1> QED
  BY <1>1, <1>2, LockInvariant, PTL DEF Spec, ImplementsLock, Abs!LockSpec

(* While leases are kept the services need no more of their lock than a steady *)
(* one gives, and do to it nothing that a steady one forbids.                   *)
THEOREM SteadyRefinement == ASSUME ~MayLose PROVE Spec => ImplementsSteadyLock
<1>1. Init => Abs!LockInit
  BY DEF Init, Abs!LockInit, Inside, LockedSteps, SendSteps, StartupSteps, BodySteps,
     CompactSteps, ForkSteps
<1>2. TypeInv /\ Abs!LockTypeOK /\ [Next]_vars => [Abs!SteadyNext]_Abs!lockVars
  <2>1. Lapse => holder \notin Inside
    BY DEF Lapse
  <2> QED
    BY <2>1, LockStep DEF Abs!SteadyNext
<1> QED
  BY <1>1, <1>2, LockInvariant, PTL DEF Spec, ImplementsSteadyLock, Abs!SteadySpec

(* The port itself keeps what its name says: of the steps it allows when leases *)
(* are kept, none lets a second guard in.                                       *)
THEOREM PortExclusion == Abs!SteadySpec => []Abs!Exclusive
<1>1. Abs!LockInit => Abs!Exclusive
  BY DEF Abs!LockInit, Abs!Exclusive
<1>2. Abs!LockTypeOK /\ Abs!Exclusive /\ [Abs!SteadyNext]_Abs!lockVars
        => Abs!LockTypeOK' /\ Abs!Exclusive'
  BY SessionTurnAssumption DEF Abs!LockTypeOK, Abs!Exclusive, Abs!SteadyNext, Abs!lockVars,
     Abs!Grant, Abs!GrantLate, Abs!Release, Abs!Abandon, Abs!Lapse, Abs!Restart
<1>3. Abs!LockInit => Abs!LockTypeOK
  BY DEF Abs!LockInit, Abs!LockTypeOK
<1> QED
  BY <1>1, <1>2, <1>3, PTL DEF Abs!SteadySpec

(* session-locking.md:5, for any number of requests and faults: while leases are *)
(* kept, the only task between acquire and release is the one under the key.     *)
THEOREM Exclusion == Spec => []GuardExclusive
  BY LockInvariant, PTL

---------------------------------------------------------------------------
(* A child, once forked, is never replaced, even by two forks in the copy at  *)
(* once: the unique keys refuse the second.                                   *)
THEOREM ForkedForGood == Spec => ForkOnce
<1>1. TypeInv /\ [Next]_vars =>
        \A p \in ForkPoints : children[p] # NoChild => children'[p] = children[p]
  <2> SUFFICES ASSUME TypeInv, [Next]_vars, NEW p \in ForkPoints, children[p] # NoChild
               PROVE  children'[p] = children[p]
    OBVIOUS
  <2>1. ASSUME NEW t \in Tasks, Copy(t) PROVE children'[p] = children[p]
    BY <2>1 DEF Copy, TypeInv, Stored
  <2>2. ASSUME NEW t \in Tasks,
               \/ Request(t) \/ AcquireFails(t) \/ StoreFails(t) \/ Crash(t)
               \/ Acquire(t) \/ Busy(t) \/ Release(t) \/ ReleaseFails(t)
        PROVE  UNCHANGED children
    BY <2>2 DEF Request, AcquireFails, StoreFails, Crash, Acquire, Busy, Release,
       ReleaseFails, db
  <2>3. ASSUME NEW t \in Tasks,
               \/ AcquireSoul(t) \/ AppendTrigger(t) \/ ReadTrigger(t) \/ LoadTrigger(t)
               \/ RefTrigger(t) \/ Assemble(t) \/ StartTurn(t) \/ AppendLoses(t)
        PROVE  UNCHANGED children
    BY <2>3 DEF AppendLoses, AcquireSoul, AppendTrigger, ReadTrigger, LoadTrigger, RefTrigger,
       Assemble, StartTurn, db
  <2>4. ASSUME NEW t \in Tasks,
               \/ Provide(t) \/ ToolCall(t) \/ Dispatch(t) \/ ToolResult(t)
               \/ Answer(t) \/ ReadAnswer(t) \/ RefAnswer(t) \/ Complete(t) \/ Fail(t)
        PROVE  UNCHANGED children
    BY <2>4 DEF Provide, ToolCall, Dispatch, ToolResult, Answer, ReadAnswer, RefAnswer,
       Complete, Fail, db
  <2>5. ASSUME NEW t \in Tasks,
               \/ Hooks(t) \/ Load(t) \/ AppendCompact(t) \/ LoadParent(t) \/ LoadChild(t)
        PROVE  UNCHANGED children
    BY <2>5 DEF Hooks, Load, AppendCompact, LoadParent, LoadChild, db
  <2>6. CASE Lapse \/ Restart \/ PeerWrites \/ UNCHANGED vars
    BY <2>6 DEF Lapse, Restart, PeerWrites, db, vars
  <2> QED
    BY <2>1, <2>2, <2>3, <2>4, <2>5, <2>6 DEF Next, Work
<1> QED
  BY <1>1, LockInvariant, PTL DEF Spec, ForkOnce

---------------------------------------------------------------------------
(* A step moves the task that makes it, and no step but the two releases and *)
(* the crash starts where the guard is released.                             *)
LEMMA ReleaseSteps ==
    ASSUME pc \in [Tasks -> Steps], [Next]_vars, NEW t \in Tasks, pc[t] = "release",
           pc'[t] \in {"hooks", "done"}
    PROVE  Release(t) \/ ReleaseFails(t)
<1> DEFINE Moves(u) == pc[u] # "release" /\ \E x : pc' = [pc EXCEPT ![u] = x]
<1>1. /\ SendSteps \union CompactSteps \union ForkSteps \union {"hooks"} \subseteq
              LockedSteps \union {"hooks"}
      /\ "release" \notin SendSteps \union CompactSteps \union ForkSteps \union {"hooks"}
  BY DEF LockedSteps, SendSteps, StartupSteps, BodySteps, CompactSteps, ForkSteps
<1>2. ASSUME NEW u \in Tasks, Moves(u)
      PROVE  FALSE
  BY <1>2
<1>3. ASSUME NEW u \in Tasks, pc[u] # "release", NEW next, NEW r,
             Goes(u, next, r) \/ Errs(u) \/ Answered(u, next, r)
      PROVE  FALSE
  BY <1>2, <1>3 DEF Goes, Errs, Answered
<1> HIDE DEF Moves
<1>4. ASSUME NEW u \in Tasks, Request(u) \/ Acquire(u) \/ Busy(u) \/ AcquireFails(u)
      PROVE  FALSE
  <2>1. pc[u] # "release" /\ \E x : pc' = [pc EXCEPT ![u] = x]
    BY <1>4 DEF Request, Acquire, Busy, AcquireFails
  <2> QED
    BY <2>1
<1>5. ASSUME NEW u \in Tasks,
             \/ AcquireSoul(u) \/ AppendTrigger(u) \/ ReadTrigger(u) \/ LoadTrigger(u)
             \/ Assemble(u) \/ StartTurn(u) \/ AppendLoses(u)
      PROVE  FALSE
  BY <1>3, <1>5 DEF AcquireSoul, AppendTrigger, ReadTrigger, LoadTrigger, Assemble, StartTurn,
     AppendLoses
<1>6. ASSUME NEW u \in Tasks, RefTrigger(u) \/ RefAnswer(u)
      PROVE  FALSE
  BY <1>3, <1>6 DEF RefTrigger, RefAnswer, AppendMessageRef
<1>7. ASSUME NEW u \in Tasks,
             \/ Provide(u) \/ ToolCall(u) \/ Dispatch(u) \/ ToolResult(u) \/ Answer(u)
             \/ ReadAnswer(u)
      PROVE  FALSE
  BY <1>3, <1>7 DEF Provide, Continues, ToolCall, Dispatch, ToolResult, Answer, ReadAnswer
<1>8. ASSUME NEW u \in Tasks,
             \/ Complete(u) \/ Fail(u) \/ Hooks(u) \/ Load(u) \/ AppendCompact(u)
             \/ LoadParent(u) \/ LoadChild(u) \/ Copy(u)
      PROVE  FALSE
  BY <1>3, <1>8 DEF Complete, Fail, Hooks, Load, AppendCompact, LoadParent, LoadChild, Copy
<1>9. ASSUME NEW u \in Tasks, StoreFails(u)
      PROVE  FALSE
  BY <1>1, <1>3, <1>9 DEF StoreFails
<1>10. ASSUME NEW u \in Tasks, Crash(u)
       PROVE  FALSE
  BY <1>10 DEF Crash
<1>11. CASE Lapse \/ Restart \/ PeerWrites \/ UNCHANGED vars
  BY <1>11 DEF Lapse, Restart, Alive, PeerWrites, vars
<1>12. ASSUME NEW u \in Tasks, Release(u) \/ ReleaseFails(u)
       PROVE  u = t
  BY <1>12 DEF Release, ReleaseFails
<1> QED
  BY <1>4, <1>5, <1>6, <1>7, <1>8, <1>9, <1>10, <1>11, <1>12 DEF Next, Work

(* A request whose lock went to somebody else is never answered Ok, whatever its *)
(* own run returned: the release tells (finish_turn_run, release_inner).          *)
THEOREM OvertakenFails == Spec => OvertakenNeverOk
<1>1. TypeInv /\ Abs!LockTypeOK /\ Abs!HolderNotSuperseded /\ [Next]_vars =>
        \A t \in superseded :
          pc[t] = "release" /\ pc'[t] \in {"hooks", "done"} =>
              req'[t].op = "hook" \/ req'[t].verdict # "ok"
  <2> SUFFICES ASSUME TypeInv, Abs!LockTypeOK, Abs!HolderNotSuperseded, [Next]_vars,
                      NEW t \in superseded, pc[t] = "release", pc'[t] \in {"hooks", "done"},
                      req'[t].op # "hook"
               PROVE  req'[t].verdict # "ok"
    OBVIOUS
  <2>1. t \in Inside /\ t \in Tasks /\ pc \in [Tasks -> Steps] /\ req \in [Tasks -> Requests]
    BY DEF TypeInv, Tasked, Abs!LockTypeOK, Inside
  <2>2. ~Release(t)
    BY <2>1 DEF Release, Abs!HolderNotSuperseded
  <2>3. ReleaseFails(t)
    BY <2>1, <2>2, ReleaseSteps
  <2>4. req'[t] = Judged(t, "error")
    BY <2>1, <2>3 DEF ReleaseFails
  <2> QED
    BY <2>1, <2>4 DEF Judged, Requests
<1> QED
  BY <1>1, LockInvariant, PTL DEF Spec, OvertakenNeverOk
==========================================================================
