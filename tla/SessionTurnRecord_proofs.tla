--------------------- MODULE SessionTurnRecord_proofs ---------------------
(***************************************************************************)
(* Proofs about what the ledgers hold of a turn and what its caller is told *)
(* (SessionTurn), for any set of requests, on either deployment and for any *)
(* number of messages, tool calls and faults.                               *)
(***************************************************************************)
EXTENDS SessionTurn_proofs

---------------------------------------------------------------------------
(* What is known of one task, from its step, its request and its two turns. *)

\* The turn of a request has begun, and the task is not yet out of it.
Amid == BodySteps \union {"fail", "c_append", "c_complete"}

\* A task is at the steps of its operation; a request is answered Ok only
\* when it is over; a turn row is written once it is begun, and unless a call
\* failed somewhere it is running only while the task is amid it.
Path(p, r, main, hook, calm) ==
    /\ IF p = "idle" THEN r = NoRequest ELSE r.op # "none"
    /\ p \in SendSteps \union {"hooks"} => r.op \in {"send", "reply"}
    /\ p \in ForkSteps => r.op = "fork"
    /\ r.op = "hook" => p \in {"lock", "release", "done", "dead"} \union CompactSteps
    /\ r.op \notin {"send", "reply", "hook"} => r.trig = 0
    /\ r.verdict = "ok" /\ r.op # "hook" => p \in {"release", "hooks", "done", "dead"}
    /\ p \in {"idle", "lock", "start"} \union StartupSteps /\ r.op # "hook" =>
          main.status = "none"
    /\ p \in BodySteps => main.status = "running"
    /\ calm /\ main.status = "running" => r.op # "hook" /\ p \in Amid
    /\ calm /\ hook.status = "running" => r.op = "hook" /\ p \in Amid

\* The entries i end with a turn's trigger and k tool calls with their results,
\* the trigger at base.
Called(i, t, r, base, k) ==
    /\ base \in 1..Len(i)
    /\ i[base] = [kind |-> "message", ref |-> r.trig, by |-> t]
    /\ base + 2 * k <= Len(i)
    /\ \A c \in 1..k :
          /\ i[base + 2 * c - 1] = [kind |-> "call", ref |-> c, by |-> t]
          /\ i[base + 2 * c] = [kind |-> "result", ref |-> c, by |-> t]

\* While leases are kept the entries of a turn follow each other.
Contiguous(t, p, r, main, i) ==
    /\ p \in {"lock", "start"} \union StartupSteps /\ r.op # "hook" => r.calls = 0
    /\ p \in {"assemble", "start"} =>
          /\ Len(i) > 0
          /\ i[Len(i)] = [kind |-> "message", ref |-> r.trig, by |-> t]
    /\ p \in {"provider", "call", "answer", "answer_read", "answer_ref"} =>
          Called(i, t, r, main.base, r.calls) /\ Len(i) = main.base + 2 * r.calls
    /\ p \in {"dispatch", "result"} =>
          /\ r.calls > 0
          /\ Called(i, t, r, main.base, r.calls - 1)
          /\ Len(i) = main.base + 2 * r.calls - 1
          /\ i[Len(i)] = [kind |-> "call", ref |-> r.calls, by |-> t]
    /\ p = "complete" =>
          /\ Called(i, t, r, main.base, r.calls)
          /\ Len(i) = main.base + 2 * r.calls + 1
          /\ i[Len(i)] = [kind |-> "message", ref |-> r.answer, by |-> t]
    /\ main.status = "completed" /\ r.trig > 0 =>
          /\ Called(i, t, r, main.base, r.calls)
          /\ main.end = main.base + 2 * r.calls + 1
          /\ main.end <= Len(i)
          /\ i[main.end] = [kind |-> "message", ref |-> r.answer, by |-> t]

IsReferenced(i, m) == \E k \in DOMAIN i : i[k].kind = "message" /\ i[k].ref = m

\* What a reply's message says, and that the provider had the trigger before.
Replied(t, r, l) ==
    r.snap < r.answer /\ l[r.answer] = [by |-> t, fixed |-> TRUE]

\* In the hosted ledgers a task knows its messages' numbers.
Recorded(t, p, r, main, l, i) ==
    /\ p \notin {"trigger_read", "answer_read"}
    /\ p \in {"assemble", "start"} \union BodySteps => IsReferenced(i, r.trig)
    /\ p \in {"start"} \union BodySteps => r.trig <= r.snap
    /\ p \in {"answer_ref", "complete"} => Replied(t, r, l)
    /\ p = "complete" => IsReferenced(i, r.answer)
    /\ r.verdict = "ok" /\ r.trig > 0 =>
          /\ main.status = "completed"
          /\ r.trig <= r.snap /\ Replied(t, r, l)
          /\ IsReferenced(i, r.trig) /\ IsReferenced(i, r.answer)

\* The entry a completion names as the basis is the reply's.
Based(t, p, r, i) ==
    p = "complete" =>
        /\ r.entry \in DOMAIN i
        /\ i[r.entry] = [kind |-> "message", ref |-> r.answer, by |-> t]

\* While leases are kept a completion sees at least what was seen.
Ahead(p, r, seen) ==
    /\ p \in {"answer_ref", "complete"} => seen <= r.answer
    /\ p \in {"c_soul", "c_start", "c_append", "c_complete"} /\ r.op = "compact" =>
          seen <= r.point

Main(t) == turns[<<t, "main">>]
Hook(t) == turns[<<t, "hook">>]

Paths == \A t \in Tasks : Path(pc[t], req[t], Main(t), Hook(t), faults = MaxFaults)
Contiguity == ~MayLose => \A t \in Tasks : Contiguous(t, pc[t], req[t], Main(t), items)
Records == ~Standalone => \A t \in Tasks : Recorded(t, pc[t], req[t], Main(t), ledger, items)
Basing == \A t \in Tasks : Based(t, pc[t], req[t], items)
Aheads == ~MayLose => \A t \in Tasks : Ahead(pc[t], req[t], soul.seen)

Rows(t) == Main(t)' = Main(t) /\ Hook(t)' = Hook(t)

\* What a task does not touch of another.
Apart(t) ==
    \A u \in Tasks \ {t} : pc'[u] = pc[u] /\ req'[u] = req[u] /\ Rows(u)

---------------------------------------------------------------------------
(* How a step ends, at the task that makes it.                              *)

Moves(t, next, r) ==
    /\ pc'[t] = next /\ req'[t] = r
    /\ \A u \in Tasks \ {t} : pc'[u] = pc[u] /\ req'[u] = req[u]

Failed(t) == Moves(t, AfterError(t), Judged(t, "error"))

\* A step that returns Ok, at the task.
LEMMA GoesMoves ==
    ASSUME TypeInv, NEW t \in Tasks, NEW next, NEW r, Goes(t, next, r)
    PROVE  Moves(t, next, r)
  BY DEF TypeInv, Tasked, Goes, Moves

\* A step that returns Err, at the task.
LEMMA ErrsMoves ==
    ASSUME TypeInv, NEW t \in Tasks, Errs(t)
    PROVE  Failed(t)
  BY DEF TypeInv, Tasked, Errs, Failed, Moves

\* A store call that took effect, at the task.
LEMMA AnsweredMoves ==
    ASSUME TypeInv, NEW t \in Tasks, NEW next, NEW r, Answered(t, next, r)
    PROVE  \/ Moves(t, next, r) /\ faults' = faults
           \/ Failed(t) /\ faults' < faults /\ ~Standalone
<1>1. faults \in Nat
  BY DEF TypeInv
<1> QED
  BY <1>1, GoesMoves, ErrsMoves DEF Answered, Fault

\* Where an error leads.
LEMMA ErrorLeads ==
    ASSUME NEW t \in Tasks
    PROVE  /\ pc[t] \in StartupSteps \union {"fail"} => AfterError(t) = "release"
           /\ pc[t] \in BodySteps => AfterError(t) = "fail"
           /\ pc[t] \notin StartupSteps \union BodySteps \union {"fail"} =>
                 AfterError(t) = "done"
  BY DEF AfterError, StartupSteps, BodySteps

\* A task writes one of its own turn rows.
LEMMA RowWritten ==
    ASSUME TypeInv, NEW t \in Tasks, NEW row, turns' = [turns EXCEPT ![TurnOf(t)] = row]
    PROVE  /\ Main(t)' = IF req[t].op = "hook" THEN Main(t) ELSE row
           /\ Hook(t)' = IF req[t].op = "hook" THEN row ELSE Hook(t)
           /\ \A u \in Tasks \ {t} : Rows(u)
<1>1. turns \in [TurnIds -> Turns]
  BY DEF TypeInv, Stored
<1>2. \A u \in Tasks : <<u, "main">> \in TurnIds /\ <<u, "hook">> \in TurnIds
  BY DEF TurnIds
<1>3. CASE req[t].op = "hook"
  <2>1. TurnOf(t) = <<t, "hook">>
    BY <1>3 DEF TurnOf
  <2> QED
    <3>1. \A k \in TurnIds : turns'[k] = IF k = <<t, "hook">> THEN row ELSE turns[k]
      BY <1>1, <2>1
    <3>2. \A u \in Tasks : /\ <<u, "main">> # <<t, "hook">>
                           /\ u # t => <<u, "hook">> # <<t, "hook">>
      OBVIOUS
    <3> QED
      BY <1>2, <1>3, <3>1, <3>2 DEF Main, Hook, Rows
<1>4. CASE req[t].op # "hook"
  <2>1. TurnOf(t) = <<t, "main">>
    BY <1>4 DEF TurnOf
  <2> QED
    <3>1. \A k \in TurnIds : turns'[k] = IF k = <<t, "main">> THEN row ELSE turns[k]
      BY <1>1, <2>1
    <3>2. \A u \in Tasks : /\ <<u, "hook">> # <<t, "main">>
                           /\ u # t => <<u, "main">> # <<t, "main">>
      OBVIOUS
    <3> QED
      BY <1>2, <1>4, <3>1, <3>2 DEF Main, Hook, Rows
<1> QED
  BY <1>3, <1>4

\* Turn rows that are left alone.
LEMMA RowsKept ==
    ASSUME UNCHANGED turns
    PROVE  \A u \in Tasks : Rows(u)
  BY DEF Rows, Main, Hook

---------------------------------------------------------------------------
(* The path of a request through its steps.                                 *)

PathAt(t) == Path(pc[t], req[t], Main(t), Hook(t), faults = MaxFaults)

\* An error leads out of the body with the turn closed, or a call failed.
LEMMA PathFails ==
    ASSUME TypeInv, NEW t \in Tasks, PathAt(t), Failed(t), faults <= MaxFaults,
           pc[t] \in LockedSteps \union {"hooks"},
           \/ faults' < faults
           \/ faults' = faults /\ Rows(t) /\ pc[t] \notin {"fail", "c_append", "c_complete"}
    PROVE  PathAt(t)'
<1>1. req[t] \in Requests /\ faults \in Nat /\ MaxFaults \in Nat
  BY SessionTurnAssumption DEF TypeInv, Tasked
<1>2. /\ pc'[t] = AfterError(t) /\ req'[t].op = req[t].op /\ req'[t].trig = req[t].trig
      /\ req[t].op # "hook" => req'[t].verdict = "error"
  BY <1>1 DEF Failed, Moves, Judged, Requests
<1>3. AfterError(t) \in {"release", "fail", "done"}
  BY ErrorLeads
<1>4. AfterError(t) = "fail" => pc[t] \in BodySteps
  BY ErrorLeads
<1>5. /\ BodySteps \subseteq SendSteps
      /\ pc[t] \in BodySteps => AfterError(t) = "fail"
      /\ "idle" \notin LockedSteps \union {"hooks"}
  BY ErrorLeads DEF SendSteps, LockedSteps, StartupSteps, BodySteps, CompactSteps, ForkSteps
<1>6. {"release", "fail", "done"} \intersect
          (StartupSteps \union BodySteps \union CompactSteps \union ForkSteps) = {}
      /\ {"release", "done"} \intersect (SendSteps \union {"hooks"}) = {}
  BY DEF SendSteps, StartupSteps, BodySteps, CompactSteps, ForkSteps
<1>7. (faults' = MaxFaults) =>
        /\ faults = MaxFaults /\ Rows(t) /\ pc[t] \notin {"fail", "c_append", "c_complete"}
  BY <1>1
<1>8. (faults' = MaxFaults) =>
        /\ Main(t)'.status = "running" => req'[t].op # "hook" /\ pc'[t] \in Amid
        /\ Hook(t)'.status = "running" => req'[t].op = "hook" /\ pc'[t] \in Amid
  <2> SUFFICES ASSUME faults' = MaxFaults
               PROVE  /\ Main(t).status = "running" => req[t].op # "hook" /\ pc'[t] = "fail"
                      /\ Hook(t).status = "running" => req[t].op = "hook" /\ pc'[t] = "fail"
    BY <1>2, <1>7 DEF Rows, Amid
  <2> QED
    BY <1>2, <1>5, <1>7 DEF PathAt, Path, Amid
<1> QED
  BY <1>2, <1>3, <1>4, <1>5, <1>6, <1>8 DEF PathAt, Path

\* A step that leaves the turns alone, at its task.
Follows(t, next, r) ==
    Moves(t, next, r) /\ Rows(t) /\ faults' = faults

\* A step of the send or of the compaction or of the fork, to another one of
\* it, that neither begins nor ends the turn.
LEMMA PathFollows ==
    ASSUME TypeInv, NEW t \in Tasks, PathAt(t), NEW next, NEW r,
           Follows(t, next, r), r.op = req[t].op, r.verdict = req[t].verdict,
           r.trig = req[t].trig \/ r.op \in {"send", "reply"},
           \/ pc[t] \in StartupSteps /\ next \in StartupSteps \union {"start"}
           \/ pc[t] \in BodySteps /\ next \in BodySteps
           \/ pc[t] \in {"load", "c_soul"} /\ next \in {"c_soul", "c_start"}
           \/ pc[t] = "c_append" /\ next = "c_complete"
           \/ pc[t] \in ForkSteps /\ next \in ForkSteps
    PROVE  PathAt(t)'
<1>1. /\ pc'[t] = next /\ req'[t] = r /\ Main(t)' = Main(t) /\ Hook(t)' = Hook(t)
      /\ (faults = MaxFaults)' = (faults = MaxFaults)
  BY DEF Follows, Moves, Rows
<1> USE DEF SendSteps, StartupSteps, BodySteps, CompactSteps, ForkSteps, Amid
<1>2. CASE pc[t] \in StartupSteps /\ next \in StartupSteps \union {"start"}
  BY <1>1, <1>2 DEF PathAt, Path
<1>3. CASE pc[t] \in BodySteps /\ next \in BodySteps
  BY <1>1, <1>3 DEF PathAt, Path
<1>4. CASE pc[t] \in {"load", "c_soul"} /\ next \in {"c_soul", "c_start"}
  BY <1>1, <1>4 DEF PathAt, Path, TypeInv, Tasked
<1>5. CASE pc[t] = "c_append" /\ next = "c_complete"
  BY <1>1, <1>5 DEF PathAt, Path, TypeInv, Tasked
<1>6. CASE pc[t] \in ForkSteps /\ next \in ForkSteps
  BY <1>1, <1>6 DEF PathAt, Path
<1> QED
  BY <1>2, <1>3, <1>4, <1>5, <1>6

\* Every step of a task keeps its path.
LEMMA PathStep ==
    ASSUME TypeInv, NEW t \in Tasks, PathAt(t), faults <= MaxFaults,
           Request(t) \/ AcquireFails(t) \/ Work(t) \/ StoreFails(t) \/ Crash(t)
    PROVE  PathAt(t)'
<1> USE SessionTurnAssumption
<1>1. /\ req[t] \in Requests /\ pc[t] \in Steps /\ faults \in Nat
      /\ req \in [Tasks -> Requests] /\ pc \in [Tasks -> Steps]
      /\ pc[t] \in CompactSteps => req[t].op \in {"compact", "hook"}
  BY DEF TypeInv, Tasked
<1>2. /\ StartupSteps = {"soul", "trigger", "trigger_read", "ref", "assemble"}
      /\ BodySteps = {"provider", "call", "dispatch", "result",
                      "answer", "answer_read", "answer_ref", "complete"}
      /\ CompactSteps = {"load", "c_soul", "c_start", "c_append", "c_complete"}
      /\ ForkSteps = {"f_soul", "f_child", "f_illegal", "f_copy"}
      /\ SendSteps = StartupSteps \union BodySteps \union {"start", "fail"}
      /\ LockedSteps = SendSteps \union CompactSteps \union ForkSteps \union {"release"}
  BY DEF LockedSteps, SendSteps, StartupSteps, BodySteps, CompactSteps, ForkSteps
<1>3. ASSUME Failed(t), pc[t] \in LockedSteps \union {"hooks"},
             \/ faults' < faults
             \/ /\ faults' = faults /\ UNCHANGED turns
                /\ pc[t] \notin {"fail", "c_append", "c_complete"}
      PROVE  PathAt(t)'
  BY <1>3, PathFails, RowsKept
<1>4. ASSUME NEW next, NEW r, Moves(t, next, r), UNCHANGED <<turns, faults>>,
             r.op = req[t].op, r.verdict = req[t].verdict,
             r.trig = req[t].trig \/ r.op \in {"send", "reply"},
             \/ pc[t] \in StartupSteps /\ next \in StartupSteps \union {"start"}
             \/ pc[t] \in BodySteps /\ next \in BodySteps
             \/ pc[t] \in {"load", "c_soul"} /\ next \in {"c_soul", "c_start"}
             \/ pc[t] = "c_append" /\ next = "c_complete"
             \/ pc[t] \in ForkSteps /\ next \in ForkSteps
      PROVE  PathAt(t)'
  BY <1>4, PathFollows, RowsKept DEF Follows
<1>5. ASSUME NEW next, NEW r, Answered(t, next, r), UNCHANGED turns,
             r.op = req[t].op, r.verdict = req[t].verdict,
             r.trig = req[t].trig \/ r.op \in {"send", "reply"},
             \/ pc[t] \in StartupSteps /\ next \in StartupSteps \union {"start"}
             \/ pc[t] \in BodySteps /\ next \in BodySteps
             \/ pc[t] \in {"load", "c_soul"} /\ next \in {"c_soul", "c_start"}
             \/ pc[t] = "c_append" /\ next = "c_complete"
             \/ pc[t] \in ForkSteps /\ next \in ForkSteps
      PROVE  PathAt(t)'
  BY <1>2, <1>3, <1>4, <1>5, AnsweredMoves
<1>6. CASE Request(t)
  <2>1. req[t] = NoRequest
    BY <1>6 DEF Request, PathAt, Path
  <2>2. PICK op \in Ops, point \in {0} \union DOMAIN ledger \union ForkPoints :
          req' = [req EXCEPT ![t].op = op, ![t].point = point]
    BY <1>6 DEF Request
  <2>3. /\ req'[t].op = op /\ req'[t].trig = 0 /\ req'[t].verdict = "none"
        /\ pc'[t] = "lock" /\ Rows(t) /\ faults' = faults
    <3>1. /\ req'[t].op = op /\ req'[t].trig = req[t].trig
          /\ req'[t].verdict = req[t].verdict
      BY <1>1, <2>2 DEF Requests
    <3>2. req'[t].trig = 0 /\ req'[t].verdict = "none"
      BY <2>1, <3>1 DEF NoRequest
    <3>3. pc'[t] = "lock" /\ UNCHANGED turns /\ faults' = faults
      BY <1>1, <1>6 DEF Request, db
    <3> QED
      BY <3>1, <3>2, <3>3, RowsKept
  <2>4. op \in {"send", "reply", "compact", "fork"}
    OBVIOUS
  <2> QED
    BY <1>2, <1>6, <2>1, <2>3, <2>4 DEF Request, PathAt, Path, Rows, Amid
<1>7. CASE Acquire(t)
  <2>1. req'[t] = req[t] /\ pc'[t] = FirstStep(t) /\ Rows(t) /\ faults' = faults
    BY <1>1, <1>7, RowsKept DEF Acquire, db
  <2>2. /\ pc[t] = "lock" /\ req[t].op \in {"send", "reply", "compact", "fork", "hook"}
        /\ req[t].op # "hook" => req[t].verdict # "ok" /\ Main(t).status = "none"
    BY <1>1, <1>7 DEF Acquire, PathAt, Path, Requests
  <2>3. /\ req[t].op = "fork" => pc'[t] = "f_soul"
        /\ req[t].op \in {"compact", "hook"} => pc'[t] = "load"
        /\ req[t].op \in {"send", "reply"} => pc'[t] = "soul"
    BY <2>1 DEF FirstStep
  <2> QED
    BY <1>2, <2>1, <2>2, <2>3 DEF PathAt, Path, Rows, Amid
<1>8. CASE Busy(t) \/ AcquireFails(t)
  <2>1. \E v \in {"busy", "error"} : req'[t] = Judged(t, v)
    BY <1>1, <1>8 DEF Busy, AcquireFails
  <2>2. /\ pc[t] = "lock" /\ pc'[t] = "done" /\ Rows(t) /\ faults' <= faults
    BY <1>1, <1>8, RowsKept DEF Busy, AcquireFails, Fault, db
  <2>3. /\ req'[t].op = req[t].op /\ req'[t].trig = req[t].trig
        /\ req[t].op # "hook" => req'[t].verdict # "ok"
    BY <1>1, <2>1 DEF Judged, Requests
  <2> QED
    BY <1>1, <1>2, <2>2, <2>3 DEF PathAt, Path, Rows, Amid
<1>9. CASE Release(t) \/ ReleaseFails(t)
  <2>1. /\ pc[t] = "release" /\ Rows(t) /\ faults' <= faults
        /\ pc'[t] \in {"hooks", "done"}
        /\ pc'[t] = "hooks" => req[t].op \in {"send", "reply"} /\ req'[t] = req[t]
    BY <1>1, <1>9, RowsKept DEF Release, ReleaseFails, AfterRelease, IsSend, Fault, db
  <2>2. req'[t] = req[t] \/ req'[t] = Judged(t, "error")
    BY <1>1, <1>9 DEF Release, ReleaseFails
  <2>3. /\ req'[t].op = req[t].op /\ req'[t].trig = req[t].trig
    BY <1>1, <2>2 DEF Judged, Requests
  <2> QED
    BY <1>1, <1>2, <2>1, <2>3 DEF PathAt, Path, Rows, Amid
<1>10. CASE AcquireSoul(t)
  BY <1>1, <1>2, <1>5, <1>10 DEF AcquireSoul
<1>11. CASE AppendTrigger(t)
  BY <1>1, <1>2, <1>5, <1>11 DEF AppendTrigger, Requests
<1>12. CASE AppendLoses(t)
  BY <1>2, <1>3, <1>12, ErrsMoves DEF AppendLoses, db
<1>13. CASE ReadTrigger(t)
  <2>1. Moves(t, "ref", [req[t] EXCEPT !.trig = Len(ledger)]) /\ pc[t] = "trigger_read"
    BY <1>13, GoesMoves DEF ReadTrigger
  <2>2. req[t].op \in {"send", "reply"} /\ UNCHANGED <<turns, faults>>
    BY <1>2, <1>13, <2>1 DEF ReadTrigger, db, PathAt, Path
  <2> QED
    BY <1>1, <1>2, <1>4, <2>1, <2>2 DEF Requests
<1>14. CASE LoadTrigger(t)
  BY <1>1, <1>2, <1>3, <1>4, <1>14, GoesMoves, ErrsMoves DEF LoadTrigger, db, Requests
<1>15. CASE RefTrigger(t)
  <2>1. \/ Answered(t, "assemble", [req[t] EXCEPT !.entry = Len(items')])
        \/ Errs(t) /\ UNCHANGED faults
    BY <1>15 DEF RefTrigger, AppendMessageRef
  <2> QED
    BY <1>1, <1>2, <1>3, <1>5, <1>15, <2>1, ErrsMoves DEF RefTrigger, Requests
<1>16. CASE Assemble(t)
  <2>1. Moves(t, "start", [req[t] EXCEPT !.snap = Len(ledger)]) /\ pc[t] = "assemble"
    BY <1>16, GoesMoves DEF Assemble
  <2> QED
    BY <1>1, <1>2, <1>4, <1>16, <2>1 DEF Assemble, db, Requests
<1>17. CASE StartTurn(t)
  <2> DEFINE row == [status |-> "running", base |-> Len(items), end |-> 0,
                     input |-> IF pc[t] = "start" THEN req[t].trig ELSE req[t].point]
  <2>1. /\ Main(t)' = IF req[t].op = "hook" THEN Main(t) ELSE row
        /\ Hook(t)' = IF req[t].op = "hook" THEN row ELSE Hook(t)
    BY <1>17, RowWritten DEF StartTurn
  <2>2. CASE Failed(t) /\ faults' < faults
    BY <1>2, <1>3, <1>17, <2>2 DEF StartTurn
  <2>3. CASE /\ Moves(t, IF pc[t] = "start" THEN "provider" ELSE "c_append", req[t])
             /\ faults' = faults
    <3>1. /\ pc'[t] = IF pc[t] = "start" THEN "provider" ELSE "c_append"
          /\ req'[t] = req[t] /\ pc[t] \in {"start", "c_start"}
      BY <1>17, <2>3 DEF Moves, StartTurn
    <3>2. row.status = "running"
      OBVIOUS
    <3> HIDE DEF row
    <3> QED
      BY <1>1, <1>2, <2>1, <2>3, <3>1, <3>2 DEF PathAt, Path, Amid
  <2> QED
    BY <1>17, <2>2, <2>3, AnsweredMoves DEF StartTurn
<1>18. CASE Provide(t)
  BY <1>1, <1>2, <1>3, <1>4, <1>18, GoesMoves, ErrsMoves DEF Provide, Continues, db
<1>19. CASE ToolCall(t)
  BY <1>1, <1>2, <1>5, <1>19 DEF ToolCall, Requests
<1>20. CASE Dispatch(t)
  BY <1>1, <1>2, <1>3, <1>4, <1>20, GoesMoves, ErrsMoves DEF Dispatch, db
<1>21. CASE ToolResult(t)
  BY <1>1, <1>2, <1>5, <1>21 DEF ToolResult
<1>22. CASE Answer(t)
  BY <1>1, <1>2, <1>5, <1>22 DEF Answer, Requests
<1>23. CASE ReadAnswer(t)
  <2>1. Moves(t, "answer_ref", [req[t] EXCEPT !.answer = Len(ledger)])
        /\ pc[t] = "answer_read"
    BY <1>23, GoesMoves DEF ReadAnswer
  <2> QED
    BY <1>1, <1>2, <1>4, <1>23, <2>1 DEF ReadAnswer, db, Requests
<1>24. CASE RefAnswer(t)
  <2>1. \/ Answered(t, "complete", [req[t] EXCEPT !.entry = Len(items')])
        \/ Errs(t) /\ UNCHANGED faults
    BY <1>24 DEF RefAnswer, AppendMessageRef
  <2> QED
    BY <1>1, <1>2, <1>3, <1>5, <1>24, <2>1, ErrsMoves DEF RefAnswer, Requests
<1>25. CASE Complete(t) \/ Fail(t)
  <2>1. PICK row \in Turns :
          /\ row.status \in {"completed", "failed"}
          /\ Main(t)' = IF req[t].op = "hook" THEN Main(t) ELSE row
          /\ Hook(t)' = IF req[t].op = "hook" THEN row ELSE Hook(t)
    <3>1. PICK status \in {"completed", "failed"} :
             turns' = [turns EXCEPT ![TurnOf(t)] = Closed(turns[TurnOf(t)], status)]
      BY <1>25 DEF Complete, Fail
    <3>2. turns[TurnOf(t)] \in Turns /\ Len(items) \in Nat
      BY Growth DEF TypeInv, Stored, TurnOf, TurnIds
    <3>3. /\ Closed(turns[TurnOf(t)], status) \in Turns
          /\ Closed(turns[TurnOf(t)], status).status = status
      BY <3>2 DEF Closed, Turns
    <3> QED
      BY <3>1, <3>3, RowWritten
  <2>2. /\ pc[t] \in {"complete", "c_complete", "fail"}
        /\ \/ Failed(t) /\ faults' < faults
           \/ /\ pc'[t] = "release" /\ faults' = faults
              /\ req'[t] \in {req[t], Judged(t, "ok")}
              /\ req'[t] = Judged(t, "ok") \/ pc[t] = "fail"
    BY <1>25, AnsweredMoves DEF Complete, Fail, Moves
  <2>3. CASE Failed(t) /\ faults' < faults
    BY <1>2, <1>3, <2>2, <2>3
  <2>4. CASE pc'[t] = "release" /\ faults' = faults /\ req'[t] \in {req[t], Judged(t, "ok")}
    <3>1. req'[t].op = req[t].op /\ req'[t].trig = req[t].trig
      BY <1>1, <2>4 DEF Judged, Requests
    <3> QED
      BY <1>1, <1>2, <2>1, <2>2, <2>4, <3>1 DEF PathAt, Path, Amid, Turns
  <2> QED
    BY <2>2, <2>3, <2>4
<1>26. CASE Hooks(t)
  <2>1. /\ pc[t] = "hooks" /\ Rows(t) /\ faults' = faults
        /\ \/ pc'[t] = "done" /\ req'[t] = req[t]
           \/ pc'[t] = "lock" /\ req'[t] = [req[t] EXCEPT !.op = "hook", !.point = req[t].answer]
    BY <1>26, GoesMoves, RowsKept DEF Hooks, Moves, db
  <2> QED
    BY <1>1, <1>2, <2>1 DEF PathAt, Path, Rows, Amid, Requests
<1>27. CASE Load(t)
  <2>1. CASE Goes(t, "release", Judged(t, "error"))
    <3>1. /\ pc[t] = "load" /\ Rows(t) /\ faults' = faults
          /\ pc'[t] = "release" /\ req'[t] = Judged(t, "error")
      BY <1>27, <2>1, GoesMoves, RowsKept DEF Load, Moves, db
    <3>2. /\ req'[t].op = req[t].op /\ req'[t].trig = req[t].trig
          /\ req[t].op # "hook" => req'[t].verdict = "error"
      BY <1>1, <3>1 DEF Judged, Requests
    <3> QED
      BY <1>1, <1>2, <3>1, <3>2 DEF PathAt, Path, Rows, Amid
  <2>2. CASE Errs(t)
    BY <1>2, <1>3, <1>27, <2>2, ErrsMoves DEF Load, db
  <2>3. ASSUME NEW k, Goes(t, "c_soul", [req[t] EXCEPT !.point = k])
        PROVE  PathAt(t)'
    <3>1. Moves(t, "c_soul", [req[t] EXCEPT !.point = k]) /\ pc[t] = "load"
      BY <1>27, <2>3, GoesMoves DEF Load
    <3> QED
      BY <1>1, <1>2, <1>4, <1>27, <3>1 DEF Load, db, Requests
  <2> QED
    BY <1>27, <2>1, <2>2, <2>3 DEF Load
<1>28. CASE AppendCompact(t)
  BY <1>1, <1>2, <1>5, <1>28 DEF AppendCompact
<1>29. CASE LoadParent(t)
  BY <1>1, <1>2, <1>3, <1>4, <1>29, GoesMoves, ErrsMoves DEF LoadParent, db
<1>30. CASE LoadChild(t) \/ Copy(t)
  <2>1. UNCHANGED turns
    BY <1>30 DEF LoadChild, Copy, db
  <2>2. \/ Goes(t, "f_copy", req[t]) /\ UNCHANGED faults
        \/ /\ Failed(t)
           /\ faults' < faults \/ faults' = faults
        \/ \E v \in {"ok", "error"} :
              Moves(t, "release", Judged(t, v)) /\ UNCHANGED faults
    BY <1>30, GoesMoves, ErrsMoves, AnsweredMoves DEF LoadChild, Copy, db
  <2>3. pc[t] \in ForkSteps
    BY <1>2, <1>30 DEF LoadChild, Copy
  <2>4. ASSUME NEW v \in {"ok", "error"}, Moves(t, "release", Judged(t, v)), UNCHANGED faults
        PROVE  PathAt(t)'
    <3>1. /\ pc'[t] = "release" /\ req'[t] = Judged(t, v) /\ Rows(t)
      BY <2>1, <2>4, RowsKept DEF Moves
    <3>2. /\ req'[t].op = req[t].op /\ req'[t].trig = req[t].trig
      BY <1>1, <3>1 DEF Judged, Requests
    <3> QED
      BY <1>1, <1>2, <2>3, <2>4, <3>1, <3>2 DEF PathAt, Path, Rows, Amid
  <2> QED
    BY <1>1, <1>2, <1>3, <1>4, <2>1, <2>2, <2>3, <2>4, GoesMoves
<1>31. CASE StoreFails(t)
  BY <1>1, <1>2, <1>3, <1>31, ErrsMoves DEF StoreFails, Fault, db
<1>32. CASE Crash(t)
  <2>1. pc'[t] = "dead" /\ req'[t] = req[t] /\ Rows(t) /\ faults' < faults
    BY <1>1, <1>32, RowsKept DEF Crash, Fault, db
  <2> QED
    BY <1>1, <1>2, <1>32, <2>1 DEF Crash, Alive, PathAt, Path, Rows, Amid
<1> QED
  BY <1>6, <1>7, <1>8, <1>9, <1>10, <1>11, <1>12, <1>13, <1>14, <1>15, <1>16, <1>17,
     <1>18, <1>19, <1>20, <1>21, <1>22, <1>23, <1>24, <1>25, <1>26, <1>27, <1>28,
     <1>29, <1>30, <1>31, <1>32 DEF Work

---------------------------------------------------------------------------
(* The other tasks, the ledger and the entries.                             *)

\* A turn row changes only at the task that writes it.
LEMMA OthersKept ==
    ASSUME TypeInv, NEW t \in Tasks,
           Request(t) \/ AcquireFails(t) \/ Work(t) \/ StoreFails(t) \/ Crash(t)
    PROVE  Apart(t) /\ faults' <= faults
<1>1. \A u \in Tasks \ {t} : pc'[u] = pc[u] /\ req'[u] = req[u]
  <2> USE DEF TypeInv, Tasked
  <2>1. CASE Request(t) \/ AcquireFails(t) \/ StoreFails(t) \/ Crash(t)
    BY <2>1 DEF Request, AcquireFails, StoreFails, Crash, Errs
  <2>2. CASE Acquire(t) \/ Busy(t) \/ Release(t) \/ ReleaseFails(t)
    BY <2>2 DEF Acquire, Busy, Release, ReleaseFails
  <2>3. CASE Work(t) /\ ~(Acquire(t) \/ Busy(t) \/ Release(t) \/ ReleaseFails(t))
    <3>1. (\E next, r : Goes(t, next, r)) \/ Errs(t)
      BY <2>3 DEF Work, AcquireSoul, AppendTrigger, AppendLoses, ReadTrigger, LoadTrigger,
         RefTrigger, AppendMessageRef, Assemble, StartTurn, Provide, Continues, ToolCall,
         Dispatch, ToolResult, Answer, ReadAnswer, RefAnswer, Complete, Fail, Hooks, Load,
         AppendCompact, LoadParent, LoadChild, Copy, Answered
    <3> QED
      BY <3>1 DEF Goes, Errs
  <2> QED
    BY <2>1, <2>2, <2>3
<1>2. \A u \in Tasks \ {t} : Rows(u)
  <2>1. CASE StartTurn(t) \/ Complete(t) \/ Fail(t)
    <3>1. \E row : turns' = [turns EXCEPT ![TurnOf(t)] = row]
      BY <2>1 DEF StartTurn, Complete, Fail
    <3> QED
      BY <3>1, RowWritten
  <2>2. CASE ~(StartTurn(t) \/ Complete(t) \/ Fail(t))
    <3>1. UNCHANGED turns
      BY <2>2 DEF Request, AcquireFails, StoreFails, Crash, Work, Acquire, Busy, Release,
         ReleaseFails, AcquireSoul, AppendTrigger, AppendLoses, ReadTrigger, LoadTrigger,
         RefTrigger, Assemble, Provide, ToolCall, Dispatch, ToolResult, Answer, ReadAnswer,
         RefAnswer, Hooks, Load, AppendCompact, LoadParent, LoadChild, Copy, db
    <3> QED
      BY <3>1, RowsKept
  <2> QED
    BY <2>1, <2>2
<1>3. faults' <= faults
  <2>1. faults \in Nat
    BY DEF TypeInv
  <2> QED
    BY <2>1 DEF Request, AcquireFails, StoreFails, Crash, Work, Acquire, Busy, Release,
       ReleaseFails, AcquireSoul, AppendTrigger, AppendLoses, ReadTrigger, LoadTrigger,
       RefTrigger, AppendMessageRef, Assemble, StartTurn, Provide, ToolCall, Dispatch,
       ToolResult, Answer, ReadAnswer, RefAnswer, Complete, Fail, Hooks, Load, AppendCompact,
       LoadParent, LoadChild, Copy, Answered, Fault
<1> QED
  BY <1>1, <1>2, <1>3 DEF Apart

\* What goes on around the tasks leaves their requests, their turns and the
\* entries alone, and may only kill them.
LEMMA AroundKept ==
    ASSUME TypeInv, Lapse \/ Restart \/ PeerWrites \/ UNCHANGED vars
    PROVE  /\ UNCHANGED <<req, items, soul, turns>>
           /\ faults' <= faults
           /\ \A u \in Tasks : \/ pc'[u] = pc[u]
                               \/ pc'[u] = "dead" /\ pc[u] # "idle" /\ faults' < faults
<1>1. faults \in Nat /\ pc \in [Tasks -> Steps]
  BY DEF TypeInv, Tasked
<1> QED
  BY <1>1 DEF Lapse, Restart, PeerWrites, vars, db, lock, Alive, Fault

\* Entries are only appended; a message stays, and once fixed stays as it is.
Grown ==
    /\ Len(ledger) <= Len(ledger') /\ Len(items) <= Len(items')
    /\ \A m \in DOMAIN ledger : ledger[m].fixed => ledger'[m] = ledger[m]
    /\ \A k \in DOMAIN items : items'[k] = items[k]

\* An appended element leaves the sequence before it alone.
LEMMA Appended ==
    ASSUME NEW S, NEW s \in Seq(S), NEW e
    PROVE  /\ Len(s) \in Nat /\ DOMAIN s = 1..Len(s)
           /\ Len(Append(s, e)) = Len(s) + 1 /\ DOMAIN Append(s, e) = 1..(Len(s) + 1)
           /\ Append(s, e)[Len(s) + 1] = e
           /\ \A k \in DOMAIN s : Append(s, e)[k] = s[k]
<1>1. Append(s, e) \in Seq(S \union {e})
  OBVIOUS
<1> QED
  BY <1>1

\* The steps of a task that write to the stores.
Stores(t) ==
    \/ AcquireSoul(t) \/ AppendTrigger(t) \/ RefTrigger(t) \/ StartTurn(t) \/ ToolCall(t)
    \/ ToolResult(t) \/ Answer(t) \/ RefAnswer(t) \/ Complete(t) \/ Fail(t)
    \/ AppendCompact(t) \/ Copy(t)

\* Nothing else but a peer writes to them.
LEMMA StoresWritten ==
    ASSUME [Next]_vars
    PROVE  UNCHANGED db \/ PeerWrites \/ \E t \in Tasks : Stores(t)
<1>1. ASSUME NEW t \in Tasks, Work(t) PROVE UNCHANGED db \/ Stores(t)
  <2>1. CASE \/ Acquire(t) \/ Busy(t) \/ Release(t) \/ ReleaseFails(t) \/ AppendLoses(t)
             \/ ReadTrigger(t) \/ LoadTrigger(t)
    BY <2>1 DEF Acquire, Busy, Release, ReleaseFails, AppendLoses, ReadTrigger, LoadTrigger
  <2>2. CASE \/ Assemble(t) \/ Provide(t) \/ Dispatch(t) \/ ReadAnswer(t)
    BY <2>2 DEF Assemble, Provide, Dispatch, ReadAnswer
  <2>3. CASE Hooks(t) \/ Load(t) \/ LoadParent(t) \/ LoadChild(t)
    BY <2>3 DEF Hooks, Load, LoadParent, LoadChild
  <2> QED
    BY <1>1, <2>1, <2>2, <2>3 DEF Work, Stores
<1>2. ASSUME NEW t \in Tasks, Request(t) \/ AcquireFails(t) \/ StoreFails(t) \/ Crash(t)
      PROVE  UNCHANGED db
  BY <1>2 DEF Request, AcquireFails, StoreFails, Crash
<1>3. CASE Lapse \/ Restart \/ UNCHANGED vars
  BY <1>3 DEF Lapse, Restart, vars, db
<1> QED
  BY <1>1, <1>2, <1>3 DEF Next

\* Every step grows the ledger and the entries.
LEMMA Grows ==
    ASSUME TypeInv, [Next]_vars
    PROVE  Grown
<1>1. ledger \in Seq(Messages) /\ items \in Seq(Entries)
  BY DEF TypeInv, Stored
<1>2. \/ ledger' = ledger
      \/ \E e : ledger' = Append(ledger, e)
      \/ \E m \in DOMAIN ledger :
            ~ledger[m].fixed /\ ledger' = [ledger EXCEPT ![m].fixed = TRUE]
  BY StoresWritten DEF PeerWrites, Stores, AcquireSoul, AppendTrigger, AppendMessage,
     RefTrigger, StartTurn, ToolCall, ToolResult, Answer, RefAnswer, Complete, Fail,
     AppendCompact, Copy, db
<1>3. \/ items' = items
      \/ \E e : items' = Append(items, e)
  <2>1. CASE \E t \in Tasks : RefTrigger(t) \/ RefAnswer(t)
    BY <2>1 DEF RefTrigger, RefAnswer, AppendMessageRef, Entry
  <2>2. CASE \E t \in Tasks : ToolCall(t) \/ ToolResult(t) \/ AppendCompact(t)
    BY <2>2 DEF ToolCall, ToolResult, AppendCompact, Entry
  <2>3. CASE ~\E t \in Tasks : \/ RefTrigger(t) \/ RefAnswer(t) \/ ToolCall(t)
                               \/ ToolResult(t) \/ AppendCompact(t)
    BY <2>3, StoresWritten DEF PeerWrites, Stores, AcquireSoul, AppendTrigger, StartTurn,
       Answer, Complete, Fail, Copy, db
  <2> QED
    BY <2>1, <2>2, <2>3
<1>4. /\ Len(ledger) <= Len(ledger')
      /\ \A m \in DOMAIN ledger : ledger[m].fixed => ledger'[m] = ledger[m]
  <2>1. CASE ledger' = ledger
    BY <1>1, <2>1
  <2>2. CASE \E e : ledger' = Append(ledger, e)
    BY <1>1, <2>2, Appended
  <2>3. ASSUME NEW m \in DOMAIN ledger, ~ledger[m].fixed,
               ledger' = [ledger EXCEPT ![m].fixed = TRUE]
        PROVE  /\ Len(ledger) <= Len(ledger')
               /\ \A k \in DOMAIN ledger : ledger[k].fixed => ledger'[k] = ledger[k]
    <3>1. Len(ledger') = Len(ledger) /\ Len(ledger) \in Nat
      BY <1>1, <2>3
    <3>2. \A k \in DOMAIN ledger : k # m => ledger'[k] = ledger[k]
      BY <2>3
    <3> QED
      BY <2>3, <3>1, <3>2
  <2> QED
    BY <1>2, <2>1, <2>2, <2>3
<1>5. /\ Len(items) <= Len(items')
      /\ \A k \in DOMAIN items : items'[k] = items[k]
  BY <1>1, <1>3, Appended
<1> QED
  BY <1>4, <1>5 DEF Grown

\* Only a task inside the lock appends an entry or moves what the soul has seen.
LEMMA OutsideKept ==
    ASSUME NEW t \in Tasks, pc[t] \notin LockedSteps,
           Request(t) \/ AcquireFails(t) \/ Work(t) \/ StoreFails(t) \/ Crash(t)
    PROVE  UNCHANGED <<items, soul>>
<1>1. {"soul", "c_soul", "ref", "call", "result", "answer_ref", "c_append", "complete",
       "c_complete"} \subseteq LockedSteps
  BY DEF LockedSteps, SendSteps, StartupSteps, BodySteps, CompactSteps, ForkSteps
<1> QED
  BY <1>1 DEF Request, AcquireFails, StoreFails, Crash, Work, Acquire, Busy, Release,
     ReleaseFails, AcquireSoul, AppendTrigger, AppendLoses, ReadTrigger, LoadTrigger,
     RefTrigger, Assemble, StartTurn, Provide, ToolCall, Dispatch, ToolResult, Answer,
     ReadAnswer, RefAnswer, Complete, Fail, Hooks, Load, AppendCompact, LoadParent,
     LoadChild, Copy, db

\* While leases are kept, a step of one task is a step outside of the others.
LEMMA OthersOutside ==
    ASSUME GuardExclusive, ~MayLose, NEW t \in Tasks, pc[t] \in LockedSteps,
           NEW u \in Tasks \ {t}
    PROVE  pc[u] \notin LockedSteps
  BY DEF GuardExclusive, Inside

---------------------------------------------------------------------------
(* Theorems that follow from the path alone.                                *)

\* The calls that may still fail are never more than the bound.
Budget == faults <= MaxFaults

\* The paths, and every step's part in them.
LEMMA PathsStep ==
    ASSUME TypeInv, Budget, Paths, [Next]_vars
    PROVE  Budget' /\ Paths'
<1> USE SessionTurnAssumption
<1>1. faults \in Nat /\ faults' \in Nat
  BY TypeStep DEF TypeInv
<1>2. ASSUME NEW t \in Tasks, req'[t] = req[t], Rows(t), faults' <= faults,
             pc'[t] = pc[t] \/ (pc'[t] = "dead" /\ pc[t] # "idle" /\ faults' < faults)
      PROVE  PathAt(t)'
  <2>1. PathAt(t) /\ (faults' = MaxFaults => faults = MaxFaults)
    BY <1>1, <1>2 DEF Paths, PathAt, Budget
  <2>2. pc'[t] = pc[t] \/ (pc'[t] = "dead" /\ faults' < faults)
    BY <1>2
  <2>3. Main(t)' = Main(t) /\ Hook(t)' = Hook(t) /\ req'[t] = req[t]
    BY <1>2 DEF Rows
  <2>4. CASE pc'[t] = pc[t]
    BY <2>1, <2>3, <2>4 DEF PathAt, Path
  <2>5. CASE pc'[t] = "dead" /\ faults' < faults
    <3>1. ~(faults' = MaxFaults)
      BY <1>1, <2>1, <2>5 DEF Budget
    <3> QED
      BY <1>2, <2>1, <2>3, <2>5, <3>1 DEF PathAt, Path, SendSteps, StartupSteps, BodySteps,
         CompactSteps, ForkSteps
  <2> QED
    BY <2>2, <2>4, <2>5
<1>3. ASSUME NEW t \in Tasks,
             Request(t) \/ AcquireFails(t) \/ Work(t) \/ StoreFails(t) \/ Crash(t)
      PROVE  Budget' /\ Paths'
  <2>1. Apart(t) /\ faults' <= faults
    BY <1>3, OthersKept
  <2>2. PathAt(t)'
    BY <1>3, PathStep DEF Paths, PathAt, Budget
  <2>3. ASSUME NEW u \in Tasks, u # t PROVE PathAt(u)'
    BY <1>2, <2>1, <2>3 DEF Apart
  <2> QED
    BY <1>1, <2>1, <2>2, <2>3 DEF Paths, PathAt, Budget
<1>4. CASE Lapse \/ Restart \/ PeerWrites \/ UNCHANGED vars
  <2>1. /\ UNCHANGED <<req, turns>> /\ faults' <= faults
        /\ \A u \in Tasks : \/ pc'[u] = pc[u]
                            \/ pc'[u] = "dead" /\ pc[u] # "idle" /\ faults' < faults
    BY <1>4, AroundKept
  <2>2. ASSUME NEW u \in Tasks PROVE PathAt(u)'
    BY <1>2, <2>1, RowsKept
  <2> QED
    BY <1>1, <2>1, <2>2 DEF Paths, PathAt, Budget
<1> QED
  BY <1>3, <1>4 DEF Next

\* At first every task is idle and no turn is written.
LEMMA PathsInit ==
    ASSUME Init
    PROVE  Budget /\ Paths
<1>1. Budget
  BY SessionTurnAssumption DEF Init, Budget
<1>2. ASSUME NEW t \in Tasks
      PROVE  /\ pc[t] = "idle" /\ req[t] = NoRequest
             /\ Main(t).status = "none" /\ Hook(t).status = "none"
  <2>1. <<t, "main">> \in TurnIds /\ <<t, "hook">> \in TurnIds
    BY DEF TurnIds
  <2> QED
    BY <2>1 DEF Init, Main, Hook, NoTurn
<1>3. NoRequest.op = "none" /\ NoRequest.trig = 0 /\ NoRequest.verdict = "none"
  BY DEF NoRequest
<1> QED
  BY <1>1, <1>2, <1>3 DEF Paths, Path, Amid, SendSteps, StartupSteps, BodySteps,
     CompactSteps, ForkSteps

\* The invariant the theorems below start from.
LEMMA PathsInvariant ==
    Spec => [](TypeInv /\ GuardExclusive /\ Budget /\ Paths)
<1>1. Init => Budget /\ Paths
  BY PathsInit
<1>2. TypeInv /\ Budget /\ Paths /\ [Next]_vars => Budget' /\ Paths'
  BY PathsStep
<1> QED
  BY <1>1, <1>2, LockInvariant, PTL DEF Spec

\* A turn is left running only by a failed call or a crash: without one, every
\* way out of a turn's body, the hook compaction's too, closes its row.
THEOREM Stranded == Spec => []StrandedOnlyByFault
<1>1. Paths => StrandedOnlyByFault
  <2> SUFFICES ASSUME Paths, faults = MaxFaults, NEW t \in Tasks,
                      pc[t] \in {"release", "hooks", "lock", "done"},
                      NEW k \in {"main", "hook"}
               PROVE  turns[<<t, k>>].status # "running"
    BY DEF StrandedOnlyByFault
  <2>1. /\ Main(t).status = "running" => pc[t] \in Amid
        /\ Hook(t).status = "running" => pc[t] \in Amid
    BY DEF Paths, Path
  <2> QED
    BY <2>1 DEF Amid, BodySteps, Main, Hook
<1> QED
  BY <1>1, PathsInvariant, PTL

---------------------------------------------------------------------------
(* What a task wrote on its way to a step of its turn.                      *)

Kept(t) ==
    /\ req'[t].trig = req[t].trig /\ req'[t].snap = req[t].snap
    /\ req'[t].answer = req[t].answer /\ req'[t].calls = req[t].calls

Appends(t, kind, ref) == items' = Append(items, [kind |-> kind, ref |-> ref, by |-> t])

\* Where the task was, and what it wrote and learned.
Arrives(t) ==
    /\ pc[t] \notin {"idle", "hooks"} => req'[t].op = req[t].op
    /\ pc'[t] \notin {"trigger_read", "ref", "start", "dispatch", "answer_read", "answer_ref"}
          => Kept(t)
    /\ pc'[t] = "lock" => pc[t] = "idle" \/ req'[t].op = "hook"
    /\ pc'[t] = "soul" => pc[t] = "lock"
    /\ pc'[t] = "trigger" => pc[t] = "soul"
    /\ pc'[t] \in {"trigger_read", "ref"} =>
          pc[t] \in {"trigger", "trigger_read"} /\ req'[t].calls = req[t].calls
    /\ pc'[t] \in {"trigger_read", "answer_read"} => Standalone
    /\ pc'[t] = "assemble" => pc[t] = "ref" /\ Appends(t, "message", req[t].trig)
    /\ pc'[t] = "start" =>
          /\ pc[t] = "assemble" /\ items' = items
          /\ req'[t].trig = req[t].trig /\ req'[t].calls = req[t].calls
          /\ req'[t].snap = Len(ledger)
    /\ pc'[t] = "provider" =>
          \/ pc[t] = "start" /\ items' = items
          \/ pc[t] = "result" /\ Appends(t, "result", req[t].calls)
    /\ pc'[t] = "call" =>
          \/ pc[t] = "provider" /\ items' = items
          \/ pc[t] = "result" /\ Appends(t, "result", req[t].calls)
    /\ pc'[t] = "dispatch" =>
          /\ pc[t] = "call" /\ Appends(t, "call", req[t].calls + 1)
          /\ req'[t].trig = req[t].trig /\ req'[t].snap = req[t].snap
          /\ req'[t].calls = req[t].calls + 1
    /\ pc'[t] = "result" => pc[t] = "dispatch" /\ items' = items
    /\ pc'[t] = "answer" => pc[t] = "provider" /\ items' = items
    /\ pc'[t] \in {"answer_read", "answer_ref"} =>
          /\ pc[t] \in {"answer", "answer_read"} /\ items' = items /\ UNCHANGED soul
          /\ req'[t].trig = req[t].trig /\ req'[t].snap = req[t].snap
          /\ req'[t].calls = req[t].calls
          /\ req'[t].answer >= Len(ledger)
          /\ pc[t] = "answer" =>
                /\ ledger' = Append(ledger, [by |-> t, fixed |-> TRUE])
                /\ req'[t].answer = Len(ledger')
    /\ pc'[t] = "complete" =>
          /\ pc[t] = "answer_ref" /\ Appends(t, "message", req[t].answer)
          /\ UNCHANGED soul /\ req'[t].entry = Len(items')

\* An error leads to none of these.
LEMMA FailedArrives ==
    ASSUME TypeInv, NEW t \in Tasks, Failed(t)
    PROVE  Arrives(t)
<1>1. req[t] \in Requests
  BY DEF TypeInv, Tasked
<1>2. pc'[t] \in {"release", "fail", "done"}
  BY DEF Failed, Moves, AfterError
<1>3. /\ req'[t].op = req[t].op /\ req'[t].trig = req[t].trig /\ req'[t].snap = req[t].snap
      /\ req'[t].answer = req[t].answer /\ req'[t].calls = req[t].calls
  BY <1>1 DEF Failed, Moves, Judged, Requests
<1> QED
  BY <1>2, <1>3 DEF Arrives, Kept

\* A step to a place outside of a turn's body.
LEMMA LeavesArrives ==
    ASSUME NEW t \in Tasks, Kept(t),
           pc[t] \notin {"idle", "hooks"} => req'[t].op = req[t].op,
           \/ pc'[t] \in {"release", "fail", "done", "dead", "hooks"} \union CompactSteps
                         \union ForkSteps
           \/ pc'[t] = "lock" /\ (pc[t] = "idle" \/ req'[t].op = "hook")
           \/ pc'[t] = "soul" /\ pc[t] = "lock"
           \/ pc'[t] = "trigger" /\ pc[t] = "soul"
    PROVE  Arrives(t)
  BY DEF Arrives, CompactSteps, ForkSteps

\* The steps of a task, but for those of the turn's body.
LEMMA OutsideArrives ==
    ASSUME TypeInv, NEW t \in Tasks, PathAt(t),
           \/ Request(t) \/ AcquireFails(t) \/ StoreFails(t) \/ Crash(t)
           \/ Acquire(t) \/ Busy(t) \/ Release(t) \/ ReleaseFails(t)
           \/ AcquireSoul(t) \/ Complete(t) \/ Fail(t) \/ Hooks(t) \/ Load(t)
           \/ AppendCompact(t) \/ LoadParent(t) \/ LoadChild(t) \/ Copy(t)
    PROVE  Arrives(t)
<1>1. /\ req[t] \in Requests /\ req \in [Tasks -> Requests] /\ pc \in [Tasks -> Steps]
  BY DEF TypeInv, Tasked
<1>2. /\ CompactSteps = {"load", "c_soul", "c_start", "c_append", "c_complete"}
      /\ ForkSteps = {"f_soul", "f_child", "f_illegal", "f_copy"}
  BY DEF CompactSteps, ForkSteps
<1>3. ASSUME NEW v \in {"ok", "busy", "error"}
      PROVE  /\ Judged(t, v).op = req[t].op /\ Judged(t, v).trig = req[t].trig
             /\ Judged(t, v).snap = req[t].snap /\ Judged(t, v).answer = req[t].answer
             /\ Judged(t, v).calls = req[t].calls
  BY <1>1 DEF Judged, Requests
<1>4. ASSUME NEW v \in {"ok", "busy", "error"}, req'[t] = Judged(t, v),
             pc'[t] \in {"release", "done"}
      PROVE  Arrives(t)
  BY <1>3, <1>4, LeavesArrives DEF Kept
<1>5. ASSUME req'[t] = req[t],
             \/ pc'[t] \in {"release", "fail", "done", "dead", "hooks"} \union CompactSteps
                           \union ForkSteps
             \/ pc'[t] = "soul" /\ pc[t] = "lock"
             \/ pc'[t] = "trigger" /\ pc[t] = "soul"
      PROVE  Arrives(t)
  BY <1>5, LeavesArrives DEF Kept
<1>6. ASSUME NEW next, NEW r, Goes(t, next, r) \/ Answered(t, next, r),
             \/ r \in {Judged(t, "ok"), Judged(t, "error")} /\ next = "release"
             \/ /\ r = req[t]
                /\ \/ next \in {"release", "done"} \union CompactSteps \union ForkSteps
                   \/ next = "trigger" /\ pc[t] = "soul"
      PROVE  Arrives(t)
  <2>1. Failed(t) \/ Moves(t, next, r)
    BY <1>6, GoesMoves, AnsweredMoves
  <2>2. CASE Moves(t, next, r)
    BY <1>4, <1>5, <1>6, <2>2 DEF Moves
  <2> QED
    BY <2>1, <2>2, FailedArrives
<1>7. CASE Request(t)
  <2>1. PICK op \in Ops, point \in {0} \union DOMAIN ledger \union ForkPoints :
          req' = [req EXCEPT ![t].op = op, ![t].point = point]
    BY <1>7 DEF Request
  <2>2. /\ req'[t].trig = req[t].trig /\ req'[t].snap = req[t].snap
        /\ req'[t].answer = req[t].answer /\ req'[t].calls = req[t].calls
    BY <1>1, <2>1 DEF Requests
  <2>3. pc[t] = "idle" /\ pc'[t] = "lock"
    BY <1>1, <1>7 DEF Request
  <2> QED
    BY <2>2, <2>3, LeavesArrives DEF Kept
<1>8. CASE AcquireFails(t) \/ Busy(t)
  <2>1. PICK v \in {"busy", "error"} : req'[t] = Judged(t, v)
    BY <1>1, <1>8 DEF AcquireFails, Busy
  <2> QED
    BY <1>1, <1>4, <1>8, <2>1 DEF AcquireFails, Busy
<1>9. CASE StoreFails(t)
  BY <1>9, ErrsMoves, FailedArrives DEF StoreFails
<1>10. CASE Crash(t)
  BY <1>1, <1>5, <1>10 DEF Crash
<1>11. CASE Acquire(t)
  BY <1>1, <1>2, <1>5, <1>11 DEF Acquire, FirstStep
<1>12. CASE Release(t)
  BY <1>1, <1>5, <1>12 DEF Release, AfterRelease
<1>13. CASE ReleaseFails(t)
  BY <1>1, <1>4, <1>13 DEF ReleaseFails
<1>14. CASE AcquireSoul(t)
  BY <1>2, <1>6, <1>14 DEF AcquireSoul
<1>15. CASE Complete(t) \/ Fail(t)
  BY <1>6, <1>15 DEF Complete, Fail
<1>16. CASE Hooks(t)
  <2>1. CASE Goes(t, "done", req[t])
    BY <1>6, <2>1
  <2>2. CASE Goes(t, "lock", [req[t] EXCEPT !.op = "hook", !.point = req[t].answer])
    <3>1. pc'[t] = "lock" /\ req'[t] = [req[t] EXCEPT !.op = "hook", !.point = req[t].answer]
      BY <2>2, GoesMoves DEF Moves
    <3>2. Kept(t) /\ req'[t].op = "hook"
      BY <1>1, <3>1 DEF Kept, Requests
    <3>3. pc[t] = "hooks"
      BY <1>16 DEF Hooks
    <3> QED
      BY <3>1, <3>2, <3>3, LeavesArrives
  <2> QED
    BY <1>16, <2>1, <2>2 DEF Hooks
<1>17. CASE Load(t)
  <2>1. CASE Goes(t, "release", Judged(t, "error"))
    BY <1>6, <2>1
  <2>2. CASE Errs(t)
    BY <2>2, ErrsMoves, FailedArrives
  <2>3. ASSUME NEW k, Goes(t, "c_soul", [req[t] EXCEPT !.point = k])
        PROVE  Arrives(t)
    <3>1. pc'[t] = "c_soul" /\ req'[t] = [req[t] EXCEPT !.point = k]
      BY <2>3, GoesMoves DEF Moves
    <3>2. Kept(t) /\ req'[t].op = req[t].op
      BY <1>1, <3>1 DEF Kept, Requests
    <3> QED
      BY <1>2, <3>1, <3>2, LeavesArrives
  <2> QED
    BY <1>17, <2>1, <2>2, <2>3 DEF Load
<1>18. CASE AppendCompact(t)
  BY <1>2, <1>6, <1>18 DEF AppendCompact
<1>19. CASE LoadParent(t)
  BY <1>2, <1>6, <1>19, ErrsMoves, FailedArrives DEF LoadParent
<1>20. CASE LoadChild(t)
  BY <1>2, <1>6, <1>20 DEF LoadChild
<1>21. CASE Copy(t)
  BY <1>2, <1>6, <1>21, ErrsMoves, FailedArrives DEF Copy
<1> QED
  BY <1>7, <1>8, <1>9, <1>10, <1>11, <1>12, <1>13, <1>14, <1>15, <1>16, <1>17, <1>18,
     <1>19, <1>20, <1>21

\* The steps of startup and of the body.
LEMMA ArrivesStep ==
    ASSUME TypeInv, NEW t \in Tasks, PathAt(t),
           Request(t) \/ AcquireFails(t) \/ Work(t) \/ StoreFails(t) \/ Crash(t)
    PROVE  Arrives(t)
<1>1. req[t] \in Requests /\ ledger \in Seq(Messages) /\ Len(ledger) \in Nat
  BY DEF TypeInv, Tasked, Stored
<1>2. ASSUME NEW next, NEW r, Goes(t, next, r) \/ Answered(t, next, r),
             Moves(t, next, r) => Arrives(t)
      PROVE  Arrives(t)
  BY <1>2, GoesMoves, AnsweredMoves, FailedArrives
<1>3. ASSUME Errs(t) PROVE Arrives(t)
  BY <1>3, ErrsMoves, FailedArrives
<1>4. CASE AppendTrigger(t) \/ ReadTrigger(t) \/ LoadTrigger(t)
  <2>1. ASSUME NEW next \in {"trigger_read", "ref"}, NEW k,
               next = "trigger_read" => Standalone,
               Moves(t, next, [req[t] EXCEPT !.trig = k])
        PROVE  Arrives(t)
    <3>1. pc'[t] = next /\ req'[t].calls = req[t].calls /\ req'[t].op = req[t].op
      BY <1>1, <2>1 DEF Moves, Requests
    <3>2. pc[t] \in {"trigger", "trigger_read"}
      BY <1>4 DEF AppendTrigger, ReadTrigger, LoadTrigger
    <3> QED
      BY <2>1, <3>1, <3>2 DEF Arrives
  <2> QED
    BY <1>2, <1>3, <1>4, <2>1 DEF AppendTrigger, ReadTrigger, LoadTrigger
<1>5. CASE RefTrigger(t) \/ RefAnswer(t)
  <2>1. ASSUME NEW m, NEW next, Moves(t, next, [req[t] EXCEPT !.entry = Len(items')]),
               Appends(t, "message", m), UNCHANGED soul,
               \/ pc[t] = "ref" /\ next = "assemble" /\ m = req[t].trig
               \/ pc[t] = "answer_ref" /\ next = "complete" /\ m = req[t].answer
        PROVE  Arrives(t)
    <3>1. /\ pc'[t] = next /\ Kept(t) /\ req'[t].op = req[t].op
          /\ req'[t].entry = Len(items')
      BY <1>1, <2>1 DEF Moves, Requests, Kept
    <3> QED
      BY <2>1, <3>1 DEF Arrives
  <2> QED
    BY <1>2, <1>3, <1>5, <2>1 DEF RefTrigger, RefAnswer, AppendMessageRef, Entry, Appends
<1>6. CASE Assemble(t)
  <2>1. Moves(t, "start", [req[t] EXCEPT !.snap = Len(ledger)])
    BY <1>6, GoesMoves DEF Assemble
  <2>2. /\ pc'[t] = "start" /\ req'[t].snap = Len(ledger) /\ req'[t].trig = req[t].trig
        /\ req'[t].calls = req[t].calls /\ req'[t].op = req[t].op
    BY <1>1, <2>1 DEF Moves, Requests
  <2> QED
    BY <1>6, <2>2 DEF Arrives, Assemble, db
<1>7. CASE StartTurn(t) \/ Provide(t) \/ Dispatch(t) \/ ToolResult(t)
  <2>1. ASSUME NEW next, Moves(t, next, req[t]),
               \/ /\ items' = items
                  /\ \/ pc[t] = "start" /\ next = "provider"
                     \/ pc[t] = "c_start" /\ next = "c_append"
                     \/ pc[t] = "provider" /\ next \in {"call", "answer"}
                     \/ pc[t] = "dispatch" /\ next = "result"
               \/ /\ Appends(t, "result", req[t].calls)
                  /\ pc[t] = "result" /\ next \in {"provider", "call"}
        PROVE  Arrives(t)
    <3>1. pc'[t] = next /\ Kept(t) /\ req'[t].op = req[t].op
      BY <2>1 DEF Moves, Kept
    <3> QED
      BY <2>1, <3>1 DEF Arrives
  <2> QED
    BY <1>2, <1>3, <1>7, <2>1 DEF StartTurn, Provide, Continues, Dispatch, ToolResult,
       Entry, Appends, db
<1>8. CASE ToolCall(t)
  <2>1. ASSUME Moves(t, "dispatch", [req[t] EXCEPT !.calls = @ + 1])
        PROVE  Arrives(t)
    <3>1. /\ pc'[t] = "dispatch" /\ req'[t].calls = req[t].calls + 1
          /\ req'[t].trig = req[t].trig /\ req'[t].snap = req[t].snap
          /\ req'[t].op = req[t].op
      BY <1>1, <2>1 DEF Moves, Requests
    <3> QED
      BY <1>8, <3>1 DEF Arrives, ToolCall, Entry, Appends
  <2> QED
    BY <1>2, <1>8, <2>1 DEF ToolCall
<1>9. CASE Answer(t) \/ ReadAnswer(t)
  <2>2. CASE Answer(t)
    <3>1. Len(ledger') = Len(ledger) + 1 /\ Len(ledger') \in Nat
      BY <1>1, <2>2, Appended DEF Answer, AppendMessage
    <3>2. ASSUME NEW next \in {"answer_read", "answer_ref"},
                 next = "answer_read" => Standalone,
                 Moves(t, next, [req[t] EXCEPT !.answer = Len(ledger')])
          PROVE  Arrives(t)
      <4>1. /\ pc'[t] = next /\ req'[t].answer = Len(ledger')
            /\ req'[t].trig = req[t].trig /\ req'[t].snap = req[t].snap
            /\ req'[t].calls = req[t].calls /\ req'[t].op = req[t].op
        BY <1>1, <3>2 DEF Moves, Requests
      <4> QED
        BY <1>1, <2>2, <3>1, <3>2, <4>1 DEF Arrives, Answer, AppendMessage
    <3> QED
      BY <1>2, <2>2, <3>2 DEF Answer
  <2>3. CASE ReadAnswer(t)
    <3>1. Moves(t, "answer_ref", [req[t] EXCEPT !.answer = Len(ledger)])
      BY <2>3, GoesMoves DEF ReadAnswer
    <3>2. pc[t] = "answer_read" /\ UNCHANGED <<items, soul>>
      BY <2>3 DEF ReadAnswer, db
    <3>3. /\ pc'[t] = "answer_ref" /\ req'[t].answer = Len(ledger)
          /\ req'[t].trig = req[t].trig /\ req'[t].snap = req[t].snap
          /\ req'[t].calls = req[t].calls /\ req'[t].op = req[t].op
      BY <1>1, <3>1 DEF Moves, Requests
    <3> QED
      BY <1>1, <3>2, <3>3 DEF Arrives
  <2> QED
    BY <1>9, <2>2, <2>3
<1>10. CASE AppendLoses(t)
  BY <1>3, <1>10 DEF AppendLoses
<1> QED
  BY <1>4, <1>5, <1>6, <1>7, <1>8, <1>9, <1>10, OutsideArrives DEF Work

\* What becomes of a task's row, and when its request is answered Ok.
Writes(t) ==
    /\ pc[t] \notin {"start", "c_start", "complete", "c_complete", "fail"} => Rows(t)
    /\ pc[t] \in {"start", "c_start"} => Main(t)' = Main(t) \/ Main(t)'.status = "running"
    /\ pc[t] = "start" /\ pc'[t] = "provider" => Main(t)'.base = Len(items)
    /\ pc[t] = "fail" => Main(t)' = Main(t) \/ Main(t)'.status = "failed"
    /\ pc[t] = "complete" =>
          \/ Main(t)' = Main(t)
          \/ /\ items' = items /\ Main(t)'.status = "completed"
             /\ Main(t)'.base = Main(t).base /\ Main(t)'.end = Len(items)
    /\ pc[t] \in {"c_start", "c_complete"} /\ req[t].op = "hook" => Main(t)' = Main(t)
    /\ req'[t].verdict = "ok" /\ req[t].verdict # "ok" =>
          \/ pc[t] \in {"c_complete"} \union ForkSteps /\ req[t].op # "hook"
          \/ pc[t] = "complete" /\ Main(t)'.status = "completed"

\* Every step of a task.
LEMMA WritesStep ==
    ASSUME TypeInv, NEW t \in Tasks, PathAt(t),
           Request(t) \/ AcquireFails(t) \/ Work(t) \/ StoreFails(t) \/ Crash(t)
    PROVE  Writes(t)
<1>1. /\ req[t] \in Requests /\ req \in [Tasks -> Requests]
      /\ pc[t] \in {"start", "complete", "fail"} => req[t].op # "hook"
  <2>1. {"start", "complete", "fail"} \subseteq SendSteps
    BY DEF SendSteps, BodySteps
  <2> QED
    BY <2>1 DEF TypeInv, Tasked, PathAt, Path
<1>2. ASSUME NEW v \in {"none", "ok", "busy", "error"}
      PROVE  /\ Judged(t, v).verdict \in {req[t].verdict, v}
             /\ req[t].op = "hook" => Judged(t, v).verdict = req[t].verdict
  BY <1>1 DEF Judged, Requests
<1>3. \/ req'[t].verdict \in {req[t].verdict, "busy", "error"}
      \/ pc[t] \in ForkSteps /\ req[t].op # "hook"
      \/ Complete(t) /\ req[t].op # "hook"
  <2>1. CASE Request(t)
    <3>1. PICK op \in Ops, point \in {0} \union DOMAIN ledger \union ForkPoints :
            req' = [req EXCEPT ![t].op = op, ![t].point = point]
      BY <2>1 DEF Request
    <3> QED
      BY <1>1, <3>1 DEF Requests
  <2>2. CASE AcquireFails(t) \/ Busy(t) \/ ReleaseFails(t)
    <3>1. PICK v \in {"busy", "error"} : req'[t] = Judged(t, v) \/ req'[t] = req[t]
      BY <1>1, <2>2 DEF AcquireFails, Busy, ReleaseFails
    <3> QED
      BY <1>2, <3>1
  <2>3. CASE Acquire(t) \/ Release(t) \/ Crash(t)
    BY <2>3 DEF Acquire, Release, Crash
  <2>4. CASE StoreFails(t) \/ AppendLoses(t)
    <3>1. req'[t] = Judged(t, "error")
      BY <2>4, ErrsMoves DEF StoreFails, AppendLoses, Failed, Moves
    <3> QED
      BY <1>2, <3>1
  <2>5. ASSUME NEW next, NEW r, r.verdict = req[t].verdict,
               Goes(t, next, r) \/ Answered(t, next, r) \/ Errs(t)
        PROVE  req'[t].verdict \in {req[t].verdict, "error"}
    <3>1. req'[t] = r \/ req'[t] = Judged(t, "error")
      BY <2>5, GoesMoves, AnsweredMoves, ErrsMoves DEF Failed, Moves
    <3> QED
      BY <1>2, <2>5, <3>1
  <2>6. ASSUME NEW next, NEW r, Goes(t, next, r) \/ Answered(t, next, r) \/ Errs(t)
        PROVE  req'[t] = r \/ req'[t] = Judged(t, "error")
    BY <2>6, GoesMoves, AnsweredMoves, ErrsMoves DEF Failed, Moves
  <2>7. CASE AcquireSoul(t) \/ StartTurn(t) \/ Provide(t) \/ Dispatch(t) \/ ToolResult(t)
             \/ Fail(t) \/ AppendCompact(t)
    BY <2>5, <2>7 DEF AcquireSoul, StartTurn, Provide, Continues, Dispatch, ToolResult,
       Fail, AppendCompact
  <2>8. CASE AppendTrigger(t) \/ ReadTrigger(t) \/ LoadTrigger(t)
    <3>1. PICK k : req'[t] = [req[t] EXCEPT !.trig = k] \/ req'[t] = Judged(t, "error")
      BY <2>6, <2>8 DEF AppendTrigger, ReadTrigger, LoadTrigger
    <3> QED
      BY <1>1, <1>2, <3>1 DEF Requests
  <2>9. CASE RefTrigger(t) \/ RefAnswer(t)
    <3>1. req'[t] = [req[t] EXCEPT !.entry = Len(items')] \/ req'[t] = Judged(t, "error")
      BY <2>6, <2>9 DEF RefTrigger, RefAnswer, AppendMessageRef
    <3> QED
      BY <1>1, <1>2, <3>1 DEF Requests
  <2>10. CASE Answer(t) \/ ReadAnswer(t)
    <3>1. PICK k : req'[t] = [req[t] EXCEPT !.answer = k] \/ req'[t] = Judged(t, "error")
      BY <2>6, <2>10 DEF Answer, ReadAnswer
    <3> QED
      BY <1>1, <1>2, <3>1 DEF Requests
  <2>12. CASE Assemble(t) \/ ToolCall(t)
    <3>1. PICK k : \/ req'[t] = [req[t] EXCEPT !.snap = k]
                   \/ req'[t] = [req[t] EXCEPT !.calls = k]
                   \/ req'[t] = Judged(t, "error")
      BY <2>6, <2>12 DEF Assemble, ToolCall
    <3> QED
      BY <1>1, <1>2, <3>1 DEF Requests
  <2>13. CASE Hooks(t)
    <3>1. \/ req'[t] = req[t]
          \/ req'[t] = [req[t] EXCEPT !.op = "hook", !.point = req[t].answer]
      BY <2>13, GoesMoves DEF Hooks, Moves
    <3> QED
      BY <1>1, <1>2, <3>1 DEF Requests
  <2>14. CASE Load(t)
    <3>1. PICK k : req'[t] = [req[t] EXCEPT !.point = k] \/ req'[t] = Judged(t, "error")
      BY <2>6, <2>14 DEF Load
    <3> QED
      BY <1>1, <1>2, <3>1 DEF Requests
  <2>11. CASE LoadParent(t) \/ LoadChild(t) \/ Copy(t)
    BY <2>11 DEF LoadParent, LoadChild, Copy, ForkSteps, PathAt, Path
  <2>15. CASE Complete(t) /\ req[t].op = "hook"
    <3>1. req'[t] = Judged(t, "ok") \/ req'[t] = Judged(t, "error")
      BY <2>6, <2>15 DEF Complete
    <3> QED
      BY <1>2, <2>15, <3>1
  <2> QED
    BY <2>1, <2>2, <2>3, <2>4, <2>7, <2>8, <2>9, <2>10, <2>11, <2>12, <2>13,
       <2>14, <2>15 DEF Work
<1>4. CASE StartTurn(t)
  <2> DEFINE row == [status |-> "running", base |-> Len(items), end |-> 0,
                     input |-> IF pc[t] = "start" THEN req[t].trig ELSE req[t].point]
  <2>1. Main(t)' = IF req[t].op = "hook" THEN Main(t) ELSE row
    BY <1>4, RowWritten DEF StartTurn
  <2>2. row.status = "running" /\ row.base = Len(items) /\ pc[t] \in {"start", "c_start"}
    BY <1>4 DEF StartTurn
  <2> HIDE DEF row
  <2>3. req'[t].verdict \in {req[t].verdict, "busy", "error"}
    BY <1>3, <1>4 DEF StartTurn, Complete, ForkSteps
  <2> QED
    BY <1>1, <2>1, <2>2, <2>3 DEF Writes
<1>5. CASE Complete(t) \/ Fail(t)
  <2> DEFINE status == IF pc[t] = "fail" THEN "failed" ELSE "completed"
             row == Closed(turns[TurnOf(t)], status)
  <2>1. /\ turns' = [turns EXCEPT ![TurnOf(t)] = row] /\ items' = items
        /\ pc[t] \in {"complete", "c_complete", "fail"}
    BY <1>5 DEF Complete, Fail
  <2>2. Main(t)' = IF req[t].op = "hook" THEN Main(t) ELSE row
    BY <2>1, RowWritten
  <2>3. turns[TurnOf(t)] \in Turns /\ Len(items) \in Nat
    BY DEF TypeInv, Stored, TurnOf, TurnIds
  <2>4. row.status = status /\ row.base = turns[TurnOf(t)].base /\ row.end = Len(items)
    BY <2>3 DEF Closed, Turns
  <2>5. req[t].op # "hook" => turns[TurnOf(t)] = Main(t)
    BY DEF TurnOf, Main
  <2> HIDE DEF row
  <2>6. pc[t] = "fail" => req'[t].verdict \in {req[t].verdict, "busy", "error"}
    BY <1>3 DEF Complete, ForkSteps
  <2> QED
    BY <1>1, <1>3, <2>1, <2>2, <2>4, <2>5, <2>6 DEF Writes
<1>6. CASE ~(StartTurn(t) \/ Complete(t) \/ Fail(t))
  <2>1. UNCHANGED turns
    BY <1>6 DEF Request, AcquireFails, StoreFails, Crash, Work, Acquire, Busy, Release,
       ReleaseFails, AcquireSoul, AppendTrigger, AppendLoses, ReadTrigger, LoadTrigger,
       RefTrigger, Assemble, Provide, ToolCall, Dispatch, ToolResult, Answer, ReadAnswer,
       RefAnswer, Hooks, Load, AppendCompact, LoadParent, LoadChild, Copy, db
  <2>2. ~(pc[t] = "start" /\ pc'[t] = "provider")
    <3>1. Arrives(t)
      BY ArrivesStep
    <3>2. SUFFICES ASSUME pc[t] = "start" PROVE pc'[t] # "provider"
      OBVIOUS
    <3>3. StoreFails(t) \/ Crash(t)
      BY <1>6, <3>2 DEF Request, AcquireFails, Work, Acquire, Busy, Release,
         ReleaseFails, AcquireSoul, AppendTrigger, AppendLoses, ReadTrigger, LoadTrigger,
         RefTrigger, Assemble, Provide, ToolCall, Dispatch, ToolResult, Answer, ReadAnswer,
         RefAnswer, Hooks, Load, AppendCompact, LoadParent, LoadChild, Copy
    <3>4. CASE StoreFails(t)
      BY <3>4, ErrsMoves DEF StoreFails, Failed, Moves, AfterError
    <3>5. CASE Crash(t)
      BY <3>5 DEF Crash, TypeInv, Tasked
    <3> QED
      BY <3>3, <3>4, <3>5
  <2>3. Rows(t) /\ Main(t)' = Main(t)
    BY <2>1, RowsKept DEF Rows
  <2> QED
    BY <1>3, <1>6, <2>2, <2>3 DEF Writes
<1> QED
  BY <1>4, <1>5, <1>6

---------------------------------------------------------------------------
(* The soul session row: what was seen and what to continue from.           *)

\* How a step may change it.
LEMMA SoulMoves ==
    ASSUME TypeInv, [Next]_vars
    PROVE  \/ soul'.seen = soul.seen /\ soul'.basis = soul.basis
           \/ \E t \in Tasks :
                 /\ Complete(t)
                 /\ soul'.seen = IF pc[t] = "complete" THEN req[t].answer ELSE req[t].point
                 /\ soul'.basis \in Bases(t)
<1>1. soul \in [row : BOOLEAN, seen : Nat, basis : Nat]
  BY DEF TypeInv, Stored
<1>2. \/ UNCHANGED soul
      \/ soul' = [soul EXCEPT !.row = TRUE]
      \/ \E t \in Tasks : Complete(t)
  BY StoresWritten DEF PeerWrites, Stores, AcquireSoul, AppendTrigger, RefTrigger,
     StartTurn, ToolCall, ToolResult, Answer, RefAnswer, Fail, AppendCompact, Copy, db
<1>3. ASSUME NEW t \in Tasks, Complete(t)
      PROVE  /\ soul'.seen = IF pc[t] = "complete" THEN req[t].answer ELSE req[t].point
             /\ soul'.basis \in Bases(t)
  <2>1. PICK basis \in Bases(t) :
          soul' = [row |-> soul.row, basis |-> basis,
                   seen |-> IF pc[t] = "complete" THEN req[t].answer ELSE req[t].point]
    BY <1>3 DEF Complete
  <2> QED
    BY <2>1
<1> QED
  BY <1>1, <1>2, <1>3

\* A task that another one's step, or what goes on around, leaves where it is or
\* kills.
LEMMA Bystanders ==
    ASSUME TypeInv, [Next]_vars
    PROVE  \/ \E t \in Tasks :
                 /\ Request(t) \/ AcquireFails(t) \/ Work(t) \/ StoreFails(t) \/ Crash(t)
                 /\ \A u \in Tasks \ {t} : pc'[u] = pc[u] /\ req'[u] = req[u] /\ Rows(u)
           \/ /\ UNCHANGED <<items, soul>>
              /\ \A u \in Tasks :
                    pc'[u] \in {pc[u], "dead"} /\ req'[u] = req[u] /\ Rows(u)
<1>1. CASE Lapse \/ Restart \/ PeerWrites \/ UNCHANGED vars
  BY <1>1, AroundKept, RowsKept
<1>2. CASE \E t \in Tasks :
             Request(t) \/ AcquireFails(t) \/ Work(t) \/ StoreFails(t) \/ Crash(t)
  BY <1>2, OthersKept DEF Apart
<1> QED
  BY <1>1, <1>2 DEF Next

\* The entry a completion names stays the reply's until it is written.
LEMMA BasingStep ==
    ASSUME TypeInv, Paths, Basing, [Next]_vars
    PROVE  Basing'
<1>1. items \in Seq(Entries) /\ DOMAIN items = 1..Len(items) /\ Len(items) \in Nat
  BY DEF TypeInv, Stored
<1>2. Grown /\ items' \in Seq(Entries) /\ DOMAIN items' = 1..Len(items') /\ Len(items') \in Nat
  BY Grows, TypeStep DEF TypeInv, Stored
<1>3. ASSUME NEW u \in Tasks, pc'[u] \in {pc[u], "dead"}, req'[u] = req[u]
      PROVE  Based(u, pc[u], req[u], items)'
  <2> SUFFICES ASSUME pc'[u] = "complete"
               PROVE  /\ req[u].entry \in DOMAIN items'
                      /\ items'[req[u].entry] =
                            [kind |-> "message", ref |-> req[u].answer, by |-> u]
    BY <1>3 DEF Based
  <2>1. /\ req[u].entry \in DOMAIN items
        /\ items[req[u].entry] = [kind |-> "message", ref |-> req[u].answer, by |-> u]
    BY <1>3 DEF Basing, Based
  <2> QED
    BY <1>1, <1>2, <2>1 DEF Grown
<1>4. ASSUME NEW t \in Tasks, Arrives(t)
      PROVE  Based(t, pc[t], req[t], items)'
  <2> SUFFICES ASSUME pc'[t] = "complete"
               PROVE  /\ req'[t].entry \in DOMAIN items'
                      /\ items'[req'[t].entry] =
                            [kind |-> "message", ref |-> req'[t].answer, by |-> t]
    BY DEF Based
  <2>1. /\ Appends(t, "message", req[t].answer) /\ req'[t].entry = Len(items')
        /\ req'[t].answer = req[t].answer
    BY <1>4 DEF Arrives, Kept
  <2> QED
    BY <1>1, <1>2, <2>1, Appended DEF Appends
<1>5. ASSUME NEW t \in Tasks,
             Request(t) \/ AcquireFails(t) \/ Work(t) \/ StoreFails(t) \/ Crash(t)
      PROVE  Arrives(t)
  BY <1>5, ArrivesStep DEF Paths, PathAt
<1>6. \A u \in Tasks : Based(u, pc[u], req[u], items)'
  BY <1>3, <1>4, <1>5, Bystanders
<1> QED
  BY <1>6 DEF Basing

\* What the provider is to continue from is the last reply seen, whoever wrote
\* either and however turns overlapped.
THEOREM Continuation == Spec => []ContinuationMatchesSeen
<1>1. Init => Basing /\ ContinuationMatchesSeen
  <2> SUFFICES ASSUME Init PROVE Basing /\ ContinuationMatchesSeen
    OBVIOUS
  <2>1. soul.basis = 0 /\ \A t \in Tasks : pc[t] = "idle"
    BY DEF Init
  <2> QED
    BY <2>1 DEF Basing, Based, ContinuationMatchesSeen
<1>2. TypeInv /\ Paths /\ Basing /\ ContinuationMatchesSeen /\ [Next]_vars =>
        ContinuationMatchesSeen'
  <2> SUFFICES ASSUME TypeInv, Paths, Basing, ContinuationMatchesSeen, [Next]_vars,
                      soul'.basis # 0
               PROVE  items'[soul'.basis].kind = "message" /\ items'[soul'.basis].ref = soul'.seen
    BY DEF ContinuationMatchesSeen
  <2>1. /\ DOMAIN items = 1..Len(items) /\ Grown
        /\ soul.basis \in Nat /\ soul.basis <= Len(items) /\ Len(items) \in Nat
    BY Grows DEF TypeInv, Stored
  <2>2. CASE soul'.seen = soul.seen /\ soul'.basis = soul.basis
    BY <2>1, <2>2 DEF ContinuationMatchesSeen, Grown
  <2>3. ASSUME NEW t \in Tasks, Complete(t), soul'.basis \in Bases(t),
               soul'.seen = IF pc[t] = "complete" THEN req[t].answer ELSE req[t].point
        PROVE  items'[soul'.basis].kind = "message" /\ items'[soul'.basis].ref = soul'.seen
    <3>1. pc[t] = "complete" /\ soul'.basis = req[t].entry
      BY <2>3 DEF Bases
    <3>2. /\ req[t].entry \in DOMAIN items
          /\ items[req[t].entry] = [kind |-> "message", ref |-> req[t].answer, by |-> t]
      BY <3>1 DEF Basing, Based
    <3> QED
      BY <2>1, <2>3, <3>1, <3>2 DEF Grown
  <2> QED
    BY <2>2, <2>3, SoulMoves
<1>3. TypeInv /\ Paths /\ Basing /\ [Next]_vars => Basing'
  BY BasingStep
<1> QED
  BY <1>1, <1>2, <1>3, PathsInvariant, PTL DEF Spec

\* A child never starts ahead of its own ledger nor of its parent's entries.
THEOREM ChildrenWithin == Spec => []ChildWithinParent
<1>1. Init => ChildWithinParent
  BY DEF Init, ChildWithinParent, NoChild
<1>2. TypeInv /\ ChildWithinParent /\ [Next]_vars => ChildWithinParent'
  <2> SUFFICES ASSUME TypeInv, ChildWithinParent, [Next]_vars, NEW p \in ForkPoints
               PROVE  children'[p].seen <= children'[p].messages
                      /\ children'[p].basis <= Len(items')
    BY DEF ChildWithinParent
  <2>1. /\ children \in [ForkPoints -> [messages : Nat, seen : Nat, basis : Nat]]
        /\ Len(items) \in Nat /\ Len(items') \in Nat /\ Len(items) <= Len(items')
        /\ Len(ledger) \in Nat /\ soul.seen \in Nat /\ soul.basis \in Nat
        /\ soul.seen <= Len(ledger) /\ soul.basis <= Len(items)
    <3>1. Grown /\ TypeInv'
      BY Grows, TypeStep
    <3>2. Stored(ledger, items, soul, turns, children)
      BY DEF TypeInv
    <3>3. /\ children \in [ForkPoints -> [messages : Nat, seen : Nat, basis : Nat]]
          /\ soul \in [row : BOOLEAN, seen : Nat, basis : Nat]
          /\ soul.seen <= Len(ledger) /\ soul.basis <= Len(items)
          /\ ledger \in Seq(Messages) /\ items \in Seq(Entries)
      BY <3>2 DEF Stored
    <3>4. soul.seen \in Nat /\ soul.basis \in Nat
      BY <3>3
    <3>5. items' \in Seq(Entries) /\ Len(items) <= Len(items')
      BY <3>1 DEF TypeInv, Stored, Grown
    <3>6. Len(items) \in Nat /\ Len(items') \in Nat /\ Len(ledger) \in Nat
      BY <3>3, <3>5
    <3> QED
      BY <3>3, <3>4, <3>5, <3>6
  <2>2. UNCHANGED children \/ \E q \in ForkPoints : children' = [children EXCEPT ![q] = Child(q)]
    <3>1. ASSUME NEW t \in Tasks, Copy(t)
          PROVE  UNCHANGED children
                 \/ \E q \in ForkPoints : children' = [children EXCEPT ![q] = Child(q)]
      <4>1. CASE req[t].point \in ForkPoints
        BY <3>1, <4>1 DEF Copy
      <4>2. CASE req[t].point \notin ForkPoints
        BY <2>1, <3>1, <4>2 DEF Copy
      <4> QED
        BY <4>1, <4>2
    <3>2. CASE ~\E t \in Tasks : Copy(t)
      BY <3>2, StoresWritten DEF PeerWrites, Stores, AcquireSoul, AppendTrigger, RefTrigger,
         StartTurn, ToolCall, ToolResult, Answer, RefAnswer, Complete, Fail, AppendCompact, db
    <3> QED
      BY <3>1, <3>2
  <2>3. CASE children'[p] = children[p]
    BY <2>1, <2>3 DEF ChildWithinParent
  <2>4. CASE children'[p] = Child(p)
    <3>1. p \in Nat
      BY SessionTurnAssumption DEF ForkPoints
    <3>2. /\ Child(p).seen = Lesser(p, soul.seen) /\ Child(p).messages = Lesser(p, Len(ledger))
          /\ Child(p).basis \in {soul.basis, 0}
      BY DEF Child
    <3> QED
      BY <2>1, <2>4, <3>1, <3>2 DEF Lesser
  <2> QED
    BY <2>1, <2>2, <2>3, <2>4
<1> QED
  BY <1>1, <1>2, LockInvariant, PTL DEF Spec

\* How a compaction gets past its load.
LEMMA CompactMoves ==
    ASSUME TypeInv, NEW t \in Tasks,
           Request(t) \/ AcquireFails(t) \/ Work(t) \/ StoreFails(t) \/ Crash(t),
           pc'[t] \in {"c_soul", "c_start", "c_append", "c_complete"}
    PROVE  /\ soul'.seen = soul.seen
           /\ \/ pc[t] \in {"c_soul", "c_start", "c_append"} /\ req'[t] = req[t]
              \/ /\ pc[t] = "load"
                 /\ req'[t] = [req[t] EXCEPT
                       !.point = IF req[t].op = "hook" THEN @ ELSE Len(ledger)]
<1>1. /\ pc \in [Tasks -> Steps] /\ soul \in [row : BOOLEAN, seen : Nat, basis : Nat]
      /\ CompactSteps = {"load", "c_soul", "c_start", "c_append", "c_complete"}
  BY DEF TypeInv, Tasked, Stored, CompactSteps
<1>2. ASSUME NEW next, NEW r, Goes(t, next, r) \/ Answered(t, next, r)
      PROVE  pc'[t] = next /\ req'[t] = r
  <2>1. Moves(t, next, r) \/ Failed(t)
    BY <1>2, GoesMoves, AnsweredMoves
  <2> QED
    BY <1>1, <2>1, ErrorStep DEF Moves, Failed
<1>3. ~Errs(t)
  BY <1>1, ErrsMoves, ErrorStep DEF Failed, Moves
<1>4. CASE Load(t)
  <2>1. req'[t] = [req[t] EXCEPT !.point = IF req[t].op = "hook" THEN @ ELSE Len(ledger)]
    BY <1>2, <1>3, <1>4 DEF Load
  <2> QED
    BY <1>4, <2>1 DEF Load, db
<1>5. CASE AcquireSoul(t) \/ StartTurn(t) \/ AppendCompact(t)
  <2>1. pc[t] \in {"c_soul", "c_start", "c_append"} /\ req'[t] = req[t]
    BY <1>2, <1>5 DEF AcquireSoul, StartTurn, AppendCompact
  <2> QED
    BY <1>1, <1>5, <2>1 DEF AcquireSoul, StartTurn, AppendCompact
<1>6. ~(Request(t) \/ AcquireFails(t) \/ StoreFails(t) \/ Crash(t) \/ Acquire(t) \/ Busy(t)
        \/ Release(t) \/ ReleaseFails(t) \/ AppendLoses(t))
  BY <1>1, <1>3 DEF Request, AcquireFails, StoreFails, Crash, Acquire, FirstStep, Busy,
     Release, AfterRelease, ReleaseFails, AppendLoses
<1>7. ~(AppendTrigger(t) \/ ReadTrigger(t) \/ LoadTrigger(t) \/ RefTrigger(t)
        \/ Assemble(t) \/ Provide(t) \/ ToolCall(t) \/ Dispatch(t) \/ ToolResult(t))
  BY <1>2, <1>3 DEF AppendTrigger, ReadTrigger, LoadTrigger, RefTrigger, AppendMessageRef,
     Assemble, Provide, Continues, ToolCall, Dispatch, ToolResult
<1>8. ~(Answer(t) \/ ReadAnswer(t) \/ RefAnswer(t) \/ Complete(t) \/ Fail(t)
        \/ Hooks(t) \/ LoadParent(t) \/ LoadChild(t) \/ Copy(t))
  BY <1>2, <1>3 DEF Answer, ReadAnswer, RefAnswer, AppendMessageRef, Complete, Fail, Hooks,
     LoadParent, LoadChild, Copy
<1> QED
  BY <1>4, <1>5, <1>6, <1>7, <1>8 DEF Work

\* While leases are kept, a completion under way sees at least what was seen.
LEMMA AheadsStep ==
    ASSUME TypeInv, GuardExclusive, Paths, Aheads, [Next]_vars
    PROVE  Aheads'
<1> SUFFICES ASSUME ~MayLose, NEW u \in Tasks
             PROVE  Ahead(pc[u], req[u], soul.seen)'
  BY DEF Aheads
<1>1. Ahead(pc[u], req[u], soul.seen)
  BY DEF Aheads
<1>2. /\ soul \in [row : BOOLEAN, seen : Nat, basis : Nat] /\ soul.seen <= Len(ledger)
      /\ Len(ledger) \in Nat /\ req[u] \in Requests /\ req'[u] \in Requests
  BY TypeStep DEF TypeInv, Tasked, Stored
<1>3. {"answer_ref", "complete"} \union CompactSteps \subseteq LockedSteps
  BY DEF LockedSteps, SendSteps, BodySteps
<1>4. CASE UNCHANGED soul /\ pc'[u] \in {pc[u], "dead"} /\ req'[u] = req[u]
  BY <1>1, <1>4 DEF Ahead
<1>5. ASSUME NEW t \in Tasks, t # u, pc'[u] = pc[u], req'[u] = req[u],
             Request(t) \/ AcquireFails(t) \/ Work(t) \/ StoreFails(t) \/ Crash(t)
      PROVE  Ahead(pc[u], req[u], soul.seen)'
  <2>1. CASE pc[t] \in LockedSteps
    <3>1. pc'[u] \notin LockedSteps
      BY <1>5, <2>1, OthersOutside
    <3> QED
      BY <1>3, <3>1 DEF Ahead, CompactSteps
  <2>2. CASE pc[t] \notin LockedSteps
    BY <1>4, <1>5, <2>2, OutsideKept
  <2> QED
    BY <2>1, <2>2
<1>6. ASSUME Request(u) \/ AcquireFails(u) \/ Work(u) \/ StoreFails(u) \/ Crash(u)
      PROVE  Ahead(pc[u], req[u], soul.seen)'
  <2>1. Arrives(u)
    BY <1>6, ArrivesStep DEF Paths, PathAt
  <2>2. pc'[u] \in {"answer_ref", "complete"} => soul'.seen <= req'[u].answer
    <3>1. CASE pc'[u] = "answer_ref"
      BY <1>2, <2>1, <3>1 DEF Arrives, Requests
    <3>2. CASE pc'[u] = "complete"
      BY <1>1, <2>1, <3>2 DEF Arrives, Kept, Ahead
    <3> QED
      BY <3>1, <3>2
  <2>3. ASSUME pc'[u] \in {"c_soul", "c_start", "c_append", "c_complete"}, req'[u].op = "compact"
        PROVE  soul'.seen <= req'[u].point
    <3>1. /\ soul'.seen = soul.seen
          /\ \/ pc[u] \in {"c_soul", "c_start", "c_append"} /\ req'[u] = req[u]
             \/ pc[u] = "load" /\ req'[u] = [req[u] EXCEPT
                     !.point = IF req[u].op = "hook" THEN @ ELSE Len(ledger)]
      BY <1>6, <2>3, CompactMoves
    <3> QED
      BY <1>1, <1>2, <2>3, <3>1 DEF Ahead, Requests
  <2> QED
    BY <2>2, <2>3 DEF Ahead
<1> QED
  BY <1>4, <1>5, <1>6, Bystanders


\* last_seen_session_seq goes back only when a hook's compaction, which runs with
\* the lock released, comes after a later turn: every other completion happens
\* under the lock, past what was seen when it took its number.
THEOREM SeenAdvances == Spec => SeenRegressesOnlyByHook
<1>1. Init => Aheads
  BY DEF Init, Aheads, Ahead
<1>2. TypeInv /\ GuardExclusive /\ Paths /\ Aheads /\ [Next]_vars => Aheads'
  BY AheadsStep
<1>3. TypeInv /\ Aheads /\ [Next]_vars =>
        (~MayLose /\ soul'.seen < soul.seen =>
            \E t \in Tasks : pc[t] = "c_complete" /\ req[t].op = "hook")
  <2> SUFFICES ASSUME TypeInv, Aheads, [Next]_vars, ~MayLose, soul'.seen < soul.seen
               PROVE  \E t \in Tasks : pc[t] = "c_complete" /\ req[t].op = "hook"
    OBVIOUS
  <2>1. soul.seen \in Nat
    BY DEF TypeInv, Stored
  <2>2. PICK t \in Tasks :
          /\ Complete(t)
          /\ soul'.seen = IF pc[t] = "complete" THEN req[t].answer ELSE req[t].point
    BY <2>1, SoulMoves
  <2>3. Ahead(pc[t], req[t], soul.seen) /\ pc[t] \in {"complete", "c_complete"}
    BY <2>2 DEF Aheads, Complete
  <2>4. /\ req[t].answer \in Nat /\ req[t].point \in Nat
        /\ pc[t] = "c_complete" => req[t].op \in {"compact", "hook"}
    BY DEF TypeInv, Tasked, Requests, CompactSteps
  <2>5. CASE pc[t] = "complete"
    BY <2>1, <2>2, <2>3, <2>4, <2>5 DEF Ahead
  <2>6. CASE pc[t] = "c_complete" /\ req[t].op = "compact"
    BY <2>1, <2>2, <2>3, <2>4, <2>6 DEF Ahead
  <2> QED
    BY <2>3, <2>4, <2>5, <2>6
<1>4. TypeInv /\ Aheads /\ [Next]_vars =>
        [~MayLose /\ soul'.seen < soul.seen =>
            \E t \in Tasks : pc[t] = "c_complete" /\ req[t].op = "hook"]_vars
  BY <1>3
<1> QED
  BY <1>1, <1>2, <1>4, PathsInvariant, PTL DEF Spec, SeenRegressesOnlyByHook

---------------------------------------------------------------------------
(* What a request that is answered Ok has left in the ledgers.              *)

\* A referenced message stays referenced.
LEMMA StaysReferenced ==
    ASSUME TypeInv, TypeInv', Grown, NEW m, IsReferenced(items, m)
    PROVE  IsReferenced(items', m)
<1>1. /\ DOMAIN items = 1..Len(items) /\ DOMAIN items' = 1..Len(items')
      /\ Len(items) \in Nat /\ Len(items') \in Nat
  BY DEF TypeInv, Stored
<1> QED
  BY <1>1 DEF IsReferenced, Grown

\* The message of an entry that was just appended is referenced.
LEMMA NowReferenced ==
    ASSUME TypeInv, NEW t \in Tasks, NEW m, Appends(t, "message", m)
    PROVE  IsReferenced(items', m)
<1>1. items \in Seq(Entries)
  BY DEF TypeInv, Stored
<1>2. /\ Len(items) + 1 \in DOMAIN items'
      /\ items'[Len(items) + 1] = [kind |-> "message", ref |-> m, by |-> t]
  BY <1>1, Appended DEF Appends
<1> QED
  BY <1>2 DEF IsReferenced

\* What a task has of its reply stays what it is.
LEMMA StaysReplied ==
    ASSUME TypeInv, Grown, NEW t \in Tasks, Replied(t, req[t], ledger),
           req'[t].snap = req[t].snap, req'[t].answer = req[t].answer
    PROVE  Replied(t, req'[t], ledger')
<1>1. /\ DOMAIN ledger = 1..Len(ledger) /\ Len(ledger) \in Nat
      /\ req[t].answer \in Nat /\ req[t].snap \in Nat /\ req[t].answer <= Len(ledger)
  BY DEF TypeInv, Tasked, Stored, Within, Requests
<1>2. req[t].answer \in DOMAIN ledger /\ ledger[req[t].answer].fixed
  BY <1>1 DEF Replied
<1> QED
  BY <1>2 DEF Replied, Grown

\* Every step keeps what is known of the records, in the hosted ledgers.
LEMMA RecordsStep ==
    ASSUME TypeInv, Budget, Paths, Records, [Next]_vars
    PROVE  Records'
<1> SUFFICES ASSUME ~Standalone, NEW u \in Tasks
             PROVE  Recorded(u, pc[u], req[u], Main(u), ledger, items)'
  BY DEF Records
<1>1. Recorded(u, pc[u], req[u], Main(u), ledger, items)
  BY DEF Records
<1>2. TypeInv' /\ Grown
  BY TypeStep, Grows
<1>3. /\ req[u] \in Requests /\ req'[u] \in Requests /\ Within(req[u], Len(ledger), Len(items))
      /\ Len(ledger) \in Nat /\ ledger \in Seq(Messages)
  BY <1>2 DEF TypeInv, Tasked, Stored
<1>4. CASE pc'[u] \in {pc[u], "dead"} /\ req'[u] = req[u] /\ Rows(u)
  <2>1. Main(u)' = Main(u)
    BY <1>4 DEF Rows
  <2>2. Replied(u, req[u], ledger) => Replied(u, req'[u], ledger')
    BY <1>2, <1>4, StaysReplied
  <2>3. \A m : IsReferenced(items, m) => IsReferenced(items', m)
    BY <1>2, StaysReferenced
  <2> QED
    BY <1>1, <1>4, <2>1, <2>2, <2>3 DEF Recorded, BodySteps
<1>5. ASSUME Request(u) \/ AcquireFails(u) \/ Work(u) \/ StoreFails(u) \/ Crash(u)
      PROVE  Recorded(u, pc[u], req[u], Main(u), ledger, items)'
  <2>1. Arrives(u) /\ Writes(u) /\ PathAt(u) /\ PathAt(u)'
    <3>1. PathAt(u) /\ PathAt(u)'
      BY PathsStep DEF Paths, PathAt
    <3> QED
      BY <1>5, <3>1, ArrivesStep, WritesStep
  <2>2. \A m : IsReferenced(items, m) => IsReferenced(items', m)
    BY <1>2, StaysReferenced
  <2>3. pc'[u] \notin {"trigger_read", "answer_read"}
    BY <2>1 DEF Arrives
  <2>4. pc'[u] \in {"assemble", "start"} \union BodySteps => IsReferenced(items', req'[u].trig)
    <3>1. CASE pc'[u] = "assemble"
      BY <2>1, <3>1, NowReferenced DEF Arrives, Kept
    <3>2. CASE pc'[u] = "start"
      BY <1>1, <2>1, <2>2, <3>2 DEF Arrives, Recorded
    <3>3. CASE pc'[u] \in BodySteps
      <4>1. pc[u] \in {"start"} \union BodySteps /\ req'[u].trig = req[u].trig
        BY <2>1, <2>3, <3>3 DEF Arrives, Kept, BodySteps
      <4> QED
        BY <1>1, <2>2, <4>1 DEF Recorded
    <3> QED
      BY <3>1, <3>2, <3>3
  <2>5. pc'[u] \in {"start"} \union BodySteps => req'[u].trig <= req'[u].snap
    <3>1. CASE pc'[u] = "start"
      BY <1>3, <2>1, <3>1 DEF Arrives, Within
    <3>2. CASE pc'[u] \in BodySteps
      <4>1. /\ pc[u] \in {"start"} \union BodySteps
            /\ req'[u].trig = req[u].trig /\ req'[u].snap = req[u].snap
        BY <2>1, <2>3, <3>2 DEF Arrives, Kept, BodySteps
      <4> QED
        BY <1>1, <4>1 DEF Recorded
    <3> QED
      BY <3>1, <3>2
  <2>6. pc'[u] \in {"answer_ref", "complete"} => Replied(u, req'[u], ledger')
    <3>1. CASE pc'[u] = "answer_ref"
      <4>1. pc[u] = "answer"
        BY <1>1, <2>1, <3>1 DEF Arrives, Recorded
      <4>2. /\ ledger' = Append(ledger, [by |-> u, fixed |-> TRUE])
            /\ req'[u].answer = Len(ledger') /\ req'[u].snap = req[u].snap
        BY <2>1, <3>1, <4>1 DEF Arrives
      <4>3. /\ ledger'[Len(ledger) + 1] = [by |-> u, fixed |-> TRUE]
            /\ Len(ledger') = Len(ledger) + 1
        BY <1>3, <4>2, Appended
      <4>4. req[u].snap <= Len(ledger) /\ req[u].snap \in Nat
        BY <1>3 DEF Within, Requests
      <4> QED
        BY <1>3, <4>2, <4>3, <4>4 DEF Replied
    <3>2. CASE pc'[u] = "complete"
      <4>1. pc[u] = "answer_ref" /\ Kept(u)
        BY <2>1, <3>2 DEF Arrives
      <4> QED
        BY <1>1, <1>2, <4>1, StaysReplied DEF Kept, Recorded
    <3> QED
      BY <3>1, <3>2
  <2>7. pc'[u] = "complete" => IsReferenced(items', req'[u].answer)
    BY <2>1, NowReferenced DEF Arrives, Kept
  <2>8. ASSUME req'[u].verdict = "ok", req'[u].trig > 0
        PROVE  /\ Main(u)'.status = "completed"
               /\ req'[u].trig <= req'[u].snap /\ Replied(u, req'[u], ledger')
               /\ IsReferenced(items', req'[u].trig) /\ IsReferenced(items', req'[u].answer)
    <3>1. pc'[u] \in {"release", "hooks", "done", "dead"} \/ req'[u].op = "hook"
      BY <2>1, <2>8 DEF PathAt, Path
    <3>2. Kept(u)
      BY <2>1, <3>1 DEF PathAt, Path, Arrives, CompactSteps
    <3>3. CASE req[u].verdict = "ok"
      <4>1. Main(u)' = Main(u)
        BY <2>1, <3>3 DEF PathAt, Path, Writes, Rows, CompactSteps
      <4> QED
        BY <1>1, <1>2, <2>2, <2>8, <3>2, <3>3, <4>1, StaysReplied DEF Kept, Recorded
    <3>4. CASE pc[u] = "complete" /\ Main(u)'.status = "completed"
      BY <1>1, <1>2, <2>2, <2>8, <3>2, <3>4, StaysReplied DEF Kept, Recorded, BodySteps
    <3>5. ~(pc[u] \in {"c_complete"} \union ForkSteps /\ req[u].op # "hook")
      <4>1. req[u].trig > 0 /\ req[u].trig \in Nat
        BY <1>3, <2>8, <3>2 DEF Kept, Requests
      <4>2. req[u].op \in {"send", "reply", "hook"}
        BY <2>1, <4>1 DEF PathAt, Path
      <4>3. /\ pc[u] = "c_complete" => req[u].op \in {"compact", "hook"}
            /\ pc[u] \in ForkSteps => req[u].op = "fork"
        BY <2>1 DEF PathAt, Path, TypeInv, Tasked, CompactSteps
      <4> QED
        BY <4>2, <4>3
    <3> QED
      BY <2>1, <2>8, <3>3, <3>4, <3>5 DEF Writes
  <2> QED
    BY <2>3, <2>4, <2>5, <2>6, <2>7, <2>8 DEF Recorded
<1> QED
  BY <1>4, <1>5, Bystanders

\* A request that the hosted service answers Ok has left what it says: its turn
\* completed, its trigger among what the provider was shown, its own fixed reply
\* after that, and both referenced; whatever peers wrote, leases lapsed or calls
\* failed on the way.
THEOREM OkRecorded == Spec => []OkMeansRecorded
<1>1. Init => Records
  <2> SUFFICES ASSUME Init, NEW t \in Tasks
               PROVE  Recorded(t, pc[t], req[t], Main(t), ledger, items)
    BY DEF Records
  <2>1. pc[t] = "idle" /\ req[t].verdict = "none"
    BY DEF Init, NoRequest
  <2> QED
    BY <2>1 DEF Recorded, BodySteps
<1>2. TypeInv /\ Budget /\ Paths /\ Records /\ [Next]_vars => Records'
  BY RecordsStep
<1>3. Records => OkMeansRecorded
  <2> SUFFICES ASSUME Records, ~Standalone, NEW t \in Tasks,
                      req[t].verdict = "ok", req[t].trig > 0
               PROVE  /\ turns[<<t, "main">>].status = "completed"
                      /\ req[t].trig <= req[t].snap /\ req[t].snap < req[t].answer
                      /\ ledger[req[t].answer] = [by |-> t, fixed |-> TRUE]
                      /\ Referenced(req[t].trig) /\ Referenced(req[t].answer)
    BY DEF OkMeansRecorded
  <2> QED
    BY DEF Records, Recorded, Replied, IsReferenced, Referenced, Main
<1> QED
  BY <1>1, <1>2, <1>3, PathsInvariant, PTL DEF Spec

---------------------------------------------------------------------------
(* The entries of a turn.                                                   *)

\* What is in the entries stays there.
LEMMA StaysCalled ==
    ASSUME TypeInv, TypeInv', Grown, NEW t \in Tasks, NEW base \in Nat, NEW k \in Nat,
           Called(items, t, req[t], base, k), req'[t].trig = req[t].trig
    PROVE  Called(items', t, req'[t], base, k)
<1>1. /\ DOMAIN items = 1..Len(items) /\ DOMAIN items' = 1..Len(items')
      /\ Len(items) \in Nat /\ Len(items') \in Nat /\ Len(items) <= Len(items')
      /\ base \in 1..Len(items) /\ base + 2 * k <= Len(items)
  BY DEF TypeInv, Stored, Grown, Called
<1>2. ASSUME NEW c \in 1..k
      PROVE  base + 2 * c - 1 \in DOMAIN items /\ base + 2 * c \in DOMAIN items
  BY <1>1
<1>3. \A j \in DOMAIN items : items'[j] = items[j]
  BY DEF Grown
<1>4. base \in 1..Len(items') /\ base + 2 * k <= Len(items')
  BY <1>1
<1>5. items'[base] = [kind |-> "message", ref |-> req'[t].trig, by |-> t]
  BY <1>1, <1>3 DEF Called
<1>6. ASSUME NEW c \in 1..k
      PROVE  /\ items'[base + 2 * c - 1] = [kind |-> "call", ref |-> c, by |-> t]
             /\ items'[base + 2 * c] = [kind |-> "result", ref |-> c, by |-> t]
  BY <1>2, <1>3 DEF Called
<1> QED
  BY <1>4, <1>5, <1>6 DEF Called

\* A call's result, or a reply, follows what was there.
LEMMA CallsGrow ==
    ASSUME TypeInv, TypeInv', Grown, NEW t \in Tasks, NEW base \in Nat,
           NEW k \in Nat \ {0},
           Called(items, t, req[t], base, k - 1), Len(items) = base + 2 * k - 1,
           items[Len(items)] = [kind |-> "call", ref |-> k, by |-> t],
           Appends(t, "result", k), req'[t].trig = req[t].trig
    PROVE  Called(items', t, req'[t], base, k) /\ Len(items') = base + 2 * k
<1>1. /\ items \in Seq(Entries) /\ DOMAIN items = 1..Len(items) /\ Len(items) \in Nat
  BY DEF TypeInv, Stored
<1>2. /\ Len(items') = Len(items) + 1
      /\ items'[Len(items) + 1] = [kind |-> "result", ref |-> k, by |-> t]
      /\ items'[Len(items)] = [kind |-> "call", ref |-> k, by |-> t]
      /\ base \in 1..Len(items)
  <2>1. base \in 1..Len(items)
    BY DEF Called
  <2>2. Len(items) \in DOMAIN items
    BY <1>1, <2>1
  <2> DEFINE e == [kind |-> "result", ref |-> k, by |-> t]
  <2>3. items' = Append(items, e)
    BY DEF Appends
  <2> HIDE DEF e
  <2>4. /\ Len(Append(items, e)) = Len(items) + 1 /\ Append(items, e)[Len(items) + 1] = e
        /\ \A j \in DOMAIN items : Append(items, e)[j] = items[j]
    <3>1. items \in Seq(Entries)
      BY <1>1
    <3> QED
      BY ONLY <3>1, Appended
  <2>5. /\ Len(items') = Len(items) + 1 /\ items'[Len(items) + 1] = e
        /\ items'[Len(items)] = items[Len(items)]
    BY <2>2, <2>3, <2>4
  <2> QED
    BY <2>1, <2>5 DEF e
<1>3. Called(items', t, req'[t], base, k - 1)
  BY StaysCalled
<1>4. ASSUME NEW c \in 1..k
      PROVE  /\ items'[base + 2 * c - 1] = [kind |-> "call", ref |-> c, by |-> t]
             /\ items'[base + 2 * c] = [kind |-> "result", ref |-> c, by |-> t]
  <2>1. CASE c = k
    <3>1. base + 2 * c - 1 = Len(items) /\ base + 2 * c = Len(items) + 1
      BY <1>1, <2>1
    <3> QED
      BY <1>2, <2>1, <3>1
  <2>2. CASE c \in 1..(k - 1)
    BY <1>3, <2>2 DEF Called
  <2> QED
    BY <2>1, <2>2
<1>5. /\ base \in 1..Len(items') /\ Len(items') = base + 2 * k
      /\ base + 2 * k <= Len(items')
  BY <1>1, <1>2
<1>6. items'[base] = [kind |-> "message", ref |-> req'[t].trig, by |-> t]
  BY <1>3 DEF Called
<1> QED
  BY <1>4, <1>5, <1>6 DEF Called

\* Every step keeps what is known of a turn's entries while leases are kept.
LEMMA ContiguityStep ==
    ASSUME TypeInv, GuardExclusive, Budget, Paths, Contiguity, [Next]_vars
    PROVE  Contiguity'
<1> SUFFICES ASSUME ~MayLose, NEW u \in Tasks
             PROVE  Contiguous(u, pc[u], req[u], Main(u), items)'
  BY DEF Contiguity
<1>1. Contiguous(u, pc[u], req[u], Main(u), items)
  BY DEF Contiguity
<1>2. TypeInv' /\ Grown
  BY TypeStep, Grows
<1>3. /\ req[u] \in Requests /\ req[u].calls \in Nat /\ req[u].trig \in Nat
      /\ items \in Seq(Entries) /\ DOMAIN items = 1..Len(items) /\ Len(items) \in Nat
      /\ DOMAIN items' = 1..Len(items') /\ Len(items') \in Nat
      /\ Main(u) \in Turns /\ Main(u).base \in Nat /\ Main(u).end \in Nat
  <2>1. Main(u) \in Turns
    BY DEF TypeInv, Stored, TurnIds, Main
  <2>2. Main(u).base \in Nat /\ Main(u).end \in Nat
    BY <2>1 DEF Turns
  <2>3. req[u] \in Requests
    BY DEF TypeInv, Tasked
  <2>4. req[u].calls \in Nat /\ req[u].trig \in Nat
    BY <2>3 DEF Requests
  <2>5. items \in Seq(Entries) /\ items' \in Seq(Entries)
    BY <1>2 DEF TypeInv, Stored
  <2>6. /\ DOMAIN items = 1..Len(items) /\ Len(items) \in Nat
        /\ DOMAIN items' = 1..Len(items') /\ Len(items') \in Nat
    BY <2>5
  <2> QED
    BY <2>1, <2>2, <2>3, <2>4, <2>5, <2>6
<1>4. /\ LockedSteps = {"soul", "trigger", "trigger_read", "ref", "assemble", "provider",
                        "call", "dispatch", "result", "answer", "answer_read", "answer_ref",
                        "complete", "start", "fail", "release"} \union CompactSteps
                        \union ForkSteps
      /\ StartupSteps = {"soul", "trigger", "trigger_read", "ref", "assemble"}
      /\ BodySteps = {"provider", "call", "dispatch", "result",
                      "answer", "answer_read", "answer_ref", "complete"}
  BY DEF LockedSteps, SendSteps, StartupSteps, BodySteps
\* A completed turn's entries stay where they are.
<1>5. ASSUME Main(u)' = Main(u), Main(u).status = "completed", req'[u].trig > 0, Kept(u)
      PROVE  /\ Called(items', u, req'[u], Main(u)'.base, req'[u].calls)
             /\ Main(u)'.end = Main(u)'.base + 2 * req'[u].calls + 1
             /\ Main(u)'.end <= Len(items')
             /\ items'[Main(u)'.end] = [kind |-> "message", ref |-> req'[u].answer, by |-> u]
  <2>1. /\ Called(items, u, req[u], Main(u).base, req[u].calls)
        /\ Main(u).end = Main(u).base + 2 * req[u].calls + 1
        /\ Main(u).end <= Len(items)
        /\ items[Main(u).end] = [kind |-> "message", ref |-> req[u].answer, by |-> u]
    BY <1>1, <1>5 DEF Contiguous, Kept
  <2>2. Called(items', u, req'[u], Main(u).base, req[u].calls)
    BY <1>2, <1>3, <1>5, <2>1, StaysCalled DEF Kept
  <2>3. Main(u).end \in DOMAIN items /\ Len(items) <= Len(items')
    BY <1>2, <1>3, <2>1 DEF Grown
  <2>4. items'[Main(u).end] = items[Main(u).end]
    BY <1>2, <2>3 DEF Grown
  <2>5. Main(u).end <= Len(items')
    BY <1>3, <2>1, <2>3
  <2> QED
    BY <1>5, <2>1, <2>2, <2>4, <2>5 DEF Kept
<1>6. ASSUME pc'[u] \in {pc[u], "dead"}, req'[u] = req[u], Rows(u),
             items' = items \/ pc'[u] \notin LockedSteps
      PROVE  Contiguous(u, pc[u], req[u], Main(u), items)'
  <2>1. Main(u)' = Main(u) /\ Kept(u)
    BY <1>6 DEF Rows, Kept
  <2>2. CASE pc'[u] = pc[u] /\ items' = items
    BY <1>1, <1>6, <2>1, <2>2 DEF Contiguous
  <2>3. CASE pc'[u] \notin LockedSteps
    <3>1. pc'[u] = "lock" => pc[u] = "lock"
      BY <1>6
    <3> QED
      BY <1>1, <1>4, <1>5, <1>6, <2>1, <2>3, <3>1 DEF Contiguous
  <2>4. CASE pc'[u] = "dead"
    BY <1>4, <2>3, <2>4 DEF CompactSteps, ForkSteps
  <2> QED
    BY <1>6, <2>2, <2>3, <2>4
<1>7. ASSUME NEW t \in Tasks, t # u, pc'[u] = pc[u], req'[u] = req[u], Rows(u),
             Request(t) \/ AcquireFails(t) \/ Work(t) \/ StoreFails(t) \/ Crash(t)
      PROVE  Contiguous(u, pc[u], req[u], Main(u), items)'
  BY <1>6, <1>7, OthersOutside, OutsideKept
<1>8. ASSUME Request(u) \/ AcquireFails(u) \/ Work(u) \/ StoreFails(u) \/ Crash(u)
      PROVE  Contiguous(u, pc[u], req[u], Main(u), items)'
  <2>1. PathAt(u) /\ PathAt(u)' /\ Arrives(u) /\ Writes(u)
    <3>1. PathAt(u) /\ PathAt(u)'
      BY PathsStep DEF Paths, PathAt
    <3> QED
      BY <1>8, <3>1, ArrivesStep, WritesStep
  <2>2. ASSUME pc'[u] \in {"lock", "start"} \union StartupSteps, req'[u].op # "hook"
        PROVE  req'[u].calls = 0
    <3>1. CASE pc[u] = "idle"
      <4>1. req[u].calls = 0 /\ pc'[u] = "lock"
        BY <1>4, <2>1, <2>2, <3>1 DEF PathAt, Path, NoRequest, Arrives
      <4> QED
        BY <2>1, <4>1 DEF Arrives, Kept
    <3>2. CASE pc[u] # "idle"
      <4>1. /\ pc[u] \in {"lock", "start"} \union StartupSteps
            /\ req'[u].op = req[u].op /\ req'[u].calls = req[u].calls
        BY <1>4, <2>1, <2>2, <3>2 DEF Arrives, Kept
      <4> QED
        BY <1>1, <2>2, <4>1 DEF Contiguous
    <3> QED
      BY <3>1, <3>2
  <2>3. pc'[u] \in {"assemble", "start"} =>
          /\ Len(items') > 0
          /\ items'[Len(items')] = [kind |-> "message", ref |-> req'[u].trig, by |-> u]
    <3>1. CASE pc'[u] = "assemble"
      <4>1. Appends(u, "message", req[u].trig) /\ req'[u].trig = req[u].trig
        BY <2>1, <3>1 DEF Arrives, Kept
      <4> QED
        BY <1>3, <4>1, Appended DEF Appends
    <3>2. CASE pc'[u] = "start"
      BY <1>1, <2>1, <3>2 DEF Arrives, Contiguous
    <3> QED
      BY <3>1, <3>2
  <2>4. pc[u] \in BodySteps \ {"complete"} => Main(u)' = Main(u)
    BY <1>4, <2>1 DEF Writes, Rows
  <2>5. pc'[u] \in {"provider", "call", "answer", "answer_read", "answer_ref"} =>
          /\ Called(items', u, req'[u], Main(u)'.base, req'[u].calls)
          /\ Len(items') = Main(u)'.base + 2 * req'[u].calls
    <3>1. CASE pc[u] = "start" /\ pc'[u] = "provider"
      <4>1. items' = items /\ req'[u].calls = req[u].calls /\ req'[u].trig = req[u].trig
        BY <2>1, <3>1 DEF Arrives, Kept
      <4>2. Main(u)'.base = Len(items)
        BY <2>1, <3>1 DEF Writes
      <4>3. req[u].op # "hook"
        BY <2>1, <3>1 DEF PathAt, Path, SendSteps
      <4>4. /\ req[u].calls = 0 /\ Len(items) > 0
            /\ items[Len(items)] = [kind |-> "message", ref |-> req[u].trig, by |-> u]
        BY <1>1, <3>1, <4>3 DEF Contiguous
      <4> QED
        BY <1>3, <4>1, <4>2, <4>4 DEF Called
    <3>2. CASE pc[u] = "result" /\ pc'[u] \in {"provider", "call"}
      <4>1. Appends(u, "result", req[u].calls) /\ Kept(u) /\ Main(u)' = Main(u)
        BY <1>4, <2>1, <2>4, <3>2 DEF Arrives
      <4>2. /\ req[u].calls > 0
            /\ Called(items, u, req[u], Main(u).base, req[u].calls - 1)
            /\ Len(items) = Main(u).base + 2 * req[u].calls - 1
            /\ items[Len(items)] = [kind |-> "call", ref |-> req[u].calls, by |-> u]
        BY <1>1, <3>2 DEF Contiguous
      <4>3. req[u].calls \in Nat \ {0}
        BY <1>3, <4>2
      <4>4. /\ Called(items', u, req'[u], Main(u).base, req[u].calls)
            /\ Len(items') = Main(u).base + 2 * req[u].calls
        BY <1>2, <1>3, <4>1, <4>2, <4>3, CallsGrow DEF Kept
      <4> QED
        BY <4>1, <4>4 DEF Kept
    <3>3. CASE /\ pc'[u] \in {"call", "answer", "answer_read", "answer_ref"}
               /\ pc[u] \in {"provider", "answer", "answer_read"}
      <4>1. /\ items' = items /\ Main(u)' = Main(u)
            /\ req'[u].calls = req[u].calls /\ req'[u].trig = req[u].trig
        BY <1>4, <2>1, <2>4, <3>3 DEF Arrives, Kept
      <4>2. /\ Called(items, u, req[u], Main(u).base, req[u].calls)
            /\ Len(items) = Main(u).base + 2 * req[u].calls
        BY <1>1, <3>3 DEF Contiguous
      <4> QED
        BY <4>1, <4>2 DEF Called
    <3> QED
      BY <2>1, <3>1, <3>2, <3>3 DEF Arrives
  <2>6. pc'[u] \in {"dispatch", "result"} =>
          /\ req'[u].calls > 0
          /\ Called(items', u, req'[u], Main(u)'.base, req'[u].calls - 1)
          /\ Len(items') = Main(u)'.base + 2 * req'[u].calls - 1
          /\ items'[Len(items')] = [kind |-> "call", ref |-> req'[u].calls, by |-> u]
    <3>1. CASE pc'[u] = "dispatch"
      <4>1. /\ pc[u] = "call" /\ Appends(u, "call", req[u].calls + 1)
            /\ req'[u].trig = req[u].trig /\ req'[u].calls = req[u].calls + 1
        BY <2>1, <3>1 DEF Arrives
      <4>2. Main(u)' = Main(u)
        BY <1>4, <2>4, <4>1
      <4>3. /\ Called(items, u, req[u], Main(u).base, req[u].calls)
            /\ Len(items) = Main(u).base + 2 * req[u].calls
        BY <1>1, <4>1 DEF Contiguous
      <4>4. Called(items', u, req'[u], Main(u).base, req[u].calls)
        BY <1>2, <1>3, <4>1, <4>3, StaysCalled
      <4>5. /\ Len(items') = Len(items) + 1
            /\ items'[Len(items) + 1] =
                  [kind |-> "call", ref |-> req[u].calls + 1, by |-> u]
        BY <1>3, <4>1, Appended DEF Appends
      <4>6. /\ req'[u].calls > 0 /\ req'[u].calls - 1 = req[u].calls
            /\ Len(items') = Main(u).base + 2 * req'[u].calls - 1
        <5>1. req[u].calls \in Nat /\ Main(u).base \in Nat
          BY <1>3
        <5>2. Len(items') = (Main(u).base + 2 * req[u].calls) + 1
          BY <4>3, <4>5
        <5>3. req'[u].calls = req[u].calls + 1
          BY <4>1
        <5>4. \A b, n \in Nat : /\ n + 1 > 0 /\ (n + 1) - 1 = n
                                /\ (b + 2 * n) + 1 = b + 2 * (n + 1) - 1
          OBVIOUS
        <5>5. /\ req[u].calls + 1 > 0 /\ (req[u].calls + 1) - 1 = req[u].calls
              /\ (Main(u).base + 2 * req[u].calls) + 1 =
                    Main(u).base + 2 * (req[u].calls + 1) - 1
          BY <5>1, <5>4
        <5> QED
          BY <5>2, <5>3, <5>5
      <4>7. Called(items', u, req'[u], Main(u)'.base, req'[u].calls - 1)
        BY <4>2, <4>4, <4>6
      <4>8. items'[Len(items')] = [kind |-> "call", ref |-> req'[u].calls, by |-> u]
        BY <4>1, <4>5
      <4> QED
        BY <4>2, <4>6, <4>7, <4>8
    <3>2. CASE pc'[u] = "result"
      <4>1. pc[u] = "dispatch" /\ items' = items /\ Kept(u)
        BY <2>1, <3>2 DEF Arrives
      <4>2. Main(u)' = Main(u)
        BY <1>4, <2>4, <4>1
      <4> QED
        BY <1>1, <4>1, <4>2 DEF Contiguous, Kept, Called
    <3> QED
      BY <3>1, <3>2
  <2>7. pc'[u] = "complete" =>
          /\ Called(items', u, req'[u], Main(u)'.base, req'[u].calls)
          /\ Len(items') = Main(u)'.base + 2 * req'[u].calls + 1
          /\ items'[Len(items')] = [kind |-> "message", ref |-> req'[u].answer, by |-> u]
    <3> SUFFICES ASSUME pc'[u] = "complete"
                 PROVE  /\ Called(items', u, req'[u], Main(u)'.base, req'[u].calls)
                        /\ Len(items') = Main(u)'.base + 2 * req'[u].calls + 1
                        /\ items'[Len(items')] =
                              [kind |-> "message", ref |-> req'[u].answer, by |-> u]
      OBVIOUS
    <3>1. pc[u] = "answer_ref" /\ Appends(u, "message", req[u].answer) /\ Kept(u)
      BY <2>1 DEF Arrives
    <3>2. Main(u)' = Main(u)
      BY <1>4, <2>4, <3>1
    <3>3. /\ Called(items, u, req[u], Main(u).base, req[u].calls)
          /\ Len(items) = Main(u).base + 2 * req[u].calls
      BY <1>1, <3>1 DEF Contiguous
    <3>4. Called(items', u, req'[u], Main(u).base, req[u].calls)
      BY <1>2, <1>3, <3>1, <3>3, StaysCalled DEF Kept
    <3>5. /\ Len(items') = Len(items) + 1
          /\ items'[Len(items) + 1] = [kind |-> "message", ref |-> req[u].answer, by |-> u]
      BY <1>3, <3>1, Appended DEF Appends
    <3> QED
      BY <1>3, <3>1, <3>2, <3>3, <3>4, <3>5 DEF Kept
  <2>8. ASSUME Main(u)'.status = "completed", req'[u].trig > 0
        PROVE  /\ Called(items', u, req'[u], Main(u)'.base, req'[u].calls)
               /\ Main(u)'.end = Main(u)'.base + 2 * req'[u].calls + 1
               /\ Main(u)'.end <= Len(items')
               /\ items'[Main(u)'.end] = [kind |-> "message", ref |-> req'[u].answer, by |-> u]
    <3>1. pc'[u] \notin BodySteps \union StartupSteps \union {"start"}
      BY <2>1, <2>8 DEF PathAt, Path, SendSteps, StartupSteps, BodySteps
    <3>2. Kept(u)
      BY <1>4, <2>1, <3>1 DEF Arrives
    <3>3. CASE Main(u)' = Main(u)
      BY <1>5, <2>8, <3>2, <3>3
    <3>4. CASE /\ pc[u] = "complete" /\ items' = items
               /\ Main(u)'.base = Main(u).base /\ Main(u)'.end = Len(items)
      <4>1. /\ Called(items, u, req[u], Main(u).base, req[u].calls)
            /\ Len(items) = Main(u).base + 2 * req[u].calls + 1
            /\ items[Len(items)] = [kind |-> "message", ref |-> req[u].answer, by |-> u]
        BY <1>1, <3>4 DEF Contiguous
      <4> QED
        <5>1. req'[u].trig = req[u].trig /\ req'[u].calls = req[u].calls
              /\ req'[u].answer = req[u].answer
          BY <3>2 DEF Kept
        <5>2. Called(items', u, req'[u], Main(u)'.base, req'[u].calls)
          BY <3>4, <4>1, <5>1 DEF Called
        <5> QED
          BY <1>3, <3>4, <4>1, <5>1, <5>2
    <3>5. ~(pc[u] = "c_complete" /\ req[u].op # "hook")
      <4> SUFFICES ASSUME pc[u] = "c_complete", req[u].op # "hook" PROVE FALSE
        OBVIOUS
      <4>1. req[u].op = "compact"
        BY DEF TypeInv, Tasked, CompactSteps
      <4>2. req[u].trig = 0
        BY <2>1, <4>1 DEF PathAt, Path
      <4> QED
        BY <1>3, <2>8, <3>2, <4>2 DEF Kept
    <3> QED
      BY <2>1, <2>8, <3>3, <3>4, <3>5 DEF Writes, Rows
  <2> QED
    BY <2>2, <2>3, <2>5, <2>6, <2>7, <2>8 DEF Contiguous
<1> QED
  BY <1>6, <1>7, <1>8, Bystanders


\* The entries that a completed turn claims are its own and nobody else's: its
\* trigger, its calls each followed by its result, its reply; for any number of
\* tasks, calls, faults and writing peers, while leases are kept.
THEOREM EntriesContiguous == Spec => []TurnIsContiguous
<1>1. Init => Contiguity
  <2> SUFFICES ASSUME Init, NEW t \in Tasks
               PROVE  Contiguous(t, pc[t], req[t], Main(t), items)
    BY DEF Contiguity
  <2>1. pc[t] = "idle" /\ req[t].trig = 0
    BY DEF Init, NoRequest
  <2> QED
    BY <2>1 DEF Contiguous, StartupSteps
<1>2. TypeInv /\ GuardExclusive /\ Budget /\ Paths /\ Contiguity /\ [Next]_vars => Contiguity'
  BY ContiguityStep
<1>3. TypeInv /\ Contiguity => TurnIsContiguous
  <2> SUFFICES ASSUME TypeInv, Contiguity, ~MayLose, NEW t \in Tasks,
                      Main(t).status = "completed", req[t].trig > 0
               PROVE  /\ items[Main(t).base] =
                            [kind |-> "message", ref |-> req[t].trig, by |-> t]
                      /\ items[Main(t).end] =
                            [kind |-> "message", ref |-> req[t].answer, by |-> t]
                      /\ Main(t).end = Main(t).base + 2 * req[t].calls + 1
                      /\ \A c \in 1..req[t].calls :
                            /\ items[Main(t).base + (2 * c - 1)] =
                                  [kind |-> "call", ref |-> c, by |-> t]
                            /\ items[Main(t).base + 2 * c] =
                                  [kind |-> "result", ref |-> c, by |-> t]
    BY DEF TurnIsContiguous, Main
  <2>1. /\ Called(items, t, req[t], Main(t).base, req[t].calls)
        /\ Main(t).end = Main(t).base + 2 * req[t].calls + 1
        /\ items[Main(t).end] = [kind |-> "message", ref |-> req[t].answer, by |-> t]
    BY DEF Contiguity, Contiguous
  <2>2. Main(t).base \in Nat
    BY <2>1 DEF Called
  <2>3. \A c \in 1..req[t].calls : Main(t).base + (2 * c - 1) = Main(t).base + 2 * c - 1
    BY <2>2 DEF TypeInv, Tasked, Requests
  <2> QED
    BY <2>1, <2>3 DEF Called
<1> QED
  BY <1>1, <1>2, <1>3, PathsInvariant, PTL DEF Spec

===========================================================================
