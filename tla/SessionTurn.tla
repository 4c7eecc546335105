--------------------------- MODULE SessionTurn ---------------------------
(***************************************************************************)
(* The session services on one session: send and protocol reply            *)
(* (session/send), compact (session/compact.rs), fork (session/fork.rs) and *)
(* the compaction a turn.completed hook asks for, all under the session's   *)
(* lock, over the public ledger and the soul runtime they share.            *)
(*                                                                         *)
(* A task is one request.  Every awaited store call is a step of its own,   *)
(* so tasks, peers that write without the lock (stim envelopes), faults and *)
(* crashes interleave with them.  A store call may fail before it took      *)
(* effect or, over the network, after.                                      *)
(***************************************************************************)
EXTENDS Integers, Sequences, FiniteSets

CONSTANTS
    Tasks,         \* requests
    NoTask,        \* the lock key is free
    Ops,           \* the operations requested, of "send", "reply", "compact", "fork"
    Standalone,    \* TRUE: in-process lock and SQLite; FALSE: Redis and Postgres
    MayLose,       \* TRUE: the lease may lapse under a task that still works
    MaxMessages,   \* bound: peers write until the ledger is this long
    MaxCalls,      \* bound: tool calls of one turn
    MaxFaults      \* bound: failed calls and crashes

ASSUME SessionTurnAssumption ==
    /\ NoTask \notin Tasks
    /\ Ops \subseteq {"send", "reply", "compact", "fork"}
    /\ Standalone \in BOOLEAN /\ MayLose \in BOOLEAN
    /\ Standalone => ~MayLose
    /\ MaxMessages \in Nat /\ MaxCalls \in Nat /\ MaxFaults \in Nat

VARIABLES
    holder,      \* the task whose guard's token is under the lock key
    superseded,  \* history: tasks whose key was granted to another one since
    pc,          \* the store call each task is about to make
    req,         \* the request and the local variables of each task
    ledger,      \* public messages; session_seq is the index
    items,       \* soul session entries; soul_session_seq is the index
    soul,        \* the soul_session row
    turns,       \* the turns table
    children,    \* the child session of each fork point
    faults       \* calls that may still fail, processes that may still die

lock == <<holder, superseded>>
db == <<ledger, items, soul, turns, children>>
vars == <<holder, superseded, pc, req, ledger, items, soul, turns, children, faults>>

\* A task runs one turn, and the hook compaction after it another one.
TurnIds == Tasks \X {"main", "hook"}

\* Fork points asked for, the first positions and one that is beyond.
ForkPoints == 1..(MaxMessages + 1)

StartupSteps == {"soul", "trigger", "trigger_read", "ref", "assemble"}
BodySteps == {"provider", "call", "dispatch", "result",
              "answer", "answer_read", "answer_ref", "complete"}
SendSteps == StartupSteps \union BodySteps \union {"start", "fail"}
CompactSteps == {"load", "c_soul", "c_start", "c_append", "c_complete"}
ForkSteps == {"f_soul", "f_child", "f_illegal", "f_copy"}
LockedSteps == SendSteps \union CompactSteps \union ForkSteps \union {"release"}

NoRequest == [op |-> "none", point |-> 0, trig |-> 0, snap |-> 0,
              answer |-> 0, entry |-> 0, calls |-> 0, verdict |-> "none"]
NoTurn == [status |-> "none", input |-> 0, base |-> 0, end |-> 0]
NoChild == [messages |-> 0, seen |-> 0, basis |-> 0]

Steps == {"idle", "lock", "hooks", "done", "dead"} \union LockedSteps

Requests == [
    op : {"none", "send", "reply", "compact", "fork", "hook"},
    point : Nat,     \* the message replied to, the compact's end, the fork point
    trig : Nat,      \* session_seq of the trigger message
    snap : Nat,      \* messages 1..snap are the provider's input
    answer : Nat,    \* session_seq of the assistant message
    entry : Nat,     \* soul_session_seq of its reference
    calls : Nat,     \* tool calls made
    verdict : {"none", "ok", "busy", "error"}]

Messages == [by : Tasks \union {NoTask}, fixed : BOOLEAN]

Entries == [kind : {"message", "call", "result", "compact"}, ref : Nat, by : Tasks]

Turns == [status : {"none", "running", "completed", "failed"},
          input : Nat, base : Nat, end : Nat]

\* The sequence numbers of a request, with m messages and n entries.
Within(r, m, n) ==
    /\ r.trig <= m /\ r.snap <= m /\ r.answer <= m /\ r.entry <= n
    /\ r.op \in {"reply", "compact", "hook"} => r.point <= m

\* A sequence number that somebody keeps is the number of a row that exists.
InRange ==
    /\ \A t \in Tasks : Within(req[t], Len(ledger), Len(items))
    /\ soul.seen <= Len(ledger) /\ soul.basis <= Len(items)
    /\ \A i \in TurnIds : turns[i].base <= Len(items) /\ turns[i].end <= Len(items)

TypeOK ==
    /\ holder \in Tasks \union {NoTask}
    /\ superseded \in SUBSET Tasks
    /\ pc \in [Tasks -> Steps]
    /\ req \in [Tasks -> Requests]
    /\ ledger \in Seq(Messages)
    /\ items \in Seq(Entries)
    /\ soul \in [row : BOOLEAN, seen : Nat, basis : Nat]
    /\ turns \in [TurnIds -> Turns]
    /\ children \in [ForkPoints -> [messages : Nat, seen : Nat, basis : Nat]]
    /\ faults \in Nat
    /\ InRange

Init ==
    /\ holder = NoTask
    /\ superseded = {}
    /\ pc = [t \in Tasks |-> "idle"]
    /\ req = [t \in Tasks |-> NoRequest]
    /\ ledger = << >>
    /\ items = << >>
    /\ soul = [row |-> FALSE, seen |-> 0, basis |-> 0]
    /\ turns = [i \in TurnIds |-> NoTurn]
    /\ children = [p \in ForkPoints |-> NoChild]
    /\ faults = MaxFaults

Inside == {t \in Tasks : pc[t] \in LockedSteps}

IsSend(t) == req[t].op \in {"send", "reply"}

\* The turn row the task writes.
TurnOf(t) == <<t, IF req[t].op = "hook" THEN "hook" ELSE "main">>

\* The request's answer; a hook's failure is recorded and nothing more.
Judged(t, v) == IF req[t].op = "hook" THEN req[t] ELSE [req[t] EXCEPT !.verdict = v]

Fault == faults > 0 /\ faults' = faults - 1

Lesser(a, b) == IF a < b THEN a ELSE b

---------------------------------------------------------------------------
(* How a store call ends.                                                  *)

\* Mutant: the turn goes on when its reply could not be referenced.
MutantAfterError(t) ==
    CASE pc[t] \in StartupSteps \union {"fail"} -> "release"
      [] pc[t] = "answer_ref" -> "complete"
      [] pc[t] \in BodySteps -> "fail"
      [] OTHER -> "done"

\* Where an Err leads: startup releases the guard (execute_with_guard), the
\* turn's body goes through fail_turn (run_turn_worker), fail_turn's own error
\* is ignored.  The `?` on start_turn and every one in compact and fork return
\* with the guard, which is dropped, and so do the hooks, which have none.
AfterError(t) ==
    CASE pc[t] \in StartupSteps \union {"fail"} -> "release"
      [] pc[t] \in BodySteps -> "fail"
      [] OTHER -> "done"

\* The step returns Err.
Errs(t) ==
    /\ pc' = [pc EXCEPT ![t] = AfterError(t)]
    /\ req' = [req EXCEPT ![t] = Judged(t, "error")]
    /\ superseded' = IF AfterError(t) = "done" THEN superseded \ {t} ELSE superseded

\* The step returns Ok.
Goes(t, next, r) ==
    /\ pc' = [pc EXCEPT ![t] = next]
    /\ req' = [req EXCEPT ![t] = r]
    /\ UNCHANGED superseded

\* A store call took effect: it says so, or its answer is lost on the network.
Answered(t, next, r) ==
    \/ Goes(t, next, r) /\ UNCHANGED faults
    \/ ~Standalone /\ Fault /\ Errs(t)

\* A store call failed and left nothing behind.
StoreFails(t) ==
    /\ pc[t] \in (SendSteps \union CompactSteps \union ForkSteps \union {"hooks"})
                   \ {"provider", "dispatch"}
    /\ Fault
    /\ Errs(t)
    /\ UNCHANGED <<holder, db>>

---------------------------------------------------------------------------
(* The lock.                                                               *)

\* A request arrives.
Request(t) ==
    /\ pc[t] = "idle"
    /\ \E op \in Ops, point \in {0} \union DOMAIN ledger \union ForkPoints :
          /\ op = "reply" => point \in DOMAIN ledger
          /\ op = "fork" => point \in ForkPoints
          /\ op \in {"send", "compact"} => point = 0
          /\ req' = [req EXCEPT ![t].op = op, ![t].point = point]
    /\ pc' = [pc EXCEPT ![t] = "lock"]
    /\ UNCHANGED <<lock, db, faults>>

FirstStep(t) ==
    CASE req[t].op = "fork" -> "f_soul"
      [] req[t].op \in {"compact", "hook"} -> "load"
      [] OTHER -> "soul"

\* Mutant: InProcessLock::acquire forgets to look the key up.
MutantAcquire(t) ==
    /\ pc[t] = "lock"
    /\ holder' = t
    /\ superseded' = Inside
    /\ pc' = [pc EXCEPT ![t] = FirstStep(t)]
    /\ UNCHANGED <<req, db, faults>>

\* Lock::acquire answers Ok.
Acquire(t) ==
    /\ pc[t] = "lock"
    /\ holder = NoTask
    /\ holder' = t
    /\ superseded' = Inside
    /\ pc' = [pc EXCEPT ![t] = FirstStep(t)]
    /\ UNCHANGED <<req, db, faults>>

\* Lock::acquire answers Busy.
Busy(t) ==
    /\ pc[t] = "lock"
    /\ holder # NoTask
    /\ pc' = [pc EXCEPT ![t] = "done"]
    /\ req' = [req EXCEPT ![t] = Judged(t, "busy")]
    /\ UNCHANGED <<lock, db, faults>>

\* Redis fails, or the acquisition times out, which answers Busy; a SET whose
\* answer was lost may have landed.
AcquireFails(t) ==
    /\ pc[t] = "lock"
    /\ ~Standalone /\ Fault
    /\ \/ UNCHANGED lock
       \/ /\ holder = NoTask
          /\ holder' = t
          /\ superseded' = Inside
    /\ pc' = [pc EXCEPT ![t] = "done"]
    /\ \E v \in {"busy", "error"} : req' = [req EXCEPT ![t] = Judged(t, v)]
    /\ UNCHANGED db

AfterRelease(t) ==
    IF IsSend(t) /\ req[t].verdict = "ok" THEN "hooks" ELSE "done"

\* Mutant: the key is deleted without comparing the token.
MutantRelease(t) ==
    /\ pc[t] = "release"
    /\ holder' = NoTask
    /\ superseded' = superseded \ {t}
    /\ pc' = [pc EXCEPT ![t] = AfterRelease(t)]
    /\ UNCHANGED <<req, db, faults>>

\* LockGuard::release answers Ok.
Release(t) ==
    /\ pc[t] = "release"
    /\ holder = t
    /\ holder' = NoTask
    /\ superseded' = superseded \ {t}
    /\ pc' = [pc EXCEPT ![t] = AfterRelease(t)]
    /\ UNCHANGED <<req, db, faults>>

\* Mutant: the error of the release is dropped (finish_turn_run).
MutantReleaseFails(t) ==
    /\ pc[t] = "release"
    /\ ~Standalone
    /\ \/ holder # t /\ UNCHANGED <<holder, faults>>
       \/ Fault /\ UNCHANGED holder
    /\ superseded' = superseded \ {t}
    /\ pc' = [pc EXCEPT ![t] = AfterRelease(t)]
    /\ UNCHANGED <<req, db>>

\* LockGuard::release answers Err: the lease was lost, or the call failed (and
\* the key may be gone nevertheless).  finish_turn_run and release_guard_on_error
\* prefer this error to what the run returned.
ReleaseFails(t) ==
    /\ pc[t] = "release"
    /\ ~Standalone
    /\ \/ holder # t /\ UNCHANGED <<holder, faults>>
       \/ Fault /\ holder' \in {holder} \union (IF holder = t THEN {NoTask} ELSE {})
    /\ superseded' = superseded \ {t}
    /\ pc' = [pc EXCEPT ![t] = "done"]
    /\ req' = [req EXCEPT ![t] = Judged(t, "error")]
    /\ UNCHANGED db

\* Mutant: the key has no time to live (SET without PX).
MutantLapse == FALSE

\* The key expires: nobody renews it, or the renewals failed (RedisLock).
Lapse ==
    /\ ~Standalone
    /\ holder # NoTask
    /\ MayLose \/ holder \notin Inside
    /\ holder' = NoTask
    /\ UNCHANGED <<superseded, pc, req, db, faults>>

---------------------------------------------------------------------------
(* Startup: run_turn_startup, with what it shares with compact.            *)

\* acquire_soul_session: upsert of the row (then get_session, a read).
AcquireSoul(t) ==
    /\ pc[t] \in {"soul", "c_soul"}
    /\ soul' = [soul EXCEPT !.row = TRUE]
    /\ Answered(t, IF pc[t] = "soul" THEN "trigger" ELSE "c_start", req[t])
    /\ UNCHANGED <<holder, ledger, items, turns, children>>

\* append_message under a task's name.  The SQLite ledger inserts and then reads
\* the session's last message back, in another call.
AppendMessage(t) == ledger' = Append(ledger, [by |-> t, fixed |-> TRUE])

\* Mutant: the sequence handed back is the session's next one.
MutantAppendTrigger(t) ==
    /\ pc[t] = "trigger" /\ req[t].op = "send"
    /\ AppendMessage(t)
    /\ Answered(t, IF Standalone THEN "trigger_read" ELSE "ref",
                [req[t] EXCEPT !.trig = Len(ledger') + 1])
    /\ UNCHANGED <<holder, items, soul, turns, children>>

AppendTrigger(t) ==
    /\ pc[t] = "trigger" /\ req[t].op = "send"
    /\ AppendMessage(t)
    /\ Answered(t, IF Standalone THEN "trigger_read" ELSE "ref",
                [req[t] EXCEPT !.trig = Len(ledger')])
    /\ UNCHANGED <<holder, items, soul, turns, children>>

ReadTrigger(t) ==
    /\ pc[t] = "trigger_read"
    /\ Goes(t, "ref", [req[t] EXCEPT !.trig = Len(ledger)])
    /\ UNCHANGED <<holder, db, faults>>

\* append_message takes MAX(session_seq) + 1 and inserts under a unique key: Err
\* when another append took the number in between.
AppendLoses(t) ==
    /\ \/ pc[t] = "trigger" /\ req[t].op = "send"
       \/ pc[t] = "answer"
    /\ \E m \in DOMAIN ledger : m = Len(ledger) /\ ledger[m].by # t
    /\ Errs(t)
    /\ UNCHANGED <<holder, db, faults>>

\* TurnInput::ExistingMessage: the message must be fixed.
LoadTrigger(t) ==
    /\ pc[t] = "trigger" /\ req[t].op = "reply"
    /\ \/ ledger[req[t].point].fixed /\ Goes(t, "ref", [req[t] EXCEPT !.trig = req[t].point])
       \/ ~ledger[req[t].point].fixed /\ Errs(t)
    /\ UNCHANGED <<holder, db, faults>>

Entry(t, kind, ref) == Append(items, [kind |-> kind, ref |-> ref, by |-> t])

Referenced(m) == \E i \in DOMAIN items : items[i].kind = "message" /\ items[i].ref = m

\* append_message_ref.  Postgres keys the entries by target and refuses the
\* second reference to a message, SQLite keys them by sequence.
AppendMessageRef(t, m, next) ==
    \/ /\ Standalone \/ ~Referenced(m)
       /\ items' = Entry(t, "message", m)
       /\ Answered(t, next, [req[t] EXCEPT !.entry = Len(items')])
    \/ /\ ~Standalone /\ Referenced(m)
       /\ Errs(t)
       /\ UNCHANGED <<items, faults>>

RefTrigger(t) ==
    /\ pc[t] = "ref"
    /\ AppendMessageRef(t, req[t].trig, "assemble")
    /\ UNCHANGED <<holder, ledger, soul, turns, children>>

\* build_assembly_items: the provider's input is the public ledger as it is.
Assemble(t) ==
    /\ pc[t] = "assemble"
    /\ Goes(t, "start", [req[t] EXCEPT !.snap = Len(ledger)])
    /\ UNCHANGED <<holder, db, faults>>

\* start_turn, of a send and of a compact.
StartTurn(t) ==
    /\ pc[t] \in {"start", "c_start"}
    /\ turns' = [turns EXCEPT ![TurnOf(t)] =
          [status |-> "running", base |-> Len(items), end |-> 0,
           input |-> IF pc[t] = "start" THEN req[t].trig ELSE req[t].point]]
    /\ Answered(t, IF pc[t] = "start" THEN "provider" ELSE "c_append", req[t])
    /\ UNCHANGED <<holder, ledger, items, soul, children>>

---------------------------------------------------------------------------
(* The turn's body: run_turn_body, run_turn_worker.                        *)

\* What follows a provider's answer: another tool call, or the reply.
Continues(t) ==
    \/ req[t].calls < MaxCalls /\ Goes(t, "call", req[t])
    \/ Goes(t, "answer", req[t])

\* Mutant: the stream opened after a tool's result is never polled.
MutantProvide(t) ==
    /\ pc[t] = "provider"
    /\ req[t].calls = 0
    /\ Continues(t) \/ Errs(t)
    /\ UNCHANGED <<holder, db, faults>>

\* The provider's stream ends: with tool calls, with text, or with an error or
\* no text at all.
Provide(t) ==
    /\ pc[t] = "provider"
    /\ Continues(t) \/ Errs(t)
    /\ UNCHANGED <<holder, db, faults>>

\* append_tool_call.
ToolCall(t) ==
    /\ pc[t] = "call"
    /\ items' = Entry(t, "call", req[t].calls + 1)
    /\ Answered(t, "dispatch", [req[t] EXCEPT !.calls = @ + 1])
    /\ UNCHANGED <<holder, ledger, soul, turns, children>>

\* Mutant: a tool that cannot be dispatched is skipped.
MutantDispatch(t) ==
    /\ pc[t] = "dispatch"
    /\ Goes(t, "result", req[t]) \/ Goes(t, "provider", req[t])
    /\ UNCHANGED <<holder, db, faults>>

\* Mutant: an early return that skips fail_turn.
MutantDispatchReturns(t) ==
    /\ pc[t] = "dispatch"
    /\ Goes(t, "result", req[t]) \/ Goes(t, "release", Judged(t, "error"))
    /\ UNCHANGED <<holder, db, faults>>

\* ToolExecutor::dispatch: runs the tool, or fails and leaves the call alone.
Dispatch(t) ==
    /\ pc[t] = "dispatch"
    /\ Goes(t, "result", req[t]) \/ Errs(t)
    /\ UNCHANGED <<holder, db, faults>>

\* append_tool_result, then the next call of the same response or the provider.
ToolResult(t) ==
    /\ pc[t] = "result"
    /\ items' = Entry(t, "result", req[t].calls)
    /\ \/ Answered(t, "provider", req[t])
       \/ req[t].calls < MaxCalls /\ Answered(t, "call", req[t])
    /\ UNCHANGED <<holder, ledger, soul, turns, children>>

Answer(t) ==
    /\ pc[t] = "answer"
    /\ AppendMessage(t)
    /\ Answered(t, IF Standalone THEN "answer_read" ELSE "answer_ref",
                [req[t] EXCEPT !.answer = Len(ledger')])
    /\ UNCHANGED <<holder, items, soul, turns, children>>

ReadAnswer(t) ==
    /\ pc[t] = "answer_read"
    /\ Goes(t, "answer_ref", [req[t] EXCEPT !.answer = Len(ledger)])
    /\ UNCHANGED <<holder, db, faults>>

RefAnswer(t) ==
    /\ pc[t] = "answer_ref"
    /\ AppendMessageRef(t, req[t].answer, "complete")
    /\ UNCHANGED <<holder, ledger, soul, turns, children>>

\* The turn row when the turn ends.
Closed(turn, status) == [turn EXCEPT !.status = status, !.end = Len(items)]

\* The basis of the provider state: the reply's entry, or no state when the
\* provider gave no response id (a tool call carries one) and after a compaction.
Bases(t) ==
    {e \in {0, req[t].entry} :
        IF e = 0 THEN pc[t] = "c_complete" \/ req[t].calls = 0 ELSE pc[t] = "complete"}

\* Mutant: the provider state's basis is the last entry, not the reply's.
MutantComplete(t) ==
    /\ pc[t] \in {"complete", "c_complete"}
    /\ turns' = [turns EXCEPT ![TurnOf(t)] = Closed(@, "completed")]
    /\ soul' = [row |-> soul.row,
                 seen |-> IF pc[t] = "complete" THEN req[t].answer ELSE req[t].point,
                 basis |-> IF pc[t] = "complete" THEN Len(items) ELSE 0]
    /\ Answered(t, "release", Judged(t, "ok"))
    /\ UNCHANGED <<holder, ledger, items, children>>

\* complete_turn: the turn row and the soul session row in one transaction.
Complete(t) ==
    /\ pc[t] \in {"complete", "c_complete"}
    /\ turns' = [turns EXCEPT ![TurnOf(t)] = Closed(@, "completed")]
    /\ \E basis \in Bases(t) :
          soul' = [row |-> soul.row, basis |-> basis,
                   seen |-> IF pc[t] = "complete" THEN req[t].answer ELSE req[t].point]
    /\ Answered(t, "release", Judged(t, "ok"))
    /\ UNCHANGED <<holder, ledger, items, children>>

\* fail_turn: an unconditional UPDATE.
Fail(t) ==
    /\ pc[t] = "fail"
    /\ turns' = [turns EXCEPT ![TurnOf(t)] = Closed(@, "failed")]
    /\ Answered(t, "release", req[t])
    /\ UNCHANGED <<holder, ledger, items, soul, children>>

\* run_turn_completed_hooks, with the lock released: no action, or a compaction
\* up to the turn's own reply.
Hooks(t) ==
    /\ pc[t] = "hooks"
    /\ \/ Goes(t, "done", req[t])
       \/ "compact" \in Ops
          /\ Goes(t, "lock", [req[t] EXCEPT !.op = "hook", !.point = req[t].answer])
    /\ UNCHANGED <<holder, db, faults>>

---------------------------------------------------------------------------
(* compact.rs, execute_compact.                                            *)

\* Mutant: the range ends at the soul session's sequence.
MutantLoad(t) ==
    /\ pc[t] = "load"
    /\ Goes(t, "c_soul", [req[t] EXCEPT
             !.point = IF req[t].op = "hook" THEN @ ELSE Len(items)])
    /\ UNCHANGED <<holder, db, faults>>

\* The summary is checked and the session read: an empty summary is refused, an
\* empty session too (with the guard), and the range ends at the hook's end or
\* at the last message.
Load(t) ==
    /\ pc[t] = "load"
    /\ \/ Goes(t, "release", Judged(t, "error"))
       \/ ledger = << >> /\ Errs(t)
       \/ /\ ledger # << >>
          /\ Goes(t, "c_soul", [req[t] EXCEPT
                   !.point = IF req[t].op = "hook" THEN @ ELSE Len(ledger)])
    /\ UNCHANGED <<holder, db, faults>>

AppendCompact(t) ==
    /\ pc[t] = "c_append"
    /\ items' = Entry(t, "compact", req[t].point)
    /\ Answered(t, "c_complete", req[t])
    /\ UNCHANGED <<holder, ledger, soul, turns, children>>

---------------------------------------------------------------------------
(* fork.rs, fork_session.                                                  *)

\* get_session_soul of the parent: without a row the `?` drops the guard.
LoadParent(t) ==
    /\ pc[t] = "f_soul"
    /\ \/ ~soul.row /\ Errs(t)
       \/ /\ soul.row
          /\ Goes(t, IF req[t].point <= Len(items) THEN "f_child" ELSE "f_illegal", req[t])
    /\ UNCHANGED <<holder, db, faults>>

\* get_session_soul of the child: what was forked before is the answer.
LoadChild(t) ==
    /\ pc[t] \in {"f_child", "f_illegal"}
    /\ LET forked == children[req[t].point] # NoChild
       IN  CASE forked -> Goes(t, "release", Judged(t, "ok"))
             [] ~forked /\ pc[t] = "f_child" -> Goes(t, "f_copy", req[t])
             [] OTHER -> Goes(t, "release", Judged(t, "error"))
    /\ UNCHANGED <<holder, db, faults>>

\* Mutant: the last message seen is copied as it is.
MutantChild(p) == [messages |-> Lesser(p, Len(ledger)), seen |-> soul.seen,
                   basis |-> IF soul.basis <= p THEN soul.basis ELSE 0]

\* The copy: the prefix of the messages, what was seen of it, and the provider's
\* state when it lies before the fork point.
Child(p) == [messages |-> Lesser(p, Len(ledger)), seen |-> Lesser(p, soul.seen),
             basis |-> IF soul.basis <= p THEN soul.basis ELSE 0]

\* fork_soul_session: one transaction, which the unique keys refuse when the
\* child is there.
Copy(t) ==
    /\ pc[t] = "f_copy"
    /\ \/ /\ children[req[t].point] = NoChild
          /\ children' = [children EXCEPT ![req[t].point] = Child(req[t].point)]
          /\ Answered(t, "release", Judged(t, "ok"))
       \/ /\ children[req[t].point] # NoChild
          /\ Errs(t)
          /\ UNCHANGED <<children, faults>>
    /\ UNCHANGED <<holder, ledger, items, soul, turns>>

---------------------------------------------------------------------------
(* Around the tasks.                                                       *)

\* stim envelopes: a peer creates a message, pending or fixed, or fixes one.
PeerWrites ==
    /\ \/ /\ Len(ledger) < MaxMessages
          /\ \E fixed \in BOOLEAN :
                ledger' = Append(ledger, [by |-> NoTask, fixed |-> fixed])
       \/ \E m \in DOMAIN ledger :
             ~ledger[m].fixed /\ ledger' = [ledger EXCEPT ![m].fixed = TRUE]
    /\ UNCHANGED <<lock, pc, req, items, soul, turns, children, faults>>

Alive(t) == pc[t] \notin {"idle", "done", "dead"}

\* One of the processes dies, with the task.
Crash(t) ==
    /\ ~Standalone /\ Fault
    /\ Alive(t)
    /\ pc' = [pc EXCEPT ![t] = "dead"]
    /\ superseded' = superseded \ {t}
    /\ UNCHANGED <<holder, req, db>>

\* The only process restarts: every task and the lock table are gone.
Restart ==
    /\ Standalone /\ Fault
    /\ pc' = [u \in Tasks |-> IF Alive(u) THEN "dead" ELSE pc[u]]
    /\ superseded' = {}
    /\ holder' = NoTask
    /\ UNCHANGED <<req, db>>

\* A step of a task that is under way.
Work(t) ==
    \/ Acquire(t) \/ Busy(t) \/ Release(t) \/ ReleaseFails(t)
    \/ AcquireSoul(t) \/ AppendTrigger(t) \/ AppendLoses(t) \/ ReadTrigger(t)
    \/ LoadTrigger(t) \/ RefTrigger(t) \/ Assemble(t) \/ StartTurn(t)
    \/ Provide(t) \/ ToolCall(t) \/ Dispatch(t) \/ ToolResult(t)
    \/ Answer(t) \/ ReadAnswer(t) \/ RefAnswer(t) \/ Complete(t) \/ Fail(t)
    \/ Hooks(t) \/ Load(t) \/ AppendCompact(t)
    \/ LoadParent(t) \/ LoadChild(t) \/ Copy(t)

Next ==
    \/ \E t \in Tasks :
          Request(t) \/ AcquireFails(t) \/ Work(t) \/ StoreFails(t) \/ Crash(t)
    \/ Lapse
    \/ Restart
    \/ PeerWrites

Spec == Init /\ [][Next]_vars

(* Tokio polls every spawned task, store calls and provider streams end, and *)
(* an unrenewed key expires.  Nothing obliges a request to arrive, a peer to  *)
(* write, a call to fail or a live lease to lapse.                            *)
Fairness ==
    /\ \A t \in Tasks : WF_vars(Work(t))
    /\ WF_vars(Lapse)

LiveSpec == Spec /\ Fairness

---------------------------------------------------------------------------
(* The services use the lock only as the port allows; the guards outstanding *)
(* are the tasks between acquire and release.                                *)
Abs == INSTANCE SessionLock WITH
    Clients <- Tasks, NoClient <- NoTask, inside <- Inside, Leased <- ~Standalone

(* Every way a request leaves its guard (each release, each `?` that drops it, *)
(* each crash, the hook compaction that takes the key again) is a step of the  *)
(* lock port: nobody deletes a key that is not theirs.                         *)
ImplementsLock == Abs!LockSpec

(* While leases are kept, the lock under the services is one whose key does not *)
(* lapse under a guard: what RedisLock implements when the TTL is ample for its *)
(* delays, and InProcessLock does by having no TTL.                             *)
ImplementsSteadyLock == Abs!SteadySpec

(* docs/contracts/runtime/session-locking.md:5: while leases are kept, only the *)
(* key's holder is between acquire and release, whatever failed before.         *)
GuardExclusive == ~MayLose => Inside \subseteq {holder}

(* The entries a completed turn claims with its base and end are its own and no  *)
(* other's: its trigger, calls each followed by their result, its reply.  Peers, *)
(* failed turns before it and half-done tool calls leave no trace in them.       *)
TurnIsContiguous ==
    ~MayLose => \A t \in Tasks :
        LET turn == turns[<<t, "main">>]
            at(i) == turn.base + i
        IN  turn.status = "completed" /\ req[t].trig > 0 =>
              /\ items[turn.base] = [kind |-> "message", ref |-> req[t].trig, by |-> t]
              /\ items[turn.end] = [kind |-> "message", ref |-> req[t].answer, by |-> t]
              /\ turn.end = turn.base + 2 * req[t].calls + 1
              /\ \A c \in 1..req[t].calls :
                    /\ items[at(2 * c - 1)] = [kind |-> "call", ref |-> c, by |-> t]
                    /\ items[at(2 * c)] = [kind |-> "result", ref |-> c, by |-> t]

(* A send or a reply that is answered Ok has its completed turn, its trigger in  *)
(* what the provider was shown, and its own fixed reply after that, both         *)
(* referenced.  Of the hosted ledger only: the SQLite one may read back a message *)
(* that a peer appended in between (ReadTrigger, ReadAnswer).                      *)
OkMeansRecorded ==
    ~Standalone => \A t \in Tasks :
        req[t].verdict = "ok" /\ req[t].trig > 0 =>
            /\ turns[<<t, "main">>].status = "completed"
            /\ req[t].trig <= req[t].snap /\ req[t].snap < req[t].answer
            /\ ledger[req[t].answer] = [by |-> t, fixed |-> TRUE]
            /\ Referenced(req[t].trig) /\ Referenced(req[t].answer)

(* A turn is left running only by a failed call or a crash: every other way out  *)
(* of the body goes through complete_turn or fail_turn.                           *)
StrandedOnlyByFault ==
    faults = MaxFaults => \A t \in Tasks :
        pc[t] \in {"release", "hooks", "lock", "done"} =>
            \A k \in {"main", "hook"} : turns[<<t, k>>].status # "running"

(* What the provider is to continue from and the last message the soul has seen  *)
(* are the same reply, also when two turns overlap: complete_turn writes both.    *)
ContinuationMatchesSeen ==
    soul.basis # 0 =>
        /\ items[soul.basis].kind = "message"
        /\ items[soul.basis].ref = soul.seen

(* A child never starts ahead of its own ledger or of its parent's entries.       *)
ChildWithinParent ==
    \A p \in ForkPoints :
        /\ children[p].seen <= children[p].messages
        /\ children[p].basis <= Len(items)

(* session-message-model.md:200 has last_seen_session_seq as the highest          *)
(* session_seq already incorporated, which never goes back.  The code disagrees   *)
(* in one place: a hook's compaction, which runs with the lock released, completes *)
(* with the end that was fixed for it before, and takes last_seen back after a    *)
(* later turn (compact.rs:173, hook_runtime.rs:84).  Nothing else does, while     *)
(* leases are kept.                                                               *)
SeenRegressesOnlyByHook ==
    [][~MayLose /\ soul'.seen < soul.seen =>
          \E t \in Tasks : pc[t] = "c_complete" /\ req[t].op = "hook"]_vars

(* Forking again never replaces a child, though two forks may be in the copy at   *)
(* once after a lapse.                                                            *)
ForkOnce ==
    [][\A p \in ForkPoints : children[p] # NoChild => children'[p] = children[p]]_vars

(* A request whose lock went to another one is not answered Ok.                   *)
OvertakenNeverOk ==
    [][\A t \in superseded :
          pc[t] = "release" /\ pc'[t] \in {"hooks", "done"} =>
              req'[t].op = "hook" \/ req'[t].verdict # "ok"]_vars

(* A request that asked for the lock is answered or dies with its process.        *)
RequestEnds == \A t \in Tasks : pc[t] = "lock" ~> pc[t] \in {"done", "dead"}

(* docs/contracts/runtime/session-locking.md:31: the key is always free again.    *)
KeyRecovers == holder # NoTask ~> holder = NoTask
==========================================================================
