---------------------------- MODULE TurnHooks ----------------------------
(***************************************************************************)
(* What a completed turn sets off and what watchers see of it: the hooks    *)
(* (hooks.rs, session/hook_runtime.rs), the fork handoff effect and its     *)
(* ledger (session/effect.rs), and the watch hub (session/watch), on one    *)
(* parent session and the children its handoffs make.                       *)
(*                                                                         *)
(* Turns are sends and replies to messages that are there; seeds of other   *)
(* handoffs run no hooks.  A turn, a compact and a fork are told by the     *)
(* steps that hold the parent's lock, publish what a client looks for, or   *)
(* change what hooks read; SessionTurn has their store calls.  The lock is  *)
(* what either deployment gives: a key may expire under its holder, as with *)
(* Redis, and a guard that is dropped may leave its key for good, as in the *)
(* process.                                                                 *)
(***************************************************************************)
EXTENDS Integers, Sequences, FiniteSets

CONSTANTS
    Turns,        \* sends and replies to the parent session
    Clients,      \* requests of clients: to compact or fork it, or to its children
    NoTurn,       \* its lock is free
    Watchers,     \* clients of watch_session
    HookIds,      \* the ids of handoff hooks
    HookSets,     \* the subscriber sets an admin may install: sequences of hooks
    MaxPeers,     \* bound: messages peers write into the parent
    MaxFaults     \* bound: failed calls and restarts

Hook == [id : HookIds, kind : {"handoff"}, min : Nat] \union
        [id : {"compact"}, kind : {"compact"}, min : Nat]

ASSUME TurnHooksAssumption ==
    /\ NoTurn \notin Turns \union Clients /\ Turns \intersect Clients = {}
    /\ "compact" \notin HookIds
    /\ HookSets # {} /\ HookSets \subseteq Seq(Hook)
    /\ MaxPeers \in Nat /\ MaxFaults \in Nat

VARIABLES
    lock,      \* whose key the parent's lock is: a turn, with its hooks, or a client
    lost,      \* history: turns whose key expired while they were at work
    pc,        \* the next step of each turn
    spoken,    \* session_seq of each turn's assistant message
    plan,      \* actions of each turn's hooks that are left, the current one first
    outcome,   \* what became of each turn's current handoff
    messages,  \* public messages of the parent
    refs,      \* the session_seqs its soul session references
    extra,     \* its other entries: compacts, messages referenced once more
    effects,   \* session_effects rows, by turn and hook
    children,  \* child sessions, by turn and hook
    request,   \* where the clients' own requests are
    visits,    \* the children they are at
    hub,       \* what was published of the parent's turns since the process started
    watcher,   \* the connections of the watchers
    peers,     \* messages that peers may still write
    faults     \* calls that may still fail, restarts to come

task == <<spoken, plan, outcome>>
store == <<messages, refs, extra>>
clients == <<request, visits>>
vars == <<lock, lost, pc, spoken, plan, outcome, messages, refs, extra, effects,
          children, request, visits, hub, watcher, peers, faults>>

Keys == Turns \X HookIds

TurnSteps == {"idle", "starting", "body", "recorded", "announced", "completed", "unwinding"}
HandoffSteps == {"create", "fork", "copy", "seed", "reply", "update"}
Over == {"ended", "failed", "dead"}

NoEffect == [status |-> "none", result |-> FALSE]
NoChild == [copied |-> 0, seeds |-> 0, replies |-> 0]
Away == [pc |-> "away", pos |-> 0, lagged |-> FALSE, known |-> {}]

TypeOK ==
    /\ lock \in Turns \union Clients \union {NoTurn} /\ lost \subseteq Turns
    /\ pc \in [Turns -> TurnSteps \union {"evaluate", "hooks"} \union HandoffSteps
                        \union Over]
    /\ spoken \in [Turns -> Nat]
    /\ plan \in [Turns -> Seq(Hook)]
    /\ outcome \in [Turns -> {"none", "ok", "failed", "unseeded"}]
    /\ messages \in Nat /\ refs \in SUBSET (1..messages) /\ extra \in Nat
    /\ effects \in [Keys -> [status : {"none", "started", "completed", "failed"},
                             result : BOOLEAN]]
    /\ children \in [Keys -> [copied : Nat, seeds : Nat, replies : Nat]]
    /\ request \in [Clients -> {"idle", "parent", "child", "over"}]
    /\ visits \in [Clients -> SUBSET Keys]
    /\ hub \in Seq([about : Turns, seq : Nat,
                    change : {"running", "finalized", "completed", "failed"}])
    /\ watcher \in [Watchers -> [
           pc : {"away", "snapshot", "connected", "watching"}, pos : Nat,
           lagged : BOOLEAN, known : SUBSET (1..messages)]]
    /\ peers \in 0..MaxPeers /\ faults \in 0..MaxFaults

Init ==
    /\ lock = NoTurn /\ lost = {}
    /\ pc = [t \in Turns |-> "idle"]
    /\ spoken = [t \in Turns |-> 0]
    /\ plan = [t \in Turns |-> << >>]
    /\ outcome = [t \in Turns |-> "none"]
    /\ messages = 0 /\ refs = {} /\ extra = 0
    /\ effects = [k \in Keys |-> NoEffect]
    /\ children = [k \in Keys |-> NoChild]
    /\ request = [c \in Clients |-> "idle"]
    /\ visits = [c \in Clients |-> {}]
    /\ hub = << >>
    /\ watcher = [w \in Watchers |-> Away]
    /\ peers = MaxPeers
    /\ faults = MaxFaults

Fault == faults > 0 /\ faults' = faults - 1

Goto(t, step) == pc' = [pc EXCEPT ![t] = step]

\* SessionWatchHub::publish.  Events of hooks, forks and compacts, and of
\* other sessions, are in the channel as well: Lag is what they amount to.
Publish(t, change, seq) ==
    hub' = Append(hub, [about |-> t, change |-> change, seq |-> seq])

---------------------------------------------------------------------------
(* The turn.                                                               *)

\* A turn counts on the lock from acquire to release, and once more in the
\* fork of its handoff.
Working(t) ==
    pc[t] \in {"starting", "body", "recorded", "announced", "completed", "copy"}

\* compare-and-delete: another holder's key is left alone.
Freed(h) == IF lock = h THEN NoTurn ELSE lock

\* What an acquire that fails may leave behind.
Taken(h) == IF lock = NoTurn THEN h ELSE lock

\* append_message_ref.  SQLite takes a second entry for a message, Postgres
\* refuses it.
Reference(seq) ==
    IF seq \in refs THEN extra' = extra + 1 /\ UNCHANGED refs
                    ELSE refs' = refs \union {seq} /\ UNCHANGED extra

\* acquire.
Start(t) ==
    /\ pc[t] = "idle"
    /\ \/ lock = NoTurn /\ lock' = t /\ Goto(t, "starting") /\ UNCHANGED faults
       \/ Fault /\ lock' \in {lock, Taken(t)} /\ Goto(t, "failed")
    /\ UNCHANGED <<lost, task, store, effects, children, clients, hub, watcher, peers>>

\* run_turn_startup with its trigger, which a send appends and a reply finds,
\* and publish_turn_started.
Begin(t) ==
    /\ pc[t] = "starting"
    /\ \/ /\ messages' = messages + 1
          /\ refs' = refs \union {messages'} /\ UNCHANGED extra
       \/ /\ \E seq \in 1..messages : Reference(seq)
          /\ UNCHANGED messages
    /\ Publish(t, "running", 0)
    /\ Goto(t, "body")
    /\ UNCHANGED <<lock, lost, task, effects, children, clients, watcher, peers, faults>>

\* Mutant: the lock is given back as soon as the message is stored.
MutantRecord(t) ==
    /\ pc[t] = "body"
    /\ lock' = Freed(t)
    /\ messages' = messages + 1
    /\ spoken' = [spoken EXCEPT ![t] = messages']
    /\ Goto(t, "recorded")
    /\ UNCHANGED <<lost, plan, outcome, refs, extra, effects, children, clients, hub,
                   watcher, peers, faults>>

\* The assistant message is appended ...
Record(t) ==
    /\ pc[t] = "body"
    /\ messages' = messages + 1
    /\ spoken' = [spoken EXCEPT ![t] = messages']
    /\ Goto(t, "recorded")
    /\ UNCHANGED <<lock, lost, plan, outcome, refs, extra, effects, children, clients, hub,
                   watcher, peers, faults>>

\* ... announced, before it is referenced ...
Announce(t) ==
    /\ pc[t] = "recorded"
    /\ Publish(t, "finalized", spoken[t])
    /\ Goto(t, "announced")
    /\ UNCHANGED <<lock, lost, task, store, effects, children, clients, watcher, peers,
                   faults>>

\* ... referenced, and the turn completed.
Complete(t) ==
    /\ pc[t] = "announced"
    /\ Reference(spoken[t])
    /\ Publish(t, "completed", 0)
    /\ Goto(t, "completed")
    /\ UNCHANGED <<lock, lost, task, messages, effects, children, clients, watcher, peers,
                   faults>>

\* What a call that failed may have stored all the same.
LeftBehind(t) ==
    \/ UNCHANGED <<messages, refs>>
    \/ /\ pc[t] = "starting" /\ messages' = messages + 1
       /\ refs' \in {refs, refs \union {messages'}}
    \/ pc[t] = "body" /\ messages' = messages + 1 /\ UNCHANGED refs
    \/ pc[t] = "announced" /\ refs' = refs \union {spoken[t]} /\ UNCHANGED messages

\* A call of the turn fails, or the trigger of a reply, or its reference, is
\* refused.  The lock is released on the way out, but not where the guard is
\* dropped by `?` or the release fails ...
Err(t) ==
    /\ \/ /\ pc[t] \in {"starting", "body", "announced"} /\ Fault
          /\ lock' \in {lock, Freed(t)}
          /\ LeftBehind(t)
       \/ /\ pc[t] = "starting" \/ (pc[t] = "announced" /\ spoken[t] \in refs)
          /\ lock' = Freed(t)
          /\ UNCHANGED <<messages, refs, faults>>
    /\ Goto(t, "unwinding")
    /\ UNCHANGED <<lost, task, extra, effects, children, clients, hub, watcher, peers>>

\* ... and watchers are told after that.
Fail(t) ==
    /\ pc[t] = "unwinding"
    /\ Publish(t, "failed", 0)
    /\ Goto(t, "failed")
    /\ UNCHANGED <<lock, lost, task, store, effects, children, clients, watcher, peers,
                   faults>>

\* finish_turn_run: the completed turn fails if its key was lost meanwhile.
Release(t) ==
    /\ pc[t] = "completed"
    /\ \/ lock = t /\ lock' = NoTurn /\ Goto(t, "evaluate") /\ UNCHANGED faults
       \/ lock # t /\ Goto(t, "unwinding") /\ UNCHANGED <<lock, faults>>
       \/ Fault /\ lock' \in {lock, Freed(t)} /\ Goto(t, "unwinding")
    /\ UNCHANGED <<lost, task, store, effects, children, clients, hub, watcher, peers>>

---------------------------------------------------------------------------
(* The hooks.                                                              *)

\* messages_since_last_compact: the assembly that hooks are given holds the
\* session's messages and never a compact, so that last_compact_end is zero
\* and every message counts.
MessagesSinceCompact == messages

\* evaluate_turn_completed of the threshold hooks.
Due(hook) == MessagesSinceCompact >= hook.min

\* run_turn_completed_hooks reads the assembly and takes the subscriber set
\* as it is then: any set, since replace_all may have come before.  A reload
\* later on does not matter to this turn.
Evaluate(t) ==
    /\ pc[t] = "evaluate"
    /\ \/ \E hooks \in HookSets :
            /\ plan' = [plan EXCEPT ![t] = SelectSeq(hooks, Due)]
            /\ Goto(t, "hooks") /\ UNCHANGED faults
       \/ Fault /\ Goto(t, "unwinding") /\ UNCHANGED plan
    /\ UNCHANGED <<lock, lost, spoken, outcome, store, effects, children, clients, hub, watcher,
                   peers>>

\* execute_compact, up to the turn's own message; its answer is recorded.
\* What fails may have been stored, and may leave the key.
Compact(t) ==
    /\ pc[t] = "hooks" /\ plan[t] # << >> /\ Head(plan[t]).kind = "compact"
    /\ plan' = [plan EXCEPT ![t] = Tail(@)]
    /\ \/ lock = NoTurn /\ extra' = extra + 1 /\ UNCHANGED <<lock, faults>>
       \/ lock # NoTurn /\ UNCHANGED <<lock, extra, faults>>
       \/ Fault /\ extra' \in {extra, extra + 1} /\ lock' \in {lock, Taken(t)}
    /\ UNCHANGED <<lost, pc, spoken, outcome, messages, refs, effects, children, clients,
                   hub, watcher, peers>>

\* The last action is done: Completed goes to the client.
End(t) ==
    /\ pc[t] = "hooks" /\ plan[t] = << >>
    /\ Goto(t, "ended")
    /\ UNCHANGED <<lock, lost, task, store, effects, children, clients, hub, watcher,
                   peers, faults>>

---------------------------------------------------------------------------
(* The effect ledger.                                                      *)

\* get_effect, by session, type and idempotency key.
Status(k) == effects[k].status

\* create_effect: on a conflict the row that is there is returned.
Created(k) == [effects EXCEPT ![k] =
    IF @.status = "none" THEN [status |-> "started", result |-> FALSE] ELSE @]

\* update_effect: status and result_ref are overwritten.
Updated(k, status, ref) ==
    [effects EXCEPT ![k] = [status |-> status, result |-> ref]]

---------------------------------------------------------------------------
(* execute_fork_handoff.                                                   *)

Key(t) == <<t, Head(plan[t]).id>>

\* The action is over, by its result or by a failed call, which leaves the
\* effect as it is.
Leave(t) ==
    /\ plan' = [plan EXCEPT ![t] = Tail(@)]
    /\ outcome' = [outcome EXCEPT ![t] = "none"]
    /\ Goto(t, "hooks")

\* Mutant: an effect that is there is run again, whatever its status.
MutantGetEffect(t) ==
    /\ pc[t] = "hooks" /\ plan[t] # << >> /\ Head(plan[t]).kind = "handoff"
    /\ Goto(t, IF Status(Key(t)) = "none" THEN "create" ELSE "fork")
    /\ UNCHANGED <<lock, lost, task, store, effects, children, clients, hub, watcher,
                   peers, faults>>

\* get_effect: a completed one is returned, another one is run again.
GetEffect(t) ==
    /\ pc[t] = "hooks" /\ plan[t] # << >> /\ Head(plan[t]).kind = "handoff"
    /\ \/ Status(Key(t)) = "completed" /\ Leave(t) /\ UNCHANGED faults
       \/ /\ Status(Key(t)) = "none"
          /\ Goto(t, "create") /\ UNCHANGED <<plan, outcome, faults>>
       \/ /\ Status(Key(t)) \in {"started", "failed"}
          /\ Goto(t, "fork") /\ UNCHANGED <<plan, outcome, faults>>
       \/ Fault /\ Leave(t)
    /\ UNCHANGED <<lock, lost, spoken, store, effects, children, clients, hub, watcher,
                   peers>>

\* create_effect, and Hook Started.
CreateEffect(t) ==
    /\ pc[t] = "create"
    /\ \/ /\ effects' = Created(Key(t))
          /\ Goto(t, "fork") /\ UNCHANGED <<plan, outcome, faults>>
       \/ Fault /\ Leave(t) /\ effects' \in {effects, Created(Key(t))}
    /\ UNCHANGED <<lock, lost, spoken, store, children, clients, hub, watcher, peers>>

Concludes(t, how) == outcome' = [outcome EXCEPT ![t] = how] /\ Goto(t, "update")

\* The child is there from an earlier run of this handoff.
Forked(t) == children[Key(t)].copied # 0

\* Mutant: the range of fork points is one short.
MutantInRange(t) == spoken[t] < Cardinality(refs) + extra

\* The range check of fork_session: the public session_seq of the turn's
\* message against next_seq of the soul session, which counts its entries.
InRange(t) == spoken[t] < Cardinality(refs) + extra + 1

\* fork_session with the turn's message as the fork point.  A call that fails
\* once the lock is taken drops the guard.
Fork(t) ==
    /\ pc[t] = "fork"
    /\ \/ lock # NoTurn /\ Concludes(t, "failed") /\ UNCHANGED <<lock, faults>>
       \/ /\ lock = NoTurn /\ Forked(t)
          /\ Goto(t, "seed") /\ UNCHANGED <<lock, outcome, faults>>
       \/ /\ lock = NoTurn /\ ~Forked(t) /\ ~InRange(t)
          /\ Concludes(t, "failed") /\ UNCHANGED <<lock, faults>>
       \/ /\ lock = NoTurn /\ ~Forked(t) /\ InRange(t)
          /\ lock' = t /\ Goto(t, "copy") /\ UNCHANGED <<outcome, faults>>
       \/ Fault /\ Concludes(t, "failed") /\ lock' \in {lock, Taken(t)}
    /\ UNCHANGED <<lost, spoken, plan, store, effects, children, clients, hub, watcher,
                   peers>>

\* fork_soul_session and the release, which fails once the key was lost; the
\* copy may be there all the same.
Copy(t) ==
    /\ pc[t] = "copy"
    /\ LET copied == [children EXCEPT ![Key(t)].copied = spoken[t]] IN
       \/ /\ lock = t /\ lock' = NoTurn /\ children' = copied
          /\ Goto(t, "seed") /\ UNCHANGED <<outcome, faults>>
       \/ /\ lock # t /\ children' = copied
          /\ Concludes(t, "failed") /\ UNCHANGED <<lock, faults>>
       \/ /\ Fault /\ Concludes(t, "failed")
          /\ children' \in {children, copied} /\ lock' \in {lock, Freed(t)}
    /\ UNCHANGED <<lost, spoken, plan, store, effects, clients, hub, watcher, peers>>

Visited(k) == \E c \in Clients : k \in visits[c]

\* seeded_send, a turn of its own in the child, which is busy while a client
\* is at work there, or by a guard that was dropped there: the seed is
\* stored ...
Seed(t) ==
    /\ pc[t] = "seed"
    /\ LET seeded == [children EXCEPT ![Key(t)].seeds = @ + 1] IN
       \/ /\ ~Visited(Key(t)) /\ children' = seeded
          /\ Goto(t, "reply") /\ UNCHANGED <<outcome, faults>>
       \/ /\ Visited(Key(t)) \/ faults < MaxFaults
          /\ Concludes(t, "unseeded") /\ UNCHANGED <<children, faults>>
       \/ Fault /\ Concludes(t, "unseeded") /\ children' \in {children, seeded}
    /\ UNCHANGED <<lock, lost, spoken, plan, store, effects, clients, hub, watcher, peers>>

\* ... and answered.
Reply(t) ==
    /\ pc[t] = "reply"
    /\ LET replied == [children EXCEPT ![Key(t)].replies = @ + 1] IN
       \/ children' = replied /\ Concludes(t, "ok") /\ UNCHANGED faults
       \/ Fault /\ Concludes(t, "unseeded") /\ children' \in {children, replied}
    /\ UNCHANGED <<lock, lost, spoken, plan, store, effects, clients, hub, watcher, peers>>

\* Mutant: an effect counts as completed once its child exists.
MutantUpdateEffect(t) ==
    /\ pc[t] = "update"
    /\ effects' = Updated(Key(t), IF Forked(t) THEN "completed" ELSE "failed", Forked(t))
    /\ Leave(t)
    /\ UNCHANGED <<lock, lost, spoken, store, children, clients, hub, watcher, peers, faults>>

\* finish_effect: watchers are told, then the row is updated, with the child
\* as its result if it was forked in this run or an earlier one.
UpdateEffect(t) ==
    /\ pc[t] = "update"
    /\ LET updated == Updated(Key(t), IF outcome[t] = "ok" THEN "completed" ELSE "failed",
                              outcome[t] \in {"ok", "unseeded"} \/ effects[Key(t)].result) IN
       \/ effects' = updated /\ UNCHANGED faults
       \/ Fault /\ effects' \in {effects, updated}
    /\ Leave(t)
    /\ UNCHANGED <<lock, lost, spoken, store, children, clients, hub, watcher, peers>>

---------------------------------------------------------------------------
(* The lock's keys, and the other requests that take them.                 *)

\* The key expires: a dropped guard's in time, that of a guard whose renewal
\* failed while the turn or its fork is at work.
Lapse ==
    /\ lock # NoTurn /\ lock' = NoTurn
    /\ IF lock \in Turns /\ Working(lock)
       THEN Fault /\ lost' = lost \union {lock}
       ELSE UNCHANGED <<lost, faults>>
    /\ UNCHANGED <<pc, task, store, effects, children, clients, hub, watcher, peers>>

\* POST /compact or /fork takes the parent's lock ...
ClientLocks(c) ==
    /\ request[c] = "idle" /\ lock = NoTurn
    /\ lock' = c
    /\ request' = [request EXCEPT ![c] = "parent"]
    /\ UNCHANGED <<lost, pc, task, store, effects, children, visits, hub, watcher, peers,
                   faults>>

\* ... and gives it back, or returns early and drops its guard.  A compact is
\* an entry of the soul session.
ClientUnlocks(c) ==
    /\ request[c] = "parent"
    /\ lock' \in {lock, Freed(c)}
    /\ extra' \in {extra, extra + 1}
    /\ request' = [request EXCEPT ![c] = "over"]
    /\ UNCHANGED <<lost, pc, task, messages, refs, effects, children, visits, hub, watcher,
                   peers, faults>>

\* A request to a child takes the child's lock ...
VisitChild(c) ==
    /\ request[c] = "idle"
    /\ \E k \in Keys :
        /\ children[k].copied # 0 /\ pc[k[1]] # "reply" /\ ~Visited(k)
        /\ visits' = [visits EXCEPT ![c] = {k}]
    /\ request' = [request EXCEPT ![c] = "child"]
    /\ UNCHANGED <<lock, lost, pc, task, store, effects, children, hub, watcher, peers,
                   faults>>

\* ... and gives it back.
LeaveChild(c) ==
    /\ request[c] = "child"
    /\ visits' = [visits EXCEPT ![c] = {}]
    /\ request' = [request EXCEPT ![c] = "over"]
    /\ UNCHANGED <<lock, lost, pc, task, store, effects, children, hub, watcher, peers,
                   faults>>

---------------------------------------------------------------------------
(* Watchers, peers, restarts.                                              *)

Set(w, fields) ==
    /\ watcher' = [watcher EXCEPT ![w] = fields]
    /\ UNCHANGED <<lock, lost, pc, task, store, effects, children, clients, hub, peers,
                   faults>>

\* get_session_watch_snapshot, read for its latest_seq.
Snapshot(w) ==
    /\ watcher[w].pc = "away"
    /\ Set(w, [Away EXCEPT !.pc = "snapshot"])

\* hub.subscribe, and Connected goes out.
Connect(w) ==
    /\ watcher[w].pc = "snapshot"
    /\ Set(w, [watcher[w] EXCEPT !.pc = "connected", !.pos = Len(hub)])

\* The client reads the session's messages once it is connected ...
Fetch(w) ==
    /\ watcher[w].pc = "connected"
    /\ Set(w, [watcher[w] EXCEPT !.pc = "watching", !.known = 1..messages])

Learn(w, event) ==
    IF event.change = "finalized" /\ ~watcher[w].lagged
    THEN watcher[w].known \union {event.seq} ELSE watcher[w].known

\* Mutant: every event is waited for with a receiver of its own.
MutantHear(w) ==
    /\ watcher[w].pc = "watching" /\ watcher[w].pos < Len(hub)
    /\ Set(w, [watcher[w] EXCEPT !.pos = Len(hub), !.known = Learn(w, hub[Len(hub)])])

\* ... and then event after event.
Hear(w) ==
    /\ watcher[w].pc = "watching" /\ watcher[w].pos < Len(hub)
    /\ Set(w, [watcher[w] EXCEPT !.pos = @ + 1, !.known = Learn(w, hub[watcher[w].pos + 1])])

\* The process published more events, of any session, than the channel
\* keeps: the receiver goes on with the oldest that is left.
Lag(w) ==
    /\ watcher[w].pc = "watching" /\ ~watcher[w].lagged
    /\ \E pos \in watcher[w].pos..Len(hub) :
         Set(w, [watcher[w] EXCEPT !.pos = pos, !.lagged = TRUE, !.known = {}])

\* A stim envelope, which takes no lock and is not published.
Peer ==
    /\ peers > 0 /\ peers' = peers - 1
    /\ messages' = messages + 1
    /\ UNCHANGED <<lock, lost, pc, task, refs, extra, effects, children, clients, hub,
                   watcher, faults>>

\* The process dies and comes back, its own locks free again, while a key in
\* Redis is left to expire; nobody resumes a turn, a handoff or a request.
Restart ==
    /\ Fault
    /\ pc' = [t \in Turns |-> IF pc[t] \in {"idle"} \union Over THEN pc[t] ELSE "dead"]
    /\ lock' \in {lock, NoTurn}
    /\ request' = [c \in Clients |-> IF request[c] = "idle" THEN "idle" ELSE "over"]
    /\ visits' = [c \in Clients |-> {}]
    /\ hub' = << >>
    /\ watcher' = [w \in Watchers |-> Away]
    /\ UNCHANGED <<lost, task, store, effects, children, peers>>

Next ==
    \/ \E t \in Turns :
        \/ Start(t) \/ Begin(t) \/ Record(t) \/ Announce(t) \/ Complete(t) \/ Release(t)
        \/ Err(t) \/ Fail(t) \/ Evaluate(t) \/ Compact(t) \/ End(t)
        \/ GetEffect(t) \/ CreateEffect(t) \/ Fork(t) \/ Copy(t) \/ Seed(t)
        \/ Reply(t) \/ UpdateEffect(t)
    \/ \E c \in Clients :
        ClientLocks(c) \/ ClientUnlocks(c) \/ VisitChild(c) \/ LeaveChild(c)
    \/ \E w \in Watchers : Snapshot(w) \/ Connect(w) \/ Fetch(w) \/ Hear(w) \/ Lag(w)
    \/ Peer \/ Lapse \/ Restart

Spec == Init /\ [][Next]_vars

---------------------------------------------------------------------------
(* Properties.                                                             *)

\* The hub tells of one turn of a session after the other: between a turn's
\* start and its message or completion no other turn starts, speaks or
\* completes, whatever calls fail and guards are dropped, unless the key of
\* one of the two expired under it.  Failures are published after the release
\* and may fall into the next turn (send/mod.rs:258, body.rs:126,
\* turn.rs:232), but nothing is told of a turn that was told to have failed.
RunsDoNotInterleave ==
    LET told == {i \in DOMAIN hub : hub[i].change # "failed"} IN
    /\ \A i, j \in told : i < j /\ hub[i].about = hub[j].about =>
        \A k \in told : i < k /\ k < j =>
            \/ hub[k].about = hub[i].about
            \/ hub[i].about \in lost \/ hub[k].about \in lost
    /\ \A i, j \in DOMAIN hub :
        hub[i].change = "failed" /\ hub[i].about = hub[j].about => j <= i

\* A client that reads the messages after Connected and then listens knows of
\* every message that was announced, although the snapshot behind latest_seq
\* is older than the subscription; only a lag, which events of other sessions
\* cause as well, makes it miss one (watch/mod.rs:92).
WatcherMissesNothing ==
    \A w \in Watchers : watcher[w].pc = "watching" /\ ~watcher[w].lagged =>
        \A i \in 1..watcher[w].pos :
            hub[i].change = "finalized" => hub[i].seq \in watcher[w].known

\* A completed effect has done what it says: its child holds the parent up to
\* the turn's message, got the seed and answered it, and is the result
\* (effect.rs:226).
CompletedMeansSeeded ==
    \A k \in Keys : effects[k].status = "completed" =>
        /\ effects[k].result
        /\ children[k].copied = spoken[k[1]] /\ spoken[k[1]] \in refs
        /\ children[k].seeds > 0 /\ children[k].replies > 0

\* A hook that comes twice for one turn, under one id, seeds its child again
\* only if something failed the first time (effect.rs:132).
SeededAgainOnlyAfterFault ==
    \A k \in Keys : children[k].seeds <= 1 + MaxFaults - faults

\* An effect stays started only if a call failed or the process died, and it
\* fails only for that, or because the parent was busy with another turn or a
\* client's compact or fork, or the child with a client, or because peers
\* wrote messages that no soul session entry stands for and the turn's
\* session_seq is beyond the soul session's (hooks.rs:296).
EffectEndsForAReason ==
    \A k \in Keys :
        /\ effects[k].status = "started" /\ pc[k[1]] \notin HandoffSteps => faults < MaxFaults
        /\ effects[k].status = "failed" =>
              \/ faults < MaxFaults
              \/ \E t \in Turns \ {k[1]} : pc[t] # "idle"
              \/ \E c \in Clients : request[c] # "idle"
              \/ peers < MaxPeers
==========================================================================
