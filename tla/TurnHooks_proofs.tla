------------------------- MODULE TurnHooks_proofs -------------------------
(***************************************************************************)
(* Proofs about what a completed turn sets off and what watchers see, for   *)
(* any turns, watchers, hooks, peers and faults.  The filter of the hooks   *)
(* that are due is an operator on sequences with an operator argument, so   *)
(* that nothing is used of the elements of a plan: a handoff is identified  *)
(* by Key, whatever that is.                                                *)
(***************************************************************************)
EXTENDS TurnHooks, FiniteSetTheorems, TLAPS

EffectRows == [status : {"none", "started", "completed", "failed"}, result : BOOLEAN]
ChildRows == [copied : Nat, seeds : Nat, replies : Nat]
HubEvents == [about : Turns, seq : Nat,
              change : {"running", "finalized", "completed", "failed"}]
Connections == [pc : {"away", "snapshot", "connected", "watching"}, pos : Nat,
                lagged : BOOLEAN, known : SUBSET Nat]

Typed ==
    /\ pc \in [Turns -> TurnSteps \union {"evaluate", "hooks"} \union HandoffSteps
                        \union Over]
    /\ spoken \in [Turns -> Nat]
    /\ plan = [t \in Turns |-> plan[t]]
    /\ outcome \in [Turns -> {"none", "ok", "failed", "unseeded"}]
    /\ messages \in Nat
    /\ effects \in [Keys -> EffectRows]
    /\ children \in [Keys -> ChildRows]
    /\ hub \in Seq(HubEvents)
    /\ watcher \in [Watchers -> Connections]
    /\ request \in [Clients -> {"idle", "parent", "child", "over"}]
    /\ faults \in 0..MaxFaults

\* A published event has its type.
LEMMA PublishTyped ==
    ASSUME Typed, NEW t \in Turns, NEW seq \in Nat,
           NEW change \in {"running", "finalized", "completed", "failed"},
           Publish(t, change, seq)
    PROVE  hub' \in Seq(HubEvents)
<1>1. [about |-> t, change |-> change, seq |-> seq] \in HubEvents
  BY DEF HubEvents
<1> QED
  BY <1>1 DEF Typed, Publish

\* A connection is replaced as a whole.
LEMMA SetTyped ==
    ASSUME Typed, NEW w \in Watchers, NEW fields \in Connections, Set(w, fields)
    PROVE  Typed'
<1>1. watcher' \in [Watchers -> Connections]
  BY DEF Set, Typed
<1>2. UNCHANGED <<pc, spoken, plan, outcome, messages, effects, children, request, hub,
                 faults>>
  BY DEF Set, task, store, clients
<1> QED
  BY <1>1, <1>2 DEF Typed

\* The steps of a handoff, which only its turn's fields, its effect and its
\* child take part in.
Handoff(t) ==
    \/ GetEffect(t) \/ CreateEffect(t) \/ Fork(t) \/ Copy(t) \/ Seed(t) \/ Reply(t)
    \/ UpdateEffect(t)

\* The steps of the lock's keys and of the clients' own requests.
Others ==
    \/ Lapse
    \/ \E c \in Clients :
        ClientLocks(c) \/ ClientUnlocks(c) \/ VisitChild(c) \/ LeaveChild(c)

\* They concern no turn, but a key may be lost and an entry added.
LEMMA OthersFrame ==
    ASSUME Typed, Others
    PROVE  /\ UNCHANGED <<pc, spoken, plan, outcome, messages, refs, effects, children, hub,
                          watcher, peers>>
           /\ faults' = faults \/ Fault
           /\ lost \subseteq lost'
           /\ extra' \in {extra, extra + 1}
           /\ request' \in [Clients -> {"idle", "parent", "child", "over"}]
           /\ \A c \in Clients : request'[c] = "idle" => request[c] = "idle"
<1>1. CASE Lapse
  BY <1>1 DEF Lapse, task, store, clients, Typed
<1>2. ASSUME NEW c \in Clients,
             ClientLocks(c) \/ ClientUnlocks(c) \/ VisitChild(c) \/ LeaveChild(c)
      PROVE  /\ UNCHANGED <<pc, spoken, plan, outcome, messages, refs, effects, children, hub,
                            watcher, peers, faults, lost>>
             /\ extra' \in {extra, extra + 1}
             /\ \E where \in {"parent", "child", "over"} :
                   request' = [request EXCEPT ![c] = where]
  BY <1>2 DEF ClientLocks, ClientUnlocks, VisitChild, LeaveChild, task, store
<1>3. ASSUME NEW c \in Clients,
             ClientLocks(c) \/ ClientUnlocks(c) \/ VisitChild(c) \/ LeaveChild(c)
      PROVE  /\ request' \in [Clients -> {"idle", "parent", "child", "over"}]
             /\ \A d \in Clients : request'[d] = "idle" => request[d] = "idle"
  BY <1>2, <1>3 DEF Typed
<1> QED
  BY <1>1, <1>2, <1>3 DEF Others

\* Types of the steps of a turn up to its hooks.
LEMMA TurnTyped ==
    ASSUME Typed, NEW t \in Turns,
           \/ Start(t) \/ Begin(t) \/ Record(t) \/ Announce(t) \/ Complete(t) \/ Release(t)
           \/ Err(t) \/ Fail(t) \/ Evaluate(t) \/ Compact(t) \/ End(t)
    PROVE  Typed'
<1>1. /\ UNCHANGED <<effects, children, request, watcher>>
      /\ faults' \in 0..MaxFaults
  BY TurnHooksAssumption
  DEF Typed, Fault, clients, Start, Begin, Record, Announce, Complete, Release, Err, Fail, Evaluate,
      Compact, End
<1>2. pc' \in [Turns -> TurnSteps \union {"evaluate", "hooks"} \union HandoffSteps
                        \union Over]
  <2>1. \/ pc' = pc
        \/ \E step \in TurnSteps \union {"evaluate", "hooks"} \union Over : Goto(t, step)
    <3>1. CASE Start(t) \/ Begin(t) \/ Record(t) \/ Announce(t)
      BY <3>1 DEF TurnSteps, Over, Start, Begin, Record, Announce
    <3>2. CASE Complete(t) \/ Release(t) \/ Err(t) \/ Fail(t)
      BY <3>2 DEF TurnSteps, Over, Complete, Release, Err, Fail
    <3>3. CASE Evaluate(t) \/ Compact(t) \/ End(t)
      BY <3>3 DEF TurnSteps, Over, Evaluate, Compact, End
    <3> QED
      BY <3>1, <3>2, <3>3
  <2> QED
    BY <2>1 DEF Typed, Goto
<1>3. messages' \in Nat /\ spoken' \in [Turns -> Nat] /\ outcome' = outcome
  <2>1. messages' = messages \/ messages' = messages + 1
    BY DEF store, LeftBehind, Start, Begin, Record, Announce, Complete, Release, Err, Fail,
           Evaluate, Compact, End
  <2>2. spoken' = spoken \/ spoken' = [spoken EXCEPT ![t] = messages']
    BY DEF task, Start, Begin, Record, Announce, Complete, Release, Err, Fail, Evaluate,
           Compact, End
  <2>3. outcome' = outcome
    BY DEF task, Start, Begin, Record, Announce, Complete, Release, Err, Fail, Evaluate,
           Compact, End
  <2> QED
    BY <2>1, <2>2, <2>3 DEF Typed
<1>4. plan' = [u \in Turns |-> plan'[u]]
  <2>1. plan' = plan \/ \E x : plan' = [plan EXCEPT ![t] = x]
    BY DEF task, store, Start, Begin, Record, Announce, Complete, Release, Err, Fail, Evaluate,
           Compact, End
  <2> QED
    BY <2>1 DEF Typed
<1>5. hub' \in Seq(HubEvents)
  <2>1. hub' = hub \/ \E change \in {"running", "finalized", "completed", "failed"},
                         seq \in Nat : Publish(t, change, seq)
    BY DEF Typed, Start, Begin, Record, Announce, Complete, Release, Err, Fail, Evaluate,
           Compact, End
  <2> QED
    BY <2>1, PublishTyped DEF Typed
<1> QED
  BY <1>1, <1>2, <1>3, <1>4, <1>5 DEF Typed

\* A count of a child goes up by one.
LEMMA ChildTyped ==
    ASSUME Typed, NEW k
    PROVE  /\ [children EXCEPT ![k].seeds = @ + 1] \in [Keys -> ChildRows]
           /\ [children EXCEPT ![k].replies = @ + 1] \in [Keys -> ChildRows]
<1>1. CASE k \in Keys
  <2>1. children[k] \in ChildRows
    BY <1>1 DEF Typed
  <2>2. /\ [children[k] EXCEPT !.seeds = @ + 1] \in ChildRows
        /\ [children[k] EXCEPT !.replies = @ + 1] \in ChildRows
    BY <2>1 DEF ChildRows
  <2> QED
    BY <2>2 DEF Typed
<1>2. CASE k \notin Keys
  BY <1>2 DEF Typed
<1> QED
  BY <1>1, <1>2

\* Types of the steps of a handoff.
LEMMA HandoffTyped ==
    ASSUME Typed, NEW t \in Turns, Handoff(t)
    PROVE  Typed'
<1>1. UNCHANGED <<spoken, messages, request, hub, watcher>> /\ faults' \in 0..MaxFaults
  BY TurnHooksAssumption
  DEF Typed, store, clients, Fault, Handoff, GetEffect, CreateEffect, Fork, Copy, Seed, Reply,
      UpdateEffect
<1>2. pc' \in [Turns -> TurnSteps \union {"evaluate", "hooks"} \union HandoffSteps
                        \union Over]
  BY DEF Typed, HandoffSteps, Goto, Leave, Concludes, Handoff, GetEffect, CreateEffect,
         Fork, Copy, Seed, Reply, UpdateEffect
<1>3. plan' = [u \in Turns |-> plan'[u]]
  <2>1. plan' = plan \/ \E x : plan' = [plan EXCEPT ![t] = x]
    BY DEF Leave, Handoff, GetEffect, CreateEffect, Fork, Copy, Seed, Reply, UpdateEffect
  <2> QED
    BY <2>1 DEF Typed
<1>4. outcome' \in [Turns -> {"none", "ok", "failed", "unseeded"}]
  BY DEF Typed, Leave, Concludes, Handoff, GetEffect, CreateEffect, Fork, Copy, Seed,
         Reply, UpdateEffect
<1>5. effects' \in [Keys -> EffectRows]
  <2>1. \/ effects' = effects
        \/ \E row \in EffectRows : \E k : effects' = [effects EXCEPT ![k] = row]
    <3>1. CASE CreateEffect(t)
      BY <3>1 DEF CreateEffect, Created, EffectRows, Typed
    <3>2. CASE UpdateEffect(t)
      <4> DEFINE status == IF outcome[t] = "ok" THEN "completed" ELSE "failed"
                 ref == outcome[t] \in {"ok", "unseeded"} \/ effects[Key(t)].result
      <4>1. effects' = effects \/ effects' = Updated(Key(t), status, ref)
        BY <3>2 DEF UpdateEffect
      <4>2. ref \in BOOLEAN
        BY <3>2 DEF UpdateEffect
      <4>3. [status |-> status, result |-> ref] \in EffectRows
        <5> HIDE DEF ref
        <5> QED
          BY <4>2 DEF EffectRows
      <4> HIDE DEF status, ref
      <4> QED
        BY <4>1, <4>3 DEF Updated
    <3> QED
      BY <3>1, <3>2 DEF Handoff, GetEffect, Fork, Copy, Seed, Reply
  <2> QED
    BY <2>1 DEF Typed
<1>6. children' \in [Keys -> ChildRows]
  <2> DEFINE key == Key(t)
  <2>1. CASE Copy(t)
    <3>1. [children EXCEPT ![key].copied = spoken[t]] \in [Keys -> ChildRows]
      <4> HIDE DEF key
      <4> QED
        BY DEF Typed, ChildRows
    <3> QED
      BY <2>1, <3>1 DEF Copy, Typed
  <2>2. CASE Seed(t)
    <3>1. [children EXCEPT ![key].seeds = @ + 1] \in [Keys -> ChildRows]
      BY ChildTyped
    <3> QED
      BY <2>2, <3>1 DEF Seed, Typed
  <2>3. CASE Reply(t)
    <3>1. [children EXCEPT ![key].replies = @ + 1] \in [Keys -> ChildRows]
      BY ChildTyped
    <3> QED
      BY <2>3, <3>1 DEF Reply, Typed
  <2> QED
    BY <2>1, <2>2, <2>3
    DEF Typed, Handoff, GetEffect, CreateEffect, Fork, UpdateEffect
<1> QED
  BY <1>1, <1>2, <1>3, <1>4, <1>5, <1>6 DEF Typed

\* Types are kept by every step.
LEMMA TypedKept == Typed /\ [Next]_vars => Typed'
<1> SUFFICES ASSUME Typed, [Next]_vars PROVE Typed'
  OBVIOUS
<1>1. ASSUME NEW w \in Watchers,
             Snapshot(w) \/ Connect(w) \/ Fetch(w) \/ Hear(w) \/ Lag(w)
      PROVE  Typed'
  <2>1. watcher[w] \in Connections /\ Len(hub) \in Nat
    BY DEF Typed
  <2>2. CASE Snapshot(w)
    <3>1. [Away EXCEPT !.pc = "snapshot"] \in Connections
      BY DEF Away, Connections
    <3> QED
      BY <2>2, <3>1, SetTyped DEF Snapshot
  <2>3. CASE Connect(w)
    <3>1. [watcher[w] EXCEPT !.pc = "connected", !.pos = Len(hub)] \in Connections
      BY <2>1 DEF Connections
    <3> QED
      BY <2>3, <3>1, SetTyped DEF Connect
  <2>4. CASE Fetch(w)
    <3>0. 1..messages \in SUBSET Nat
      BY DEF Typed
    <3>1. [watcher[w] EXCEPT !.pc = "watching", !.known = 1..messages] \in Connections
      BY <2>1, <3>0 DEF Connections
    <3> QED
      BY <2>4, <3>1, SetTyped DEF Fetch
  <2>5. CASE Hear(w)
    <3>1. hub[watcher[w].pos + 1] \in HubEvents
      BY <2>1, <2>5 DEF Hear, Connections, Typed
    <3>2. Learn(w, hub[watcher[w].pos + 1]) \in SUBSET Nat
      BY <2>1, <3>1 DEF Learn, Connections, HubEvents
    <3>3. [watcher[w] EXCEPT !.pos = @ + 1, !.known = Learn(w, hub[watcher[w].pos + 1])]
             \in Connections
      <4> DEFINE known == Learn(w, hub[watcher[w].pos + 1])
      <4>1. watcher[w].pos + 1 \in Nat /\ known \in SUBSET Nat
        BY <2>1, <3>2 DEF Connections
      <4> HIDE DEF known
      <4>2. [watcher[w] EXCEPT !.pos = @ + 1, !.known = known] \in Connections
        BY <2>1, <4>1 DEF Connections
      <4> QED
        BY <4>2 DEF known
    <3> QED
      BY <2>5, <3>3, SetTyped DEF Hear
  <2>6. CASE Lag(w)
    <3>1. PICK pos \in watcher[w].pos..Len(hub) :
            Set(w, [watcher[w] EXCEPT !.pos = pos, !.lagged = TRUE, !.known = {}])
      BY <2>6 DEF Lag
    <3>2. pos \in Nat
      BY <2>1 DEF Connections
    <3>3. [watcher[w] EXCEPT !.pos = pos, !.lagged = TRUE, !.known = {}] \in Connections
      BY <2>1, <3>2 DEF Connections
    <3> QED
      BY <3>1, <3>3, SetTyped
  <2> QED
    BY <1>1, <2>2, <2>3, <2>4, <2>5, <2>6
<1>2. CASE Peer
  BY <1>2 DEF Peer, Typed, task, clients
<1>3. CASE Restart
  <2>1. Away \in Connections /\ << >> \in Seq(HubEvents) /\ "dead" \in Over
    BY DEF Away, Connections, Over
  <2> QED
    BY <1>3, <2>1, TurnHooksAssumption DEF Restart, Fault, Typed, task, store
<1>4. CASE UNCHANGED vars
  BY <1>4 DEF vars, Typed, task, store
<1>5. CASE Others
  BY <1>5, OthersFrame, TurnHooksAssumption DEF Typed, Fault
<1> QED
  BY <1>1, <1>2, <1>3, <1>4, <1>5, TurnTyped, HandoffTyped DEF Next, Handoff, Others

\* Types are an invariant.
LEMMA TypedInvariant == Spec => []Typed
<1>1. Init => Typed
  <2> SUFFICES ASSUME Init PROVE Typed
    OBVIOUS
  <2>1. /\ NoEffect \in EffectRows /\ NoChild \in ChildRows /\ Away \in Connections
        /\ "idle" \in TurnSteps
    BY DEF NoEffect, EffectRows, NoChild, ChildRows, Away, Connections, TurnSteps
  <2> QED
    BY <2>1, TurnHooksAssumption DEF Init, Typed
<1> QED
  BY <1>1, TypedKept, PTL DEF Spec

---------------------------------------------------------------------------
\* A turn at work, or its fork, has the lock, unless its key was lost.
Locked == \A t \in Turns : Working(t) /\ t \notin lost => lock = t

\* Locked holds of every behaviour.
LEMMA LockedInvariant == Spec => []Locked
<1>1. Init => Locked
  BY DEF Init, Locked, Working
<1>2. Typed /\ Locked /\ [Next]_vars => Locked'
  <2> SUFFICES ASSUME Typed, Locked, [Next]_vars PROVE Locked'
    OBVIOUS
  <2> USE TurnHooksAssumption DEF Locked, Working, Typed
  <2>1. ASSUME NEW t \in Turns,
               \/ Start(t) \/ Begin(t) \/ Record(t) \/ Announce(t) \/ Complete(t) \/ Release(t)
               \/ Err(t) \/ Fail(t) \/ Evaluate(t) \/ Compact(t) \/ End(t)
        PROVE  Locked'
    <3>1. CASE Start(t)
      BY <3>1 DEF Goto, Taken, Start
    <3>2. CASE Begin(t) \/ Record(t) \/ Announce(t) \/ Complete(t)
      BY <3>2 DEF Goto, Begin, Record, Announce, Complete
    <3>3. CASE Release(t) \/ Err(t)
      BY <3>3 DEF Goto, Freed, Release, Err
    <3>4. CASE Fail(t) \/ Evaluate(t) \/ Compact(t) \/ End(t)
      BY <3>4 DEF Goto, Taken, Fail, Evaluate, Compact, End
    <3> QED
      BY <2>1, <3>1, <3>2, <3>3, <3>4
  <2>2. ASSUME NEW t \in Turns, Handoff(t) PROVE Locked'
    BY <2>2 DEF Goto, Leave, Concludes, Freed, Taken, Handoff, GetEffect, CreateEffect, Fork,
                Copy, Seed, Reply, UpdateEffect
  <2>3. ASSUME NEW w \in Watchers,
               Snapshot(w) \/ Connect(w) \/ Fetch(w) \/ Hear(w) \/ Lag(w)
        PROVE  Locked'
    BY <2>3 DEF Set, Snapshot, Connect, Fetch, Hear, Lag
  <2>4. CASE Peer
    BY <2>4 DEF Peer
  <2>5. CASE Restart
    BY <2>5 DEF Restart, Over
  <2>6. CASE Lapse
    BY <2>6 DEF Lapse
  <2>7. ASSUME NEW c \in Clients,
               ClientLocks(c) \/ ClientUnlocks(c) \/ VisitChild(c) \/ LeaveChild(c)
        PROVE  Locked'
    BY <2>7 DEF Freed, ClientLocks, ClientUnlocks, VisitChild, LeaveChild
  <2>8. CASE UNCHANGED vars
    BY <2>8 DEF vars
  <2> QED
    BY <2>1, <2>2, <2>3, <2>4, <2>5, <2>6, <2>7, <2>8 DEF Next, Handoff
<1> QED
  BY <1>1, <1>2, TypedInvariant, PTL DEF Spec

---------------------------------------------------------------------------
\* What the hub has told of turns, failures aside: nothing of a turn that has
\* not begun, and of the turn that has the lock last, turns that lost their
\* keys apart.  Of a turn that goes on no failure was told.
Told == {i \in DOMAIN hub : hub[i].change # "failed"}

LastTold(t) ==
    \A i, k \in Told : i < k /\ hub[i].about = t => hub[k].about = t \/ hub[k].about \in lost

GoesOn(t) == \A i \in DOMAIN hub : hub[i].about = t => hub[i].change # "failed"

Runs ==
    /\ RunsDoNotInterleave
    /\ \A t \in Turns :
        /\ pc[t] \in {"idle", "starting"} => \A i \in DOMAIN hub : hub[i].about # t
        /\ pc[t] \in {"body", "recorded", "announced"} /\ t \notin lost => LastTold(t)
        /\ pc[t] \notin {"failed", "dead"} => GoesOn(t)

\* An event of the turn that was told of last, or of one that lost its key,
\* keeps the runs apart.
LEMMA PublishApart ==
    ASSUME Typed, RunsDoNotInterleave, NEW t \in Turns, NEW seq \in Nat,
           NEW change \in {"running", "finalized", "completed"},
           t \in lost \/ LastTold(t), GoesOn(t), Publish(t, change, seq), lost' = lost
    PROVE  /\ RunsDoNotInterleave'
           /\ \A u \in Turns : LastTold(u) /\ (u = t \/ t \in lost) => LastTold(u)'
           /\ \A i \in DOMAIN hub' :
                 \/ hub'[i].about = t /\ hub'[i].change # "failed"
                 \/ i \in DOMAIN hub /\ hub'[i] = hub[i]
<1> DEFINE event == [about |-> t, change |-> change, seq |-> seq]
<1>1. /\ Len(hub) \in Nat /\ DOMAIN hub = 1..Len(hub)
      /\ DOMAIN hub' = 1..(Len(hub) + 1)
      /\ hub'[Len(hub) + 1] = event
      /\ \A i \in 1..Len(hub) : hub'[i] = hub[i]
  BY DEF Typed, Publish, HubEvents
<1>2. event.about = t /\ event.change # "failed"
  OBVIOUS
<1> HIDE DEF event
<1>3. Told' = Told \union {Len(hub) + 1} /\ \A i \in Told : i \in 1..Len(hub)
  BY <1>1, <1>2 DEF Told
<1>4. ASSUME NEW u \in Turns, LastTold(u), u = t \/ t \in lost PROVE LastTold(u)'
  BY <1>1, <1>2, <1>3, <1>4 DEF LastTold
<1>5. RunsDoNotInterleave'
  <2>1. ASSUME NEW i \in Told', NEW j \in Told', NEW k \in Told',
               i < j, i < k, k < j, hub'[i].about = hub'[j].about
        PROVE  \/ hub'[k].about = hub'[i].about
               \/ hub'[i].about \in lost' \/ hub'[k].about \in lost'
    <3>1. i \in Told /\ k \in Told
      BY <1>1, <1>3, <2>1
    <3>2. hub'[i] = hub[i] /\ hub'[k] = hub[k]
      BY <1>1, <1>3, <3>1
    <3>3. CASE j \in Told
      <4>1. hub'[j] = hub[j]
        BY <1>1, <1>3, <3>3
      <4> QED
        BY <2>1, <3>1, <3>2, <3>3, <4>1 DEF RunsDoNotInterleave, Told
    <3>4. CASE j = Len(hub) + 1
      BY <1>1, <1>2, <2>1, <3>1, <3>2, <3>4 DEF LastTold
    <3> QED
      BY <1>3, <3>3, <3>4
  <2>2. ASSUME NEW i \in DOMAIN hub', NEW j \in DOMAIN hub',
               hub'[i].change = "failed", hub'[i].about = hub'[j].about
        PROVE  j <= i
    <3>1. i \in 1..Len(hub) /\ hub'[i] = hub[i]
      BY <1>1, <1>2, <2>2
    <3>2. CASE j \in 1..Len(hub)
      BY <1>1, <2>2, <3>1, <3>2 DEF RunsDoNotInterleave
    <3>3. CASE j = Len(hub) + 1
      BY <1>1, <1>2, <2>2, <3>1, <3>3 DEF GoesOn
    <3> QED
      BY <1>1, <3>2, <3>3
  <2> QED
    BY <2>1, <2>2 DEF RunsDoNotInterleave, Told
<1>6. \A i \in DOMAIN hub' :
         \/ hub'[i].about = t /\ hub'[i].change # "failed"
         \/ i \in DOMAIN hub /\ hub'[i] = hub[i]
  BY <1>1, <1>2
<1> QED
  BY <1>4, <1>5, <1>6

\* A failure changes nothing that was told, and is told last of its turn.
LEMMA PublishFailed ==
    ASSUME Typed, RunsDoNotInterleave, NEW t \in Turns, GoesOn(t),
           Publish(t, "failed", 0), lost' = lost
    PROVE  /\ Told' = Told /\ \A i \in Told : hub'[i] = hub[i]
           /\ RunsDoNotInterleave'
           /\ \A i \in DOMAIN hub' : hub'[i].about = t \/ (i \in DOMAIN hub /\ hub'[i] = hub[i])
<1> DEFINE event == [about |-> t, change |-> "failed", seq |-> 0]
<1>1. /\ Len(hub) \in Nat /\ DOMAIN hub = 1..Len(hub)
      /\ DOMAIN hub' = 1..(Len(hub) + 1)
      /\ hub'[Len(hub) + 1] = event
      /\ \A i \in 1..Len(hub) : hub'[i] = hub[i]
  BY DEF Typed, Publish, HubEvents
<1>2. event.about = t /\ event.change = "failed"
  OBVIOUS
<1> HIDE DEF event
<1>3. Told' = Told /\ \A i \in Told : hub'[i] = hub[i]
  BY <1>1, <1>2 DEF Told
<1>4. \A i, j, k \in Told : i < j /\ hub[i].about = hub[j].about /\ i < k /\ k < j =>
          hub[k].about = hub[i].about \/ hub[i].about \in lost \/ hub[k].about \in lost
  BY DEF RunsDoNotInterleave, Told
<1>5. ASSUME NEW i \in DOMAIN hub', NEW j \in DOMAIN hub',
             hub'[i].change = "failed", hub'[i].about = hub'[j].about
      PROVE  j <= i
  <2>1. CASE i = Len(hub) + 1
    BY <1>1, <2>1
  <2>2. CASE i \in 1..Len(hub) /\ j \in 1..Len(hub)
    BY <1>1, <1>5, <2>2 DEF RunsDoNotInterleave
  <2>3. CASE i \in 1..Len(hub) /\ j = Len(hub) + 1
    BY <1>1, <1>2, <1>5, <2>3 DEF GoesOn
  <2> QED
    BY <1>1, <2>1, <2>2, <2>3
<1>6. RunsDoNotInterleave'
  <2>1. \A i, j, k \in Told' : i < j /\ hub'[i].about = hub'[j].about /\ i < k /\ k < j =>
            hub'[k].about = hub'[i].about \/ hub'[i].about \in lost' \/ hub'[k].about \in lost'
    BY <1>3, <1>4
  <2> QED
    BY <1>5, <2>1 DEF RunsDoNotInterleave, Told
<1> QED
  BY <1>1, <1>2, <1>3, <1>6

\* Runs holds of every behaviour: what the hub told last is told of the turn that
\* holds the lock, or of one whose key was lost.
LEMMA RunsInvariant == Spec => []Runs
<1>1. Init => Runs
  BY DEF Init, Runs, RunsDoNotInterleave, Told, LastTold, GoesOn
<1>2. Typed /\ Locked /\ Runs /\ [Next]_vars => Runs'
  <2> SUFFICES ASSUME Typed, Locked, Runs, [Next]_vars PROVE Runs'
    OBVIOUS
  <2>1. ASSUME NEW t \in Turns, Begin(t) \/ Announce(t) \/ Complete(t) PROVE Runs'
    <3>1. \E change \in {"running", "finalized", "completed"}, seq \in Nat :
            Publish(t, change, seq)
      BY <2>1 DEF Typed, Begin, Announce, Complete
    <3>2. /\ t \in lost \/ LastTold(t)
          /\ GoesOn(t) /\ lost' = lost
      BY <2>1 DEF Runs, LastTold, Told, Begin, Announce, Complete
    <3>3. /\ RunsDoNotInterleave'
          /\ \A u \in Turns : LastTold(u) /\ (u = t \/ t \in lost) => LastTold(u)'
          /\ \A i \in DOMAIN hub' :
                \/ hub'[i].about = t /\ hub'[i].change # "failed"
                \/ i \in DOMAIN hub /\ hub'[i] = hub[i]
      BY <3>1, <3>2, PublishApart DEF Runs
    <3>4. /\ pc'[t] \in {"body", "announced", "completed"}
          /\ \A u \in Turns \ {t} : pc'[u] = pc[u]
      BY <2>1 DEF Typed, Goto, Begin, Announce, Complete
    <3>5. ASSUME NEW u \in Turns \ {t}, Working(u), u \notin lost PROVE t \in lost
      BY <2>1, <3>5 DEF Locked, Working, Begin, Announce, Complete
    <3>6. ASSUME NEW u \in Turns, pc'[u] \in {"idle", "starting"}, NEW i \in DOMAIN hub'
          PROVE  hub'[i].about # u
      BY <3>3, <3>4, <3>6 DEF Runs
    <3>7. ASSUME NEW u \in Turns, pc'[u] \in {"body", "recorded", "announced"}, u \notin lost
          PROVE  LastTold(u)'
      <4>1. CASE u = t
        BY <3>2, <3>3, <3>7, <4>1
      <4>2. CASE u # t
        <5>1. LastTold(u) /\ t \in lost
          BY <3>4, <3>5, <3>7, <4>2 DEF Runs, Working
        <5> QED
          BY <3>3, <5>1
      <4> QED
        BY <4>1, <4>2
    <3>8. ASSUME NEW u \in Turns, pc'[u] \notin {"failed", "dead"} PROVE GoesOn(u)'
      BY <3>2, <3>3, <3>4, <3>8 DEF Runs, GoesOn
    <3> QED
      BY <3>2, <3>3, <3>6, <3>7, <3>8 DEF Runs
  <2>2. ASSUME NEW t \in Turns, Fail(t) PROVE Runs'
    <3>1. Publish(t, "failed", 0) /\ pc' = [pc EXCEPT ![t] = "failed"] /\ lost' = lost
      BY <2>2 DEF Fail, Goto
    <3>2. GoesOn(t)
      BY <2>2 DEF Fail, Runs
    <3>3. /\ Told' = Told /\ \A i \in Told : hub'[i] = hub[i]
          /\ RunsDoNotInterleave'
          /\ \A i \in DOMAIN hub' : hub'[i].about = t \/ (i \in DOMAIN hub /\ hub'[i] = hub[i])
      BY <3>1, <3>2, PublishFailed DEF Runs
    <3>4. \A u \in Turns : LastTold(u) => LastTold(u)'
      BY <3>1, <3>3 DEF LastTold
    <3>5. pc'[t] = "failed" /\ \A u \in Turns \ {t} : pc'[u] = pc[u]
      BY <3>1 DEF Typed
    <3>6. \A u \in Turns \ {t} : GoesOn(u) => GoesOn(u)'
      BY <3>3 DEF GoesOn
    <3> QED
      BY <3>1, <3>3, <3>4, <3>5, <3>6 DEF Runs
  <2>3. ASSUME hub' = hub, lost \subseteq lost',
               \A t \in Turns :
                  /\ pc'[t] \in {"idle", "starting"} => pc[t] \in {"idle", "starting"}
                  /\ pc'[t] \in {"body", "recorded", "announced"} =>
                        pc[t] \in {"body", "recorded", "announced"}
                  /\ pc'[t] \notin {"failed", "dead"} => pc[t] \notin {"failed", "dead"}
        PROVE  Runs'
    <3>1. RunsDoNotInterleave'
      BY <2>3 DEF Runs, RunsDoNotInterleave
    <3>2. \A t \in Turns : (LastTold(t) => LastTold(t)') /\ (GoesOn(t) => GoesOn(t)')
      BY <2>3 DEF LastTold, Told, GoesOn
    <3> QED
      BY <2>3, <3>1, <3>2 DEF Runs
  <2>4. ASSUME NEW t \in Turns,
               \/ Start(t) \/ Record(t) \/ Release(t) \/ Err(t) \/ Evaluate(t) \/ Compact(t)
               \/ End(t)
        PROVE  Runs'
    BY <2>3, <2>4 DEF Typed, Goto, Start, Record, Release, Err, Evaluate, Compact, End
  <2>5. ASSUME NEW t \in Turns, Handoff(t) PROVE Runs'
    BY <2>3, <2>5 DEF Typed, Goto, Leave, Concludes, Handoff, GetEffect, CreateEffect,
                      Fork, Copy, Seed, Reply, UpdateEffect
  <2>6. ASSUME NEW w \in Watchers,
               Snapshot(w) \/ Connect(w) \/ Fetch(w) \/ Hear(w) \/ Lag(w)
        PROVE  Runs'
    BY <2>3, <2>6 DEF Set, Snapshot, Connect, Fetch, Hear, Lag
  <2>7. CASE Peer
    BY <2>3, <2>7 DEF Peer
  <2>8. CASE Restart
    BY <2>8 DEF Restart, Over, Typed, Runs, RunsDoNotInterleave, Told, LastTold, GoesOn
  <2>9. CASE Others
    BY <2>3, <2>9, OthersFrame
  <2>10. CASE UNCHANGED vars
    BY <2>3, <2>10 DEF vars
  <2> QED
    BY <2>1, <2>2, <2>4, <2>5, <2>6, <2>7, <2>8, <2>9, <2>10 DEF Next, Handoff, Others
<1> QED
  BY <1>1, <1>2, TypedInvariant, LockedInvariant, PTL DEF Spec

\* Whatever calls fail, guards are dropped and processes restart, watchers are
\* told of one turn of a session after the other, but for a turn whose key
\* expired under it, and of no turn after its failure.
THEOREM OneRunAtATime == Spec => []RunsDoNotInterleave
<1>1. Runs => RunsDoNotInterleave
  BY DEF Runs
<1> QED
  BY <1>1, RunsInvariant, PTL

---------------------------------------------------------------------------
\* Announced messages are there, and a watcher that did not lag knows those
\* that were announced before its place in the channel: it read the messages
\* after it had subscribed.
Heard ==
    /\ \A t \in Turns : pc[t] = "recorded" => spoken[t] \in 1..messages
    /\ \A i \in DOMAIN hub : hub[i].change = "finalized" => hub[i].seq \in 1..messages
    /\ \A w \in Watchers : watcher[w].pos <= Len(hub)
    /\ WatcherMissesNothing

\* The channel grows at its end.
LEMMA PublishGrows ==
    ASSUME Typed, NEW t \in Turns, NEW change, NEW seq, Publish(t, change, seq)
    PROVE  /\ Len(hub) \in Nat /\ DOMAIN hub = 1..Len(hub)
           /\ Len(hub') = Len(hub) + 1
           /\ DOMAIN hub' = 1..(Len(hub) + 1)
           /\ \A i \in 1..Len(hub) : hub'[i] = hub[i]
           /\ hub'[Len(hub) + 1] = [about |-> t, change |-> change, seq |-> seq]
  BY DEF Typed, Publish

\* Heard holds of every behaviour: a watcher knows what was announced before its
\* place in the channel, or has lagged.
LEMMA HeardInvariant == Spec => []Heard
<1>1. Init => Heard
  BY DEF Init, Heard, WatcherMissesNothing, Away
<1>2. Typed /\ Heard /\ [Next]_vars => Heard'
  <2> SUFFICES ASSUME Typed, Heard, [Next]_vars PROVE Heard'
    OBVIOUS
  <2>0. /\ Len(hub) \in Nat /\ DOMAIN hub = 1..Len(hub) /\ messages \in Nat
        /\ \A w \in Watchers : watcher[w].pos \in Nat
    BY DEF Typed, Connections
  <2>1. ASSUME NEW t \in Turns, NEW change, NEW seq, Publish(t, change, seq),
               watcher' = watcher, messages' \in Nat, messages' >= messages,
               change = "finalized" => seq \in 1..messages',
               \A u \in Turns : pc'[u] = "recorded" => pc[u] = "recorded" /\ spoken'[u] = spoken[u]
        PROVE  Heard'
    <3> DEFINE event == [about |-> t, change |-> change, seq |-> seq]
    <3>1. /\ Len(hub') = Len(hub) + 1
          /\ DOMAIN hub' = 1..(Len(hub) + 1)
          /\ \A i \in 1..Len(hub) : hub'[i] = hub[i]
          /\ hub'[Len(hub) + 1] = event
      BY <2>1, PublishGrows
    <3>2. event.change = change /\ event.seq = seq
      OBVIOUS
    <3> HIDE DEF event
    <3>3. \A i \in DOMAIN hub' : hub'[i].change = "finalized" => hub'[i].seq \in 1..messages'
      BY <2>0, <2>1, <3>1, <3>2 DEF Heard
    <3>4. WatcherMissesNothing' /\ \A w \in Watchers : watcher'[w].pos <= Len(hub')
      BY <2>0, <2>1, <3>1 DEF Heard, WatcherMissesNothing
    <3>5. \A u \in Turns : pc'[u] = "recorded" => spoken'[u] \in 1..messages'
      BY <2>0, <2>1 DEF Heard
    <3> QED
      BY <3>3, <3>4, <3>5 DEF Heard
  <2>2. ASSUME NEW t \in Turns, Begin(t) PROVE Heard'
    <3>1. /\ Publish(t, "running", 0) /\ watcher' = watcher
          /\ messages' \in {messages, messages + 1}
          /\ pc' = [pc EXCEPT ![t] = "body"] /\ spoken' = spoken
      BY <2>2 DEF Begin, Goto, task
    <3>2. messages' \in Nat /\ messages' >= messages
      BY <2>0, <3>1
    <3> QED
      BY <2>1, <3>1, <3>2 DEF Typed
  <2>3. ASSUME NEW t \in Turns, Announce(t) PROVE Heard'
    <3>1. /\ Publish(t, "finalized", spoken[t]) /\ watcher' = watcher
          /\ messages' = messages /\ pc[t] = "recorded"
          /\ pc' = [pc EXCEPT ![t] = "announced"] /\ spoken' = spoken
      BY <2>3 DEF Announce, Goto, task, store
    <3>2. spoken[t] \in 1..messages
      BY <3>1 DEF Heard
    <3> QED
      BY <2>0, <2>1, <3>1, <3>2 DEF Typed
  <2>4. ASSUME NEW t \in Turns, Complete(t) \/ Fail(t) PROVE Heard'
    <3>1. /\ Publish(t, "completed", 0) \/ Publish(t, "failed", 0)
          /\ watcher' = watcher /\ messages' = messages /\ spoken' = spoken
          /\ pc' = [pc EXCEPT ![t] = "completed"] \/ pc' = [pc EXCEPT ![t] = "failed"]
      BY <2>4 DEF Complete, Fail, Goto, task, store
    <3>2. \A u \in Turns : pc'[u] = "recorded" => pc[u] = "recorded" /\ spoken'[u] = spoken[u]
      BY <3>1 DEF Typed
    <3>3. messages' \in Nat /\ messages' >= messages
      BY <2>0, <3>1
    <3>4. CASE Publish(t, "completed", 0)
      BY <2>1, <3>1, <3>2, <3>3, <3>4
    <3>5. CASE Publish(t, "failed", 0)
      BY <2>1, <3>1, <3>2, <3>3, <3>5
    <3> QED
      BY <3>1, <3>4, <3>5
  <2>5. ASSUME UNCHANGED <<hub, watcher>>, messages' \in Nat, messages' >= messages,
               \A u \in Turns : pc'[u] = "recorded" =>
                    \/ pc[u] = "recorded" /\ spoken'[u] = spoken[u]
                    \/ spoken'[u] \in 1..messages'
        PROVE  Heard'
    BY <2>0, <2>5 DEF Heard, WatcherMissesNothing
  <2>6. ASSUME NEW t \in Turns, Record(t) PROVE Heard'
    <3>1. /\ UNCHANGED <<hub, watcher>> /\ messages' = messages + 1
          /\ spoken' = [spoken EXCEPT ![t] = messages + 1]
          /\ pc' = [pc EXCEPT ![t] = "recorded"]
      BY <2>6 DEF Record, Goto
    <3> QED
      BY <2>0, <2>5, <3>1 DEF Typed
  <2>7. ASSUME NEW t \in Turns,
               Start(t) \/ Release(t) \/ Err(t) \/ Evaluate(t) \/ Compact(t) \/ End(t)
        PROVE  Heard'
    <3>1. /\ UNCHANGED <<hub, watcher, spoken>> /\ messages' \in {messages, messages + 1}
          /\ \A u \in Turns : pc'[u] = "recorded" => pc[u] = "recorded"
      BY <2>7 DEF Typed, Goto, task, store, LeftBehind, Start, Release, Err, Evaluate, Compact,
                  End
    <3> QED
      BY <2>0, <2>5, <3>1
  <2>8. ASSUME NEW t \in Turns, Handoff(t) PROVE Heard'
    <3>1. /\ UNCHANGED <<hub, watcher, messages, spoken>>
          /\ \A u \in Turns : pc'[u] = "recorded" => pc[u] = "recorded"
      BY <2>8 DEF Typed, Goto, Leave, Concludes, store, Handoff, GetEffect, CreateEffect,
                  Fork, Copy, Seed, Reply, UpdateEffect
    <3> QED
      BY <2>0, <2>5, <3>1
  <2>9. ASSUME NEW w \in Watchers, NEW fields \in Connections, Set(w, fields),
               fields.pos <= Len(hub),
               fields.pc = "watching" /\ ~fields.lagged =>
                  \A i \in 1..fields.pos : hub[i].change = "finalized" =>
                                              hub[i].seq \in fields.known
        PROVE  Heard'
    <3>1. /\ watcher' = [watcher EXCEPT ![w] = fields]
          /\ UNCHANGED <<pc, spoken, messages, hub>>
      BY <2>9 DEF Set, task, store
    <3>2. watcher'[w] = fields /\ \A v \in Watchers \ {w} : watcher'[v] = watcher[v]
      BY <3>1 DEF Typed
    <3> QED
      BY <2>9, <3>1, <3>2 DEF Heard, WatcherMissesNothing
  <2>10. ASSUME NEW w \in Watchers, Snapshot(w) \/ Connect(w) PROVE Heard'
    <3> DEFINE first == [Away EXCEPT !.pc = "snapshot"]
               next == [watcher[w] EXCEPT !.pc = "connected", !.pos = Len(hub)]
    <3>1. watcher[w] \in Connections
      BY DEF Typed
    <3>2. first \in Connections /\ first.pos = 0 /\ first.pc = "snapshot"
      BY DEF Away, Connections
    <3>3. next \in Connections /\ next.pos = Len(hub) /\ next.pc = "connected"
      BY <2>0, <3>1 DEF Connections
    <3>4. Set(w, first) \/ Set(w, next)
      BY <2>10 DEF Snapshot, Connect
    <3> HIDE DEF first, next
    <3>5. CASE Set(w, first)
      BY <2>0, <2>9, <3>2, <3>5
    <3>6. CASE Set(w, next)
      BY <2>0, <2>9, <3>3, <3>6
    <3> QED
      BY <3>4, <3>5, <3>6
  <2>11. ASSUME NEW w \in Watchers, Fetch(w) PROVE Heard'
    <3> DEFINE fields == [watcher[w] EXCEPT !.pc = "watching", !.known = 1..messages]
    <3>1. watcher[w] \in Connections /\ 1..messages \in SUBSET Nat
      BY <2>0 DEF Typed
    <3>2. fields \in Connections /\ fields.pos = watcher[w].pos /\ fields.known = 1..messages
      BY <3>1 DEF Connections
    <3>3. Set(w, fields)
      BY <2>11 DEF Fetch
    <3> HIDE DEF fields
    <3> QED
      BY <2>0, <2>9, <3>2, <3>3 DEF Heard
  <2>12. ASSUME NEW w \in Watchers, Hear(w) PROVE Heard'
    <3> DEFINE event == hub[watcher[w].pos + 1]
               known == Learn(w, event)
               fields == [watcher[w] EXCEPT !.pos = @ + 1, !.known = known]
    <3>1. watcher[w] \in Connections /\ watcher[w].pc = "watching" /\ watcher[w].pos < Len(hub)
      BY <2>12 DEF Hear, Typed
    <3>2. event \in HubEvents
      BY <2>0, <3>1 DEF Typed
    <3>3. known \in SUBSET Nat
      BY <3>1, <3>2 DEF Learn, Connections, HubEvents
    <3>4. /\ ~watcher[w].lagged /\ event.change = "finalized" => event.seq \in known
          /\ watcher[w].known \subseteq known
      BY <3>1 DEF Learn, Connections
    <3>5. Set(w, fields)
      BY <2>12 DEF Hear
    <3> HIDE DEF known
    <3>6. /\ fields \in Connections /\ fields.pos = watcher[w].pos + 1
          /\ fields.lagged = watcher[w].lagged /\ fields.known = known
          /\ fields.pc = "watching"
      <4>1. watcher[w].pos \in Nat /\ watcher[w].pos + 1 \in Nat
        BY <2>0
      <4>2. fields.pos = watcher[w].pos + 1
        BY <3>1 DEF Connections
      <4>3. /\ fields.lagged = watcher[w].lagged /\ fields.known = known
            /\ fields.pc = "watching"
        BY <3>1 DEF Connections
      <4>4. fields \in Connections
        BY <3>1, <3>3, <4>1 DEF Connections
      <4> QED
        BY <4>2, <4>3, <4>4
    <3> HIDE DEF fields
    <3>7. ASSUME ~fields.lagged, NEW i \in 1..fields.pos, hub[i].change = "finalized"
          PROVE  hub[i].seq \in fields.known
      <4>1. CASE i \in 1..watcher[w].pos
        BY <3>1, <3>4, <3>6, <3>7, <4>1 DEF Heard, WatcherMissesNothing
      <4>2. CASE i = watcher[w].pos + 1
        BY <3>4, <3>6, <3>7, <4>2
      <4> QED
        BY <2>0, <3>6, <4>1, <4>2
    <3> QED
      BY <2>0, <2>9, <3>1, <3>5, <3>6, <3>7
  <2>13. ASSUME NEW w \in Watchers, Lag(w) PROVE Heard'
    <3>1. PICK pos \in watcher[w].pos..Len(hub) :
            Set(w, [watcher[w] EXCEPT !.pos = pos, !.lagged = TRUE, !.known = {}])
      BY <2>13 DEF Lag
    <3> DEFINE fields == [watcher[w] EXCEPT !.pos = pos, !.lagged = TRUE, !.known = {}]
    <3>2. watcher[w] \in Connections /\ pos \in Nat /\ pos <= Len(hub)
      BY <2>0 DEF Typed
    <3>3. fields \in Connections /\ fields.pos = pos /\ fields.lagged
      BY <3>2 DEF Connections
    <3>4. Set(w, fields)
      BY <3>1
    <3> HIDE DEF fields
    <3> QED
      BY <2>9, <3>2, <3>3, <3>4
  <2>14. CASE Peer
    <3>1. UNCHANGED <<hub, watcher, pc, spoken>> /\ messages' = messages + 1
      BY <2>14 DEF Peer, task
    <3> QED
      BY <2>0, <2>5, <3>1
  <2>15. CASE Restart
    <3>1. /\ hub' = << >> /\ watcher' = [w \in Watchers |-> Away]
          /\ \A u \in Turns : pc'[u] # "recorded"
      BY <2>15 DEF Restart, Over
    <3> QED
      BY <3>1 DEF Heard, WatcherMissesNothing, Away
  <2>16. CASE UNCHANGED vars
    BY <2>0, <2>5, <2>16 DEF vars, task, store
  <2>17. CASE Others
    <3>1. UNCHANGED <<hub, watcher, messages, spoken, pc>>
      BY <2>17, OthersFrame
    <3> QED
      BY <2>0, <2>5, <3>1
  <2> QED
    BY <2>2, <2>3, <2>4, <2>6, <2>7, <2>8, <2>10, <2>11, <2>12, <2>13, <2>14, <2>15,
       <2>16, <2>17 DEF Next, Handoff, Others
<1> QED
  BY <1>1, <1>2, TypedInvariant, PTL DEF Spec

\* A client that reads the messages once it is connected knows of every
\* message announced since, unless it lagged.
THEOREM WatchersKnow == Spec => []WatcherMissesNothing
<1>1. Heard => WatcherMissesNothing
  BY DEF Heard
<1> QED
  BY <1>1, HeardInvariant, PTL

---------------------------------------------------------------------------
\* A turn is in the middle of the handoff k.
Mid(t, k) == pc[t] \in HandoffSteps /\ Key(t) = k

\* A step of a handoff concerns its turn, its effect and its child, and the
\* action stays the same until the handoff is left.
LEMMA HandoffFrame ==
    ASSUME Typed, NEW t \in Turns, Handoff(t)
    PROVE  /\ UNCHANGED <<spoken, store>>
           /\ faults' <= faults
           /\ \A u \in Turns \ {t} : pc'[u] = pc[u] /\ outcome'[u] = outcome[u]
                                     /\ \A k : Mid(u, k)' <=> Mid(u, k)
           /\ \A k \in Keys : k # Key(t) => effects'[k] = effects[k] /\ children'[k] = children[k]
           /\ \A k : Mid(t, k)' => Key(t) = k
           /\ \A k \in Keys : k = Key(t) => k[1] = t
           /\ pc'[t] # "dead"
<1>1. UNCHANGED <<spoken, store>> /\ faults' <= faults
  BY TurnHooksAssumption
  DEF Typed, Fault, Handoff, GetEffect, CreateEffect, Fork, Copy, Seed, Reply, UpdateEffect
<1>2. /\ pc'[t] \in HandoffSteps \union {"hooks"}
      /\ \A u \in Turns \ {t} : pc'[u] = pc[u]
  BY DEF Typed, HandoffSteps, Goto, Leave, Concludes, Handoff, GetEffect, CreateEffect,
         Fork, Copy, Seed, Reply, UpdateEffect
<1>3. /\ pc'[t] \in HandoffSteps => plan' = plan
      /\ \A u \in Turns \ {t} : plan'[u] = plan[u] /\ outcome'[u] = outcome[u]
  BY DEF Typed, HandoffSteps, Goto, Leave, Concludes, Handoff, GetEffect, CreateEffect,
         Fork, Copy, Seed, Reply, UpdateEffect
<1>4. \A u \in Turns \ {t} : \A k : Mid(u, k)' <=> Mid(u, k)
  BY <1>2, <1>3 DEF Mid, Key
<1>5. \A k : Mid(t, k)' => Key(t) = k
  BY <1>3 DEF Mid, Key
<1>6. \A k \in Keys : k = Key(t) => k[1] = t
  BY DEF Key, Keys
<1>7. \A k \in Keys : k # Key(t) => effects'[k] = effects[k]
  BY DEF Typed, Created, Updated, Handoff, GetEffect, CreateEffect, Fork, Copy, Seed,
         Reply, UpdateEffect
<1>8. \A k \in Keys : k # Key(t) => children'[k] = children[k]
  BY DEF Typed, Handoff, GetEffect, CreateEffect, Fork, Copy, Seed, Reply, UpdateEffect
<1> QED
  BY <1>1, <1>2, <1>3, <1>4, <1>5, <1>6, <1>7, <1>8 DEF HandoffSteps

\* The other steps leave effects and children alone, and none of them is in
\* the middle of a handoff.
LEMMA OtherFrame ==
    ASSUME Typed, [Next]_vars, \A t \in Turns : ~Handoff(t)
    PROVE  /\ UNCHANGED <<effects, children>> /\ faults' <= faults
           /\ \A t \in Turns : \A k : Mid(t, k)' => Mid(t, k) /\ pc'[t] = pc[t]
                                               /\ outcome'[t] = outcome[t]
           /\ \A t \in Turns : \A k : Mid(t, k) => Mid(t, k)' \/ pc'[t] = "dead"
           /\ \A t \in Turns : pc[t] = "dead" => pc'[t] = "dead"
<1>1. ASSUME NEW t \in Turns,
             \/ Start(t) \/ Begin(t) \/ Record(t) \/ Announce(t) \/ Complete(t) \/ Release(t)
             \/ Err(t) \/ Fail(t) \/ Evaluate(t) \/ Compact(t) \/ End(t)
      PROVE  /\ UNCHANGED <<effects, children>> /\ faults' <= faults
             /\ pc[t] \notin HandoffSteps /\ pc'[t] \notin HandoffSteps
             /\ pc[t] # "dead"
             /\ outcome' = outcome
             /\ \A u \in Turns \ {t} : pc'[u] = pc[u] /\ plan'[u] = plan[u]
  <2>1. /\ UNCHANGED <<effects, children, outcome>> /\ faults' <= faults
    BY <1>1, TurnHooksAssumption
    DEF Typed, Fault, task, Start, Begin, Record, Announce, Complete, Release, Err, Fail,
        Evaluate, Compact, End
  <2>2. /\ pc[t] \notin HandoffSteps /\ pc'[t] \notin HandoffSteps /\ pc[t] # "dead"
        /\ \A u \in Turns \ {t} : pc'[u] = pc[u]
    BY <1>1
    DEF Typed, Goto, HandoffSteps, Start, Begin, Record, Announce, Complete, Release, Err, Fail,
        Evaluate, Compact, End
  <2>3. plan' = plan \/ \E x : plan' = [plan EXCEPT ![t] = x]
    BY <1>1 DEF task, store, Start, Begin, Record, Announce, Complete, Release, Err, Fail, Evaluate,
           Compact, End
  <2> QED
    BY <2>1, <2>2, <2>3 DEF Typed
<1>2. CASE \E t \in Turns :
             \/ Start(t) \/ Begin(t) \/ Record(t) \/ Announce(t) \/ Complete(t) \/ Release(t)
             \/ Err(t) \/ Fail(t) \/ Evaluate(t) \/ Compact(t) \/ End(t)
  <2>1. PICK t \in Turns :
          /\ UNCHANGED <<effects, children>> /\ faults' <= faults
          /\ pc[t] \notin HandoffSteps /\ pc'[t] \notin HandoffSteps
          /\ pc[t] # "dead"
          /\ outcome' = outcome
          /\ \A u \in Turns \ {t} : pc'[u] = pc[u] /\ plan'[u] = plan[u]
    BY <1>1, <1>2
  <2> QED
    BY <2>1 DEF Mid, Key
<1>3. CASE UNCHANGED <<effects, children, faults, pc, outcome, plan>>
  BY <1>3 DEF Typed, Mid, Key
<1>4. ASSUME NEW w \in Watchers,
             Snapshot(w) \/ Connect(w) \/ Fetch(w) \/ Hear(w) \/ Lag(w)
      PROVE  UNCHANGED <<effects, children, faults, pc, outcome, plan>>
  BY <1>4 DEF Set, task, Snapshot, Connect, Fetch, Hear, Lag
<1>5. CASE Peer \/ UNCHANGED vars
  <2>1. UNCHANGED <<effects, children, faults, pc, outcome, plan>>
    BY <1>5 DEF Peer, vars, task
  <2> QED
    BY <1>3, <2>1
<1>6. CASE Restart
  <2>1. /\ UNCHANGED <<effects, children>> /\ faults' <= faults
        /\ \A t \in Turns : pc'[t] \notin HandoffSteps
        /\ \A t \in Turns : pc[t] \in HandoffSteps => pc'[t] = "dead"
        /\ \A t \in Turns : pc[t] = "dead" => pc'[t] = "dead"
    BY <1>6, TurnHooksAssumption DEF Restart, Fault, Over, HandoffSteps, Typed
  <2> QED
    BY <2>1 DEF Mid
<1>7. CASE Others
  <2>1. UNCHANGED <<effects, children, pc, outcome, plan>> /\ faults' <= faults
    BY <1>7, OthersFrame, TurnHooksAssumption DEF Fault, Typed
  <2> QED
    BY <2>1 DEF Mid, Key
<1> QED
  BY <1>2, <1>3, <1>4, <1>5, <1>6, <1>7 DEF Next, Handoff, Others

---------------------------------------------------------------------------
\* The place of a turn is replaced.
LEMMA GotoMoves ==
    ASSUME Typed, NEW t \in Turns, NEW step, Goto(t, step)
    PROVE  pc'[t] = step
  BY DEF Typed, Goto

\* How a handoff went is kept for its update.
LEMMA ConcludesMoves ==
    ASSUME Typed, NEW t \in Turns, NEW how, Concludes(t, how)
    PROVE  pc'[t] = "update" /\ outcome'[t] = how
  BY DEF Typed, Goto, Concludes

\* How often a child was seeded, given the faults so far: once more than
\* faults only if the last time went well, is going well, or was cut short.
Well(k) ==
    \/ effects[k].status = "completed"
    \/ pc[k[1]] = "dead"
    \/ Mid(k[1], k) /\ pc[k[1]] = "reply"
    \/ Mid(k[1], k) /\ pc[k[1]] = "update" /\ outcome[k[1]] = "ok"

Seeding ==
    \A k \in Keys :
        /\ Mid(k[1], k) => effects[k].status # "completed"
        /\ children[k].seeds <= 1 + MaxFaults - faults
        /\ ~Well(k) => children[k].seeds <= MaxFaults - faults

\* Seeding holds of every behaviour: what a handoff's program counter says of
\* its effect and child.
LEMMA SeedingInvariant == Spec => []Seeding
<1>1. Init => Seeding
  <2> SUFFICES ASSUME Init, NEW k \in Keys
               PROVE  /\ Mid(k[1], k) => effects[k].status # "completed"
                      /\ children[k].seeds = 0 /\ faults = MaxFaults
    BY TurnHooksAssumption DEF Seeding
  <2> QED
    BY DEF Init, NoEffect, NoChild
<1>2. Typed /\ Seeding /\ [Next]_vars => Seeding'
  <2> SUFFICES ASSUME Typed, Seeding, [Next]_vars, NEW k \in Keys
               PROVE  /\ Mid(k[1], k)' => effects'[k].status # "completed"
                      /\ children'[k].seeds <= 1 + MaxFaults - faults'
                      /\ ~Well(k)' => children'[k].seeds <= MaxFaults - faults'
    BY DEF Seeding
  <2> DEFINE t == k[1]
  <2>0. /\ t \in Turns /\ children[k] \in ChildRows /\ children[k].seeds \in Nat
        /\ effects[k] \in EffectRows /\ children'[k].seeds \in Nat
        /\ faults \in Nat /\ faults' \in Nat /\ MaxFaults \in Nat
        /\ faults' <= faults
    <3>1. Typed'
      BY TypedKept
    <3>2. t \in Turns
      BY DEF Keys
    <3>3. children[k] \in ChildRows /\ effects[k] \in EffectRows /\ children'[k] \in ChildRows
      BY <3>1 DEF Typed
    <3>4. faults \in Nat /\ faults' \in Nat /\ MaxFaults \in Nat
      BY <3>1, TurnHooksAssumption DEF Typed
    <3>5. faults' <= faults
      BY OtherFrame, HandoffFrame
    <3> QED
      BY <3>2, <3>3, <3>4, <3>5 DEF ChildRows
  <2>1. CASE \A u \in Turns : ~Handoff(u)
    <3>1. Well(k) => Well(k)'
      BY <2>0, <2>1, OtherFrame DEF Well
    <3> QED
      BY <2>0, <2>1, <3>1, OtherFrame DEF Seeding
  <2>2. ASSUME NEW u \in Turns, Handoff(u), k # Key(u)
        PROVE  /\ Mid(k[1], k)' => effects'[k].status # "completed"
               /\ children'[k].seeds <= 1 + MaxFaults - faults'
               /\ ~Well(k)' => children'[k].seeds <= MaxFaults - faults'
    <3>1. effects'[k] = effects[k] /\ children'[k] = children[k] /\ faults' <= faults
      BY <2>2, HandoffFrame
    <3>2. CASE t = u
      <4>1. ~Mid(t, k) /\ ~Mid(t, k)'
        BY <2>2, <3>2, HandoffFrame DEF Mid
      <4>2. pc[t] # "dead"
        BY <2>2, <3>2 DEF Handoff, GetEffect, CreateEffect, Fork, Copy, Seed, Reply,
                          UpdateEffect
      <4>3. Well(k) => Well(k)'
        BY <3>1, <4>1, <4>2 DEF Well
      <4> QED
        BY <2>0, <3>1, <4>1, <4>3 DEF Seeding
    <3>3. CASE t # u
      <4>1. pc'[t] = pc[t] /\ outcome'[t] = outcome[t] /\ (Mid(t, k)' <=> Mid(t, k))
        BY <2>0, <2>2, <3>3, HandoffFrame
      <4>2. Well(k) => Well(k)'
        BY <3>1, <4>1 DEF Well
      <4> QED
        BY <2>0, <3>1, <4>1, <4>2 DEF Seeding
    <3> QED
      BY <3>2, <3>3
  <2>3. ASSUME Handoff(t), k = Key(t)
        PROVE  /\ Mid(k[1], k)' => effects'[k].status # "completed"
               /\ children'[k].seeds <= 1 + MaxFaults - faults'
               /\ ~Well(k)' => children'[k].seeds <= MaxFaults - faults'
    <3>0. /\ effects[k].status # "completed" \/ pc[t] = "hooks"
          /\ pc[t] \in {"create", "fork", "copy", "seed", "update"} /\ outcome[t] # "ok" =>
                children[k].seeds <= MaxFaults - faults
          /\ pc[t] \in {"create", "fork", "copy", "seed"} => children[k].seeds <= MaxFaults - faults
      <4>1. pc[t] \in HandoffSteps => Mid(t, k)
        BY <2>3 DEF Mid
      <4>2. pc[t] \in HandoffSteps \union {"hooks"}
        BY <2>3 DEF Handoff, GetEffect, CreateEffect, Fork, Copy, Seed, Reply,
                    UpdateEffect, HandoffSteps
      <4> QED
        BY <4>1, <4>2 DEF Seeding, Well, HandoffSteps
    <3>1. CASE GetEffect(t)
      <4>1. UNCHANGED <<effects, children>>
        BY <3>1 DEF GetEffect, store
      <4>2. /\ pc[t] = "hooks"
            /\ pc'[t] = "hooks" \/ effects[k].status # "completed"
        <5>1. CASE Leave(t)
          BY <2>0, <3>1, <5>1, GotoMoves DEF GetEffect, Leave
        <5>2. CASE Status(Key(t)) # "completed"
          BY <2>3, <3>1, <5>2 DEF GetEffect, Status
        <5> QED
          BY <3>1, <5>1, <5>2 DEF GetEffect
      <4>3. Well(k) => Well(k)'
        BY <4>1, <4>2 DEF Well, Mid, HandoffSteps
      <4>4. Mid(t, k)' => effects'[k].status # "completed"
        BY <4>1, <4>2 DEF Mid, HandoffSteps
      <4> QED
        BY <2>0, <4>1, <4>3, <4>4 DEF Seeding
    <3>2. CASE CreateEffect(t) \/ Fork(t) \/ Copy(t)
      <4>1. /\ pc[t] \in {"create", "fork", "copy"}
            /\ children'[k].seeds = children[k].seeds
        <5>1. /\ pc[t] \in {"create", "fork", "copy"}
              /\ \/ children' = children
                 \/ children' = [children EXCEPT ![Key(t)].copied = spoken[t]]
          BY <3>2 DEF CreateEffect, Fork, Copy
        <5>2. children[k] \in ChildRows /\ children \in [Keys -> ChildRows]
          BY DEF Typed
        <5>3. CASE children' = [children EXCEPT ![Key(t)].copied = spoken[t]]
          <6>1. \/ children'[k] = children[k]
                \/ children'[k] = [children[k] EXCEPT !.copied = spoken[t]]
            BY <5>2, <5>3
          <6> QED
            BY <5>1, <5>2, <6>1 DEF ChildRows
        <5> QED
          BY <5>1, <5>3
      <4>2. effects'[k].status # "completed"
        <5>1. CASE CreateEffect(t)
          <6>1. effects' \in {effects, Created(k)}
            BY <2>3, <5>1 DEF CreateEffect
          <6>2. effects[k].status # "completed" /\ effects \in [Keys -> EffectRows]
            BY <3>0, <4>1 DEF Typed
          <6> QED
            BY <6>1, <6>2 DEF Created
        <5>2. CASE Fork(t) \/ Copy(t)
          <6>1. effects' = effects
            BY <5>2 DEF Fork, Copy, store
          <6> QED
            BY <3>0, <4>1, <6>1
        <5> QED
          BY <3>2, <5>1, <5>2
      <4> QED
        BY <2>0, <3>0, <4>1, <4>2
    <3>3. CASE Seed(t)
      <4>1. pc[t] = "seed" /\ effects' = effects
        BY <3>3 DEF Seed
      <4>2. CASE children' = [children EXCEPT ![Key(t)].seeds = @ + 1] /\ Goto(t, "reply")
        <5>1. children'[k].seeds = children[k].seeds + 1
          BY <2>0, <2>3, <4>2 DEF Typed, ChildRows
        <5>2. pc'[t] = "reply" /\ plan' = plan
          BY <2>0, <3>3, <4>2, GotoMoves DEF Seed
        <5>3. Mid(t, k)'
          BY <2>3, <5>2 DEF Mid, Key, HandoffSteps
        <5>4. Well(k)'
          BY <5>2, <5>3 DEF Well
        <5> QED
          BY <2>0, <3>0, <4>1, <5>1, <5>4
      <4>3. CASE children' = children
        BY <2>0, <3>0, <4>1, <4>3
      <4>4. CASE children' = [children EXCEPT ![Key(t)].seeds = @ + 1] /\ Fault
        <5>1. children'[k].seeds = children[k].seeds + 1 /\ faults' = faults - 1
          BY <2>0, <2>3, <4>4 DEF Typed, ChildRows, Fault
        <5> QED
          BY <2>0, <3>0, <4>1, <5>1
      <4> QED
        BY <3>3, <4>2, <4>3, <4>4 DEF Seed
    <3>4. CASE Reply(t)
      <4>1. pc[t] = "reply" /\ effects' = effects /\ children'[k].seeds = children[k].seeds
        <5>1. \/ children' = children
              \/ children' = [children EXCEPT ![Key(t)].replies = @ + 1]
          BY <3>4 DEF Reply
        <5>2. children'[k].seeds = children[k].seeds
          <6>1. [children[k] EXCEPT !.replies = @ + 1].seeds = children[k].seeds
            BY <2>0 DEF ChildRows
          <6>2. children' = [children EXCEPT ![k].replies = @ + 1] =>
                   children'[k] = [children[k] EXCEPT !.replies = @ + 1]
            BY DEF Typed
          <6> QED
            BY <2>3, <5>1, <6>1, <6>2
        <5> QED
          BY <3>4, <5>2 DEF Reply
      <4>2. children[k].seeds <= 1 + MaxFaults - faults
        BY DEF Seeding
      <4>3. CASE Concludes(t, "ok")
        <5>1. pc'[t] = "update" /\ outcome'[t] = "ok" /\ plan' = plan
          BY <2>0, <3>4, <4>3, ConcludesMoves DEF Reply
        <5>2. Mid(t, k)'
          BY <2>3, <5>1 DEF Mid, Key, HandoffSteps
        <5>3. Well(k)'
          BY <5>1, <5>2 DEF Well
        <5> QED
          BY <2>0, <3>0, <4>1, <4>2, <5>3
      <4>4. CASE Fault
        <5>1. faults' = faults - 1
          BY <4>4 DEF Fault
        <5> QED
          BY <2>0, <3>0, <4>1, <4>2, <5>1
      <4> QED
        BY <3>4, <4>3, <4>4 DEF Reply
    <3>5. CASE UpdateEffect(t)
      <4>1. pc[t] = "update" /\ children' = children /\ pc'[t] = "hooks"
        BY <2>0, <3>5, GotoMoves DEF UpdateEffect, Leave
      <4>2. ~Mid(t, k)'
        BY <4>1 DEF Mid, HandoffSteps
      <4>3. children[k].seeds <= 1 + MaxFaults - faults
        BY DEF Seeding
      <4>4. CASE outcome[t] # "ok"
        BY <2>0, <3>0, <4>1, <4>2, <4>4
      <4>5. CASE outcome[t] = "ok" /\ faults' = faults - 1
        BY <2>0, <4>1, <4>2, <4>3, <4>5
      <4>6. CASE outcome[t] = "ok" /\ effects' = Updated(Key(t), "completed", TRUE)
        <5>1. effects'[k].status = "completed"
          BY <2>0, <2>3, <4>6 DEF Updated, Typed
        <5> QED
          BY <2>0, <4>1, <4>2, <4>3, <5>1 DEF Well
      <4> QED
        BY <3>5, <4>4, <4>5, <4>6 DEF UpdateEffect, Fault
    <3> QED
      BY <2>3, <3>1, <3>2, <3>3, <3>4, <3>5 DEF Handoff
  <2>4. ASSUME NEW u \in Turns, Handoff(u), k = Key(u) PROVE u = t
    BY <2>4, HandoffFrame
  <2> QED
    BY <2>1, <2>2, <2>3, <2>4
<1> QED
  BY <1>1, <1>2, TypedInvariant, PTL DEF Spec

\* A handoff that comes again seeds its child again only if something failed
\* before, however often its hook is given and whoever restarts.
THEOREM SeededOncePerFault == Spec => []SeededAgainOnlyAfterFault
<1>1. Seeding => SeededAgainOnlyAfterFault
  BY DEF Seeding, SeededAgainOnlyAfterFault
<1> QED
  BY <1>1, SeedingInvariant, PTL

---------------------------------------------------------------------------
\* What a handoff has done by the time it says so.
Referenced == {"completed", "evaluate", "hooks"} \union HandoffSteps

Seeded(k) ==
    Mid(k[1], k) /\ (pc[k[1]] = "reply" \/ (pc[k[1]] = "update" /\ outcome[k[1]] = "ok"))

Finished ==
    /\ \A t \in Turns : pc[t] \in Referenced => spoken[t] \in refs
    /\ \A k \in Keys :
        /\ pc[k[1]] \in {"idle", "starting", "body"} =>
              effects[k].status = "none" /\ children[k].copied = 0
        /\ children[k].copied \in {0, spoken[k[1]]}
        /\ Mid(k[1], k) /\ pc[k[1]] = "seed" => children[k].copied = spoken[k[1]]
        /\ Seeded(k) => children[k].copied = spoken[k[1]] /\ children[k].seeds > 0
        /\ Seeded(k) /\ pc[k[1]] = "update" => children[k].replies > 0
    /\ CompletedMeansSeeded

\* The other steps change what a turn said only in its body, and what is
\* referenced stays so.
LEMMA OtherTurns ==
    ASSUME Typed, [Next]_vars, \A t \in Turns : ~Handoff(t)
    PROVE  /\ refs \subseteq refs'
           /\ \A t \in Turns :
                /\ pc[t] # "body" => spoken'[t] = spoken[t]
                /\ pc'[t] \in {"idle", "starting", "body"} => pc[t] \in {"idle", "starting", "body"}
                /\ pc'[t] \in Referenced =>
                      \/ pc[t] \in Referenced
                      \/ spoken'[t] = spoken[t] /\ spoken[t] \in refs'
<1>1. ASSUME NEW t \in Turns,
             \/ Start(t) \/ Begin(t) \/ Record(t) \/ Announce(t) \/ Release(t)
             \/ Err(t) \/ Fail(t) \/ Evaluate(t) \/ Compact(t) \/ End(t) \/ Complete(t)
      PROVE  /\ refs \subseteq refs'
             /\ \A u \in Turns :
                  /\ pc[u] # "body" => spoken'[u] = spoken[u]
                  /\ pc'[u] \in {"idle", "starting", "body"} => pc[u] \in {"idle", "starting", "body"}
                  /\ pc'[u] \in Referenced =>
                        \/ pc[u] \in Referenced
                        \/ spoken'[u] = spoken[u] /\ spoken[u] \in refs'
  <2>1. refs \subseteq refs'
    BY <1>1 DEF store, Reference, LeftBehind, Start, Begin, Record, Announce, Complete,
                Release, Err, Fail, Evaluate, Compact, End
  <2>2. \A u \in Turns : pc[u] # "body" => spoken'[u] = spoken[u]
    BY <1>1 DEF Typed, task, Start, Begin, Record, Announce, Complete, Release, Err, Fail,
                Evaluate, Compact, End
  <2>3. \A u \in Turns : pc'[u] \in {"idle", "starting", "body"} => pc[u] \in {"idle", "starting", "body"}
    BY <1>1 DEF Typed, Goto, Start, Begin, Record, Announce, Complete, Release, Err, Fail,
                Evaluate, Compact, End
  <2>4. CASE Complete(t)
    <3>1. /\ spoken' = spoken /\ spoken[t] \in refs'
          /\ \A u \in Turns \ {t} : pc'[u] = pc[u]
      BY <2>4 DEF Complete, Reference, Goto, Typed, task
    <3> QED
      BY <2>1, <2>2, <2>3, <3>1
  <2>5. CASE ~Complete(t)
    <3>1. \A u \in Turns : pc'[u] \in Referenced => pc[u] \in Referenced
      BY <1>1, <2>5
      DEF Typed, Referenced, HandoffSteps, Goto, Start, Begin, Record, Announce, Release, Err,
          Fail, Evaluate, Compact, End
    <3> QED
      BY <2>1, <2>2, <2>3, <3>1
  <2> QED
    BY <2>4, <2>5
<1>2. CASE UNCHANGED <<refs, spoken, pc>>
  BY <1>2
<1>3. ASSUME NEW w \in Watchers,
             Snapshot(w) \/ Connect(w) \/ Fetch(w) \/ Hear(w) \/ Lag(w)
      PROVE  UNCHANGED <<refs, spoken, pc>>
  BY <1>3 DEF Set, task, store, Snapshot, Connect, Fetch, Hear, Lag
<1>4. CASE Peer \/ UNCHANGED vars
  <2>1. UNCHANGED <<refs, spoken, pc>>
    BY <1>4 DEF Peer, vars, task, store
  <2> QED
    BY <1>2, <2>1
<1>5. CASE Restart
  <2>1. /\ UNCHANGED <<refs, spoken>>
        /\ \A t \in Turns : pc'[t] \notin Referenced
        /\ \A t \in Turns : pc'[t] \in {"idle", "starting", "body"} => pc[t] = "idle"
    BY <1>5 DEF Restart, Over, Referenced, HandoffSteps, Typed, task, store
  <2> QED
    BY <2>1
<1>6. CASE Others
  BY <1>6, <1>2, OthersFrame
<1> QED
  BY <1>1, <1>2, <1>3, <1>4, <1>5, <1>6 DEF Next, Handoff, Others

\* Finished holds of every behaviour: a child that is seeded, and an effect that
\* is completed.
LEMMA FinishedInvariant == Spec => []Finished
<1>1. Init => Finished
  BY DEF Init, Finished, CompletedMeansSeeded, Referenced, HandoffSteps, Seeded, Mid,
         NoEffect, NoChild, Keys
<1>2. Typed /\ Seeding /\ Finished /\ [Next]_vars => Finished'
  <2> SUFFICES ASSUME Typed, Seeding, Finished, [Next]_vars PROVE Finished'
    OBVIOUS
  <2>1. CASE \A u \in Turns : ~Handoff(u)
    <3>1. UNCHANGED <<effects, children>>
      BY <2>1, OtherFrame
    <3>2. \A t \in Turns : pc'[t] \in Referenced => spoken'[t] \in refs'
      <4>1. \A t \in Turns : pc[t] \in Referenced => pc[t] # "body"
        BY DEF Referenced, HandoffSteps
      <4> QED
        BY <2>1, <4>1, OtherTurns DEF Finished
    <3>3. ASSUME NEW k \in Keys
          PROVE  /\ pc'[k[1]] \in {"idle", "starting", "body"} =>
                       effects'[k].status = "none" /\ children'[k].copied = 0
                 /\ children'[k].copied \in {0, spoken'[k[1]]}
                 /\ Mid(k[1], k)' /\ pc'[k[1]] = "seed" => children'[k].copied = spoken'[k[1]]
                 /\ Seeded(k)' => children'[k].copied = spoken'[k[1]] /\ children'[k].seeds > 0
                 /\ Seeded(k)' /\ pc'[k[1]] = "update" => children'[k].replies > 0
      <4>1. k[1] \in Turns
        BY DEF Keys
      <4>2. Mid(k[1], k)' => /\ Mid(k[1], k) /\ pc'[k[1]] = pc[k[1]]
                             /\ outcome'[k[1]] = outcome[k[1]]
        BY <2>1, <4>1, OtherFrame
      <4>3. Seeded(k)' => Seeded(k)
        BY <4>2 DEF Seeded
      <4>4. pc[k[1]] # "body" => spoken'[k[1]] = spoken[k[1]]
        BY <2>1, <4>1, OtherTurns
      <4>5. pc[k[1]] = "body" => ~Mid(k[1], k)
        BY DEF Mid, HandoffSteps
      <4>6. pc'[k[1]] \in {"idle", "starting", "body"} => pc[k[1]] \in {"idle", "starting", "body"}
        BY <2>1, <4>1, OtherTurns
      <4> QED
        BY <3>1, <4>2, <4>3, <4>4, <4>5, <4>6 DEF Finished, Seeded
    <3>4. ASSUME NEW k \in Keys, effects'[k].status = "completed"
          PROVE  /\ effects'[k].result
                 /\ children'[k].copied = spoken'[k[1]] /\ spoken'[k[1]] \in refs'
                 /\ children'[k].seeds > 0 /\ children'[k].replies > 0
      <4>1. k[1] \in Turns /\ effects[k].status = "completed"
        BY <3>1, <3>4 DEF Keys
      <4>2. pc[k[1]] # "body"
        BY <4>1 DEF Finished
      <4> QED
        BY <2>1, <3>1, <4>1, <4>2, OtherTurns DEF Finished, CompletedMeansSeeded
    <3> QED
      BY <3>2, <3>3, <3>4 DEF Finished, CompletedMeansSeeded
  <2>2. ASSUME NEW u \in Turns, Handoff(u) PROVE Finished'
    <3>1. /\ UNCHANGED <<spoken, refs>>
          /\ \A v \in Turns \ {u} : pc'[v] = pc[v] /\ outcome'[v] = outcome[v]
                                     /\ \A k : Mid(v, k)' <=> Mid(v, k)
          /\ \A k \in Keys : k # Key(u) => effects'[k] = effects[k] /\ children'[k] = children[k]
          /\ \A k : Mid(u, k)' => Key(u) = k
          /\ \A k \in Keys : k = Key(u) => k[1] = u
      BY <2>2, HandoffFrame DEF store
    <3>2. pc[u] \in HandoffSteps \union {"hooks"} /\ pc'[u] \in HandoffSteps \union {"hooks"}
      BY <2>2 DEF Typed, HandoffSteps, Goto, Leave, Concludes, Handoff, GetEffect,
                  CreateEffect, Fork, Copy, Seed, Reply, UpdateEffect
    <3>3. \A t \in Turns : pc'[t] \in Referenced => spoken'[t] \in refs'
      BY <3>1, <3>2 DEF Finished, Referenced
    <3>4. ASSUME NEW k \in Keys, k # Key(u)
          PROVE  /\ pc'[k[1]] \in {"idle", "starting", "body"} =>
                       effects'[k].status = "none" /\ children'[k].copied = 0
                 /\ children'[k].copied \in {0, spoken'[k[1]]}
                 /\ Mid(k[1], k)' /\ pc'[k[1]] = "seed" => children'[k].copied = spoken'[k[1]]
                 /\ Seeded(k)' => children'[k].copied = spoken'[k[1]] /\ children'[k].seeds > 0
                 /\ Seeded(k)' /\ pc'[k[1]] = "update" => children'[k].replies > 0
                 /\ effects'[k].status = "completed" =>
                       /\ effects'[k].result
                       /\ children'[k].copied = spoken'[k[1]] /\ spoken'[k[1]] \in refs'
                       /\ children'[k].seeds > 0 /\ children'[k].replies > 0
      <4>1. k[1] \in Turns /\ effects'[k] = effects[k] /\ children'[k] = children[k]
        BY <3>1, <3>4 DEF Keys
      <4>2. CASE k[1] = u
        <5>1. ~Mid(k[1], k)' /\ pc'[k[1]] \notin {"idle", "starting", "body"}
          BY <3>1, <3>2, <3>4, <4>2 DEF HandoffSteps
        <5> QED
          BY <3>1, <4>1, <5>1 DEF Finished, CompletedMeansSeeded, Seeded
      <4>3. CASE k[1] # u
        <5>1. /\ pc'[k[1]] = pc[k[1]] /\ outcome'[k[1]] = outcome[k[1]]
              /\ Mid(k[1], k)' <=> Mid(k[1], k)
          BY <3>1, <4>1, <4>3
        <5> QED
          BY <3>1, <4>1, <5>1 DEF Finished, CompletedMeansSeeded, Seeded
      <4> QED
        BY <4>2, <4>3
    <3>5. ASSUME NEW k \in Keys, k = Key(u)
          PROVE  /\ children'[k].copied \in {0, spoken[u]}
                 /\ Mid(u, k)' /\ pc'[u] = "seed" => children'[k].copied = spoken[u]
                 /\ Seeded(k)' => children'[k].copied = spoken[u] /\ children'[k].seeds > 0
                 /\ Seeded(k)' /\ pc'[u] = "update" => children'[k].replies > 0
                 /\ effects'[k].status = "completed" =>
                       /\ effects'[k].result
                       /\ children'[k].copied = spoken[u] /\ spoken[u] \in refs
                       /\ children'[k].seeds > 0 /\ children'[k].replies > 0
      <4>0. /\ k[1] = u /\ children[k] \in ChildRows /\ effects[k] \in EffectRows
            /\ pc[u] \in HandoffSteps => Mid(u, k)
            /\ spoken[u] \in refs
            /\ children[k].copied \in {0, spoken[u]}
        BY <3>1, <3>2, <3>5 DEF Mid, Typed, Finished, Referenced
      <4>1. CASE GetEffect(u) \/ CreateEffect(u)
        <5>1. children' = children
          BY <4>1 DEF GetEffect, CreateEffect, store
        <5>2. pc'[u] \in {"hooks", "create", "fork"}
          BY <4>1, GotoMoves DEF GetEffect, CreateEffect, Leave
        <5>3. effects'[k].status = "completed" => effects'[k] = effects[k]
          BY <3>5, <4>0, <4>1 DEF GetEffect, CreateEffect, Created, Typed, store
        <5> QED
          BY <4>0, <5>1, <5>2, <5>3 DEF Finished, CompletedMeansSeeded, Seeded
      <4>2. CASE Fork(u)
        <5>1. UNCHANGED <<effects, children>> /\ Mid(u, k)
          BY <4>0, <4>2 DEF Fork, HandoffSteps
        <5>2. effects[k].status # "completed"
          BY <4>0, <5>1 DEF Seeding
        <5>3. \/ pc'[u] = "update" /\ outcome'[u] = "failed"
              \/ pc'[u] = "seed" /\ children[k].copied # 0
              \/ pc'[u] = "copy"
          BY <3>5, <4>2, GotoMoves, ConcludesMoves DEF Fork, Forked
        <5> QED
          BY <4>0, <5>1, <5>2, <5>3 DEF Seeded
      <4>3. CASE Copy(u)
        <5>1. effects' = effects /\ Mid(u, k)
          BY <4>0, <4>3 DEF Copy, HandoffSteps
        <5>2. effects[k].status # "completed"
          BY <4>0, <5>1 DEF Seeding
        <5> DEFINE copied == [children EXCEPT ![Key(u)].copied = spoken[u]]
        <5>3. copied[k].copied = spoken[u]
          BY <3>5, <4>0 DEF Typed, ChildRows
        <5>4. \/ pc'[u] = "seed" /\ children' = copied
              \/ pc'[u] = "update" /\ outcome'[u] = "failed" /\ children' \in {children, copied}
          BY <4>3, GotoMoves, ConcludesMoves DEF Copy
        <5> HIDE DEF copied
        <5> QED
          BY <4>0, <5>1, <5>2, <5>3, <5>4 DEF Seeded
      <4>4. CASE Seed(u)
        <5>1. effects' = effects /\ Mid(u, k) /\ pc[u] = "seed"
          BY <4>0, <4>4 DEF Seed, HandoffSteps
        <5>2. effects[k].status # "completed" /\ children[k].copied = spoken[u]
          BY <4>0, <5>1 DEF Seeding, Finished
        <5> DEFINE row == [children[k] EXCEPT !.seeds = @ + 1]
        <5>3. row.copied = children[k].copied /\ row.seeds > 0
          BY <4>0 DEF ChildRows
        <5>4. \/ pc'[u] = "reply" /\ children'[k] = row
              \/ /\ pc'[u] = "update" /\ outcome'[u] = "unseeded"
                 /\ children'[k] \in {children[k], row}
          <6>1. children' = [children EXCEPT ![k].seeds = @ + 1] => children'[k] = row
            BY DEF Typed
          <6> QED
            BY <3>5, <4>4, <6>1, GotoMoves, ConcludesMoves DEF Seed
        <5> HIDE DEF row
        <5> QED
          BY <4>0, <5>1, <5>2, <5>3, <5>4 DEF Seeded
      <4>5. CASE Reply(u)
        <5>1. effects' = effects /\ Mid(u, k) /\ pc[u] = "reply" /\ Seeded(k)
          BY <4>0, <4>5 DEF Reply, HandoffSteps, Seeded
        <5>2. effects[k].status # "completed" /\ children[k].copied = spoken[u]
              /\ children[k].seeds > 0
          BY <4>0, <5>1 DEF Seeding, Finished
        <5> DEFINE row == [children[k] EXCEPT !.replies = @ + 1]
        <5>3. row.copied = children[k].copied /\ row.seeds = children[k].seeds /\ row.replies > 0
          BY <4>0 DEF ChildRows
        <5>4. \/ pc'[u] = "update" /\ children'[k] = row
              \/ /\ pc'[u] = "update" /\ outcome'[u] = "unseeded"
                 /\ children'[k] \in {children[k], row}
          <6>1. children' = [children EXCEPT ![k].replies = @ + 1] => children'[k] = row
            BY DEF Typed
          <6> QED
            BY <3>5, <4>5, <6>1, GotoMoves, ConcludesMoves DEF Reply
        <5> HIDE DEF row
        <5> QED
          BY <4>0, <5>1, <5>2, <5>3, <5>4 DEF Seeded
      <4>6. CASE UpdateEffect(u)
        <5>1. children' = children /\ Mid(u, k) /\ pc[u] = "update" /\ pc'[u] = "hooks"
          BY <4>0, <4>6, GotoMoves DEF UpdateEffect, Leave, HandoffSteps
        <5>2. effects[k].status # "completed"
          BY <4>0, <5>1 DEF Seeding
        <5>3. ~Seeded(k)'
          BY <4>0, <5>1 DEF Seeded
        <5>4. effects'[k].status = "completed" => outcome[u] = "ok" /\ effects'[k].result
          <6> DEFINE status == IF outcome[u] = "ok" THEN "completed" ELSE "failed"
          <6> DEFINE ref == outcome[u] \in {"ok", "unseeded"} \/ effects[k].result
          <6>1. effects' = effects \/ effects' = Updated(k, status, ref)
            BY <3>5, <4>6 DEF UpdateEffect
          <6>2. ASSUME effects' = Updated(k, status, ref)
                PROVE  effects'[k] = [status |-> status, result |-> ref]
            <7> HIDE DEF status, ref
            <7> QED
              BY <6>2 DEF Updated, Typed
          <6>3. status = "completed" => outcome[u] = "ok" /\ ref
            OBVIOUS
          <6> HIDE DEF status, ref
          <6> QED
            BY <5>2, <6>1, <6>2, <6>3
        <5>5. outcome[u] = "ok" => Seeded(k)
          BY <4>0, <5>1 DEF Seeded
        <5> QED
          BY <4>0, <5>1, <5>3, <5>4, <5>5 DEF Finished
      <4> QED
        BY <2>2, <4>1, <4>2, <4>3, <4>4, <4>5, <4>6 DEF Handoff
    <3>6. pc'[u] \notin {"idle", "starting", "body"}
      BY <3>2 DEF HandoffSteps
    <3> QED
      BY <3>1, <3>3, <3>4, <3>5, <3>6 DEF Finished, CompletedMeansSeeded
  <2> QED
    BY <2>1, <2>2
<1> QED
  BY <1>1, <1>2, TypedInvariant, SeedingInvariant, PTL DEF Spec

\* A completed effect has its child: forked at the turn's message, seeded and
\* answered, whatever failed before.
THEOREM CompletedIsSeeded == Spec => []CompletedMeansSeeded
<1>1. Finished => CompletedMeansSeeded
  BY DEF Finished
<1> QED
  BY <1>1, FinishedInvariant, PTL

---------------------------------------------------------------------------
\* A turn whose message is stored and not yet referenced.
Speaking == {"recorded", "announced"}

\* What a handoff may fail for.
Reason(t) ==
    \/ faults < MaxFaults
    \/ \E u \in Turns \ {t} : pc[u] # "idle"
    \/ \E c \in Clients : request[c] # "idle"
    \/ peers < MaxPeers

\* As long as nothing failed and no peer wrote, every message of the session
\* is referenced, the one of a speaking turn apart.
Counted ==
    /\ peers \in 0..MaxPeers /\ extra \in Nat /\ refs \subseteq 1..messages
    /\ \A t \in Turns : pc[t] \in Speaking => spoken[t] \in 1..messages
    /\ faults = MaxFaults /\ peers = MaxPeers =>
          \A m \in 1..messages :
              m \in refs \/ \E t \in Turns : pc[t] \in Speaking /\ spoken[t] = m

\* The steps that concern neither the messages nor a speaking turn.
LEMMA CountedFrame ==
    ASSUME Typed, Counted, UNCHANGED <<messages, refs, spoken, peers>>, extra' \in Nat,
           faults' \in 0..MaxFaults, faults' <= faults,
           faults' = MaxFaults => \A u \in Turns : pc[u] \in Speaking => pc'[u] \in Speaking,
           \A u \in Turns : pc'[u] \in Speaking => pc[u] \in Speaking
    PROVE  Counted'
<1>1. faults' = MaxFaults => faults = MaxFaults
  BY TurnHooksAssumption DEF Typed
<1>2. /\ peers' \in 0..MaxPeers /\ extra' \in Nat /\ refs' \subseteq 1..messages'
      /\ \A t \in Turns : pc'[t] \in Speaking => spoken'[t] \in 1..messages'
  BY DEF Counted
<1>3. ASSUME faults' = MaxFaults, peers' = MaxPeers, NEW m \in 1..messages'
      PROVE  m \in refs' \/ \E t \in Turns : pc'[t] \in Speaking /\ spoken'[t] = m
  BY <1>1, <1>3 DEF Counted
<1> QED
  BY <1>2, <1>3 DEF Counted

\* Counted holds of every behaviour.
LEMMA CountedInvariant == Spec => []Counted
<1>1. Init => Counted
  BY TurnHooksAssumption DEF Init, Counted, Speaking
<1>2. Typed /\ Counted /\ [Next]_vars => Counted'
  <2> SUFFICES ASSUME Typed, Counted, [Next]_vars PROVE Counted'
    OBVIOUS
  <2>0. /\ messages \in Nat /\ faults \in 0..MaxFaults /\ MaxFaults \in Nat /\ MaxPeers \in Nat
        /\ extra \in Nat /\ peers \in 0..MaxPeers /\ refs \subseteq 1..messages
        /\ \A x \in 1..messages : x \in 1..(messages + 1)
        /\ \A x \in 1..(messages + 1) : x \in 1..messages \/ x = messages + 1
        /\ messages + 1 \in 1..(messages + 1)
    <3>1. /\ messages \in Nat /\ faults \in 0..MaxFaults /\ MaxFaults \in Nat
          /\ MaxPeers \in Nat
      BY TurnHooksAssumption DEF Typed
    <3>2. extra \in Nat /\ peers \in 0..MaxPeers /\ refs \subseteq 1..messages
      BY DEF Counted
    <3> QED
      BY <3>1, <3>2
  <2>1. ASSUME NEW t \in Turns, Begin(t) PROVE Counted'
    <3>1. /\ UNCHANGED <<spoken, peers, faults>>
          /\ \A u \in Turns : pc'[u] \in Speaking <=> pc[u] \in Speaking
      BY <2>1 DEF Begin, Goto, Typed, task, Speaking
    <3>2. \/ messages' = messages + 1 /\ refs' = refs \union {messages + 1} /\ extra' = extra
          \/ /\ messages' = messages /\ extra' \in {extra, extra + 1}
             /\ \E seq \in 1..messages : refs' = refs \union {seq}
      BY <2>1 DEF Begin, Reference
    <3>3. CASE messages' = messages + 1 /\ refs' = refs \union {messages + 1} /\ extra' = extra
      BY <2>0, <3>1, <3>3 DEF Counted
    <3>4. CASE /\ messages' = messages /\ extra' \in {extra, extra + 1}
               /\ \E seq \in 1..messages : refs' = refs \union {seq}
      <4>1. /\ refs' \subseteq 1..messages' /\ refs \subseteq refs' /\ extra' \in Nat
        BY <2>0, <3>4
      <4> QED
        BY <3>1, <3>4, <4>1 DEF Counted
    <3> QED
      BY <3>2, <3>3, <3>4
  <2>2. ASSUME NEW t \in Turns, Record(t) PROVE Counted'
    <3>1. /\ messages' = messages + 1 /\ UNCHANGED <<refs, extra, peers, faults>>
          /\ pc'[t] \in Speaking /\ spoken'[t] = messages + 1 /\ pc[t] \notin Speaking
          /\ \A u \in Turns \ {t} : pc'[u] = pc[u] /\ spoken'[u] = spoken[u]
      BY <2>2 DEF Record, Goto, Typed, Speaking
    <3>2. /\ peers' \in 0..MaxPeers /\ extra' \in Nat /\ refs' \subseteq 1..messages'
          /\ \A u \in Turns : pc'[u] \in Speaking => spoken'[u] \in 1..messages'
      BY <2>0, <3>1 DEF Counted
    <3>3. ASSUME faults' = MaxFaults, peers' = MaxPeers, NEW m \in 1..messages'
          PROVE  m \in refs' \/ \E u \in Turns : pc'[u] \in Speaking /\ spoken'[u] = m
      <4>1. CASE m = messages + 1
        BY <3>1, <4>1
      <4>2. CASE m \in 1..messages /\ m \notin refs
        <5>1. PICK u \in Turns : pc[u] \in Speaking /\ spoken[u] = m
          BY <3>1, <3>3, <4>2 DEF Counted
        <5>2. u # t
          BY <3>1, <5>1
        <5> QED
          BY <3>1, <5>1, <5>2
      <4> QED
        BY <2>0, <3>1, <4>1, <4>2
    <3> QED
      BY <3>2, <3>3 DEF Counted
  <2>3. ASSUME NEW t \in Turns, Announce(t) PROVE Counted'
    <3>1. /\ UNCHANGED <<messages, refs, spoken, peers, extra, faults>>
          /\ \A u \in Turns : pc'[u] \in Speaking <=> pc[u] \in Speaking
      BY <2>3 DEF Announce, Goto, Typed, task, store, Speaking
    <3> QED
      BY <2>0, <3>1, CountedFrame
  <2>4. ASSUME NEW t \in Turns, Complete(t) PROVE Counted'
    <3>0. refs' = refs \union {spoken[t]} /\ extra' \in {extra, extra + 1}
      BY <2>4 DEF Complete, Reference
    <3>1. /\ refs' = refs \union {spoken[t]} /\ extra' \in Nat
          /\ UNCHANGED <<messages, spoken, peers, faults>>
          /\ pc[t] \in Speaking /\ pc'[t] \notin Speaking
          /\ \A u \in Turns \ {t} : pc'[u] = pc[u]
      BY <2>0, <2>4, <3>0 DEF Complete, Goto, Typed, task, Speaking
    <3>2. /\ peers' \in 0..MaxPeers /\ extra' \in Nat /\ refs' \subseteq 1..messages'
          /\ \A u \in Turns : pc'[u] \in Speaking => spoken'[u] \in 1..messages'
      BY <2>0, <3>1 DEF Counted
    <3>3. ASSUME faults' = MaxFaults, peers' = MaxPeers, NEW m \in 1..messages'
          PROVE  m \in refs' \/ \E u \in Turns : pc'[u] \in Speaking /\ spoken'[u] = m
      <4>1. CASE m \in refs
        BY <3>1, <4>1
      <4>2. CASE m \notin refs
        <5>1. PICK u \in Turns : pc[u] \in Speaking /\ spoken[u] = m
          BY <3>1, <3>3, <4>2 DEF Counted
        <5> QED
          BY <3>1, <5>1
      <4> QED
        BY <4>1, <4>2
    <3> QED
      BY <3>2, <3>3 DEF Counted
  <2>5. ASSUME NEW t \in Turns, Err(t) PROVE Counted'
    <3>1. /\ UNCHANGED <<spoken, peers, extra>>
          /\ pc'[t] \notin Speaking /\ \A u \in Turns \ {t} : pc'[u] = pc[u]
      BY <2>5 DEF Err, Goto, Typed, task, Speaking
    <3>2. CASE Fault /\ LeftBehind(t)
      <4>1. faults' # MaxFaults
        BY <2>0, <3>2 DEF Fault
      <4>2. pc[t] = "announced" => spoken[t] \in 1..messages
        BY DEF Counted, Speaking
      <4>3. messages' \in {messages, messages + 1} /\ refs' \subseteq 1..messages'
        BY <2>0, <3>2, <4>2 DEF LeftBehind
      <4>4. \A x \in 1..messages : x \in 1..messages'
        BY <2>0, <4>3
      <4> QED
        BY <2>0, <3>1, <4>1, <4>3, <4>4 DEF Counted
    <3>3. CASE /\ UNCHANGED <<messages, refs, faults>>
               /\ pc[t] = "starting" \/ spoken[t] \in refs
      <4>1. pc[t] = "starting" => pc[t] \notin Speaking
        BY DEF Speaking
      <4> QED
        BY <3>1, <3>3, <4>1 DEF Counted
    <3> QED
      BY <2>5, <3>2, <3>3 DEF Err
  <2>6. ASSUME NEW t \in Turns,
               Start(t) \/ Fail(t) \/ Release(t) \/ Evaluate(t) \/ Compact(t) \/ End(t)
        PROVE  Counted'
    <3>1. /\ UNCHANGED <<messages, refs, spoken, peers>>
          /\ extra' \in {extra, extra + 1}
          /\ faults' = faults \/ (faults > 0 /\ faults' = faults - 1)
      BY <2>6 DEF Start, Fail, Release, Evaluate, Compact, End, Fault, task, store
    <3>2. \A u \in Turns : pc'[u] \in Speaking <=> pc[u] \in Speaking
      BY <2>6 DEF Start, Fail, Release, Evaluate, Compact, End, Goto, Typed, Speaking
    <3>3. faults' \in 0..MaxFaults /\ faults' <= faults /\ extra' \in Nat
      BY <2>0, <3>1
    <3> QED
      BY <3>1, <3>2, <3>3, CountedFrame
  <2>7. ASSUME NEW t \in Turns, Handoff(t) PROVE Counted'
    <3>1. UNCHANGED <<messages, refs, spoken, extra>> /\ faults' <= faults
      BY <2>7, HandoffFrame DEF store
    <3>2. peers' = peers
      BY <2>7 DEF Handoff, GetEffect, CreateEffect, Fork, Copy, Seed, Reply, UpdateEffect
    <3>3. \A u \in Turns : pc'[u] \in Speaking <=> pc[u] \in Speaking
      BY <2>7 DEF Typed, Speaking, Goto, Leave, Concludes, Handoff, GetEffect, CreateEffect,
                  Fork, Copy, Seed, Reply, UpdateEffect
    <3>4. faults' \in 0..MaxFaults
      BY TypedKept DEF Typed
    <3> QED
      BY <2>0, <3>1, <3>2, <3>3, <3>4, CountedFrame
  <2>8. CASE \/ \E w \in Watchers : Snapshot(w) \/ Connect(w) \/ Fetch(w) \/ Hear(w) \/ Lag(w)
             \/ UNCHANGED vars
    <3>1. UNCHANGED <<messages, refs, spoken, extra, peers, faults, pc>>
      BY <2>8 DEF Snapshot, Connect, Fetch, Hear, Lag, Set, vars, task, store
    <3> QED
      BY <2>0, <3>1, CountedFrame
  <2>9. CASE Peer
    <3>1. /\ messages' = messages + 1 /\ peers > 0 /\ peers' = peers - 1
          /\ UNCHANGED <<refs, spoken, extra, pc>>
      BY <2>9 DEF Peer, task
    <3>2. peers' \in 0..MaxPeers /\ peers' # MaxPeers
      BY <2>0, <3>1
    <3> QED
      BY <2>0, <3>1, <3>2 DEF Counted
  <2>10. CASE Restart
    <3>1. /\ UNCHANGED <<messages, refs, spoken, peers, extra>>
          /\ faults > 0 /\ faults' = faults - 1
          /\ \A u \in Turns : pc'[u] \in Speaking => pc[u] \in Speaking
      BY <2>10 DEF Restart, Fault, task, store, Over, Speaking, Typed
    <3>2. faults' \in 0..MaxFaults /\ faults' <= faults /\ faults' # MaxFaults
      BY <2>0, <3>1
    <3> QED
      BY <2>0, <3>1, <3>2, CountedFrame
  <2>11. CASE Others
    <3>1. /\ UNCHANGED <<messages, refs, spoken, peers, pc>> /\ extra' \in {extra, extra + 1}
          /\ faults' = faults \/ (faults > 0 /\ faults' = faults - 1)
      BY <2>11, OthersFrame DEF Fault
    <3>2. faults' \in 0..MaxFaults /\ faults' <= faults /\ extra' \in Nat
      BY <2>0, <3>1
    <3> QED
      BY <3>1, <3>2, CountedFrame
  <2> QED
    BY <2>1, <2>2, <2>3, <2>4, <2>5, <2>6, <2>7, <2>8, <2>9, <2>10, <2>11
    DEF Next, Handoff, Others
<1> QED
  BY <1>1, <1>2, TypedInvariant, PTL DEF Spec

\* The fork point of a handoff is in range, unless something gives it a
\* reason to fail.
LEMMA ForkPointInRange ==
    ASSUME Typed, Counted, Finished, NEW t \in Turns, pc[t] = "fork", ~Reason(t)
    PROVE  InRange(t)
<1>1. /\ messages \in Nat /\ extra \in Nat /\ refs \subseteq 1..messages
      /\ faults = MaxFaults /\ peers = MaxPeers
  BY TurnHooksAssumption DEF Typed, Counted, Reason
<1>2. \A u \in Turns : pc[u] \notin Speaking
  BY DEF Reason, Speaking
<1>3. refs = 1..messages
  BY <1>1, <1>2 DEF Counted
<1>4. spoken[t] \in 1..messages
  <2>1. spoken[t] \in refs
    BY DEF Finished, Referenced, HandoffSteps
  <2> QED
    BY <1>3, <2>1
<1>5. Cardinality(1..messages) = messages
  <2>1. 1 \in Int /\ messages \in Int
    BY <1>1
  <2>2. Cardinality(1..messages) = IF 1 > messages THEN 0 ELSE messages - 1 + 1
    BY <2>1, FS_Interval
  <2> QED
    BY <1>1, <2>2
<1>6. spoken[t] < messages + extra + 1
  BY <1>1, <1>4
<1> QED
  BY <1>3, <1>5, <1>6 DEF InRange

\* Whose key the lock is: of a turn at work, of a guard that was dropped, which
\* a fault did, or of a client's request; and who is at a child.
Held ==
    /\ lock \in Turns \union Clients \union {NoTurn}
    /\ lock \in Turns => pc[lock] # "idle" /\ (Working(lock) \/ faults < MaxFaults)
    /\ lock \in Clients => request[lock] # "idle"
    /\ lost # {} => faults < MaxFaults
    /\ visits \in [Clients -> SUBSET Keys]
    /\ \A c \in Clients : visits[c] # {} => request[c] # "idle"

\* Held holds of every behaviour.
LEMMA HeldInvariant == Spec => []Held
<1>1. Init => Held
  BY TurnHooksAssumption DEF Init, Held
<1>2. Typed /\ Locked /\ Held /\ [Next]_vars => Held'
  <2> SUFFICES ASSUME Typed, Locked, Held, [Next]_vars PROVE Held'
    OBVIOUS
  <2>0. /\ faults' \in 0..MaxFaults /\ faults \in 0..MaxFaults /\ MaxFaults \in Nat
        /\ faults < MaxFaults => faults' < MaxFaults
        /\ Fault => faults' < MaxFaults
    <3>1. faults' <= faults
      BY OtherFrame, HandoffFrame
    <3>2. faults' \in 0..MaxFaults /\ faults \in 0..MaxFaults /\ MaxFaults \in Nat
      BY TypedKept, TurnHooksAssumption DEF Typed
    <3> QED
      BY <3>1, <3>2 DEF Fault
  <2>1. ASSUME NEW t \in Turns,
               \/ lock' = lock
               \/ lock = t /\ lock' = NoTurn
               \/ lock' = t /\ pc'[t] # "idle" /\ (Working(t)' \/ faults' < MaxFaults),
               lock' = t => Working(t)' \/ ~Working(t) \/ faults' < MaxFaults,
               pc'[t] # "idle" \/ pc[t] = "idle",
               \A u \in Turns \ {t} : pc'[u] = pc[u],
               UNCHANGED <<request, visits, lost>>
        PROVE  Held'
    BY <2>0, <2>1, TurnHooksAssumption DEF Held, Working
  <2>2. ASSUME NEW t \in Turns,
               \/ Start(t) \/ Begin(t) \/ Record(t) \/ Announce(t) \/ Complete(t) \/ Release(t)
               \/ Err(t) \/ Fail(t) \/ Evaluate(t) \/ Compact(t) \/ End(t)
        PROVE  Held'
    <3>1. /\ UNCHANGED <<request, visits, lost>>
          /\ \A u \in Turns \ {t} : pc'[u] = pc[u]
          /\ pc'[t] # "idle"
      BY <2>2 DEF Typed, clients, Goto, Start, Begin, Record, Announce, Complete, Release, Err,
                  Fail, Evaluate, Compact, End
    <3>2. /\ \/ lock' = lock
             \/ lock = t /\ lock' = NoTurn
             \/ lock' = t /\ (Working(t)' \/ faults' < MaxFaults)
          /\ lock' = t => Working(t)' \/ ~Working(t) \/ faults' < MaxFaults
      BY <2>0, <2>2, TurnHooksAssumption
      DEF Typed, Working, Goto, Freed, Taken, Start, Begin, Record, Announce, Complete,
          Release, Err, Fail, Evaluate, Compact, End
    <3> QED
      BY <2>1, <3>1, <3>2
  <2>3. ASSUME NEW t \in Turns, Handoff(t) PROVE Held'
    <3>1. /\ UNCHANGED <<request, visits, lost>>
          /\ \A u \in Turns \ {t} : pc'[u] = pc[u]
          /\ pc'[t] # "idle"
      BY <2>3 DEF Typed, clients, Goto, Leave, Concludes, Handoff, GetEffect, CreateEffect, Fork,
                  Copy, Seed, Reply, UpdateEffect
    <3>2. /\ \/ lock' = lock
             \/ lock = t /\ lock' = NoTurn
             \/ lock' = t /\ (Working(t)' \/ faults' < MaxFaults)
          /\ lock' = t => Working(t)' \/ ~Working(t) \/ faults' < MaxFaults
      BY <2>0, <2>3, TurnHooksAssumption
      DEF Typed, Working, Goto, Leave, Concludes, Freed, Taken, Handoff, GetEffect,
          CreateEffect, Fork, Copy, Seed, Reply, UpdateEffect
    <3> QED
      BY <2>1, <3>1, <3>2
  <2>4. ASSUME UNCHANGED <<lock, lost, pc, request, visits>> PROVE Held'
    BY <2>0, <2>4 DEF Held, Working
  <2>5. ASSUME NEW w \in Watchers,
               Snapshot(w) \/ Connect(w) \/ Fetch(w) \/ Hear(w) \/ Lag(w)
        PROVE  Held'
    BY <2>4, <2>5 DEF Set, clients, Snapshot, Connect, Fetch, Hear, Lag
  <2>6. CASE Peer \/ UNCHANGED vars
    BY <2>4, <2>6 DEF Peer, clients, vars
  <2>7. CASE Restart
    BY <2>0, <2>7, TurnHooksAssumption DEF Restart, Over, Held, Typed
  <2>8. CASE Lapse
    BY <2>0, <2>8, TurnHooksAssumption DEF Lapse, clients, Held
  <2>9. ASSUME NEW c \in Clients,
               ClientLocks(c) \/ ClientUnlocks(c) \/ VisitChild(c) \/ LeaveChild(c)
        PROVE  Held'
    <3>1. /\ UNCHANGED <<lost, pc>>
          /\ lock' \in {lock, NoTurn} \/ lock' = c
      BY <2>9 DEF Freed, ClientLocks, ClientUnlocks, VisitChild, LeaveChild
    <3>2. request'[c] # "idle" /\ \A d \in Clients \ {c} : request'[d] = request[d]
      BY <2>9 DEF Typed, ClientLocks, ClientUnlocks, VisitChild, LeaveChild
    <3>3. /\ visits' \in [Clients -> SUBSET Keys]
          /\ \A d \in Clients \ {c} : visits'[d] = visits[d]
      BY <2>9 DEF Held, ClientLocks, ClientUnlocks, VisitChild, LeaveChild
    <3> QED
      BY <2>0, <3>1, <3>2, <3>3, TurnHooksAssumption DEF Held, Working
  <2> QED
    BY <2>2, <2>3, <2>5, <2>6, <2>7, <2>8, <2>9 DEF Next, Handoff
<1> QED
  BY <1>1, <1>2, TypedInvariant, LockedInvariant, PTL DEF Spec

\* A reason stays.
LEMMA ReasonStays ==
    ASSUME Typed, Counted, [Next]_vars, NEW t \in Turns, Reason(t)
    PROVE  Reason(t)'
<1>1. faults' <= faults /\ faults \in 0..MaxFaults /\ MaxFaults \in Nat /\ faults' \in Int
  <2>1. faults' <= faults
    BY OtherFrame, HandoffFrame
  <2>2. faults' \in 0..MaxFaults
    BY TypedKept DEF Typed
  <2> QED
    BY <2>1, <2>2, TurnHooksAssumption DEF Typed
<1>2. peers \in 0..MaxPeers /\ MaxPeers \in Nat /\ (peers' = peers \/ peers' = peers - 1)
  <2>1. peers \in 0..MaxPeers /\ MaxPeers \in Nat
    BY TurnHooksAssumption DEF Counted
  <2>2. peers' = peers \/ peers' = peers - 1
    BY DEF Next, Start, Begin, Record, Announce, Complete, Release, Err, Fail, Evaluate, Compact,
           End, GetEffect, CreateEffect, Fork, Copy, Seed, Reply, UpdateEffect, Snapshot,
           Connect, Fetch, Hear, Lag, Set, Peer, Restart, Lapse, ClientLocks, ClientUnlocks,
           VisitChild, LeaveChild, vars
  <2> QED
    BY <2>1, <2>2
<1>3. \A u \in Turns : pc'[u] = "idle" => pc[u] = "idle"
  <2>1. ASSUME NEW v \in Turns,
               \/ Start(v) \/ Begin(v) \/ Record(v) \/ Announce(v) \/ Complete(v) \/ Release(v)
               \/ Err(v) \/ Fail(v) \/ Evaluate(v) \/ Compact(v) \/ End(v)
        PROVE  \A u \in Turns : pc'[u] = "idle" => pc[u] = "idle"
    BY <2>1 DEF Typed, Goto, Start, Begin, Record, Announce, Complete, Release, Err, Fail, Evaluate,
                Compact, End
  <2>2. ASSUME NEW v \in Turns, Handoff(v)
        PROVE  \A u \in Turns : pc'[u] = "idle" => pc[u] = "idle"
    BY <2>2 DEF Typed, Goto, Leave, Concludes, Handoff, GetEffect, CreateEffect, Fork,
                Copy, Seed, Reply, UpdateEffect
  <2>3. CASE Restart
    BY <2>3 DEF Restart, Over, Typed
  <2>4. CASE \/ \E w \in Watchers : Snapshot(w) \/ Connect(w) \/ Fetch(w) \/ Hear(w) \/ Lag(w)
             \/ Peer \/ UNCHANGED vars
    BY <2>4 DEF Set, Snapshot, Connect, Fetch, Hear, Lag, Peer, vars
  <2>5. CASE Others
    BY <2>5, OthersFrame
  <2> QED
    BY <2>1, <2>2, <2>3, <2>4, <2>5 DEF Next, Handoff, Others
<1>7. \A c \in Clients : request'[c] = "idle" => request[c] = "idle"
  <2>1. CASE Others
    BY <2>1, OthersFrame
  <2>2. CASE Restart
    BY <2>2 DEF Restart
  <2>3. ASSUME NEW v \in Turns,
               \/ Start(v) \/ Begin(v) \/ Record(v) \/ Announce(v) \/ Complete(v) \/ Release(v)
               \/ Err(v) \/ Fail(v) \/ Evaluate(v) \/ Compact(v) \/ End(v) \/ Handoff(v)
        PROVE  request' = request
    BY <2>3 DEF clients, Start, Begin, Record, Announce, Complete, Release, Err, Fail, Evaluate,
                Compact, End, Handoff, GetEffect, CreateEffect, Fork, Copy, Seed, Reply,
                UpdateEffect
  <2>4. CASE \/ \E w \in Watchers : Snapshot(w) \/ Connect(w) \/ Fetch(w) \/ Hear(w) \/ Lag(w)
             \/ Peer \/ UNCHANGED vars
    BY <2>4 DEF Set, clients, Snapshot, Connect, Fetch, Hear, Lag, Peer, vars
  <2> QED
    BY <2>1, <2>2, <2>3, <2>4 DEF Next, Handoff, Others
<1>4. CASE faults < MaxFaults
  <2>1. faults' < MaxFaults
    BY <1>1, <1>4
  <2> QED
    BY <2>1 DEF Reason
<1>5. CASE peers < MaxPeers
  <2>1. peers' < MaxPeers
    BY <1>2, <1>5
  <2> QED
    BY <2>1 DEF Reason
<1>6. CASE \E u \in Turns \ {t} : pc[u] # "idle"
  BY <1>3, <1>6 DEF Reason
<1>8. CASE \E c \in Clients : request[c] # "idle"
  BY <1>7, <1>8 DEF Reason
<1> QED
  BY <1>4, <1>5, <1>6, <1>8 DEF Reason

\* A fault is a reason.
LEMMA FaultIsReason ==
    ASSUME Typed, Fault
    PROVE  faults' < MaxFaults /\ \A t : Reason(t)'
<1>1. faults' < MaxFaults
  BY TurnHooksAssumption DEF Typed, Fault
<1> QED
  BY <1>1 DEF Reason

\* An effect is started only while its handoff goes on, unless something
\* failed, and what goes badly has a reason.
Ending ==
    /\ \A t \in Turns : pc[t] = "update" /\ outcome[t] # "ok" => Reason(t)
    /\ \A k \in Keys :
        /\ effects[k].status = "started" =>
              faults < MaxFaults \/ (Mid(k[1], k) /\ pc[k[1]] # "create")
        /\ effects[k].status = "failed" => Reason(k[1])

\* A step of a handoff ends badly for a reason.
LEMMA ConcludesForAReason ==
    ASSUME Typed, Locked, Counted, Finished, Held, Ending, NEW u \in Turns, Handoff(u), [Next]_vars,
           pc'[u] = "update"
    PROVE  outcome'[u] = "ok" \/ Reason(u)'
<1>1. CASE Fault
  BY <1>1, FaultIsReason
<1>2. CASE ~Fault /\ Fork(u)
  <2>1. \/ lock # NoTurn
        \/ ~InRange(u)
    BY <1>2, GotoMoves DEF Fork
  <2>2. pc[u] = "fork"
    BY <1>2 DEF Fork
  <2>3. Reason(u)
    <3>1. CASE lock # NoTurn
      <4>1. CASE lock \in Clients
        BY <4>1 DEF Held, Reason
      <4>2. CASE lock \in Turns \ {u}
        BY <4>2 DEF Held, Reason
      <4>3. CASE lock = u
        BY <2>2, <4>3 DEF Held, Working, Reason
      <4> QED
        BY <3>1, <4>1, <4>2, <4>3 DEF Held
    <3>2. CASE ~InRange(u)
      BY <2>2, <3>2, ForkPointInRange
    <3> QED
      BY <2>1, <3>1, <3>2
  <2> QED
    BY <2>3, ReasonStays
<1>3. CASE ~Fault /\ Copy(u)
  <2>1. pc[u] = "copy" /\ lock # u
    BY <1>3, GotoMoves DEF Copy
  <2>2. u \in lost
    BY <2>1 DEF Locked, Working
  <2>3. Reason(u)
    BY <2>2 DEF Held, Reason
  <2> QED
    BY <2>3, ReasonStays
<1>4. CASE ~Fault /\ Seed(u)
  <2>1. Visited(Key(u)) \/ faults < MaxFaults
    BY <1>4, GotoMoves DEF Seed
  <2>2. Reason(u)
    BY <2>1 DEF Visited, Held, Reason
  <2> QED
    BY <2>2, ReasonStays
<1>5. CASE ~Fault /\ ~Fork(u) /\ ~Copy(u) /\ ~Seed(u)
  <2>1. GetEffect(u) \/ CreateEffect(u) \/ UpdateEffect(u) => pc'[u] # "update"
    BY <1>5, GotoMoves DEF GetEffect, CreateEffect, UpdateEffect, Leave
  <2>2. Reply(u) => outcome'[u] = "ok"
    BY <1>5, ConcludesMoves DEF Reply
  <2> QED
    BY <1>5, <2>1, <2>2 DEF Handoff
<1> QED
  BY <1>1, <1>2, <1>3, <1>4, <1>5

\* Only a restart makes a turn dead.
LEMMA DeadByFault ==
    ASSUME Typed, [Next]_vars, NEW t \in Turns, pc[t] # "dead", pc'[t] = "dead"
    PROVE  faults' < MaxFaults
<1>1. ASSUME NEW v \in Turns,
             \/ Start(v) \/ Begin(v) \/ Record(v) \/ Announce(v) \/ Complete(v) \/ Release(v)
             \/ Err(v) \/ Fail(v) \/ Evaluate(v) \/ Compact(v) \/ End(v)
      PROVE  FALSE
  BY <1>1 DEF Typed, Goto, Start, Begin, Record, Announce, Complete, Release, Err, Fail, Evaluate,
              Compact, End
<1>2. ASSUME NEW v \in Turns, Handoff(v) PROVE FALSE
  BY <1>2, HandoffFrame
<1>3. CASE Restart
  BY <1>3, FaultIsReason DEF Restart
<1>4. CASE \/ \E w \in Watchers : Snapshot(w) \/ Connect(w) \/ Fetch(w) \/ Hear(w) \/ Lag(w)
           \/ Peer \/ UNCHANGED vars
  BY <1>4 DEF Set, Snapshot, Connect, Fetch, Hear, Lag, Peer, vars
<1>5. CASE Others
  BY <1>5, OthersFrame
<1> QED
  BY <1>1, <1>2, <1>3, <1>4, <1>5 DEF Next, Handoff, Others

\* Ending holds of every behaviour: how the ledger's rows come to their
\* status.
LEMMA EndingInvariant == Spec => []Ending
<1>1. Init => Ending
  BY DEF Init, Ending, NoEffect
<1>2. Typed /\ Locked /\ Counted /\ Finished /\ Held /\ Ending /\ [Next]_vars => Ending'
  <2> SUFFICES ASSUME Typed, Locked, Counted, Finished, Held, Ending, [Next]_vars
               PROVE  Ending'
    OBVIOUS
  <2>0. /\ faults' <= faults /\ faults \in Int /\ faults' \in Int /\ MaxFaults \in Int
        /\ \A k \in Keys : k[1] \in Turns
        /\ \A t \in Turns : Reason(t) => Reason(t)'
    <3>1. faults' <= faults
      BY OtherFrame, HandoffFrame
    <3>2. faults' \in 0..MaxFaults /\ faults \in 0..MaxFaults /\ MaxFaults \in Nat
      BY TypedKept, TurnHooksAssumption DEF Typed
    <3>3. \A k \in Keys : k[1] \in Turns
      BY DEF Keys
    <3>4. \A t \in Turns : Reason(t) => Reason(t)'
      BY ReasonStays
    <3> QED
      BY <3>1, <3>2, <3>3, <3>4
  <2>1. CASE \A u \in Turns : ~Handoff(u)
    <3>1. /\ UNCHANGED effects
          /\ \A t \in Turns : \A k : Mid(t, k)' => Mid(t, k) /\ pc'[t] = pc[t]
                                              /\ outcome'[t] = outcome[t]
          /\ \A t \in Turns : \A k : Mid(t, k) => Mid(t, k)' \/ pc'[t] = "dead"
      BY <2>1, OtherFrame
    <3>2. ASSUME NEW t \in Turns, pc'[t] = "update", outcome'[t] # "ok" PROVE Reason(t)'
      <4>1. Mid(t, Key(t))'
        BY <3>2 DEF Mid, HandoffSteps
      <4>2. pc[t] = "update" /\ outcome[t] # "ok"
        BY <3>1, <3>2, <4>1
      <4> QED
        BY <2>0, <4>2 DEF Ending
    <3>3. ASSUME NEW k \in Keys, effects'[k].status = "started", ~(faults' < MaxFaults)
          PROVE  Mid(k[1], k)' /\ pc'[k[1]] # "create"
      <4>1. Mid(k[1], k) /\ pc[k[1]] # "create"
        BY <2>0, <3>1, <3>3 DEF Ending
      <4>2. pc[k[1]] # "dead" /\ k[1] \in Turns
        BY <2>0, <4>1 DEF Mid, HandoffSteps
      <4>3. pc'[k[1]] # "dead"
        BY <3>3, <4>2, DeadByFault
      <4> QED
        BY <3>1, <4>1, <4>2, <4>3
    <3>4. ASSUME NEW k \in Keys, effects'[k].status = "failed" PROVE Reason(k[1])'
      BY <2>0, <3>1, <3>4 DEF Ending
    <3> QED
      BY <3>2, <3>3, <3>4 DEF Ending
  <2>2. ASSUME NEW u \in Turns, Handoff(u) PROVE Ending'
    <3>1. /\ \A v \in Turns \ {u} : pc'[v] = pc[v] /\ outcome'[v] = outcome[v]
                                     /\ \A k : Mid(v, k)' <=> Mid(v, k)
          /\ \A k \in Keys : k # Key(u) => effects'[k] = effects[k]
          /\ \A k \in Keys : k = Key(u) => k[1] = u
      BY <2>2, HandoffFrame
    <3>2. ASSUME NEW t \in Turns, pc'[t] = "update", outcome'[t] # "ok" PROVE Reason(t)'
      <4>1. CASE t = u
        BY <2>2, <3>2, <4>1, ConcludesForAReason
      <4>2. CASE t # u
        BY <2>0, <3>1, <3>2, <4>2 DEF Ending
      <4> QED
        BY <4>1, <4>2
    <3>3. ASSUME NEW k \in Keys, k # Key(u)
          PROVE  /\ effects'[k].status = "started" =>
                       faults' < MaxFaults \/ (Mid(k[1], k)' /\ pc'[k[1]] # "create")
                 /\ effects'[k].status = "failed" => Reason(k[1])'
      <4>1. effects'[k] = effects[k] /\ k[1] \in Turns
        BY <2>0, <3>1, <3>3
      <4>2. effects'[k].status = "failed" => Reason(k[1])'
        BY <2>0, <4>1 DEF Ending
      <4>3. Mid(k[1], k) => k[1] # u
        BY <3>3 DEF Mid
      <4>4. Mid(k[1], k) /\ pc[k[1]] # "create" => Mid(k[1], k)' /\ pc'[k[1]] # "create"
        BY <3>1, <4>1, <4>3
      <4>5. faults < MaxFaults => faults' < MaxFaults
        BY <2>0
      <4> QED
        BY <4>1, <4>2, <4>4, <4>5 DEF Ending
    <3>4. ASSUME NEW k \in Keys, k = Key(u)
          PROVE  /\ effects'[k].status = "started" =>
                       faults' < MaxFaults \/ (Mid(u, k)' /\ pc'[u] # "create")
                 /\ effects'[k].status = "failed" => Reason(u)'
      <4>0. /\ k[1] = u /\ effects[k] \in EffectRows
            /\ effects[k].status = "failed" => Reason(u)'
            /\ faults < MaxFaults => faults' < MaxFaults
            /\ effects[k].status = "started" =>
                  faults < MaxFaults \/ (Mid(u, k) /\ pc[u] # "create")
        BY <2>0, <3>1, <3>4 DEF Ending, Typed
      <4>1. CASE Fault
        <5>1. faults' < MaxFaults /\ Reason(u)'
          BY <4>1, FaultIsReason
        <5> QED
          BY <5>1
      <4>2. CASE ~Fault /\ GetEffect(u)
        <5>1. effects' = effects /\ pc[u] = "hooks"
          BY <4>2 DEF GetEffect
        <5>2. ~Mid(u, k)
          BY <5>1 DEF Mid, HandoffSteps
        <5> QED
          BY <4>0, <5>1, <5>2
      <4>3. CASE ~Fault /\ CreateEffect(u)
        <5>1. pc'[u] = "fork" /\ plan' = plan
          BY <4>3, GotoMoves DEF CreateEffect
        <5>2. Mid(u, k)'
          BY <3>4, <5>1 DEF Mid, Key, HandoffSteps
        <5>3. effects'[k].status = "failed" => effects[k].status = "failed"
          BY <3>4, <4>3 DEF CreateEffect, Created, Typed
        <5> QED
          BY <4>0, <5>1, <5>2, <5>3
      <4>4. CASE ~Fault /\ (Fork(u) \/ Copy(u) \/ Seed(u) \/ Reply(u))
        <5>1. effects' = effects /\ plan' = plan
          BY <4>4 DEF Fork, Copy, Seed, Reply, Concludes
        <5>2. pc'[u] \in {"update", "seed", "copy", "reply"}
          BY <4>4, GotoMoves, ConcludesMoves DEF Fork, Copy, Seed, Reply
        <5>3. Mid(u, k)'
          BY <3>4, <5>1, <5>2 DEF Mid, Key, HandoffSteps
        <5> QED
          BY <4>0, <5>1, <5>2, <5>3
      <4>5. CASE ~Fault /\ UpdateEffect(u)
        <5> DEFINE status == IF outcome[u] = "ok" THEN "completed" ELSE "failed"
                   ref == outcome[u] \in {"ok", "unseeded"} \/ effects[k].result
        <5>1. effects' = Updated(k, status, ref) /\ pc[u] = "update"
          BY <3>4, <4>5 DEF UpdateEffect
        <5>2. effects'[k].status = status
          <6> HIDE DEF status, ref
          <6>1. effects'[k] = [status |-> status, result |-> ref]
            BY <5>1 DEF Updated, Typed
          <6> QED
            BY <6>1
        <5>3. outcome[u] # "ok" => Reason(u)'
          BY <2>0, <5>1 DEF Ending
        <5> QED
          BY <5>2, <5>3
      <4> QED
        BY <2>2, <4>1, <4>2, <4>3, <4>4, <4>5 DEF Handoff
    <3>5. ASSUME NEW k \in Keys
          PROVE  /\ effects'[k].status = "started" =>
                       faults' < MaxFaults \/ (Mid(k[1], k)' /\ pc'[k[1]] # "create")
                 /\ effects'[k].status = "failed" => Reason(k[1])'
      <4>1. CASE k = Key(u)
        <5>1. k[1] = u
          BY <3>1, <4>1
        <5> QED
          BY <3>4, <4>1, <5>1
      <4>2. CASE k # Key(u)
        BY <3>3, <4>2
      <4> QED
        BY <4>1, <4>2
    <3> QED
      BY <3>2, <3>5 DEF Ending
  <2> QED
    BY <2>1, <2>2
<1> QED
  BY <1>1, <1>2, TypedInvariant, LockedInvariant, CountedInvariant, FinishedInvariant,
     HeldInvariant, PTL DEF Spec

\* An effect is left started, or is failed, only for one of the reasons the
\* code has: a failed call, a lost key or a restart, another turn on the
\* parent, a client's request to the parent or the child, or the messages of
\* peers.
THEOREM EffectsEndForAReason == Spec => []EffectEndsForAReason
<1>1. Ending => EffectEndsForAReason
  BY DEF Ending, EffectEndsForAReason, Mid, Reason
<1> QED
  BY <1>1, EndingInvariant, PTL
===========================================================================
