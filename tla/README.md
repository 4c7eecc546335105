# Santi in TLA+

Santi keeps conversations ("sessions") between named actors and a model-backed
soul. A session has a public ledger of messages, which peers write with *stim*
envelopes, and a private ledger of the soul session, which a *turn* extends with
references, tool calls, tool results and compacts. The same services run in two
deployments: hosted (several processes, Redis lock, Postgres) and standalone (one
process, in-process lock, SQLite).

This directory models the parts of the code in which steps of different actors
meet: the lock, the session services that run under it, the public ledger that is
written without it, the ways a turn reaches its clients, its hooks, its rounds with
the provider, and the tool that runs processes. Every definition is translated from
the source; the lines are in `PROJECT.json` under `map`.

## Inventory

| Component | State | Operations | Talks to |
|---|---|---|---|
| Lock port, in-process adapter (`santi-lock/.../standalone.rs`) | a `HashSet` of held keys | acquire (refuses, never queues), release | session services |
| Redis lock (`santi-lock/.../redis.rs`) | one key with token and TTL; per guard a renewal task and a `lost` flag | acquire under a timeout, renew, release by compare-and-delete, drop | Redis; session services |
| Send and protocol reply (`session/send`) | locals of a turn | startup, provider loop, tool calls, completion, failure, hooks | lock, both ledgers, provider, tools |
| Compact, fork (`session/compact.rs`, `fork.rs`) | locals | compact up to an end; copy a prefix into a child | lock, both ledgers |
| Soul runtime store (`santi-db/.../soul_runtime`) | soul session row, entries, turns | acquire, append, start/complete/fail turn, fork copy | Postgres or SQLite |
| Public ledger (`session_ledger`, `session_store.rs`, `message_events.rs`) | messages, event log | append, patch, insert, remove, fix | Postgres or SQLite |
| Stim handler, protocol reply store (`handler/stim.rs`, `http/protocol_reply.rs`) | reply histories and broadcast channels in memory | apply an envelope, start a reply, stream its events | ledger, send |
| Watch hub (`session/watch`) | broadcast channel per session | snapshot, subscribe, publish | ledger, HTTP stream |
| Hooks and effects (`hooks.rs`, `hook_runtime.rs`, `effect.rs`) | effect ledger | compaction and fork handoff after a turn | compact, fork, send |
| Provider clients (`link_client`, `chat_client`) | cache of response outputs | open a stream, decode it | the provider |
| Tools (`runtime/tools.rs`) | none that lasts | bash, reading files | the host |
| Prompt, memory, soul surfaces, queries, configuration, HTTP, event bus | single rows, hook and provider settings | reads and single statements | the rest |

What is hard, and the property that makes each part correct:

* **Lock.** Expiry, late answers, failed renewals and dropped guards interleave.
  Nobody may delete or prolong a key that went to somebody else, one who was
  overtaken must be told, and an abandoned key must come back.
* **Turns.** Every store call may fail before or, over the network, after it took
  effect; a process may die between any two; peers write to the same public
  ledger; a lease may lapse under a turn. What the ledgers hold of a turn has to
  agree with what its caller was told, and every turn must get out of `running`.
* **Compact and fork.** A compaction asked for by a hook runs later, with the lock
  released in between; a fork cuts three different sequences at one number.
* **Public ledger.** No lock, no version comparison in the `UPDATE`, retries by
  clients, a read back in a separate call on SQLite. Sequence numbers stay dense,
  an envelope takes effect once, an acknowledgement tells the right version.
* **Replies and watch.** Events between a snapshot and a subscription, receivers
  that lag, a task that panics, a client that leaves. A client sees a reply's events
  in order and always comes to the last one; what it is told of a turn is so; a
  watcher knows every announced message unless it lagged.
* **Hooks and effects.** An effect is looked up, created, carried out and updated in
  separate calls, and the same hook may come again after any of them failed. A
  completed row must have its child, and a child must not be seeded twice for nothing.
* **Provider rounds.** What the next round needs lives in a map of the client object,
  which a reload replaces, and text and calls come in several kinds of events. Every
  call is answered by exactly one output, every part is said once.
* **Bash.** Two capture tasks, a timeout, an output limit and processes that outlive
  their shell. The result of a call says what happened, and the call should return.

`PROJECT.json` lists the hazards one by one, each with its line and the properties
that would catch it, or a note on why none does.

## Modules

| Module | Models |
|---|---|
| `SessionLock` | What the lock port promises for one key; with `Leased = FALSE` it is the in-process adapter itself |
| `RedisLock` | The Redis adapter: SET under a timeout, renewal task, release, drop, crash, with discrete time |
| `RedisLock_proofs` | Theorems about `RedisLock` |
| `SessionTurn` | Send, reply, compact, fork and the compaction hook over lock and ledgers |
| `SessionTurn_proofs` | Theorems about `SessionTurn`: types, the lock, the fork |
| `SessionTurnRecord_proofs` | Theorems about what `SessionTurn` records of a turn |
| `MessageEdit` | The pure loops of `apply_message_event` over the parts of a message |
| `MessageLedger` | Stim envelopes against the public ledger, on both adapters |
| `MessageLedger_proofs` | Theorems about `MessageLedger` and the loops of `MessageEdit` |
| `TurnStreams` | The event stream of a send, the reply store and the streams of its followers |
| `TurnStreams_proofs` | Theorems about `TurnStreams` |
| `TurnHooks` | Compaction and handoff hooks of completed turns, the effect ledger, the watch hub |
| `TurnHooks_proofs` | Theorems about `TurnHooks` |
| `ProviderRounds` | The provider loop of a turn, both clients with their caches, a reload meanwhile |
| `ProviderRounds_proofs` | Theorems about `ProviderRounds` |
| `BashTool` | One call of the bash tool: shell, background process, capture tasks, select |
| `BashTool_proofs` | Theorems about `BashTool` |
| `MCRedisLock`, `MCSessionTurn`, `MCMessageLedger`, `MCTurnHooks` | Instances for TLC: symmetry, envelopes, hook sets, a bound |
| `MCTurnParts` | `TurnStreams`, `ProviderRounds` and `BashTool` for TLC, each on its own: only one of the three moves in a behaviour |

`RedisLock` and `SessionTurn` both implement `SessionLock` (`Abs == INSTANCE
SessionLock WITH ...`, checked as `ImplementsLock` and proved). So the services
need not carry the protocol of the Redis adapter: `SessionTurn` takes the lock
with the steps of the port, and its constant `MayLose` says whether a lease may
lapse under a task that still works. When calls succeed and the TTL is ample, it cannot:
`RedisLock` then implements the stricter port `SteadySpec`, in which a key lapses only
after its guard is gone, and it is this port that `SessionTurn` with `MayLose = FALSE`
stays within (`ImplementsSteadyLock` in both). The two meet there, for every number of
clients; that such a port is exclusive is a theorem about the port alone.

The other modules look at a turn from one side each, so that they stay small:
`SessionTurn` has every store call of it, `TurnStreams` what its requester is told,
`TurnHooks` what is published of it and what it sets off, `ProviderRounds` what it
exchanges with the provider. They agree on the order of a turn: lock, start, body,
message, completion, release, hooks, end.

### RedisLock

One action for each thing that happens on the wire or in a task. A client is one
acquisition; its name is its random token, so `BeginAcquire` asks that no trace of
an old token is left. `wire` keeps the SET apart from the caller: dropping the
timed-out future does not take it back. `timer` is the timeout or the sleep; below
zero it is lateness, bounded by `MaxDelay`. `Tick` moves the clock only when no
client is overdue. With `Faulty`, calls fail before or after they took effect and
processes die. `superseded` is history: guards after whose grant the key went to
another client. `with_lock`, which nobody calls, and the key's prefix are left out.

### SessionTurn

A task is one request; `pc` is the store call it is about to make, `req` its
locals. Every awaited store call is one step, which succeeds, fails without effect
(`StoreFails`), or took effect and lost its answer (`Answered`, hosted only).
`AfterError` is the error path of every call: startup releases the guard, the
body goes through `fail_turn`, and the `?` in compact, fork and on `start_turn`
drops the guard. Dropped is not released: the Redis key expires, the in-process
key stays. `PeerWrites` are envelopes that run without the lock, `Crash` and
`Restart` the death of one process or the only one.

Abstractions: the provider and the tools are choices (calls, text, an error);
message contents are left out, only author, `fixed` and position stay; forks of
one point carry one request id, so children are keyed by fork point; the copy of a
fork is one step, as it is one transaction; events to HTTP and the watch hub and
the fork handoff hook are left out. A failed store call inside
`run_turn_completed_hooks` answers Err for a turn that completed.

### MessageEdit and MessageLedger

A call is one submission of an envelope, and submitting it again is another call.
In Postgres a call of the ledger is a READ COMMITTED transaction: a step that
reads (`Number`, `Load`) and a step that commits (`Insert`, `Write`), where the
unique keys decide. In SQLite every statement stands alone, nothing is logged, a
message's parts are kept as one text, and the row is read back in another step.
`Write` replaces the row that was read: the `UPDATE` names the id only. `Took` is
how a statement's success reaches the client, or does not. `piped` is history: the
messages for which an edit was loaded while another was between its read and its
answer. Deletion, which no envelope asks for, and session memory are left out.

A part is a function of its fields, and a patch merges the fields it is given over
those the part has, as `merge_message_part` does with the JSON of both; a field that
the part's type does not know is dropped on the way back. A merge that the code refuses
counts as an index out of range, and one that turns a text into an image is left out.
`Before` and `Place` are the stable `sort_by_key` of the insertions. `EditsAreExact`
says what the loops come to without them; it compares the two on `Parts` and `Merges`,
up to `MaxParts` parts and `MaxItems` items.

### TurnStreams

A turn is a send, whose task sends its events through an unbounded channel to the HTTP
response, or a protocol reply, whose handle is returned at once while a detached task
asks for the lock and carries the events of the same channel into the reply store.
`queue`, `relay` and `answer` are the channel, its reader and what a send's response has
carried. `Updated` is the store's `update` with its `terminal` guard; `Subscribe` takes
history, receiver and `terminal` in one step, as the code does under one lock; a
follower then reads the history at its own pace, and a receiver behind by more than
`ReplyCapacity` goes on with the oldest event that is left. `Panic` is the end of a
turn's task without a word, `Leave` a client that drops its response, `Restart` the loss
of everything that lives in memory: reply ids start over, and a handle from before may
name a new reply. The id of a reply is its index.

### TurnHooks

A turn, a send or a reply to a message that is there, takes the parent's lock (`Start`),
stores or finds its trigger (`Begin`), publishes to the hub, and after its release
evaluates the hook set of that moment (`Evaluate`; `replace_all` may have come at any
time, so any member of `HookSets`). `Compact`, `GetEffect`, `CreateEffect`, `Fork`,
`Copy`, `Seed`, `Reply` and `UpdateEffect` are the awaited calls of an action. Each may
fail before or after it took effect: the row or the child may be there although the
answer was lost. Effects and children are keyed by the turn's message and the hook's
id, which is what the idempotency key and the fork's request id are made of.

The lock is what either deployment gives. Its key may expire under a turn at work, as
one failed renewal makes it with Redis (`Lapse`, which costs a fault then, and `lost`
remembers the turn); the turn learns of it at its release and fails. A guard that is
dropped by `?` may leave its key behind, until it expires or, in the process, until a
restart. `Clients` are requests that take the same locks: `ClientLocks` and
`ClientUnlocks` are `POST /compact` and `/fork` on the parent, which make a handoff's fork
Busy, `VisitChild` and `LeaveChild` a request to a child, which makes the seed Busy.

A turn that failed publishes so after it gave its lock back (`Err`, `Fail`). A watcher
reads its snapshot, subscribes, fetches the messages and then hears event after event;
`Lag` stands for the overflow of the hub's channel, which events of other sessions, hooks
and forks cause too. `Restart` is a dying process, which nobody resumes.

### ProviderRounds and BashTool

One turn's loop over `Ask`, the gateway's events, the tool calls and the next round.
`cache` is `response_cache` of each provider object that was installed. The gateway
is free: it sends any events its API has, in any order the decoder takes, closes the
connection at any time, and mixes text with calls. The two clients differ in when a call is
requested (with its item, or with `finish_reason`), what is cached (the items of the
response, or the whole conversation) and what a missing end leaves. A
`response.completed` without an id completes the response and caches nothing
(`Completed`). Contents are numbers: an item is its kind, response and place. `sent` is
history, written by what comes in (`CameIn`) and not by what the decoder does with it.

`BashTool` is one call: `Write`, `LeaveBehind`, `Exit` and `HeirEnds` are the processes,
`Read`, `EndOfFile` and `Break` the capture tasks, `WaitDone`, `WaitFails`, `TimeOut` and
`LimitHit` the branches of the `select!`, `Join` the end. A call that fails early may leave
its shell running: the artifact directory is made after the shell was started
(`SpawnFails`). A byte stands for a character, so that the limits in bytes and in
characters meet, as they do for ASCII.

## Runs

| Run | Shows |
|---|---|
| `redis_lock` | Two clients with failing calls, crashes and late steps: the adapter implements the port, overtaken guards stay overtaken, releases end, abandoned keys expire |
| `redis_lock_overlap` | Violation: one failed renewal and two guards are held at once |
| `session_turn` | Hosted, leases kept, two requests of any kind, one fault: contiguous turns, honest answers, no stranded turn without a fault, children within parents |
| `session_turn_overlap` | Hosted, leases may lapse: what holds for two turns that overlap |
| `session_turn_standalone` | In-process lock, SQLite, restarts, the separate read back |
| `session_turn_live` | Hosted, under fairness: requests end, the key is always free again |
| `session_lock_leak` | Violation: compacting an empty session keeps the in-process key until a restart |
| `message_ledger` | Four submissions of eight envelopes, both adapters, one fault, and the edit loops on all small inputs |
| `message_ledger_fixed` | Violation: a patch read before a fix and written after it un-fixes the message |
| `turn_parts` | Three systems, one at a time. Two requests, sends or replies, one follower, one fault: followers see a run of the reply's events, an answer says what became of the turn, every stream ends. Three rounds over either API with a reload: every call answered once, a cache miss only after a response that was not completed or had no id, every part that came in said once. One call of bash: its result tells the truth, and it returns unless a process it left behind holds its pipes for ever |
| `turn_hooks` | Two turns with a handoff hook that comes twice, a client, a peer, a watcher, one fault, lost key or restart: turns do not interleave on the hub unless a key was lost, watchers miss nothing, completed effects have their child, no seed is repeated without a failure, no effect ends badly without a reason |
| `bash_stuck` | Violation: a timeout kills the shell, a background process keeps the pipes, and the call never returns |

**Bounds.** Two clients or tasks suffice for the races of the lock, as each concerns
one guard and one that overtakes it; what takes three of them is proved instead:
exclusion of timely guards (`TimelyExclusion`) and two forks of a prefix that a third
request made (`ForkedForGood`). `MaxMessages` is how long peers
may make the ledger; tasks append beyond it, so that a peer's message can lie
before the trigger, between it and the snapshot, or between the snapshot and the
reply. `MaxCalls = 1` gives a
turn with and without tools and the return to the provider. `MaxFaults = 1` is one
failed call or crash at any place, on top of the errors that need none (a provider
or a tool that fails, a lost number, a busy lock, a lapsed lease), so the failure of
`fail_turn` after an error of the body is among them; two failed calls in one
turn are left to the proofs. The eight envelopes of
`MCMessageLedger` are two creates, one of them fixed, edits of the same version, of the next one and
by somebody else, and two fixes; four calls let three edits overlap after a
create or one envelope be retried among others. Of the edit loops, three parts and two items
let an item fall before, on and after another, a merge for a text and one for an image
meet parts of both kinds, and indexes start at -1; `ExactEdits` has no bound. In
`turn_parts` a second request is needed
to be refused by the lock and to take a reply id that a restart gave out again; a
channel of one event (64 in the code) lags on the second of the two deltas. The hook set of
`turn_hooks` gives one handoff id twice, which is how a hook comes again in one turn,
and a second set, to be loaded between turns, has a compaction and a threshold that only
a later turn reaches; one peer message is enough to push a fork point out of the
range. `Apart` bounds what meets what in that run: the client acts in behaviours without
a peer's message and without a watcher, and a watcher sees turns whose hooks have not
begun, which tell the parent's watchers nothing; the theorems about `TurnHooks` have no such
bound. A third round of `ProviderRounds` answers a response that was itself a follow-up, two
calls and two parts give their order a meaning, and the reload may come at any time. The
limits of bash make the default of the characters (2), the configured bytes (3) and the
output (4) three different numbers, so that output can be whole, shortened or cut; nothing
needs to be written in `bash_stuck`. `MaxFaults = 0` in the violation
runs shows that no failure is needed. All runs but those of `RedisLock`
set `CHECK_DEADLOCK FALSE`: these systems stop when every one of their finitely many
requests, turns or calls is over. Those of `RedisLock` check deadlock.

**Fairness.** `RedisLock`: what was sent is answered, a task that can run does, time
passes; only the shutdown of the renewal task is strongly fair, since the `select!`
may prefer an elapsed sleep once but not for ever. Nobody has to acquire or
release. `SessionTurn`: a task that is under way goes on, as Tokio polls it and
store calls and provider streams end, and an unrenewed key expires. No request, peer
write, failure or lapse of a live lease is assumed. `TurnStreams`: tasks that can run do,
provider streams end, and a client that follows a reply reads on; that a client comes or
goes is not assumed. `BashTool`: the capture tasks and the call go on and the clock of the
timeout runs out; nothing is assumed of the processes, neither that the shell ends nor that
a background process does. `BashReturns` therefore has the condition the code needs, since
the captures are joined without a timeout (`tools.rs:317`): that again and again no
background process holds the pipes; `bash_stuck` shows what happens without it. `TurnHooks` and
`ProviderRounds` are checked for safety only.

## Proofs

All theorems hold for every value of the constants that satisfies the `ASSUME` of
the module: any number of clients, requests, submissions, messages and faults.

* **`RedisLock_proofs`.** `Shape` says which combinations of `pc`, `wire` and
  `renew` occur and that a superseded client is granted and not the owner; it
  gives `OvertakenForGood` and, step by step, `Refinement` to the port. For
  the timely case `HeadStart` compares two clocks: a held guard's key has more
  time left than its renewal needs at worst. It is inductive under
  `Timely == ~Faulty /\ TTL > AcquireTimeout + RenewInterval + MaxDelay`, and this
  is the condition `TimelyOwnership` and `TimelyExclusion` carry; the code's
  `validate_config` asks for less (`RenewInterval < TTL`).
  A guard that is being released may still lose its key under this condition: the release
  starts a clock of its own once the renewal task has ended, so the script may come one
  more delay later. `Ample`, with `2 * MaxDelay` in the place of `MaxDelay`, covers it, and
  `Lead` is `HeadStart` carried on from the accepted SET to the end of the release. It gives
  `AmpleExclusion` (nobody is overtaken), `AmpleRefinement` (the port with leases that are
  kept) and `AmpleRelease` (neither `Err(Lost)` nor `removed = 0`). One less is too
  little: with interval, timeout and delay 1, TLC finds the three of them violated at a TTL of 4
  and not at 5. `bootstrap.rs:56` sets 120 s, 40 s and 0.5 s, which is ample for
  delays below 39 s.
* **`SessionTurn_proofs`.** Types are not inductive alone: a kept sequence number
  must stay the number of a row, which needs to know which locals are set at which
  step and that the ledgers only grow. `TypeInv` says so, in two halves, what the tasks
  keep (`Tasked`) and what the store keeps (`Stored`). `Refinement` follows with the
  invariant that the holder is not superseded; `Exclusion` and `OvertakenFails` need
  the lock alone, `ForkedForGood` the guard of the copy. `SteadyRefinement` is the same
  simulation with leases kept, where `Lapse` waits for the guard to go; `PortExclusion`
  says what its port is good for.
* **`SessionTurnRecord_proofs`** goes on from there. `Paths` says at each step of a task
  which row its turn has, whether the hook's compaction has one of its own, and that a
  fault was spent for every row left running: `Stranded`. `Basing` keeps the
  continuation at the last reply seen and the basis of children within the ledgers
  (`Continuation`, `ChildrenWithin`). `Aheads`, with leases kept, says the task under
  the lock is past everything seen, so that only the hook's compaction, after the release,
  can take `last_seen_session_seq` back (`SeenAdvances`). `Records` carries what a hosted
  request has stored so far up to its answer, leases kept or not (`OkRecorded`).
  `Contiguity`, with leases kept, says the entries since the trigger of the turn under the
  lock are the ones it has made, and that it closes its claim on exactly these
  (`EntriesContiguous`). Peers append messages and no entries, which is why they
  do not break it.
* **`MessageLedger_proofs`.** `TypeInv` is types, `Shape` (a submission is at the
  calls of its operation) and `Numbers`: a number taken for an insert is at most
  one ahead of the count, so the unique key admits only the next one. `LedgerInv`
  adds what a submission under way knows: without overlap the row it read is
  still there (`Fresh`), two edits at once leave a trace (`Overlaps`), the event log covers
  what was read (`LogInv`), and what was acknowledged is recorded (`Recorded`).
  `ReplyInv` counts replies against the fixes that are yet to be read back.
  The edits (`ExactEdits`) are a statement about loops over data, for any parts and any number
  of items. The library's induction takes a predicate, which the provers cannot
  instantiate, so the induction is over a set: `Least` finds the first round at which
  an invariant would fail (finite sets are well founded under inclusion), `UpTo` says there is
  none, and `Loop` that a loop has its sequence of results, which a recursive function
  in a `LET` is then equal to. `SortedIs` shows that counting places sorts stably.
  `PatchedIs` carries the last value given so far for each field; `RemovedIs` an ascending map
  from the parts left to their old positions; `InsertedIs` the inserted items at their
  indexes, and an ascending map from the old parts to the positions around them, for which
  the indexes must ascend strictly. `Enumerated` turns these maps into the counting that
  `Others` is defined with.
* **`TurnStreams_proofs`.** `TypeInv` is types and that a follower's receiver belongs to a
  reply that exists. `Reading` numbers the events of a reply (`Logged`) and says of every
  client where it is between its history and its receiver (`Follows`), so that a lag only
  skips ahead: `ReadersSeeRun`. `Telling` ties what a turn's channel holds to what its task
  has said and its reader has not passed on: an answer is what became of the turn
  whoever panicked, left or restarted in between (`AnswersAreOutcomes`).
* **`TurnHooks_proofs`.** `Typed` are the types without what is in a plan: the hooks that
  are due are filtered with `SelectSeq`, whose operator argument no prover takes, and
  the proofs need no more than that a handoff has a key. `Locked` says that a turn at work
  has the lock unless its key was lost; `Runs` says that the hub told of it last, lost keys
  apart, that nothing was told of a turn before it began, and no failure of one that goes on:
  together they keep runs apart (`OneRunAtATime`). `Heard` says announced messages are
  stored, so that what is fetched after the subscription covers what was announced before
  it (`WatchersKnow`). `Seeding` spends a fault for every way to leave a handoff after
  the seed without completing it (`SeededOncePerFault`); `Finished` follows a handoff to
  its end, with what its child holds at each step (`CompletedIsSeeded`). `Counted` compares two
  counters of the code: as long as nothing failed and no peer wrote, every public message
  but those of the turn that speaks is referenced by an entry, so a handoff's `session_seq` is in
  the fork's range; `Held` says whose key the parent's lock is when the fork asks for it (a
  turn at work, a dropped guard, a client) and who is at a child; `Ending` that whatever
  ended badly has one of the reasons (`EffectsEndForAReason`).
* **`ProviderRounds_proofs`.** `Progress` ties the program counter to the rounds, and
  `Kept` says a response that asked for tools and was completed under an id is in the cache
  of the turn's own provider (`NoOtherMiss`). `Spoken` says the text holds no part of a round
  that is yet to come, and that the decoder of a round knows which of its parts came in
  (`TextComplete`). `Answering` follows the calls: nothing is cached of a response before it
  is complete (`Fresh`), the next request is made of the cached items and one output per call
  (`Following`), and a request owes no output (`Reading`); `Owes` is what a list of items
  still asks for, and lemmas say how appending an item changes it (`CallsAnswered`). The
  module's `TypeOK` is proved on the way.
* **`BashTool_proofs`.** `BashInv` adds to the types what a capture has taken and why it
  stopped (`Captured`), that a limit is notified by a cut (`Notified`), what each branch of
  the select leaves of the shell (`Chosen`), and that the captures of a returned call are
  over (`Collected`). It needs that `HardBytes` is at least `Truncate`, which is what
  `normalized_hard_bytes` is for.

Only model-checked: everything under fairness (`RequestEnds`, `KeyRecovers`,
`AbandonedKeyRecovered`, `ReleaseEnds`, `StreamsEnd`, `BashReturns`), which the prover does
not reach. Every other property of a passing run has its theorem. Only proved:
`TimelyOwnership`, `TimelyExclusion`, `AmpleExclusion`, `AmpleRefinement`, `AmpleRelease`,
`SteadyRefinement`, `PortExclusion` and `ForkedForGood`.

## Where code and documents disagree

* One failed renewal ends the renewal task and the turn goes on
  (`redis.rs:302`, `redis_lock_overlap`), against `session-locking.md:5` and `:30`.
* A guard dropped by `?` keeps the in-process key for ever (`compact.rs:114`,
  `session_lock_leak`), against `session-locking.md:31`.
* Two edits of one version are both applied, and a stale patch un-fixes a message
  (`message_events` over `UPDATE ... WHERE id`, `message_ledger_fixed`), against
  `session-message-model.md:327` and `:330`.
* A bash call whose shell was killed by the timeout or the limit waits for whoever still
  holds its pipes (`tools.rs:317`, `bash_stuck`) and makes no tool result, against
  `session-message-model.md:262`.

Seen while modelling, without a run of its own:

* `last_seen_session_seq` is "the highest public session_seq already incorporated"
  (`session-message-model.md:200`), but a hook's compaction, which runs with the lock
  released, completes with the end it was given before and takes the column back after a
  later turn (`compact.rs:173`, `hook_runtime.rs:84`). `SeenRegressesOnlyByHook` excepts
  this step and says that it is the only one, while leases are kept.
* The provider's input is the public ledger, not what the soul session references
  (`assembly.rs:20`), against `session-message-model.md:351`; a compact is never part of it
  (`assembly.rs:15`), against `:282` and `lifecycle-and-hooks.md:34`.
* For the same reason `last_compact_end` is always zero (`hooks.rs:114`):
  `min_messages_since_last_compact` (`setup.md:119`) counts every message, and each turn
  beyond the threshold compacts the session from its first message again
  (`MessagesSinceCompact` in `TurnHooks`).
* The handoff hook passes a public `session_seq` as fork point, which the fork compares
  with the soul session's own counter (`hooks.rs:296`, `InRange`); messages of peers make
  the handoff fail (`EffectEndsForAReason`).
* A follow-up of the responses client carries the last response's items and outputs
  without the input, that of the chat client the whole conversation (`Mapped`).
* A configured provider serves subsequent turns (`http/state.rs:231`,
  `api-surface.md:65`), but turns that a handoff seeds use the one of the process's start
  (`send/mod.rs:153`).
* A fork copies the provider state when its basis lies in the prefix
  (`soul_runtime/fork.rs:81`), where
  `session-message-model.md:186` lets a child start without one.

## Plan

1. Done: lock port, Redis adapter, session services, public ledger, first theorems.
2. Done: `TurnStreams`, `TurnHooks`, `ProviderRounds`, `BashTool`, and the theorems about
   hooks, watchers, rounds and bash.
3. Done: a theorem for every safety property of the passing runs, and the chain from an
   ample TTL to `MayLose = FALSE` in `SessionTurn`.
4. Two configurations applied at once (`http/state.rs:203`): provider and meta data are
   written under two locks. Session memory and deletion of messages as they meet a turn.

## Not modelled, and why

Some hazards have no property that would catch them, and `PROJECT.json` says so: a turn left
running by a failed call of a compact or of `fail_turn`, the Err of a turn that completed, the
message SQLite reads back in place of the turn's own, a provider that asks for tools for
ever. The models have these steps, but for the last; no statement of the code or its
documents says what should hold then.

`TurnHooks` takes no part in what happens inside a turn, a compact or a fork: a turn
that fails may do so at its start, in its body or at its completion, which stand for the
calls in between, and the seeded turn in a child is its two writes. A client's request to the
parent is a lock taken and given back, with or without a compact.

Prompt rendering, memory and soul surfaces, session queries, schema and OpenAPI conversion
and telemetry have no state of their own or change it with a single statement. Of the
configuration only what a running turn can notice is modelled: a provider replaced during
it, a hook set replaced between turns. The memory tools are single statements; for the
turn every tool is one output or one error. Of bash, the text for the model, the
environment, the credentials and the artifact files are left out, but for the failure of
a capture that cannot write its file. The event bus replaces its list of subscribers
as a whole. The Rust types and port traits are modelled by what the adapters do with them.
