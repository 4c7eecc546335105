---------------------------- MODULE RedisLock ----------------------------
(***************************************************************************)
(* The Redis lock adapter, crates/santi-lock/src/adapter/redis.rs, for one *)
(* key: acquisition with SET NX PX under a timeout, the background renewal *)
(* task of every guard, release with compare-and-delete, expiry, guards    *)
(* that are dropped, processes that die, and Redis calls whose answer is   *)
(* lost.  A client stands for one acquisition attempt; its name is used    *)
(* as the random token, so it starts again only when no trace of its old   *)
(* token is left.                                                          *)
(*                                                                         *)
(* Time is discrete.  The key's `ttl` and every client's `timer` count     *)
(* down together; a negative timer is lateness, how long an elapsed sleep, *)
(* a Redis round trip and the scheduler have kept a step waiting.          *)
(***************************************************************************)
EXTENDS Integers, FiniteSets

CONSTANTS
    Clients,          \* acquisition attempts
    NoClient,         \* the key does not exist
    TTL,              \* config.ttl, in ticks
    RenewInterval,    \* config.renew_interval
    AcquireTimeout,   \* config.acquire_timeout
    MaxDelay,         \* how late a renewal or a release may be
    Faulty            \* TRUE: Redis calls may fail and processes may die

\* validate_config, and the token of nobody.
ASSUME RedisLockAssumption ==
    /\ NoClient \notin Clients
    /\ TTL \in Nat \ {0}
    /\ RenewInterval \in Nat \ {0}
    /\ AcquireTimeout \in Nat \ {0}
    /\ RenewInterval < TTL
    /\ MaxDelay \in Nat
    /\ Faulty \in BOOLEAN

VARIABLES
    owner,       \* the token stored under the key, NoClient when it does not exist
    ttl,         \* ticks until the key expires
    pc,          \* where the client's own task is
    wire,        \* the client's SET on its way: sent, and what Redis answered
    renew,       \* where the client's renewal task is
    timer,       \* ticks until the client's timeout or sleep elapses
    lost,        \* the AtomicBool the renewal task and the guard share
    superseded   \* history: the key was granted to another client since

vars == <<owner, ttl, pc, wire, renew, timer, lost, superseded>>

TypeOK ==
    /\ owner \in Clients \union {NoClient}
    /\ ttl \in 0..TTL /\ (owner = NoClient <=> ttl = 0)
    /\ pc \in [Clients -> {"idle", "setting", "held", "draining", "dropped"}]
    /\ wire \in [Clients -> {"none", "sent", "ok", "nil"}]
    /\ renew \in [Clients -> {"none", "sleeping", "script"}]
    /\ timer \in [Clients -> Int]
    /\ lost \in [Clients -> BOOLEAN]
    /\ superseded \in SUBSET Clients

Init ==
    /\ owner = NoClient
    /\ ttl = 0
    /\ pc = [c \in Clients |-> "idle"]
    /\ wire = [c \in Clients |-> "none"]
    /\ renew = [c \in Clients |-> "none"]
    /\ timer = [c \in Clients |-> 0]
    /\ lost = [c \in Clients |-> FALSE]
    /\ superseded = {}

\* Clients whose grant is outstanding: Redis accepted their SET and they have
\* neither given up on it nor let go of the guard.
Granted(c) ==
    \/ pc[c] = "setting" /\ wire[c] = "ok"
    \/ pc[c] \in {"held", "draining"}

Inside == {c \in Clients : Granted(c)}

---------------------------------------------------------------------------
\* acquire_guard: a fresh token, SET NX PX sent under a timeout.
BeginAcquire(c) ==
    /\ pc[c] = "idle" /\ wire[c] = "none" /\ owner # c
    /\ pc' = [pc EXCEPT ![c] = "setting"]
    /\ wire' = [wire EXCEPT ![c] = "sent"]
    /\ timer' = [timer EXCEPT ![c] = AcquireTimeout]
    /\ UNCHANGED <<owner, ttl, renew, lost, superseded>>

\* Mutant: the SET goes without PX, so what it stores is not given a TTL.
MutantSetNoExpiry(c) ==
    /\ wire[c] = "sent"
    /\ \/ /\ owner = NoClient
          /\ owner' = c
          /\ wire' = [wire EXCEPT ![c] = IF pc[c] = "setting" THEN "ok" ELSE "none"]
          /\ superseded' = Inside
       \/ /\ owner # NoClient
          /\ wire' = [wire EXCEPT ![c] = IF pc[c] = "setting" THEN "nil" ELSE "none"]
          /\ UNCHANGED <<owner, superseded>>
    /\ UNCHANGED <<ttl, pc, renew, timer, lost>>

\* Redis runs the SET.  The caller may have timed out meanwhile: dropping the
\* future does not take the command back.
RedisSet(c) ==
    /\ wire[c] = "sent"
    /\ \/ /\ owner = NoClient
          /\ owner' = c
          /\ ttl' = TTL
          /\ wire' = [wire EXCEPT ![c] = IF pc[c] = "setting" THEN "ok" ELSE "none"]
          /\ superseded' = Inside
       \/ /\ owner # NoClient
          /\ wire' = [wire EXCEPT ![c] = IF pc[c] = "setting" THEN "nil" ELSE "none"]
          /\ UNCHANGED <<owner, ttl, superseded>>
    /\ UNCHANGED <<pc, renew, timer, lost>>

\* The SET was answered OK: the guard is built and its renewal task spawned.
AcquireOk(c) ==
    /\ pc[c] = "setting" /\ wire[c] = "ok"
    /\ pc' = [pc EXCEPT ![c] = "held"]
    /\ wire' = [wire EXCEPT ![c] = "none"]
    /\ renew' = [renew EXCEPT ![c] = "sleeping"]
    /\ timer' = [timer EXCEPT ![c] = RenewInterval]
    /\ lost' = [lost EXCEPT ![c] = FALSE]
    /\ UNCHANGED <<owner, ttl, superseded>>

\* The SET was answered nil: somebody else holds the key.
AcquireBusy(c) ==
    /\ pc[c] = "setting" /\ wire[c] = "nil"
    /\ pc' = [pc EXCEPT ![c] = "idle"]
    /\ wire' = [wire EXCEPT ![c] = "none"]
    /\ UNCHANGED <<owner, ttl, renew, timer, lost, superseded>>

\* acquire_timeout elapsed (reported as Busy) or the call failed.  What was
\* sent may still land, and what landed stays until it expires.
AcquireGiveUp(c) ==
    /\ pc[c] = "setting"
    /\ timer[c] = 0 \/ Faulty
    /\ pc' = [pc EXCEPT ![c] = "idle"]
    /\ wire' = [wire EXCEPT ![c] = IF wire[c] = "sent" THEN "sent" ELSE "none"]
    /\ superseded' = superseded \ {c}
    /\ UNCHANGED <<owner, ttl, renew, timer, lost>>

---------------------------------------------------------------------------
\* renew_loop: the sleep won the select, the renewal script is sent.
RenewFires(c) ==
    /\ renew[c] = "sleeping" /\ timer[c] <= 0
    /\ renew' = [renew EXCEPT ![c] = "script"]
    /\ UNCHANGED <<owner, ttl, pc, wire, timer, lost, superseded>>

\* Mutant: the renewal task listens to the dropped sender only.
MutantShutdownOnDrop(c) ==
    /\ renew[c] = "sleeping" /\ pc[c] = "dropped"
    /\ renew' = [renew EXCEPT ![c] = "none"]
    /\ timer' = [timer EXCEPT ![c] = 0]
    /\ pc' = [pc EXCEPT ![c] = "idle"]
    /\ UNCHANGED <<owner, ttl, wire, lost, superseded>>

\* Mutant: the renewal task listens to the explicit signal only, so a guard
\* that is dropped leaves it running.
MutantShutdownOnSignal(c) ==
    /\ renew[c] = "sleeping" /\ pc[c] = "draining"
    /\ renew' = [renew EXCEPT ![c] = "none"]
    /\ timer' = [timer EXCEPT ![c] = 0]
    /\ UNCHANGED <<owner, ttl, pc, wire, lost, superseded>>

\* renew_loop: the shutdown signal, or the dropped sender, won the select.
RenewShutdown(c) ==
    /\ renew[c] = "sleeping" /\ pc[c] \in {"draining", "dropped"}
    /\ renew' = [renew EXCEPT ![c] = "none"]
    /\ timer' = [timer EXCEPT ![c] = 0]
    /\ pc' = [pc EXCEPT ![c] = IF pc[c] = "dropped" THEN "idle" ELSE pc[c]]
    /\ UNCHANGED <<owner, ttl, wire, lost, superseded>>

\* Mutant: the renewal writes the token back instead of comparing it.
MutantRenewBlind(c) ==
    /\ renew[c] = "script"
    /\ owner' = c
    /\ ttl' = TTL
    /\ renew' = [renew EXCEPT ![c] = "sleeping"]
    /\ timer' = [timer EXCEPT ![c] = RenewInterval]
    /\ UNCHANGED <<pc, wire, lost, superseded>>

\* The script found the guard's own token and pushed the expiry back.
RenewOk(c) ==
    /\ renew[c] = "script" /\ owner = c
    /\ ttl' = TTL
    /\ renew' = [renew EXCEPT ![c] = "sleeping"]
    /\ timer' = [timer EXCEPT ![c] = RenewInterval]
    /\ UNCHANGED <<owner, pc, wire, lost, superseded>>

\* The renewal found another token or none, or it failed (whether or not the
\* script ran): `lost` is set and the task ends.  The body is not told.
RenewLost(c) ==
    /\ renew[c] = "script"
    /\ \/ owner # c /\ UNCHANGED ttl
       \/ Faulty /\ ttl' \in (IF owner = c THEN {ttl, TTL} ELSE {ttl})
    /\ lost' = [lost EXCEPT ![c] = TRUE]
    /\ renew' = [renew EXCEPT ![c] = "none"]
    /\ pc' = [pc EXCEPT ![c] = IF pc[c] = "dropped" THEN "idle" ELSE pc[c]]
    /\ UNCHANGED <<owner, wire, timer, superseded>>

---------------------------------------------------------------------------
\* release_inner: signal the renewal task, then wait for it to end.
BeginRelease(c) ==
    /\ pc[c] = "held"
    /\ pc' = [pc EXCEPT ![c] = "draining"]
    /\ UNCHANGED <<owner, ttl, wire, renew, timer, lost, superseded>>

\* The renewal task has ended and the client no longer needs its guard.
GuardGone(c) ==
    /\ pc[c] = "draining" /\ renew[c] = "none"
    /\ pc' = [pc EXCEPT ![c] = "idle"]
    /\ superseded' = superseded \ {c}
    /\ UNCHANGED <<wire, renew, timer, lost>>

\* release_inner with the flag set: Err(Lost), the key is left alone.
ReleaseLost(c) ==
    /\ GuardGone(c)
    /\ lost[c]
    /\ UNCHANGED <<owner, ttl>>

\* Mutant: a plain DEL instead of the compare-and-delete script.
MutantPlainDelete(c) ==
    /\ GuardGone(c)
    /\ ~lost[c]
    /\ owner' = NoClient
    /\ ttl' = 0

\* The compare-and-delete script removed the guard's own token.
ReleaseOk(c) ==
    /\ GuardGone(c)
    /\ ~lost[c] /\ owner = c
    /\ owner' = NoClient
    /\ ttl' = 0

\* The script found another token or none, or the call failed before it ran:
\* Err, the key is left alone.  (A call that failed after it ran is ReleaseOk
\* with another answer to the caller.)
ReleaseErr(c) ==
    /\ GuardGone(c)
    /\ ~lost[c]
    /\ owner # c \/ Faulty
    /\ UNCHANGED <<owner, ttl>>

\* A guard dropped without release: an early return in the caller.  Dropping
\* the sender ends the renewal task at its next select.
DropGuard(c) ==
    /\ pc[c] = "held"
    /\ pc' = [pc EXCEPT ![c] = IF renew[c] = "none" THEN "idle" ELSE "dropped"]
    /\ superseded' = superseded \ {c}
    /\ UNCHANGED <<owner, ttl, wire, renew, timer, lost>>

\* The process dies, with its request and its renewal task.
Crash(c) ==
    /\ Faulty
    /\ pc[c] # "idle"
    /\ pc' = [pc EXCEPT ![c] = "idle"]
    /\ wire' = [wire EXCEPT ![c] = IF wire[c] = "sent" THEN "sent" ELSE "none"]
    /\ renew' = [renew EXCEPT ![c] = "none"]
    /\ superseded' = superseded \ {c}
    /\ UNCHANGED <<owner, ttl, timer, lost>>

---------------------------------------------------------------------------
\* c has a step to take before more time may pass: its timeout has elapsed,
\* or its renewal or release is as late as it may be.
Overdue(c) ==
    \/ pc[c] = "setting" /\ timer[c] = 0
    \/ renew[c] # "none" /\ timer[c] = -MaxDelay
    \/ pc[c] = "draining" /\ renew[c] = "none" /\ ~lost[c] /\ timer[c] = -MaxDelay

\* Clients a timer runs for.
Timed(c) ==
    \/ pc[c] = "setting"
    \/ renew[c] # "none"
    \/ pc[c] = "draining" /\ ~lost[c]

\* A tick of the clock.  A key whose time to live runs out is gone.
Tick ==
    /\ \E c \in Clients : Timed(c) \/ owner = c
    /\ \A c \in Clients : ~Overdue(c)
    /\ ttl' = IF ttl = 0 THEN 0 ELSE ttl - 1
    /\ owner' = IF ttl <= 1 THEN NoClient ELSE owner
    /\ timer' = [c \in Clients |-> IF Timed(c) THEN timer[c] - 1 ELSE timer[c]]
    /\ UNCHANGED <<pc, wire, renew, lost, superseded>>

Next ==
    \/ \E c \in Clients :
          \/ BeginAcquire(c) \/ RedisSet(c)
          \/ AcquireOk(c) \/ AcquireBusy(c) \/ AcquireGiveUp(c)
          \/ RenewFires(c) \/ RenewShutdown(c) \/ RenewOk(c) \/ RenewLost(c)
          \/ BeginRelease(c) \/ ReleaseLost(c) \/ ReleaseOk(c) \/ ReleaseErr(c)
          \/ DropGuard(c) \/ Crash(c)
    \/ Tick

Spec == Init /\ [][Next]_vars

(* What the Tokio runtime, Redis and the clock owe: a call that was sent is *)
(* answered, a task that can run does, time passes.  Nothing obliges anyone *)
(* to take or to let go of the lock.  RenewShutdown is strongly fair: the   *)
(* select races the signal against the sleep and may lose once, but after   *)
(* the next renewal the signal is ready at once and the sleep is not.       *)
Fairness ==
    /\ \A c \in Clients :
          /\ WF_vars(RedisSet(c))
          /\ WF_vars(AcquireOk(c))
          /\ WF_vars(AcquireBusy(c))
          /\ WF_vars(RenewFires(c))
          /\ SF_vars(RenewShutdown(c))
          /\ WF_vars(RenewOk(c) \/ RenewLost(c))
          /\ WF_vars(ReleaseLost(c) \/ ReleaseOk(c) \/ ReleaseErr(c))
    /\ WF_vars(Tick)

LiveSpec == Spec /\ Fairness

---------------------------------------------------------------------------
(* The adapter implements the lock port: the key's token is the holder, the *)
(* grants outstanding are the clients inside.                               *)
Abs == INSTANCE SessionLock WITH
    holder <- owner, inside <- Inside, superseded <- superseded,
    Leased <- TRUE

(* Every step of the adapter is a grant of a free key, a release by the     *)
(* holder, a guard that goes away, an expiry, or nothing the port can see:  *)
(* the SET that lands after its caller timed out, the blind spot of a       *)
(* failed renewal and compare-and-delete included.                          *)
ImplementsLock == Abs!LockSpec

(* The key never carries the token of a guard it was taken away from: once  *)
(* overtaken, a guard can neither renew nor delete the key again, so its    *)
(* release_inner answers Err (`lost`, or removed = 0) however the expiry,   *)
(* the renewal task and the release are interleaved.                        *)
SupersededNeverHolds == Abs!HolderNotSuperseded

(* docs/contracts/runtime/session-locking.md:5 and :30: at most one client  *)
(* is between its acquire and its release.                                  *)
MutualExclusion ==
    \A c, d \in Clients : pc[c] = "held" /\ pc[d] = "held" => c = d

(* When Redis calls succeed and nothing is later than MaxDelay, a guard     *)
(* owns the key until its release begins: the renewal task is always ahead  *)
(* of the expiry that acquire_guard and renew_script set.  It takes a TTL   *)
(* that covers the acquire timeout, one interval and the delay, more than   *)
(* validate_config asks for.                                                *)
HeldOwnsKey == \A c \in Clients : pc[c] = "held" => owner = c

(* With one delay more, for the release itself, the key does not lapse      *)
(* under a guard at all: from the SET that Redis accepted to the end of the *)
(* release.  This is the lock SessionTurn has when leases are kept.         *)
ImplementsSteadyLock == Abs!SteadySpec

(* In that case release_inner of a guard, asked while the renewal task may  *)
(* be asleep, at its script or gone, finds the flag down and its own token, *)
(* and deletes it: neither Err(Lost) nor `removed = 0` is ever answered.    *)
ReleaseSucceeds ==
    [][\A c \in Clients :
          pc[c] = "draining" /\ pc'[c] # "draining" =>
             ~lost[c] /\ owner = c /\ owner' = NoClient]_vars

(* session-locking.md:31, let TTL recover abandoned locks: a token whose    *)
(* guard was dropped, died, never came to be or failed its release does     *)
(* not keep the key for ever.                                               *)
AbandonedKeyRecovered ==
    \A c \in Clients :
        owner = c /\ c \notin Inside ~> owner # c \/ c \in Inside

(* A release ends: waiting for the renewal task inside release_inner does   *)
(* not hang, not even when the signal arrives while a renewal is on its way.*)
ReleaseEnds == \A c \in Clients : pc[c] = "draining" ~> pc[c] # "draining"
==========================================================================
