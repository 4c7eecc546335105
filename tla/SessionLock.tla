--------------------------- MODULE SessionLock ---------------------------
(***************************************************************************)
(* What the `Lock` port promises the session services, for one lock key    *)
(* (`lock:session_send:<session>`).  Acquisition never queues: it is        *)
(* granted when nobody holds the key and refused otherwise.                 *)
(*                                                                         *)
(* The in-process adapter (a mutex-protected HashSet of held keys) is this  *)
(* specification with Leased = FALSE.  The Redis adapter, where the key has *)
(* a time to live, is RedisLock, which implements it with Leased = TRUE.    *)
(* SessionTurn, the session services themselves, implements it as well:    *)
(* they use the lock only through these steps.                             *)
(***************************************************************************)
CONSTANTS
    Clients,    \* acquisition attempts: a guard and its token belong to one client
    NoClient,   \* the key is free
    Leased      \* TRUE: the key expires (Redis); FALSE: it does not (in process)

VARIABLES
    holder,      \* the client whose token is stored under the key
    inside,      \* clients that own a guard and may be mutating the session
    superseded   \* clients of `inside` after whose grant the key went to another one

lockVars == <<holder, inside, superseded>>

LockTypeOK ==
    /\ holder \in Clients \union {NoClient}
    /\ inside \in SUBSET Clients
    /\ superseded \in SUBSET inside

LockInit ==
    /\ holder = NoClient
    /\ inside = {}
    /\ superseded = {}

\* Lock::acquire answers Ok: the key was free and a guard is handed out.
\* Guards that are still around have been overtaken.
Grant(c) ==
    /\ holder = NoClient
    /\ c \notin inside
    /\ holder' = c
    /\ inside' = inside \union {c}
    /\ superseded' = inside

\* The key is taken although the caller that asked for it has given up.
GrantLate(c) ==
    /\ Leased
    /\ holder = NoClient
    /\ c \notin inside
    /\ holder' = c
    /\ superseded' = inside
    /\ UNCHANGED inside

\* LockGuard::release deletes the key: the releaser still was the holder.
Release(c) ==
    /\ c \in inside
    /\ holder = c
    /\ holder' = NoClient
    /\ inside' = inside \ {c}
    /\ superseded' = superseded \ {c}

\* The guard goes away and the key is not touched: dropped without release,
\* its process died, or release answered Err.
Abandon(c) ==
    /\ c \in inside
    /\ inside' = inside \ {c}
    /\ superseded' = superseded \ {c}
    /\ UNCHANGED holder

\* The key's time to live ran out.  Nobody is told.
Lapse ==
    /\ Leased
    /\ holder # NoClient
    /\ holder' = NoClient
    /\ UNCHANGED <<inside, superseded>>

\* The process that owns the HashSet restarts: the set and every guard go.
Restart ==
    /\ ~Leased
    /\ holder' = NoClient
    /\ inside' = {}
    /\ superseded' = {}

LockNext ==
    \/ \E c \in Clients : Grant(c) \/ GrantLate(c) \/ Release(c) \/ Abandon(c)
    \/ Lapse
    \/ Restart

LockSpec == LockInit /\ [][LockNext]_lockVars

\* The port when leases are kept: a key lapses only after its guard is gone,
\* dropped, dead or never handed out.
SteadyNext ==
    \/ \E c \in Clients : Grant(c) \/ GrantLate(c) \/ Release(c) \/ Abandon(c)
    \/ holder \notin inside /\ Lapse
    \/ Restart

SteadySpec == LockInit /\ [][SteadyNext]_lockVars

---------------------------------------------------------------------------
(* A guard after whose grant the key went to somebody else never gets a    *)
(* clean release: Release deletes the holder's key only, and the holder is *)
(* never superseded.  It is how release_inner (redis.rs) comes to report   *)
(* a lost lock to the overtaken turn, and never to both.                   *)
HolderNotSuperseded == holder \in inside => holder \notin superseded

(* When leases are kept, or there are none (the HashSet of InProcessLock,  *)
(* standalone.rs), at most one guard exists at a time, the holder's, and   *)
(* none is ever overtaken.                                                 *)
Exclusive == inside \subseteq {holder} /\ superseded = {}
==========================================================================
