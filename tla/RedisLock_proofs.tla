------------------------- MODULE RedisLock_proofs -------------------------
(***************************************************************************)
(* Proofs about the Redis lock adapter, for any set of clients and any      *)
(* timing constants: type correctness, that it implements the lock port,    *)
(* that an overtaken guard never gets its key back, and that guards exclude *)
(* each other when Redis answers and nothing is later than the TTL allows.  *)
(***************************************************************************)
EXTENDS RedisLock, TLAPS

(* Every variable keeps its type. *)
THEOREM TypeCorrect == Spec => []TypeOK
<1> USE RedisLockAssumption
<1>1. Init => TypeOK
  BY DEF Init, TypeOK
<1>2. TypeOK /\ [Next]_vars => TypeOK'
  <2> SUFFICES ASSUME TypeOK, [Next]_vars PROVE TypeOK'
    OBVIOUS
  <2> USE DEF TypeOK
  <2>1. ASSUME NEW c \in Clients, BeginAcquire(c) PROVE TypeOK'
    BY <2>1 DEF BeginAcquire
  <2>2. ASSUME NEW c \in Clients, RedisSet(c) PROVE TypeOK'
    BY <2>2 DEF RedisSet, Inside
  <2>3. ASSUME NEW c \in Clients, AcquireOk(c) PROVE TypeOK'
    BY <2>3 DEF AcquireOk
  <2>4. ASSUME NEW c \in Clients, AcquireBusy(c) PROVE TypeOK'
    BY <2>4 DEF AcquireBusy
  <2>5. ASSUME NEW c \in Clients, AcquireGiveUp(c) PROVE TypeOK'
    BY <2>5 DEF AcquireGiveUp
  <2>6. ASSUME NEW c \in Clients, RenewFires(c) PROVE TypeOK'
    BY <2>6 DEF RenewFires
  <2>7. ASSUME NEW c \in Clients, RenewShutdown(c) PROVE TypeOK'
    BY <2>7 DEF RenewShutdown
  <2>8. ASSUME NEW c \in Clients, RenewOk(c) PROVE TypeOK'
    BY <2>8 DEF RenewOk
  <2>9. ASSUME NEW c \in Clients, RenewLost(c) PROVE TypeOK'
    BY <2>9 DEF RenewLost
  <2>10. ASSUME NEW c \in Clients, BeginRelease(c) PROVE TypeOK'
    BY <2>10 DEF BeginRelease
  <2>11. ASSUME NEW c \in Clients,
                ReleaseLost(c) \/ ReleaseOk(c) \/ ReleaseErr(c) PROVE TypeOK'
    BY <2>11 DEF ReleaseLost, ReleaseOk, ReleaseErr, GuardGone
  <2>12. ASSUME NEW c \in Clients, DropGuard(c) PROVE TypeOK'
    BY <2>12 DEF DropGuard
  <2>13. ASSUME NEW c \in Clients, Crash(c) PROVE TypeOK'
    BY <2>13 DEF Crash
  <2>14. CASE Tick
    BY <2>14 DEF Tick
  <2>15. CASE UNCHANGED vars
    BY <2>15 DEF vars
  <2> QED
    BY <2>1, <2>2, <2>3, <2>4, <2>5, <2>6, <2>7, <2>8, <2>9, <2>10, <2>11,
       <2>12, <2>13, <2>14, <2>15 DEF Next
<1> QED
  BY <1>1, <1>2, PTL DEF Spec

---------------------------------------------------------------------------
(* What a client may have at each point: a SET under way or answered belongs *)
(* to a client that waits for it or has given up; a renewal task belongs to  *)
(* a guard.  Overtaken guards are outstanding grants other than the owner's. *)
Shape ==
    /\ \A c \in Clients :
          /\ wire[c] \in {"ok", "nil"} => pc[c] = "setting"
          /\ wire[c] # "none" => pc[c] \in {"idle", "setting"}
          /\ pc[c] \in {"idle", "setting"} => renew[c] = "none"
    /\ superseded \subseteq Inside
    /\ owner \notin superseded

(* The shape is an invariant. *)
LEMMA ShapeInvariant == Spec => []Shape
<1> USE RedisLockAssumption
<1>1. Init => Shape
  BY DEF Init, Shape, Inside, Granted
<1>2. TypeOK /\ Shape /\ [Next]_vars => Shape'
  <2> SUFFICES ASSUME TypeOK, Shape, [Next]_vars PROVE Shape'
    OBVIOUS
  <2> USE DEF TypeOK, Shape, Inside, Granted
  <2>1. ASSUME NEW c \in Clients, BeginAcquire(c) PROVE Shape'
    BY <2>1 DEF BeginAcquire
  <2>2. ASSUME NEW c \in Clients, RedisSet(c) PROVE Shape'
    BY <2>2 DEF RedisSet
  <2>3. ASSUME NEW c \in Clients, AcquireOk(c) PROVE Shape'
    BY <2>3 DEF AcquireOk
  <2>4. ASSUME NEW c \in Clients, AcquireBusy(c) PROVE Shape'
    BY <2>4 DEF AcquireBusy
  <2>5. ASSUME NEW c \in Clients, AcquireGiveUp(c) PROVE Shape'
    BY <2>5 DEF AcquireGiveUp
  <2>6. ASSUME NEW c \in Clients, RenewFires(c) PROVE Shape'
    BY <2>6 DEF RenewFires
  <2>7. ASSUME NEW c \in Clients, RenewShutdown(c) PROVE Shape'
    BY <2>7 DEF RenewShutdown
  <2>8. ASSUME NEW c \in Clients, RenewOk(c) PROVE Shape'
    BY <2>8 DEF RenewOk
  <2>9. ASSUME NEW c \in Clients, RenewLost(c) PROVE Shape'
    BY <2>9 DEF RenewLost
  <2>10. ASSUME NEW c \in Clients, BeginRelease(c) PROVE Shape'
    BY <2>10 DEF BeginRelease
  <2>11. ASSUME NEW c \in Clients,
                ReleaseLost(c) \/ ReleaseOk(c) \/ ReleaseErr(c) PROVE Shape'
    BY <2>11 DEF ReleaseLost, ReleaseOk, ReleaseErr, GuardGone
  <2>12. ASSUME NEW c \in Clients, DropGuard(c) PROVE Shape'
    BY <2>12 DEF DropGuard
  <2>13. ASSUME NEW c \in Clients, Crash(c) PROVE Shape'
    BY <2>13 DEF Crash
  <2>14. CASE Tick
    BY <2>14 DEF Tick
  <2>15. CASE UNCHANGED vars
    BY <2>15 DEF vars
  <2> QED
    BY <2>1, <2>2, <2>3, <2>4, <2>5, <2>6, <2>7, <2>8, <2>9, <2>10, <2>11,
       <2>12, <2>13, <2>14, <2>15 DEF Next
<1> QED
  BY <1>1, <1>2, TypeCorrect, PTL DEF Spec

(* An overtaken guard never finds its token under the key again, however     *)
(* expiry, renewal and release interleave.                                   *)
THEOREM OvertakenForGood == Spec => []SupersededNeverHolds
<1>1. Shape => SupersededNeverHolds
  BY DEF Shape, SupersededNeverHolds, Abs!HolderNotSuperseded
<1> QED
  BY <1>1, ShapeInvariant, PTL

---------------------------------------------------------------------------
(* The adapter implements the lock port: every step is a step of            *)
(* SessionLock on the refined state, or changes nothing it sees.            *)
THEOREM Refinement == Spec => ImplementsLock
<1> USE RedisLockAssumption
<1>1. Init => Abs!LockInit
  BY DEF Init, Abs!LockInit, Inside, Granted
<1>2. TypeOK /\ Shape /\ [Next]_vars => [Abs!LockNext]_Abs!lockVars
  <2> SUFFICES ASSUME TypeOK, Shape, [Next]_vars
               PROVE [Abs!LockNext]_Abs!lockVars
    OBVIOUS
  <2> USE DEF TypeOK, Shape, Inside, Granted
  <2>1. ASSUME NEW c \in Clients,
               \/ BeginAcquire(c) \/ AcquireOk(c) \/ AcquireBusy(c)
               \/ RenewFires(c) \/ RenewShutdown(c) \/ RenewOk(c)
               \/ RenewLost(c) \/ BeginRelease(c)
        PROVE UNCHANGED Abs!lockVars
    <3>1. UNCHANGED <<owner, superseded>>
      BY <2>1 DEF BeginAcquire, AcquireOk, AcquireBusy, RenewFires,
                  RenewShutdown, RenewOk, RenewLost, BeginRelease
    <3>2. \A d \in Clients : Granted(d)' <=> Granted(d)
      BY <2>1 DEF BeginAcquire, AcquireOk, AcquireBusy, RenewFires,
                  RenewShutdown, RenewOk, RenewLost, BeginRelease
    <3>3. UNCHANGED Inside
      BY <3>2
    <3> QED
      BY <3>1, <3>3 DEF Abs!lockVars
  <2>2. ASSUME NEW c \in Clients, RedisSet(c)
        PROVE Abs!Grant(c) \/ Abs!GrantLate(c) \/ UNCHANGED Abs!lockVars
    <3>1. CASE owner = NoClient /\ pc[c] = "setting"
      <4>1. c \notin Inside /\ Inside' = Inside \union {c}
        BY <2>2, <3>1 DEF RedisSet
      <4> QED
        BY <2>2, <3>1, <4>1 DEF RedisSet, Abs!Grant
    <3>2. CASE owner = NoClient /\ pc[c] # "setting"
      <4>1. c \notin Inside /\ Inside' = Inside
        BY <2>2, <3>2 DEF RedisSet
      <4> QED
        BY <2>2, <3>2, <4>1 DEF RedisSet, Abs!GrantLate
    <3>3. CASE owner # NoClient
      <4>1. Inside' = Inside
        BY <2>2, <3>3 DEF RedisSet
      <4> QED
        BY <2>2, <3>3, <4>1 DEF RedisSet, Abs!lockVars
    <3> QED
      BY <3>1, <3>2, <3>3
  <2>3. ASSUME NEW c \in Clients, AcquireGiveUp(c)
        PROVE Abs!Abandon(c) \/ UNCHANGED Abs!lockVars
    <3>1. CASE wire[c] = "ok"
      BY <2>3, <3>1 DEF AcquireGiveUp, Abs!Abandon
    <3>2. CASE wire[c] # "ok"
      <4>1. Inside' = Inside /\ superseded' = superseded
        BY <2>3, <3>2 DEF AcquireGiveUp
      <4> QED
        BY <2>3, <4>1 DEF AcquireGiveUp, Abs!lockVars
    <3> QED
      BY <3>1, <3>2
  <2>4. ASSUME NEW c \in Clients, ReleaseLost(c) \/ ReleaseErr(c) \/ DropGuard(c)
        PROVE Abs!Abandon(c)
    BY <2>4 DEF ReleaseLost, ReleaseErr, GuardGone, DropGuard, Abs!Abandon
  <2>5. ASSUME NEW c \in Clients, ReleaseOk(c)
        PROVE Abs!Release(c)
    BY <2>5 DEF ReleaseOk, GuardGone, Abs!Release
  <2>6. ASSUME NEW c \in Clients, Crash(c)
        PROVE Abs!Abandon(c) \/ UNCHANGED Abs!lockVars
    <3>1. CASE c \in Inside
      BY <2>6, <3>1 DEF Crash, Abs!Abandon
    <3>2. CASE c \notin Inside
      <4>1. Inside' = Inside /\ superseded' = superseded
        BY <2>6, <3>2 DEF Crash
      <4> QED
        BY <2>6, <4>1 DEF Crash, Abs!lockVars
    <3> QED
      BY <3>1, <3>2
  <2>7. CASE Tick
    <3>1. Inside' = Inside
      BY <2>7 DEF Tick
    <3>2. CASE owner' = owner
      BY <2>7, <3>1, <3>2 DEF Tick, Abs!lockVars
    <3>3. CASE owner' # owner
      BY <2>7, <3>1, <3>3 DEF Tick, Abs!Lapse, Abs!LockNext
    <3> QED
      BY <3>2, <3>3, <2>7 DEF Abs!LockNext
  <2>8. CASE UNCHANGED vars
    BY <2>8 DEF vars, Abs!lockVars
  <2> QED
    BY <2>1, <2>2, <2>3, <2>4, <2>5, <2>6, <2>7, <2>8 DEF Next, Abs!LockNext
<1> QED
  BY <1>1, <1>2, TypeCorrect, ShapeInvariant, PTL
  DEF Spec, ImplementsLock, Abs!LockSpec

---------------------------------------------------------------------------
(* What the TTL must cover for guards to exclude each other: the acquire     *)
(* timeout, one renewal interval, and the longest delay.                     *)
Timely ==
    /\ ~Faulty
    /\ TTL > AcquireTimeout + RenewInterval + MaxDelay

(* The head start of the renewal over the expiry.  A caller whose SET was    *)
(* accepted still has what is left of its timeout, and a guard has its timer *)
(* and the delay, before the key can be gone.                                *)
HeadStart ==
    \A c \in Clients :
       /\ pc[c] = "setting" => timer[c] \in 0..AcquireTimeout
       /\ pc[c] = "setting" /\ wire[c] = "ok" =>
             owner = c /\ ttl >= TTL - AcquireTimeout + timer[c]
       /\ pc[c] = "held" =>
             /\ renew[c] # "none"
             /\ timer[c] \in -MaxDelay..RenewInterval
             /\ owner = c
             /\ ttl >= timer[c] + MaxDelay + 1

(* Timely adapters keep the head start. *)
LEMMA HeadStartInvariant == ASSUME Timely PROVE Spec => []HeadStart
<1> USE RedisLockAssumption
<1>1. Init => HeadStart
  BY DEF Init, HeadStart
<1>2. TypeOK /\ Shape /\ HeadStart /\ [Next]_vars => HeadStart'
  <2> SUFFICES ASSUME TypeOK, Shape, HeadStart, [Next]_vars PROVE HeadStart'
    OBVIOUS
  <2> USE Timely DEF TypeOK, Shape, HeadStart, Timely
  <2>1. ASSUME NEW c \in Clients, BeginAcquire(c) PROVE HeadStart'
    BY <2>1 DEF BeginAcquire
  <2>2. ASSUME NEW c \in Clients, RedisSet(c) PROVE HeadStart'
    BY <2>2 DEF RedisSet
  <2>3. ASSUME NEW c \in Clients, AcquireOk(c) PROVE HeadStart'
    BY <2>3 DEF AcquireOk
  <2>4. ASSUME NEW c \in Clients, AcquireBusy(c) \/ AcquireGiveUp(c) PROVE HeadStart'
    BY <2>4 DEF AcquireBusy, AcquireGiveUp
  <2>6. ASSUME NEW c \in Clients, RenewFires(c) PROVE HeadStart'
    BY <2>6 DEF RenewFires
  <2>7. ASSUME NEW c \in Clients, RenewShutdown(c) PROVE HeadStart'
    BY <2>7 DEF RenewShutdown
  <2>8. ASSUME NEW c \in Clients, RenewOk(c) PROVE HeadStart'
    BY <2>8 DEF RenewOk
  <2>9. ASSUME NEW c \in Clients, RenewLost(c) PROVE HeadStart'
    BY <2>9 DEF RenewLost
  <2>10. ASSUME NEW c \in Clients, BeginRelease(c) PROVE HeadStart'
    BY <2>10 DEF BeginRelease
  <2>11. ASSUME NEW c \in Clients,
                ReleaseLost(c) \/ ReleaseOk(c) \/ ReleaseErr(c) PROVE HeadStart'
    BY <2>11 DEF ReleaseLost, ReleaseOk, ReleaseErr, GuardGone
  <2>12. ASSUME NEW c \in Clients, DropGuard(c) \/ Crash(c) PROVE HeadStart'
    BY <2>12 DEF DropGuard, Crash
  <2>14. CASE Tick
    BY <2>14 DEF Tick, Overdue, Timed
  <2>15. CASE UNCHANGED vars
    BY <2>15 DEF vars
  <2> QED
    BY <2>1, <2>2, <2>3, <2>4, <2>6, <2>7, <2>8, <2>9, <2>10, <2>11,
       <2>12, <2>14, <2>15 DEF Next
<1> QED
  BY <1>1, <1>2, TypeCorrect, ShapeInvariant, PTL DEF Spec

(* A timely guard owns its key until its release begins. *)
THEOREM TimelyOwnership == ASSUME Timely PROVE Spec => []HeldOwnsKey
<1>1. HeadStart => HeldOwnsKey
  BY DEF HeadStart, HeldOwnsKey
<1> QED
  BY <1>1, HeadStartInvariant, PTL

(* Timely guards exclude each other. *)
THEOREM TimelyExclusion == ASSUME Timely PROVE Spec => []MutualExclusion
<1>1. HeldOwnsKey => MutualExclusion
  BY DEF HeldOwnsKey, MutualExclusion
<1> QED
  BY <1>1, TimelyOwnership, PTL

---------------------------------------------------------------------------
(* What the TTL must cover for the key to outlive its guard: one delay more,  *)
(* because the release starts a clock of its own when the renewal has ended.  *)
Ample ==
    /\ ~Faulty
    /\ TTL > AcquireTimeout + RenewInterval + 2 * MaxDelay

(* The lead of every outstanding grant over the expiry: a guard has its timer  *)
(* and the delay, and a second delay as long as its renewal task runs.  Its    *)
(* flag is down.                                                               *)
Lead ==
    \A c \in Clients :
       /\ pc[c] = "setting" => timer[c] \in 0..AcquireTimeout
       /\ pc[c] = "setting" /\ wire[c] = "ok" =>
             owner = c /\ ttl >= TTL - AcquireTimeout + timer[c]
       /\ pc[c] = "held" => renew[c] # "none"
       /\ pc[c] \in {"held", "draining"} =>
             /\ timer[c] \in -MaxDelay..RenewInterval
             /\ owner = c /\ ~lost[c]
             /\ ttl >= timer[c] + MaxDelay + 1
             /\ renew[c] # "none" => ttl >= timer[c] + 2 * MaxDelay + 1

(* An ample TTL is a timely one: the theorems above hold of it too. *)
LEMMA AmpleIsTimely == ASSUME Ample PROVE Timely
  BY RedisLockAssumption DEF Ample, Timely

(* Adapters with an ample TTL keep the lead. *)
LEMMA LeadInvariant == ASSUME Ample PROVE Spec => []Lead
<1> USE RedisLockAssumption
<1>1. Init => Lead
  BY DEF Init, Lead
<1>2. TypeOK /\ Shape /\ Lead /\ [Next]_vars => Lead'
  <2> SUFFICES ASSUME TypeOK, Shape, Lead, [Next]_vars PROVE Lead'
    OBVIOUS
  <2> USE Ample DEF TypeOK, Shape, Lead, Ample
  <2>1. ASSUME NEW c \in Clients, BeginAcquire(c) PROVE Lead'
    BY <2>1 DEF BeginAcquire
  <2>2. ASSUME NEW c \in Clients, RedisSet(c) PROVE Lead'
    BY <2>2 DEF RedisSet
  <2>3. ASSUME NEW c \in Clients, AcquireOk(c) PROVE Lead'
    BY <2>3 DEF AcquireOk
  <2>4. ASSUME NEW c \in Clients, AcquireBusy(c) \/ AcquireGiveUp(c) PROVE Lead'
    BY <2>4 DEF AcquireBusy, AcquireGiveUp
  <2>5. ASSUME NEW c \in Clients, RenewFires(c) PROVE Lead'
    BY <2>5 DEF RenewFires
  <2>6. ASSUME NEW c \in Clients, RenewShutdown(c) PROVE Lead'
    BY <2>6 DEF RenewShutdown
  <2>7. ASSUME NEW c \in Clients, RenewOk(c) PROVE Lead'
    BY <2>7 DEF RenewOk
  <2>8. ASSUME NEW c \in Clients, RenewLost(c) PROVE Lead'
    BY <2>8 DEF RenewLost
  <2>9. ASSUME NEW c \in Clients, BeginRelease(c) PROVE Lead'
    BY <2>9 DEF BeginRelease
  <2>10. ASSUME NEW c \in Clients,
                ReleaseLost(c) \/ ReleaseOk(c) \/ ReleaseErr(c) PROVE Lead'
    BY <2>10 DEF ReleaseLost, ReleaseOk, ReleaseErr, GuardGone
  <2>11. ASSUME NEW c \in Clients, DropGuard(c) \/ Crash(c) PROVE Lead'
    BY <2>11 DEF DropGuard, Crash
  <2>12. CASE Tick
    <3>1. /\ ttl' = IF ttl = 0 THEN 0 ELSE ttl - 1
          /\ owner' = IF ttl <= 1 THEN NoClient ELSE owner
          /\ UNCHANGED <<pc, wire, renew, lost>>
      BY <2>12 DEF Tick
    <3>2. ASSUME NEW c \in Clients
          PROVE  /\ ~Overdue(c)
                 /\ timer'[c] = IF Timed(c) THEN timer[c] - 1 ELSE timer[c]
      BY <2>12 DEF Tick
    <3>3. ASSUME NEW c \in Clients, pc[c] = "setting"
          PROVE  timer'[c] \in 0..AcquireTimeout /\ timer'[c] = timer[c] - 1
      BY <3>2, <3>3 DEF Overdue, Timed
    <3>4. ASSUME NEW c \in Clients, pc[c] = "setting", wire[c] = "ok"
          PROVE  owner' = c /\ ttl' >= TTL - AcquireTimeout + timer'[c]
      <4>1. ttl > 1 /\ ttl >= TTL - AcquireTimeout + timer[c]
        BY <3>3, <3>4
      <4> QED
        BY <3>1, <3>3, <3>4, <4>1
    <3>5. ASSUME NEW c \in Clients, pc[c] \in {"held", "draining"}
          PROVE  /\ timer'[c] \in -MaxDelay..RenewInterval
                 /\ owner' = c
                 /\ ttl' >= timer'[c] + MaxDelay + 1
                 /\ renew[c] # "none" => ttl' >= timer'[c] + 2 * MaxDelay + 1
      <4>1. timer[c] # -MaxDelay /\ timer'[c] = timer[c] - 1
        BY <3>2, <3>5 DEF Overdue, Timed
      <4>2. ttl > 1
        BY <3>5, <4>1
      <4> QED
        BY <3>1, <3>5, <4>1, <4>2
    <3> QED
      BY <3>1, <3>3, <3>4, <3>5
  <2>13. CASE UNCHANGED vars
    BY <2>13 DEF vars
  <2> QED
    BY <2>1, <2>2, <2>3, <2>4, <2>5, <2>6, <2>7, <2>8, <2>9, <2>10, <2>11,
       <2>12, <2>13 DEF Next
<1> QED
  BY <1>1, <1>2, TypeCorrect, ShapeInvariant, PTL DEF Spec

(* Then the lock is exclusive from the accepted SET to the end of the release, *)
(* and nobody is overtaken.                                                    *)
GrantsExclude == Inside \subseteq {owner} /\ superseded = {}

(* With an ample TTL at most one grant is outstanding, the owner's. *)
THEOREM AmpleExclusion == ASSUME Ample PROVE Spec => []GrantsExclude
<1>1. Shape /\ Lead => GrantsExclude
  BY DEF Shape, Lead, GrantsExclude, Inside, Granted
<1> QED
  BY <1>1, ShapeInvariant, LeadInvariant, PTL

(* With an ample TTL the adapter is the lock SessionTurn has when leases are *)
(* kept: the key of an outstanding grant does not lapse.                     *)
THEOREM AmpleRefinement == ASSUME Ample PROVE Spec => ImplementsSteadyLock
<1> USE RedisLockAssumption
<1>1. TypeOK /\ Lead /\ Tick /\ owner \in Inside => owner' = owner
  <2> SUFFICES ASSUME TypeOK, Lead, Tick, owner \in Inside PROVE ttl > 1
    BY DEF Tick, TypeOK
  <2>1. owner \in Clients /\ Granted(owner) /\ ~Overdue(owner)
    BY DEF Inside, Tick
  <2>2. CASE pc[owner] = "setting"
    <3>1. timer[owner] \in 0..AcquireTimeout /\ ttl >= TTL - AcquireTimeout + timer[owner]
      BY <2>1, <2>2 DEF Lead, Granted
    <3> QED
      BY <3>1, Ample DEF Ample, TypeOK
  <2>3. CASE pc[owner] \in {"held", "draining"}
    <3>1. timer[owner] \in -MaxDelay..RenewInterval /\ ttl >= timer[owner] + MaxDelay + 1
      BY <2>1, <2>3 DEF Lead
    <3>2. timer[owner] # -MaxDelay
      BY <2>1, <2>3 DEF Lead, Overdue
    <3> QED
      BY <3>1, <3>2 DEF TypeOK
  <2> QED
    BY <2>1, <2>2, <2>3 DEF Granted
<1>2. TypeOK /\ Lead /\ [Next]_vars /\ Abs!Lapse => owner \notin Inside
  <2> SUFFICES ASSUME TypeOK, Lead, [Next]_vars, Abs!Lapse, owner \in Inside PROVE FALSE
    OBVIOUS
  <2>1. owner # NoClient /\ owner' = NoClient /\ Inside' = Inside
    BY DEF Abs!Lapse
  <2>2. ~Tick
    BY <1>1, <2>1
  <2>3. ASSUME NEW c \in Clients, ReleaseOk(c) PROVE FALSE
    BY <2>1, <2>3 DEF ReleaseOk, GuardGone, Inside, Granted, TypeOK
  <2>4. ~UNCHANGED vars
    BY <2>1 DEF vars
  <2>5. ASSUME NEW c \in Clients,
               \/ BeginAcquire(c) \/ RedisSet(c) \/ AcquireOk(c) \/ AcquireBusy(c)
               \/ AcquireGiveUp(c) \/ RenewFires(c) \/ RenewShutdown(c) \/ RenewOk(c)
               \/ RenewLost(c) \/ BeginRelease(c) \/ ReleaseLost(c) \/ ReleaseErr(c)
               \/ DropGuard(c) \/ Crash(c)
        PROVE  FALSE
    BY <2>1, <2>5 DEF BeginAcquire, RedisSet, AcquireOk, AcquireBusy, AcquireGiveUp,
       RenewFires, RenewShutdown, RenewOk, RenewLost, BeginRelease, ReleaseLost,
       ReleaseErr, DropGuard, Crash
  <2> QED
    BY <2>2, <2>3, <2>4, <2>5 DEF Next
<1>3. TypeOK /\ Lead /\ [Next]_vars /\ [Abs!LockNext]_Abs!lockVars
      => [Abs!SteadyNext]_Abs!lockVars
  BY <1>2 DEF Abs!LockNext, Abs!SteadyNext
<1> QED
  BY <1>3, TypeCorrect, LeadInvariant, Refinement, PTL
  DEF Spec, ImplementsLock, ImplementsSteadyLock, Abs!LockSpec, Abs!SteadySpec

(* With an ample TTL no release is refused: the flag is down, and the script   *)
(* finds the guard's own token.                                                *)
THEOREM AmpleRelease == ASSUME Ample PROVE Spec => ReleaseSucceeds
<1> USE RedisLockAssumption
<1>1. TypeOK /\ Lead /\ [Next]_vars =>
         \A c \in Clients : pc[c] = "draining" /\ pc'[c] # "draining" =>
            ~lost[c] /\ owner = c /\ owner' = NoClient
  <2> SUFFICES ASSUME TypeOK, Lead, [Next]_vars,
                      NEW c \in Clients, pc[c] = "draining", pc'[c] # "draining"
               PROVE  ~lost[c] /\ owner = c /\ owner' = NoClient
    OBVIOUS
  <2>1. ~lost[c] /\ owner = c /\ ~Faulty
    BY Ample DEF Lead, Ample
  <2>2. ASSUME NEW d \in Clients,
               ReleaseLost(d) \/ ReleaseOk(d) \/ ReleaseErr(d) PROVE owner' = NoClient
    <3>1. d = c
      BY <2>2 DEF ReleaseLost, ReleaseOk, ReleaseErr, GuardGone, TypeOK
    <3> QED
      BY <2>1, <2>2, <3>1 DEF ReleaseLost, ReleaseOk, ReleaseErr
  <2>3. ASSUME NEW d \in Clients,
               \/ BeginAcquire(d) \/ RedisSet(d) \/ AcquireOk(d) \/ AcquireBusy(d)
               \/ AcquireGiveUp(d) \/ RenewFires(d) \/ RenewShutdown(d) \/ RenewOk(d)
               \/ RenewLost(d) \/ BeginRelease(d) \/ DropGuard(d) \/ Crash(d)
        PROVE FALSE
    BY <2>1, <2>3 DEF BeginAcquire, RedisSet, AcquireOk, AcquireBusy, AcquireGiveUp,
       RenewFires, RenewShutdown, RenewOk, RenewLost, BeginRelease, DropGuard, Crash, TypeOK
  <2>4. ~Tick /\ ~UNCHANGED vars
    BY DEF Tick, vars
  <2> QED
    BY <2>1, <2>2, <2>3, <2>4 DEF Next
<1> QED
  BY <1>1, TypeCorrect, LeadInvariant, PTL DEF Spec, ReleaseSucceeds
===========================================================================
