-------------------------- MODULE WorkerPoolProofs --------------------------
EXTENDS WorkerPoolSteps, FiniteSetTheorems

(* The theorems about the worker pool, for every number of sessions, tasks,
   workers and spawns; first the capacity, with which the invariant is
   complete. *)

-----------------------------------------------------------------------------
(* Counting: reservations and usable slots never exceed max_workers *)

\* There are finitely many worker ids.
LEMMA FiniteIds == IsFiniteSet(Ids)
  BY PoolConfig, FS_Interval DEF Ids

\* A set of ids has a size, and a smaller one has a smaller size.
LEMMA Sizes ==
  ASSUME NEW S \in SUBSET Ids
  PROVE  /\ IsFiniteSet(S) /\ Cardinality(S) \in Nat
         /\ \A T \in SUBSET S : IsFiniteSet(T) /\ Cardinality(T) \in Nat
                                  /\ Cardinality(T) <= Cardinality(S)
  BY Zenon, FiniteIds, FS_Subset, FS_CardinalityType

\* One more id adds at most one to the size; one less that was there takes one.
LEMMA OneMore ==
  ASSUME NEW S \in SUBSET Ids, NEW w \in Ids
  PROVE  /\ Cardinality(S \cup {w}) <= Cardinality(S) + 1
         /\ w \in S => Cardinality(S \ {w}) = Cardinality(S) - 1
  BY Sizes, FS_AddElement, FS_RemoveElement

LiveTypes == Live \in SUBSET Ids /\ Live \subseteq children

\* The slots retain_live keeps are listed slots.
LEMMA LiveIsListed == PoolTypes => LiveTypes
  BY Zenon DEF PoolTypes, LiveTypes, Live

\* What most steps do to the numbers.
Shrinks ==
  /\ spawning' \subseteq spawning
  /\ Live' \subseteq Live
  /\ children' \subseteq children
  /\ warm' \in {warm, -1}

\* A step that adds neither a reservation nor a usable slot preserves the
\* capacity invariant.
LEMMA ShrinkingKeeps ==
  ASSUME PoolTypes, PoolTypes', WithinCapacity, WarmRoom, Shrinks
  PROVE  WithinCapacity' /\ WarmRoom'
  <1>1. Cardinality(spawning') <= Cardinality(spawning) /\ Cardinality(spawning') \in Nat
        /\ Cardinality(spawning) \in Nat
    BY Zenon, Sizes DEF PoolTypes, Shrinks
  <1>2. Cardinality(Live') <= Cardinality(Live) /\ Cardinality(Live') \in Nat
        /\ Cardinality(Live) \in Nat
    BY Zenon, Sizes, LiveIsListed DEF LiveTypes, Shrinks
  <1>3. Cardinality(children') <= Cardinality(children) /\ Cardinality(children') \in Nat
        /\ Cardinality(children) \in Nat
    BY Zenon, Sizes DEF PoolTypes, Shrinks
  <1>4. WithinCapacity' BY <1>1, <1>2, PoolConfig DEF WithinCapacity
  <1>5. WarmRoom' BY <1>3, PoolConfig DEF WarmRoom, PoolTypes, Shrinks
  <1> QED BY Zenon, <1>4, <1>5

\* No step of a running task other than an installation and a warm-up adds a
\* reservation or a usable slot.
LEMMA StepShrinks ==
  ASSUME Core, NEW t \in Tasks, Step(t), ~Install(t), ~Ensure(t) PROVE Shrinks
  <1> USE CoreParts DEF Shrinks, Live, inner, slots
  <1>1. CASE Served(t) BY Zenon, <1>1 DEF Served
  <1>2. CASE Unreserve(t) BY Zenon, <1>2 DEF Unreserve
  <1>3. CASE SendCall(t) BY Zenon, <1>3 DEF SendCall
  <1>4. CASE CallOk(t) \/ OpenError(t) BY Zenon, <1>4 DEF CallOk, OpenError
  <1>5. CASE CallRetires(t) \/ CallFails(t) \/ Clear(t)
    BY Zenon, <1>5 DEF CallRetires, CallFails, Clear
  <1>6. CASE BeginRelease(t) BY Zenon, <1>6 DEF BeginRelease, PoolTypes, SlotTypes
  <1>7. CASE CloseOk(t) BY Zenon, <1>7 DEF CloseOk, IdleUnlessDead, PoolTypes, SlotTypes
  <1>8. CASE CloseFails(t) \/ ScheduleIdleReap(t) \/ Finish(t)
    BY Zenon, <1>8 DEF CloseFails, ScheduleIdleReap, Finish
  <1>9. CASE Take(t) BY Zenon, <1>9 DEF Take, PoolTypes, SlotTypes
  <1>10. CASE Forget(t) BY Zenon, <1>10 DEF Forget
  <1> QED BY Zenon, <1>1, <1>2, <1>3, <1>4, <1>5, <1>6, <1>7, <1>8, <1>9, <1>10 DEF Step

\* No start of an operation other than a reservation adds a reservation or a
\* usable slot.
LEMMA BeginShrinks ==
  ASSUME Core, NEW t \in Tasks, Begin(t), ~WarmReserve(t), \A s \in Sessions : ~LeaseSpawn(t, s)
  PROVE  Shrinks
  <1> USE CoreParts DEF Shrinks, Live, inner, slots
  <1>1. ASSUME NEW s \in Sessions, LeaseIdle(t, s) PROVE Shrinks
    BY Zenon, <1>1 DEF LeaseIdle, Leasable, PoolTypes, SlotTypes
  <1>2. ASSUME NEW s \in Sessions, LeaseExhausted(t, s) PROVE Shrinks
    BY Zenon, <1>2 DEF LeaseExhausted
  <1>3. ASSUME NEW s \in Sessions, StartCall(t, s) PROVE Shrinks BY Zenon, <1>3 DEF StartCall
  <1>4. ASSUME NEW s \in Sessions, NEW k \in Releases, StartRelease(t, s, k) PROVE Shrinks
    BY Zenon, <1>4 DEF StartRelease
  <1>5. ASSUME NEW w \in Ids, ReapIdle(t, w) PROVE Shrinks
    BY Zenon, <1>5 DEF ReapIdle, PoolTypes, SlotTypes
  <1> QED BY Zenon, <1>1, <1>2, <1>3, <1>4, <1>5 DEF Begin

\* Dropping a future adds neither a reservation nor a usable slot.
LEMMA DropShrinks == ASSUME NEW t \in Tasks, Drop(t) PROVE Shrinks
  BY Zenon DEF Shrinks, Live, inner, slots, Drop, DropSpawn, DropOpenWaiting, DropGuarded,
         DropUnguarded, DropOpen

\* Neither a crash nor the shutdown of the pool adds a reservation or a usable
\* slot.
LEMMA OtherShrinks ==
  ASSUME Core, ShutdownAll \/ (\E w \in Ids : Shutdown(w) \/ Crash(w)) \/ UNCHANGED vars
  PROVE  Shrinks
  <1> USE CoreParts DEF Shrinks, Live, inner, slots, vars
  <1>1. CASE ShutdownAll BY Zenon, <1>1 DEF ShutdownAll
  <1>2. ASSUME NEW w \in Ids, ShutdownTake(w) PROVE Shrinks
    BY Zenon, <1>2 DEF ShutdownTake, PoolTypes, SlotTypes
  <1>3. ASSUME NEW w \in Ids, ShutdownForget(w) PROVE Shrinks BY Zenon, <1>3 DEF ShutdownForget
  <1>4. ASSUME NEW w \in Ids, ShutdownFinish(w) \/ Crash(w) PROVE Shrinks
    BY Zenon, <1>4 DEF ShutdownFinish, Crash
  <1> QED BY Zenon, <1>1, <1>2, <1>3, <1>4 DEF Shutdown

\* warm_min reserves only while it is alone and below min_workers.
LEMMA WarmReserveFits ==
  ASSUME IInv, NEW t \in Tasks, WarmReserve(t) PROVE WithinCapacity' /\ WarmRoom'
  <1> USE CoreParts DEF IInv
  <1>0. \A u \in Tasks : new[u] = NoWorker BY Zenon DEF WarmReserve, Shapes, Free, SpawnPCs
  <1>1. spawning = {} BY <1>0, Enums DEF Reservations, PoolTypes
  <1>2. spawning' = {next_id} BY Zenon, <1>1 DEF WarmReserve, Reserve
  <1>3. Cardinality(spawning') = 1 BY Zenon, <1>2, FS_Singleton
  <1>4. Live' = Live /\ children' = children /\ warm' = warm /\ warm > 0
    BY Zenon DEF WarmReserve, slots, Live
  <1>5. Cardinality(Live) <= Cardinality(children) /\ Cardinality(Live) \in Nat
        /\ Cardinality(children) \in Nat
    BY Zenon, Sizes, LiveIsListed DEF LiveTypes, PoolTypes
  <1>6. Cardinality(children) + warm <= MinWorkers BY Zenon, <1>4 DEF WarmRoom
  <1>7. WithinCapacity'
    <2> SUFFICES Cardinality(spawning') + Cardinality(Live') <= MaxWorkers
      BY Zenon DEF WithinCapacity
    <2> QED BY <1>3, <1>4, <1>5, <1>6, PoolConfig DEF PoolTypes
  <1>8. WarmRoom' BY Zenon, <1>4, <1>6 DEF WarmRoom
  <1> QED BY Zenon, <1>7, <1>8

\* Whoever reserves has counted reservations and usable slots under `inner`.
LEMMA ReserveFits ==
  ASSUME IInv, NEW t \in Tasks, NEW k, NEW s, NEW w, Reserve(t, k, s, w),
         Cardinality(spawning) + Cardinality(Live) < MaxWorkers, Live' = Live
  PROVE  WithinCapacity'
  <1> USE CoreParts DEF IInv
  <1>1. next_id \in Ids /\ spawning' = spawning \cup {next_id} BY Zenon, ReserveStarts
  <1>2. Cardinality(spawning') <= Cardinality(spawning) + 1
    BY Zenon, <1>1, OneMore DEF PoolTypes
  <1>3. /\ Cardinality(spawning') \in Nat /\ Cardinality(spawning) \in Nat
        /\ Cardinality(Live) \in Nat
    BY Zenon, <1>1, Sizes, LiveIsListed DEF LiveTypes, PoolTypes
  <1> QED BY <1>2, <1>3, PoolConfig DEF WithinCapacity

\* lease reserves only after has_room_for counted reservations and live slots
\* under the lock.
LEMMA LeaseSpawnFits ==
  ASSUME IInv, NEW t \in Tasks, NEW s \in Sessions, LeaseSpawn(t, s)
  PROVE  WithinCapacity' /\ WarmRoom'
  <1>1. Live' = Live BY Zenon DEF LeaseSpawn, Live, slots
  <1>2. Cardinality(spawning) + Cardinality(Live) < MaxWorkers BY Zenon DEF LeaseSpawn, Room
  <1>3. WithinCapacity' BY Zenon, <1>1, <1>2, ReserveFits DEF LeaseSpawn
  <1>4. warm' = 0 BY Zenon DEF LeaseSpawn, MayOpen, Serving
  <1> QED BY <1>3, <1>4 DEF WarmRoom

\* ensure_min_workers counts every listed slot, so at least the usable ones.
LEMMA EnsureFits ==
  ASSUME IInv, NEW t \in Tasks, Ensure(t) PROVE WithinCapacity' /\ WarmRoom'
  <1> USE CoreParts DEF IInv
  <1>1. /\ Cardinality(Live) <= Cardinality(children) /\ Cardinality(Live) \in Nat
        /\ Cardinality(children) \in Nat /\ Cardinality(spawning) \in Nat
    BY Zenon, Sizes, LiveIsListed DEF LiveTypes, PoolTypes
  <1>2. Live' = Live /\ children' = children /\ warm' = warm BY Zenon DEF Ensure, Live, slots
  <1>3. WarmRoom' BY Zenon, <1>2 DEF WarmRoom
  <1>4. CASE spawning' = spawning BY Zenon, <1>2, <1>3, <1>4 DEF WithinCapacity
  <1>5. CASE /\ Cardinality(spawning) + Cardinality(children) < MaxWorkers
             /\ Reserve(t, op[t], ses[t], wrk[t])
    <2>1. Cardinality(spawning) + Cardinality(Live) < MaxWorkers BY <1>1, <1>5, PoolConfig
    <2> QED BY Zenon, <1>2, <1>3, <1>5, <2>1, ReserveFits
  <1> QED BY Zenon, <1>4, <1>5 DEF Ensure

\* finish_spawn_reservation turns one reservation into one slot.
LEMMA InstallFits ==
  ASSUME IInv, NEW t \in Tasks, Install(t) PROVE WithinCapacity' /\ WarmRoom'
  <1> USE CoreParts DEF IInv
  <1>1. new[t] \in Ids /\ new[t] \in spawning
    BY Zenon, Enums DEF Install, TaskTypes, Shapes, Reservations, SpawnPCs
  <1>2. spawning' = spawning \ {new[t]} /\ children' = children \cup {new[t]}
    BY Zenon DEF Install
  <1>3. Cardinality(spawning') = Cardinality(spawning) - 1
    BY Zenon, <1>1, <1>2, OneMore DEF PoolTypes
  <1>4. Live' \subseteq Live \cup {new[t]}
    BY Zenon, <1>1, <1>2 DEF Install, Live, SlotTypes, PoolTypes
  <1>5. Cardinality(Live') <= Cardinality(Live \cup {new[t]})
        /\ Cardinality(Live') \in Nat /\ Cardinality(Live \cup {new[t]}) \in Nat
    BY Zenon, <1>1, <1>4, Sizes, LiveIsListed DEF LiveTypes
  <1>6. Cardinality(Live \cup {new[t]}) <= Cardinality(Live) + 1
    BY Zenon, <1>1, OneMore, LiveIsListed DEF LiveTypes
  <1>7. Cardinality(spawning) \in Nat /\ Cardinality(Live) \in Nat
    BY Zenon, Sizes, LiveIsListed DEF LiveTypes, PoolTypes
  <1>8. WithinCapacity' BY <1>3, <1>5, <1>6, <1>7, PoolConfig DEF WithinCapacity
  <1>9. Cardinality(children') <= Cardinality(children) + 1 /\ Cardinality(children) \in Nat
        /\ Cardinality(children') \in Nat
    BY Zenon, <1>1, <1>2, OneMore, Sizes DEF PoolTypes
  <1>10. CASE op[t] = "warm"
    <2>1. warm' = warm - 1 /\ warm > 0 BY Zenon, <1>10 DEF Install, ForLease, WarmInv
    <2> QED BY <1>8, <1>9, <2>1, PoolConfig DEF WarmRoom, PoolTypes
  <1>11. CASE op[t] # "warm"
    <2>1. warm' = warm /\ ~(warm > 0) BY Zenon, <1>11 DEF Install, WarmInv, Free
    <2> QED BY Zenon, <1>8, <2>1 DEF WarmRoom
  <1> QED BY Zenon, <1>10, <1>11

\* The strengthened invariant holds initially.
LEMMA IInvInit == Init => IInv
  <1> SUFFICES ASSUME Init PROVE IInv
    BY Zenon
  <1>1. Core BY Zenon, InitCore
  <1>2. Live = {} /\ spawning = {} /\ children = {} BY Zenon DEF Init, Live
  <1>3. Cardinality(spawning) = 0 /\ Cardinality(Live) = 0 /\ Cardinality(children) = 0
    BY Zenon, <1>2, FS_EmptySet
  <1>4. warm \in {0, MinWorkers} BY Zenon DEF Init
  <1>5. WithinCapacity BY <1>3, PoolConfig DEF WithinCapacity
  <1>6. WarmRoom BY <1>3, <1>4, PoolConfig DEF WarmRoom
  <1> QED BY Zenon, <1>1, <1>5, <1>6 DEF IInv

\* Every step of the pool preserves the strengthened invariant.
LEMMA IInvNext == IInv /\ [Next]_vars => IInv'
  <1> SUFFICES ASSUME IInv, [Next]_vars PROVE IInv'
    BY Zenon
  <1> USE DEF IInv
  <1>1. Core' BY Zenon, CoreNext
  <1>2. CASE Shrinks BY Zenon, <1>1, <1>2, ShrinkingKeeps DEF Core
  <1>3. ASSUME NEW t \in Tasks, Step(t) PROVE IInv'
    BY Zenon, <1>1, <1>2, <1>3, StepShrinks, InstallFits, EnsureFits
  <1>4. ASSUME NEW t \in Tasks, Begin(t) PROVE IInv'
    BY Zenon, <1>1, <1>2, <1>4, BeginShrinks, WarmReserveFits, LeaseSpawnFits
  <1>5. ASSUME NEW t \in Tasks, Drop(t) PROVE IInv'
    BY Zenon, <1>2, <1>5, DropShrinks
  <1>6. CASE ShutdownAll \/ (\E w \in Ids : Shutdown(w) \/ Crash(w)) \/ UNCHANGED vars
    BY Zenon, <1>2, <1>6, OtherShrinks
  <1> QED BY Zenon, <1>3, <1>4, <1>5, <1>6 DEF Next

\* The strengthened invariant holds in every state of every behaviour.
LEMMA Invariance == Spec => []IInv
  BY IInvInit, IInvNext, PTL DEF Spec

-----------------------------------------------------------------------------
(* The invariant's theorems. *)

\* Every variable of the pool keeps its type.
THEOREM PoolTypeCorrect == Spec => []TypeOK
  <1>1. IInv => TypeOK BY Zenon, CoreParts DEF IInv, TypeOK
  <1> QED BY <1>1, Invariance, PTL

\* lease, ensure_min_workers and warm_min together never let reservations and
\* usable slots exceed max_workers, although they spawn outside the lock.
THEOREM CapacityHolds == Spec => []WithinCapacity
  <1>1. IInv => WithinCapacity BY Zenon DEF IInv
  <1> QED BY <1>1, Invariance, PTL

\* No two sessions ever share a worker, and release never offers a slot that a
\* session still refers to.
THEOREM LeasesAreExclusive == Spec => []ExclusiveLease
  <1>1. IInv => ExclusiveLease BY Zenon, CoreParts DEF IInv
  <1> QED BY <1>1, Invariance, PTL

\* call_tool's check of the lease stays true while the request is in flight.
THEOREM RequestsStayOnTheirLease == Spec => []RequestOnOwnLease
  <1>1. ASSUME IInv PROVE RequestOnOwnLease
    <2> SUFFICES ASSUME NEW t \in Tasks, pc[t] = "rpc"
                 PROVE  \/ state[wrk[t]] = "Dead"
                        \/ state[wrk[t]] = "Leased" /\ lessee[wrk[t]] = ses[t]
      BY Zenon DEF RequestOnOwnLease
    <2>1. op[t] \in {"open", "call"} /\ wrk[t] # NoWorker /\ ses[t] \in Sessions
      BY Zenon, <1>1, CoreParts DEF IInv, Shapes, SpawnPCs, TaskTypes
    <2>2. handle[ses[t]] = wrk[t] BY Zenon, <1>1, <2>1, CoreParts DEF IInv, SoleUser
    <2> QED BY Zenon, <1>1, <2>1, <2>2, CoreParts DEF IInv, ExclusiveLease
  <1> QED BY <1>1, Invariance, PTL

\* A worker that may be leased has no database open: a failed or interrupted
\* close never returns its worker to the pool.
THEOREM IdleWorkersAreClean == Spec => []IdleIsClean
  <1>1. IInv => IdleIsClean BY Zenon, CoreParts DEF IInv, DbInv, IdleIsClean
  <1> QED BY <1>1, Invariance, PTL

-----------------------------------------------------------------------------
(* Who ends which process: Upkeep is inductive relative to Core. *)

\* The states of a slot that may still do work.
UsableStates == {"Idle", "Leased", "Closing"}

\* A process that changes has ended.
ProcDecays == \A w \in Ids : proc'[w] = proc[w] \/ (proc[w] = "alive" /\ proc'[w] # "alive")

\* Task v keeps its part in the upkeep: it does not move, or it neither leaves
\* behind a worker it has to end nor gives back a reservation whose process runs.
Steady(v) ==
  \/ pc'[v] = pc[v] /\ op'[v] = op[v] /\ wrk'[v] = wrk[v] /\ new'[v] = new[v]
  \/ /\ pc[v] # "take" \/ op[v] # "guard"
     /\ pc[v] \in {"forget", "finish"} =>
          proc'[wrk[v]] # "alive" \/ (pc'[v] \in {"forget", "finish"} /\ wrk'[v] = wrk[v])
     /\ pc'[v] = "unreserve" => wrk'[v] = new'[v] \/ proc'[new'[v]] # "alive"

\* So does a branch of shutdown_all.
DownSteady ==
  \A w \in Ids :
    /\ down'[w] \in {"forget", "finish", "unlist"} => down[w] \in {"forget", "finish", "unlist"}
    /\ down[w] \in {"forget", "finish"} => down'[w] \in {"forget", "finish"} \/ proc'[w] # "alive"

\* A slot stays as it is, or stays usable.
SlotsKept ==
  \A w \in Ids :
    \/ state'[w] = state[w] /\ lessee'[w] = lessee[w]
    \/ /\ state[w] \in UsableStates /\ state'[w] \in UsableStates
       /\ lessee'[w] # NoSession => state'[w] = "Leased"

\* The conjuncts of Upkeep.
LEMMA UpkeepParts ==
  ASSUME Upkeep PROVE Owned /\ Usable /\ DownIsDead /\ Unborn /\ FailedSpawns /\ Tended
  BY Zenon DEF Upkeep

\* A step that reserves nothing, gives nothing back and retires nothing.
LEMMA KeepUpkeep ==
  ASSUME Core, Upkeep, UNCHANGED <<spawning, next_id>>, ProcDecays, DownSteady, SlotsKept,
         \A v \in Tasks : Steady(v), \A w \in children : state[w] # "Dead" => w \in children'
  PROVE  Upkeep'
<1> USE UpkeepParts
<1>1. Owned'
  BY Zenon DEF Owned, SlotsKept
<1>2. Usable'
  BY Zenon DEF Usable, SlotsKept, UsableStates
<1>3. DownIsDead'
  BY Zenon DEF DownIsDead, DownSteady, SlotsKept, UsableStates
<1>4. Unborn'
  BY Zenon DEF Unborn, ProcDecays
<1>5. FailedSpawns'
  <2> SUFFICES ASSUME NEW v \in Tasks, pc'[v] = "unreserve", wrk'[v] # new'[v] PROVE proc'[new'[v]] # "alive"
    BY Zenon DEF FailedSpawns
  <2>1. CASE pc'[v] = pc[v] /\ op'[v] = op[v] /\ wrk'[v] = wrk[v] /\ new'[v] = new[v]
    <3>1. new[v] \in Ids
      BY Zenon, <2>1, Enums, CoreParts DEF Shapes, SpawnPCs, TaskTypes
    <3> QED
      BY Zenon, <2>1, <3>1 DEF FailedSpawns, ProcDecays
  <2> QED
    BY Zenon, <2>1 DEF Steady
<1>6. Tended'
  <2> SUFFICES ASSUME NEW w \in Ids, proc'[w] = "alive", w \notin spawning, state'[w] \notin UsableStates,
                      down'[w] \notin {"forget", "finish"}
               PROVE  \E t \in Tasks : /\ wrk'[t] = w
                                       /\ \/ pc'[t] \in {"forget", "finish"}
                                          \/ pc'[t] = "take" /\ op'[t] = "guard" /\ state'[w] = "None"
    BY Zenon DEF Tended, UsableStates
  <2>1. proc[w] = "alive" /\ down[w] \notin {"forget", "finish"} /\ state'[w] = state[w]
    BY Zenon DEF ProcDecays, DownSteady, SlotsKept
  <2>2. PICK t \in Tasks : /\ wrk[t] = w
                           /\ \/ pc[t] \in {"forget", "finish"}
                              \/ pc[t] = "take" /\ op[t] = "guard" /\ state[w] = "None"
    BY Zenon, <2>1 DEF Tended, UsableStates
  <2>3. /\ wrk'[t] = w
        /\ \/ pc'[t] \in {"forget", "finish"}
           \/ pc'[t] = "take" /\ op'[t] = "guard" /\ state'[w] = "None"
    BY Zenon, <2>1, <2>2 DEF Steady
  <2> QED
    BY Zenon, <2>3
<1> QED
  BY Zenon, <1>1, <1>2, <1>3, <1>4, <1>5, <1>6 DEF Upkeep

\* A worker whose process ends, whether it exits or is killed.
LEMMA Ending ==
  ASSUME OsTypes, NEW w \in Ids, CloseService(w) \/ Exit(w)
  PROVE  ProcDecays /\ proc'[w] # "alive"
  BY Zenon DEF OsTypes, CloseService, Exit, ProcDecays

\* A step that ends no process.
LEMMA ProcSame == ASSUME proc' = proc PROVE ProcDecays
  BY Zenon DEF ProcDecays

\* A step that moves no branch of shutdown_all.
LEMMA DownSame == ASSUME down' = down PROVE DownSteady
  BY Zenon DEF DownSteady

\* A step that changes no slot.
LEMMA SlotsSame == ASSUME UNCHANGED <<state, lessee>> PROVE SlotsKept
  BY Zenon DEF SlotsKept

\* The task that moves, and the ones that do not.
Others(t) ==
  \A v \in Tasks : v # t => pc'[v] = pc[v] /\ op'[v] = op[v] /\ wrk'[v] = wrk[v] /\ new'[v] = new[v]

\* Become and Goto move their own task only.
LEMMA BecomeMoves ==
  ASSUME TaskTypes, NEW t \in Tasks, NEW p, NEW k, NEW s, NEW w, NEW n, Become(t, p, k, s, w, n)
  PROVE  pc'[t] = p /\ op'[t] = k /\ wrk'[t] = w /\ new'[t] = n /\ Others(t)
  BY Zenon DEF TaskTypes, Become, Others

\* Goto leaves the operation and the workers of its task alone.
LEMMA GotoMoves ==
  ASSUME TaskTypes, NEW t \in Tasks, NEW p, Goto(t, p)
  PROVE  pc'[t] = p /\ op'[t] = op[t] /\ wrk'[t] = wrk[t] /\ new'[t] = new[t] /\ Others(t)
  BY Zenon DEF TaskTypes, Goto, Others

\* A task with nothing to end goes on to anything but giving back a reservation.
LEMMA SteadyStep ==
  ASSUME NEW t \in Tasks, Others(t), pc[t] \notin {"take", "forget", "finish"}, pc'[t] # "unreserve"
  PROVE  \A v \in Tasks : Steady(v)
  BY Zenon DEF Others, Steady

\* After a failure a task releases its worker or clears its request.
LEMMA GiveUpMoves ==
  ASSUME TaskTypes, NEW t \in Tasks, GiveUp(t)
  PROVE  pc'[t] \in {"release", "clear"} /\ Others(t)
  BY Zenon, BecomeMoves DEF GiveUp, Start

\* A task that has its answer is done or gives up.
LEMMA ResumeMoves ==
  ASSUME TaskTypes, NEW t \in Tasks, Resume(t)
  PROVE  pc'[t] \in {"release", "clear", "free"} /\ Others(t)
  BY Zenon, BecomeMoves, GiveUpMoves DEF Resume, Done

\* The calls: call_tool, open_observed and dispatch.
LEMMA CallsUpkeep ==
  ASSUME Core, Upkeep, NEW t \in Tasks,
         \/ SendCall(t) \/ CallOk(t) \/ OpenError(t) \/ CallRetires(t) \/ CallFails(t) \/ Clear(t)
         \/ \E s \in Sessions : StartCall(t, s) \/ \E k \in Releases : StartRelease(t, s, k)
  PROVE  Upkeep'
<1>1. TaskTypes
  BY Zenon, CoreParts
<1>2. CASE SendCall(t)
  <2>1. Others(t) /\ pc[t] = "lock" /\ pc'[t] # "unreserve"
    BY <1>1, <1>2, GotoMoves, GiveUpMoves DEF SendCall
  <2> QED
    BY Zenon, <1>2, <2>1, SteadyStep, KeepUpkeep, ProcSame, DownSame, SlotsSame DEF SendCall,
       inner, slots, os
<1>3. CASE CallOk(t)
  <2>1. Others(t) /\ pc[t] = "rpc" /\ pc'[t] # "unreserve"
    BY Zenon, <1>1, <1>3, BecomeMoves DEF CallOk, Done
  <2> QED
    BY Zenon, <1>3, <2>1, SteadyStep, KeepUpkeep, ProcSame, DownSame, SlotsSame DEF CallOk,
       inner, slots
<1>4. CASE OpenError(t)
  <2>1. Others(t) /\ pc[t] = "rpc" /\ pc'[t] # "unreserve"
    BY Zenon, <1>1, <1>4, GiveUpMoves DEF OpenError
  <2> QED
    BY Zenon, <1>4, <2>1, SteadyStep, KeepUpkeep, ProcSame, DownSame, SlotsSame DEF OpenError,
       inner, slots
<1>5. CASE CallRetires(t)
  <2>1. Others(t) /\ pc[t] = "rpc" /\ pc'[t] # "unreserve"
    BY Zenon, <1>1, <1>5, BecomeMoves DEF CallRetires, Start
  <2> QED
    BY Zenon, <1>5, <2>1, SteadyStep, KeepUpkeep, ProcSame, DownSame, SlotsSame
       DEF CallRetires, inner, slots, os
<1>6. CASE CallFails(t)
  <2>1. Others(t) /\ pc[t] = "rpc" /\ pc'[t] # "unreserve"
    BY <1>1, <1>6, GotoMoves DEF CallFails
  <2> QED
    BY Zenon, <1>6, <2>1, SteadyStep, KeepUpkeep, ProcSame, DownSame, SlotsSame DEF CallFails,
       inner, slots
<1>7. CASE Clear(t)
  <2>1. Others(t) /\ pc[t] = "clear" /\ pc'[t] # "unreserve"
    BY Zenon, <1>1, <1>7, BecomeMoves DEF Clear, Done
  <2> QED
    BY Zenon, <1>7, <2>1, SteadyStep, KeepUpkeep, ProcSame, DownSame, SlotsSame DEF Clear,
       inner, slots, os
<1>8. ASSUME NEW s \in Sessions, StartCall(t, s) PROVE Upkeep'
  <2>1. Others(t) /\ pc[t] = "free" /\ pc'[t] # "unreserve"
    BY Zenon, <1>1, <1>8, BecomeMoves DEF StartCall, Start, Free
  <2> QED
    BY Zenon, <1>8, <2>1, SteadyStep, KeepUpkeep, ProcSame, DownSame, SlotsSame DEF StartCall,
       inner, slots, os
<1>9. ASSUME NEW s \in Sessions, NEW k \in Releases, StartRelease(t, s, k) PROVE Upkeep'
  <2>1. Others(t) /\ pc[t] = "free" /\ pc'[t] # "unreserve"
    BY Zenon, <1>1, <1>9, BecomeMoves DEF StartRelease, Start, Free
  <2> QED
    BY Zenon, <1>9, <2>1, SteadyStep, KeepUpkeep, ProcSame, DownSame, SlotsSame
       DEF StartRelease, inner, slots, os
<1> QED
  BY Zenon, <1>2, <1>3, <1>4, <1>5, <1>6, <1>7, <1>8, <1>9

\* A release: the slot goes from usable to usable, or was dead already.
LEMMA ReleaseUpkeep ==
  ASSUME Core, Upkeep, NEW t \in Tasks, BeginRelease(t) \/ CloseOk(t) \/ CloseFails(t) \/ ScheduleIdleReap(t)
  PROVE  Upkeep'
<1>1. TaskTypes /\ SlotTypes
  BY Zenon, CoreParts
<1>2. ASSUME pc[t] \in {"release", "closing"} PROVE wrk[t] \in Ids /\ state[wrk[t]] \in {"Dead", "Leased", "Closing"}
  BY Zenon, <1>2, Enums, CoreParts DEF SoleRelease, Shapes, SpawnPCs, TaskTypes
<1>3. CASE BeginRelease(t)
  <2>1. Others(t) /\ pc[t] = "release" /\ pc'[t] # "unreserve"
    BY <1>1, <1>3, GotoMoves, BecomeMoves DEF BeginRelease, Done
  <2>2. PICK w \in Ids : w = wrk[t] /\ state[w] \in {"Dead", "Leased", "Closing"}
    BY Zenon, <1>2, <2>1
  <2>3. SlotsKept
    BY Zenon, <1>1, <1>3, <2>2 DEF BeginRelease, SlotsKept, UsableStates, SlotTypes
  <2> QED
    BY Zenon, <1>3, <2>1, <2>3, SteadyStep, KeepUpkeep, ProcSame, DownSame DEF BeginRelease,
       inner, os
<1>4. CASE CloseOk(t)
  <2>1. Others(t) /\ pc[t] = "closing" /\ pc'[t] # "unreserve"
    BY <1>1, <1>4, GotoMoves DEF CloseOk
  <2>2. PICK w \in Ids : w = wrk[t] /\ state[w] \in {"Dead", "Closing"}
    BY Zenon, <1>2, <2>1, CoreParts DEF SoleRelease
  <2>3. lessee[w] = NoSession
    BY Zenon, <2>2, UpkeepParts DEF Owned
  <2>4. SlotsKept
    BY Zenon, <1>1, <1>4, <2>2, <2>3 DEF CloseOk, IdleUnlessDead, SlotsKept, UsableStates,
       SlotTypes
  <2> QED
    BY Zenon, <1>4, <2>1, <2>4, SteadyStep, KeepUpkeep, ProcSame, DownSame DEF CloseOk, inner
<1>5. CASE CloseFails(t)
  <2>1. Others(t) /\ pc[t] = "closing" /\ pc'[t] # "unreserve"
    BY <1>1, <1>5, GotoMoves DEF CloseFails
  <2> QED
    BY Zenon, <1>5, <2>1, SteadyStep, KeepUpkeep, ProcSame, DownSame, SlotsSame DEF CloseFails,
       inner, slots
<1>6. CASE ScheduleIdleReap(t)
  <2>1. Others(t) /\ pc[t] = "schedule" /\ pc'[t] # "unreserve"
    BY Zenon, <1>1, <1>6, BecomeMoves DEF ScheduleIdleReap, Done
  <2> QED
    BY Zenon, <1>6, <2>1, SteadyStep, KeepUpkeep, ProcSame, DownSame, SlotsSame
       DEF ScheduleIdleReap, inner, os
<1> QED
  BY Zenon, <1>3, <1>4, <1>5, <1>6

\* The leases that spawn nothing.
LEMMA LeaseUpkeep ==
  ASSUME Core, Upkeep, NEW t \in Tasks, NEW s \in Sessions, LeaseIdle(t, s) \/ LeaseExhausted(t, s)
  PROVE  Upkeep'
<1>1. TaskTypes /\ SlotTypes /\ PoolTypes
  BY Zenon, CoreParts
<1>2. CASE LeaseIdle(t, s)
  <2>1. PICK w \in children : /\ Leasable(w)
                              /\ state' = [state EXCEPT ![w] = "Leased"] /\ lessee' = [lessee EXCEPT ![w] = s]
                              /\ Start(t, "lock", "open", s, w)
    BY Zenon, <1>2 DEF LeaseIdle
  <2>2. Others(t) /\ pc[t] = "free" /\ pc'[t] # "unreserve"
    BY Zenon, <1>1, <1>2, <2>1, BecomeMoves DEF LeaseIdle, MayOpen, Free, Start
  <2>3. SlotsKept
    BY Zenon, <1>1, <2>1 DEF SlotsKept, UsableStates, SlotTypes, PoolTypes, Leasable
  <2> QED
    BY Zenon, <1>2, <2>2, <2>3, SteadyStep, KeepUpkeep, ProcSame, DownSame DEF LeaseIdle,
       inner, os
<1>3. CASE LeaseExhausted(t, s)
  <2>1. \A v \in Tasks : Steady(v)
    BY Zenon, <1>3 DEF LeaseExhausted, task, Steady
  <2> QED
    BY Zenon, <1>3, <2>1, KeepUpkeep, ProcSame, DownSame, SlotsSame DEF LeaseExhausted, slots,
       os, Live
<1> QED
  BY Zenon, <1>2, <1>3

\* A dead slot leaves the list, and its process ends.
LEMMA ForgetUpkeep ==
  ASSUME Core, Upkeep, NEW t \in Tasks, Forget(t) \/ Finish(t)
  PROVE  Upkeep'
<1>1. TaskTypes /\ OsTypes
  BY Zenon, CoreParts
<1>2. wrk[t] \in Ids /\ state[wrk[t]] = "Dead"
  BY Zenon, Enums, CoreParts DEF Forget, Finish, RetiredIsDead, Shapes, SpawnPCs, TaskTypes
<1>3. CASE Forget(t)
  <2>1. Others(t) /\ wrk'[t] = wrk[t] /\ (pc[t] = "forget" => pc'[t] = "finish") /\ pc'[t] # "unreserve" /\ pc[t] \in {"forget", "unlist"}
    BY Zenon, <1>1, <1>3 DEF Forget, Goto, TaskTypes, Others
  <2>2. \A v \in Tasks : Steady(v)
    BY Zenon, <2>1 DEF Others, Steady
  <2> QED
    BY Zenon, <1>2, <1>3, <2>2, KeepUpkeep, ProcSame, DownSame, SlotsSame DEF Forget, slots, os
<1>4. CASE Finish(t)
  <2>1. Others(t) /\ pc[t] = "finish" /\ pc'[t] # "unreserve"
    BY <1>1, <1>4, GotoMoves, BecomeMoves DEF Finish, Done
  <2>2. ProcDecays /\ proc'[wrk[t]] # "alive"
    BY Zenon, <1>1, <1>2, <1>4, Ending DEF Finish
  <2>3. \A v \in Tasks : Steady(v)
    BY Zenon, <2>1, <2>2 DEF Others, Steady
  <2> QED
    BY Zenon, <1>4, <2>2, <2>3, KeepUpkeep, DownSame, SlotsSame DEF Finish, slots, inner
<1> QED
  BY Zenon, <1>3, <1>4

\* A spawn answers or fails; a dropped one gives its reservation back.
LEMMA SpawnUpkeep ==
  ASSUME Core, Upkeep, NEW t \in Tasks, Served(t) \/ DropSpawn(t)
  PROVE  Upkeep'
<1>1. TaskTypes /\ OsTypes
  BY CoreParts
<1>2. new[t] \in Ids /\ pc[t] \in {"serve", "install", "unreserve"}
  BY Zenon, Enums, CoreParts DEF Served, DropSpawn, Shapes, SpawnPCs, TaskTypes
<1>3. CASE Served(t)
  <2>1. CASE proc[new[t]] = "alive" /\ Goto(t, "install") /\ UNCHANGED os
    <3>1. Others(t) /\ pc'[t] # "unreserve"
      BY <1>1, <2>1, GotoMoves
    <3> QED
      BY Zenon, <1>2, <1>3, <2>1, <3>1, SteadyStep, KeepUpkeep, ProcSame, DownSame,
         SlotsSame DEF Served, inner, slots, os
  <2>2. CASE Exit(new[t]) /\ Goto(t, "unreserve")
    <3>1. Others(t) /\ new'[t] = new[t]
      BY Zenon, <1>1, <2>2, GotoMoves
    <3>2. ProcDecays /\ proc'[new[t]] # "alive"
      BY Zenon, <1>1, <1>2, <2>2, Ending
    <3>3. \A v \in Tasks : Steady(v)
      BY Zenon, <1>2, <3>1, <3>2 DEF Others, Steady
    <3> QED
      BY Zenon, <1>3, <3>2, <3>3, KeepUpkeep, DownSame, SlotsSame DEF Served, inner, slots
  <2> QED
    BY Zenon, <1>3, <2>1, <2>2 DEF Served
<1>4. CASE DropSpawn(t)
  <2>1. /\ Others(t) /\ new'[t] = new[t] /\ pc'[t] = "unreserve"
        /\ wrk'[t] = IF pc[t] = "install" THEN new[t] ELSE NoWorker
    BY <1>1, <1>4, BecomeMoves DEF DropSpawn, ReservationDropped
  <2>2. ProcDecays /\ (pc[t] = "serve" => proc'[new[t]] # "alive")
    BY Zenon, <1>1, <1>2, <1>4, Ending, ProcSame DEF DropSpawn, os
  <2>3. pc[t] = "unreserve" => proc[new[t]] # "alive"
    BY Zenon, <1>2, <1>4, Enums, UpkeepParts DEF DropSpawn, ForLease, FailedSpawns
  <2>4. wrk'[t] = new'[t] \/ proc'[new[t]] # "alive"
    BY Zenon, <1>2, <2>1, <2>2, <2>3 DEF ProcDecays
  <2>5. \A v \in Tasks : Steady(v)
    BY Zenon, <1>2, <2>1, <2>4 DEF Others, Steady
  <2> QED
    BY Zenon, <1>4, <2>2, <2>5, KeepUpkeep, DownSame, SlotsSame DEF DropSpawn, inner, slots
<1> QED
  BY <1>3, <1>4

\* An operation dropped half-way: whoever owned a DeadWorker ends it.
LEMMA DropUpkeep ==
  ASSUME Core, Upkeep, NEW t \in Tasks,
         DropOpenWaiting(t) \/ DropGuarded(t) \/ DropUnguarded(t) \/ \E u \in Tasks : DropOpen(t, u)
  PROVE  Upkeep'
<1>1. TaskTypes /\ OsTypes
  BY Zenon, CoreParts
<1>2. ASSUME DropDead(t), pc[t] # "free", pc[t] \notin SpawnPCs
      PROVE  ProcDecays /\ (pc[t] \in {"forget", "finish"} => proc'[wrk[t]] # "alive")
  <2>1. wrk[t] \in Ids
    BY Zenon, <1>2, Enums, CoreParts DEF Shapes, TaskTypes
  <2> QED
    BY Zenon, <1>1, <1>2, <2>1, Ending, ProcSame DEF DropDead, os
<1>3. CASE DropOpenWaiting(t)
  <2>1. Others(t) /\ pc[t] = "lock" /\ pc'[t] # "unreserve"
    BY Zenon, <1>1, <1>3, BecomeMoves DEF DropOpenWaiting, Start
  <2> QED
    BY Zenon, <1>3, <2>1, SteadyStep, KeepUpkeep, ProcSame, DownSame, SlotsSame
       DEF DropOpenWaiting, inner, slots, os
<1>4. CASE DropGuarded(t)
  <2>1. /\ Others(t) /\ pc'[t] = "take" /\ op[t] # "guard"
        /\ pc[t] \in {"rpc", "take", "forget", "finish", "unlist", "release", "closing"}
    BY Zenon, <1>1, <1>4, BecomeMoves DEF DropGuarded, GuardDropped, Start, Releases
  <2>2. ProcDecays /\ (pc[t] \in {"forget", "finish"} => proc'[wrk[t]] # "alive")
    BY Zenon, <1>2, <1>4, <2>1 DEF DropGuarded, SpawnPCs
  <2>3. \A v \in Tasks : Steady(v)
    BY Zenon, <2>1, <2>2 DEF Others, Steady
  <2> QED
    BY Zenon, <1>4, <2>2, <2>3, KeepUpkeep, DownSame, SlotsSame DEF DropGuarded, inner, slots
<1>5. CASE DropUnguarded(t)
  <2>1. /\ Others(t) /\ pc'[t] = "free" /\ op[t] # "guard"
        /\ pc[t] \in {"lock", "clear", "take", "forget", "finish", "unlist", "schedule"}
    BY Zenon, <1>1, <1>5, BecomeMoves DEF DropUnguarded, Done, Releases
  <2>2. ProcDecays /\ (pc[t] \in {"forget", "finish"} => proc'[wrk[t]] # "alive")
    BY Zenon, <1>2, <1>5, <2>1 DEF DropUnguarded, SpawnPCs
  <2>3. \A v \in Tasks : Steady(v)
    BY Zenon, <2>1, <2>2 DEF Others, Steady
  <2> QED
    BY Zenon, <1>5, <2>2, <2>3, KeepUpkeep, DownSame, SlotsSame DEF DropUnguarded, inner, slots
<1>6. ASSUME NEW u \in Tasks, DropOpen(t, u) PROVE Upkeep'
  <2>1. /\ pc[t] \in {"rpc", "take", "forget", "finish", "unlist"} /\ op[t] = "open" /\ pc[u] = "free" /\ u # t
        /\ pc'[t] = "take" /\ pc'[u] = "release"
        /\ \A v \in Tasks \ {t, u} : pc'[v] = pc[v] /\ op'[v] = op[v] /\ wrk'[v] = wrk[v] /\ new'[v] = new[v]
    BY Zenon, <1>1, <1>6 DEF DropOpen, Free, TaskTypes
  <2>2. ProcDecays /\ (pc[t] \in {"forget", "finish"} => proc'[wrk[t]] # "alive")
    BY Zenon, <1>2, <1>6, <2>1, ProcSame DEF DropOpen, SpawnPCs
  <2>3. \A v \in Tasks : Steady(v)
    BY Zenon, <2>1, <2>2 DEF Steady
  <2> QED
    BY Zenon, <1>6, <2>2, <2>3, KeepUpkeep, DownSame, SlotsSame DEF DropOpen, inner, slots
<1> QED
  BY Zenon, <1>3, <1>4, <1>5, <1>6

\* The rest of shutdown_all, and a worker that dies.
LEMMA ShutdownUpkeep ==
  ASSUME Core, Upkeep,
         ShutdownAll \/ (\E w \in Ids : ShutdownForget(w) \/ ShutdownFinish(w) \/ Crash(w)) \/ UNCHANGED vars
  PROVE  Upkeep'
<1>1. PoolTypes /\ OsTypes
  BY Zenon, CoreParts
<1>2. ASSUME UNCHANGED task PROVE \A v \in Tasks : Steady(v)
  BY Zenon, <1>2 DEF task, Steady
<1>3. CASE ShutdownAll
  <2>1. DownSteady
    BY Zenon, <1>3 DEF ShutdownAll, DownSteady
  <2> QED
    BY Zenon, <1>2, <1>3, <2>1, KeepUpkeep, ProcSame, SlotsSame DEF ShutdownAll, inner, slots,
       os
<1>4. ASSUME NEW w \in Ids, ShutdownForget(w) PROVE Upkeep'
  <2>1. DownSteady
    BY Zenon, <1>1, <1>4 DEF ShutdownForget, DownSteady, PoolTypes
  <2>2. state[w] = "Dead"
    BY Zenon, <1>4, UpkeepParts DEF ShutdownForget, DownIsDead
  <2> QED
    BY Zenon, <1>2, <1>4, <2>1, <2>2, KeepUpkeep, ProcSame, SlotsSame DEF ShutdownForget,
       slots, os
<1>5. ASSUME NEW w \in Ids, ShutdownFinish(w) PROVE Upkeep'
  <2>1. ProcDecays /\ proc'[w] # "alive"
    BY Zenon, <1>1, <1>5, Ending DEF ShutdownFinish
  <2>2. DownSteady
    BY Zenon, <1>1, <1>5, <2>1 DEF ShutdownFinish, DownSteady, PoolTypes
  <2> QED
    BY Zenon, <1>2, <1>5, <2>1, <2>2, KeepUpkeep, SlotsSame DEF ShutdownFinish, inner, slots
<1>6. ASSUME NEW w \in Ids, Crash(w) PROVE Upkeep'
  <2>1. ProcDecays
    BY Zenon, <1>1, <1>6, Ending DEF Crash
  <2> QED
    BY Zenon, <1>2, <1>6, <2>1, KeepUpkeep, DownSame, SlotsSame DEF Crash, inner, slots
<1>7. CASE UNCHANGED vars
  BY Zenon, <1>2, <1>7, KeepUpkeep, ProcSame, DownSame, SlotsSame DEF vars, task
<1> QED
  BY Zenon, <1>3, <1>4, <1>5, <1>6, <1>7

\* take_dead_worker, mark_stale_idle_dead and the first step of shutdown_all:
\* whoever finds the slot alive owns its DeadWorker.
LEMMA RetireUpkeep ==
  ASSUME Core, Upkeep, UNCHANGED <<children, spawning, next_id, proc>>,
         NEW w \in Ids, w < next_id, w \notin spawning, lessee'[w] = NoSession, state'[w] = "Dead",
         \A x \in Ids \ {w} : state'[x] = state[x] /\ lessee'[x] = lessee[x],
         \A x \in Ids \ {w} : down'[x] = down[x],
         \A v \in Tasks : pc'[v] = "unreserve" => pc[v] = "unreserve" /\ wrk'[v] = wrk[v] /\ new'[v] = new[v],
         \A v \in Tasks : wrk[v] \in Ids \ {w} =>
           \/ pc'[v] = pc[v] /\ op'[v] = op[v] /\ wrk'[v] = wrk[v]
           \/ pc[v] \notin {"take", "forget", "finish"},
         \A v \in Tasks : wrk[v] = w /\ pc[v] \in {"forget", "finish"} => pc'[v] = pc[v] /\ wrk'[v] = w,
         down[w] \in {"forget", "finish"} => down'[w] = down[w],
         state[w] # "Dead" => \/ \E v \in Tasks : wrk'[v] = w /\ pc'[v] = "forget"
                              \/ down'[w] = "forget"
  PROVE  Upkeep'
<1> USE UpkeepParts
<1>1. Owned' /\ Usable' /\ DownIsDead'
  BY DEF Owned, Usable, DownIsDead
<1>2. Unborn'
  BY Zenon DEF Unborn
<1>3. FailedSpawns'
  BY Zenon DEF FailedSpawns
<1>4. Tended'
  <2> SUFFICES ASSUME NEW x \in Ids, proc[x] = "alive", x \notin spawning, state'[x] \notin UsableStates,
                      down'[x] \notin {"forget", "finish"}
               PROVE  \E t \in Tasks : /\ wrk'[t] = x
                                       /\ \/ pc'[t] \in {"forget", "finish"}
                                          \/ pc'[t] = "take" /\ op'[t] = "guard" /\ state'[x] = "None"
    BY Zenon DEF Tended, UsableStates
  <2>1. CASE x # w
    <3>1. PICK t \in Tasks : /\ wrk[t] = x
                             /\ \/ pc[t] \in {"forget", "finish"}
                                \/ pc[t] = "take" /\ op[t] = "guard" /\ state[x] = "None"
      BY Zenon, <2>1 DEF Tended, UsableStates
    <3> QED
      BY <2>1, <3>1
  <2>2. CASE x = w /\ state[w] = "Dead"
    <3>1. PICK t \in Tasks : wrk[t] = w /\ pc[t] \in {"forget", "finish"}
      BY Zenon, <2>2 DEF Tended
    <3> QED
      BY Zenon, <2>2, <3>1
  <2>3. CASE x = w /\ state[w] # "Dead"
    BY Zenon, <2>3
  <2> QED
    BY Zenon, <2>1, <2>2, <2>3
<1> QED
  BY Zenon, <1>1, <1>2, <1>3, <1>4 DEF Upkeep

\* take_dead_worker: the task that makes the slot dead is the one that ends it.
LEMMA TakeUpkeep ==
  ASSUME Core, Upkeep, NEW t \in Tasks, Take(t)
  PROVE  Upkeep'
<1>1. TaskTypes /\ SlotTypes
  BY Zenon, CoreParts
<1>2. PICK w \in Ids : w = wrk[t]
  BY Zenon, Enums, CoreParts DEF Take, Shapes, SpawnPCs, TaskTypes
<1>3. w < next_id /\ w \notin spawning
  BY Zenon, <1>2, Enums, CoreParts DEF Take, FreshIds, Reservations, Shapes, SpawnPCs
<1>4. /\ Others(t) /\ pc[t] = "take" /\ wrk'[t] = w /\ pc'[t] = IF state[w] = "Dead" THEN "unlist" ELSE "forget"
  BY Zenon, <1>1, <1>2, GotoMoves DEF Take
<1>5. /\ lessee'[w] = NoSession /\ state'[w] = "Dead"
      /\ \A x \in Ids \ {w} : state'[x] = state[x] /\ lessee'[x] = lessee[x]
  BY Zenon, <1>1, <1>2 DEF Take, SlotTypes
<1>6. UNCHANGED <<children, spawning, next_id, proc, down>>
  BY Zenon DEF Take, inner, os
<1> QED
  BY Zenon, <1>2, <1>3, <1>4, <1>5, <1>6, RetireUpkeep DEF Others

\* The same step of a branch of shutdown_all.
LEMMA ShutdownTakeUpkeep ==
  ASSUME Core, Upkeep, NEW w \in Ids, ShutdownTake(w)
  PROVE  Upkeep'
<1>1. SlotTypes /\ PoolTypes
  BY Zenon, CoreParts
<1>2. w < next_id /\ w \notin spawning
  BY Zenon, CoreParts DEF ShutdownTake, Listed, FreshIds, Reservations
<1>3. /\ lessee'[w] = NoSession /\ state'[w] = "Dead"
      /\ \A x \in Ids \ {w} : state'[x] = state[x] /\ lessee'[x] = lessee[x]
  BY Zenon, <1>1 DEF ShutdownTake, SlotTypes
<1>4. /\ down[w] = "take" /\ \A x \in Ids \ {w} : down'[x] = down[x]
      /\ state[w] # "Dead" => down'[w] = "forget"
  BY Zenon, <1>1 DEF ShutdownTake, PoolTypes
<1>5. UNCHANGED <<children, spawning, next_id, proc, pc, op, wrk, new>>
  BY Zenon DEF ShutdownTake, inner, os, task
<1> QED
  BY Zenon, <1>2, <1>3, <1>4, <1>5, RetireUpkeep

\* The idle reaper: it checks and retires the slot under one lock.
LEMMA ReapUpkeep ==
  ASSUME Core, Upkeep, NEW t \in Tasks, NEW w \in Ids, ReapIdle(t, w)
  PROVE  Upkeep'
<1>1. TaskTypes /\ SlotTypes
  BY Zenon, CoreParts
<1>2. CASE UNCHANGED <<state, task>>
  <2>1. \A v \in Tasks : Steady(v)
    BY Zenon, <1>2 DEF task, Steady
  <2> QED
    BY Zenon, <1>2, <2>1, KeepUpkeep, ProcSame, DownSame, SlotsSame DEF ReapIdle, inner, os
<1>3. CASE state[w] = "Idle" /\ state' = [state EXCEPT ![w] = "Dead"] /\ Start(t, "forget", "reap", NoSession, w)
  <2>1. w < next_id /\ w \notin spawning /\ lessee[w] = NoSession
    BY Zenon, <1>3, CoreParts, UpkeepParts DEF FreshIds, Reservations, Owned
  <2>2. Others(t) /\ pc[t] = "free" /\ wrk'[t] = w /\ pc'[t] = "forget"
    BY <1>1, <1>3, BecomeMoves DEF ReapIdle, Free, Start
  <2>3. /\ lessee'[w] = NoSession /\ state'[w] = "Dead"
        /\ \A x \in Ids \ {w} : state'[x] = state[x] /\ lessee'[x] = lessee[x]
    BY Zenon, <1>1, <1>3, <2>1 DEF ReapIdle, SlotTypes
  <2>4. UNCHANGED <<children, spawning, next_id, proc, down>>
    BY Zenon DEF ReapIdle, inner, os
  <2> QED
    BY Zenon, <2>1, <2>2, <2>3, <2>4, RetireUpkeep DEF Others
<1> QED
  BY Zenon, <1>2, <1>3 DEF ReapIdle

\* reserve_spawn_slot_locked: the process it starts belongs to the reservation.
LEMMA ReserveUpkeep ==
  ASSUME Core, Upkeep, NEW t \in Tasks, NEW k, NEW s, NEW y, Reserve(t, k, s, y),
         UNCHANGED <<state, lessee, down>>, \A w \in children : state[w] # "Dead" => w \in children',
         pc[t] \notin {"take", "forget", "finish"}
  PROVE  Upkeep'
<1> USE UpkeepParts
<1>1. PoolTypes /\ OsTypes /\ TaskTypes
  BY Zenon, CoreParts
<1>2. next_id \in Ids /\ next_id' = next_id + 1 /\ spawning' = spawning \cup {next_id}
  BY Zenon, <1>1, ReserveStarts
<1>3. PICK n \in Ids : n = next_id
  BY Zenon, <1>2
<1>4. n < next_id' /\ (\A w \in Ids : w < next_id => w < next_id') /\ ~(n < next_id) /\ \A u \in Tasks : new[u] # n
  BY <1>2, <1>3, NextIsNew, Enums
<1>5. /\ Others(t) /\ pc'[t] \in {"serve", "unreserve"} /\ new'[t] = n
      /\ pc'[t] = "unreserve" => proc' = proc
      /\ \A w \in Ids \ {n} : proc'[w] = proc[w]
  BY <1>1, <1>3, BecomeMoves DEF Reserve, OsTypes
<1>6. Owned' /\ Usable' /\ DownIsDead'
  BY Zenon DEF Owned, Usable, DownIsDead
<1>7. Unborn'
  BY Zenon, <1>4, <1>5 DEF Unborn
<1>8. FailedSpawns'
  <2> SUFFICES ASSUME NEW v \in Tasks, pc'[v] = "unreserve", wrk'[v] # new'[v] PROVE proc'[new'[v]] # "alive"
    BY Zenon DEF FailedSpawns
  <2>1. CASE v = t
    BY Zenon, <1>3, <1>4, <1>5, <2>1 DEF Unborn
  <2>2. CASE v # t
    <3>1. new[v] \in Ids \ {n} /\ new'[v] = new[v] /\ pc[v] = "unreserve" /\ wrk[v] # new[v]
      BY Zenon, <1>1, <1>4, <1>5, <2>2, Enums, CoreParts DEF Others, Shapes, SpawnPCs, TaskTypes
    <3> QED
      BY Zenon, <1>5, <3>1 DEF FailedSpawns
  <2> QED
    BY Zenon, <2>1, <2>2
<1>9. Tended'
  <2> SUFFICES ASSUME NEW x \in Ids, proc'[x] = "alive", x \notin spawning', state[x] \notin UsableStates,
                      down[x] \notin {"forget", "finish"}
               PROVE  \E u \in Tasks : /\ wrk'[u] = x
                                       /\ \/ pc'[u] \in {"forget", "finish"}
                                          \/ pc'[u] = "take" /\ op'[u] = "guard" /\ state[x] = "None"
    BY DEF Tended, UsableStates
  <2>1. x # n /\ proc[x] = "alive" /\ x \notin spawning
    BY Zenon, <1>2, <1>3, <1>5
  <2>2. PICK u \in Tasks : /\ wrk[u] = x
                           /\ \/ pc[u] \in {"forget", "finish"}
                              \/ pc[u] = "take" /\ op[u] = "guard" /\ state[x] = "None"
    BY Zenon, <2>1 DEF Tended, UsableStates
  <2> QED
    BY Zenon, <1>5, <2>2 DEF Others
<1> QED
  BY Zenon, <1>6, <1>7, <1>8, <1>9 DEF Upkeep

\* The three places that reserve an id and spawn its process.
LEMMA ReservingUpkeep ==
  ASSUME Core, Upkeep, NEW t \in Tasks,
         WarmReserve(t) \/ Ensure(t) \/ \E s \in Sessions : LeaseSpawn(t, s)
  PROVE  Upkeep'
<1>1. TaskTypes
  BY Zenon, CoreParts
<1>2. CASE WarmReserve(t)
  BY Zenon, <1>2, ReserveUpkeep DEF WarmReserve, slots, Free
<1>3. ASSUME NEW s \in Sessions, LeaseSpawn(t, s) PROVE Upkeep'
  BY Zenon, <1>3, ReserveUpkeep DEF LeaseSpawn, MayOpen, Free, slots, Live
<1>4. CASE Ensure(t)
  <2>1. CASE Resume(t) /\ UNCHANGED <<spawning, next_id, proc>>
    <3>1. Others(t) /\ pc[t] = "ensure" /\ pc'[t] # "unreserve"
      BY Zenon, <1>1, <1>4, <2>1, ResumeMoves DEF Ensure
    <3> QED
      BY Zenon, <1>4, <2>1, <3>1, SteadyStep, KeepUpkeep, ProcSame, DownSame, SlotsSame
         DEF Ensure, slots
  <2>2. CASE Reserve(t, op[t], ses[t], wrk[t])
    BY Zenon, <1>4, <2>2, ReserveUpkeep DEF Ensure, slots
  <2> QED
    BY Zenon, <1>4, <2>1, <2>2 DEF Ensure
<1> QED
  BY Zenon, <1>2, <1>3, <1>4

\* finish_spawn_reservation(Some(slot)): the slot is listed as it becomes usable.
LEMMA InstallUpkeep ==
  ASSUME Core, Upkeep, NEW t \in Tasks, Install(t)
  PROVE  Upkeep'
<1> USE UpkeepParts
<1>1. TaskTypes /\ SlotTypes
  BY Zenon, CoreParts
<1>2. PICK n \in Ids : n = new[t]
  BY Zenon, Enums, CoreParts DEF Install, Shapes, SpawnPCs, TaskTypes
<1>3. n \in spawning /\ state[n] = "None" /\ lessee[n] = NoSession
  BY Zenon, <1>2, Enums, CoreParts DEF Reservations, Owned
<1>4. /\ Others(t) /\ pc[t] = "install" /\ pc'[t] # "unreserve"
  BY Zenon, <1>1, BecomeMoves DEF Install, Start, Done
<1>5. /\ state'[n] \in {"Idle", "Leased"} /\ (lessee'[n] # NoSession => state'[n] = "Leased")
      /\ \A x \in Ids \ {n} : state'[x] = state[x] /\ lessee'[x] = lessee[x]
  BY Zenon, <1>1, <1>2, <1>3 DEF Install, SlotTypes
<1>6. /\ spawning' = spawning \ {n} /\ children' = children \cup {n}
      /\ UNCHANGED <<next_id, proc, down>>
  BY Zenon, <1>2 DEF Install, os
<1>7. Owned' /\ Usable'
  BY Zenon, <1>5, <1>6 DEF Owned, Usable
<1>8. DownIsDead' /\ Unborn'
  BY Zenon, <1>3, <1>5, <1>6 DEF DownIsDead, Unborn
<1>9. FailedSpawns'
  BY Zenon, <1>4, <1>6 DEF FailedSpawns, Others
<1>10. Tended'
  <2> SUFFICES ASSUME NEW x \in Ids, proc[x] = "alive", x \notin spawning', state'[x] \notin UsableStates,
                      down[x] \notin {"forget", "finish"}
               PROVE  \E u \in Tasks : /\ wrk'[u] = x
                                       /\ \/ pc'[u] \in {"forget", "finish"}
                                          \/ pc'[u] = "take" /\ op'[u] = "guard" /\ state'[x] = "None"
    BY Zenon, <1>6 DEF Tended, UsableStates
  <2>1. x # n /\ x \notin spawning /\ state'[x] = state[x]
    BY Zenon, <1>5, <1>6 DEF UsableStates
  <2>2. PICK u \in Tasks : /\ wrk[u] = x
                           /\ \/ pc[u] \in {"forget", "finish"}
                              \/ pc[u] = "take" /\ op[u] = "guard" /\ state[x] = "None"
    BY Zenon, <2>1 DEF Tended, UsableStates
  <2> QED
    BY Zenon, <1>4, <2>1, <2>2 DEF Others
<1> QED
  BY Zenon, <1>7, <1>8, <1>9, <1>10 DEF Upkeep

\* finish_spawn_reservation(None): a slot that was ready is retired, and
\* otherwise there is no process any more.
LEMMA UnreserveUpkeep ==
  ASSUME Core, Upkeep, NEW t \in Tasks, Unreserve(t)
  PROVE  Upkeep'
<1> USE UpkeepParts
<1>1. TaskTypes
  BY Zenon, CoreParts
<1>2. PICK n \in Ids : n = new[t]
  BY Zenon, Enums, CoreParts DEF Unreserve, Shapes, SpawnPCs, TaskTypes
<1>3. n \in spawning /\ state[n] = "None"
  BY Zenon, <1>2, Enums, CoreParts DEF Reservations
<1>4. /\ Others(t) /\ pc[t] = "unreserve" /\ pc'[t] # "unreserve"
      /\ wrk[t] = n => wrk'[t] = n /\ pc'[t] = "take" /\ op'[t] = "guard"
  <2>1. CASE wrk[t] = new[t] /\ Start(t, "take", "guard", ses[t], wrk[t])
    BY <1>1, <1>2, <2>1, BecomeMoves DEF Unreserve, Start
  <2>2. CASE wrk[t] # new[t] /\ Done(t)
    BY Zenon, <1>1, <1>2, <2>2, BecomeMoves DEF Unreserve, Done
  <2>3. CASE wrk[t] # new[t] /\ Resume(t)
    BY Zenon, <1>1, <1>2, <2>3, ResumeMoves DEF Unreserve
  <2> QED
    BY Zenon, <1>2, <2>1, <2>2, <2>3, Enums DEF Unreserve
<1>5. spawning' = spawning \ {n} /\ UNCHANGED <<children, next_id, state, lessee, proc, down>>
  BY Zenon, <1>2 DEF Unreserve, slots, os
<1>6. Owned' /\ Usable' /\ DownIsDead'
  BY Zenon, <1>5 DEF Owned, Usable, DownIsDead
<1>7. Unborn' /\ FailedSpawns'
  BY Zenon, <1>4, <1>5 DEF Unborn, FailedSpawns, Others
<1>8. Tended'
  <2> SUFFICES ASSUME NEW x \in Ids, proc[x] = "alive", x \notin spawning', state[x] \notin UsableStates,
                      down[x] \notin {"forget", "finish"}
               PROVE  \E u \in Tasks : /\ wrk'[u] = x
                                       /\ \/ pc'[u] \in {"forget", "finish"}
                                          \/ pc'[u] = "take" /\ op'[u] = "guard" /\ state[x] = "None"
    BY <1>5 DEF Tended, UsableStates
  <2>1. CASE x = n
    BY Zenon, <1>2, <1>3, <1>4, <2>1 DEF FailedSpawns
  <2>2. CASE x # n
    <3>1. PICK u \in Tasks : /\ wrk[u] = x
                             /\ \/ pc[u] \in {"forget", "finish"}
                                \/ pc[u] = "take" /\ op[u] = "guard" /\ state[x] = "None"
      BY Zenon, <1>5, <2>2 DEF Tended, UsableStates
    <3> QED
      BY Zenon, <1>4, <3>1 DEF Others
  <2> QED
    BY Zenon, <2>1, <2>2
<1> QED
  BY Zenon, <1>6, <1>7, <1>8 DEF Upkeep

\* Every step of the pool keeps every process in somebody's care.
LEMMA UpkeepNext == ASSUME Core, Upkeep, [Next]_vars PROVE Upkeep'
<1>1. ASSUME NEW t \in Tasks, Step(t) PROVE Upkeep'
  BY Zenon, <1>1, SpawnUpkeep, InstallUpkeep, UnreserveUpkeep, CallsUpkeep, ReleaseUpkeep,
     TakeUpkeep,
     ForgetUpkeep, ReservingUpkeep DEF Step
<1>2. ASSUME NEW t \in Tasks, Begin(t) PROVE Upkeep'
  BY Zenon, <1>2, ReservingUpkeep, LeaseUpkeep, CallsUpkeep, ReapUpkeep DEF Begin
<1>3. ASSUME NEW t \in Tasks, Drop(t) PROVE Upkeep'
  BY Zenon, <1>3, SpawnUpkeep, DropUpkeep DEF Drop
<1>4. ASSUME NEW w \in Ids, Shutdown(w) \/ Crash(w) PROVE Upkeep'
  BY Zenon, <1>4, ShutdownTakeUpkeep, ShutdownUpkeep DEF Shutdown
<1> QED
  BY Zenon, <1>1, <1>2, <1>3, <1>4, ShutdownUpkeep DEF Next

\* The pool starts with no slot and no process.
LEMMA UpkeepInit == Init => Upkeep
  BY Names DEF Init, Upkeep, Owned, Usable, DownIsDead, Unborn, FailedSpawns, Tended

\* Core, the capacity and the upkeep hold together in every reachable state.
LEMMA UpkeepInvariance == Spec => [](IInv /\ Upkeep)
  <1>1. Init => IInv /\ Upkeep BY Zenon, IInvInit, UpkeepInit
  <1>2. ASSUME IInv /\ Upkeep, [Next]_vars PROVE (IInv /\ Upkeep)'
    <2>1. IInv' BY Zenon, <1>2, IInvNext
    <2>2. Upkeep' BY Zenon, <1>2, UpkeepNext DEF IInv
    <2> QED BY Zenon, <2>1, <2>2
  <1> QED BY <1>1, <1>2, PTL DEF Spec

\* Through every interleaving of leases, releases, retirements, drops and
\* shutdown, a running worker process is being spawned, is usable, or has a task
\* that is about to end it: none is ever forgotten.
THEOREM ProcessesAreAccountedFor == Spec => []NoOrphanProcess
  <1>1. ASSUME Upkeep PROVE NoOrphanProcess
    <2> SUFFICES ASSUME NEW w \in Ids, proc[w] = "alive", w \notin spawning, w \notin Live,
                        down[w] \notin {"forget", "finish"}
                 PROVE  \E t \in Tasks : wrk[t] = w /\ pc[t] \in {"take", "forget", "finish"}
      BY Zenon DEF NoOrphanProcess
    <2>1. state[w] \notin {"Idle", "Leased", "Closing"}
      BY Zenon, <1>1, UpkeepParts DEF Usable, Live
    <2> QED
      BY Zenon, <1>1, <2>1, UpkeepParts DEF Tended
  <1> QED BY <1>1, UpkeepInvariance, PTL

-----------------------------------------------------------------------------
(* The refinement of Leasing, step by step. *)

\* A step of Leasing, or one that it does not see.
Leases == Lease!Next \/ UNCHANGED <<state, lessee, handle, db>>

\* A process that ends takes its database with it.
LEMMA LeasesEmpty ==
  ASSUME NEW w \in Ids, Exit(w) \/ CloseService(w), UNCHANGED <<state, lessee, handle>>
  PROVE  Leases
<1>1. Lease!Empty(w)
  BY Zenon DEF Exit, CloseService, Lease!Empty
<1> QED
  BY Zenon, <1>1 DEF Leases, Lease!Next

\* A session gives up its handle, to the worker whose open may still be going on.
LEMMA LeasesLeave ==
  ASSUME NEW s \in Sessions, handle[s] # NoWorker, handle' = [handle EXCEPT ![s] = NoWorker],
         UNCHANGED <<state, lessee>>,
         \/ db' = db
         \/ \E b \in BOOLEAN : db' = [db EXCEPT ![handle[s]] = b]
  PROVE  Leases
<1>1. Lease!Leave(s)
  BY Zenon DEF Lease!Leave
<1> QED
  BY Zenon, <1>1 DEF Leases, Lease!Next

\* The only task of an open or a call has the session's handle.
LEMMA UserHasHandle ==
  ASSUME Core, NEW t \in Tasks, op[t] \in {"open", "call"}, pc[t] \notin SpawnPCs
  PROVE  ses[t] \in Sessions /\ wrk[t] \in Ids /\ handle[ses[t]] = wrk[t] /\ wrk[t] # NoWorker
  BY Zenon, Enums, Names, CoreParts DEF Shapes, SoleUser, TaskTypes

\* An open that fails gives its handle back; a call keeps it for now.
LEMMA LeasesGiveUp ==
  ASSUME Core, NEW t \in Tasks, op[t] \in {"open", "call"}, pc[t] \notin SpawnPCs, GiveUp(t),
         UNCHANGED <<state, lessee>>, db' = db \/ (op[t] = "open" /\ db' = [db EXCEPT ![wrk[t]] = TRUE])
  PROVE  Leases
<1>1. CASE op[t] = "open"
  BY Zenon, <1>1, UserHasHandle, LeasesLeave DEF GiveUp, TakeHandle
<1>2. CASE op[t] # "open"
  BY Zenon, <1>2 DEF GiveUp, Leases
<1> QED
  BY Zenon, <1>1, <1>2

\* An answer ends the task, or makes an open give its handle back.
LEMMA LeasesResume ==
  ASSUME Core, NEW t \in Tasks, Resume(t), UNCHANGED <<state, lessee, db>>,
         op[t] \in {"open", "call"} => pc[t] \notin SpawnPCs \/ wrk[t] # NoWorker
  PROVE  Leases
<1>1. CASE op[t] \in {"open", "call"} /\ GiveUp(t)
  <2>1. ses[t] \in Sessions /\ handle[ses[t]] = wrk[t] /\ wrk[t] # NoWorker
    BY Zenon, <1>1, CoreParts DEF Shapes, SoleUser, TaskTypes, SpawnPCs
  <2>2. CASE op[t] = "open"
    BY Zenon, <1>1, <2>1, <2>2, LeasesLeave DEF GiveUp, TakeHandle
  <2>3. CASE op[t] # "open"
    BY Zenon, <1>1, <2>3 DEF GiveUp, Leases
  <2> QED
    BY Zenon, <2>2, <2>3
<1>2. CASE UNCHANGED handle
  BY Zenon, <1>2 DEF Leases
<1> QED
  BY Zenon, <1>1, <1>2 DEF Resume

\* The steps of a lease: WorkerPool::lease and finish_spawn_reservation.
LEMMA LeasesLease ==
  ASSUME Core, Upkeep, NEW t \in Tasks,
         \/ WarmReserve(t) \/ Served(t) \/ Install(t) \/ Unreserve(t) \/ Ensure(t)
         \/ \E s \in Sessions : LeaseIdle(t, s) \/ LeaseSpawn(t, s) \/ LeaseExhausted(t, s)
  PROVE  Leases
<1>1. ASSUME NEW s \in Sessions, LeaseIdle(t, s) PROVE Leases
  <2>1. PICK w \in children : /\ Leasable(w) /\ handle[s] = NoWorker
                              /\ state' = [state EXCEPT ![w] = "Leased"] /\ lessee' = [lessee EXCEPT ![w] = s]
                              /\ handle' = [handle EXCEPT ![s] = w] /\ db' = db
    BY Zenon, <1>1 DEF LeaseIdle, MayOpen, os
  <2>2. w \in Ids /\ state[w] = "Idle" /\ ~db[w]
    BY Zenon, <2>1, CoreParts DEF PoolTypes, Leasable, DbInv
  <2>3. \A r \in Sessions : handle[r] # w
    BY Zenon, <2>2, Enums, CoreParts DEF ExclusiveLease
  <2>4. Lease!Grant(w, s)
    BY Zenon, <2>1, <2>2, <2>3 DEF Lease!Grant
  <2> QED
    BY Zenon, <2>2, <2>4 DEF Leases, Lease!Next
<1>2. ASSUME NEW s \in Sessions, LeaseSpawn(t, s) \/ LeaseExhausted(t, s) PROVE Leases
  BY Zenon, <1>2 DEF LeaseSpawn, LeaseExhausted, slots, os, Leases
<1>3. CASE WarmReserve(t)
  BY Zenon, <1>3 DEF WarmReserve, slots, Leases
<1>4. CASE Served(t)
  <2>1. new[t] \in Ids
    BY Zenon, <1>4, Enums, CoreParts DEF Served, Shapes, SpawnPCs, TaskTypes
  <2>2. CASE UNCHANGED os
    BY Zenon, <1>4, <2>2 DEF Served, slots, os, Leases
  <2>3. CASE Exit(new[t])
    BY Zenon, <1>4, <2>1, <2>3, LeasesEmpty DEF Served, slots
  <2> QED
    BY Zenon, <1>4, <2>2, <2>3 DEF Served
<1>5. CASE Install(t)
  <2>1. PICK n \in Ids : n = new[t]
    BY Zenon, <1>5, Enums, CoreParts DEF Install, Shapes, SpawnPCs, TaskTypes
  <2>2. state[n] = "None" /\ ~db[n] /\ db' = db
    BY Zenon, <1>5, <2>1, Enums, CoreParts DEF Install, os, Reservations, DbInv
  <2>3. \A r \in Sessions : handle[r] # n
    BY Zenon, <2>2, Enums, CoreParts DEF ExclusiveLease
  <2>4. CASE ForLease(t) /\ state' = [state EXCEPT ![n] = "Leased"] /\ lessee' = [lessee EXCEPT ![n] = ses[t]]
             /\ handle' = [handle EXCEPT ![ses[t]] = n]
    <3>1. PICK s \in Sessions : s = ses[t]
      BY Zenon, <2>4, CoreParts DEF ForLease, Shapes, TaskTypes
    <3>2. handle[s] = NoWorker
      BY Zenon, <2>4, <3>1, CoreParts DEF ForLease, SoleUser
    <3>3. Lease!Grant(n, s)
      BY Zenon, <2>2, <2>3, <2>4, <3>1, <3>2 DEF Lease!Grant
    <3> QED
      BY Zenon, <3>3 DEF Leases, Lease!Next
  <2>5. CASE state' = [state EXCEPT ![n] = "Idle"] /\ UNCHANGED <<lessee, handle>>
    <3>1. Lease!Add(n)
      BY Zenon, <2>2, <2>5 DEF Lease!Add
    <3> QED
      BY Zenon, <3>1 DEF Leases, Lease!Next
  <2> QED
    BY Zenon, <1>5, <2>1, <2>4, <2>5 DEF Install
<1>6. CASE Unreserve(t)
  <2>1. CASE UNCHANGED handle
    BY Zenon, <1>6, <2>1 DEF Unreserve, slots, os, Leases
  <2>2. CASE Resume(t) /\ wrk[t] # NoWorker
    BY Zenon, <1>6, <2>2, LeasesResume DEF Unreserve, slots, os
  <2> QED
    BY Zenon, <1>6, <2>1, <2>2 DEF Unreserve
<1>7. CASE Ensure(t)
  <2>1. CASE Resume(t)
    BY Zenon, <1>7, <2>1, LeasesResume DEF Ensure, slots, SpawnPCs
  <2>2. CASE UNCHANGED handle
    BY Zenon, <1>7, <2>2 DEF Ensure, slots, Leases
  <2> QED
    BY Zenon, <1>7, <2>1, <2>2 DEF Ensure
<1> QED
  BY Zenon, <1>1, <1>2, <1>3, <1>4, <1>5, <1>6, <1>7

\* The steps of a call: call_tool, open_observed and dispatch.
LEMMA LeasesCall ==
  ASSUME Core, NEW t \in Tasks,
         \/ SendCall(t) \/ CallOk(t) \/ OpenError(t) \/ CallRetires(t) \/ CallFails(t) \/ Clear(t)
         \/ \E s \in Sessions : StartCall(t, s)
  PROVE  Leases
<1>1. CASE SendCall(t)
  <2>1. op[t] \in {"open", "call"} /\ pc[t] \notin SpawnPCs
    BY Zenon, <1>1, CoreParts DEF SendCall, Shapes, SpawnPCs
  <2>2. CASE UNCHANGED handle
    BY Zenon, <1>1, <2>2 DEF SendCall, slots, os, Leases
  <2>3. CASE GiveUp(t)
    BY Zenon, <1>1, <2>1, <2>3, LeasesGiveUp DEF SendCall, slots, os
  <2> QED
    BY Zenon, <1>1, <2>2, <2>3 DEF SendCall
<1>2. ASSUME pc[t] = "rpc", op[t] = "open", db' = [db EXCEPT ![wrk[t]] = TRUE], UNCHANGED <<state, lessee, handle>>
      PROVE  Leases
  <2>1. ses[t] \in Sessions /\ handle[ses[t]] = wrk[t] /\ wrk[t] # NoWorker
    BY Zenon, <1>2, UserHasHandle DEF SpawnPCs
  <2>2. Lease!Open(ses[t])
    BY Zenon, <1>2, <2>1 DEF Lease!Open
  <2> QED
    BY Zenon, <2>1, <2>2 DEF Leases, Lease!Next
<1>3. CASE CallOk(t)
  <2>1. op[t] \in {"open", "call"} /\ wrk[t] \in Ids
    BY Zenon, <1>3, UserHasHandle, CoreParts DEF CallOk, Shapes, SpawnPCs
  <2>2. CASE op[t] = "open"
    <3>1. db' = [db EXCEPT ![wrk[t]] = TRUE]
      BY Zenon, <1>3, <2>1, <2>2, CoreParts DEF CallOk, OsTypes
    <3> QED
      BY Zenon, <1>2, <1>3, <2>2, <3>1 DEF CallOk, slots
  <2>3. CASE op[t] # "open"
    <3>1. db' = db
      BY Zenon, <1>3, <2>1, <2>3, CoreParts DEF CallOk, OsTypes
    <3> QED
      BY Zenon, <1>3, <3>1 DEF CallOk, slots, Leases
  <2> QED
    BY Zenon, <2>2, <2>3
<1>4. CASE OpenError(t)
  BY Zenon, <1>4, LeasesGiveUp DEF OpenError, slots, SpawnPCs
<1>5. CASE CallRetires(t) \/ Clear(t)
  <2>1. op[t] \in {"open", "call"} /\ pc[t] \notin SpawnPCs
    BY Zenon, <1>5, CoreParts DEF CallRetires, Clear, Shapes, SpawnPCs
  <2>2. ses[t] \in Sessions /\ handle[ses[t]] = wrk[t] /\ wrk[t] # NoWorker
    BY Zenon, <2>1, UserHasHandle
  <2>3. handle' = [handle EXCEPT ![ses[t]] = NoWorker] /\ UNCHANGED <<state, lessee, db>>
    BY Zenon, <1>5, <2>2 DEF CallRetires, Clear, slots, os
  <2> QED
    BY Zenon, <2>2, <2>3, LeasesLeave
<1>6. CASE CallFails(t)
  <2>1. CASE db' = db
    BY Zenon, <1>6, <2>1 DEF CallFails, slots, Leases
  <2>2. CASE op[t] = "open" /\ db' = [db EXCEPT ![wrk[t]] = TRUE]
    BY Zenon, <1>2, <1>6, <2>2 DEF CallFails, slots
  <2> QED
    BY Zenon, <1>6, <2>1, <2>2 DEF CallFails
<1>7. ASSUME NEW s \in Sessions, StartCall(t, s) PROVE Leases
  BY Zenon, <1>7 DEF StartCall, slots, os, Leases
<1> QED
  BY Zenon, <1>1, <1>3, <1>4, <1>5, <1>6, <1>7

\* The steps of a release.
LEMMA LeasesRelease ==
  ASSUME Core, Upkeep, NEW t \in Tasks,
         \/ BeginRelease(t) \/ CloseOk(t) \/ CloseFails(t) \/ ScheduleIdleReap(t)
         \/ \E s \in Sessions, k \in Releases : StartRelease(t, s, k)
  PROVE  Leases
<1>1. ASSUME NEW s \in Sessions, NEW k \in Releases, StartRelease(t, s, k) PROVE Leases
  BY Zenon, <1>1, LeasesLeave DEF StartRelease, TakeHandle, slots, os
<1>2. ASSUME pc[t] \in {"release", "closing"}
      PROVE  /\ wrk[t] \in Ids /\ state[wrk[t]] \in {"Dead", "Leased", "Closing"}
             /\ \A s \in Sessions : handle[s] # wrk[t]
             /\ pc[t] = "closing" => state[wrk[t]] # "Leased"
             /\ state[wrk[t]] # "Leased" => lessee[wrk[t]] = NoSession
  BY Zenon, <1>2, Enums, CoreParts, UpkeepParts DEF SoleRelease, Shapes, SpawnPCs, TaskTypes,
     Owned
<1>3. CASE BeginRelease(t)
  <2>1. PICK w \in Ids : w = wrk[t]
    BY Zenon, <1>2, <1>3 DEF BeginRelease
  <2>2. CASE state[w] = "Dead"
    BY Zenon, <1>3, <2>1, <2>2 DEF BeginRelease, os, Leases
  <2>3. CASE state[w] # "Dead"
    <3>1. /\ state' = [state EXCEPT ![w] = "Closing"] /\ lessee' = [lessee EXCEPT ![w] = NoSession]
          /\ UNCHANGED <<handle, db>> /\ pc[t] = "release"
      BY Zenon, <1>3, <2>1, <2>3 DEF BeginRelease, os
    <3>2. CASE state[w] = "Leased"
      <4>1. Lease!Close(w)
        BY Zenon, <1>2, <2>1, <3>1, <3>2 DEF Lease!Close
      <4> QED
        BY Zenon, <4>1 DEF Leases, Lease!Next
    <3>3. CASE state[w] = "Closing"
      <4>1. lessee[w] = NoSession
        BY Zenon, <1>2, <2>1, <3>1, <3>3
      <4> QED
        BY Zenon, <3>1, <3>3, <4>1, CoreParts DEF Leases, SlotTypes
    <3> QED
      BY Zenon, <1>2, <2>1, <2>3, <3>1, <3>2, <3>3
  <2> QED
    BY Zenon, <2>2, <2>3
<1>4. CASE CloseOk(t)
  <2>1. PICK w \in Ids : w = wrk[t] /\ state[w] \in {"Dead", "Closing"}
    BY Zenon, <1>2, <1>4 DEF CloseOk
  <2>2. /\ db' = [db EXCEPT ![w] = FALSE] /\ state' = [state EXCEPT ![w] = IdleUnlessDead(w)]
        /\ UNCHANGED <<lessee, handle>>
    BY Zenon, <1>4, <2>1 DEF CloseOk
  <2>3. CASE state[w] = "Closing"
    <3>1. Lease!Return(w)
      BY Zenon, <2>2, <2>3 DEF Lease!Return, IdleUnlessDead
    <3> QED
      BY Zenon, <3>1 DEF Leases, Lease!Next
  <2>4. CASE state[w] = "Dead"
    <3>1. state' = state
      BY Zenon, <2>2, <2>4, CoreParts DEF IdleUnlessDead, SlotTypes
    <3>2. Lease!Empty(w)
      BY Zenon, <2>2, <3>1 DEF Lease!Empty
    <3> QED
      BY Zenon, <3>2 DEF Leases, Lease!Next
  <2> QED
    BY Zenon, <2>1, <2>3, <2>4
<1>5. CASE CloseFails(t)
  <2>1. wrk[t] \in Ids
    BY Zenon, <1>2, <1>5 DEF CloseFails
  <2>2. CASE db' = db
    BY Zenon, <1>5, <2>2 DEF CloseFails, slots, Leases
  <2>3. CASE db' = [db EXCEPT ![wrk[t]] = FALSE]
    <3>1. Lease!Empty(wrk[t])
      BY Zenon, <1>5, <2>3 DEF CloseFails, slots, Lease!Empty
    <3> QED
      BY Zenon, <2>1, <3>1 DEF Leases, Lease!Next
  <2> QED
    BY Zenon, <1>5, <2>2, <2>3 DEF CloseFails
<1>6. CASE ScheduleIdleReap(t)
  BY Zenon, <1>6 DEF ScheduleIdleReap, os, Leases
<1> QED
  BY Zenon, <1>1, <1>3, <1>4, <1>5, <1>6

\* take_dead_worker: a slot is retired, or was.
LEMMA LeasesRetire ==
  ASSUME Core, Upkeep, NEW w \in Ids, state' = [state EXCEPT ![w] = "Dead"], UNCHANGED <<handle, db>>,
         lessee' = [lessee EXCEPT ![w] = NoSession]
  PROVE  Leases
<1>1. CASE state[w] = "Dead"
  <2>1. lessee[w] = NoSession
    BY Zenon, <1>1, UpkeepParts DEF Owned
  <2> QED
    BY Zenon, <1>1, <2>1, CoreParts DEF SlotTypes, Leases
<1>2. CASE state[w] # "Dead"
  <2>1. Lease!Retire(w)
    BY Zenon, <1>2 DEF Lease!Retire
  <2> QED
    BY Zenon, <2>1 DEF Leases, Lease!Next
<1> QED
  BY Zenon, <1>1, <1>2

\* The steps that retire a worker, and shutdown_all.
LEMMA LeasesDead ==
  ASSUME Core, Upkeep,
         \/ \E t \in Tasks : Take(t) \/ Forget(t) \/ Finish(t) \/ \E w \in Ids : ReapIdle(t, w)
         \/ ShutdownAll \/ \E w \in Ids : Shutdown(w) \/ Crash(w)
  PROVE  Leases
<1>1. ASSUME NEW t \in Tasks, pc[t] \in {"take", "finish"} PROVE wrk[t] \in Ids
  BY Zenon, <1>1, Enums, CoreParts DEF Shapes, SpawnPCs, TaskTypes
<1>2. ASSUME NEW t \in Tasks, Take(t) PROVE Leases
  BY Zenon, <1>1, <1>2, LeasesRetire DEF Take, os
<1>3. ASSUME NEW t \in Tasks, Forget(t) PROVE Leases
  BY Zenon, <1>3 DEF Forget, slots, os, Leases
<1>4. ASSUME NEW t \in Tasks, Finish(t) PROVE Leases
  BY Zenon, <1>1, <1>4, LeasesEmpty DEF Finish, slots
<1>5. ASSUME NEW t \in Tasks, NEW w \in Ids, ReapIdle(t, w) PROVE Leases
  <2>1. CASE UNCHANGED state
    BY Zenon, <1>5, <2>1 DEF ReapIdle, os, Leases
  <2>2. CASE state[w] = "Idle" /\ state' = [state EXCEPT ![w] = "Dead"]
    <3>1. lessee[w] = NoSession
      BY Zenon, <2>2, UpkeepParts DEF Owned
    <3>2. lessee' = [lessee EXCEPT ![w] = NoSession] /\ UNCHANGED <<handle, db>>
      BY Zenon, <1>5, <3>1, CoreParts DEF ReapIdle, os, SlotTypes
    <3> QED
      BY Zenon, <2>2, <3>2, LeasesRetire
  <2> QED
    BY Zenon, <1>5, <2>1, <2>2 DEF ReapIdle
<1>6. CASE ShutdownAll
  BY Zenon, <1>6 DEF ShutdownAll, slots, os, Leases
<1>7. ASSUME NEW w \in Ids, ShutdownTake(w) PROVE Leases
  BY Zenon, <1>7, LeasesRetire DEF ShutdownTake, os
<1>8. ASSUME NEW w \in Ids, ShutdownForget(w) PROVE Leases
  BY Zenon, <1>8 DEF ShutdownForget, slots, os, Leases
<1>9. ASSUME NEW w \in Ids, ShutdownFinish(w) \/ Crash(w) PROVE Leases
  BY Zenon, <1>9, LeasesEmpty DEF ShutdownFinish, Crash, slots
<1> QED
  BY Zenon, <1>2, <1>3, <1>4, <1>5, <1>6, <1>7, <1>8, <1>9 DEF Shutdown

\* An operation dropped half-way.
LEMMA LeasesDrop ==
  ASSUME Core, NEW t \in Tasks, Drop(t)
  PROVE  Leases
<1>1. ASSUME DropDead(t), UNCHANGED <<state, lessee, handle>>, pc[t] \notin SpawnPCs, pc[t] # "free" PROVE Leases
  <2>1. wrk[t] \in Ids
    BY Zenon, <1>1, Enums, CoreParts DEF Shapes, TaskTypes
  <2> QED
    BY Zenon, <1>1, <2>1, LeasesEmpty DEF DropDead, os, Leases
<1>2. CASE DropSpawn(t)
  <2>1. new[t] \in Ids
    BY Zenon, <1>2, Enums, CoreParts DEF DropSpawn, Shapes, SpawnPCs, TaskTypes
  <2> QED
    BY Zenon, <1>2, <2>1, LeasesEmpty DEF DropSpawn, slots, os, Leases
<1>3. CASE DropOpenWaiting(t)
  <2>1. ses[t] \in Sessions /\ handle[ses[t]] # NoWorker
    BY Zenon, <1>3, UserHasHandle DEF DropOpenWaiting, SpawnPCs
  <2> QED
    BY Zenon, <1>3, <2>1, LeasesLeave DEF DropOpenWaiting, TakeHandle, slots, os
<1>4. CASE DropGuarded(t)
  BY Zenon, <1>1, <1>4 DEF DropGuarded, slots, SpawnPCs
<1>5. CASE DropUnguarded(t)
  BY Zenon, <1>1, <1>5 DEF DropUnguarded, slots, SpawnPCs
<1>6. ASSUME NEW u \in Tasks, DropOpen(t, u) PROVE Leases
  <2>1. ses[t] \in Sessions /\ handle[ses[t]] = wrk[t] /\ wrk[t] # NoWorker
    BY Zenon, <1>6, UserHasHandle DEF DropOpen, SpawnPCs
  <2>2. db' = db \/ \E b \in BOOLEAN : db' = [db EXCEPT ![wrk[t]] = b]
    BY Zenon, <1>6 DEF DropOpen, DropDead, Exit, os
  <2> QED
    BY Zenon, <1>6, <2>1, <2>2, LeasesLeave DEF DropOpen, TakeHandle, slots
<1> QED
  BY Zenon, <1>2, <1>3, <1>4, <1>5, <1>6 DEF Drop

\* Every step of the pool is a step of Leasing, or one it does not see.
LEMMA LeasingNext == ASSUME Core, Upkeep, [Next]_vars PROVE [Lease!Next]_(Lease!vars)
<1>1. ASSUME NEW t \in Tasks, Step(t) PROVE Leases
  BY Zenon, <1>1, LeasesLease, LeasesCall, LeasesRelease, LeasesDead DEF Step
<1>2. ASSUME NEW t \in Tasks, Begin(t) PROVE Leases
  BY Zenon, <1>2, LeasesLease, LeasesCall, LeasesRelease, LeasesDead DEF Begin
<1>3. ASSUME NEW t \in Tasks, Drop(t) PROVE Leases
  BY Zenon, <1>3, LeasesDrop
<1>4. ASSUME UNCHANGED vars PROVE Leases
  <2>1. UNCHANGED <<state, lessee, handle, db>>
    BY Zenon, <1>4 DEF vars
  <2> QED
    BY Zenon, <2>1 DEF Leases
<1>5. ASSUME ShutdownAll \/ \E w \in Ids : Shutdown(w) \/ Crash(w) PROVE Leases
  BY Zenon, <1>5, LeasesDead
<1>6. Leases
  BY Zenon, <1>1, <1>2, <1>3, <1>4, <1>5 DEF Next
<1> QED
  BY Zenon, <1>6 DEF Leases, Lease!vars

\* The initial states of the pool map to initial states of Leasing.
LEMMA LeasingInit == Init => Lease!Init
  BY Zenon DEF Init, Lease!Init

\* The pool implements Leasing: every step of pool.rs is a step of the abstract
\* lease protocol or leaves slots, lessees, handles and databases alone.
THEOREM PoolImplementsLeasing == Spec => ImplementsLeasing
  <1>1. ASSUME IInv /\ Upkeep, [Next]_vars PROVE [Lease!Next]_(Lease!vars)
    BY Zenon, <1>1, LeasingNext DEF IInv
  <1> QED BY <1>1, LeasingInit, UpkeepInvariance, PTL DEF Spec, ImplementsLeasing, Lease!Spec

=============================================================================
