-------------------------- MODULE WorkerPoolSteps --------------------------
EXTENDS WorkerPoolInv, TLAPS

(* Core holds initially and is preserved by every step: the steps that lease,
   spawn, call and hand back an open (WorkerPool::lease, spawn_slot, call_tool
   and dispatch in pool.rs), the ones that release, retire and shut down
   workers (release, mark_dead, reap_idle, shutdown_all) and the futures
   dropped in the middle of any of them; first the facts about ids,
   reservations and processes the proofs rest on. *)

\* The pool starts in the invariant: no slot, no reservation, every task free.
LEMMA InitCore == Init => Core
  <1> SUFFICES ASSUME Init PROVE Core
    BY Zenon
  <1> USE PoolConfig, Names DEF Init
  <1>1. PoolTypes /\ SlotTypes /\ OsTypes /\ TaskTypes
    BY DEF PoolTypes, SlotTypes, OsTypes, TaskTypes, Ids, Workers, NoWorker, ChildStates,
           ProcStates, Ops, PCs
  <1>2. Shapes /\ FreshIds /\ Reservations /\ Listed
    BY Zenon DEF Shapes, FreshIds, Reservations, Listed, Ids, NoWorker, Releases, SpawnPCs
  <1>3. WarmInv /\ SoleUser /\ SoleRelease /\ RetiredIsDead /\ ExclusiveLease /\ DbInv
    BY Zenon DEF WarmInv, Free, SoleUser, SoleRelease, RetiredIsDead, ExclusiveLease, DbInv,
       SpawnPCs
  <1> QED BY Zenon, <1>1, <1>2, <1>3 DEF Core

\* The conjuncts of the invariant, cited so that the invariant itself stays
\* opaque.
LEMMA CoreParts ==
  ASSUME Core
  PROVE  /\ PoolTypes /\ SlotTypes /\ OsTypes /\ TaskTypes
         /\ Shapes /\ FreshIds /\ Reservations /\ Listed /\ WarmInv
         /\ SoleUser /\ SoleRelease /\ RetiredIsDead /\ ExclusiveLease /\ DbInv
  BY Zenon DEF Core

\* Membership facts about the enumerations, cited so that the sets stay opaque
\* to the provers.
LEMMA Enums ==
  /\ {"free", "serve", "install", "unreserve", "lock", "rpc", "release", "closing", "take",
      "forget", "finish", "unlist", "ensure", "clear", "schedule"} \subseteq PCs
  /\ {"none", "open", "call", "retire", "close", "discard", "giveback", "guard", "reap",
      "warm"} \subseteq Ops
  /\ {"Idle", "Leased", "Closing", "Dead"} \subseteq ChildStates
  /\ {"alive", "exited", "lost"} \subseteq ProcStates
  /\ Ids \subseteq Nat /\ Ids \subseteq Workers
  /\ NoWorker \in Workers /\ NoWorker \notin Ids
  /\ \A w \in Workers : w # NoWorker => w \in Ids
  /\ Releases \subseteq Ops
  BY PoolConfig DEF PCs, Ops, ChildStates, ProcStates, Workers, Ids, NoWorker, Releases

\* The id the next spawn takes is one of the ids, and so is the counter after
\* it.
LEMMA NewId == PoolTypes /\ next_id < MaxSpawns => next_id \in Ids /\ next_id + 1 \in 0 .. MaxSpawns
  BY PoolConfig DEF PoolTypes, Ids

\* The next id is nobody's yet.
LEMMA NextIsNew ==
  ASSUME Core, next_id \in Ids, next_id' = next_id + 1
  PROVE  /\ next_id < next_id' /\ \A w \in Ids : w < next_id => w < next_id'
         /\ state[next_id] = "None" /\ next_id \notin spawning
         /\ \A u \in Tasks : wrk[u] # next_id /\ new[u] # next_id
  <1> USE CoreParts
  <1>1. next_id \in Nat /\ ~(next_id < next_id) /\ next_id < next_id + 1
    BY Enums
  <1>2. \A w \in Ids : w < next_id => w < next_id + 1
    BY <1>1, Enums
  <1> QED BY Zenon, <1>1, <1>2, Enums DEF FreshIds, Reservations

\* A process never comes back and never gets a database by ending.
Decays ==
  /\ proc' \in [Ids -> ProcStates]
  /\ db' \in [Ids -> BOOLEAN]
  /\ \A w \in Ids : db'[w] => db[w]

\* A process that exits only moves forward in its life.
LEMMA ExitDecays == ASSUME OsTypes, NEW w \in Ids, Exit(w) PROVE Decays
  BY Zenon, Enums DEF OsTypes, Exit, Decays

\* Closing the service of a child only moves its process forward in its life.
LEMMA CloseServiceDecays == ASSUME OsTypes, NEW w \in Ids, CloseService(w) PROVE Decays
  <1>1. CASE Exit(w) BY Zenon, <1>1, ExitDecays
  <1>2. CASE proc' = [proc EXCEPT ![w] = "lost"] /\ db' = [db EXCEPT ![w] = FALSE]
    BY Zenon, <1>2, Enums DEF OsTypes, Decays
  <1> QED BY Zenon, <1>1, <1>2 DEF CloseService

\* What a reservation does, whether or not the process could be started.
LEMMA ReserveStarts ==
  ASSUME PoolTypes, OsTypes, NEW t \in Tasks, NEW k, NEW s, NEW w, Reserve(t, k, s, w)
  PROVE  /\ next_id \in Ids /\ next_id' = next_id + 1 /\ next_id' \in 0 .. MaxSpawns
         /\ spawning' = spawning \cup {next_id}
         /\ proc' \in [Ids -> ProcStates]
         /\ \E p \in {"serve", "unreserve"} : Become(t, p, k, s, w, next_id)
  <1>1. next_id \in Ids /\ next_id' = next_id + 1 /\ next_id' \in 0 .. MaxSpawns
    BY Zenon, NewId DEF Reserve
  <1>2. proc' \in [Ids -> ProcStates] BY Zenon, <1>1, Enums DEF Reserve, OsTypes
  <1> QED BY Zenon, <1>1, <1>2 DEF Reserve

\* Each conjunct of Core depends on a few variables only: a step that leaves
\* them alone preserves it.
LEMMA Frames ==
  ASSUME Core
  PROVE  /\ UNCHANGED <<inner, down, warm>> => PoolTypes'
         /\ UNCHANGED <<slots, call_lock, handle>> => SlotTypes'
         /\ UNCHANGED os => OsTypes'
         /\ UNCHANGED task => TaskTypes' /\ Shapes'
         /\ UNCHANGED <<state, spawning, next_id, wrk>> => FreshIds'
         /\ UNCHANGED <<state, spawning, wrk, new>> => Reservations'
         /\ UNCHANGED <<children, state, down>> => Listed'
         /\ UNCHANGED <<warm, pc, op, timers>> => WarmInv'
         /\ UNCHANGED <<op, ses, wrk, handle>> => SoleUser'
         /\ UNCHANGED <<pc, wrk, handle, state>> => SoleRelease'
         /\ UNCHANGED <<pc, wrk, new, state>> => RetiredIsDead'
         /\ UNCHANGED <<handle, state, lessee>> => ExclusiveLease'
         /\ UNCHANGED <<state, db>> => DbInv'
  <1>1. UNCHANGED <<inner, down, warm>> => PoolTypes' BY Zenon, CoreParts DEF PoolTypes, inner
  <1>2. UNCHANGED <<slots, call_lock, handle>> => SlotTypes'
    BY Zenon, CoreParts DEF SlotTypes, slots
  <1>3. UNCHANGED os => OsTypes' BY Zenon, CoreParts DEF OsTypes, os
  <1>4. UNCHANGED task => TaskTypes' /\ Shapes' BY Zenon, CoreParts DEF TaskTypes, Shapes, task
  <1>5. UNCHANGED <<state, spawning, next_id, wrk>> => FreshIds'
    BY Zenon, CoreParts DEF FreshIds
  <1>6. UNCHANGED <<state, spawning, wrk, new>> => Reservations'
    BY Zenon, CoreParts DEF Reservations
  <1>7. UNCHANGED <<children, state, down>> => Listed' BY Zenon, CoreParts DEF Listed
  <1>8. UNCHANGED <<warm, pc, op, timers>> => WarmInv' BY Zenon, CoreParts DEF WarmInv, Free
  <1>9. UNCHANGED <<op, ses, wrk, handle>> => SoleUser' BY Zenon, CoreParts DEF SoleUser
  <1>10. UNCHANGED <<pc, wrk, handle, state>> => SoleRelease' BY CoreParts DEF SoleRelease
  <1>11. UNCHANGED <<pc, wrk, new, state>> => RetiredIsDead'
    BY Zenon, CoreParts DEF RetiredIsDead
  <1>12. UNCHANGED <<handle, state, lessee>> => ExclusiveLease'
    BY Zenon, CoreParts DEF ExclusiveLease
  <1>13. UNCHANGED <<state, db>> => DbInv' BY Zenon, CoreParts DEF DbInv
  <1> QED
    BY Zenon, <1>1, <1>2, <1>3, <1>4, <1>5, <1>6, <1>7, <1>8, <1>9, <1>10, <1>11, <1>12, <1>13

\* A step that makes and ends no reservation, and moves no task to a worker that
\* is being spawned, preserves Reservations.
LEMMA KeepReservations ==
  ASSUME Core, spawning' = spawning, \A w \in spawning : state'[w] = state[w],
         \A u \in Tasks : new'[u] = new[u] /\ (wrk'[u] \in spawning => wrk'[u] \in {wrk[u], new[u]})
  PROVE  Reservations'
  BY CoreParts DEF Reservations

\* A task that was spawning nothing reserves an id nobody refers to.
LEMMA AddReservation ==
  ASSUME Core, NEW t \in Tasks, NEW n, n # NoWorker, n \notin spawning, state[n] = "None",
         \A u \in Tasks : new[u] # n /\ wrk[u] # n,
         new[t] = NoWorker, NoWorker \notin spawning,
         spawning' = spawning \cup {n}, state' = state, new'[t] = n,
         \A u \in Tasks : u # t => new'[u] = new[u],
         \A u \in Tasks : wrk'[u] \in {wrk[u], NoWorker}
  PROVE  Reservations'
  <1>1. (\A w \in spawning : state[w] = "None" /\ \E u \in Tasks : new[u] = w)'
    <2> SUFFICES ASSUME NEW w \in spawning' PROVE state'[w] = "None" /\ \E u \in Tasks : new'[u] = w
      BY Zenon
    <2>1. CASE w = n BY Zenon, <2>1
    <2>2. CASE w \in spawning
      <3>1. PICK u \in Tasks : new[u] = w BY Zenon, <2>2, CoreParts DEF Reservations
      <3>2. u # t BY Zenon, <2>2, <3>1
      <3> QED BY Zenon, <2>2, <3>1, <3>2, CoreParts DEF Reservations
    <2> QED BY Zenon, <2>1, <2>2
  <1>2. (\A u \in Tasks : new[u] # NoWorker => new[u] \in spawning)'
    BY Zenon, CoreParts DEF Reservations
  <1>3. (\A u, v \in Tasks : new[u] # NoWorker /\ new[u] = new[v] => u = v)'
    BY CoreParts DEF Reservations
  <1>4. (\A u \in Tasks : wrk[u] \in spawning => wrk[u] = new[u])'
    <2> SUFFICES ASSUME NEW u \in Tasks, wrk'[u] \in spawning' PROVE wrk'[u] = new'[u]
      BY Zenon
    <2>1. wrk'[u] = wrk[u] /\ wrk[u] \in spawning BY Zenon
    <2>2. wrk[u] = new[u] BY Zenon, <2>1, CoreParts DEF Reservations
    <2>3. u # t BY Zenon, <2>1, <2>2
    <2> QED BY Zenon, <2>1, <2>2, <2>3
  <1> QED BY Zenon, <1>1, <1>2, <1>3, <1>4 DEF Reservations

\* A step that starts nothing while warm_min runs preserves WarmInv.
LEMMA KeepWarmInv ==
  ASSUME Core, warm' = warm,
         warm > 0 => /\ timers' = timers
                     /\ \A u \in Tasks : Free(u) \/ op[u] = "warm" => pc'[u] = "free" \/ op'[u] = "warm",
         \A u \in Tasks : op'[u] = "warm" => op[u] = "warm"
  PROVE  WarmInv'
  BY Zenon, CoreParts DEF WarmInv, Free

\* A step that neither opens a database nor makes a worker idle preserves DbInv.
LEMMA KeepDbInv ==
  ASSUME Core,
         \A w \in Ids : state'[w] \in {"None", "Idle"} /\ db'[w] => state[w] \in {"None", "Idle"} /\ db[w]
  PROVE  DbInv'
  BY Zenon, CoreParts DEF DbInv

\* Shapes is preserved when every task either does not move or moves to a
\* program counter outside a spawn with an operation that fits it.
LEMMA KeepShapes ==
  ASSUME Core,
         \A v \in Tasks :
           \/ /\ pc'[v] = pc[v] /\ op'[v] = op[v] /\ ses'[v] = ses[v]
              /\ wrk'[v] = wrk[v] /\ new'[v] = new[v]
           \/ /\ pc'[v] \notin SpawnPCs \cup {"free", "lock", "rpc", "clear"}
              /\ op'[v] \in Ops \ {"open", "call", "warm"}
              /\ pc'[v] \in {"release", "closing", "schedule"} => op'[v] \in Releases
              /\ wrk'[v] # NoWorker /\ new'[v] = NoWorker
  PROVE  Shapes'
  BY Zenon, CoreParts DEF Shapes, SpawnPCs

\* RetiredIsDead is preserved when no slot comes back to life and every task
\* either does not move or leaves mark_dead and the spawn after it.
LEMMA KeepRetired ==
  ASSUME Core, \A w : state[w] = "Dead" => state'[w] = "Dead",
         \A v \in Tasks :
           \/ pc'[v] = pc[v] /\ wrk'[v] = wrk[v] /\ new'[v] = new[v]
           \/ pc'[v] \notin SpawnPCs \cup {"forget", "finish", "unlist", "ensure"}
  PROVE  RetiredIsDead'
  BY Zenon, CoreParts DEF RetiredIsDead

\* An open that failed gives back its lease: the handle goes, and the same task
\* is now the only one that releases the slot.
LEMMA GiveBack ==
  ASSUME Core, NEW t \in Tasks, op[t] = "open", wrk[t] # NoWorker,
         TakeHandle(ses[t]), Start(t, "release", "giveback", ses[t], wrk[t]),
         state' = state, lessee' = lessee
  PROVE  SoleUser' /\ SoleRelease' /\ ExclusiveLease' /\ handle' \in [Sessions -> Workers]
  <1>a. /\ ses[t] \in Sessions /\ handle[ses[t]] = wrk[t]
        /\ \A u \in Tasks : ses[u] = ses[t] => u = t
    BY Zenon, CoreParts DEF SoleUser, Shapes, TaskTypes
  <1>b. /\ pc'[t] = "release" /\ op'[t] = "giveback" /\ ses'[t] = ses[t] /\ wrk'[t] = wrk[t]
        /\ \A v \in Tasks : v # t => pc'[v] = pc[v] /\ op'[v] = op[v] /\ ses'[v] = ses[v] /\ wrk'[v] = wrk[v]
    BY Zenon, CoreParts DEF TaskTypes, Start, Become
  <1>c. /\ handle'[ses[t]] = NoWorker /\ \A s \in Sessions : s # ses[t] => handle'[s] = handle[s]
        /\ handle' \in [Sessions -> Workers]
    BY Zenon, <1>a, Enums, CoreParts DEF SlotTypes, TakeHandle
  <1>d. state[wrk[t]] \in {"Leased", "Dead"} /\ \A s \in Sessions : s # ses[t] => handle[s] # wrk[t]
    BY Zenon, <1>a, CoreParts DEF ExclusiveLease
  <1>e. \A s \in Sessions : handle'[s] # wrk[t] BY Zenon, <1>c, <1>d
  <1>f. \A v \in Tasks : pc[v] \in {"release", "closing"} => wrk[v] # wrk[t]
    BY Zenon, <1>a, CoreParts DEF SoleRelease
  <1>1. SoleUser'
    <2> SUFFICES ASSUME NEW v \in Tasks, op'[v] \in {"open", "call"}
                 PROVE  handle'[ses'[v]] = wrk'[v] /\ \A x \in Tasks : ses'[x] = ses'[v] => x = v
      BY Zenon DEF SoleUser
    <2>1. v # t /\ op[v] \in {"open", "call"} /\ ses'[v] = ses[v] /\ wrk'[v] = wrk[v]
      BY Zenon, <1>b
    <2>2. /\ handle[ses[v]] = wrk[v] /\ ses[v] \in Sessions
          /\ \A x \in Tasks : ses[x] = ses[v] => x = v
      BY Zenon, <2>1, CoreParts DEF SoleUser, Shapes, TaskTypes
    <2>3. ses[v] # ses[t] BY Zenon, <2>1, <2>2
    <2>4. \A x \in Tasks : ses'[x] = ses[x] BY Zenon, <1>b
    <2> QED BY Zenon, <2>1, <2>2, <2>3, <2>4, <1>c
  <1>2. SoleRelease'
    <2> SUFFICES ASSUME NEW v \in Tasks, pc'[v] \in {"release", "closing"}
                 PROVE  /\ \A s \in Sessions : handle'[s] # wrk'[v]
                        /\ \A x \in Tasks : pc'[x] \in {"release", "closing"} /\ wrk'[x] = wrk'[v] => x = v
                        /\ state'[wrk'[v]] \in {"Dead", "Leased", "Closing"}
                        /\ pc'[v] = "closing" => state'[wrk'[v]] # "Leased"
      BY Zenon DEF SoleRelease
    <2>1. CASE v = t
      <3>1. ASSUME NEW x \in Tasks, pc'[x] \in {"release", "closing"}, wrk'[x] = wrk[t] PROVE x = t
        BY Zenon, <3>1, <1>b, <1>f
      <3> QED BY Zenon, <2>1, <3>1, <1>b, <1>d, <1>e
    <2>2. CASE v # t
      <3>1. pc'[v] = pc[v] /\ wrk'[v] = wrk[v] /\ pc[v] \in {"release", "closing"}
        BY Zenon, <2>2, <1>b
      <3>2. /\ wrk[v] # wrk[t] /\ wrk[v] # NoWorker /\ \A s \in Sessions : handle[s] # wrk[v]
            /\ \A x \in Tasks : pc[x] \in {"release", "closing"} /\ wrk[x] = wrk[v] => x = v
            /\ state[wrk[v]] \in {"Dead", "Leased", "Closing"}
            /\ pc[v] = "closing" => state[wrk[v]] # "Leased"
        BY Zenon, <3>1, <1>f, CoreParts DEF SoleRelease, Shapes, SpawnPCs
      <3>3. ASSUME NEW x \in Tasks, pc'[x] \in {"release", "closing"}, wrk'[x] = wrk'[v] PROVE x = v
        <4>1. x # t BY Zenon, <3>1, <3>2, <3>3, <1>b
        <4> QED BY Zenon, <4>1, <3>1, <3>2, <3>3, <1>b
      <3>4. \A s \in Sessions : handle'[s] # wrk[v] BY Zenon, <3>2, <1>c
      <3> QED BY Zenon, <3>1, <3>2, <3>3, <3>4
    <2> QED BY Zenon, <2>1, <2>2
  <1>3. ExclusiveLease'
    <2>1. \A s \in Sessions : handle'[s] # NoWorker => s # ses[t] /\ handle'[s] = handle[s]
      BY Zenon, <1>c
    <2>2. state' = state /\ lessee' = lessee /\ ExclusiveLease
      BY Zenon, CoreParts
    <2>3. ASSUME NEW s \in Sessions, handle'[s] # NoWorker
          PROVE  /\ \/ state[handle'[s]] = "Leased" /\ lessee[handle'[s]] = s
                    \/ state[handle'[s]] = "Dead"
                 /\ \A r \in Sessions \ {s} : handle'[r] # handle'[s]
      <3>1. handle'[s] = handle[s] BY Zenon, <2>1, <2>3
      <3>2. /\ \/ state[handle[s]] = "Leased" /\ lessee[handle[s]] = s
               \/ state[handle[s]] = "Dead"
            /\ \A r \in Sessions \ {s} : handle[r] # handle[s]
        BY Zenon, <2>2, <2>3, <3>1 DEF ExclusiveLease
      <3>3. ASSUME NEW r \in Sessions \ {s} PROVE handle'[r] # handle'[s]
        <4>1. CASE handle'[r] = NoWorker BY Zenon, <4>1, <2>3
        <4>2. CASE handle'[r] # NoWorker BY Zenon, <4>2, <2>1, <3>1, <3>2, <3>3
        <4> QED BY Zenon, <4>1, <4>2
      <3> QED BY Zenon, <3>1, <3>2, <3>3
    <2> QED BY Zenon, <2>2, <2>3 DEF ExclusiveLease
  <1> QED BY Zenon, <1>1, <1>2, <1>3, <1>c

-----------------------------------------------------------------------------

\* WarmReserve preserves Core. One turn of warm_min's loop.
LEMMA CoreWarmReserve == ASSUME Core, NEW t \in Tasks, WarmReserve(t) PROVE Core'
  <1>0. PICK p \in {"serve", "unreserve"} : Become(t, p, "warm", NoSession, NoWorker, next_id)
    BY Zenon, ReserveStarts, CoreParts DEF WarmReserve
  <1>a. /\ next_id \in Ids /\ next_id' = next_id + 1 /\ next_id' \in 0 .. MaxSpawns
        /\ spawning' = spawning \cup {next_id} /\ proc' \in [Ids -> ProcStates]
    BY Zenon, ReserveStarts, CoreParts DEF WarmReserve
  <1>b. /\ next_id < next_id' /\ \A w \in Ids : w < next_id => w < next_id'
        /\ state[next_id] = "None" /\ next_id \notin spawning
        /\ \A u \in Tasks : wrk[u] # next_id /\ new[u] # next_id BY Zenon, <1>a, NextIsNew
  <1>c. new[t] = NoWorker BY Zenon, CoreParts DEF Shapes, Free, SpawnPCs, WarmReserve
  <1>d. /\ new'[t] = next_id /\ \A u \in Tasks : u # t => new'[u] = new[u]
        /\ \A u \in Tasks : wrk'[u] \in {wrk[u], NoWorker}
    BY Zenon, <1>0, CoreParts DEF TaskTypes, Become
  <1>1. PoolTypes' BY Zenon, <1>a, CoreParts DEF PoolTypes, WarmReserve
  <1>2. OsTypes' BY Zenon, <1>a, CoreParts DEF OsTypes, WarmReserve
  <1>3. TaskTypes' BY Zenon, Enums, <1>0, <1>a, CoreParts DEF TaskTypes, Become
  <1>4. Shapes' BY Zenon, Enums, <1>0, <1>a, CoreParts DEF TaskTypes, Shapes, SpawnPCs, Become
  <1>5. FreshIds'
    BY Zenon, PoolConfig, Enums, <1>0, <1>a, <1>b, CoreParts DEF PoolTypes, SlotTypes,
       TaskTypes, Shapes, FreshIds, SpawnPCs, Free, WarmReserve, Become, inner, slots, os
  <1>e. next_id # NoWorker /\ NoWorker \notin spawning /\ state' = state
    BY Zenon, <1>a, Enums, CoreParts DEF PoolTypes, WarmReserve, slots
  <1>6. Reservations' BY Zenon, <1>a, <1>b, <1>c, <1>d, <1>e, AddReservation
  <1>7. WarmInv'
    BY Zenon, <1>0, CoreParts DEF TaskTypes, Shapes, WarmInv, Free, WarmReserve, Become, slots
  <1>8. SoleUser'
    BY Zenon, <1>0, CoreParts DEF TaskTypes, Shapes, SoleUser, Free, WarmReserve, Become
  <1>9. SoleRelease' BY <1>0 DEF TaskTypes, SoleRelease, Free, WarmReserve, Become
  <1>10. RetiredIsDead'
    BY Zenon, <1>0, CoreParts DEF TaskTypes, RetiredIsDead, WarmReserve, Become, slots
  <1>11. (SlotTypes /\ Listed /\ ExclusiveLease /\ DbInv)'
    BY Zenon, Frames DEF WarmReserve, slots, inner, os, task
  <1> QED BY Zenon, <1>1, <1>2, <1>3, <1>4, <1>5, <1>6, <1>7, <1>8, <1>9, <1>10, <1>11 DEF Core

\* LeaseIdle preserves Core. lease: hand out an idle child.
LEMMA CoreLeaseIdle == ASSUME Core, NEW t \in Tasks, NEW s \in Sessions, LeaseIdle(t, s) PROVE Core'
  <1>0. PICK w \in children :
          /\ Leasable(w)
          /\ state' = [state EXCEPT ![w] = "Leased"]
          /\ lessee' = [lessee EXCEPT ![w] = s]
          /\ timers' = [timers EXCEPT ![w] = 0]
          /\ handle' = [handle EXCEPT ![s] = w]
          /\ Start(t, "lock", "open", s, w)
    BY Zenon, CoreParts DEF TaskTypes, LeaseIdle, MayOpen, Leasable, Quiet, Start, Become,
       inner, slots, os
  <1>a. w \in Ids BY Zenon, CoreParts DEF PoolTypes
  <1>1. SlotTypes' BY Zenon, Enums, <1>0, <1>a, CoreParts DEF SlotTypes, LeaseIdle
  <1>2. TaskTypes' BY Zenon, Enums, <1>0, <1>a, CoreParts DEF TaskTypes, Start, Become
  <1>3. Shapes'
    BY Enums, <1>0, <1>a, CoreParts DEF TaskTypes, Shapes, SpawnPCs, Free, LeaseIdle, MayOpen,
       Quiet, Start, Become
  <1>4. FreshIds'
    BY Zenon, <1>0, <1>a, CoreParts DEF TaskTypes, SlotTypes, FreshIds, LeaseIdle, Leasable, Start,
       Become, inner
  <1>5. Reservations'
    BY CoreParts DEF TaskTypes, SlotTypes, Shapes, Reservations, SpawnPCs, Free, LeaseIdle,
       MayOpen, Leasable, Start, Become, inner
  <1>6. Listed' BY CoreParts DEF SlotTypes, Listed, LeaseIdle, inner
  <1>7. WarmInv'
    BY CoreParts DEF TaskTypes, SlotTypes, WarmInv, Serving, LeaseIdle, MayOpen, Start, Become
  <1>8. SoleUser'
    BY CoreParts DEF SlotTypes, TaskTypes, SoleUser, LeaseIdle, MayOpen, Quiet, Start, Become
  <1>9. SoleRelease'
    BY CoreParts DEF TaskTypes, SlotTypes, SoleRelease, Free, LeaseIdle, MayOpen, Leasable,
       Start, Become
  <1>10. RetiredIsDead'
    BY CoreParts DEF TaskTypes, SlotTypes, RetiredIsDead, SpawnPCs, Free, LeaseIdle, MayOpen,
       Leasable, Start, Become
  <1>11. ExclusiveLease' BY <1>0, <1>a, CoreParts DEF SlotTypes, ExclusiveLease, Leasable
  <1>12. DbInv' BY Zenon, CoreParts DEF SlotTypes, DbInv, LeaseIdle, os
  <1>13. (PoolTypes /\ OsTypes)'
    BY Zenon, Frames DEF LeaseIdle, inner, os, slots, task
  <1> QED
    BY Zenon, <1>1, <1>2, <1>3, <1>4, <1>5, <1>6, <1>7, <1>8, <1>9, <1>10, <1>11, <1>12,
       <1>13 DEF Core

\* LeaseSpawn preserves Core. lease: no idle child and room for another one.
\* Dead slots are forgotten.
LEMMA CoreLeaseSpawn == ASSUME Core, NEW t \in Tasks, NEW s \in Sessions, LeaseSpawn(t, s) PROVE Core'
  <1>0. PICK p \in {"serve", "unreserve"} : Become(t, p, "open", s, NoWorker, next_id)
    BY Zenon, ReserveStarts, CoreParts DEF LeaseSpawn
  <1>a. /\ next_id \in Ids /\ next_id' = next_id + 1 /\ next_id' \in 0 .. MaxSpawns
        /\ spawning' = spawning \cup {next_id} /\ proc' \in [Ids -> ProcStates]
    BY Zenon, ReserveStarts, CoreParts DEF LeaseSpawn
  <1>b. /\ next_id < next_id' /\ \A w \in Ids : w < next_id => w < next_id'
        /\ state[next_id] = "None" /\ next_id \notin spawning
        /\ \A u \in Tasks : wrk[u] # next_id /\ new[u] # next_id BY Zenon, <1>a, NextIsNew
  <1>c. new[t] = NoWorker BY Zenon, CoreParts DEF Shapes, Free, SpawnPCs, MayOpen, LeaseSpawn
  <1>d. /\ new'[t] = next_id /\ \A u \in Tasks : u # t => new'[u] = new[u]
        /\ \A u \in Tasks : wrk'[u] \in {wrk[u], NoWorker}
    BY Zenon, <1>0, CoreParts DEF TaskTypes, Become
  <1>1. PoolTypes'
    BY Zenon, PoolConfig, Enums, <1>0, <1>a, <1>b, CoreParts DEF TaskTypes, PoolTypes,
       LeaseSpawn, MayOpen, Quiet, Live, Become, slots
  <1>2. OsTypes' BY Zenon, <1>a, CoreParts DEF OsTypes, LeaseSpawn
  <1>3. TaskTypes' BY Zenon, Enums, <1>0, <1>a, CoreParts DEF TaskTypes, Become
  <1>4. Shapes'
    BY <1>0, <1>b, CoreParts DEF TaskTypes, Shapes, SpawnPCs, Free, LeaseSpawn, MayOpen, Quiet,
       Become
  <1>5. FreshIds'
    BY Zenon, PoolConfig, Enums, <1>0, <1>a, <1>b, CoreParts DEF PoolTypes, SlotTypes,
       TaskTypes, Shapes, FreshIds, SpawnPCs, Free, LeaseSpawn, MayOpen, Quiet, Live, Become,
       inner, slots, os
  <1>e. next_id # NoWorker /\ NoWorker \notin spawning /\ state' = state
    BY Zenon, <1>a, Enums, CoreParts DEF PoolTypes, LeaseSpawn, slots
  <1>6. Reservations' BY Zenon, <1>a, <1>b, <1>c, <1>d, <1>e, AddReservation
  <1>7. Listed' BY Zenon, CoreParts DEF Listed, LeaseSpawn, Live, slots
  <1>8. WarmInv' BY <1>0, CoreParts DEF TaskTypes, WarmInv, Serving, LeaseSpawn, MayOpen, Become
  <1>9. SoleUser'
    BY Zenon, <1>0, CoreParts DEF TaskTypes, SoleUser, LeaseSpawn, MayOpen, Quiet, Become
  <1>10. SoleRelease'
    BY Zenon, <1>0, CoreParts DEF TaskTypes, SoleRelease, Free, LeaseSpawn, MayOpen, Become,
       slots
  <1>11. RetiredIsDead'
    BY Zenon, <1>0, CoreParts DEF TaskTypes, RetiredIsDead, LeaseSpawn, Become, slots
  <1>12. (SlotTypes /\ ExclusiveLease /\ DbInv)'
    BY Zenon, Frames DEF LeaseSpawn, slots, inner, os, task
  <1> QED BY Zenon, <1>1, <1>2, <1>3, <1>4, <1>5, <1>6, <1>7, <1>8, <1>9, <1>10, <1>11,
             <1>12 DEF Core

\* LeaseExhausted preserves Core. lease: PoolExhausted.
LEMMA CoreLeaseExhausted == ASSUME Core, NEW t \in Tasks, NEW s \in Sessions, LeaseExhausted(t, s) PROVE Core'
  <1>1. PoolTypes'
    BY Zenon, PoolConfig, Enums, CoreParts DEF PoolTypes, LeaseExhausted, Live, task, inner,
       slots, os
  <1>2. Listed' BY Zenon, CoreParts DEF Listed, LeaseExhausted, Live, slots
  <1>3. (/\ SlotTypes /\ OsTypes /\ TaskTypes /\ Shapes /\ FreshIds /\ Reservations
         /\ WarmInv /\ SoleUser /\ SoleRelease /\ RetiredIsDead /\ ExclusiveLease /\ DbInv)'
    BY Zenon, Frames DEF LeaseExhausted, task, slots, os, inner
  <1> QED BY Zenon, <1>1, <1>2, <1>3 DEF Core

\* Served preserves Core. spawn_slot returned: the handshake with the child
\* succeeded, or it failed and dropping the transport killed the child.
LEMMA CoreServed == ASSUME Core, NEW t \in Tasks, Served(t) PROVE Core'
  <1>0. Decays
    BY Zenon, Enums, ExitDecays, CloseServiceDecays, CoreParts DEF OsTypes, TaskTypes, Shapes,
       SpawnPCs, Decays, DropDead, Releases, Served, Goto, inner, slots, os
  <1>1. OsTypes' BY Zenon, <1>0 DEF OsTypes, Decays
  <1>2. TaskTypes' BY Zenon, Enums, CoreParts DEF TaskTypes, Served, Goto
  <1>3. Shapes' BY CoreParts DEF TaskTypes, Shapes, SpawnPCs, Served, Goto
  <1>4. WarmInv' BY ZenonT(30), CoreParts DEF TaskTypes, WarmInv, Free, Served, Goto, slots
  <1>5. SoleRelease' BY CoreParts DEF TaskTypes, SoleRelease, Served, Goto, slots
  <1>6. RetiredIsDead'
    BY Zenon, CoreParts DEF TaskTypes, RetiredIsDead, SpawnPCs, Served, Goto, slots
  <1>7. DbInv' BY Zenon, <1>0, CoreParts DEF DbInv, Served, slots, Decays
  <1>8. (/\ PoolTypes /\ SlotTypes /\ FreshIds
         /\ Reservations /\ Listed /\ SoleUser /\ ExclusiveLease)'
    BY Zenon, Frames DEF Served, Goto, inner, slots, os, task
  <1> QED BY Zenon, <1>1, <1>2, <1>3, <1>4, <1>5, <1>6, <1>7, <1>8 DEF Core

\* Install preserves Core. finish_spawn_reservation(Some(slot)); a lease also
\* stores its handle.
LEMMA CoreInstall == ASSUME Core, NEW t \in Tasks, Install(t) PROVE Core'
  <1>0. new[t] \in Ids /\ new[t] \in spawning /\ new[t] < next_id /\ state[new[t]] = "None"
    BY Zenon, Enums, CoreParts DEF SlotTypes, Install, TaskTypes, Shapes, FreshIds,
       Reservations, SpawnPCs, inner, slots, os
  <1>1. CASE /\ ForLease(t)
             /\ state' = [state EXCEPT ![new[t]] = "Leased"]
             /\ lessee' = [lessee EXCEPT ![new[t]] = ses[t]]
             /\ handle' = [handle EXCEPT ![ses[t]] = new[t]]
             /\ Start(t, "lock", "open", ses[t], new[t])
             /\ UNCHANGED warm
    <2>1. PoolTypes'
      BY Zenon, <1>0, <1>1, CoreParts DEF TaskTypes, PoolTypes, Install, Start, Become
    <2>2. SlotTypes'
      BY Zenon, Enums, <1>0, <1>1, CoreParts DEF SlotTypes, TaskTypes, inner, slots, os,
         Install, ForLease, Start, Become
    <2>3. TaskTypes' BY Zenon, Enums, <1>1, CoreParts DEF TaskTypes, Start, Become
    <2>4. Shapes'
      BY Zenon, <1>1, CoreParts DEF TaskTypes, Shapes, SpawnPCs, ForLease, Start, Become
    <2>5. FreshIds'
      BY Zenon, <1>0, <1>1, CoreParts DEF TaskTypes, SlotTypes, FreshIds, Install, Start, Become
    <2>6. Reservations'
      BY <1>1, CoreParts DEF SlotTypes, TaskTypes, Reservations, Install, Start, Become
    <2>l. /\ children' = children \cup {new[t]} /\ down' = down /\ children \subseteq Ids
          /\ state'[new[t]] # "None" /\ \A w \in Ids : state[w] # "None" => state'[w] # "None"
      BY Zenon, <1>0, <1>1, CoreParts DEF PoolTypes, SlotTypes, Install
    <2>7. Listed' BY Zenon, <2>l, CoreParts DEF Listed
    <2>8. WarmInv'
      BY Zenon, <1>1, CoreParts DEF TaskTypes, SlotTypes, WarmInv, Free, Install, ForLease,
         Start, Become
    <2>9. SoleUser'
      BY <1>1, CoreParts DEF SlotTypes, TaskTypes, Shapes, SoleUser, ForLease, Start, Become
    <2>10. SoleRelease'
      BY <1>0, <1>1, CoreParts DEF TaskTypes, SlotTypes, SoleRelease, Install, Start, Become
    <2>11. RetiredIsDead'
      BY <1>0, <1>1, CoreParts DEF TaskTypes, RetiredIsDead, SpawnPCs, Start, Become
    <2>12. ExclusiveLease' BY <1>0, <1>1, CoreParts DEF SlotTypes, ExclusiveLease
    <2>13. DbInv' BY Zenon, <1>1, CoreParts DEF SlotTypes, DbInv, os, Install
    <2>14. (OsTypes)'
      BY Zenon, Frames DEF os, Install, inner, slots, task
    <2> QED
      BY Zenon, <2>1, <2>2, <2>3, <2>4, <2>5, <2>6, <2>7, <2>8, <2>9, <2>10, <2>11, <2>12,
         <2>13, <2>14
         DEF Core
  <1>2. CASE /\ op[t] = "warm"
             /\ state' = [state EXCEPT ![new[t]] = "Idle"]
             /\ Done(t)
             /\ warm' = warm - 1
             /\ UNCHANGED <<lessee, handle>>
    <2>0. warm > 0 BY Zenon, <1>2, CoreParts DEF WarmInv
    <2>1. PoolTypes' BY <2>0, PoolConfig, <1>0, CoreParts DEF PoolTypes, Install
    <2>2. SlotTypes' BY Zenon, Enums, <1>0, <1>2, CoreParts DEF SlotTypes, Install
    <2>3. TaskTypes' BY Zenon, Enums, <1>2, CoreParts DEF TaskTypes, Done, Become
    <2>4. Shapes' BY Zenon, <1>2, CoreParts DEF TaskTypes, Shapes, SpawnPCs, Done, Become
    <2>5. FreshIds'
      BY Zenon, <1>0, <1>2, CoreParts DEF TaskTypes, SlotTypes, FreshIds, Install, Done, Become
    <2>6. Reservations'
      BY <1>2, CoreParts DEF SlotTypes, TaskTypes, Reservations, Install, Done, Become
    <2>l. /\ children' = children \cup {new[t]} /\ down' = down /\ children \subseteq Ids
          /\ state'[new[t]] # "None" /\ \A w \in Ids : state[w] # "None" => state'[w] # "None"
      BY Zenon, <1>0, <1>2, CoreParts DEF PoolTypes, SlotTypes, Install
    <2>7. Listed' BY Zenon, <2>l, CoreParts DEF Listed
    <2>8. WarmInv'
      BY ZenonT(30), <1>2, CoreParts DEF SlotTypes, TaskTypes, WarmInv, Free, Install, Done, Become
    <2>9. SoleUser' BY Zenon, <1>2, CoreParts DEF TaskTypes, Shapes, SoleUser, Done, Become
    <2>10. SoleRelease'
      BY <1>0, <1>2, CoreParts DEF TaskTypes, SlotTypes, SoleRelease, Install, Done, Become
    <2>11. RetiredIsDead'
      BY <1>0, <1>2, CoreParts DEF TaskTypes, Shapes, RetiredIsDead, Done, Become
    <2>12. ExclusiveLease' BY <1>0, <1>2, CoreParts DEF ExclusiveLease
    <2>13. DbInv' BY Zenon, <1>0, <1>2, CoreParts DEF SlotTypes, DbInv, os, Install
    <2>14. (OsTypes)'
      BY Frames DEF os, Install, inner, slots, task
    <2> QED
      BY <2>1, <2>2, <2>3, <2>4, <2>5, <2>6, <2>7, <2>8, <2>9, <2>10, <2>11, <2>12, <2>13, <2>14
         DEF Core
  <1>3. CASE /\ ~ForLease(t) /\ op[t] # "warm"
             /\ state' = [state EXCEPT ![new[t]] = "Idle"]
             /\ Start(t, "ensure", op[t], ses[t], wrk[t])
             /\ UNCHANGED <<lessee, handle, warm>>
    <2>1. PoolTypes'
      BY Zenon, <1>0, <1>3, CoreParts DEF TaskTypes, PoolTypes, Install, Start, Become
    <2>2. SlotTypes' BY Zenon, Enums, <1>0, <1>3, CoreParts DEF SlotTypes, Install
    <2>3. TaskTypes' BY Zenon, Enums, <1>3, CoreParts DEF TaskTypes, Start, Become
    <2>4. Shapes' BY Zenon, <1>3, CoreParts DEF TaskTypes, Shapes, SpawnPCs, Install, ForLease,
                     Start, Become
    <2>5. FreshIds'
      BY Zenon, <1>0, <1>3, CoreParts DEF TaskTypes, SlotTypes, FreshIds, Install, Start, Become
    <2>6. Reservations'
      BY <1>3, CoreParts DEF SlotTypes, TaskTypes, Reservations, Install, Start, Become
    <2>l. /\ children' = children \cup {new[t]} /\ down' = down /\ children \subseteq Ids
          /\ state'[new[t]] # "None" /\ \A w \in Ids : state[w] # "None" => state'[w] # "None"
      BY Zenon, <1>0, <1>3, CoreParts DEF PoolTypes, SlotTypes, Install
    <2>7. Listed' BY Zenon, <2>l, CoreParts DEF Listed
    <2>w. /\ warm' = warm /\ (warm > 0 => timers' = timers)
          /\ \A u \in Tasks : /\ op'[u] = "warm" => op[u] = "warm"
                              /\ warm > 0 /\ Free(u) => pc'[u] = "free"
                              /\ warm > 0 /\ op[u] = "warm" => pc'[u] = "free" \/ op'[u] = "warm"
      BY Zenon, <1>3, CoreParts DEF TaskTypes, Shapes, Free, Install, Start, Become
    <2>8. WarmInv' BY Zenon, <2>w, KeepWarmInv
    <2>9. SoleUser' BY Zenon, <1>3, CoreParts DEF TaskTypes, SoleUser, Start, Become
    <2>10. SoleRelease' BY <1>0, <1>3, CoreParts DEF TaskTypes, SoleRelease, Start, Become
    <2>11. RetiredIsDead'
      BY Enums, <1>0, <1>3, CoreParts DEF TaskTypes, SlotTypes, Shapes, RetiredIsDead, Install,
         ForLease, Start, Become
    <2>e. \A s \in Sessions : handle[s] # NoWorker => handle[s] \in Ids /\ state'[handle[s]] = state[handle[s]]
      BY Zenon, Enums, <1>0, <1>3, CoreParts DEF SlotTypes, ExclusiveLease
    <2>12. ExclusiveLease' BY Zenon, <2>e, <1>3, CoreParts DEF ExclusiveLease
    <2>d. \A w \in Ids : state'[w] \in {"None", "Idle"} /\ db'[w] => state[w] \in {"None", "Idle"} /\ db[w]
      BY Zenon, <1>0, <1>3, CoreParts DEF SlotTypes, os, Install
    <2>13. DbInv' BY Zenon, <2>d, KeepDbInv
    <2>14. (OsTypes)'
      BY Frames DEF os, Install, inner, slots, task
    <2> QED
      BY <2>1, <2>2, <2>3, <2>4, <2>5, <2>6, <2>7, <2>8, <2>9, <2>10, <2>11, <2>12, <2>13, <2>14
         DEF Core
  <1> QED BY Zenon, <1>1, <1>2, <1>3 DEF Install

\* Unreserve preserves Core. finish_spawn_reservation(None): the spawn failed
\* or its future was dropped.
LEMMA CoreUnreserve == ASSUME Core, NEW t \in Tasks, Unreserve(t) PROVE Core'
  <1>1. PoolTypes' BY PoolConfig, CoreParts DEF PoolTypes, Unreserve, Resume, UnlockCall
  <1>2. SlotTypes'
    <2>1. handle' \in [Sessions -> Workers]
      BY Zenon, Enums, CoreParts DEF SlotTypes, Unreserve, Resume, GiveUp, TakeHandle
    <2>2. call_lock' \in [Ids -> Tasks \cup {NoTask}]
      BY Zenon, CoreParts DEF SlotTypes, Unreserve, Resume, UnlockCall
    <2> QED BY Zenon, <2>1, <2>2, CoreParts DEF SlotTypes, Unreserve, slots
  <1>3. TaskTypes'
    BY Enums, CoreParts DEF TaskTypes, Unreserve, Start, Done, Become, Resume, GiveUp
  <1>4. Shapes'
    BY CoreParts DEF TaskTypes, Shapes, Releases, SpawnPCs, Unreserve, Start, Done, Become,
       Resume, GiveUp
  <1>5. FreshIds'
    BY Zenon, CoreParts DEF TaskTypes, FreshIds, Unreserve, Start, Done, Become, Resume,
       GiveUp, slots
  <1>n. /\ new'[t] = NoWorker /\ wrk'[t] \in {wrk[t], NoWorker}
        /\ \A u \in Tasks : u # t => new'[u] = new[u] /\ wrk'[u] = wrk[u]
    BY Zenon, CoreParts DEF TaskTypes, Unreserve, Start, Done, Become, Resume, GiveUp
  <1>m. new[t] # NoWorker /\ new[t] \in spawning /\ NoWorker \notin spawning
    BY Zenon, Enums, CoreParts DEF PoolTypes, Shapes, SpawnPCs, Reservations, Unreserve
  <1>6. Reservations'
    <2> SUFFICES spawning' = spawning \ {new[t]} /\ state' = state => Reservations'
      BY Zenon DEF Unreserve, slots
    <2> QED BY <1>n, <1>m, CoreParts DEF Reservations
  <1>w. /\ warm' > 0 => warm > 0 /\ warm' = warm
        /\ timers' = timers
        /\ \A u \in Tasks : u # t => op'[u] = op[u] /\ pc'[u] = pc[u]
        /\ op'[t] # "warm" /\ (pc'[t] = "free" \/ op[t] # "warm")
    BY CoreParts DEF TaskTypes, Shapes, Unreserve, Start, Done, Become, Resume, GiveUp, slots
  <1>x. \A u \in Tasks : op[u] = "warm" /\ u # t => warm' > 0
    BY Zenon, <1>w, CoreParts DEF WarmInv, Unreserve
  <1>y. warm' > 0 => pc'[t] = "free"
    BY Zenon, <1>w, CoreParts DEF WarmInv, Free, Unreserve
  <1>7. WarmInv' BY Zenon, <1>w, <1>x, <1>y, CoreParts DEF WarmInv, Free
  <1>8. SoleUser'
    BY CoreParts DEF SlotTypes, TaskTypes, Shapes, SoleUser, Unreserve, Start, Done, Become,
       Resume, GiveUp, TakeHandle
  <1>9. SoleRelease'
    BY CoreParts DEF SlotTypes, TaskTypes, Shapes, SoleUser, SoleRelease, ExclusiveLease,
       SpawnPCs, Unreserve, Start, Done, Become, Resume, GiveUp, TakeHandle, slots
  <1>10. RetiredIsDead'
    BY CoreParts DEF TaskTypes, RetiredIsDead, SpawnPCs, Unreserve, Start, Done, Become,
       Resume, GiveUp, slots
  <1>11. ExclusiveLease'
    BY Zenon, CoreParts DEF SlotTypes, ExclusiveLease, Unreserve, Resume, GiveUp, TakeHandle,
       slots
  <1>12. (OsTypes /\ Listed /\ DbInv)'
    BY Zenon, Frames DEF Unreserve, slots, os, inner, task
  <1> QED BY Zenon, <1>1, <1>2, <1>3, <1>4, <1>5, <1>6, <1>7, <1>8, <1>9, <1>10, <1>11,
             <1>12 DEF Core

\* StartCall preserves Core. dispatch: required_handle, then call_tool waits
\* for the slot's call_lock.
LEMMA CoreStartCall == ASSUME Core, NEW t \in Tasks, NEW s \in Sessions, StartCall(t, s) PROVE Core'
  <1>0. handle[s] \in Ids /\ state[handle[s]] # "None"
    BY Zenon, Enums, CoreParts DEF TaskTypes, SlotTypes, ExclusiveLease, StartCall, Quiet,
       Start, Become, inner, slots, os
  <1>a. \A u \in Tasks : wrk'[u] = IF u = t THEN handle[s] ELSE wrk[u]
    BY Zenon, CoreParts DEF TaskTypes, StartCall, Start, Become
  <1>b. handle[s] \notin spawning /\ new[t] = NoWorker
    BY Zenon, <1>0, CoreParts DEF Reservations, Shapes, Free, SpawnPCs, StartCall
  <1>c. \A u \in Tasks : new'[u] = new[u] BY <1>b DEF TaskTypes, StartCall, Start, Become
  <1>1. TaskTypes' BY Zenon, Enums, CoreParts DEF SlotTypes, TaskTypes, StartCall, Start, Become
  <1>2. Shapes'
    BY Zenon, CoreParts DEF TaskTypes, Shapes, SpawnPCs, Free, StartCall, Quiet, Start, Become
  <1>3. FreshIds' BY Zenon, <1>a, <1>0, CoreParts DEF FreshIds, StartCall, inner, slots
  <1>d. spawning' = spawning /\ state' = state /\ \A u \in Tasks : wrk'[u] \in spawning => wrk'[u] = wrk[u]
    BY Zenon, <1>a, <1>b DEF StartCall, inner, slots
  <1>4. Reservations' BY Zenon, <1>c, <1>d, KeepReservations
  <1>e. ~(warm > 0) BY DEF StartCall, Serving
  <1>f. warm' = warm /\ \A u \in Tasks : op'[u] = "warm" => op[u] = "warm"
    BY Zenon, CoreParts DEF TaskTypes, StartCall, Start, Become
  <1>5. WarmInv' BY Zenon, <1>e, <1>f, KeepWarmInv
  <1>6. SoleUser' BY Zenon, CoreParts DEF TaskTypes, SoleUser, StartCall, Quiet, Start, Become
  <1>7. SoleRelease'
    BY Zenon, CoreParts DEF TaskTypes, SoleRelease, Free, StartCall, Start, Become, slots
  <1>8. RetiredIsDead'
    BY Zenon, CoreParts DEF TaskTypes, RetiredIsDead, SpawnPCs, Free, StartCall, Start, Become,
       slots
  <1>9. (PoolTypes /\ SlotTypes /\ OsTypes /\ Listed /\ ExclusiveLease /\ DbInv)'
    BY Zenon, Frames DEF StartCall, inner, slots, os, task
  <1> QED BY Zenon, <1>1, <1>2, <1>3, <1>4, <1>5, <1>6, <1>7, <1>8, <1>9 DEF Core

\* SendCall preserves Core. call_lock acquired: the request is sent only while
\* the slot is leased to the caller's session; WorkerCrashed or RemoteProtocol
\* otherwise.
LEMMA CoreSendCall == ASSUME Core, NEW t \in Tasks, SendCall(t) PROVE Core'
  <1>1. SlotTypes'
    <2>1. handle' \in [Sessions -> Workers]
      BY Zenon, Enums, CoreParts DEF SlotTypes, SendCall, GiveUp, TakeHandle
    <2>2. call_lock' \in [Ids -> Tasks \cup {NoTask}]
      BY Zenon, CoreParts DEF SlotTypes, SendCall, LockCall
    <2> QED BY Zenon, <2>1, <2>2, CoreParts DEF SlotTypes, SendCall, slots
  <1>2. TaskTypes' BY Enums, CoreParts DEF TaskTypes, SendCall, GiveUp, Start, Goto, Become
  <1>3. Shapes'
    BY CoreParts DEF TaskTypes, Shapes, Releases, SpawnPCs, SendCall, GiveUp, Start, Goto,
       Become
  <1>4. FreshIds'
    BY Zenon, CoreParts DEF TaskTypes, FreshIds, SendCall, GiveUp, Start, Goto, Become, inner,
       slots
  <1>q. new[t] = NoWorker
    <2>1. pc[t] \notin SpawnPCs BY Zenon DEF SendCall, SpawnPCs
    <2> QED BY Zenon, <2>1, CoreParts DEF Shapes
  <1>r. /\ spawning' = spawning /\ state' = state
        /\ \A u \in Tasks : new'[u] = new[u] /\ wrk'[u] \in {wrk[u], NoWorker}
    <2>1. spawning' = spawning /\ state' = state BY Zenon DEF SendCall, inner, slots
    <2>2. Goto(t, "rpc") \/ \E p, k : Start(t, p, k, ses[t], wrk[t])
      BY Zenon DEF SendCall, GiveUp
    <2>3. CASE Goto(t, "rpc") BY Zenon, <2>1, <2>3 DEF Goto
    <2>4. CASE \E p, k : Start(t, p, k, ses[t], wrk[t])
      BY Zenon, <1>q, <2>1, <2>4, CoreParts DEF TaskTypes, Start, Become
    <2> QED BY Zenon, <2>2, <2>3, <2>4
  <1>s. NoWorker \notin spawning BY Zenon, Enums, CoreParts DEF PoolTypes
  <1>5. Reservations' BY Zenon, <1>r, <1>s, KeepReservations
  <1>w. /\ warm' = warm /\ timers' = timers /\ pc[t] # "free" /\ op[t] # "warm" /\ op'[t] # "warm"
        /\ \A u \in Tasks : u # t => op'[u] = op[u] /\ pc'[u] = pc[u]
    BY Zenon, CoreParts DEF TaskTypes, Shapes, SpawnPCs, SendCall, GiveUp, Start, Goto, Become,
       slots
  <1>6. WarmInv' BY Zenon, <1>w, KeepWarmInv DEF Free
  <1>7. SoleUser'
    BY CoreParts DEF SlotTypes, TaskTypes, Shapes, SoleUser, SendCall, GiveUp, Start, Goto,
       Become, TakeHandle
  <1>8. SoleRelease'
    BY CoreParts DEF SlotTypes, TaskTypes, Shapes, SoleUser, SoleRelease, ExclusiveLease,
       SpawnPCs, SendCall, GiveUp, Start, Goto, Become, TakeHandle, slots
  <1>u. /\ state' = state /\ pc'[t] \notin SpawnPCs \cup {"forget", "finish", "unlist", "ensure"}
        /\ \A u \in Tasks : u # t => pc'[u] = pc[u] /\ wrk'[u] = wrk[u] /\ new'[u] = new[u]
    BY Zenon, CoreParts DEF TaskTypes, SpawnPCs, SendCall, GiveUp, Start, Goto, Become, slots
  <1>9. RetiredIsDead' BY Zenon, <1>u, KeepRetired
  <1>10. ExclusiveLease'
    BY Zenon, CoreParts DEF SlotTypes, ExclusiveLease, SendCall, GiveUp, TakeHandle, slots
  <1>11. (PoolTypes /\ OsTypes /\ Listed /\ DbInv)'
    BY Zenon, Frames DEF SendCall, inner, slots, os, task
  <1> QED BY Zenon, <1>1, <1>2, <1>3, <1>4, <1>5, <1>6, <1>7, <1>8, <1>9, <1>10, <1>11 DEF Core

\* CallOk preserves Core. The child answered. open_idb leaves a database open.
LEMMA CoreCallOk == ASSUME Core, NEW t \in Tasks, CallOk(t) PROVE Core'
  <1>1. SlotTypes' BY Zenon, CoreParts DEF SlotTypes, CallOk, UnlockCall, slots
  <1>2. OsTypes'
    BY Zenon, Enums, CoreParts DEF TaskTypes, OsTypes, CallOk, UnlockCall, Done, Become, inner,
       slots, os
  <1>3. TaskTypes' BY Zenon, Enums, CoreParts DEF TaskTypes, CallOk, Done, Become
  <1>4. Shapes' BY Zenon, CoreParts DEF TaskTypes, Shapes, SpawnPCs, CallOk, Done, Become
  <1>5. FreshIds'
    BY Zenon, CoreParts DEF TaskTypes, FreshIds, CallOk, Done, Become, inner, slots
  <1>r. /\ spawning' = spawning /\ state' = state
        /\ \A u \in Tasks : new'[u] = new[u] /\ wrk'[u] \in {wrk[u], NoWorker}
    BY Zenon, CoreParts DEF TaskTypes, Shapes, SpawnPCs, CallOk, Done, Become, inner, slots
  <1>s. NoWorker \notin spawning BY Enums, CoreParts DEF PoolTypes
  <1>6. Reservations' BY Zenon, <1>r, <1>s, KeepReservations
  <1>w. /\ warm' = warm /\ timers' = timers /\ pc[t] # "free" /\ op[t] # "warm" /\ op'[t] # "warm"
        /\ \A u \in Tasks : u # t => op'[u] = op[u] /\ pc'[u] = pc[u]
    BY Zenon, CoreParts DEF TaskTypes, Shapes, SpawnPCs, CallOk, Done, Become, slots
  <1>7. WarmInv' BY Zenon, <1>w, KeepWarmInv DEF Free
  <1>8. SoleUser' BY ZenonT(30), CoreParts DEF TaskTypes, Shapes, SoleUser, CallOk, Done, Become
  <1>9. SoleRelease' BY Zenon, CoreParts DEF TaskTypes, SoleRelease, CallOk, Done, Become, slots
  <1>u. /\ state' = state /\ pc'[t] \notin SpawnPCs \cup {"forget", "finish", "unlist", "ensure"}
        /\ \A u \in Tasks : u # t => pc'[u] = pc[u] /\ wrk'[u] = wrk[u] /\ new'[u] = new[u]
    BY Zenon, CoreParts DEF TaskTypes, SpawnPCs, CallOk, Done, Become, slots
  <1>10. RetiredIsDead' BY Zenon, <1>u, KeepRetired
  <1>c. op[t] = "open" => ses[t] \in Sessions /\ handle[ses[t]] = wrk[t] /\ wrk[t] # NoWorker
    BY Zenon, CoreParts DEF TaskTypes, Shapes, SpawnPCs, SoleUser, CallOk
  <1>d. state' = state /\ (op[t] = "open" => state[wrk[t]] \in {"Leased", "Dead"})
    BY Zenon, <1>c, CoreParts DEF ExclusiveLease, CallOk, slots
  <1>e. \A w \in Ids : w # wrk[t] \/ op[t] # "open" => (db'[w] => db[w])
    BY Zenon, CoreParts DEF OsTypes, CallOk
  <1>11. DbInv' BY Zenon, <1>d, <1>e, KeepDbInv
  <1>12. (PoolTypes /\ Listed /\ ExclusiveLease)'
    BY Zenon, Frames DEF CallOk, inner, slots, os, task
  <1> QED BY Zenon, <1>1, <1>2, <1>3, <1>4, <1>5, <1>6, <1>7, <1>8, <1>9, <1>10, <1>11,
             <1>12 DEF Core

\* OpenError preserves Core. The child answered open_idb with an error. A
\* timed-out open may still have opened the database.
LEMMA CoreOpenError == ASSUME Core, NEW t \in Tasks, OpenError(t) PROVE Core'
  <1>c. ses[t] \in Sessions /\ handle[ses[t]] = wrk[t] /\ wrk[t] # NoWorker
    BY Zenon, CoreParts DEF TaskTypes, Shapes, SpawnPCs, SoleUser, OpenError
  <1>g. SoleUser' /\ SoleRelease' /\ ExclusiveLease' /\ handle' \in [Sessions -> Workers]
    <2>1. /\ op[t] = "open" /\ state' = state /\ lessee' = lessee /\ TakeHandle(ses[t])
          /\ Start(t, "release", "giveback", ses[t], wrk[t])
      BY Zenon DEF OpenError, GiveUp, slots
    <2> QED BY Zenon, <1>c, <2>1, GiveBack
  <1>1. SlotTypes'
    <2>1. call_lock' \in [Ids -> Tasks \cup {NoTask}]
      BY Zenon, CoreParts DEF SlotTypes, OpenError, UnlockCall
    <2> QED BY Zenon, <2>1, <1>g, CoreParts DEF SlotTypes, OpenError, slots
  <1>2. OsTypes'
    BY Zenon, Enums, CoreParts DEF TaskTypes, OsTypes, OpenError, UnlockCall, GiveUp, Start,
       Become, TakeHandle, inner, slots, os
  <1>3. TaskTypes' BY Enums, CoreParts DEF TaskTypes, OpenError, GiveUp, Start, Become
  <1>h. /\ Start(t, "release", "giveback", ses[t], wrk[t])
        /\ "giveback" \in Ops \ {"open", "call", "warm"} /\ "giveback" \in Releases
        /\ "release" \notin SpawnPCs \cup {"free", "lock", "rpc", "clear"}
    BY Zenon, Enums DEF OpenError, GiveUp, Releases, SpawnPCs
  <1>i. /\ pc'[t] = "release" /\ op'[t] = "giveback" /\ wrk'[t] = wrk[t] /\ new'[t] = NoWorker
        /\ \A v \in Tasks : v # t => /\ pc'[v] = pc[v] /\ op'[v] = op[v] /\ ses'[v] = ses[v]
                                    /\ wrk'[v] = wrk[v] /\ new'[v] = new[v]
    BY Zenon, <1>h, CoreParts DEF TaskTypes, Start, Become
  <1>4. Shapes' BY Zenon, <1>h, <1>i, <1>c, KeepShapes
  <1>5. FreshIds' BY Zenon, CoreParts DEF TaskTypes, FreshIds, OpenError, GiveUp, Start,
                     Become, inner, slots
  <1>r. /\ spawning' = spawning /\ state' = state
        /\ \A u \in Tasks : new'[u] = new[u] /\ wrk'[u] \in {wrk[u], NoWorker}
    BY CoreParts DEF TaskTypes, Shapes, SpawnPCs, OpenError, GiveUp, Start, Become, inner, slots
  <1>s. NoWorker \notin spawning BY Enums, CoreParts DEF PoolTypes
  <1>6. Reservations' BY Zenon, <1>r, <1>s, KeepReservations
  <1>w. /\ warm' = warm /\ timers' = timers /\ pc[t] # "free" /\ op[t] # "warm" /\ op'[t] # "warm"
        /\ \A u \in Tasks : u # t => op'[u] = op[u] /\ pc'[u] = pc[u]
    BY Zenon, CoreParts DEF TaskTypes, Shapes, SpawnPCs, OpenError, GiveUp, Start, Become, slots
  <1>7. WarmInv' BY Zenon, <1>w, KeepWarmInv DEF Free
  <1>u. /\ state' = state /\ pc'[t] \notin SpawnPCs \cup {"forget", "finish", "unlist", "ensure"}
        /\ \A u \in Tasks : u # t => pc'[u] = pc[u] /\ wrk'[u] = wrk[u] /\ new'[u] = new[u]
    BY Zenon, CoreParts DEF TaskTypes, SpawnPCs, OpenError, GiveUp, Start, Become, slots
  <1>8. RetiredIsDead' BY Zenon, <1>u, KeepRetired
  <1>d. state' = state /\ state[wrk[t]] \in {"Leased", "Dead"}
    BY Zenon, <1>c, CoreParts DEF ExclusiveLease, OpenError, slots
  <1>e. \A w \in Ids : w # wrk[t] => db'[w] = db[w] BY Zenon, CoreParts DEF OsTypes, OpenError
  <1>9. DbInv' BY Zenon, <1>d, <1>e, KeepDbInv
  <1>10. (PoolTypes /\ Listed)'
    BY Zenon, Frames DEF OpenError, inner, slots, os, task
  <1> QED
    BY Zenon, <1>1, <1>2, <1>3, <1>4, <1>5, <1>6, <1>7, <1>8, <1>9, <1>10, <1>g DEF Core

\* CallRetires preserves Core. The child answered with an error that retires
\* it: dispatch drops the lease and, with no guard armed, calls mark_dead.
LEMMA CoreCallRetires == ASSUME Core, NEW t \in Tasks, CallRetires(t) PROVE Core'
  <1>1. SlotTypes'
    BY Zenon, Enums, CoreParts DEF SlotTypes, TaskTypes, CallRetires, UnlockCall, Start,
       Become, inner, slots, os
  <1>2. TaskTypes' BY Zenon, Enums, CoreParts DEF TaskTypes, CallRetires, Start, Become
  <1>3. Shapes' BY Zenon, CoreParts DEF TaskTypes, Shapes, SpawnPCs, CallRetires, Start, Become
  <1>4. FreshIds'
    BY Zenon, CoreParts DEF TaskTypes, SlotTypes, FreshIds, CallRetires, Start, Become, inner,
       slots
  <1>r. /\ spawning' = spawning /\ state' = state
        /\ \A u \in Tasks : new'[u] = new[u] /\ wrk'[u] \in {wrk[u], NoWorker}
    BY Zenon, CoreParts DEF TaskTypes, Shapes, SpawnPCs, CallRetires, Start, Become, inner,
       slots
  <1>s. NoWorker \notin spawning BY Enums, CoreParts DEF PoolTypes
  <1>5. Reservations' BY Zenon, <1>r, <1>s, KeepReservations
  <1>w. /\ warm' = warm /\ timers' = timers /\ pc[t] # "free" /\ op[t] # "warm" /\ op'[t] # "warm"
        /\ \A u \in Tasks : u # t => op'[u] = op[u] /\ pc'[u] = pc[u]
    BY Zenon, CoreParts DEF TaskTypes, Shapes, SpawnPCs, CallRetires, Start, Become, slots
  <1>6. WarmInv' BY Zenon, <1>w, KeepWarmInv DEF Free
  <1>7. SoleUser' BY CoreParts DEF SlotTypes, TaskTypes, SoleUser, CallRetires, Start, Become
  <1>8. SoleRelease'
    BY CoreParts DEF TaskTypes, SlotTypes, Shapes, SoleRelease, SpawnPCs, CallRetires, Start,
       Become, slots
  <1>u. /\ state' = state /\ pc'[t] \notin SpawnPCs \cup {"forget", "finish", "unlist", "ensure"}
        /\ \A u \in Tasks : u # t => pc'[u] = pc[u] /\ wrk'[u] = wrk[u] /\ new'[u] = new[u]
    BY Zenon, CoreParts DEF TaskTypes, SpawnPCs, CallRetires, Start, Become, slots
  <1>9. RetiredIsDead' BY Zenon, <1>u, KeepRetired
  <1>10. ExclusiveLease' BY Zenon, CoreParts DEF SlotTypes, ExclusiveLease, CallRetires, slots
  <1>11. (PoolTypes /\ OsTypes /\ Listed /\ DbInv)'
    BY Zenon, Frames DEF CallRetires, inner, slots, os, task
  <1> QED BY <1>1, <1>2, <1>3, <1>4, <1>5, <1>6, <1>7, <1>8, <1>9, <1>10, <1>11 DEF Core

\* CallFails preserves Core. No answer: transport error, watchdog timeout or
\* cancellation. mark_dead follows, still under call_lock.
LEMMA CoreCallFails == ASSUME Core, NEW t \in Tasks, CallFails(t) PROVE Core'
  <1>1. OsTypes'
    BY Zenon, Enums, CoreParts DEF TaskTypes, OsTypes, CallFails, Goto, inner, slots, os
  <1>2. TaskTypes' BY Zenon, Enums, CoreParts DEF TaskTypes, CallFails, Goto
  <1>3. Shapes' BY Zenon, CoreParts DEF TaskTypes, Shapes, SpawnPCs, CallFails, Goto
  <1>4. WarmInv' BY Zenon, CoreParts DEF TaskTypes, WarmInv, Free, CallFails, Goto, slots
  <1>5. SoleRelease' BY Zenon, CoreParts DEF TaskTypes, SoleRelease, CallFails, Goto, slots
  <1>6. RetiredIsDead'
    BY Zenon, CoreParts DEF TaskTypes, RetiredIsDead, SpawnPCs, CallFails, Goto, slots
  <1>7. DbInv'
    <2>1. wrk[t] \in Ids /\ (op[t] = "open" => state[wrk[t]] \notin {"None", "Idle"})
      BY ZenonT(30), Enums, CoreParts DEF TaskTypes, Shapes, SpawnPCs, SoleUser, ExclusiveLease, CallFails
    <2>2. state' = state /\ (db' = db \/ (op[t] = "open" /\ db' = [db EXCEPT ![wrk[t]] = TRUE]))
      BY Zenon DEF CallFails, slots
    <2>3. \A w \in Ids : db'[w] => db[w] \/ (op[t] = "open" /\ w = wrk[t])
      BY Zenon, <2>1, <2>2, CoreParts DEF OsTypes
    <2> QED BY Zenon, <2>1, <2>2, <2>3, KeepDbInv
  <1>8. (/\ PoolTypes /\ SlotTypes /\ FreshIds
         /\ Reservations /\ Listed /\ SoleUser /\ ExclusiveLease)'
    BY Zenon, Frames DEF CallFails, Goto, inner, slots, os, task
  <1> QED BY <1>1, <1>2, <1>3, <1>4, <1>5, <1>6, <1>7, <1>8 DEF Core

\* Clear preserves Core. clear_handle_if_worker
LEMMA CoreClear == ASSUME Core, NEW t \in Tasks, Clear(t) PROVE Core'
  <1>1. SlotTypes'
    BY Zenon, Enums, CoreParts DEF SlotTypes, TaskTypes, Clear, Done, Become, inner, slots, os
  <1>2. TaskTypes' BY Zenon, Enums, CoreParts DEF TaskTypes, Clear, Done, Become
  <1>3. Shapes' BY Zenon, CoreParts DEF TaskTypes, Shapes, SpawnPCs, Clear, Done, Become
  <1>4. FreshIds'
    BY Zenon, CoreParts DEF TaskTypes, SlotTypes, FreshIds, Clear, Done, Become, inner, slots
  <1>5. Reservations'
    BY CoreParts DEF TaskTypes, SlotTypes, Shapes, Reservations, SpawnPCs, Clear, Done, Become,
       inner, slots
  <1>6. WarmInv'
    BY Zenon, CoreParts DEF TaskTypes, SlotTypes, Shapes, WarmInv, Free, Clear, Done, Become
  <1>7. SoleUser' BY CoreParts DEF SlotTypes, TaskTypes, Shapes, SoleUser, Clear, Done, Become
  <1>8. SoleRelease'
    BY CoreParts DEF TaskTypes, SlotTypes, Shapes, SoleRelease, SpawnPCs, Clear, Done, Become,
       slots
  <1>9. RetiredIsDead'
    BY Zenon, CoreParts DEF TaskTypes, SlotTypes, RetiredIsDead, SpawnPCs, Clear, Done, Become,
       slots
  <1>10. ExclusiveLease' BY Zenon, CoreParts DEF SlotTypes, ExclusiveLease, Clear, slots
  <1>11. (PoolTypes /\ OsTypes /\ Listed /\ DbInv)'
    BY Zenon, Frames DEF Clear, inner, slots, os, task
  <1> QED BY <1>1, <1>2, <1>3, <1>4, <1>5, <1>6, <1>7, <1>8, <1>9, <1>10, <1>11 DEF Core

-----------------------------------------------------------------------------
(* Releases, retirement, shutdown and dropped futures. *)

\* StartRelease preserves Core. close_with_save, or the release spawned by the
\* Drop of a PooledSessionState: the handle is taken, so no later operation of
\* the session can use it.
LEMMA CoreStartRelease == ASSUME Core, NEW t \in Tasks, NEW s \in Sessions, NEW k \in Releases, StartRelease(t, s, k) PROVE Core'
  <1>0. handle[s] \in Ids /\ state[handle[s]] # "None"
    BY Zenon, Enums, CoreParts DEF SlotTypes, ExclusiveLease, StartRelease, TakeHandle
  <1>a. \A u \in Tasks : wrk'[u] = IF u = t THEN handle[s] ELSE wrk[u]
    BY Zenon, CoreParts DEF TaskTypes, StartRelease, Start, Become
  <1>b. handle[s] \notin spawning /\ new[t] = NoWorker
    BY Zenon, <1>0, CoreParts DEF Reservations, Shapes, Free, SpawnPCs, StartRelease
  <1>c. \A u \in Tasks : new'[u] = new[u] BY <1>b DEF TaskTypes, StartRelease, Start, Become
  <1>1. SlotTypes' BY Zenon, Enums, CoreParts DEF SlotTypes, StartRelease, TakeHandle, slots
  <1>2. TaskTypes'
    BY Zenon, Enums, CoreParts DEF SlotTypes, TaskTypes, StartRelease, Start, Become
  <1>3. Shapes'
    BY Zenon, CoreParts DEF TaskTypes, Shapes, Releases, SpawnPCs, StartRelease, Start, Become
  <1>4. FreshIds' BY Zenon, <1>a, <1>0, CoreParts DEF FreshIds, StartRelease, inner, slots
  <1>5. Reservations'
    BY <1>a, <1>c, <1>0, CoreParts DEF Reservations, StartRelease, inner, slots
  <1>6. WarmInv'
    BY CoreParts DEF TaskTypes, WarmInv, Serving, Releases, StartRelease, Start, Become
  <1>7. SoleUser'
    BY SMTT(30), CoreParts DEF TaskTypes, SlotTypes, Shapes, SoleUser, Free, Releases, StartRelease,
       Quiet, TakeHandle, Start, Become
  <1>8. SoleRelease'
    BY CoreParts DEF SlotTypes, TaskTypes, Shapes, SoleRelease, ExclusiveLease, SpawnPCs,
       StartRelease, TakeHandle, Start, Become, slots
  <1>9. RetiredIsDead'
    BY Zenon, CoreParts DEF TaskTypes, RetiredIsDead, SpawnPCs, Free, StartRelease, Start,
       Become, slots
  <1>10. ExclusiveLease'
    BY Zenon, CoreParts DEF SlotTypes, ExclusiveLease, StartRelease, TakeHandle, slots
  <1>11. (PoolTypes /\ OsTypes /\ Listed /\ DbInv)'
    BY Zenon, Frames DEF StartRelease, inner, slots, os, task
  <1> QED BY Zenon, <1>1, <1>2, <1>3, <1>4, <1>5, <1>6, <1>7, <1>8, <1>9, <1>10, <1>11 DEF Core

\* BeginRelease preserves Core. call_lock acquired: a dead slot needs nothing,
\* any other becomes Closing.
LEMMA CoreBeginRelease == ASSUME Core, NEW t \in Tasks, BeginRelease(t) PROVE Core'
  <1>0. wrk[t] \in Ids
    BY Zenon, Enums, CoreParts DEF BeginRelease, TaskTypes, Shapes, SpawnPCs, inner, slots, os
  <1>1. CASE state[wrk[t]] = "Dead" /\ Done(t) /\ UNCHANGED <<state, lessee, call_lock>>
    <2>1. TaskTypes' BY Zenon, Enums, <1>1, CoreParts DEF TaskTypes, Done, Become
    <2>2. Shapes' BY Zenon, <1>1, CoreParts DEF TaskTypes, Shapes, SpawnPCs, Done, Become
    <2>3. FreshIds'
      BY Zenon, <1>1, CoreParts DEF TaskTypes, SlotTypes, FreshIds, inner, BeginRelease, Done,
         Become
    <2>4. Reservations'
      BY <1>1, CoreParts DEF TaskTypes, SlotTypes, Shapes, Reservations, SpawnPCs, inner,
         BeginRelease, Done, Become
    <2>5. WarmInv'
      BY Zenon, Enums, <1>0, <1>1, CoreParts DEF TaskTypes, SlotTypes, Shapes, WarmInv, Free,
         BeginRelease, Done, Become
    <2>6. SoleUser'
      BY <1>1, CoreParts DEF TaskTypes, SlotTypes, Shapes, SoleUser, Releases, BeginRelease,
         Done, Become
    <2>7. SoleRelease'
      BY Zenon, <1>1, CoreParts DEF SlotTypes, TaskTypes, SoleRelease, BeginRelease, Done,
         Become
    <2>8. RetiredIsDead'
      BY Zenon, <1>1, CoreParts DEF TaskTypes, SlotTypes, RetiredIsDead, BeginRelease, Done,
         Become
    <2>9. (PoolTypes /\ SlotTypes /\ OsTypes /\ Listed /\ ExclusiveLease /\ DbInv)'
      BY Zenon, <1>1, Frames DEF inner, os, BeginRelease, slots, task
    <2> QED BY Zenon, <2>1, <2>2, <2>3, <2>4, <2>5, <2>6, <2>7, <2>8, <2>9 DEF Core
  <1>2. CASE /\ state[wrk[t]] # "Dead"
             /\ state' = [state EXCEPT ![wrk[t]] = "Closing"]
             /\ lessee' = [lessee EXCEPT ![wrk[t]] = NoSession]
             /\ LockCall(t, wrk[t])
             /\ Goto(t, "closing")
    <2>1. SlotTypes' BY Enums, CoreParts DEF SlotTypes, BeginRelease, LockCall
    <2>2. TaskTypes' BY Zenon, Enums, <1>2, CoreParts DEF TaskTypes, Goto
    <2>3. Shapes' BY Zenon, <1>2, CoreParts DEF TaskTypes, Shapes, SpawnPCs, BeginRelease, Goto
    <2>4. FreshIds'
      BY Enums, <1>2, CoreParts DEF TaskTypes, SlotTypes, FreshIds, inner, BeginRelease, Goto
    <2>5. Reservations'
      BY <1>2, CoreParts DEF TaskTypes, SlotTypes, Reservations, SoleRelease, inner,
         BeginRelease, Goto
    <2>6. Listed' BY <1>2, CoreParts DEF SlotTypes, Listed, inner, BeginRelease
    <2>7. WarmInv' BY Zenon, <1>2, CoreParts DEF TaskTypes, SlotTypes, WarmInv, Free, inner,
                      BeginRelease, Goto
    <2>8. SoleRelease'
      BY <1>0, <1>2, CoreParts DEF TaskTypes, SlotTypes, SoleRelease, BeginRelease, Goto
    <2>9. RetiredIsDead' BY <1>2, CoreParts DEF TaskTypes, RetiredIsDead, SpawnPCs, Goto
    <2>10. ExclusiveLease'
      BY <1>2, CoreParts DEF SlotTypes, SoleRelease, ExclusiveLease, BeginRelease
    <2>11. DbInv' BY Zenon, <1>2, CoreParts DEF SlotTypes, DbInv, os, BeginRelease
    <2>12. (PoolTypes /\ OsTypes /\ SoleUser)'
      BY Zenon, <1>2, Frames DEF inner, os, BeginRelease, Goto, slots, task
    <2> QED BY ZenonT(30), <2>1, <2>2, <2>3, <2>4, <2>5, <2>6, <2>7, <2>8, <2>9, <2>10, <2>11,
               <2>12 DEF Core
  <1> QED BY Zenon, <1>1, <1>2 DEF BeginRelease

\* CloseOk preserves Core. close_idb succeeded: the slot is idle again unless
\* it died meanwhile.
LEMMA CoreCloseOk == ASSUME Core, NEW t \in Tasks, CloseOk(t) PROVE Core'
  <1>0. wrk[t] \in Ids
    BY Zenon, Enums, CoreParts DEF TaskTypes, Shapes, SpawnPCs, CloseOk, UnlockCall, Goto,
       IdleUnlessDead, inner, slots, os
  <1>1. SlotTypes'
    BY Zenon, Enums, <1>0, CoreParts DEF SlotTypes, CloseOk, UnlockCall, IdleUnlessDead
  <1>2. OsTypes' BY Zenon, <1>0, CoreParts DEF OsTypes, CloseOk
  <1>3. TaskTypes' BY Zenon, Enums, CoreParts DEF TaskTypes, CloseOk, Goto
  <1>4. Shapes' BY Zenon, CoreParts DEF TaskTypes, Shapes, SpawnPCs, CloseOk, Goto
  <1>5. FreshIds'
    BY Zenon, Enums, CoreParts DEF TaskTypes, SlotTypes, FreshIds, CloseOk, Goto, inner
  <1>6. Reservations'
    BY CoreParts DEF TaskTypes, SlotTypes, Reservations, SoleRelease, CloseOk, Goto, inner
  <1>7. Listed' BY CoreParts DEF SlotTypes, Listed, CloseOk, IdleUnlessDead, inner
  <1>8. WarmInv' BY Zenon, CoreParts DEF TaskTypes, SlotTypes, WarmInv, Free, CloseOk, Goto
  <1>9. SoleRelease' BY CoreParts DEF SlotTypes, TaskTypes, SoleRelease, CloseOk, Goto
  <1>10. RetiredIsDead'
    BY CoreParts DEF TaskTypes, SlotTypes, RetiredIsDead, SpawnPCs, CloseOk, Goto,
       IdleUnlessDead
  <1>11. ExclusiveLease' BY CoreParts DEF SlotTypes, SoleRelease, ExclusiveLease, CloseOk
  <1>12. DbInv' BY Zenon, CoreParts DEF SlotTypes, OsTypes, DbInv, CloseOk
  <1>13. (PoolTypes /\ SoleUser)'
    BY Zenon, Frames DEF CloseOk, Goto, inner, slots, os, task
  <1> QED
    BY Zenon, <1>1, <1>2, <1>3, <1>4, <1>5, <1>6, <1>7, <1>8, <1>9, <1>10, <1>11, <1>12,
       <1>13 DEF Core

\* CloseFails preserves Core. close_idb failed or took more than
\* CHILD_CLOSE_TIMEOUT_SECS.
LEMMA CoreCloseFails == ASSUME Core, NEW t \in Tasks, CloseFails(t) PROVE Core'
  <1>1. OsTypes'
    BY Zenon, Enums, CoreParts DEF TaskTypes, OsTypes, CloseFails, Goto, inner, slots, os
  <1>2. TaskTypes' BY Zenon, Enums, CoreParts DEF TaskTypes, CloseFails, Goto
  <1>3. Shapes' BY Zenon, CoreParts DEF TaskTypes, Shapes, SpawnPCs, CloseFails, Goto
  <1>4. WarmInv' BY Zenon, CoreParts DEF TaskTypes, WarmInv, Free, CloseFails, Goto, slots
  <1>5. SoleRelease' BY Zenon, CoreParts DEF TaskTypes, SoleRelease, CloseFails, Goto, slots
  <1>6. RetiredIsDead'
    BY Zenon, CoreParts DEF TaskTypes, RetiredIsDead, SpawnPCs, CloseFails, Goto, slots
  <1>7. DbInv' BY Zenon, CoreParts DEF OsTypes, DbInv, CloseFails, slots
  <1>8. (/\ PoolTypes /\ SlotTypes /\ FreshIds
         /\ Reservations /\ Listed /\ SoleUser /\ ExclusiveLease)'
    BY Zenon, Frames DEF CloseFails, Goto, inner, slots, os, task
  <1> QED BY Zenon, <1>1, <1>2, <1>3, <1>4, <1>5, <1>6, <1>7, <1>8 DEF Core

\* ScheduleIdleReap preserves Core. release_with_save: start the idle timer of
\* a slot that is idle.
LEMMA CoreScheduleIdleReap == ASSUME Core, NEW t \in Tasks, ScheduleIdleReap(t) PROVE Core'
  <1>0. wrk[t] \in Ids
    BY Zenon, Enums, CoreParts DEF TaskTypes, Shapes, SpawnPCs, ScheduleIdleReap, Done, Become
  <1>1. SlotTypes' BY CoreParts DEF SlotTypes, ScheduleIdleReap
  <1>2. TaskTypes' BY Zenon, Enums, CoreParts DEF TaskTypes, ScheduleIdleReap, Done, Become
  <1>3. Shapes'
    BY Zenon, CoreParts DEF TaskTypes, Shapes, SpawnPCs, ScheduleIdleReap, Done, Become
  <1>4. FreshIds' BY Zenon, CoreParts DEF TaskTypes, SlotTypes, FreshIds, ScheduleIdleReap,
                     Done, Become, inner
  <1>5. Reservations'
    BY CoreParts DEF TaskTypes, SlotTypes, Shapes, Reservations, SpawnPCs, ScheduleIdleReap,
       Done, Become, inner
  <1>6. WarmInv'
    BY Zenon, Enums, <1>0, CoreParts DEF TaskTypes, SlotTypes, Shapes, WarmInv, Free,
       ScheduleIdleReap, Done, Become
  <1>7. SoleUser'
    BY Zenon, CoreParts DEF TaskTypes, SlotTypes, Shapes, SoleUser, Releases, ScheduleIdleReap,
       Done, Become
  <1>8. SoleRelease'
    BY Zenon, CoreParts DEF TaskTypes, SlotTypes, SoleRelease, ScheduleIdleReap, Done, Become
  <1>9. RetiredIsDead'
    BY Zenon, CoreParts DEF TaskTypes, SlotTypes, RetiredIsDead, SpawnPCs, ScheduleIdleReap,
       Done, Become
  <1>10. (PoolTypes /\ OsTypes /\ Listed /\ ExclusiveLease /\ DbInv)'
    BY Zenon, Frames DEF ScheduleIdleReap, inner, os, slots, task
  <1> QED BY Zenon, <1>1, <1>2, <1>3, <1>4, <1>5, <1>6, <1>7, <1>8, <1>9, <1>10 DEF Core

\* Take preserves Core. take_dead_worker: whoever finds the slot alive owns
\* its DeadWorker.
LEMMA CoreTake == ASSUME Core, NEW t \in Tasks, Take(t) PROVE Core'
  <1>0. wrk[t] \in Ids
    BY Zenon, Enums, CoreParts DEF TaskTypes, Shapes, SpawnPCs, Take, Goto, inner, slots, os
  <1>1. SlotTypes' BY Zenon, Enums, <1>0, CoreParts DEF SlotTypes, Take
  <1>2. TaskTypes' BY Zenon, Enums, CoreParts DEF TaskTypes, Take, Goto
  <1>3. Shapes' BY Zenon, CoreParts DEF TaskTypes, Shapes, SpawnPCs, Take, Goto
  <1>4. FreshIds'
    BY Zenon, Enums, CoreParts DEF TaskTypes, SlotTypes, FreshIds, Take, Goto, inner
  <1>5. Reservations'
    BY CoreParts DEF TaskTypes, SlotTypes, Shapes, Reservations, SpawnPCs, Take, Goto, inner
  <1>6. Listed' BY CoreParts DEF SlotTypes, Listed, Take, inner
  <1>7. WarmInv' BY Zenon, CoreParts DEF TaskTypes, SlotTypes, WarmInv, Free, Take, Goto
  <1>8. SoleRelease' BY CoreParts DEF TaskTypes, SlotTypes, SoleRelease, Take, Goto
  <1>9. RetiredIsDead' BY <1>0, CoreParts DEF TaskTypes, SlotTypes, RetiredIsDead, Take, Goto
  <1>10. ExclusiveLease' BY CoreParts DEF SlotTypes, ExclusiveLease, Take
  <1>11. DbInv' BY Zenon, CoreParts DEF SlotTypes, DbInv, Take, os
  <1>12. (PoolTypes /\ OsTypes /\ SoleUser)'
    BY Zenon, Frames DEF Take, Goto, inner, os, slots, task
  <1> QED BY <1>1, <1>2, <1>3, <1>4, <1>5, <1>6, <1>7, <1>8, <1>9, <1>10, <1>11, <1>12 DEF Core

\* Forget preserves Core. forget_slot
LEMMA CoreForget == ASSUME Core, NEW t \in Tasks, Forget(t) PROVE Core'
  <1>1. PoolTypes'
    BY Zenon, PoolConfig, Enums, CoreParts DEF TaskTypes, PoolTypes, Forget, Goto, inner,
       slots, os
  <1>2. TaskTypes' BY Zenon, Enums, CoreParts DEF TaskTypes, Forget, Goto
  <1>3. Shapes' BY Zenon, CoreParts DEF TaskTypes, Shapes, SpawnPCs, Forget, Goto
  <1>4. Listed' BY Zenon, CoreParts DEF Listed, Forget, slots
  <1>5. WarmInv' BY Zenon, CoreParts DEF TaskTypes, WarmInv, Free, Forget, Goto, slots
  <1>6. SoleRelease' BY Zenon, CoreParts DEF TaskTypes, SoleRelease, Forget, Goto, slots
  <1>7. RetiredIsDead' BY Zenon, CoreParts DEF TaskTypes, RetiredIsDead, Forget, Goto, slots
  <1>8. (SlotTypes /\ OsTypes /\ FreshIds /\ Reservations /\ SoleUser /\ ExclusiveLease /\ DbInv)'
    BY Zenon, Frames DEF Forget, Goto, slots, os, inner, task
  <1> QED BY Zenon, <1>1, <1>2, <1>3, <1>4, <1>5, <1>6, <1>7, <1>8 DEF Core

\* Finish preserves Core. finish_dead_worker; an idle reap does not replenish.
LEMMA CoreFinish == ASSUME Core, NEW t \in Tasks, Finish(t) PROVE Core'
  <1>0. Decays
    BY Zenon, Enums, ExitDecays, CloseServiceDecays, CoreParts DEF OsTypes, TaskTypes, Shapes,
       SpawnPCs, Decays, DropDead, Releases, Finish, Done, Become, Goto, inner, slots, os
  <1>1. OsTypes' BY Zenon, <1>0 DEF OsTypes, Decays
  <1>2. TaskTypes' BY Enums, CoreParts DEF TaskTypes, Finish, Done, Become, Goto
  <1>3. Shapes' BY CoreParts DEF TaskTypes, Shapes, SpawnPCs, Finish, Done, Become, Goto
  <1>4. FreshIds'
    BY Zenon, CoreParts DEF TaskTypes, FreshIds, Finish, Done, Become, Goto, inner, slots
  <1>r. /\ spawning' = spawning /\ state' = state
        /\ \A u \in Tasks : new'[u] = new[u] /\ wrk'[u] \in {wrk[u], NoWorker}
    BY Zenon, CoreParts DEF TaskTypes, Shapes, SpawnPCs, Finish, Done, Become, Goto, inner,
       slots
  <1>s. NoWorker \notin spawning BY Zenon, Enums, CoreParts DEF PoolTypes
  <1>5. Reservations' BY Zenon, <1>r, <1>s, KeepReservations
  <1>6. WarmInv' BY CoreParts DEF TaskTypes, WarmInv, Free, Finish, Done, Become, Goto, slots
  <1>7. SoleUser' BY CoreParts DEF TaskTypes, Shapes, SoleUser, Finish, Done, Become, Goto
  <1>8. SoleRelease' BY CoreParts DEF TaskTypes, SoleRelease, Finish, Done, Become, Goto, slots
  <1>9. RetiredIsDead'
    BY ZenonT(30), CoreParts DEF TaskTypes, RetiredIsDead, Finish, Done, Become, Goto, slots
  <1>10. DbInv' BY Zenon, <1>0, CoreParts DEF DbInv, Finish, slots, Decays
  <1>11. (PoolTypes /\ SlotTypes /\ Listed /\ ExclusiveLease)'
    BY Zenon, Frames DEF Finish, inner, slots, os, task
  <1> QED BY Zenon, <1>1, <1>2, <1>3, <1>4, <1>5, <1>6, <1>7, <1>8, <1>9, <1>10, <1>11 DEF Core

\* Ensure preserves Core. One turn of ensure_min_workers' loop. It counts Dead
\* slots that are still listed. When the model has no id left it gives up, as
\* after a failed spawn.
LEMMA CoreEnsure == ASSUME Core, NEW t \in Tasks, Ensure(t) PROVE Core'
  <1>1. CASE Resume(t) /\ UNCHANGED <<spawning, next_id, proc>>
    <2>1. SlotTypes'
      BY Enums, CoreParts DEF SlotTypes, slots, Ensure, Resume, UnlockCall, GiveUp, TakeHandle
    <2>2. TaskTypes'
      BY Enums, <1>1, CoreParts DEF TaskTypes, Resume, GiveUp, Start, Done, Become
    <2>3. Shapes'
      BY <1>1, CoreParts DEF TaskTypes, Shapes, Releases, SpawnPCs, Ensure, Resume, GiveUp,
         Start, Done, Become
    <2>4. FreshIds'
      BY Zenon, <1>1, CoreParts DEF TaskTypes, FreshIds, slots, Ensure, Resume, GiveUp, Start,
         Done, Become
    <2>r. /\ spawning' = spawning /\ state' = state
          /\ \A u \in Tasks : new'[u] = new[u] /\ wrk'[u] \in {wrk[u], NoWorker}
      BY <1>1, CoreParts DEF TaskTypes, Shapes, SpawnPCs, slots, Ensure, Resume, GiveUp, Start,
         Done, Become
    <2>s. NoWorker \notin spawning BY Zenon, Enums, CoreParts DEF PoolTypes
    <2>5. Reservations' BY Zenon, <2>r, <2>s, KeepReservations
    <2>6. WarmInv'
      BY <1>1, CoreParts DEF TaskTypes, WarmInv, Free, slots, Ensure, Resume, GiveUp, Start,
         Done, Become
    <2>7. SoleUser'
      BY SMTT(30), <1>1, CoreParts DEF SlotTypes, TaskTypes, Shapes, SoleUser, Resume, GiveUp,
         TakeHandle, Start, Done, Become
    <2>8. SoleRelease'
      BY <1>1, CoreParts DEF SlotTypes, TaskTypes, Shapes, SoleUser, SoleRelease,
         ExclusiveLease, SpawnPCs, slots, Ensure, Resume, GiveUp, TakeHandle, Start, Done,
         Become
    <2>9. RetiredIsDead'
      BY ZenonT(30), <1>1, CoreParts DEF TaskTypes, RetiredIsDead, slots, Ensure, Resume,
         GiveUp, Start, Done, Become
    <2>10. ExclusiveLease'
      BY Zenon, CoreParts DEF SlotTypes, ExclusiveLease, slots, Ensure, Resume, GiveUp,
         TakeHandle
    <2>11. (PoolTypes /\ OsTypes /\ Listed /\ DbInv)'
      BY Zenon, <1>1, Frames DEF slots, Ensure, inner, os, task
    <2> QED
      BY Zenon, <2>1, <2>2, <2>3, <2>4, <2>5, <2>6, <2>7, <2>8, <2>9, <2>10, <2>11 DEF Core
  <1>2. CASE Reserve(t, op[t], ses[t], wrk[t]) /\ UNCHANGED <<call_lock, handle>>
    <2>0. PICK p \in {"serve", "unreserve"} : Become(t, p, op[t], ses[t], wrk[t], next_id)
      BY Zenon, ReserveStarts, <1>2, CoreParts
    <2>a. /\ next_id \in Ids /\ next_id' = next_id + 1 /\ next_id' \in 0 .. MaxSpawns
          /\ spawning' = spawning \cup {next_id} /\ proc' \in [Ids -> ProcStates]
      BY Zenon, ReserveStarts, <1>2, CoreParts
    <2>b. /\ next_id < next_id' /\ \A w \in Ids : w < next_id => w < next_id'
          /\ state[next_id] = "None" /\ next_id \notin spawning
          /\ \A u \in Tasks : wrk[u] # next_id /\ new[u] # next_id BY Zenon, <2>a, NextIsNew
    <2>c. wrk[t] \in Ids
      BY Zenon, Enums, <2>a, <2>b, CoreParts DEF Ensure, TaskTypes, Shapes, SpawnPCs
    <2>1. PoolTypes' BY Zenon, <2>a, CoreParts DEF PoolTypes, Ensure
    <2>2. OsTypes' BY Zenon, <2>a, CoreParts DEF OsTypes, Ensure
    <2>3. TaskTypes' BY Zenon, Enums, <2>0, <2>a, CoreParts DEF TaskTypes, Become
    <2>4. Shapes'
      BY ZenonT(30), <2>c, Enums, <2>0, <2>a, <2>b, CoreParts DEF TaskTypes, Shapes, SpawnPCs, Become
    <2>5. FreshIds'
      BY Zenon, PoolConfig, Enums, <1>2, <2>0, <2>a, <2>b, CoreParts DEF PoolTypes, SlotTypes,
         TaskTypes, Shapes, FreshIds, SpawnPCs, Free, inner, slots, os, Ensure, Become
    <2>6. Reservations'
      BY Enums, <2>0, <2>a, <2>b, CoreParts DEF PoolTypes, TaskTypes, Shapes, Reservations,
         SpawnPCs, slots, Ensure, Become
    <2>7. WarmInv' BY Zenon, <2>0, CoreParts DEF TaskTypes, WarmInv, Free, slots, Ensure, Become
    <2>8. SoleUser' BY Zenon, <1>2, <2>0, CoreParts DEF TaskTypes, SoleUser, Become
    <2>9. SoleRelease'
      BY <2>0, <2>a, CoreParts DEF TaskTypes, SoleRelease, slots, Ensure, Become
    <2>10. RetiredIsDead'
      BY Zenon, <2>0, CoreParts DEF TaskTypes, RetiredIsDead, slots, Ensure, Become
    <2>11. (SlotTypes /\ Listed /\ ExclusiveLease /\ DbInv)'
      BY <2>a, Frames DEF slots, Ensure, inner, os, task
    <2> QED
      BY Zenon, <2>1, <2>2, <2>3, <2>4, <2>5, <2>6, <2>7, <2>8, <2>9, <2>10, <2>11 DEF Core
  <1> QED BY Zenon, <1>1, <1>2 DEF Ensure

\* ReapIdle preserves Core. mark_stale_idle_dead, when an idle timer fires:
\* the slot is taken if it is still idle, unused since the timer started, and
\* not needed for the minimum.
LEMMA CoreReapIdle == ASSUME Core, NEW t \in Tasks, NEW w \in Ids, ReapIdle(t, w) PROVE Core'
  <1>1. CASE /\ state[w] = "Idle"
             /\ state' = [state EXCEPT ![w] = "Dead"]
             /\ Start(t, "forget", "reap", NoSession, w)
    <2>1. SlotTypes' BY Enums, CoreParts DEF SlotTypes, ReapIdle, Expired
    <2>2. TaskTypes' BY Zenon, Enums, <1>1, CoreParts DEF TaskTypes, Start, Become
    <2>3. Shapes'
      BY Zenon, Enums, <1>1, CoreParts DEF TaskTypes, Shapes, SpawnPCs, Start, Become
    <2>4. FreshIds' BY Zenon, <1>1, CoreParts DEF TaskTypes, SlotTypes, FreshIds, inner,
                       ReapIdle, Start, Become
    <2>5. Reservations'
      BY <1>1, CoreParts DEF TaskTypes, SlotTypes, Shapes, Reservations, SpawnPCs, Free, inner,
         ReapIdle, Start, Become
    <2>6. Listed' BY <1>1, CoreParts DEF SlotTypes, Listed, inner, ReapIdle
    <2>7. WarmInv'
      BY <1>1, CoreParts DEF TaskTypes, SlotTypes, WarmInv, ReapIdle, Expired, Start, Become
    <2>8. SoleUser'
      BY Zenon, <1>1, CoreParts DEF TaskTypes, SlotTypes, Shapes, SoleUser, Free, ReapIdle,
         Start, Become
    <2>9. SoleRelease'
      BY <1>1, CoreParts DEF SlotTypes, TaskTypes, SoleRelease, ReapIdle, Start, Become
    <2>10. RetiredIsDead'
      BY <1>1, CoreParts DEF SlotTypes, TaskTypes, RetiredIsDead, Start, Become
    <2>11. ExclusiveLease' BY <1>1, CoreParts DEF SlotTypes, ExclusiveLease, ReapIdle
    <2>12. DbInv' BY Zenon, <1>1, CoreParts DEF SlotTypes, DbInv, os, ReapIdle
    <2>13. (PoolTypes /\ OsTypes)'
      BY Zenon, Frames DEF inner, os, ReapIdle, slots, task
    <2> QED
      BY Zenon, <2>1, <2>2, <2>3, <2>4, <2>5, <2>6, <2>7, <2>8, <2>9, <2>10, <2>11, <2>12,
         <2>13 DEF
         Core
  <1>2. CASE UNCHANGED <<state, task>>
    <2>1. SlotTypes' BY <1>2, CoreParts DEF SlotTypes, ReapIdle, Expired
    <2>2. WarmInv' BY <1>2, CoreParts DEF SlotTypes, WarmInv, ReapIdle, Expired, task
    <2>3. (/\ PoolTypes /\ OsTypes /\ TaskTypes /\ Shapes /\ FreshIds /\ Reservations
           /\ Listed /\ SoleUser /\ SoleRelease /\ RetiredIsDead /\ ExclusiveLease /\ DbInv)'
      BY Zenon, <1>2, Frames DEF inner, os, ReapIdle, task, slots
    <2> QED BY Zenon, <2>1, <2>2, <2>3 DEF Core
  <1> QED BY Zenon, <1>1, <1>2 DEF ReapIdle

\* ShutdownAll preserves Core.
LEMMA CoreShutdownAll == ASSUME Core, ShutdownAll PROVE Core'
  <1>1. PoolTypes' BY Zenon, CoreParts DEF PoolTypes, ShutdownAll, inner
  <1>2. Listed' BY Zenon, CoreParts DEF Listed, ShutdownAll, inner, slots
  <1>3. (/\ SlotTypes /\ OsTypes /\ TaskTypes /\ Shapes /\ FreshIds /\ Reservations
         /\ WarmInv /\ SoleUser /\ SoleRelease /\ RetiredIsDead /\ ExclusiveLease /\ DbInv)'
    BY Zenon, Frames DEF ShutdownAll, task, inner, slots, os
  <1> QED BY Zenon, <1>1, <1>2, <1>3 DEF Core

\* ShutdownTake preserves Core.
LEMMA CoreShutdownTake == ASSUME Core, NEW w \in Ids, ShutdownTake(w) PROVE Core'
  <1>1. PoolTypes' BY Zenon, CoreParts DEF PoolTypes, ShutdownTake, inner
  <1>2. SlotTypes' BY Zenon, Enums, CoreParts DEF SlotTypes, ShutdownTake
  <1>3. FreshIds' BY Zenon, CoreParts DEF SlotTypes, FreshIds, Listed, ShutdownTake, task, inner
  <1>4. Reservations'
    BY CoreParts DEF SlotTypes, Reservations, Listed, ShutdownTake, task, inner
  <1>5. Listed' BY CoreParts DEF SlotTypes, Listed, ShutdownTake, inner
  <1>6. SoleRelease' BY CoreParts DEF SlotTypes, SoleRelease, ShutdownTake, task
  <1>7. RetiredIsDead' BY CoreParts DEF SlotTypes, RetiredIsDead, ShutdownTake, task
  <1>8. ExclusiveLease' BY CoreParts DEF SlotTypes, ExclusiveLease, ShutdownTake
  <1>9. DbInv' BY Zenon, CoreParts DEF SlotTypes, DbInv, ShutdownTake, os
  <1>10. (OsTypes /\ TaskTypes /\ Shapes /\ WarmInv /\ SoleUser)'
    BY Zenon, Frames DEF ShutdownTake, task, os, inner, slots
  <1> QED BY Zenon, <1>1, <1>2, <1>3, <1>4, <1>5, <1>6, <1>7, <1>8, <1>9, <1>10 DEF Core

\* ShutdownForget preserves Core.
LEMMA CoreShutdownForget == ASSUME Core, NEW w \in Ids, ShutdownForget(w) PROVE Core'
  <1>1. PoolTypes' BY Zenon, CoreParts DEF PoolTypes, ShutdownForget
  <1>2. Listed' BY CoreParts DEF Listed, ShutdownForget, slots
  <1>3. (/\ SlotTypes /\ OsTypes /\ TaskTypes /\ Shapes /\ FreshIds /\ Reservations
         /\ WarmInv /\ SoleUser /\ SoleRelease /\ RetiredIsDead /\ ExclusiveLease /\ DbInv)'
    BY Zenon, Frames DEF ShutdownForget, task, slots, os, inner
  <1> QED BY Zenon, <1>1, <1>2, <1>3 DEF Core

\* ShutdownFinish preserves Core.
LEMMA CoreShutdownFinish == ASSUME Core, NEW w \in Ids, ShutdownFinish(w) PROVE Core'
  <1>0. Decays BY Zenon, CloseServiceDecays, CoreParts DEF ShutdownFinish
  <1>1. PoolTypes' BY Zenon, CoreParts DEF PoolTypes, ShutdownFinish, inner
  <1>2. OsTypes' BY Zenon, <1>0 DEF OsTypes, Decays
  <1>3. Listed' BY CoreParts DEF Listed, ShutdownFinish, inner, slots
  <1>4. DbInv' BY Zenon, <1>0, CoreParts DEF DbInv, ShutdownFinish, slots, Decays
  <1>5. (/\ SlotTypes /\ TaskTypes /\ Shapes /\ FreshIds /\ Reservations
         /\ WarmInv /\ SoleUser /\ SoleRelease /\ RetiredIsDead /\ ExclusiveLease)'
    BY Zenon, Frames DEF ShutdownFinish, task, inner, slots, os
  <1> QED BY Zenon, <1>1, <1>2, <1>3, <1>4, <1>5 DEF Core

\* Crash preserves Core.
LEMMA CoreCrash == ASSUME Core, NEW w \in Ids, Crash(w) PROVE Core'
  <1>0. Decays BY Zenon, ExitDecays, CoreParts DEF Crash
  <1>1. OsTypes' BY <1>0 DEF OsTypes, Decays
  <1>2. DbInv' BY Zenon, <1>0, CoreParts DEF DbInv, Crash, slots, Decays
  <1>3. (/\ PoolTypes /\ SlotTypes /\ TaskTypes /\ Shapes /\ FreshIds /\ Reservations
         /\ Listed /\ WarmInv /\ SoleUser /\ SoleRelease /\ RetiredIsDead /\ ExclusiveLease)'
    BY Zenon, Frames DEF Crash, task, inner, slots, os
  <1> QED BY Zenon, <1>1, <1>2, <1>3 DEF Core

\* DropSpawn preserves Core. The future of a lease is dropped while it spawns.
\* Drop of SpawnReservation gives the reservation back, and retires a slot
\* that was ready.
LEMMA CoreDropSpawn == ASSUME Core, NEW t \in Tasks, DropSpawn(t) PROVE Core'
  <1> USE CoreParts DEF DropSpawn, ForLease, ReservationDropped, Become, inner, slots, os
  <1>0. Decays BY Zenon, Enums, ExitDecays, CloseServiceDecays DEF OsTypes, TaskTypes, Shapes,
                  SpawnPCs, Decays, DropDead, Releases
  <1> USE <1>0 DEF Decays
  <1>a. new[t] \in spawning BY Zenon DEF Reservations, Shapes, SpawnPCs
  <1> USE <1>a
  <1>1. OsTypes' BY Zenon, Enums DEF OsTypes
  <1>2. TaskTypes' BY Zenon, Enums DEF SlotTypes, TaskTypes
  <1>3. Shapes' BY Zenon, Enums DEF TaskTypes, Shapes, Releases, SpawnPCs, Free
  <1>4. FreshIds' BY Zenon DEF FreshIds, TaskTypes
  <1>r. /\ spawning' = spawning /\ state' = state
        /\ \A u \in Tasks : new'[u] = new[u] /\ wrk'[u] \in {wrk[u], new[u], NoWorker}
    BY Zenon DEF TaskTypes
  <1>s. NoWorker \notin spawning BY Zenon, Enums DEF PoolTypes
  <1>5. Reservations' BY Zenon, <1>r, <1>s, KeepReservations
  <1>6. WarmInv' BY PoolConfig, Enums DEF PoolTypes, TaskTypes, Shapes, WarmInv, SpawnPCs,
                    Free, Serving, Releases
  <1>7. SoleUser'
    BY ZenonT(30), Enums, Names DEF SlotTypes, TaskTypes, Shapes, SoleUser, SpawnPCs, Free, Releases
  <1>8. SoleRelease' BY Enums, Names DEF SlotTypes, TaskTypes, Shapes, SoleUser, SoleRelease,
                        ExclusiveLease, SpawnPCs, Free, Releases
  <1>9. RetiredIsDead'
    BY Enums DEF SlotTypes, TaskTypes, Shapes, RetiredIsDead, SpawnPCs, Free, Releases
  <1>10. DbInv' BY Zenon, Enums DEF SlotTypes, OsTypes, TaskTypes, Shapes, SoleUser,
                   SoleRelease, ExclusiveLease, DbInv, SpawnPCs
  <1>11. (PoolTypes /\ SlotTypes /\ Listed /\ ExclusiveLease)'
    BY Zenon, Frames DEF inner, slots, os, task
  <1> QED BY Zenon, <1>1, <1>2, <1>3, <1>4, <1>5, <1>6, <1>7, <1>8, <1>9, <1>10, <1>11 DEF Core

\* DropOpenWaiting preserves Core. An open is dropped while it waits for
\* call_lock: only the Drop of its PooledSessionState acts, and releases the
\* lease.
LEMMA CoreDropOpenWaiting == ASSUME Core, NEW t \in Tasks, DropOpenWaiting(t) PROVE Core'
  <1>c. wrk[t] # NoWorker
    <2>1. pc[t] \notin SpawnPCs /\ pc[t] # "free" BY Zenon DEF DropOpenWaiting, SpawnPCs
    <2> QED BY Zenon, <2>1, CoreParts DEF Shapes
  <1>g. SoleUser' /\ SoleRelease' /\ ExclusiveLease' /\ handle' \in [Sessions -> Workers]
    BY Zenon, <1>c, GiveBack DEF DropOpenWaiting, slots
  <1>1. SlotTypes' BY Zenon, <1>g, CoreParts DEF SlotTypes, DropOpenWaiting, slots
  <1>2. TaskTypes' BY Zenon, Enums, CoreParts DEF TaskTypes, DropOpenWaiting, Start, Become
  <1>3. Shapes' BY Zenon, CoreParts DEF TaskTypes, Shapes, Releases, SpawnPCs, DropOpenWaiting,
                   Start, Become
  <1>4. FreshIds'
    BY Zenon, CoreParts DEF TaskTypes, FreshIds, DropOpenWaiting, Start, Become, inner, slots
  <1>r. /\ spawning' = spawning /\ state' = state
        /\ \A u \in Tasks : new'[u] = new[u] /\ wrk'[u] \in {wrk[u], NoWorker}
    BY Zenon, CoreParts DEF TaskTypes, Shapes, SpawnPCs, DropOpenWaiting, Start, Become, inner,
       slots
  <1>s. NoWorker \notin spawning BY Enums, CoreParts DEF PoolTypes
  <1>5. Reservations' BY Zenon, <1>r, <1>s, KeepReservations
  <1>6. WarmInv'
    BY Zenon, CoreParts DEF TaskTypes, WarmInv, Free, DropOpenWaiting, Start, Become
  <1>7. RetiredIsDead'
    BY Zenon, CoreParts DEF TaskTypes, RetiredIsDead, SpawnPCs, DropOpenWaiting, Start, Become,
       slots
  <1>8. (PoolTypes /\ OsTypes /\ Listed /\ DbInv)'
    BY Zenon, Frames DEF DropOpenWaiting, inner, slots, os, task
  <1> QED BY Zenon, <1>1, <1>2, <1>3, <1>4, <1>5, <1>6, <1>7, <1>8, <1>g DEF Core

\* DropOpen preserves Core. An open is dropped during its request or the
\* mark_dead after it: its guard spawns mark_dead, its PooledSessionState
\* spawns a release, in two tasks.
LEMMA CoreDropOpen == ASSUME Core, NEW t \in Tasks, NEW u \in Tasks, DropOpen(t, u) PROVE Core'
  <1>0. u # t /\ op[t] = "open" /\ pc[u] = "free" /\ new' = new /\ UNCHANGED <<inner, slots, down, warm>>
    BY Zenon DEF DropOpen, Free
  <1>a. ses[t] \in Sessions /\ handle[ses[t]] = wrk[t] /\ wrk[t] \in Ids /\ wrk[t] # NoWorker
    <2>1. ses[t] \in Sessions BY Zenon, <1>0, CoreParts DEF TaskTypes, Shapes
    <2>2. pc[t] \notin SpawnPCs /\ pc[t] # "free" BY Zenon DEF DropOpen, SpawnPCs
    <2>3. wrk[t] # NoWorker BY Zenon, <2>2, CoreParts DEF Shapes
    <2>4. wrk[t] \in Ids BY Zenon, <2>3, Enums, CoreParts DEF TaskTypes
    <2> QED BY Zenon, <1>0, <2>1, <2>3, <2>4, CoreParts DEF SoleUser
  <1>b. state[wrk[t]] \in {"Leased", "Dead"} BY Zenon, <1>a, CoreParts DEF ExclusiveLease
  <1>c. /\ pc'[t] = "take" /\ op'[t] = "guard" /\ ses'[t] = ses[t] /\ wrk'[t] = wrk[t]
        /\ pc'[u] = "release" /\ op'[u] = "giveback" /\ ses'[u] = ses[t] /\ wrk'[u] = wrk[t]
        /\ \A v \in Tasks : v # t /\ v # u =>
             pc'[v] = pc[v] /\ op'[v] = op[v] /\ ses'[v] = ses[v] /\ wrk'[v] = wrk[v]
    BY Zenon, <1>0, CoreParts DEF TaskTypes, DropOpen
  <1>d. /\ handle'[ses[t]] = NoWorker
        /\ \A s \in Sessions : s # ses[t] => handle'[s] = handle[s]
    BY Zenon, <1>a, CoreParts DEF SlotTypes, DropOpen, TakeHandle
  <1>e. new[t] = NoWorker /\ new[u] = NoWorker
    <2>1. pc[t] \notin SpawnPCs /\ pc[u] \notin SpawnPCs BY Zenon, <1>0 DEF DropOpen, SpawnPCs
    <2> QED BY Zenon, <2>1, CoreParts DEF Shapes
  <1>f. /\ state' = state /\ lessee' = lessee /\ timers' = timers
        /\ spawning' = spawning /\ next_id' = next_id /\ warm' = warm
    BY Zenon, <1>0 DEF inner, slots
  <1>1. SlotTypes'
    <2>1. handle' \in [Sessions -> Workers]
      BY Zenon, Enums, CoreParts DEF SlotTypes, DropOpen, TakeHandle
    <2>2. call_lock' \in [Ids -> Tasks \cup {NoTask}]
      BY Zenon, CoreParts DEF SlotTypes, DropOpen, UnlockCall
    <2> QED BY Zenon, <2>1, <2>2, <1>f, CoreParts DEF SlotTypes
  <1>2. OsTypes' /\ \A w \in Ids : w # wrk[t] /\ db'[w] => db[w]
    <2>1. CASE DropDead(t)
      <3>1. Decays BY Zenon, <2>1, <1>a, ExitDecays, CoreParts DEF OsTypes, Decays, DropDead, os
      <3> QED BY Zenon, <3>1 DEF Decays, OsTypes
    <2>2. CASE proc' = proc /\ db' = [db EXCEPT ![wrk[t]] = TRUE]
      BY Zenon, <2>2, CoreParts DEF OsTypes
    <2> QED BY Zenon, <2>1, <2>2 DEF DropOpen
  <1>3. TaskTypes' BY Zenon, Enums, CoreParts DEF TaskTypes, DropOpen
  <1>4. Shapes'
    <2>1. /\ {"guard", "giveback"} \subseteq Ops \ {"open", "call", "warm"}
          /\ "giveback" \in Releases
          /\ {"take", "release"} \cap (SpawnPCs \cup {"free", "lock", "rpc", "clear"}) = {}
      BY Zenon, Enums DEF Releases, SpawnPCs
    <2> QED BY Zenon, <2>1, <1>0, <1>a, <1>c, <1>e, KeepShapes
  <1>5. FreshIds'
    <2>1. \A v \in Tasks : wrk'[v] \in {wrk[v], wrk[t]} BY Zenon, <1>c
    <2> QED BY Zenon, <2>1, <1>f, CoreParts DEF FreshIds
  <1>6. Reservations'
    <2>1. wrk[t] \notin spawning BY Zenon, <1>b, CoreParts DEF Reservations
    <2>2. \A v \in Tasks : new'[v] = new[v] /\ (wrk'[v] \in spawning => wrk'[v] = wrk[v])
      BY Zenon, <2>1, <1>0, <1>c
    <2> QED BY Zenon, <2>2, <1>f, KeepReservations
  <1>7. WarmInv'
    <2>1. pc[t] # "free" /\ op[t] # "warm" BY Zenon, <1>0 DEF DropOpen
    <2>2. ~(warm > 0) BY Zenon, <2>1, CoreParts DEF WarmInv, Free
    <2>3. \A v \in Tasks : op'[v] = "warm" => op[v] = "warm" BY Zenon, <1>c
    <2> QED BY Zenon, <2>2, <2>3, <1>f, KeepWarmInv
  <1>8. SoleUser'
    <2> SUFFICES ASSUME NEW v \in Tasks, op'[v] \in {"open", "call"}
                 PROVE  handle'[ses'[v]] = wrk'[v] /\ \A x \in Tasks : ses'[x] = ses'[v] => x = v
      BY Zenon DEF SoleUser
    <2>1. v # t /\ v # u BY Zenon, <1>c
    <2>2. op[v] \in {"open", "call"} /\ ses'[v] = ses[v] /\ wrk'[v] = wrk[v]
      BY Zenon, <2>1, <1>c
    <2>3. /\ handle[ses[v]] = wrk[v] /\ ses[v] \in Sessions
          /\ \A x \in Tasks : ses[x] = ses[v] => x = v
      BY ZenonT(30), <2>2, CoreParts DEF SoleUser, Shapes, TaskTypes
    <2>4. ses[v] # ses[t] BY Zenon, <2>1, <2>3
    <2>5. ASSUME NEW x \in Tasks, ses'[x] = ses'[v] PROVE x = v
      <3>1. x # t /\ x # u BY Zenon, <2>2, <2>4, <2>5, <1>c
      <3> QED BY Zenon, <3>1, <2>2, <2>3, <2>5, <1>c
    <2> QED BY Zenon, <2>2, <2>3, <2>4, <2>5, <1>d
  <1>p. /\ \A s \in Sessions : handle'[s] # wrk[t]
        /\ \A v \in Tasks : pc[v] \in {"release", "closing"} => wrk[v] # wrk[t]
    <2>1. \A s \in Sessions : s # ses[t] => handle[s] # wrk[t]
      BY Zenon, <1>a, CoreParts DEF ExclusiveLease
    <2>2. \A s \in Sessions : handle'[s] # wrk[t] BY Zenon, <2>1, <1>a, <1>d
    <2>3. \A v \in Tasks : pc[v] \in {"release", "closing"} => handle[ses[t]] # wrk[v]
      BY Zenon, <1>a, CoreParts DEF SoleRelease
    <2> QED BY Zenon, <2>2, <2>3, <1>a
  <1>9. SoleRelease'
    <2> SUFFICES ASSUME NEW v \in Tasks, pc'[v] \in {"release", "closing"}
                 PROVE  /\ \A s \in Sessions : handle'[s] # wrk'[v]
                        /\ \A x \in Tasks : pc'[x] \in {"release", "closing"} /\ wrk'[x] = wrk'[v] => x = v
                        /\ state'[wrk'[v]] \in {"Dead", "Leased", "Closing"}
                        /\ pc'[v] = "closing" => state'[wrk'[v]] # "Leased"
      BY Zenon DEF SoleRelease
    <2>1. CASE v = u
      <3>1. ASSUME NEW x \in Tasks, pc'[x] \in {"release", "closing"}, wrk'[x] = wrk[t] PROVE x = u
        BY Zenon, <3>1, <1>c, <1>p
      <3> QED BY Zenon, <2>1, <3>1, <1>b, <1>c, <1>f, <1>p
    <2>2. CASE v # u
      <3>1. v # t /\ pc'[v] = pc[v] /\ wrk'[v] = wrk[v] /\ pc[v] \in {"release", "closing"}
        BY Zenon, <2>2, <1>c
      <3>2. /\ wrk[v] # wrk[t] /\ wrk[v] # NoWorker /\ \A s \in Sessions : handle[s] # wrk[v]
            /\ \A x \in Tasks : pc[x] \in {"release", "closing"} /\ wrk[x] = wrk[v] => x = v
            /\ state[wrk[v]] \in {"Dead", "Leased", "Closing"}
            /\ pc[v] = "closing" => state[wrk[v]] # "Leased"
        BY Zenon, <3>1, <1>p, CoreParts DEF SoleRelease, Shapes, SpawnPCs
      <3>3. ASSUME NEW x \in Tasks, pc'[x] \in {"release", "closing"}, wrk'[x] = wrk'[v] PROVE x = v
        <4>1. x # t /\ x # u BY Zenon, <3>1, <3>2, <3>3, <1>c
        <4> QED BY Zenon, <4>1, <3>1, <3>2, <3>3, <1>c
      <3>4. \A s \in Sessions : handle'[s] # wrk[v] BY Zenon, <3>2, <1>d
      <3> QED BY Zenon, <3>1, <3>2, <3>3, <3>4, <1>f
    <2> QED BY Zenon, <2>1, <2>2
  <1>10. RetiredIsDead'
    <2>1. \A v \in Tasks : v # t /\ v # u => new'[v] = new[v] BY Zenon, <1>0
    <2> QED BY Zenon, <2>1, <1>c, <1>f, CoreParts DEF RetiredIsDead, SpawnPCs
  <1>11. ExclusiveLease'
    <2>1. \A s \in Sessions : handle'[s] # NoWorker => s # ses[t] /\ handle'[s] = handle[s]
      BY Zenon, <1>d
    <2> QED BY Zenon, <2>1, <1>f, CoreParts DEF ExclusiveLease
  <1>12. DbInv' BY Zenon, <1>2, <1>b, <1>f, CoreParts DEF DbInv
  <1>13. (PoolTypes /\ Listed)' BY Zenon, <1>0, Frames DEF slots, inner
  <1> QED
    BY Zenon, <1>1, <1>2, <1>3, <1>4, <1>5, <1>6, <1>7, <1>8, <1>9, <1>10, <1>11, <1>12,
       <1>13 DEF Core

\* DropGuarded preserves Core. A call or a release is dropped with its
\* WorkerRetireGuard armed.
LEMMA CoreDropGuarded == ASSUME Core, NEW t \in Tasks, DropGuarded(t) PROVE Core'
  <1> USE CoreParts DEF DropGuarded, GuardDropped, UnlockCall, Start, Become, inner, slots, os
  <1>0. Decays BY Zenon, Enums, ExitDecays, CloseServiceDecays DEF OsTypes, TaskTypes, Shapes,
                  SpawnPCs, Decays, DropDead, Releases
  <1> USE <1>0 DEF Decays
  <1>1. SlotTypes' BY Zenon, Enums DEF SlotTypes, TaskTypes
  <1>2. OsTypes' BY Zenon, Enums DEF OsTypes
  <1>3. TaskTypes' BY Zenon, Enums DEF SlotTypes, TaskTypes
  <1>4. Shapes' BY ZenonT(30), Enums DEF TaskTypes, Shapes, Releases, SpawnPCs, Free
  <1>5. FreshIds' BY Zenon, PoolConfig, Enums DEF PoolTypes, SlotTypes, TaskTypes, Shapes,
                     FreshIds, SpawnPCs, Free
  <1>r. /\ spawning' = spawning /\ state' = state
        /\ \A u \in Tasks : new'[u] = new[u] /\ wrk'[u] \in {wrk[u], NoWorker}
    BY Zenon DEF TaskTypes, Shapes, SpawnPCs, Releases
  <1>s. NoWorker \notin spawning BY Zenon, Enums, CoreParts DEF PoolTypes
  <1>6. Reservations' BY Zenon, <1>r, <1>s, KeepReservations
  <1>7. WarmInv' BY ZenonT(30), PoolConfig, Enums DEF PoolTypes, TaskTypes, Shapes, WarmInv,
                    SpawnPCs, Free, Serving, Releases
  <1>8. SoleUser' BY ZenonT(30), Enums, Names DEF SlotTypes, TaskTypes, Shapes, SoleUser,
                     SpawnPCs, Free, Releases
  <1>9. SoleRelease'
    BY ZenonT(30), Enums, Names DEF SlotTypes, TaskTypes, SoleUser, SoleRelease,
       ExclusiveLease, SpawnPCs, Free, Releases
  <1>10. RetiredIsDead' BY ZenonT(30), Enums DEF SlotTypes, TaskTypes, Shapes, RetiredIsDead,
                           SpawnPCs, Free, Releases
  <1>11. DbInv' BY Zenon, Enums DEF SlotTypes, OsTypes, TaskTypes, Shapes, SoleUser,
                   SoleRelease, ExclusiveLease, DbInv, SpawnPCs
  <1>12. (PoolTypes /\ Listed /\ ExclusiveLease)'
    BY Zenon, Frames DEF inner, slots, os, task
  <1> QED BY Zenon, <1>1, <1>2, <1>3, <1>4, <1>5, <1>6, <1>7, <1>8, <1>9, <1>10, <1>11, <1>12 DEF Core

\* DropUnguarded preserves Core. An operation is dropped where nothing is
\* armed.
LEMMA CoreDropUnguarded == ASSUME Core, NEW t \in Tasks, DropUnguarded(t) PROVE Core'
  <1>0. Decays
    BY Zenon, Enums, ExitDecays, CloseServiceDecays, CoreParts DEF OsTypes, TaskTypes, Shapes,
       SpawnPCs, Decays, DropDead, Releases, DropUnguarded, Done, Become, inner, slots, os
  <1>1. OsTypes' BY <1>0 DEF OsTypes, Decays
  <1>2. TaskTypes' BY Zenon, Enums, CoreParts DEF TaskTypes, DropUnguarded, Done, Become
  <1>3. Shapes' BY Zenon, CoreParts DEF TaskTypes, Shapes, SpawnPCs, DropUnguarded, Done, Become
  <1>4. FreshIds'
    BY Zenon, CoreParts DEF TaskTypes, FreshIds, DropUnguarded, Done, Become, inner, slots
  <1>r. /\ spawning' = spawning /\ state' = state
        /\ \A u \in Tasks : new'[u] = new[u] /\ wrk'[u] \in {wrk[u], NoWorker}
    BY Zenon, CoreParts DEF TaskTypes, Shapes, SpawnPCs, DropUnguarded, Done, Become, inner,
       slots
  <1>s. NoWorker \notin spawning BY Enums, CoreParts DEF PoolTypes
  <1>5. Reservations' BY Zenon, <1>r, <1>s, KeepReservations
  <1>6. WarmInv'
    BY Zenon, CoreParts DEF TaskTypes, WarmInv, Free, Releases, DropUnguarded, Done, Become
  <1>7. SoleUser'
    BY Zenon, CoreParts DEF TaskTypes, Shapes, SoleUser, DropUnguarded, Done, Become
  <1>8. SoleRelease'
    BY Zenon, CoreParts DEF TaskTypes, SoleRelease, DropUnguarded, Done, Become, slots
  <1>9. RetiredIsDead'
    BY Zenon, CoreParts DEF TaskTypes, RetiredIsDead, DropUnguarded, Done, Become, slots
  <1>10. DbInv' BY Zenon, <1>0, CoreParts DEF DbInv, DropUnguarded, slots, Decays
  <1>11. (PoolTypes /\ SlotTypes /\ Listed /\ ExclusiveLease)'
    BY Zenon, Frames DEF DropUnguarded, inner, slots, os, task
  <1> QED BY <1>1, <1>2, <1>3, <1>4, <1>5, <1>6, <1>7, <1>8, <1>9, <1>10, <1>11 DEF Core

-----------------------------------------------------------------------------
(* Core is inductive, and no step exceeds the capacity. *)

\* A step that changes nothing preserves Core.
LEMMA CoreStutter == ASSUME Core, UNCHANGED vars PROVE Core'
  <1> USE CoreParts DEF vars
  <1>1. PoolTypes' BY Zenon DEF PoolTypes
  <1>2. SlotTypes' BY Zenon DEF SlotTypes
  <1>3. OsTypes' /\ TaskTypes' BY Zenon DEF OsTypes, TaskTypes
  <1>4. Shapes' BY Zenon DEF Shapes
  <1>5. FreshIds' /\ Listed' BY Zenon DEF FreshIds, Listed
  <1>6. Reservations' BY Zenon DEF Reservations
  <1>7. WarmInv' BY Zenon DEF WarmInv, Free
  <1>8. SoleUser' BY Zenon DEF SoleUser
  <1>9. SoleRelease' BY Zenon DEF SoleRelease
  <1>10. RetiredIsDead' BY Zenon DEF RetiredIsDead
  <1>11. ExclusiveLease' BY Zenon DEF ExclusiveLease
  <1>12. DbInv' BY Zenon DEF DbInv
  <1> QED BY Zenon, <1>1, <1>2, <1>3, <1>4, <1>5, <1>6, <1>7, <1>8, <1>9, <1>10, <1>11, <1>12 DEF Core

\* Next preserves Core.
LEMMA CoreNext == ASSUME Core, [Next]_vars PROVE Core'
  <1>1. ASSUME NEW t \in Tasks, Step(t) PROVE Core'
    BY Zenon, <1>1, CoreServed, CoreInstall, CoreUnreserve, CoreSendCall, CoreCallOk,
       CoreOpenError,
       CoreCallRetires, CoreCallFails, CoreClear, CoreBeginRelease, CoreCloseOk, CoreCloseFails,
       CoreScheduleIdleReap, CoreTake, CoreForget, CoreFinish, CoreEnsure DEF Step
  <1>2. ASSUME NEW t \in Tasks, Begin(t) PROVE Core'
    BY Zenon, <1>2, CoreWarmReserve, CoreLeaseIdle, CoreLeaseSpawn, CoreLeaseExhausted,
       CoreStartCall,
       CoreStartRelease, CoreReapIdle DEF Begin
  <1>3. ASSUME NEW t \in Tasks, Drop(t) PROVE Core'
    BY Zenon, <1>3, CoreDropSpawn, CoreDropOpenWaiting, CoreDropGuarded, CoreDropUnguarded,
       CoreDropOpen DEF Drop
  <1>4. ASSUME NEW w \in Ids, Shutdown(w) \/ Crash(w) PROVE Core'
    BY Zenon, <1>4, CoreShutdownTake, CoreShutdownForget, CoreShutdownFinish, CoreCrash
       DEF Shutdown
  <1> QED BY Zenon, <1>1, <1>2, <1>3, <1>4, CoreShutdownAll, CoreStutter DEF Next

=============================================================================
