-------------------------- MODULE WorkerPoolInv --------------------------
EXTENDS WorkerPool

(* The inductive invariant of the worker pool (pool.rs). *)

SpawnPCs == {"serve", "install", "unreserve"}

\* A task's program counter agrees with its operation and its workers.
Shapes ==
  \A t \in Tasks :
    /\ pc[t] = "free" => op[t] = "none" /\ ses[t] = NoSession
    /\ pc[t] \in SpawnPCs \/ wrk[t] # NoWorker \/ pc[t] = "free"
    /\ pc[t] \in SpawnPCs <=> new[t] # NoWorker
    /\ op[t] = "warm" => pc[t] \in SpawnPCs /\ wrk[t] = NoWorker
    /\ pc[t] \in {"lock", "rpc", "clear"} => op[t] \in {"open", "call"}
    /\ op[t] \in {"open", "call"} => ses[t] # NoSession
    /\ op[t] = "call" => wrk[t] # NoWorker
    /\ pc[t] \in {"serve", "install"} =>
         wrk[t] # new[t] /\ (wrk[t] = NoWorker => op[t] \in {"open", "warm"})
    /\ pc[t] \in {"release", "closing", "schedule"} => op[t] \in Releases

\* Ids are handed out in order: an id from next_id on has never been used.
FreshIds ==
  /\ \A w \in Ids : state[w] # "None" => w < next_id
  /\ \A w \in spawning : w < next_id
  /\ \A t \in Tasks : wrk[t] # NoWorker => wrk[t] < next_id

\* A reservation belongs to exactly one task, and no other task refers to a
\* worker that is still being spawned.
Reservations ==
  /\ \A w \in spawning : state[w] = "None" /\ \E t \in Tasks : new[t] = w
  /\ \A t \in Tasks : new[t] # NoWorker => new[t] \in spawning
  /\ \A t, u \in Tasks : new[t] # NoWorker /\ new[t] = new[u] => t = u
  /\ \A t \in Tasks : wrk[t] \in spawning => wrk[t] = new[t]

\* A slot that was ever listed has a state.
Listed ==
  /\ \A w \in children : state[w] # "None"
  /\ \A w \in Ids : down[w] # "no" => state[w] # "None"

\* While warm_min runs nothing else does.
WarmInv ==
  /\ warm > 0 => /\ \A t \in Tasks : Free(t) \/ op[t] = "warm"
                 /\ \A w \in Ids : timers[w] = 0
  /\ \A t \in Tasks : op[t] = "warm" => warm > 0
  /\ \A t, u \in Tasks : op[t] = "warm" /\ op[u] = "warm" => t = u

\* An open or a call works on the worker its session has a handle to, and is
\* the only task of that session.
SoleUser ==
  \A t \in Tasks : op[t] \in {"open", "call"} =>
    /\ handle[ses[t]] = wrk[t]
    /\ \A u \in Tasks : ses[u] = ses[t] => u = t

\* A slot being released has no handle left, and one task releases it.
SoleRelease ==
  \A t \in Tasks : pc[t] \in {"release", "closing"} =>
    /\ \A s \in Sessions : handle[s] # wrk[t]
    /\ \A u \in Tasks : pc[u] \in {"release", "closing"} /\ wrk[u] = wrk[t] => u = t
    /\ state[wrk[t]] \in {"Dead", "Leased", "Closing"}
    /\ pc[t] = "closing" => state[wrk[t]] # "Leased"

\* mark_dead goes on, and the pool is replenished, only after take_dead_worker.
RetiredIsDead ==
  \A t \in Tasks :
    (\/ pc[t] \in {"forget", "finish", "unlist", "ensure"}
     \/ pc[t] \in SpawnPCs /\ wrk[t] \notin {NoWorker, new[t]}) => state[wrk[t]] = "Dead"

\* A database is open only in a worker that is in use or retired.
DbInv == \A w \in Ids : state[w] \in {"None", "Idle"} => ~db[w]

\* What warm_min will still spawn fits under min_workers.
WarmRoom == warm > 0 => Cardinality(children) + warm <= MinWorkers

\* The part of the invariant that counts nothing.
Core ==
  /\ PoolTypes /\ SlotTypes /\ OsTypes /\ TaskTypes
  /\ Shapes
  /\ FreshIds /\ Reservations /\ Listed
  /\ WarmInv
  /\ SoleUser /\ SoleRelease /\ RetiredIsDead
  /\ ExclusiveLease
  /\ DbInv

IInv == Core /\ WithinCapacity /\ WarmRoom

\* Only a leased slot has a lessee.
Owned == \A w \in Ids : lessee[w] # NoSession => state[w] = "Leased"

\* A usable slot is listed: only dead ones are ever taken off the list.
Usable == \A w \in Ids : state[w] \in {"Idle", "Leased", "Closing"} => w \in children

\* shutdown_all, like mark_dead, goes on only after take_dead_worker.
DownIsDead == \A w \in Ids : down[w] \in {"forget", "finish", "unlist"} => state[w] = "Dead"

\* An id nobody has taken has no process.
Unborn == \A w \in Ids : proc[w] # "none" => w < next_id

\* A reservation that is given back without a slot has no process any more.
FailedSpawns == \A t \in Tasks : pc[t] = "unreserve" /\ wrk[t] # new[t] => proc[new[t]] # "alive"

\* Every running process has somebody who is going to end it, once it is neither
\* being spawned nor usable: the task or the branch of shutdown_all that owns
\* its DeadWorker, or the task retiring a slot that was dropped unlisted.
Tended ==
  \A w \in Ids : proc[w] = "alive" =>
    \/ w \in spawning
    \/ state[w] \in {"Idle", "Leased", "Closing"}
    \/ \E t \in Tasks : /\ wrk[t] = w
                        /\ \/ pc[t] \in {"forget", "finish"}
                           \/ pc[t] = "take" /\ op[t] = "guard" /\ state[w] = "None"
    \/ down[w] \in {"forget", "finish"}

Upkeep == Owned /\ Usable /\ DownIsDead /\ Unborn /\ FailedSpawns /\ Tended
=============================================================================
