----------------------------- MODULE WorkerPool -----------------------------
(***************************************************************************)
(* The supervisor's pool of child IDA workers (src/ida/pool.rs).           *)
(*                                                                         *)
(* Every `.await` of the code is a point where another tokio task may run, *)
(* so an operation of the pool is a TASK that moves from one program       *)
(* counter to the next; a step is what the code does between two awaits,   *)
(* usually one critical section of `inner` or of a slot's `child` lock.    *)
(* A session is one PooledSessionState.  Its owner runs one operation on   *)
(* it at a time (SessionManager holds `lifecycle`); tasks spawned by Drop  *)
(* implementations run beside it.                                          *)
(***************************************************************************)
EXTENDS Integers, FiniteSets

CONSTANTS
  Sessions,    \* PooledSessionState instances
  Tasks,       \* tokio tasks that may be running pool code at once
  MaxWorkers,  \* config.max_workers
  MinWorkers,  \* config.min_workers
  MaxSpawns,   \* bound: worker ids the model may hand out
  Transports,  \* {"stdio"}, {"http"} or both: how the supervisor was started
  Events,      \* subset of {"spawn", "crash", "shutdown"}: spawns may fail,
               \* workers may die, the supervisor may shut down
  DropPoints,  \* program counters at which an operation's future may be dropped
  NoSession,   \* "no session"
  NoTask       \* "no task"

ASSUME PoolConfig ==
  /\ MaxWorkers \in Nat \ {0}
  /\ MinWorkers \in Nat
  /\ MinWorkers <= MaxWorkers          \* ServeArgs::validate_pool
  /\ MaxSpawns \in Nat

ASSUME Names ==
  /\ NoSession \notin Sessions
  /\ NoTask \notin Tasks

VARIABLES
  children,   \* PoolInner.children, as a set of worker ids
  spawning,   \* PoolInner.spawning
  next_id,    \* PoolInner.next_id
  state,      \* ChildSlot.child.state
  lessee,     \* the session of a Leased slot
  call_lock,  \* who holds ChildSlot.call_lock
  timers,     \* idle-reap sleeps started at or after last_used
  handle,     \* PooledSessionState.handle
  proc,       \* the operating-system process of a worker
  db,         \* the process has a database open
  pc,         \* the running pool operations, by task: where each one is,
  op,         \* what it does,
  ses,        \* for which session,
  wrk,        \* on which worker,
  new,        \* and the worker it is spawning
  down,       \* the branches of shutdown_all's join_all
  warm        \* workers warm_min has still to spawn; -1: it failed

vars == <<children, spawning, next_id, state, lessee, call_lock, timers,
          handle, proc, db, pc, op, ses, wrk, new, down, warm>>
inner == <<children, spawning, next_id>>
slots == <<state, lessee, timers>>
os    == <<proc, db>>
task  == <<pc, op, ses, wrk, new>>

Ids      == 0 .. MaxSpawns - 1
NoWorker == -1
Workers  == Ids \cup {NoWorker}

ChildStates == {"None", "Idle", "Leased", "Closing", "Dead"}

\* "lost": the supervisor killed the process while a database was open in it.
ProcStates == {"none", "alive", "exited", "lost"}

\* What a task is doing.  "close" and "discard" are a session's close_with_save
\* with save = true and false, "giveback" the release of a lease whose open
\* failed or whose session was dropped; "retire" is the mark_dead at the end of dispatch;
\* "guard" is a task spawned by the Drop of a guard or of a reservation.
Ops == {"none", "open", "call", "retire", "close", "discard", "giveback", "guard", "reap", "warm"}

Releases == {"close", "discard", "giveback"}

PCs == {"free", "serve", "install", "unreserve", "lock", "rpc", "release",
        "closing", "take", "forget", "finish", "unlist", "ensure", "clear", "schedule"}

PoolTypes ==
  /\ children \in SUBSET Ids
  /\ spawning \in SUBSET Ids
  /\ next_id \in 0 .. MaxSpawns
  /\ down \in [Ids -> {"no", "take", "forget", "finish", "unlist", "done"}]
  /\ warm \in -1 .. MinWorkers

SlotTypes ==
  /\ state \in [Ids -> ChildStates]
  /\ lessee \in [Ids -> Sessions \cup {NoSession}]
  /\ call_lock \in [Ids -> Tasks \cup {NoTask}]
  /\ timers \in [Ids -> Nat]
  /\ handle \in [Sessions -> Workers]

OsTypes == proc \in [Ids -> ProcStates] /\ db \in [Ids -> BOOLEAN]

TaskTypes ==
  /\ pc \in [Tasks -> PCs]
  /\ op \in [Tasks -> Ops]
  /\ ses \in [Tasks -> Sessions \cup {NoSession}]
  /\ wrk \in [Tasks -> Workers]
  /\ new \in [Tasks -> Workers]

\* Types; in particular no idle timer fires that schedule_idle_reap did not start.
TypeOK == PoolTypes /\ SlotTypes /\ OsTypes /\ TaskTypes

\* run_supervisor_http warms the pool before it serves; run_supervisor_stdio
\* never does.
Init ==
  /\ children = {} /\ spawning = {} /\ next_id = 0
  /\ state = [w \in Ids |-> "None"]
  /\ lessee = [w \in Ids |-> NoSession]
  /\ call_lock = [w \in Ids |-> NoTask]
  /\ timers = [w \in Ids |-> 0]
  /\ handle = [s \in Sessions |-> NoWorker]
  /\ proc = [w \in Ids |-> "none"]
  /\ db = [w \in Ids |-> FALSE]
  /\ pc = [t \in Tasks |-> "free"]
  /\ op = [t \in Tasks |-> "none"]
  /\ ses = [t \in Tasks |-> NoSession]
  /\ wrk = [t \in Tasks |-> NoWorker]
  /\ new = [t \in Tasks |-> NoWorker]
  /\ down = [w \in Ids |-> "no"]
  /\ warm \in {IF m = "http" THEN MinWorkers ELSE 0 : m \in Transports}

-----------------------------------------------------------------------------
(* Helpers *)

Serving == warm = 0

Live == {w \in children : state[w] # "Dead"}

\* The session has no operation of its own in progress.
Quiet(s) == \A t \in Tasks : ses[t] # s

Free(t) == pc[t] = "free"

\* Task t goes on, at p, with operation k of session s on worker w, spawning n.
Become(t, p, k, s, w, n) ==
  /\ pc' = [pc EXCEPT ![t] = p]
  /\ op' = [op EXCEPT ![t] = k]
  /\ ses' = [ses EXCEPT ![t] = s]
  /\ wrk' = [wrk EXCEPT ![t] = w]
  /\ new' = [new EXCEPT ![t] = n]

Goto(t, p)           == pc' = [pc EXCEPT ![t] = p] /\ UNCHANGED <<op, ses, wrk, new>>
Done(t)              == Become(t, "free", "none", NoSession, NoWorker, NoWorker)
Start(t, p, k, s, w) == Become(t, p, k, s, w, NoWorker)

\* take_handle
KeepHandle(s) == UNCHANGED handle                \* mutant of TakeHandle
TakeHandle(s) == handle' = [handle EXCEPT ![s] = NoWorker]

LockCall(t, w) == call_lock' = [call_lock EXCEPT ![w] = t]
UnlockNever(t) == UNCHANGED call_lock            \* mutant of UnlockCall
UnlockCall(t)  ==
  call_lock' = [w \in Ids |-> IF call_lock[w] = t THEN NoTask ELSE call_lock[w]]

\* The process of w ends now.
Exit(w) ==
  /\ proc' = [proc EXCEPT ![w] = IF @ = "alive" THEN "exited" ELSE @]
  /\ db' = [db EXCEPT ![w] = FALSE]

\* close_with_timeout: the transport of w is closed, and a worker that is quick
\* enough packs its database and exits; otherwise it is killed.
CloseService(w) ==
  \/ Exit(w)
  \/ /\ proc[w] = "alive" /\ db[w]
     /\ proc' = [proc EXCEPT ![w] = "lost"]
     /\ db' = [db EXCEPT ![w] = FALSE]

\* reserve_spawn_slot_locked, and the synchronous start of the process that
\* follows it with no await in between, which may fail.
Reserve(t, k, s, w) ==
  /\ next_id < MaxSpawns
  /\ next_id' = next_id + 1
  /\ spawning' = spawning \cup {next_id}
  /\ \/ /\ proc' = [proc EXCEPT ![next_id] = "alive"]
        /\ Become(t, "serve", k, s, w, next_id)
     \/ /\ "spawn" \in Events
        /\ Become(t, "unreserve", k, s, w, next_id)
        /\ UNCHANGED proc

-----------------------------------------------------------------------------
(* Spawning a worker: warm_min, lease, spawn_reserved_slot *)

\* One turn of warm_min's loop.
WarmReserve(t) ==
  /\ warm > 0
  /\ \A u \in Tasks : Free(u)
  /\ Reserve(t, "warm", NoSession, NoWorker)
  /\ UNCHANGED <<children, slots, call_lock, handle, db, down, warm>>

\* An open of session s may start in task t.
MayOpen(t, s) == Serving /\ Free(t) /\ Quiet(s) /\ handle[s] = NoWorker

LeasableUnlessDead(w) == state[w] # "Dead"       \* mutant of Leasable
Leasable(w) == state[w] = "Idle"

NoIdle == \A w \in children : ~Leasable(w)

RoomForOneMore == Cardinality(spawning) + Cardinality(Live) <= MaxWorkers  \* mutant of Room
Room == Cardinality(spawning) + Cardinality(Live) < MaxWorkers

\* lease: hand out an idle child.
LeaseIdle(t, s) ==
  /\ MayOpen(t, s)
  /\ \E w \in children :
       /\ Leasable(w)
       /\ state' = [state EXCEPT ![w] = "Leased"]
       /\ lessee' = [lessee EXCEPT ![w] = s]
       /\ timers' = [timers EXCEPT ![w] = 0]
       /\ handle' = [handle EXCEPT ![s] = w]
       /\ Start(t, "lock", "open", s, w)
  /\ UNCHANGED <<inner, call_lock, os, down, warm>>

\* lease: no idle child and room for another one.  Dead slots are forgotten.
LeaseSpawn(t, s) ==
  /\ MayOpen(t, s)
  /\ NoIdle /\ Room
  /\ children' = Live
  /\ Reserve(t, "open", s, NoWorker)
  /\ UNCHANGED <<slots, call_lock, handle, db, down, warm>>

\* lease: PoolExhausted.
LeaseExhausted(t, s) ==
  /\ MayOpen(t, s)
  /\ NoIdle /\ ~Room
  /\ children' = Live
  /\ UNCHANGED <<spawning, next_id, slots, call_lock, handle, os, task, down, warm>>

\* spawn_slot returned: the handshake with the child succeeded, or it failed
\* and dropping the transport killed the child.
Served(t) ==
  /\ pc[t] = "serve"
  /\ \/ /\ proc[new[t]] = "alive"
        /\ Goto(t, "install")
        /\ UNCHANGED os
     \/ /\ "spawn" \in Events \/ proc[new[t]] # "alive"
        /\ Exit(new[t])
        /\ Goto(t, "unreserve")
  /\ UNCHANGED <<inner, slots, call_lock, handle, down, warm>>

\* The task is spawning a worker for a lease, not to replenish the pool.
ForLease(t) == op[t] = "open" /\ wrk[t] = NoWorker

\* finish_spawn_reservation(Some(slot)); a lease also stores its handle.
Install(t) ==
  LET n == new[t]  s == ses[t] IN
  /\ pc[t] = "install"
  /\ spawning' = spawning \ {n}
  /\ children' = children \cup {n}
  /\ \/ /\ ForLease(t)
        /\ state' = [state EXCEPT ![n] = "Leased"]
        /\ lessee' = [lessee EXCEPT ![n] = s]
        /\ handle' = [handle EXCEPT ![s] = n]
        /\ Start(t, "lock", "open", s, n)
        /\ UNCHANGED warm
     \/ /\ op[t] = "warm"
        /\ state' = [state EXCEPT ![n] = "Idle"]
        /\ Done(t)
        /\ warm' = warm - 1
        /\ UNCHANGED <<lessee, handle>>
     \/ /\ ~ForLease(t) /\ op[t] # "warm"
        /\ state' = [state EXCEPT ![n] = "Idle"]
        /\ Start(t, "ensure", op[t], s, wrk[t])
        /\ UNCHANGED <<lessee, handle, warm>>
  /\ UNCHANGED <<next_id, call_lock, timers, os, down>>

\* What the caller of call_tool does with an error: open_observed gives back
\* its fresh lease, dispatch forgets the handle.
GiveUp(t) ==
  \/ /\ op[t] = "open"
     /\ TakeHandle(ses[t])
     /\ Start(t, "release", "giveback", ses[t], wrk[t])
  \/ /\ op[t] # "open"
     /\ Start(t, "clear", "call", ses[t], wrk[t])
     /\ UNCHANGED handle

\* mark_dead has returned: an open or a call reports its error, everything else
\* is over.  call_lock is given up.
Resume(t) ==
  /\ UnlockCall(t)
  /\ \/ op[t] \in {"open", "call"} /\ GiveUp(t)
     \/ op[t] \notin {"open", "call"} /\ Done(t) /\ UNCHANGED handle

\* finish_spawn_reservation(None): the spawn failed or its future was dropped.
Unreserve(t) ==
  /\ pc[t] = "unreserve"
  /\ spawning' = spawning \ {new[t]}
  /\ \/ /\ wrk[t] = new[t]                               \* cleanup_slot: mark_dead follows
        /\ Start(t, "take", "guard", ses[t], wrk[t])
        /\ UNCHANGED <<call_lock, handle, warm>>
     \/ /\ wrk[t] = NoWorker
        /\ Done(t)
        /\ warm' = IF op[t] = "warm" THEN -1 ELSE warm   \* the server does not start
        /\ UNCHANGED <<call_lock, handle>>
     \/ /\ wrk[t] \notin {new[t], NoWorker}              \* ensure_min_workers gives up
        /\ Resume(t)
        /\ UNCHANGED warm
  /\ UNCHANGED <<children, next_id, slots, os, down>>

-----------------------------------------------------------------------------
(* PooledWorkerHandle::call_tool, as open_observed and dispatch use it *)

\* dispatch: required_handle, then call_tool waits for the slot's call_lock.
StartCall(t, s) ==
  /\ Serving /\ Free(t) /\ Quiet(s) /\ handle[s] # NoWorker
  /\ Start(t, "lock", "call", s, handle[s])
  /\ UNCHANGED <<inner, slots, call_lock, handle, os, down, warm>>

\* call_lock acquired: the request is sent only while the slot is leased to
\* the caller's session; WorkerCrashed or RemoteProtocol otherwise.
SendCall(t) ==
  /\ pc[t] = "lock" /\ call_lock[wrk[t]] = NoTask
  /\ \/ /\ state[wrk[t]] = "Leased" /\ lessee[wrk[t]] = ses[t]
        /\ LockCall(t, wrk[t])
        /\ Goto(t, "rpc")
        /\ UNCHANGED handle
     \/ /\ state[wrk[t]] # "Leased" \/ lessee[wrk[t]] # ses[t]
        /\ GiveUp(t)
        /\ UNCHANGED call_lock
  /\ UNCHANGED <<inner, slots, os, down, warm>>

\* The child answered.  open_idb leaves a database open.
CallOk(t) ==
  /\ pc[t] = "rpc" /\ proc[wrk[t]] = "alive"
  /\ db' = [db EXCEPT ![wrk[t]] = @ \/ op[t] = "open"]
  /\ UnlockCall(t) /\ Done(t)
  /\ UNCHANGED <<inner, slots, handle, proc, down, warm>>

\* The child answered open_idb with an error.  A timed-out open may still have
\* opened the database.
OpenError(t) ==
  /\ pc[t] = "rpc" /\ op[t] = "open" /\ proc[wrk[t]] = "alive"
  /\ db' \in {db, [db EXCEPT ![wrk[t]] = TRUE]}
  /\ UnlockCall(t) /\ GiveUp(t)
  /\ UNCHANGED <<inner, slots, proc, down, warm>>

\* The child answered with an error that retires it: dispatch drops the lease
\* and, with no guard armed, calls mark_dead.
CallRetires(t) ==
  /\ pc[t] = "rpc" /\ op[t] = "call" /\ proc[wrk[t]] = "alive"
  /\ handle' = [handle EXCEPT ![ses[t]] = IF @ = wrk[t] THEN NoWorker ELSE @]
  /\ UnlockCall(t)
  /\ Start(t, "take", "retire", ses[t], wrk[t])
  /\ UNCHANGED <<inner, slots, os, down, warm>>

\* No answer: transport error, watchdog timeout or cancellation.  mark_dead
\* follows, still under call_lock.
CallFails(t) ==
  /\ pc[t] = "rpc"
  /\ db' \in {db} \cup (IF op[t] = "open" /\ proc[wrk[t]] = "alive"
                         THEN {[db EXCEPT ![wrk[t]] = TRUE]} ELSE {})
  /\ Goto(t, "take")
  /\ UNCHANGED <<inner, slots, call_lock, handle, proc, down, warm>>

\* clear_handle_if_worker
Clear(t) ==
  /\ pc[t] = "clear"
  /\ handle' = [handle EXCEPT ![ses[t]] = IF @ = wrk[t] THEN NoWorker ELSE @]
  /\ Done(t)
  /\ UNCHANGED <<inner, slots, call_lock, os, down, warm>>

-----------------------------------------------------------------------------
(* release_with_save *)

\* close_with_save, or the release spawned by the Drop of a PooledSessionState:
\* the handle is taken, so no later operation of the session can use it.
StartRelease(t, s, k) ==
  /\ Serving /\ Free(t) /\ Quiet(s) /\ handle[s] # NoWorker
  /\ TakeHandle(s)
  /\ Start(t, "release", k, s, handle[s])
  /\ UNCHANGED <<inner, slots, call_lock, os, down, warm>>

\* call_lock acquired: a dead slot needs nothing, any other becomes Closing.
BeginRelease(t) ==
  LET w == wrk[t] IN
  /\ pc[t] = "release" /\ call_lock[w] = NoTask
  /\ \/ /\ state[w] = "Dead"
        /\ Done(t)
        /\ UNCHANGED <<state, lessee, call_lock>>
     \/ /\ state[w] # "Dead"
        /\ state' = [state EXCEPT ![w] = "Closing"]
        /\ lessee' = [lessee EXCEPT ![w] = NoSession]
        /\ LockCall(t, w)
        /\ Goto(t, "closing")
  /\ UNCHANGED <<inner, timers, handle, os, down, warm>>

\* The state a slot gets when its worker has closed the database.
IdleAlways(w) == "Idle"                          \* mutant of IdleUnlessDead
IdleUnlessDead(w) == IF state[w] = "Dead" THEN "Dead" ELSE "Idle"

\* close_idb succeeded: the slot is idle again unless it died meanwhile.
CloseOk(t) ==
  LET w == wrk[t] IN
  /\ pc[t] = "closing" /\ proc[w] = "alive"
  /\ db' = [db EXCEPT ![w] = FALSE]
  /\ state' = [state EXCEPT ![w] = IdleUnlessDead(w)]
  /\ UnlockCall(t)
  /\ Goto(t, "schedule")
  /\ UNCHANGED <<inner, lessee, timers, handle, proc, down, warm>>

\* Mutant of CloseFails: the worker goes back to the pool all the same.
CloseFailsReusable(t) ==
  /\ pc[t] = "closing"
  /\ state' = [state EXCEPT ![wrk[t]] = IdleUnlessDead(wrk[t])]
  /\ UnlockCall(t) /\ Goto(t, "schedule")
  /\ UNCHANGED <<inner, lessee, timers, handle, os, down, warm>>

\* close_idb failed or took more than CHILD_CLOSE_TIMEOUT_SECS.
CloseFails(t) ==
  LET w == wrk[t] IN
  /\ pc[t] = "closing"
  /\ db' \in {db, [db EXCEPT ![w] = FALSE]}
  /\ Goto(t, "take")
  /\ UNCHANGED <<inner, slots, call_lock, handle, proc, down, warm>>

\* release_with_save: start the idle timer of a slot that is idle.
ScheduleIdleReap(t) ==
  LET w == wrk[t] IN
  /\ pc[t] = "schedule"
  /\ \/ state[w] = "Idle" /\ timers' = [timers EXCEPT ![w] = @ + 1]
     \/ state[w] # "Idle" /\ UNCHANGED timers
  /\ Done(t)
  /\ UNCHANGED <<inner, state, lessee, call_lock, handle, os, down, warm>>

-----------------------------------------------------------------------------
(* mark_dead: take_dead_worker, forget_slot, finish_dead_worker, replenish *)

\* take_dead_worker: whoever finds the slot alive owns its DeadWorker.
Take(t) ==
  LET w == wrk[t] IN
  /\ pc[t] = "take"
  /\ state' = [state EXCEPT ![w] = "Dead"]
  /\ lessee' = [lessee EXCEPT ![w] = NoSession]
  /\ Goto(t, IF state[w] = "Dead" THEN "unlist" ELSE "forget")
  /\ UNCHANGED <<inner, timers, call_lock, handle, os, down, warm>>

\* forget_slot
Forget(t) ==
  /\ pc[t] \in {"forget", "unlist"}
  /\ children' = children \ {wrk[t]}
  /\ Goto(t, IF pc[t] = "forget" THEN "finish" ELSE "ensure")
  /\ UNCHANGED <<spawning, next_id, slots, call_lock, handle, os, down, warm>>

\* finish_dead_worker; an idle reap does not replenish.
Finish(t) ==
  /\ pc[t] = "finish"
  /\ CloseService(wrk[t])
  /\ \/ op[t] = "reap" /\ Done(t)
     \/ op[t] # "reap" /\ Goto(t, "ensure")
  /\ UNCHANGED <<inner, slots, call_lock, handle, down, warm>>

\* One turn of ensure_min_workers' loop.  It counts Dead slots that are still
\* listed.  When the model has no id left it gives up, as after a failed spawn.
Ensure(t) ==
  LET listed == Cardinality(spawning) + Cardinality(children) IN
  /\ pc[t] = "ensure"
  /\ \/ /\ listed >= MinWorkers \/ listed >= MaxWorkers \/ next_id = MaxSpawns
        /\ Resume(t)
        /\ UNCHANGED <<spawning, next_id, proc>>
     \/ /\ listed < MinWorkers /\ listed < MaxWorkers
        /\ Reserve(t, op[t], ses[t], wrk[t])
        /\ UNCHANGED <<call_lock, handle>>
  /\ UNCHANGED <<children, slots, db, down, warm>>

ExpiredTwice(w) == TRUE                          \* mutant of Expired
Expired(w) == timers[w] > 0

\* mark_stale_idle_dead, when an idle timer fires: the slot is taken if it is
\* still idle, unused since the timer started, and not needed for the minimum.
ReapIdle(t, w) ==
  /\ Free(t) /\ Expired(w)
  /\ timers' = [timers EXCEPT ![w] = @ - 1]
  /\ \/ /\ Cardinality(spawning) + Cardinality(Live) > MinWorkers /\ state[w] = "Idle"
        /\ state' = [state EXCEPT ![w] = "Dead"]
        /\ Start(t, "forget", "reap", NoSession, w)
     \/ /\ Cardinality(spawning) + Cardinality(Live) <= MinWorkers \/ state[w] # "Idle"
        /\ UNCHANGED <<state, task>>
  /\ UNCHANGED <<inner, lessee, call_lock, handle, os, down, warm>>

-----------------------------------------------------------------------------
(* shutdown_all: mark_dead_without_replacement on a snapshot of children *)

ShutdownAll ==
  /\ "shutdown" \in Events /\ Serving /\ children # {} /\ \A w \in Ids : down[w] = "no"
  /\ down' = [w \in Ids |-> IF w \in children THEN "take" ELSE "no"]
  /\ UNCHANGED <<inner, slots, call_lock, handle, os, task, warm>>

ShutdownTake(w) ==
  /\ down[w] = "take"
  /\ state' = [state EXCEPT ![w] = "Dead"]
  /\ lessee' = [lessee EXCEPT ![w] = NoSession]
  /\ down' = [down EXCEPT ![w] = IF state[w] = "Dead" THEN "unlist" ELSE "forget"]
  /\ UNCHANGED <<inner, timers, call_lock, handle, os, task, warm>>

ShutdownForget(w) ==
  /\ down[w] \in {"forget", "unlist"}
  /\ children' = children \ {w}
  /\ down' = [down EXCEPT ![w] = IF @ = "forget" THEN "finish" ELSE "done"]
  /\ UNCHANGED <<spawning, next_id, slots, call_lock, handle, os, task, warm>>

ShutdownFinish(w) ==
  /\ down[w] = "finish"
  /\ CloseService(w)
  /\ down' = [down EXCEPT ![w] = "done"]
  /\ UNCHANGED <<inner, slots, call_lock, handle, task, warm>>

-----------------------------------------------------------------------------
(* The environment: workers die, and futures are dropped half-way *)

Crash(w) ==
  /\ "crash" \in Events /\ proc[w] = "alive"
  /\ Exit(w)
  /\ UNCHANGED <<inner, slots, call_lock, handle, task, down, warm>>

\* Drop of SpawnReservation: the task it spawns.
SlotForgotten(t) == Become(t, "unreserve", "guard", ses[t], NoWorker, new[t])  \* mutants of
NoSpawnDrop(t) == Done(t)                                                     \* ReservationDropped
ReservationDropped(t) ==
  Become(t, "unreserve", "guard", ses[t],
         IF pc[t] = "install" THEN new[t] ELSE NoWorker, new[t])

\* Drop of an armed WorkerRetireGuard: the task it spawns.
NoRetireDrop(t) == Done(t)                       \* mutant of GuardDropped
GuardDropped(t) == Start(t, "take", "guard", ses[t], wrk[t])

\* The future of a lease is dropped while it spawns.  Drop of SpawnReservation
\* gives the reservation back, and retires a slot that was ready.
DropSpawn(t) ==
  /\ pc[t] \in DropPoints \cap {"serve", "install", "unreserve"} /\ ForLease(t)
  /\ \/ pc[t] = "serve" /\ Exit(new[t])
     \/ pc[t] # "serve" /\ UNCHANGED os
  /\ ReservationDropped(t)
  /\ UNCHANGED <<inner, slots, call_lock, handle, down, warm>>

\* The DeadWorker, if the task owns one, goes away with the future.
DropDead(t) ==
  \/ pc[t] \in {"forget", "finish"} /\ Exit(wrk[t])
  \/ pc[t] \notin {"forget", "finish"} /\ UNCHANGED os

\* An open is dropped while it waits for call_lock: only the Drop of its
\* PooledSessionState acts, and releases the lease.
DropOpenWaiting(t) ==
  /\ pc[t] = "lock" /\ pc[t] \in DropPoints /\ op[t] = "open"
  /\ TakeHandle(ses[t])
  /\ Start(t, "release", "giveback", ses[t], wrk[t])
  /\ UNCHANGED <<inner, slots, call_lock, os, down, warm>>

\* An open is dropped during its request or the mark_dead after it: its guard
\* spawns mark_dead, its PooledSessionState spawns a release, in two tasks.
DropOpen(t, u) ==
  /\ pc[t] \in DropPoints \cap {"rpc", "take", "forget", "finish", "unlist"}
  /\ op[t] = "open" /\ Free(u)
  /\ TakeHandle(ses[t])
  /\ pc' = [pc EXCEPT ![t] = "take", ![u] = "release"]
  /\ op' = [op EXCEPT ![t] = "guard", ![u] = "giveback"]
  /\ ses' = [ses EXCEPT ![u] = ses[t]]
  /\ wrk' = [wrk EXCEPT ![u] = wrk[t]]
  /\ UNCHANGED new
  /\ UnlockCall(t)
  /\ \/ DropDead(t)
     \/ /\ pc[t] = "rpc" /\ proc[wrk[t]] = "alive"     \* the request still runs
        /\ db' = [db EXCEPT ![wrk[t]] = TRUE]
        /\ UNCHANGED proc
  /\ UNCHANGED <<inner, slots, down, warm>>

\* A call or a release is dropped with its WorkerRetireGuard armed.
DropGuarded(t) ==
  /\ \/ op[t] = "call" /\ pc[t] \in DropPoints \cap {"rpc", "take", "forget", "finish", "unlist"}
     \/ /\ op[t] \in Releases
        /\ pc[t] \in DropPoints \cap {"release", "closing", "take", "forget", "finish", "unlist"}
  /\ GuardDropped(t)
  /\ UnlockCall(t)
  /\ DropDead(t)
  /\ UNCHANGED <<inner, slots, handle, down, warm>>

\* An operation is dropped where nothing is armed.
DropUnguarded(t) ==
  /\ \/ op[t] = "call" /\ pc[t] \in DropPoints \cap {"lock", "clear"}
     \/ op[t] = "retire" /\ pc[t] \in DropPoints \cap {"take", "forget", "finish", "unlist"}
     \/ op[t] \in Releases /\ pc[t] \in DropPoints \cap {"schedule"}
  /\ Done(t)
  /\ DropDead(t)
  /\ UNCHANGED <<inner, slots, call_lock, handle, down, warm>>

-----------------------------------------------------------------------------
\* What a running task does next by itself.
Step(t) ==
  \/ Served(t) \/ Install(t) \/ Unreserve(t)
  \/ SendCall(t) \/ CallOk(t) \/ OpenError(t) \/ CallRetires(t) \/ CallFails(t) \/ Clear(t)
  \/ BeginRelease(t) \/ CloseOk(t) \/ CloseFails(t) \/ ScheduleIdleReap(t)
  \/ Take(t) \/ Forget(t) \/ Finish(t) \/ Ensure(t)

Begin(t) ==
  \/ WarmReserve(t)
  \/ \E s \in Sessions : \/ LeaseIdle(t, s) \/ LeaseSpawn(t, s) \/ LeaseExhausted(t, s)
                         \/ StartCall(t, s)
                         \/ \E k \in Releases : StartRelease(t, s, k)
  \/ \E w \in Ids : ReapIdle(t, w)

Drop(t) ==
  \/ DropSpawn(t) \/ DropOpenWaiting(t) \/ DropGuarded(t) \/ DropUnguarded(t)
  \/ \E u \in Tasks : DropOpen(t, u)

Shutdown(w) == ShutdownTake(w) \/ ShutdownForget(w) \/ ShutdownFinish(w)

Next ==
  \/ \E t \in Tasks : Step(t) \/ Begin(t) \/ Drop(t)
  \/ ShutdownAll
  \/ \E w \in Ids : Shutdown(w) \/ Crash(w)

\* tokio runs every task that can run, and every wait of a task ends at the
\* latest by the timeout around it.  One wait has no timeout in the code, the
\* handshake with a new child ("serve"): it is assumed that a child answers or
\* exits.
Fairness ==
  /\ \A t \in Tasks : WF_vars(Step(t))
  /\ \A w \in Ids : WF_vars(Shutdown(w))

Spec == Init /\ [][Next]_vars /\ Fairness

-----------------------------------------------------------------------------
(* Safety *)

\* lease and ensure_min_workers decide under `inner`, spawn outside it and
\* install under it again; still, reservations and usable slots together never
\* exceed max_workers.
WithinCapacity == Cardinality(spawning) + Cardinality(Live) <= MaxWorkers

\* A worker is never shared by two database sessions: a session's handle names
\* a slot leased to that very session, or a dead one, and no other session has
\* a handle to it.  In particular release never offers a slot a session still
\* refers to.
ExclusiveLease ==
  \A s \in Sessions : handle[s] # NoWorker =>
    /\ \/ state[handle[s]] = "Leased" /\ lessee[handle[s]] = s
       \/ state[handle[s]] = "Dead"
    /\ \A r \in Sessions \ {s} : handle[r] # handle[s]

\* A request is in flight only on a worker that is leased to the requesting
\* session or has been retired under it: call_tool's check of the lease stays
\* true while it waits for the answer.
RequestOnOwnLease ==
  \A t \in Tasks : pc[t] = "rpc" =>
    LET w == wrk[t] IN
    state[w] = "Dead" \/ (state[w] = "Leased" /\ lessee[w] = ses[t])

\* "A failed close does not establish that the child released its IDB, so the
\* worker must never become leasable again": an idle worker has no database.
IdleIsClean == \A w \in Ids : state[w] = "Idle" => ~db[w]

\* No worker process is forgotten: one that is running is reserved, listed and
\* usable, or in the hands of a task that is going to end it.
NoOrphanProcess ==
  \A w \in Ids : proc[w] = "alive" =>
    \/ w \in spawning \cup Live
    \/ \E t \in Tasks : wrk[t] = w /\ pc[t] \in {"take", "forget", "finish"}
    \/ down[w] \in {"forget", "finish"}

\* The pool implements Leasing: through every interleaving of leases, releases,
\* retirements, drops and shutdown a slot changes hands only through Closing and
\* Idle, with its database closed; Dead is final; and only the session that has
\* the worker opens a database in it.
Lease == INSTANCE Leasing WITH slot <- state, holder <- lessee, grant <- handle, dirty <- db

ImplementsLeasing == Lease!Spec

-----------------------------------------------------------------------------
(* Liveness *)

\* A reservation never leaks capacity: it ends in a slot or is given back, also
\* when the future that made it is dropped.
ReservationEnds == \A w \in Ids : w \in spawning ~> w \notin spawning

\* A worker no session can reach any more becomes leasable again or is retired,
\* whatever happened to the operation that was using it.
LeaseReturns ==
  \A w \in Ids :
    (state[w] \in {"Leased", "Closing"} /\ \A s \in Sessions : handle[s] # w)
      ~> (state[w] \in {"Idle", "Dead"} \/ \E s \in Sessions : handle[s] = w)

\* Every operation of the pool ends: no task waits for ever for a call_lock.
OperationsEnd == \A t \in Tasks : ~Free(t) ~> Free(t)

-----------------------------------------------------------------------------
(* What the documentation says and the code does not do *)

\* README.md: "--max-workers caps how many worker processes the supervisor
\* keeps alive at once".
ProcessesCapped == Cardinality({w \in Ids : proc[w] = "alive"}) <= MaxWorkers

\* docs/ARCHITECTURE.md: "Worker failure invalidates only its own session": a
\* leased worker is retired only on behalf of the session that leases it.
FailureIsLocal ==
  [][\A w \in Ids : state[w] = "Leased" /\ state'[w] = "Dead" =>
       \/ down[w] = "take"
       \/ \E t \in Tasks : pc[t] = "take" /\ wrk[t] = w /\ ses[t] = lessee[w]]_vars

\* docs/TRANSPORTS.md: "--min-workers: idle child workers to keep warm": when
\* nothing is going on, at least that many workers are there.
KeptWarm ==
  (/\ Serving /\ \A t \in Tasks : Free(t)
   /\ \A w \in Ids : down[w] = "no"
   /\ next_id < MaxSpawns)
     => Cardinality(Live) >= MinWorkers

\* docs/TRANSPORTS.md: "the databases are saved, not discarded": a release that
\* saves does not end with the loss of the database.
SavingReleaseSaves ==
  [][\A t \in Tasks : pc[t] = "finish" /\ op[t] = "close" /\ wrk[t] # NoWorker =>
       (proc[wrk[t]] = "alive" => proc'[wrk[t]] # "lost")]_vars
=============================================================================
