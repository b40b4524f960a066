--------------------------- MODULE SessionManager ---------------------------
(***************************************************************************)
(* The supervisor's registry of database sessions                          *)
(* (src/supervisor/session.rs), over what a session sees of the pool.      *)
(*                                                                         *)
(* A SESSION is one Arc<ManagedSession>, with its identity: ids and paths  *)
(* are used again, sessions are not while anything refers to them.  A TASK *)
(* runs one request of a client, one round of the idle reaper, or the      *)
(* shutdown; a step is what the code does between two awaits at which      *)
(* another task could matter.  The pool is seen through the lease of each  *)
(* session: what WorkerPool promises of it is Leasing.                     *)
(***************************************************************************)
EXTENDS FiniteSets

CONSTANTS
  Sessions,   \* Arc<ManagedSession> allocations
  Ids,        \* session ids: preferred ids, or uuids
  Paths,      \* canonical database paths
  Tasks,      \* tokio tasks that may be running manager code at once
  Dropped,    \* program counters at which a request's future may be dropped
  None        \* "nothing", for every kind of reference

ASSUME Distinct == None \notin Sessions \cup Ids \cup Paths \cup Tasks

VARIABLES
  by_id,      \* SessionMaps.by_id
  by_path,    \* SessionMaps.by_path
  id,         \* ManagedSession.info.session_id
  path,       \* ManagedSession.canonical_path
  lease,      \* ManagedSession.worker: the lease, as has_live_database sees it
  lifecycle,  \* ManagedSession.lifecycle: the task that holds it
  active,     \* ManagedSession.active_calls > 0
  expired,    \* last_access lies idle_ttl_sec or more in the past
  open_lock,  \* SessionManager.open_lock: the task that holds it
  reaping,    \* the idle reaper's loop is running
  pc,         \* of each task: where it is,
  op,         \* what it does,
  want,       \* the path an open was asked for,
  ses,        \* the session it works on,
  todo        \* and what is left of its snapshot of by_id

maps     == <<by_id, by_path>>
sessions == <<id, path, lease, lifecycle, active, expired>>
vars     == <<maps, sessions, open_lock, reaping, pc, op, want, ses, todo>>

\* "none": no handle.  "opening": a worker is leased and open_idb runs on it.
\* "live": the database is open.  "gone": the handle names a worker that died.
\* "closing": the handle is taken and the pool is releasing the worker.
Leases == {"none", "opening", "live", "gone", "closing"}

Ops == {"none", "open", "close", "call", "list", "reap", "shutdown"}
PCs == {"free", "lock", "life", "held", "remove", "close", "closing", "fresh", "opening",
        "giveback", "warmup", "insert", "rpc", "failed", "next"}

\* Types; in particular list, reap_idle and shutdown walk over sessions and ids
\* that SessionMaps held.
TypeOK ==
  /\ by_id \in [Ids -> Sessions \cup {None}]
  /\ by_path \in [Paths -> Ids \cup {None}]
  /\ id \in [Sessions -> Ids \cup {None}]
  /\ path \in [Sessions -> Paths \cup {None}]
  /\ lease \in [Sessions -> Leases]
  /\ lifecycle \in [Sessions -> Tasks \cup {None}]
  /\ active \in [Sessions -> BOOLEAN]
  /\ expired \in [Sessions -> BOOLEAN]
  /\ open_lock \in Tasks \cup {None}
  /\ reaping \in BOOLEAN
  /\ pc \in [Tasks -> PCs]
  /\ op \in [Tasks -> Ops]
  /\ want \in [Tasks -> Paths \cup {None}]
  /\ ses \in [Tasks -> Sessions \cup {None}]
  /\ todo \in [Tasks -> SUBSET (Sessions \cup Ids)]

Init ==
  /\ by_id = [i \in Ids |-> None]
  /\ by_path = [p \in Paths |-> None]
  /\ id = [s \in Sessions |-> None]
  /\ path = [s \in Sessions |-> None]
  /\ lease = [s \in Sessions |-> "none"]
  /\ lifecycle = [s \in Sessions |-> None]
  /\ active = [s \in Sessions |-> FALSE]
  /\ expired = [s \in Sessions |-> FALSE]
  /\ open_lock = None
  /\ reaping = TRUE
  /\ pc = [t \in Tasks |-> "free"]
  /\ op = [t \in Tasks |-> "none"]
  /\ want = [t \in Tasks |-> None]
  /\ ses = [t \in Tasks |-> None]
  /\ todo = [t \in Tasks |-> {}]

-----------------------------------------------------------------------------
(* Helpers *)

Listed == {by_id[i] : i \in Ids} \ {None}

\* is_current: the map still holds this very session.
Current(s) == by_id[id[s]] = s

\* has_live_database
Live(s) == lease[s] = "live"

\* is_idle_past_ttl; a session with idle_ttl_sec = 0 is one that never expires.
IdlePastTtl(s) == expired[s] /\ ~active[s]

Free(t) == pc[t] = "free"

Goto(t, p) == pc' = [pc EXCEPT ![t] = p] /\ UNCHANGED <<op, want, ses, todo>>

Begin(t, p, k, x, s, todos) ==
  /\ pc' = [pc EXCEPT ![t] = p]
  /\ op' = [op EXCEPT ![t] = k]
  /\ want' = [want EXCEPT ![t] = x]
  /\ ses' = [ses EXCEPT ![t] = s]
  /\ todo' = [todo EXCEPT ![t] = todos]

\* Dropping the guards a task holds.
UnlockLifecycle(t) ==
  lifecycle' = [s \in Sessions |-> IF lifecycle[s] = t THEN None ELSE lifecycle[s]]
KeepOpenLock(t) == UNCHANGED open_lock          \* mutant of UnlockOpen
UnlockOpen(t) == open_lock' = IF open_lock = t THEN None ELSE open_lock

\* The request of t returns.
Return(t) ==
  /\ Begin(t, "free", "none", None, None, {})
  /\ UnlockLifecycle(t) /\ UnlockOpen(t)

\* t turns to session s and waits for its lifecycle lock.
Turn(t, s) ==
  /\ pc' = [pc EXCEPT ![t] = "life"]
  /\ ses' = [ses EXCEPT ![t] = s]
  /\ UNCHANGED <<op, want>>

\* t is through with its session: a request that walks over a snapshot goes on
\* with the next one, an open goes on to open the path anew.
Leave(t) ==
  /\ pc' = [pc EXCEPT ![t] = IF op[t] = "open" THEN "fresh" ELSE "next"]
  /\ ses' = [ses EXCEPT ![t] = None]
  /\ UnlockLifecycle(t)
  /\ UNCHANGED <<op, want, todo, open_lock>>

\* What follows a close of the session of t, done or refused.
AfterClose(t) ==
  \/ op[t] = "close" /\ Return(t)
  \/ op[t] # "close" /\ Leave(t)

\* Mutant of RemoveCurrent: the path stays.
RemoveIdOnly(s) == by_id' = [by_id EXCEPT ![id[s]] = None] /\ UNCHANGED by_path

\* remove_if_current's change of the maps.
RemoveCurrent(s) ==
  /\ by_id' = [by_id EXCEPT ![id[s]] = None]
  /\ by_path' = [p \in Paths |-> IF p = path[s] /\ by_path[p] = id[s] THEN None ELSE by_path[p]]

-----------------------------------------------------------------------------
(* open *)

StartOpen(t, p) ==
  /\ Free(t)
  /\ Begin(t, "lock", "open", p, None, {})
  /\ UNCHANGED <<maps, sessions, open_lock, reaping>>

\* open_lock acquired; find_by_path.
FindByPath(t) ==
  /\ pc[t] = "lock" /\ open_lock = None
  /\ open_lock' = t
  /\ \/ \E i \in Ids : /\ by_path[want[t]] = i /\ by_id[i] # None
                       /\ Turn(t, by_id[i]) /\ UNCHANGED todo
     \/ /\ \A i \in Ids : by_path[want[t]] = i => by_id[i] = None
        /\ Goto(t, "fresh")
  /\ UNCHANGED <<maps, sessions, reaping>>

\* Mutant of Acquire: the session is used without waiting for the lock.
AcquireAnyway(t) ==
  /\ pc[t] = "life"
  /\ lifecycle' = [lifecycle EXCEPT ![ses[t]] = t]
  /\ Goto(t, "held")
  /\ UNCHANGED <<maps, id, path, lease, active, expired, open_lock, reaping>>

\* lifecycle acquired, by whatever request was waiting for it.
Acquire(t) ==
  /\ pc[t] = "life" /\ lifecycle[ses[t]] = None
  /\ lifecycle' = [lifecycle EXCEPT ![ses[t]] = t]
  /\ Goto(t, "held")
  /\ UNCHANGED <<maps, id, path, lease, active, expired, open_lock, reaping>>

\* A session that was closed meanwhile is ignored, a live one adopted, a dead
\* one discarded.
Adopt(t) ==
  LET s == ses[t] IN
  /\ pc[t] = "held" /\ op[t] = "open"
  /\ \/ ~Current(s) /\ Leave(t) /\ UNCHANGED expired
     \/ Current(s) /\ Live(s) /\ expired' = [expired EXCEPT ![s] = FALSE] /\ Return(t)
     \/ Current(s) /\ ~Live(s) /\ Goto(t, "remove") /\ UNCHANGED <<expired, lifecycle, open_lock>>
  /\ UNCHANGED <<maps, id, path, lease, active, reaping>>

\* requested_session_id and the check that it is free; then the lease, which
\* the pool may refuse, and open_idb on the leased worker.
Fresh(t) ==
  /\ pc[t] = "fresh"
  /\ \/ /\ Return(t)                       \* id in use or invalid, or PoolExhausted
        /\ UNCHANGED <<id, path, lease, active, expired>>
     \/ \E i \in Ids, s \in Sessions :
          /\ by_id[i] = None /\ id[s] = None
          /\ id' = [id EXCEPT ![s] = i]
          /\ path' = [path EXCEPT ![s] = want[t]]
          /\ lease' = [lease EXCEPT ![s] = "opening"]
          /\ pc' = [pc EXCEPT ![t] = "opening"]
          /\ ses' = [ses EXCEPT ![t] = s]
          /\ UNCHANGED <<lifecycle, active, expired, open_lock, op, want, todo>>
  /\ UNCHANGED <<maps, reaping>>

\* open_idb succeeded.  A worker opens a database only when it gets its .imcp
\* lock, so not while another worker has it.
OpenOk(t) ==
  LET s == ses[t] IN
  /\ pc[t] = "opening"
  /\ \A r \in Sessions \ {s} : path[r] = path[s] => lease[r] \notin {"live", "closing"}
  /\ lease' = [lease EXCEPT ![s] = "live"]
  /\ Goto(t, "warmup")
  /\ UNCHANGED <<maps, id, path, lifecycle, active, expired, open_lock, reaping>>

\* open_idb failed or took too long: open_observed gives the worker back.
OpenFails(t) ==
  /\ pc[t] = "opening"
  /\ lease' = [lease EXCEPT ![ses[t]] = "closing"]
  /\ Goto(t, "giveback")
  /\ UNCHANGED <<maps, id, path, lifecycle, active, expired, open_lock, reaping>>

GivenBack(t) ==
  /\ pc[t] = "giveback"
  /\ lease' = [lease EXCEPT ![ses[t]] = "none"]
  /\ Return(t)
  /\ UNCHANGED <<maps, id, path, active, expired, reaping>>

\* run_worker_warmup: a probe that fails costs the session its worker, and the
\* open goes on.
Warmup(t) ==
  /\ pc[t] = "warmup"
  /\ lease' \in {lease, [lease EXCEPT ![ses[t]] = "none"]}
  /\ Goto(t, "insert")
  /\ UNCHANGED <<maps, id, path, lifecycle, active, expired, open_lock, reaping>>

Insert(t) ==
  LET s == ses[t] IN
  /\ pc[t] = "insert"
  /\ by_path' = [by_path EXCEPT ![path[s]] = id[s]]
  /\ by_id' = [by_id EXCEPT ![id[s]] = s]
  /\ Return(t)
  /\ UNCHANGED <<id, path, lease, active, expired, reaping>>

-----------------------------------------------------------------------------
(* close, and the close_with_save that open, list, reap_idle and shutdown share *)

\* close: get.
StartClose(t, i) ==
  /\ Free(t) /\ by_id[i] # None
  /\ Begin(t, "life", "close", None, by_id[i], {})
  /\ UNCHANGED <<maps, sessions, open_lock, reaping>>

\* Mutants of CloseHeld: the session stays in the maps while it is closed; a
\* session that is in use is not closed.
CloseHeldListed(t) ==
  /\ pc[t] = "held" /\ op[t] \in {"close", "shutdown"}
  /\ Goto(t, "close")
  /\ UNCHANGED <<maps, sessions, open_lock, reaping>>
CloseHeldIdle(t) ==
  LET s == ses[t] IN
  /\ pc[t] = "held" /\ op[t] \in {"close", "shutdown"}
  /\ \/ /\ IdlePastTtl(s)
        /\ by_id' = [by_id EXCEPT ![id[s]] = None]
        /\ by_path' = [by_path EXCEPT ![path[s]] = None]
        /\ Goto(t, "close")
        /\ UNCHANGED <<lifecycle, open_lock>>
     \/ ~IdlePastTtl(s) /\ AfterClose(t) /\ UNCHANGED maps
  /\ UNCHANGED <<id, path, lease, active, expired, reaping>>

\* close, or shutdown's close of the next id: the session leaves both maps if
\* the id still names it.
CloseHeld(t) ==
  LET s == ses[t] IN
  /\ pc[t] = "held" /\ op[t] \in {"close", "shutdown"}
  /\ \/ /\ Current(s)
        /\ by_id' = [by_id EXCEPT ![id[s]] = None]
        /\ by_path' = [by_path EXCEPT ![path[s]] = None]
        /\ Goto(t, "close")
        /\ UNCHANGED <<lifecycle, open_lock>>
     \/ ~Current(s) /\ AfterClose(t) /\ UNCHANGED maps
  /\ UNCHANGED <<id, path, lease, active, expired, reaping>>

\* remove_if_current before a discard; only list and the reaper look at what
\* it returns.
Remove(t) ==
  LET s == ses[t] IN
  /\ pc[t] = "remove"
  /\ \/ Current(s) /\ RemoveCurrent(s) /\ Goto(t, "close") /\ UNCHANGED <<lifecycle, open_lock>>
     \/ /\ ~Current(s) /\ UNCHANGED maps
        /\ \/ op[t] = "open" /\ Goto(t, "close") /\ UNCHANGED <<lifecycle, open_lock>>
           \/ op[t] # "open" /\ Leave(t)
  /\ UNCHANGED <<id, path, lease, active, expired, reaping>>

\* close_with_save: take_handle; without one there is nothing to release.
CloseWithSave(t) ==
  LET s == ses[t] IN
  /\ pc[t] = "close"
  /\ \/ lease[s] = "none" /\ AfterClose(t) /\ UNCHANGED lease
     \/ /\ lease[s] # "none"
        /\ lease' = [lease EXCEPT ![s] = "closing"]
        /\ Goto(t, "closing")
        /\ UNCHANGED <<lifecycle, open_lock>>
  /\ UNCHANGED <<maps, id, path, active, expired, reaping>>

\* release_with_save returned.
Released(t) ==
  /\ pc[t] = "closing"
  /\ lease' = [lease EXCEPT ![ses[t]] = "none"]
  /\ AfterClose(t)
  /\ UNCHANGED <<maps, id, path, active, expired, reaping>>

-----------------------------------------------------------------------------
(* call_native_result *)

StartCall(t, i) ==
  /\ Free(t) /\ by_id[i] # None
  /\ Begin(t, "life", "call", None, by_id[i], {})
  /\ UNCHANGED <<maps, sessions, open_lock, reaping>>

\* Mutant of CallHeld: the map is not asked again.
CallHeldBlind(t) ==
  /\ pc[t] = "held" /\ op[t] = "call"
  /\ active' = [active EXCEPT ![ses[t]] = TRUE]
  /\ expired' = [expired EXCEPT ![ses[t]] = FALSE]
  /\ Goto(t, "rpc")
  /\ UNCHANGED <<maps, id, path, lease, lifecycle, open_lock, reaping>>

\* The map is asked again under lifecycle: a session closed while the call
\* waited is not called.
CallHeld(t) ==
  LET s == ses[t] IN
  /\ pc[t] = "held" /\ op[t] = "call"
  /\ \/ /\ Current(s)
        /\ active' = [active EXCEPT ![s] = TRUE]
        /\ expired' = [expired EXCEPT ![s] = FALSE]
        /\ Goto(t, "rpc")
        /\ UNCHANGED <<lifecycle, open_lock>>
     \/ ~Current(s) /\ Return(t) /\ UNCHANGED <<active, expired>>
  /\ UNCHANGED <<maps, id, path, lease, reaping>>

CallOk(t) ==
  LET s == ses[t] IN
  /\ pc[t] = "rpc" /\ Live(s)
  /\ active' = [active EXCEPT ![s] = FALSE]
  /\ expired' = [expired EXCEPT ![s] = FALSE]
  /\ Return(t)
  /\ UNCHANGED <<maps, id, path, lease, reaping>>

\* Mutant of CallErr: active_calls is not counted down.
CallErrCounted(t) ==
  /\ pc[t] = "rpc"
  /\ \/ lease' = [lease EXCEPT ![ses[t]] = "none"]
     \/ Live(ses[t]) /\ UNCHANGED lease
  /\ Goto(t, "failed")
  /\ UNCHANGED <<maps, id, path, lifecycle, active, expired, open_lock, reaping>>

\* The call failed: dispatch has dropped the handle, unless the child itself
\* reported that the operation timed out or was cancelled.
CallErr(t) ==
  LET s == ses[t] IN
  /\ pc[t] = "rpc"
  /\ active' = [active EXCEPT ![s] = FALSE]
  /\ \/ lease' = [lease EXCEPT ![s] = "none"]
     \/ Live(s) /\ UNCHANGED lease
  /\ Goto(t, "failed")
  /\ UNCHANGED <<maps, id, path, lifecycle, expired, open_lock, reaping>>

\* A session without a live worker is forgotten; its Drop gives back the rest.
CallFailed(t) ==
  LET s == ses[t] IN
  /\ pc[t] = "failed"
  /\ \/ ~Live(s) /\ Current(s) /\ RemoveCurrent(s)
     \/ (Live(s) \/ ~Current(s)) /\ UNCHANGED maps
  /\ Return(t)
  /\ UNCHANGED <<id, path, lease, active, expired, reaping>>

-----------------------------------------------------------------------------
(* list, reap_idle and shutdown walk over a snapshot of by_id *)

\* Mutant of StartList: the snapshot has an entry for ids not in use.
StartListHoles(t) ==
  /\ Free(t)
  /\ Begin(t, "next", "list", None, None, {by_id[i] : i \in Ids})
  /\ UNCHANGED <<maps, sessions, open_lock, reaping>>

StartList(t) ==
  /\ Free(t) /\ Listed # {}
  /\ Begin(t, "next", "list", None, None, Listed)
  /\ UNCHANGED <<maps, sessions, open_lock, reaping>>

\* One round of the reaper's loop; there is one reaper.
StartReap(t) ==
  /\ Free(t) /\ reaping /\ \A u \in Tasks : op[u] # "reap"
  /\ Listed # {}
  /\ Begin(t, "next", "reap", None, None, Listed)
  /\ UNCHANGED <<maps, sessions, open_lock, reaping>>

StartShutdown(t) ==
  /\ Free(t) /\ reaping
  /\ reaping' = FALSE
  /\ Begin(t, "next", "shutdown", None, None, {i \in Ids : by_id[i] # None})
  /\ UNCHANGED <<maps, sessions, open_lock>>

\* list and the reaper: does the next session of the snapshot need a closer look?
Suspect(t, s) ==
  \/ op[t] = "list" /\ ~Live(s)
  \/ op[t] = "reap" /\ IdlePastTtl(s)

Visit(t) ==
  /\ pc[t] = "next" /\ op[t] \in {"list", "reap"}
  /\ \/ /\ todo[t] = {}
        /\ Return(t)
     \/ \E s \in todo[t] :
          /\ todo' = [todo EXCEPT ![t] = @ \ {s}]
          /\ \/ Suspect(t, s) /\ Turn(t, s)
             \/ ~Suspect(t, s) /\ UNCHANGED <<pc, op, want, ses>>
          /\ UNCHANGED <<lifecycle, open_lock>>
  /\ UNCHANGED <<maps, id, path, lease, active, expired, reaping>>

\* Mutant of Revisit: the decision made outside the lock stands.
RevisitBlind(t) ==
  /\ pc[t] = "held" /\ op[t] \in {"list", "reap"}
  /\ Goto(t, "remove")
  /\ UNCHANGED <<maps, sessions, open_lock, reaping>>

\* The decision is made again under lifecycle.
Revisit(t) ==
  /\ pc[t] = "held" /\ op[t] \in {"list", "reap"}
  /\ \/ Suspect(t, ses[t]) /\ Goto(t, "remove") /\ UNCHANGED <<lifecycle, open_lock>>
     \/ ~Suspect(t, ses[t]) /\ Leave(t)
  /\ UNCHANGED <<maps, id, path, lease, active, expired, reaping>>

\* shutdown: close the next id of the snapshot; at the end pool.shutdown_all
\* retires every worker.
ShutdownVisit(t) ==
  /\ pc[t] = "next" /\ op[t] = "shutdown"
  /\ \/ /\ todo[t] = {}
        /\ lease' = [s \in Sessions |-> IF Live(s) THEN "gone" ELSE lease[s]]
        /\ Return(t)
     \/ \E i \in todo[t] :
          /\ todo' = [todo EXCEPT ![t] = @ \ {i}]
          /\ \/ by_id[i] # None /\ Turn(t, by_id[i])
             \/ by_id[i] = None /\ UNCHANGED <<pc, op, want, ses>>
          /\ UNCHANGED <<lease, lifecycle, open_lock>>
  /\ UNCHANGED <<maps, id, path, active, expired, reaping>>

-----------------------------------------------------------------------------
(* The environment, and what Drop implementations do *)

\* Nothing refers to the session any more: its Arc count is zero.
Unreferenced(s) ==
  /\ id[s] # None /\ s \notin Listed
  /\ \A t \in Tasks : ses[t] # s /\ s \notin todo[t]

\* The worker of the session dies.
WorkerDies(s) ==
  /\ lease[s] = "live"
  /\ lease' = [lease EXCEPT ![s] = "gone"]
  /\ UNCHANGED <<maps, id, path, lifecycle, active, expired, open_lock, reaping, pc, op, want, ses, todo>>

\* Time passes.
Expire(s) ==
  /\ s \in Listed /\ ~expired[s]
  /\ expired' = [expired EXCEPT ![s] = TRUE]
  /\ UNCHANGED <<maps, id, path, lease, lifecycle, active, open_lock, reaping, pc, op, want, ses, todo>>

\* A request is cancelled, or its future dropped: its guards go away.
Abandon(t) ==
  /\ op[t] \in {"open", "close", "call", "list"} /\ pc[t] \in Dropped
  /\ active' = [s \in Sessions |-> active[s] /\ ~(pc[t] = "rpc" /\ s = ses[t])]
  /\ Return(t)
  /\ UNCHANGED <<maps, id, path, lease, expired, reaping>>

\* Drop of PooledSessionState, and of the guards of a pool operation that was
\* dropped with it: a task of the pool's own releases the worker.
DropSession(s) ==
  /\ Unreferenced(s) /\ lease[s] \in {"opening", "live", "gone"}
  /\ lease' = [lease EXCEPT ![s] = "closing"]
  /\ UNCHANGED <<maps, id, path, lifecycle, active, expired, open_lock, reaping, pc, op, want, ses, todo>>

\* The pool ends a release nobody waits for.
ReleasedLate(s) ==
  /\ lease[s] = "closing"
  /\ \A t \in Tasks : ses[t] # s \/ pc[t] \notin {"closing", "giveback"}
  /\ lease' = [lease EXCEPT ![s] = "none"]
  /\ UNCHANGED <<maps, id, path, lifecycle, active, expired, open_lock, reaping, pc, op, want, ses, todo>>

\* The allocation can be used again.
Deallocate(s) ==
  /\ Unreferenced(s) /\ lease[s] = "none"
  /\ id' = [id EXCEPT ![s] = None]
  /\ path' = [path EXCEPT ![s] = None]
  /\ expired' = [expired EXCEPT ![s] = FALSE]
  /\ UNCHANGED <<maps, lease, lifecycle, active, open_lock, reaping, pc, op, want, ses, todo>>

-----------------------------------------------------------------------------
Wait(t) == FindByPath(t) \/ Acquire(t)

Step(t) ==
  \/ Adopt(t) \/ Fresh(t) \/ OpenOk(t) \/ OpenFails(t) \/ GivenBack(t) \/ Warmup(t) \/ Insert(t)
  \/ CloseHeld(t) \/ Remove(t) \/ CloseWithSave(t) \/ Released(t)
  \/ CallHeld(t) \/ CallOk(t) \/ CallErr(t) \/ CallFailed(t)
  \/ Visit(t) \/ Revisit(t) \/ ShutdownVisit(t)

Start(t) ==
  \/ \E p \in Paths : StartOpen(t, p)
  \/ \E i \in Ids : StartClose(t, i) \/ StartCall(t, i)
  \/ StartList(t) \/ StartReap(t) \/ StartShutdown(t)

Drop(s) == DropSession(s) \/ ReleasedLate(s) \/ Deallocate(s)

Next ==
  \/ \E t \in Tasks : Wait(t) \/ Step(t) \/ Start(t) \/ Abandon(t)
  \/ \E s \in Sessions : WorkerDies(s) \/ Expire(s) \/ Drop(s)

\* tokio runs every task that can run, its mutexes serve their waiters in the
\* order they came, every call of the pool has a timeout, and the reaper's
\* timer goes off every 30 seconds.
Fairness ==
  /\ \A t \in Tasks : WF_vars(Step(t)) /\ SF_vars(Wait(t))
  /\ \A s \in Sessions : WF_vars(Drop(s))
  /\ SF_vars(\E t \in Tasks : StartReap(t))

Spec == Init /\ [][Next]_vars /\ Fairness

-----------------------------------------------------------------------------
(* Safety *)

\* by_id and by_path always agree: each listed session is found by its own id
\* and by its own path, and a path names a listed session.  So a path has one
\* session at a time, and close's unconditional removal from by_path never
\* takes away another session's entry.
MapsAgree ==
  /\ \A p \in Paths, i \in Ids : by_path[p] = i => by_id[i] # None /\ path[by_id[i]] = p
  /\ \A i \in Ids : by_id[i] # None => id[by_id[i]] = i /\ by_path[path[by_id[i]]] = i

\* A session that clients can find is neither still being opened nor already
\* being closed.
ListedIsSettled == \A s \in Listed : lease[s] \notin {"opening", "closing"}

\* A call in flight keeps its session: nothing takes it out of the maps, and
\* its worker is not released, until the call is over.
CalledIsListed == \A s \in Sessions : active[s] => s \in Listed

\* Sending, opening, warming up and closing are done by one task at a time on
\* a session's worker, which is what the pool relies on.
PoolCalls == {"opening", "warmup", "giveback", "close", "closing", "rpc", "failed"}
OneOperation ==
  \A t, u \in Tasks :
    t # u /\ pc[t] \in PoolCalls /\ pc[u] \in PoolCalls => ses[t] # ses[u]

\* docs/ARCHITECTURE.md: a session is reaped only if it is still idle at the
\* moment the close commits.
ReapedWhenIdle ==
  [][\A t \in Tasks : op[t] = "reap" /\ pc[t] = "remove" /\ pc'[t] = "close"
       => IdlePastTtl(ses[t])]_vars

-----------------------------------------------------------------------------
(* Liveness *)

\* Every request ends: nobody waits for ever for open_lock or a lifecycle lock.
RequestsEnd == \A t \in Tasks : ~Free(t) ~> Free(t)

\* An idb_close that found its session gets it out of the maps.
CloseTakesEffect ==
  \A s \in Sessions :
    (\E t \in Tasks : op[t] = "close" /\ pc[t] = "life" /\ ses[t] = s) ~> s \notin Listed

\* A session left alone past its TTL is reaped, as long as the reaper runs.
IdleIsReaped ==
  \A s \in Sessions :
    (s \in Listed /\ expired[s]) ~> (s \notin Listed \/ ~expired[s] \/ ~reaping)

-----------------------------------------------------------------------------
(* What the documentation says and the code does not do *)

\* docs/ARCHITECTURE.md: "The same canonical database path is adopted instead
\* of opened twice": no worker is asked to open a path while another has it.
OpenedOnce ==
  \A r, s \in Sessions :
    r # s /\ path[r] = path[s] /\ lease[r] \in {"live", "closing"} => lease[s] # "opening"
=============================================================================
