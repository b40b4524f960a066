------------------------ MODULE SessionManagerProofs ------------------------
(***************************************************************************)
(* Proofs about SessionManager (src/supervisor/session.rs), for any number *)
(* of sessions, ids, paths and tasks, and whatever requests are dropped:   *)
(* the two maps agree, a call keeps its session, one task at a time works  *)
(* on a worker, and the reaper takes only what is idle.                    *)
(***************************************************************************)
EXTENDS SessionManager, TLAPS

Walking == {"list", "reap"}
Idling  == {"free", "lock", "fresh", "next"}                            \* no session at hand
Holding == {"held", "remove", "close", "closing", "rpc", "failed"}      \* its lifecycle is locked
Opening == {"opening", "giveback", "warmup", "insert"}                  \* a session of its own

\* Where a task can be, and when it has open_lock.
Where ==
  \A t \in Tasks :
    /\ pc[t] = "free" <=> op[t] = "none"
    /\ pc[t] \in Idling <=> ses[t] = None
    /\ op[t] = "open" => want[t] # None /\ pc[t] \notin {"next", "rpc", "failed"}
    /\ pc[t] \in Opening \cup {"lock", "fresh"} => op[t] = "open"
    /\ open_lock = t <=> op[t] = "open" /\ pc[t] # "lock"
    /\ op[t] \in Walking => todo[t] \subseteq Sessions
    /\ op[t] = "shutdown" => todo[t] \subseteq Ids

\* The lifecycle lock of a session belongs to the one task that works on it.
Locks == \A t \in Tasks, s \in Sessions : lifecycle[s] = t <=> ses[t] = s /\ pc[t] \in Holding

\* An allocation that a task or a map refers to is in use, with id and path.
InUse ==
  /\ \A s \in Sessions : id[s] = None <=> path[s] = None
  /\ \A t \in Tasks : ses[t] # None => id[ses[t]] # None
  /\ \A t \in Tasks, s \in Sessions : op[t] \in Walking /\ s \in todo[t] => id[s] # None

\* A session that is being opened is known to the task that opens it, alone.
Private ==
  \A t \in Tasks : pc[t] \in Opening =>
    /\ path[ses[t]] = want[t]
    /\ by_id[id[ses[t]]] = None
    /\ pc[t] \in {"warmup", "insert"} => lease[ses[t]] \notin {"opening", "closing"}
    /\ \A u \in Tasks \ {t} : ses[u] # ses[t] /\ (op[u] \in Walking => ses[t] \notin todo[u])

\* What the open that has open_lock knows of the path it was asked for: nobody
\* has it, or only the session it found there.
PathKnown ==
  \A t \in Tasks :
    /\ pc[t] \in Opening \cup {"fresh"} => by_path[want[t]] = None
    /\ op[t] = "open" /\ ses[t] # None =>
         \A i \in Ids : by_path[want[t]] = i => by_id[i] = ses[t]

\* A session that is closed has left the maps; one that is called is in them.
Calls ==
  /\ \A t \in Tasks : pc[t] \in {"close", "closing"} => by_id[id[ses[t]]] # ses[t]
  /\ \A t \in Tasks : pc[t] = "rpc" => by_id[id[ses[t]]] = ses[t]
  /\ \A s \in Sessions : active[s] => \E t \in Tasks : pc[t] = "rpc" /\ ses[t] = s

\* The reaper's decision, made under lifecycle, still holds when it removes.
Reaps == \A t \in Tasks : op[t] = "reap" /\ pc[t] = "remove" => IdlePastTtl(ses[t])

IInv ==
  /\ TypeOK /\ Where /\ Locks /\ InUse /\ MapsAgree /\ Private /\ PathKnown
  /\ Calls /\ Reaps /\ ListedIsSettled

-----------------------------------------------------------------------------
(* How a step of one task moves it *)

\* The tasks that do not move.
Others(t) ==
  \A u \in Tasks \ {t} :
    pc'[u] = pc[u] /\ op'[u] = op[u] /\ want'[u] = want[u] /\ ses'[u] = ses[u] /\ todo'[u] = todo[u]

\* The conjuncts of the invariant.
LEMMA Parts ==
  ASSUME IInv
  PROVE  /\ TypeOK /\ Where /\ Locks /\ InUse /\ MapsAgree /\ Private /\ PathKnown
         /\ Calls /\ Reaps /\ ListedIsSettled
  BY Zenon DEF IInv

\* The types of what a move changes, and of what it leaves to the rest of the step.
TaskTypes ==
  /\ lifecycle \in [Sessions -> Tasks \cup {None}] /\ open_lock \in Tasks \cup {None}
  /\ pc \in [Tasks -> PCs] /\ op \in [Tasks -> Ops] /\ want \in [Tasks -> Paths \cup {None}]
  /\ ses \in [Tasks -> Sessions \cup {None}] /\ todo \in [Tasks -> SUBSET (Sessions \cup Ids)]

SessionTypes ==
  /\ by_id \in [Ids -> Sessions \cup {None}] /\ by_path \in [Paths -> Ids \cup {None}]
  /\ id \in [Sessions -> Ids \cup {None}] /\ path \in [Sessions -> Paths \cup {None}]
  /\ lease \in [Sessions -> Leases] /\ active \in [Sessions -> BOOLEAN]
  /\ expired \in [Sessions -> BOOLEAN] /\ reaping \in BOOLEAN

\* TypeOK is the two together.
LEMMA Types == TypeOK <=> TaskTypes /\ SessionTypes
  BY Zenon DEF TypeOK, TaskTypes, SessionTypes

\* So it is in the next state.
LEMMA TypesNext == ASSUME TaskTypes', SessionTypes' PROVE TypeOK'
  BY Zenon DEF TypeOK, TaskTypes, SessionTypes

\* Goto moves its task within an operation.
LEMMA GotoMoves ==
  ASSUME TaskTypes, NEW t \in Tasks, NEW p, Goto(t, p)
  PROVE  /\ pc'[t] = p /\ op'[t] = op[t] /\ want'[t] = want[t] /\ ses'[t] = ses[t]
         /\ todo'[t] = todo[t] /\ Others(t)
  BY Zenon DEF TaskTypes, Goto, Others

\* Begin gives its task a new operation.
LEMMA BeginMoves ==
  ASSUME TaskTypes, NEW t \in Tasks, NEW p, NEW k, NEW x, NEW s, NEW d, Begin(t, p, k, x, s, d)
  PROVE  /\ pc'[t] = p /\ op'[t] = k /\ want'[t] = x /\ ses'[t] = s /\ todo'[t] = d /\ Others(t)
  BY Zenon DEF TaskTypes, Begin, Others

\* Leave makes its task let go of its session.
LEMMA LeaveMoves ==
  ASSUME TaskTypes, NEW t \in Tasks, Leave(t)
  PROVE  /\ pc'[t] = (IF op[t] = "open" THEN "fresh" ELSE "next")
         /\ op'[t] = op[t] /\ want'[t] = want[t] /\ ses'[t] = None /\ todo'[t] = todo[t] /\ Others(t)
  BY Zenon DEF TaskTypes, Leave, Others

\* A task that holds a lifecycle lock stays with it.
LEMMA GotoHolds ==
  ASSUME TaskTypes, Where, Locks, NEW t \in Tasks, NEW p \in Holding, Goto(t, p),
         UNCHANGED <<lifecycle, open_lock>>, pc[t] \in Holding,
         op[t] = "open" => p \notin {"rpc", "failed"}
  PROVE  (TaskTypes /\ Where /\ Locks)'
<1>1. /\ pc'[t] = p /\ op'[t] = op[t] /\ want'[t] = want[t] /\ ses'[t] = ses[t]
      /\ todo'[t] = todo[t] /\ Others(t)
  BY Zenon, GotoMoves
<1>2. TaskTypes'
  BY Zenon DEF TaskTypes, Goto, Holding, PCs
<1>3. Where'
  BY <1>1 DEF Where, Others, Holding, Idling, Opening
<1>4. Locks'
  BY <1>1 DEF Locks, Others
<1> QED
  BY Zenon, <1>2, <1>3, <1>4

\* A task that opens a session stays with it.
LEMMA GotoOpens ==
  ASSUME TaskTypes, Where, Locks, NEW t \in Tasks, NEW p \in Opening, Goto(t, p),
         UNCHANGED <<lifecycle, open_lock>>, pc[t] \in Opening
  PROVE  (TaskTypes /\ Where /\ Locks)'
<1>1. /\ pc'[t] = p /\ op'[t] = op[t] /\ want'[t] = want[t] /\ ses'[t] = ses[t]
      /\ todo'[t] = todo[t] /\ Others(t)
  BY Zenon, GotoMoves
<1>2. TaskTypes'
  BY Zenon DEF TaskTypes, Goto, Opening, PCs
<1>3. Where'
  BY <1>1 DEF Where, Others, Idling, Opening
<1>4. Locks'
  BY <1>1 DEF Locks, Others, Holding, Opening
<1> QED
  BY Zenon, <1>2, <1>3, <1>4

\* A request that returns gives back the locks it has.
LEMMA ReturnKeeps ==
  ASSUME TaskTypes, Where, Locks, NEW t \in Tasks, Return(t)
  PROVE  (TaskTypes /\ Where /\ Locks)'
<1>1. /\ pc'[t] = "free" /\ op'[t] = "none" /\ want'[t] = None /\ ses'[t] = None
      /\ todo'[t] = {} /\ Others(t)
  BY Zenon, BeginMoves DEF Return
<1>2. TaskTypes'
  BY Zenon DEF TaskTypes, Return, Begin, UnlockLifecycle, UnlockOpen, PCs, Ops
<1>3. open_lock' # t /\ \A u \in Tasks \ {t} : open_lock' = u <=> open_lock = u
  BY Zenon, Distinct DEF Return, UnlockOpen
<1>4. \A s \in Sessions : lifecycle'[s] # t /\ \A u \in Tasks \ {t} : lifecycle'[s] = u <=> lifecycle[s] = u
  BY Distinct DEF Return, UnlockLifecycle
<1>5. Where'
  BY <1>1, <1>3 DEF Where, Others, Idling, Opening, Walking
<1>6. Locks'
  BY <1>1, <1>4, Distinct DEF Locks, Others, Holding
<1> QED
  BY Zenon, <1>2, <1>5, <1>6

\* A task that leaves its session gives back its lifecycle lock only.
LEMMA LeaveKeeps ==
  ASSUME TaskTypes, Where, Locks, NEW t \in Tasks, Leave(t), pc[t] \in Holding
  PROVE  (TaskTypes /\ Where /\ Locks)'
<1>1. /\ pc'[t] = (IF op[t] = "open" THEN "fresh" ELSE "next")
      /\ op'[t] = op[t] /\ want'[t] = want[t] /\ ses'[t] = None /\ todo'[t] = todo[t] /\ Others(t)
  BY Zenon, LeaveMoves
<1>2. TaskTypes'
  BY Zenon DEF TaskTypes, Leave, UnlockLifecycle, PCs
<1>3. \A s \in Sessions : lifecycle'[s] # t /\ \A u \in Tasks \ {t} : lifecycle'[s] = u <=> lifecycle[s] = u
  BY Distinct DEF Leave, UnlockLifecycle
<1>4. Where'
  BY <1>1 DEF Where, Others, Idling, Opening, Holding, Leave
<1>5. Locks'
  BY <1>1, <1>3, Distinct DEF Locks, Others
<1> QED
  BY Zenon, <1>2, <1>4, <1>5

\* A task that turns to a session waits for its lifecycle lock.
LEMMA TurnKeeps ==
  ASSUME TaskTypes, Where, Locks, NEW t \in Tasks, NEW s \in Sessions, Turn(t, s),
         UNCHANGED lifecycle, todo' \in [Tasks -> SUBSET (Sessions \cup Ids)],
         todo'[t] \subseteq todo[t], \A u \in Tasks \ {t} : todo'[u] = todo[u],
         \/ pc[t] = "next" /\ UNCHANGED open_lock
         \/ pc[t] = "lock" /\ open_lock = None /\ open_lock' = t
  PROVE  (TaskTypes /\ Where /\ Locks)'
<1>1. /\ pc'[t] = "life" /\ op'[t] = op[t] /\ want'[t] = want[t] /\ ses'[t] = s /\ Others(t)
  BY Zenon DEF TaskTypes, Turn, Others
<1>2. TaskTypes'
  BY Zenon DEF TaskTypes, Turn, PCs
<1>3. Where'
  BY <1>1, Distinct DEF Where, Others, Idling, Opening, Walking
<1>4. Locks'
  BY <1>1, Distinct DEF Locks, Others, Holding
<1> QED
  BY Zenon, <1>2, <1>3, <1>4

-----------------------------------------------------------------------------
(* What a step that leaves the maps, ids and paths alone has to observe *)

\* It touches no session but the one its task has to itself; the worker of any
\* session may die.
Beside(t) ==
  \A s \in Sessions :
    \/ s = ses[t] /\ pc[t] \in Holding \cup Opening
    \/ /\ lease'[s] = lease[s] \/ lease'[s] = "gone"
       /\ active'[s] = active[s] /\ expired'[s] = expired[s]

\* It takes up only sessions from its snapshot and from the maps.
FromMaps(t) ==
  \A s \in Sessions : ses'[t] = s \/ (op'[t] \in Walking /\ s \in todo'[t]) =>
    ses[t] = s \/ (op[t] \in Walking /\ s \in todo[t]) \/ \E i \in Ids : by_id[i] = s

\* A session it is opening stays its own, and a path it opens anew is free.
OpensAlone(t) ==
  /\ pc'[t] \in Opening =>
       /\ pc[t] \in Opening /\ ses'[t] = ses[t] /\ want'[t] = want[t]
       /\ pc'[t] \in {"warmup", "insert"} => lease'[ses[t]] \notin {"opening", "closing"}
  /\ pc'[t] = "fresh" => by_path[want'[t]] = None
  /\ op'[t] = "open" /\ ses'[t] # None =>
       \A i \in Ids : by_path[want'[t]] = i => by_id[i] = ses'[t]

\* It closes what has left the maps, calls what is in them, and counts the call.
CallsListed(t) ==
  /\ pc'[t] \in {"close", "closing"} => by_id[id[ses'[t]]] # ses'[t]
  /\ pc'[t] = "rpc" => by_id[id[ses'[t]]] = ses'[t]
  /\ \A s \in Sessions : active'[s] =>
       \/ pc'[t] = "rpc" /\ ses'[t] = s
       \/ active[s] /\ ~(pc[t] = "rpc" /\ ses[t] = s)

\* It settles a listed session, and the reaper takes an idle one.
Settles(t) ==
  /\ \A s \in Sessions : lease'[s] \in {"opening", "closing"} =>
       lease[s] = lease'[s] \/ \A i \in Ids : by_id[i] # s
  /\ op'[t] = "reap" /\ pc'[t] = "remove" => expired'[ses'[t]] /\ ~active'[ses'[t]]

\* A session that is found in the maps is nobody's to open.
LEMMA ListedIsPublic ==
  ASSUME MapsAgree, Private, NEW t \in Tasks, pc[t] \in Opening, NEW i \in Ids, by_id[i] = ses[t]
  PROVE  by_id[i] = None
  BY DEF MapsAgree, Private

\* A task works on a session that is in use.
LEMMA HasId ==
  ASSUME TypeOK, InUse, NEW t \in Tasks, ses[t] # None
  PROVE  ses[t] \in Sessions /\ id[ses[t]] \in Ids /\ path[ses[t]] \in Paths
  BY Zenon DEF TypeOK, InUse

\* A step of t that observes all this preserves the invariant.
LEMMA QuietStep ==
  ASSUME IInv, NEW t \in Tasks, UNCHANGED <<maps, id, path>>, Others(t), (TypeOK /\ Where /\ Locks)',
         Beside(t), FromMaps(t), OpensAlone(t), CallsListed(t), Settles(t)
  PROVE  IInv'
<1> USE Parts
<1>1. UNCHANGED <<by_id, by_path, id, path>>
  BY Zenon DEF maps
<1>2. InUse'
  <2>1. \A s \in Sessions : (\E i \in Ids : by_id[i] = s) => id[s] # None
    BY Distinct DEF MapsAgree
  <2>2. ses'[t] # None => id[ses'[t]] # None
    BY Zenon, <2>1 DEF FromMaps, InUse, TypeOK
  <2>3. ASSUME NEW s \in Sessions, op'[t] \in Walking, s \in todo'[t] PROVE id[s] # None
    BY Zenon, <2>1, <2>3, Distinct DEF FromMaps, InUse
  <2> QED
    BY Zenon, <1>1, <2>2, <2>3 DEF InUse, Others
<1>3. MapsAgree'
  BY Zenon, <1>1 DEF MapsAgree
<1>4. Private'
  <2> SUFFICES ASSUME NEW u \in Tasks, pc'[u] \in Opening
               PROVE  /\ path'[ses'[u]] = want'[u] /\ by_id'[id'[ses'[u]]] = None
                      /\ pc'[u] \in {"warmup", "insert"} => lease'[ses'[u]] \notin {"opening", "closing"}
                      /\ \A v \in Tasks \ {u} :
                           ses'[v] # ses'[u] /\ (op'[v] \in Walking => ses'[u] \notin todo'[v])
    BY Zenon DEF Private
  <2>1. pc[u] \in Opening /\ ses'[u] = ses[u] /\ want'[u] = want[u]
    BY Zenon DEF OpensAlone, Others
  <2>2. ses[u] \in Sessions
    BY ZenonT(30), <2>1 DEF TypeOK, Where, Idling, Opening
  <2>3. pc'[u] \in {"warmup", "insert"} => lease'[ses[u]] \notin {"opening", "closing"}
    <3>1. CASE u = t
      BY Zenon, <3>1 DEF OpensAlone
    <3>2. CASE u # t
      <4>1. ses[t] # ses[u]
        BY Zenon, <3>2, <2>1 DEF Private
      <4>2. lease'[ses[u]] = lease[ses[u]] \/ lease'[ses[u]] = "gone"
        BY Zenon, <4>1, <2>2 DEF Beside
      <4> QED
        BY Zenon, <4>2, <3>2, <2>1 DEF Private, Others
    <3> QED
      BY Zenon, <3>1, <3>2
  <2>4. ASSUME NEW v \in Tasks \ {u}
        PROVE  ses'[v] # ses[u] /\ (op'[v] \in Walking => ses[u] \notin todo'[v])
    <3>1. \A i \in Ids : by_id[i] # ses[u]
      BY Zenon, <2>1, <2>2, ListedIsPublic, Distinct
    <3>2. CASE v = t
      BY Zenon, <3>1, <3>2, <2>1, <2>2 DEF FromMaps, Private
    <3>3. CASE v # t
      BY <3>3, <2>1 DEF Others, Private
    <3> QED
      BY Zenon, <3>2, <3>3
  <2> QED
    BY Zenon, <1>1, <2>1, <2>3, <2>4 DEF Private
<1>5. PathKnown'
  <2>1. pc'[t] \in Opening \cup {"fresh"} => by_path[want'[t]] = None
    BY Zenon DEF OpensAlone, PathKnown
  <2> QED
    BY <1>1, <2>1 DEF PathKnown, OpensAlone, Others
<1>6. Calls'
  <2>1. ASSUME NEW s \in Sessions, active'[s] PROVE \E u \in Tasks : pc'[u] = "rpc" /\ ses'[u] = s
    <3>1. CASE active[s] /\ ~(pc[t] = "rpc" /\ ses[t] = s)
      <4>1. PICK u \in Tasks : pc[u] = "rpc" /\ ses[u] = s
        BY Zenon, <3>1 DEF Calls
      <4> QED
        BY Zenon, <3>1, <4>1 DEF Others
    <3> QED
      BY Zenon, <2>1, <3>1 DEF CallsListed
  <2> QED
    BY <1>1, <2>1 DEF Calls, CallsListed, Others
<1>7. Reaps'
  <2> SUFFICES ASSUME NEW u \in Tasks, op'[u] = "reap", pc'[u] = "remove"
               PROVE  expired'[ses'[u]] /\ ~active'[ses'[u]]
    BY Zenon DEF Reaps, IdlePastTtl
  <2>1. CASE u = t
    BY Zenon, <2>1 DEF Settles
  <2>2. CASE u # t
    <3>1. op[u] = "reap" /\ pc[u] = "remove" /\ ses'[u] = ses[u]
      BY Zenon, <2>2 DEF Others
    <3>2. ses[u] \in Sessions
      BY Zenon, <3>1 DEF TypeOK, Where, Idling
    <3>3. ~(ses[u] = ses[t] /\ pc[t] \in Holding \cup Opening)
      BY <2>2, <3>1, <3>2 DEF Locks, Private, Holding
    <3> QED
      BY Zenon, <3>1, <3>2, <3>3 DEF Beside, Reaps, IdlePastTtl
  <2> QED
    BY Zenon, <2>1, <2>2
<1>8. ListedIsSettled'
  <2> SUFFICES ASSUME NEW i \in Ids, by_id[i] # None PROVE lease'[by_id[i]] \notin {"opening", "closing"}
    BY Zenon, <1>1 DEF ListedIsSettled, Listed
  <2>1. by_id[i] \in Sessions /\ lease[by_id[i]] \notin {"opening", "closing"}
    BY Zenon DEF TypeOK, ListedIsSettled, Listed
  <2> QED
    BY Zenon, <2>1 DEF Settles
<1> QED
  BY Zenon, <1>2, <1>3, <1>4, <1>5, <1>6, <1>7, <1>8 DEF IInv

-----------------------------------------------------------------------------
(* The ways a task goes on *)

\* What it does to the leases settles every listed session.
LeasesSettle ==
  \A s \in Sessions : lease'[s] \in {"opening", "closing"} =>
    lease[s] = lease'[s] \/ \A i \in Ids : by_id[i] # s

\* A request returns; if it was in a call, the call is no longer counted.
LEMMA Returns ==
  ASSUME IInv, NEW t \in Tasks, Return(t), UNCHANGED <<maps, id, path>>, SessionTypes',
         Beside(t), LeasesSettle,
         \A s \in Sessions : active'[s] => active[s] /\ ~(pc[t] = "rpc" /\ ses[t] = s)
  PROVE  IInv'
<1>1. TaskTypes
  BY Zenon, Parts, Types
<1>2. pc'[t] = "free" /\ op'[t] = "none" /\ ses'[t] = None /\ Others(t)
  BY Zenon, <1>1, BeginMoves DEF Return
<1>3. (TypeOK /\ Where /\ Locks)'
  BY Zenon, <1>1, Parts, ReturnKeeps, TypesNext
<1>4. FromMaps(t) /\ OpensAlone(t) /\ CallsListed(t) /\ Settles(t)
  BY Zenon, <1>2, Distinct DEF FromMaps, OpensAlone, CallsListed, Settles, LeasesSettle, Opening,
     Walking
<1> QED
  BY Zenon, <1>2, <1>3, <1>4, QuietStep

\* A task leaves its session; an open does so only when the session is not in
\* the maps, and so finds its path free.
LEMMA Leaves ==
  ASSUME IInv, NEW t \in Tasks, Leave(t), UNCHANGED <<maps, id, path, active>>, SessionTypes',
         Beside(t), LeasesSettle, pc[t] \in Holding \ {"rpc"}, op[t] = "open" => ~Current(ses[t])
  PROVE  IInv'
<1>1. TaskTypes
  BY Zenon, Parts, Types
<1>2. /\ pc'[t] = (IF op[t] = "open" THEN "fresh" ELSE "next") /\ op'[t] = op[t]
      /\ want'[t] = want[t] /\ ses'[t] = None /\ todo'[t] = todo[t] /\ Others(t)
  BY Zenon, <1>1, LeaveMoves
<1>3. (TypeOK /\ Where /\ Locks)'
  BY Zenon, <1>1, Parts, LeaveKeeps, TypesNext
<1>4. pc'[t] \in {"fresh", "next"} /\ (pc'[t] = "fresh" => op[t] = "open")
  BY Zenon, <1>2
<1>5. op[t] = "open" => by_path[want[t]] = None
  <2> SUFFICES ASSUME op[t] = "open", by_path[want[t]] # None PROVE FALSE
    BY Zenon
  <2>1. want[t] \in Paths
    BY Zenon, Parts DEF TypeOK, Where
  <2>2. PICK i \in Ids : by_path[want[t]] = i
    BY Zenon, <2>1, Parts DEF TypeOK
  <2>3. ses[t] # None
    BY Zenon, Parts DEF Where, Idling, Holding
  <2>4. by_id[i] = ses[t] /\ id[by_id[i]] = i
    BY Zenon, <2>1, <2>2, <2>3, Parts DEF PathKnown, MapsAgree
  <2> QED
    BY Zenon, <2>4 DEF Current
<1>6. FromMaps(t)
  BY Zenon, <1>2, Distinct DEF FromMaps
<1>7. OpensAlone(t) /\ CallsListed(t) /\ Settles(t)
  BY Zenon, <1>2, <1>4, <1>5, Parts DEF OpensAlone, CallsListed, Settles, LeasesSettle, Opening,
     Holding
<1> QED
  BY Zenon, <1>2, <1>3, <1>6, <1>7, QuietStep

\* After a close, done or refused, the session is no longer in the maps.
LEMMA Closes ==
  ASSUME IInv, NEW t \in Tasks, AfterClose(t), UNCHANGED <<maps, id, path, active>>, SessionTypes',
         Beside(t), LeasesSettle, pc[t] \in Holding \ {"rpc"}, ~Current(ses[t])
  PROVE  IInv'
  BY Zenon, Returns, Leaves DEF AfterClose

\* A task goes on with the session whose lifecycle lock it holds.
LEMMA Proceeds ==
  ASSUME IInv, NEW t \in Tasks, NEW p \in Holding, Goto(t, p), UNCHANGED <<maps, id, path>>,
         UNCHANGED <<lifecycle, open_lock>>, SessionTypes', Beside(t), Settles(t), CallsListed(t),
         pc[t] \in Holding, op[t] = "open" => p \notin {"rpc", "failed"}
  PROVE  IInv'
<1>1. TaskTypes
  BY Zenon, Parts, Types
<1>2. /\ pc'[t] = p /\ op'[t] = op[t] /\ want'[t] = want[t] /\ ses'[t] = ses[t]
      /\ todo'[t] = todo[t] /\ Others(t)
  BY Zenon, <1>1, GotoMoves
<1>3. (TypeOK /\ Where /\ Locks)'
  BY Zenon, <1>1, Parts, GotoHolds, TypesNext
<1>4. FromMaps(t)
  BY Zenon, <1>2 DEF FromMaps
<1>5. OpensAlone(t)
  BY Zenon, <1>2, Parts DEF OpensAlone, PathKnown, Opening, Holding
<1> QED
  BY Zenon, <1>2, <1>3, <1>4, <1>5, QuietStep

\* An open goes on with the session that is its own.
LEMMA GoesOnOpening ==
  ASSUME IInv, NEW t \in Tasks, NEW p \in Opening, Goto(t, p), UNCHANGED <<maps, id, path, active, expired>>,
         UNCHANGED <<lifecycle, open_lock, reaping>>, NEW l \in Leases,
         lease' = lease \/ lease' = [lease EXCEPT ![ses[t]] = l], pc[t] \in Opening,
         p \in {"warmup", "insert"} => lease'[ses[t]] \notin {"opening", "closing"}
  PROVE  IInv'
<1>1. TaskTypes /\ SessionTypes /\ ses[t] \in Sessions
  BY Parts, Types DEF TypeOK, Where, Idling, Opening
<1>2. /\ pc'[t] = p /\ op'[t] = op[t] /\ want'[t] = want[t] /\ ses'[t] = ses[t]
      /\ todo'[t] = todo[t] /\ Others(t)
  BY Zenon, <1>1, GotoMoves
<1>3. (TypeOK /\ Where /\ Locks)'
  <2>1. SessionTypes'
    BY <1>1 DEF SessionTypes, maps
  <2> QED
    BY Zenon, <1>1, <2>1, Parts, GotoOpens, TypesNext
<1>4. \A s \in Sessions \ {ses[t]} : lease'[s] = lease[s]
  BY Zenon, <1>1 DEF SessionTypes
<1>5. \A i \in Ids : by_id[i] # ses[t]
  BY Zenon, <1>1, Parts, ListedIsPublic, Distinct
<1>6. FromMaps(t) /\ Beside(t)
  BY Zenon, <1>2, <1>4 DEF FromMaps, Beside
<1>7. OpensAlone(t)
  BY Zenon, <1>2, Parts DEF OpensAlone, PathKnown, Opening
<1>8. CallsListed(t)
  BY Zenon, <1>2 DEF CallsListed, Opening
<1>9. Settles(t)
  BY Zenon, <1>2, <1>4, <1>5 DEF Settles, Opening
<1> QED
  BY Zenon, <1>2, <1>3, <1>6, <1>7, <1>8, <1>9, QuietStep

\* A request begins, or a walk takes up the next session, with what the maps
\* or the snapshot hold.
LEMMA TakesUp ==
  ASSUME IInv, NEW t \in Tasks, Others(t), (TypeOK /\ Where /\ Locks)', FromMaps(t),
         UNCHANGED <<maps, id, path, lease, active, expired>>,
         pc[t] # "rpc", pc'[t] \in {"lock", "life", "next"}, op'[t] = "open" => pc'[t] = "lock"
  PROVE  IInv'
<1>1. Beside(t)
  BY Zenon DEF Beside
<1>2. OpensAlone(t)
  BY Zenon, Parts DEF OpensAlone, Opening, Where, Idling
<1>3. CallsListed(t) /\ Settles(t)
  BY Zenon DEF CallsListed, Settles
<1> QED
  BY Zenon, <1>1, <1>2, <1>3, QuietStep

-----------------------------------------------------------------------------
(* The steps of open, and the waits for the two locks *)

\* What a task has at hand in the middle of an operation.
LEMMA AtHand ==
  ASSUME IInv, NEW t \in Tasks
  PROVE  /\ TaskTypes /\ SessionTypes
         /\ pc[t] \in Holding \cup Opening \cup {"life"} => ses[t] \in Sessions /\ id[ses[t]] \in Ids
<1>1. TaskTypes /\ SessionTypes
  BY Zenon, Parts, Types
<1>2. pc[t] \in Holding \cup Opening \cup {"life"} => ses[t] # None
  BY Zenon, Parts DEF Where, Idling, Holding, Opening
<1> QED
  BY Zenon, <1>1, <1>2, Parts, HasId

\* open gets open_lock: it finds a session under its path, or finds it free.
LEMMA FindByPathKeeps == ASSUME IInv, NEW t \in Tasks, FindByPath(t) PROVE IInv'
<1>1. TaskTypes /\ SessionTypes /\ Where /\ Locks
  BY Zenon, AtHand, Parts
<1>2. op[t] = "open" /\ want[t] \in Paths /\ pc[t] = "lock" /\ ses[t] = None
  BY Zenon, <1>1, Parts DEF FindByPath, Where, Opening, Idling, TypeOK
<1>3. SessionTypes'
  BY Zenon, <1>1 DEF SessionTypes, FindByPath, maps, sessions
<1>4. Beside(t)
  BY Zenon DEF Beside, FindByPath, sessions
<1>5. UNCHANGED <<maps, id, path, lease, active, lifecycle>> /\ open_lock = None /\ open_lock' = t
  BY Zenon DEF FindByPath, sessions
<1>6. ASSUME NEW i \in Ids, by_path[want[t]] = i, by_id[i] # None, Turn(t, by_id[i]), UNCHANGED todo
      PROVE  IInv'
  <2>1. by_id[i] \in Sessions
    BY Zenon, <1>1, <1>6 DEF SessionTypes
  <2>2. (TypeOK /\ Where /\ Locks)'
    <3>1. todo' \in [Tasks -> SUBSET (Sessions \cup Ids)]
      BY Zenon, <1>1, <1>6 DEF TaskTypes
    <3> QED
      BY Zenon, <1>1, <1>2, <1>3, <1>5, <1>6, <2>1, <3>1, TurnKeeps, TypesNext
  <2>3. /\ pc'[t] = "life" /\ op'[t] = op[t] /\ want'[t] = want[t] /\ ses'[t] = by_id[i]
        /\ todo'[t] = todo[t] /\ Others(t)
    BY Zenon, <1>1, <1>6 DEF TaskTypes, Turn, Others
  <2>4. FromMaps(t) /\ OpensAlone(t)
    BY Zenon, <1>2, <1>6, <2>3 DEF FromMaps, OpensAlone, Opening, Walking
  <2>5. CallsListed(t) /\ Settles(t)
    BY Zenon, <1>2, <1>5, <2>3 DEF CallsListed, Settles
  <2> QED
    BY Zenon, <1>4, <1>5, <2>2, <2>3, <2>4, <2>5, QuietStep
<1>7. ASSUME \A i \in Ids : by_path[want[t]] = i => by_id[i] = None, Goto(t, "fresh") PROVE IInv'
  <2>1. by_path[want[t]] = None
    BY <1>1, <1>2, <1>7, Parts DEF SessionTypes, MapsAgree
  <2>2. /\ pc'[t] = "fresh" /\ op'[t] = op[t] /\ want'[t] = want[t] /\ ses'[t] = ses[t]
        /\ todo'[t] = todo[t] /\ Others(t)
    BY Zenon, <1>1, <1>7, GotoMoves
  <2>3. TaskTypes'
    BY Zenon, <1>1, <1>5, <1>7 DEF TaskTypes, Goto, PCs
  <2>4. Where'
    BY <1>1, <1>2, <1>5, <2>2, Distinct DEF Where, Others, Idling, Opening
  <2>5. Locks'
    BY <1>1, <1>2, <1>5, <2>2 DEF Locks, Others, Holding
  <2>6. FromMaps(t) /\ OpensAlone(t)
    BY Zenon, <1>2, <2>1, <2>2 DEF FromMaps, OpensAlone, Opening
  <2>7. CallsListed(t) /\ Settles(t)
    BY Zenon, <1>2, <1>5, <2>2 DEF CallsListed, Settles
  <2> QED
    BY Zenon, <1>3, <1>4, <1>5, <2>2, <2>3, <2>4, <2>5, <2>6, <2>7, QuietStep, TypesNext
<1> QED
  BY Zenon, <1>6, <1>7 DEF FindByPath

\* A request gets the lifecycle lock of its session.
LEMMA AcquireKeeps == ASSUME IInv, NEW t \in Tasks, Acquire(t) PROVE IInv'
<1>1. TaskTypes /\ SessionTypes /\ Where /\ Locks /\ pc[t] = "life" /\ ses[t] \in Sessions
  BY Zenon, AtHand, Parts DEF Acquire
<1>2. /\ pc'[t] = "held" /\ op'[t] = op[t] /\ want'[t] = want[t] /\ ses'[t] = ses[t]
      /\ todo'[t] = todo[t] /\ Others(t)
  BY Zenon, <1>1, GotoMoves DEF Acquire
<1>3. TaskTypes' /\ SessionTypes'
  BY Zenon, <1>1 DEF TaskTypes, SessionTypes, Acquire, Goto, PCs, maps
<1>4. Where'
  BY <1>1, <1>2 DEF Where, Others, Idling, Opening, Acquire
<1>5. Locks'
  <2>1. lifecycle[ses[t]] = None /\ lifecycle'[ses[t]] = t /\ \A s \in Sessions \ {ses[t]} : lifecycle'[s] = lifecycle[s]
    BY Zenon, <1>1 DEF Acquire, TaskTypes
  <2> QED
    BY <1>1, <1>2, <2>1, Distinct DEF Locks, Others, Holding
<1>6. FromMaps(t) /\ Beside(t)
  BY Zenon, <1>2 DEF FromMaps, Beside, Acquire
<1>7. OpensAlone(t)
  BY Zenon, <1>1, <1>2, Parts DEF OpensAlone, PathKnown, Opening
<1>8. CallsListed(t) /\ Settles(t)
  BY Zenon, <1>1, <1>2 DEF CallsListed, Settles, Acquire
<1> QED
  BY Zenon, <1>2, <1>3, <1>4, <1>5, <1>6, <1>7, <1>8, QuietStep, TypesNext DEF Acquire

\* open adopts a live session, ignores one that is closed, discards a dead one.
LEMMA AdoptKeeps == ASSUME IInv, NEW t \in Tasks, Adopt(t) PROVE IInv'
<1>1. TaskTypes /\ SessionTypes /\ ses[t] \in Sessions /\ pc[t] = "held" /\ op[t] = "open"
  BY Zenon, AtHand DEF Adopt, Holding
<1>2. UNCHANGED <<maps, id, path, lease, active, reaping>>
  BY Zenon DEF Adopt
<1>3. expired' \in [Sessions -> BOOLEAN] /\ \A s \in Sessions \ {ses[t]} : expired'[s] = expired[s]
  BY Zenon, <1>1 DEF Adopt, SessionTypes
<1>4. SessionTypes' /\ Beside(t) /\ LeasesSettle
  BY Zenon, <1>1, <1>2, <1>3 DEF SessionTypes, maps, Beside, LeasesSettle, Holding
<1>5. CASE ~Current(ses[t]) /\ Leave(t)
  BY Zenon, <1>1, <1>2, <1>4, <1>5, Leaves DEF Holding
<1>6. CASE Return(t)
  BY Zenon, <1>1, <1>2, <1>4, <1>6, Returns
<1>7. CASE Goto(t, "remove") /\ UNCHANGED <<lifecycle, open_lock>>
  <2>1. CallsListed(t) /\ Settles(t)
    BY <1>1, <1>2, <1>7, GotoMoves DEF CallsListed, Settles
  <2> QED
    BY Zenon, <1>1, <1>2, <1>4, <1>7, <2>1, Proceeds DEF Holding
<1> QED
  BY Zenon, <1>5, <1>6, <1>7 DEF Adopt

\* open has found its path free: it is refused, or takes an unused id and an
\* unused allocation, which nobody refers to.
LEMMA FreshKeeps == ASSUME IInv, NEW t \in Tasks, Fresh(t) PROVE IInv'
<1>1. TaskTypes /\ SessionTypes /\ pc[t] = "fresh" /\ op[t] = "open" /\ ses[t] = None /\ want[t] \in Paths
  BY AtHand, Parts DEF Fresh, Where, Opening, Idling, TypeOK
<1>2. CASE Return(t) /\ UNCHANGED <<id, path, lease, active, expired>>
  <2>1. SessionTypes' /\ Beside(t) /\ LeasesSettle
    BY Zenon, <1>1, <1>2 DEF SessionTypes, maps, Beside, LeasesSettle, Fresh
  <2>2. \A s \in Sessions : active'[s] => active[s] /\ ~(pc[t] = "rpc" /\ ses[t] = s)
    BY Zenon, <1>1, <1>2
  <2> QED
    BY Zenon, <1>2, <2>1, <2>2, Returns DEF Fresh
<1>3. ASSUME NEW i \in Ids, NEW s \in Sessions, by_id[i] = None, id[s] = None,
             id' = [id EXCEPT ![s] = i], path' = [path EXCEPT ![s] = want[t]],
             lease' = [lease EXCEPT ![s] = "opening"], pc' = [pc EXCEPT ![t] = "opening"],
             ses' = [ses EXCEPT ![t] = s],
             UNCHANGED <<lifecycle, active, expired, open_lock, op, want, todo>>
      PROVE  IInv'
  <2>1. UNCHANGED <<by_id, by_path, reaping>>
    BY Zenon DEF Fresh, maps
  <2>2. id'[s] = i /\ path'[s] = want[t] /\ lease'[s] = "opening"
    BY Zenon, <1>1, <1>3 DEF SessionTypes
  <2>3. \A r \in Sessions \ {s} : id'[r] = id[r] /\ path'[r] = path[r] /\ lease'[r] = lease[r]
    BY Zenon, <1>1, <1>3 DEF SessionTypes
  <2>4. /\ pc'[t] = "opening" /\ op'[t] = op[t] /\ want'[t] = want[t] /\ ses'[t] = s
        /\ todo'[t] = todo[t] /\ Others(t)
    BY Zenon, <1>1, <1>3 DEF TaskTypes, Others
  <2>5. /\ \A j \in Ids : by_id[j] # s
        /\ \A u \in Tasks : ses[u] # s /\ (op[u] \in Walking => s \notin todo[u])
    BY <1>3, Parts, Distinct DEF MapsAgree, InUse
  <2>6. TypeOK'
    <3>1. TaskTypes'
      BY Zenon, <1>1, <1>3 DEF TaskTypes, PCs
    <3>2. SessionTypes'
      BY Zenon, <1>1, <1>3, <2>1 DEF SessionTypes, Leases
    <3> QED
      BY Zenon, <3>1, <3>2, TypesNext
  <2>7. Where'
    BY <1>1, <1>3, <2>4, Parts, Distinct DEF Where, Others, Idling, Opening
  <2>8. Locks'
    BY <1>1, <1>3, <2>4, Parts DEF Locks, Others, Holding
  <2>9. InUse'
    BY <1>1, <1>3, <2>2, <2>3, <2>4, <2>5, Parts, Distinct DEF InUse, TypeOK, Others, Walking
  <2>10. MapsAgree'
    BY <2>1, <2>3, <2>5, Parts, Distinct DEF MapsAgree, TypeOK
  <2>11. Private'
    <3>1. ASSUME NEW u \in Tasks \ {t}, pc[u] \in Opening PROVE FALSE
      BY Zenon, <1>1, <3>1, Parts DEF Where, Opening
    <3> QED
      BY <1>1, <1>3, <2>1, <2>2, <2>4, <2>5, <3>1 DEF Private, Others, Walking
  <2>12. PathKnown'
    BY <1>1, <2>1, <2>4, Parts, Distinct DEF PathKnown, Others, Opening
  <2>13. Calls'
    <3>1. \A u \in Tasks \ {t} : ses[u] # None => id'[ses[u]] = id[ses[u]]
      BY Zenon, <2>3, <2>5, Parts DEF TypeOK
    <3>2. \A r \in Sessions : active'[r] => \E u \in Tasks : pc'[u] = "rpc" /\ ses'[u] = r
      BY <1>1, <1>3, <2>4, Parts DEF Calls, Others
    <3> QED
      BY <2>1, <2>4, <3>1, <3>2, Parts DEF Calls, Others, Where, Idling
  <2>14. Reaps'
    BY ZenonT(30), <1>1, <1>3, <2>4, Parts DEF Reaps, IdlePastTtl, Others
  <2>15. ListedIsSettled'
    BY <2>1, <2>3, <2>5, Parts DEF ListedIsSettled, Listed, TypeOK
  <2> QED
    BY Zenon, <2>6, <2>7, <2>8, <2>9, <2>10, <2>11, <2>12, <2>13, <2>14, <2>15 DEF IInv
<1> QED
  BY Zenon, <1>2, <1>3 DEF Fresh

\* The steps of an open on its own worker.
LEMMA OpeningKeeps ==
  ASSUME IInv, NEW t \in Tasks, OpenOk(t) \/ OpenFails(t) \/ Warmup(t)
  PROVE  IInv'
<1>1. SessionTypes /\ (pc[t] \in Opening => ses[t] \in Sessions)
  BY Zenon, AtHand
<1>2. CASE OpenOk(t)
  BY Zenon, <1>1, <1>2, GoesOnOpening DEF OpenOk, Opening, Leases, SessionTypes
<1>3. CASE OpenFails(t)
  BY Zenon, <1>1, <1>3, GoesOnOpening DEF OpenFails, Opening, Leases, SessionTypes
<1>4. CASE Warmup(t)
  <2>1. lease[ses[t]] \notin {"opening", "closing"}
    BY Zenon, <1>4, Parts DEF Warmup, Private, Opening
  <2> QED
    BY Zenon, <1>1, <1>4, <2>1, GoesOnOpening DEF Warmup, Opening, Leases, SessionTypes
<1> QED
  BY Zenon, <1>2, <1>3, <1>4

\* An open that failed has given its worker back.
LEMMA GivenBackKeeps == ASSUME IInv, NEW t \in Tasks, GivenBack(t) PROVE IInv'
<1>1. SessionTypes /\ ses[t] \in Sessions /\ pc[t] = "giveback"
  BY Zenon, AtHand DEF GivenBack, Opening
<1>2. SessionTypes'
  BY Zenon, <1>1 DEF GivenBack, SessionTypes, Leases, maps
<1>3. lease'[ses[t]] = "none" /\ \A s \in Sessions \ {ses[t]} : lease'[s] = lease[s]
  BY Zenon, <1>1 DEF GivenBack, SessionTypes
<1>4. Beside(t) /\ LeasesSettle
  BY Zenon, <1>1, <1>3 DEF Beside, LeasesSettle, Opening, GivenBack
<1> QED
  BY Zenon, <1>1, <1>2, <1>4, Returns DEF GivenBack

\* open lists its session: until now no task but this one knew it, its id and
\* its path were free, and no other open is under way.
LEMMA InsertKeeps == ASSUME IInv, NEW t \in Tasks, Insert(t) PROVE IInv'
<1>1. TaskTypes /\ SessionTypes /\ pc[t] = "insert" /\ op[t] = "open" /\ want[t] \in Paths
  BY Zenon, AtHand, Parts DEF Insert, Where, Opening, TypeOK
<1>2. PICK s \in Sessions, i \in Ids : s = ses[t] /\ i = id[s]
  BY Zenon, <1>1, AtHand DEF Opening
<1>3. /\ path[s] = want[t] /\ by_id[i] = None /\ by_path[want[t]] = None
      /\ lease[s] \notin {"opening", "closing"} /\ \A j \in Ids : by_id[j] # s
  BY <1>1, <1>2, Parts, ListedIsPublic, Distinct DEF Private, PathKnown, Opening
<1>4. UNCHANGED <<id, path, lease, active, expired, reaping>> /\ Return(t)
  BY Zenon DEF Insert
<1>5. by_id'[i] = s /\ \A j \in Ids \ {i} : by_id'[j] = by_id[j]
  BY Zenon, <1>1, <1>2 DEF Insert, SessionTypes
<1>6. by_path'[want[t]] = i /\ \A p \in Paths \ {want[t]} : by_path'[p] = by_path[p]
  BY Zenon, <1>1, <1>2, <1>3 DEF Insert, SessionTypes
<1>7. pc'[t] = "free" /\ op'[t] = "none" /\ ses'[t] = None /\ Others(t)
  BY ZenonT(30), <1>1, <1>4, BeginMoves DEF Return
<1>8. \A u \in Tasks \ {t} : ses[u] # s /\ (op[u] = "open" => pc[u] = "lock" /\ ses[u] = None)
  BY Zenon, <1>1, <1>2, Parts DEF Where, Private, Opening, Idling
<1>9. TypeOK' /\ Where' /\ Locks'
  <2>1. SessionTypes'
    BY Zenon, <1>1, <1>2, <1>3, <1>4 DEF SessionTypes, Insert
  <2> QED
    BY Zenon, <1>1, <1>4, <2>1, Parts, ReturnKeeps, TypesNext
<1>10. InUse'
  BY Zenon, <1>4, <1>7, Parts DEF InUse, Others, Walking
<1>11. MapsAgree'
  <2>1. \A j \in Ids : by_id[j] # None => path[by_id[j]] \in Paths
    BY <1>1, Parts, Distinct DEF MapsAgree, InUse, SessionTypes
  <2> QED
    BY <1>1, <1>2, <1>3, <1>4, <1>5, <1>6, <2>1, Parts, Distinct DEF MapsAgree
<1>12. Private' /\ PathKnown'
  BY <1>7, <1>8, Parts DEF Private, PathKnown, Others, Opening, Where
<1>13. Calls'
  <2>1. \A u \in Tasks \ {t} : ses[u] # None => id[ses[u]] \in Ids
    BY Zenon, Parts, HasId
  <2>2. \A u \in Tasks \ {t} : pc[u] \in {"close", "closing", "rpc"} => ses[u] # None
    BY Zenon, Parts DEF Where, Idling
  <2>3. \A r \in Sessions : active'[r] => \E u \in Tasks : pc'[u] = "rpc" /\ ses'[u] = r
    BY <1>1, <1>4, <1>7, Parts DEF Calls, Others
  <2> QED
    BY <1>3, <1>4, <1>5, <1>7, <1>8, <2>1, <2>2, <2>3, Parts DEF Calls, Others
<1>14. Reaps'
  BY Zenon, <1>4, <1>7, Parts DEF Reaps, IdlePastTtl, Others
<1>15. ListedIsSettled'
  BY <1>3, <1>4, <1>5, Parts DEF ListedIsSettled, Listed
<1> QED
  BY Zenon, <1>9, <1>10, <1>11, <1>12, <1>13, <1>14, <1>15 DEF IInv

-----------------------------------------------------------------------------
(* The steps of close and of close_with_save *)

\* A task takes the session it holds out of both maps, and goes on to close it
\* or returns.
LEMMA Removes ==
  ASSUME IInv, NEW t \in Tasks, pc[t] \in {"held", "remove", "failed"}, Current(ses[t]),
         by_id' = [by_id EXCEPT ![id[ses[t]]] = None],
         by_path' = [by_path EXCEPT ![path[ses[t]]] = None],
         UNCHANGED <<id, path, lease, active, expired, reaping>>,
         (TaskTypes /\ Where /\ Locks)', Others(t),
         \/ pc'[t] = "free" /\ op'[t] = "none" /\ ses'[t] = None
         \/ /\ pc'[t] = "close" /\ op'[t] = op[t] /\ want'[t] = want[t] /\ ses'[t] = ses[t]
            /\ todo'[t] = todo[t]
  PROVE  IInv'
<1>1. TaskTypes /\ SessionTypes /\ ses[t] \in Sessions /\ id[ses[t]] \in Ids
  BY Zenon, AtHand DEF Holding
<1>2. PICK s \in Sessions, i \in Ids, p \in Paths : s = ses[t] /\ i = id[s] /\ p = path[s]
  BY Zenon, <1>1, Parts, Distinct DEF InUse, SessionTypes
<1>3. by_id[i] = s /\ by_path[p] = i
  BY Zenon, <1>2, Parts, Distinct DEF Current, MapsAgree
<1>4. by_id'[i] = None /\ \A j \in Ids \ {i} : by_id'[j] = by_id[j]
  BY Zenon, <1>1, <1>2 DEF SessionTypes
<1>5. by_path'[p] = None /\ \A q \in Paths \ {p} : by_path'[q] = by_path[q]
  BY Zenon, <1>1, <1>2 DEF SessionTypes
<1>6. TypeOK'
  <2>1. SessionTypes'
    BY Zenon, <1>1, <1>2 DEF SessionTypes
  <2> QED
    BY Zenon, <2>1, TypesNext
<1>7. InUse'
  BY <1>2, Parts DEF InUse, Others, Walking
<1>8. MapsAgree'
  <2>1. \A j \in Ids : by_id[j] # None => path[by_id[j]] \in Paths
    BY <1>1, Parts, Distinct DEF MapsAgree, InUse, SessionTypes
  <2> QED
    BY <1>2, <1>3, <1>4, <1>5, <2>1, Parts, Distinct DEF MapsAgree
<1>9. Private'
  <2> SUFFICES ASSUME NEW u \in Tasks, pc'[u] \in Opening
               PROVE  /\ path'[ses'[u]] = want'[u] /\ by_id'[id'[ses'[u]]] = None
                      /\ pc'[u] \in {"warmup", "insert"} => lease'[ses'[u]] \notin {"opening", "closing"}
                      /\ \A v \in Tasks \ {u} :
                           ses'[v] # ses'[u] /\ (op'[v] \in Walking => ses'[u] \notin todo'[v])
    BY Zenon DEF Private
  <2>1. u # t /\ pc'[u] = pc[u] /\ ses'[u] = ses[u] /\ want'[u] = want[u]
    BY Zenon DEF Opening, Others
  <2>2. ses[u] # None /\ id[ses[u]] \in Ids
    BY Zenon, <2>1, AtHand, Distinct
  <2>3. by_id'[id[ses[u]]] = None
    BY Zenon, <1>4, <2>1, <2>2, Parts DEF Private
  <2>4. \A v \in Tasks \ {u} : ses'[v] # ses[u] /\ (op'[v] \in Walking => ses[u] \notin todo'[v])
    BY <2>1, <2>2, Parts DEF Private, Others, Walking
  <2> QED
    BY Zenon, <2>1, <2>3, <2>4, Parts DEF Private
<1>10. PathKnown'
  <2>1. \A u \in Tasks : op[u] = "open" => want[u] \in Paths
    BY Zenon, Parts DEF Where, TypeOK
  <2>2. \A u \in Tasks : pc[u] \in Opening \cup {"fresh"} => op[u] = "open"
    BY Zenon, Parts DEF Where
  <2>3. \A q \in Paths : by_path[q] = None => by_path'[q] = None
    BY Zenon, <1>5
  <2>4. \A q \in Paths, j \in Ids : by_path'[q] = j => by_path[q] = j /\ by_id'[j] = by_id[j]
    BY <1>2, <1>3, <1>4, <1>5, Parts, Distinct DEF MapsAgree
  <2> QED
    BY <2>1, <2>2, <2>3, <2>4, Parts DEF PathKnown, Others, Opening
<1>11. Calls'
  <2>1. ASSUME NEW u \in Tasks \ {t}, pc[u] = "rpc" PROVE by_id'[id[ses[u]]] = ses[u]
    <3>1. ses[u] \in Sessions /\ id[ses[u]] \in Ids
      BY Zenon, <2>1, AtHand DEF Holding
    <3>2. ses[u] # s
      BY <1>2, <2>1, Parts DEF Locks, Holding
    <3> QED
      BY <1>3, <1>4, <2>1, <3>1, <3>2, Parts DEF Calls
  <2>2. ASSUME NEW u \in Tasks, pc'[u] \in {"close", "closing"} PROVE by_id'[id[ses'[u]]] # ses'[u]
    <3>1. ses'[u] \in Sessions /\ id[ses'[u]] \in Ids /\ (u # t => pc[u] \in {"close", "closing"} /\ ses'[u] = ses[u])
      BY Zenon, <2>2, <1>1, AtHand DEF Holding, Others
    <3> QED
      BY <1>2, <1>4, <2>2, <3>1, Parts, Distinct DEF Calls
  <2>3. \A r \in Sessions : active'[r] => \E u \in Tasks : pc'[u] = "rpc" /\ ses'[u] = r
    BY Parts DEF Calls, Others
  <2> QED
    BY <2>1, <2>2, <2>3 DEF Calls, Others
<1>12. Reaps'
  BY Zenon, Parts DEF Reaps, IdlePastTtl, Others
<1>13. ListedIsSettled'
  BY Zenon, <1>4, Parts DEF ListedIsSettled, Listed
<1> QED
  BY Zenon, <1>6, <1>7, <1>8, <1>9, <1>10, <1>11, <1>12, <1>13 DEF IInv

\* remove_if_current removes the same two entries as close: the maps agree.
LEMMA RemoveBoth ==
  ASSUME IInv, NEW s \in Sessions, Current(s), id[s] \in Ids, RemoveCurrent(s)
  PROVE  by_id' = [by_id EXCEPT ![id[s]] = None] /\ by_path' = [by_path EXCEPT ![path[s]] = None]
<1>1. by_path \in [Paths -> Ids \cup {None}] /\ by_path[path[s]] = id[s]
  BY Zenon, Parts, Distinct DEF TypeOK, MapsAgree, Current
<1>2. by_path' = [q \in Paths |-> IF q = path[s] THEN None ELSE by_path[q]]
  BY Zenon, <1>1 DEF RemoveCurrent
<1> QED
  BY Zenon, <1>1, <1>2 DEF RemoveCurrent

\* A task that goes on to close the session it took out of the maps.
LEMMA RemovesAndCloses ==
  ASSUME IInv, NEW t \in Tasks, pc[t] \in {"held", "remove"}, Current(ses[t]),
         by_id' = [by_id EXCEPT ![id[ses[t]]] = None],
         by_path' = [by_path EXCEPT ![path[ses[t]]] = None],
         UNCHANGED <<id, path, lease, active, expired, reaping, lifecycle, open_lock>>, Goto(t, "close")
  PROVE  IInv'
<1>1. TaskTypes /\ Where /\ Locks
  BY Zenon, AtHand, Parts
<1>2. /\ pc'[t] = "close" /\ op'[t] = op[t] /\ want'[t] = want[t] /\ ses'[t] = ses[t]
      /\ todo'[t] = todo[t] /\ Others(t)
  BY Zenon, <1>1, GotoMoves
<1>3. (TaskTypes /\ Where /\ Locks)'
  BY Zenon, <1>1, GotoHolds DEF Holding
<1> QED
  BY Zenon, <1>2, <1>3, Removes

\* A step that changes nothing of the sessions.
LEMMA SameSessions ==
  ASSUME IInv, NEW t \in Tasks, UNCHANGED <<maps, id, path, lease, active, expired, reaping>>
  PROVE  SessionTypes' /\ Beside(t) /\ LeasesSettle
  BY Zenon, AtHand DEF SessionTypes, maps, Beside, LeasesSettle

\* A task that goes on to close a session that is not in the maps.
LEMMA ProceedsToClose ==
  ASSUME IInv, NEW t \in Tasks, UNCHANGED <<maps, id, path, lease, active, expired, reaping>>,
         UNCHANGED <<lifecycle, open_lock>>, pc[t] \in {"held", "remove"}, NEW p \in {"remove", "close"},
         Goto(t, p), p = "close" => ~Current(ses[t]),
         op[t] = "reap" /\ p = "remove" => IdlePastTtl(ses[t])
  PROVE  IInv'
<1>1. pc'[t] = p /\ op'[t] = op[t] /\ ses'[t] = ses[t]
  BY Zenon, AtHand, GotoMoves
<1>2. CallsListed(t) /\ Settles(t)
  BY Zenon, <1>1 DEF CallsListed, Settles, Current, IdlePastTtl
<1> QED
  BY Zenon, <1>2, SameSessions, Proceeds DEF Holding

\* close, and shutdown's close.
LEMMA CloseHeldKeeps == ASSUME IInv, NEW t \in Tasks, CloseHeld(t) PROVE IInv'
<1>1. CASE /\ Current(ses[t])
           /\ by_id' = [by_id EXCEPT ![id[ses[t]]] = None]
           /\ by_path' = [by_path EXCEPT ![path[ses[t]]] = None]
           /\ Goto(t, "close")
           /\ UNCHANGED <<lifecycle, open_lock>>
  BY Zenon, <1>1, RemovesAndCloses DEF CloseHeld
<1>2. CASE ~Current(ses[t]) /\ AfterClose(t) /\ UNCHANGED maps
  BY Zenon, <1>2, SameSessions, Closes DEF CloseHeld, Holding
<1> QED
  BY Zenon, <1>1, <1>2 DEF CloseHeld

\* remove_if_current before a discard.
LEMMA RemoveKeeps == ASSUME IInv, NEW t \in Tasks, Remove(t) PROVE IInv'
<1>1. ses[t] \in Sessions /\ id[ses[t]] \in Ids
  BY Zenon, AtHand DEF Remove, Holding
<1>2. CASE Current(ses[t]) /\ RemoveCurrent(ses[t]) /\ Goto(t, "close") /\ UNCHANGED <<lifecycle, open_lock>>
  BY Zenon, <1>1, <1>2, RemoveBoth, RemovesAndCloses DEF Remove
<1>3. CASE ~Current(ses[t]) /\ UNCHANGED maps
  BY Zenon, <1>3, ProceedsToClose, SameSessions, Leaves DEF Remove, Holding
<1> QED
  BY Zenon, <1>2, <1>3 DEF Remove

\* close_with_save takes the handle, and the pool releases it.
LEMMA CloseWithSaveKeeps == ASSUME IInv, NEW t \in Tasks, CloseWithSave(t) \/ Released(t) PROVE IInv'
<1>1. /\ TaskTypes /\ SessionTypes /\ ses[t] \in Sessions /\ id[ses[t]] \in Ids
      /\ pc[t] \in {"close", "closing"}
  BY Zenon, AtHand DEF CloseWithSave, Released, Holding
<1>2. ~Current(ses[t]) /\ \A i \in Ids : by_id[i] # ses[t]
  BY <1>1, Parts, Distinct DEF Calls, Current, MapsAgree
<1>3. UNCHANGED <<maps, id, path, active, expired, reaping>>
  BY Zenon DEF CloseWithSave, Released
<1>4. lease' \in [Sessions -> Leases] /\ \A s \in Sessions \ {ses[t]} : lease'[s] = lease[s]
  BY Zenon, <1>1 DEF CloseWithSave, Released, SessionTypes, Leases
<1>5. SessionTypes' /\ Beside(t) /\ LeasesSettle
  BY Zenon, <1>1, <1>2, <1>3, <1>4 DEF SessionTypes, maps, Beside, LeasesSettle, Holding
<1>6. CASE AfterClose(t)
  BY Zenon, <1>1, <1>2, <1>3, <1>5, <1>6, Closes DEF Holding
<1>7. CASE Goto(t, "closing") /\ UNCHANGED <<lifecycle, open_lock>>
  <2>1. pc'[t] = "closing" /\ ses'[t] = ses[t]
    BY Zenon, <1>1, <1>7, GotoMoves
  <2>2. CallsListed(t) /\ Settles(t)
    BY Zenon, <1>1, <1>2, <1>3, <1>5, <2>1 DEF CallsListed, Settles, LeasesSettle, Current
  <2> QED
    BY Zenon, <1>1, <1>3, <1>5, <1>7, <2>2, Proceeds DEF Holding
<1> QED
  BY Zenon, <1>6, <1>7 DEF CloseWithSave, Released

-----------------------------------------------------------------------------
(* The steps of call_native_result *)

\* The call asks the maps again under the lifecycle lock.
LEMMA CallHeldKeeps == ASSUME IInv, NEW t \in Tasks, CallHeld(t) PROVE IInv'
<1>1. TaskTypes /\ SessionTypes /\ ses[t] \in Sessions /\ pc[t] = "held" /\ op[t] = "call"
  BY Zenon, AtHand DEF CallHeld, Holding
<1>2. UNCHANGED <<maps, id, path, lease, reaping>>
  BY Zenon DEF CallHeld
<1>3. CASE /\ Current(ses[t])
           /\ active' = [active EXCEPT ![ses[t]] = TRUE]
           /\ expired' = [expired EXCEPT ![ses[t]] = FALSE]
           /\ Goto(t, "rpc")
           /\ UNCHANGED <<lifecycle, open_lock>>
  <2>1. \A s \in Sessions \ {ses[t]} : active'[s] = active[s] /\ expired'[s] = expired[s]
    BY Zenon, <1>1, <1>3 DEF SessionTypes
  <2>2. SessionTypes'
    BY Zenon, <1>1, <1>2, <1>3 DEF SessionTypes, maps
  <2>3. Beside(t)
    BY Zenon, <1>1, <1>2, <2>1 DEF Beside, Holding
  <2>4. pc'[t] = "rpc" /\ op'[t] = "call" /\ ses'[t] = ses[t]
    BY Zenon, <1>1, <1>3, GotoMoves
  <2>5. CallsListed(t) /\ Settles(t)
    BY Zenon, <1>1, <1>2, <1>3, <2>1, <2>4 DEF CallsListed, Settles, Current
  <2> QED
    BY Zenon, <1>1, <1>2, <1>3, <2>2, <2>3, <2>5, Proceeds DEF Holding
<1>4. CASE ~Current(ses[t]) /\ Return(t) /\ UNCHANGED <<active, expired>>
  BY Zenon, <1>1, <1>2, <1>4, SameSessions, Returns
<1> QED
  BY Zenon, <1>3, <1>4 DEF CallHeld

\* The call is answered, or fails: it is no longer counted.
LEMMA CallEndsKeeps == ASSUME IInv, NEW t \in Tasks, CallOk(t) \/ CallErr(t) PROVE IInv'
<1>1. /\ TaskTypes /\ SessionTypes /\ ses[t] \in Sessions /\ pc[t] = "rpc" /\ op[t] # "open"
  BY Zenon, AtHand, Parts DEF CallOk, CallErr, Holding, Where
<1>2. UNCHANGED <<maps, id, path, reaping>>
  BY Zenon DEF CallOk, CallErr
<1>3. /\ lease' = lease \/ lease' = [lease EXCEPT ![ses[t]] = "none"]
      /\ active' = [active EXCEPT ![ses[t]] = FALSE]
      /\ expired' = expired \/ expired' = [expired EXCEPT ![ses[t]] = FALSE]
  BY Zenon DEF CallOk, CallErr
<1>4. /\ ~active'[ses[t]] /\ (lease'[ses[t]] = lease[ses[t]] \/ lease'[ses[t]] = "none")
      /\ \A s \in Sessions \ {ses[t]} :
           lease'[s] = lease[s] /\ active'[s] = active[s] /\ expired'[s] = expired[s]
  BY Zenon, <1>1, <1>3 DEF SessionTypes
<1>5. SessionTypes'
  BY Zenon, <1>1, <1>2, <1>3 DEF SessionTypes, Leases, maps
<1>6. Beside(t)
  BY Zenon, <1>1, <1>4 DEF Beside, Holding
<1>7. LeasesSettle /\ \A s \in Sessions : active'[s] => active[s] /\ ~(pc[t] = "rpc" /\ ses[t] = s)
  BY Zenon, <1>1, <1>4 DEF LeasesSettle
<1>8. CASE Return(t)
  BY Zenon, <1>2, <1>5, <1>6, <1>7, <1>8, Returns
<1>9. CASE Goto(t, "failed") /\ UNCHANGED <<lifecycle, open_lock>>
  <2>1. pc'[t] = "failed" /\ op'[t] = op[t] /\ ses'[t] = ses[t]
    BY Zenon, <1>1, <1>9, GotoMoves
  <2>2. CallsListed(t) /\ Settles(t)
    BY Zenon, <1>1, <1>7, <2>1 DEF CallsListed, Settles, LeasesSettle
  <2> QED
    BY Zenon, <1>1, <1>2, <1>5, <1>6, <1>9, <2>2, Proceeds DEF Holding
<1> QED
  BY Zenon, <1>8, <1>9 DEF CallOk, CallErr

\* A session without a live worker is forgotten.
LEMMA CallFailedKeeps == ASSUME IInv, NEW t \in Tasks, CallFailed(t) PROVE IInv'
<1>1. TaskTypes /\ Where /\ Locks /\ ses[t] \in Sessions /\ id[ses[t]] \in Ids /\ pc[t] = "failed"
  BY Zenon, AtHand, Parts DEF CallFailed, Holding
<1>2. UNCHANGED <<id, path, lease, active, expired, reaping>> /\ Return(t)
  BY Zenon DEF CallFailed
<1>3. CASE Current(ses[t]) /\ RemoveCurrent(ses[t])
  <2>1. pc'[t] = "free" /\ op'[t] = "none" /\ ses'[t] = None /\ Others(t)
    BY Zenon, <1>1, <1>2, BeginMoves DEF Return
  <2>2. (TaskTypes /\ Where /\ Locks)'
    BY Zenon, <1>1, <1>2, ReturnKeeps
  <2> QED
    BY Zenon, <1>1, <1>2, <1>3, <2>1, <2>2, RemoveBoth, Removes
<1>4. CASE UNCHANGED maps
  BY Zenon, <1>1, <1>2, <1>4, SameSessions, Returns
<1> QED
  BY Zenon, <1>3, <1>4 DEF CallFailed

\* A request is dropped: its call, if it was in one, is no longer counted.
LEMMA AbandonKeeps == ASSUME IInv, NEW t \in Tasks, Abandon(t) PROVE IInv'
<1>1. SessionTypes
  BY Zenon, AtHand
<1>2. SessionTypes'
  BY Zenon, <1>1 DEF Abandon, SessionTypes, maps
<1>3. \A s \in Sessions : active'[s] = (active[s] /\ ~(pc[t] = "rpc" /\ s = ses[t]))
  BY Zenon DEF Abandon
<1>4. Beside(t) /\ LeasesSettle
  BY Zenon, <1>1, <1>3 DEF Beside, LeasesSettle, Abandon, Holding, SessionTypes
<1> QED
  BY Zenon, <1>2, <1>3, <1>4, Returns DEF Abandon

-----------------------------------------------------------------------------
(* The walks of list, reap_idle and shutdown, and the beginnings *)

\* A walk goes past an entry of its snapshot.
LEMMA SkipKeeps ==
  ASSUME TaskTypes, Where, Locks, NEW t \in Tasks, NEW x, todo' = [todo EXCEPT ![t] = @ \ {x}],
         UNCHANGED <<pc, op, want, ses, lifecycle, open_lock>>
  PROVE  (TaskTypes /\ Where /\ Locks)' /\ Others(t) /\ todo'[t] = todo[t] \ {x}
<1>1. Others(t) /\ todo'[t] = todo[t] \ {x}
  BY Zenon DEF Others, TaskTypes
<1>2. TaskTypes'
  BY Zenon DEF TaskTypes
<1>3. Where'
  BY Zenon, <1>1 DEF Where, Others
<1>4. Locks'
  BY Zenon DEF Locks
<1> QED
  BY Zenon, <1>1, <1>2, <1>3, <1>4

\* A walk turns to a session.
LEMMA TurnWalks ==
  ASSUME IInv, NEW t \in Tasks, NEW s \in Sessions, NEW x, todo' = [todo EXCEPT ![t] = @ \ {x}],
         pc[t] = "next", (s \in todo[t] /\ op[t] \in Walking) \/ \E i \in Ids : by_id[i] = s, Turn(t, s),
         UNCHANGED <<maps, id, path, lease, active, expired, reaping, lifecycle, open_lock>>
  PROVE  IInv'
<1>1. TaskTypes /\ SessionTypes /\ Where /\ Locks /\ op[t] # "open"
  BY Zenon, AtHand, Parts DEF Where
<1>2. /\ pc'[t] = "life" /\ op'[t] = op[t] /\ ses'[t] = s /\ todo'[t] = todo[t] \ {x} /\ Others(t)
  BY Zenon, <1>1 DEF TaskTypes, Turn, Others
<1>3. todo' \in [Tasks -> SUBSET (Sessions \cup Ids)]
  BY Zenon, <1>1 DEF TaskTypes
<1>4. (TypeOK /\ Where /\ Locks)'
  <2>1. SessionTypes'
    BY Zenon, <1>1 DEF SessionTypes, maps
  <2>2. todo'[t] \subseteq todo[t] /\ \A u \in Tasks \ {t} : todo'[u] = todo[u]
    BY Zenon, <1>2 DEF Others
  <2> QED
    BY Zenon, <1>1, <1>3, <2>1, <2>2, TurnKeeps, TypesNext
<1>5. FromMaps(t)
  BY Zenon, <1>2 DEF FromMaps
<1> QED
  BY Zenon, <1>1, <1>2, <1>4, <1>5, TakesUp

\* A walk that skips an entry.
LEMMA SkipWalks ==
  ASSUME IInv, NEW t \in Tasks, NEW x, todo' = [todo EXCEPT ![t] = @ \ {x}], pc[t] = "next",
         UNCHANGED <<pc, op, want, ses, lifecycle, open_lock>>,
         UNCHANGED <<maps, id, path, lease, active, expired, reaping>>
  PROVE  IInv'
<1>1. TaskTypes /\ SessionTypes /\ Where /\ Locks /\ op[t] # "open"
  BY Zenon, AtHand, Parts DEF Where
<1>2. (TaskTypes /\ Where /\ Locks)' /\ Others(t) /\ todo'[t] = todo[t] \ {x}
  BY Zenon, <1>1, SkipKeeps
<1>3. SessionTypes'
  BY Zenon, <1>1 DEF SessionTypes, maps
<1>4. FromMaps(t)
  BY Zenon, <1>2 DEF FromMaps
<1> QED
  BY Zenon, <1>1, <1>2, <1>3, <1>4, TypesNext, TakesUp

\* list and the reaper look at the next session of their snapshot.
LEMMA VisitKeeps == ASSUME IInv, NEW t \in Tasks, Visit(t) PROVE IInv'
<1>1. pc[t] = "next" /\ op[t] \in Walking /\ todo[t] \subseteq Sessions
  BY Zenon, Parts DEF Visit, Walking, Where
<1>2. UNCHANGED <<maps, id, path, lease, active, expired, reaping>>
  BY Zenon DEF Visit
<1>3. CASE Return(t)
  BY Zenon, <1>1, <1>2, <1>3, SameSessions, Returns
<1>4. ASSUME NEW s \in todo[t], todo' = [todo EXCEPT ![t] = @ \ {s}], UNCHANGED <<lifecycle, open_lock>>,
             Turn(t, s) \/ UNCHANGED <<pc, op, want, ses>>
      PROVE  IInv'
  BY Zenon, <1>1, <1>2, <1>4, TurnWalks, SkipWalks
<1> QED
  BY Zenon, <1>3, <1>4 DEF Visit

\* They decide again under the lifecycle lock.
LEMMA RevisitKeeps == ASSUME IInv, NEW t \in Tasks, Revisit(t) PROVE IInv'
<1>1. op[t] = "reap" /\ Suspect(t, ses[t]) => IdlePastTtl(ses[t])
  BY Zenon DEF Suspect
<1>2. CASE Suspect(t, ses[t]) /\ Goto(t, "remove") /\ UNCHANGED <<lifecycle, open_lock>>
  BY Zenon, <1>1, <1>2, ProceedsToClose DEF Revisit
<1>3. CASE ~Suspect(t, ses[t]) /\ Leave(t)
  BY Zenon, <1>3, SameSessions, Leaves DEF Revisit, Holding
<1> QED
  BY Zenon, <1>2, <1>3 DEF Revisit

\* shutdown closes the next id of its snapshot; at the end every worker dies.
LEMMA ShutdownVisitKeeps == ASSUME IInv, NEW t \in Tasks, ShutdownVisit(t) PROVE IInv'
<1>1. pc[t] = "next" /\ op[t] = "shutdown" /\ todo[t] \subseteq Ids /\ TaskTypes /\ SessionTypes
  BY Zenon, AtHand, Parts DEF ShutdownVisit, Where
<1>2. UNCHANGED <<maps, id, path, active, expired, reaping>>
  BY Zenon DEF ShutdownVisit
<1>3. CASE lease' = [s \in Sessions |-> IF Live(s) THEN "gone" ELSE lease[s]] /\ Return(t)
  <2>1. \A s \in Sessions : lease'[s] = lease[s] \/ lease'[s] = "gone"
    BY Zenon, <1>3
  <2>2. SessionTypes'
    BY Zenon, <1>1, <1>2, <1>3 DEF SessionTypes, Leases, maps
  <2>3. Beside(t) /\ LeasesSettle
    BY Zenon, <1>2, <2>1 DEF Beside, LeasesSettle
  <2> QED
    BY Zenon, <1>1, <1>2, <1>3, <2>2, <2>3, Returns
<1>4. ASSUME NEW i \in todo[t], todo' = [todo EXCEPT ![t] = @ \ {i}],
             UNCHANGED <<lease, lifecycle, open_lock>>,
             (by_id[i] # None /\ Turn(t, by_id[i])) \/ UNCHANGED <<pc, op, want, ses>>
      PROVE  IInv'
  <2>1. i \in Ids /\ by_id[i] \in Sessions \cup {None}
    BY Zenon, <1>1 DEF SessionTypes
  <2>2. CASE by_id[i] # None /\ Turn(t, by_id[i])
    <3>1. PICK s \in Sessions : s = by_id[i]
      BY Zenon, <2>1, <2>2
    <3> QED
      BY Zenon, <1>1, <1>2, <1>4, <2>1, <2>2, <3>1, TurnWalks
  <2>3. CASE UNCHANGED <<pc, op, want, ses>>
    BY Zenon, <1>1, <1>2, <1>4, <2>3, SkipWalks
  <2> QED
    BY Zenon, <1>4, <2>2, <2>3
<1> QED
  BY Zenon, <1>3, <1>4 DEF ShutdownVisit

\* What a request begins with is well formed.
LEMMA BeginKeeps ==
  ASSUME TaskTypes, Where, Locks, NEW t \in Tasks, Free(t), UNCHANGED <<lifecycle, open_lock>>,
         NEW p \in {"lock", "life", "next"}, NEW k \in Ops \ {"none"}, NEW x \in Paths \cup {None},
         NEW s \in Sessions \cup {None}, NEW d \in SUBSET (Sessions \cup Ids), Begin(t, p, k, x, s, d),
         p = "life" <=> s # None, k = "open" <=> p = "lock", k = "open" => x # None,
         k \in Walking => d \subseteq Sessions, k = "shutdown" => d \subseteq Ids
  PROVE  (TaskTypes /\ Where /\ Locks)'
<1>1. pc'[t] = p /\ op'[t] = k /\ want'[t] = x /\ ses'[t] = s /\ todo'[t] = d /\ Others(t)
  BY Zenon, BeginMoves
<1>2. TaskTypes'
  BY Zenon DEF TaskTypes, Begin, PCs
<1>3. Where'
  BY <1>1 DEF Where, Others, Idling, Opening, Walking, Free
<1>4. Locks'
  BY <1>1 DEF Locks, Others, Holding, Free
<1> QED
  BY Zenon, <1>2, <1>3, <1>4

\* A request begins with what the maps hold.
LEMMA Begins ==
  ASSUME IInv, NEW t \in Tasks, Free(t), UNCHANGED <<maps, sessions, open_lock>>, reaping' \in BOOLEAN,
         NEW p \in {"lock", "life", "next"}, NEW k \in Ops \ {"none"}, NEW x \in Paths \cup {None},
         NEW s \in Sessions \cup {None}, NEW d \in SUBSET (Sessions \cup Ids), Begin(t, p, k, x, s, d),
         p = "life" <=> s # None, k = "open" <=> p = "lock", k = "open" => x # None,
         k \in Walking => d \subseteq Sessions, k = "shutdown" => d \subseteq Ids,
         s # None => s \in Listed, k \in Walking => d \subseteq Listed
  PROVE  IInv'
<1>1. TaskTypes /\ SessionTypes /\ Where /\ Locks
  BY Zenon, AtHand, Parts
<1>2. pc'[t] = p /\ op'[t] = k /\ want'[t] = x /\ ses'[t] = s /\ todo'[t] = d /\ Others(t)
  BY Zenon, <1>1, BeginMoves
<1>3. (TaskTypes /\ Where /\ Locks)'
  BY Zenon, <1>1, BeginKeeps DEF sessions
<1>4. SessionTypes'
  BY Zenon, <1>1 DEF SessionTypes, maps, sessions
<1>5. FromMaps(t)
  BY Zenon, <1>2, Distinct DEF FromMaps, Listed
<1>6. pc[t] # "rpc"
  BY Zenon DEF Free
<1> QED
  BY Zenon, <1>2, <1>3, <1>4, <1>5, <1>6, TypesNext, TakesUp DEF sessions

\* Every kind of request begins so.
LEMMA StartKeeps == ASSUME IInv, NEW t \in Tasks, Start(t) PROVE IInv'
<1>1. Listed \in SUBSET Sessions /\ \A i \in Ids : by_id[i] # None => by_id[i] \in Listed
  BY Parts DEF TypeOK, Listed
<1>2. reaping \in BOOLEAN
  BY Zenon, Parts DEF TypeOK
<1>3. ASSUME NEW p \in Paths, StartOpen(t, p) PROVE IInv'
  BY <1>2, <1>3, Begins, Distinct DEF StartOpen, Ops, Walking
<1>4. ASSUME NEW i \in Ids, StartClose(t, i) \/ StartCall(t, i) PROVE IInv'
  <2>1. PICK s \in Listed : s = by_id[i]
    BY Zenon, <1>1, <1>4 DEF StartClose, StartCall
  <2> QED
    BY <1>1, <1>2, <1>4, <2>1, Begins, Distinct DEF StartClose, StartCall, Ops, Walking
<1>5. CASE StartList(t)
  BY <1>1, <1>2, <1>5, Begins DEF StartList, Ops, Walking
<1>6. CASE StartReap(t)
  BY <1>1, <1>2, <1>6, Begins DEF StartReap, Ops, Walking
<1>7. CASE StartShutdown(t)
  <2>1. PICK d \in SUBSET Ids : Begin(t, "next", "shutdown", None, None, d)
    BY Zenon, <1>7 DEF StartShutdown
  <2>2. Free(t) /\ UNCHANGED <<maps, sessions, open_lock>> /\ reaping' \in BOOLEAN
    BY Zenon, <1>7 DEF StartShutdown
  <2>3. "shutdown" \in Ops \ {"none"} /\ "shutdown" \notin Walking /\ "shutdown" # "open"
    BY Zenon DEF Ops, Walking
  <2> QED
    BY Zenon, <2>1, <2>2, <2>3, Begins
<1> QED
  BY Zenon, <1>3, <1>4, <1>5, <1>6, <1>7 DEF Start

-----------------------------------------------------------------------------
(* What happens to a session without a task of the manager *)

\* Its worker dies, its time passes, or its last reference is dropped.
LEMMA EnvironmentKeeps ==
  ASSUME IInv, NEW s \in Sessions, WorkerDies(s) \/ Expire(s) \/ DropSession(s) \/ ReleasedLate(s)
  PROVE  IInv'
<1>1. UNCHANGED <<by_id, by_path, id, path, lifecycle, active, open_lock, reaping, pc, op, want, ses, todo>>
  BY Zenon DEF WorkerDies, Expire, DropSession, ReleasedLate, maps
<1>2. TypeOK'
  BY Zenon, <1>1, Parts DEF TypeOK, Leases, WorkerDies, Expire, DropSession, ReleasedLate
<1>3. \A r \in Sessions : expired[r] => expired'[r]
  BY Zenon, Parts DEF TypeOK, WorkerDies, Expire, DropSession, ReleasedLate
<1>4. \A r \in Sessions : lease'[r] \in {"opening", "closing"} =>
        lease[r] = lease'[r] \/ (r \notin Listed /\ \A t \in Tasks : ses[t] # r)
  BY Zenon, Parts DEF TypeOK, WorkerDies, Expire, DropSession, ReleasedLate, Unreferenced
<1>5. Where' /\ Locks' /\ InUse' /\ MapsAgree' /\ PathKnown' /\ Calls'
  <2>1. Where' /\ Locks' /\ InUse'
    BY <1>1, Parts DEF Where, Locks, InUse
  <2>2. MapsAgree' /\ PathKnown' /\ Calls'
    BY <1>1, Parts DEF MapsAgree, PathKnown, Calls
  <2> QED
    BY Zenon, <2>1, <2>2
<1>6. Private'
  <2>1. \A t \in Tasks : pc[t] \in Opening => ses[t] \in Sessions
    BY Zenon, AtHand
  <2> QED
    BY Zenon, <1>1, <1>4, <2>1, Parts DEF Private
<1>7. Reaps'
  <2>1. \A t \in Tasks : pc[t] = "remove" => ses[t] \in Sessions
    BY Zenon, AtHand DEF Holding
  <2> QED
    BY Zenon, <1>1, <1>3, <2>1, Parts DEF Reaps, IdlePastTtl
<1>8. ListedIsSettled'
  BY <1>1, <1>4, Parts DEF ListedIsSettled, Listed, TypeOK
<1> QED
  BY Zenon, <1>2, <1>5, <1>6, <1>7, <1>8 DEF IInv

\* The allocation of a session nobody refers to can be used again.
LEMMA DeallocateKeeps == ASSUME IInv, NEW s \in Sessions, Deallocate(s) PROVE IInv'
<1>1. UNCHANGED <<by_id, by_path, lease, lifecycle, active, open_lock, reaping, pc, op, want, ses, todo>>
  BY Zenon DEF Deallocate, maps
<1>2. /\ id'[s] = None /\ path'[s] = None
      /\ \A r \in Sessions \ {s} : id'[r] = id[r] /\ path'[r] = path[r] /\ expired'[r] = expired[r]
  BY Zenon, Parts DEF TypeOK, Deallocate
<1>3. (\A i \in Ids : by_id[i] # s) /\ \A t \in Tasks : ses[t] # s /\ s \notin todo[t]
  BY Zenon, Distinct DEF Deallocate, Unreferenced, Listed
<1>4. \A t \in Tasks : pc[t] \notin Idling => ses[t] \in Sessions \ {s}
  BY Zenon, <1>3, Parts DEF Where, TypeOK
<1>5. TypeOK'
  BY Zenon, <1>1, Parts DEF TypeOK, Deallocate
<1>6. Where' /\ Locks' /\ PathKnown' /\ ListedIsSettled'
  BY <1>1, Parts DEF Where, Locks, PathKnown, ListedIsSettled, Listed
<1>7. InUse'
  BY <1>1, <1>2, <1>3, Parts DEF InUse, TypeOK
<1>8. MapsAgree'
  BY <1>1, <1>2, <1>3, Parts, Distinct DEF MapsAgree, TypeOK
<1>9. Private'
  BY <1>1, <1>2, <1>4, Parts DEF Private, Opening, Idling
<1>10. Calls' /\ Reaps'
  BY <1>1, <1>2, <1>4, Parts DEF Calls, Reaps, IdlePastTtl, Idling
<1> QED
  BY Zenon, <1>5, <1>6, <1>7, <1>8, <1>9, <1>10 DEF IInv

-----------------------------------------------------------------------------
(* The invariant *)

\* At the start there are no sessions and no requests.
LEMMA InitIInv == Init => IInv
  BY Distinct DEF Init, IInv, TypeOK, Leases, PCs, Ops, Where, Locks, InUse, MapsAgree,
     Private, PathKnown, Calls,
     Reaps, ListedIsSettled, Listed, Idling, Holding, Opening, Walking

\* A step that changes nothing keeps the invariant.
LEMMA StutterIInv == ASSUME IInv, UNCHANGED vars PROVE IInv'
<1>1. /\ UNCHANGED <<by_id, by_path, id, path, lease, lifecycle, active, expired>>
      /\ UNCHANGED <<open_lock, reaping, pc, op, want, ses, todo>>
  BY Zenon DEF vars, maps, sessions
<1>2. TypeOK'
  BY Zenon, <1>1, Parts DEF TypeOK
<1>3. Where'
  BY Zenon, <1>1, Parts DEF Where
<1>4. Locks'
  BY Zenon, <1>1, Parts DEF Locks
<1>5. InUse'
  BY Zenon, <1>1, Parts DEF InUse
<1>6. MapsAgree'
  BY Zenon, <1>1, Parts DEF MapsAgree
<1>7. Private'
  BY Zenon, <1>1, Parts DEF Private
<1>8. PathKnown'
  BY Zenon, <1>1, Parts DEF PathKnown
<1>9. Calls'
  BY Zenon, <1>1, Parts DEF Calls
<1>10. Reaps'
  BY Zenon, <1>1, Parts DEF Reaps, IdlePastTtl
<1>11. ListedIsSettled'
  BY Zenon, <1>1, Parts DEF ListedIsSettled, Listed
<1> QED
  BY Zenon, <1>2, <1>3, <1>4, <1>5, <1>6, <1>7, <1>8, <1>9, <1>10, <1>11 DEF IInv

\* Every step of a request, of the reaper, of the shutdown and of the pool keeps
\* the invariant.
LEMMA StepIInv == ASSUME IInv, [Next]_vars PROVE IInv'
<1>1. ASSUME NEW t \in Tasks, Wait(t) PROVE IInv'
  BY Zenon, <1>1, FindByPathKeeps, AcquireKeeps DEF Wait
<1>2. ASSUME NEW t \in Tasks, Step(t) PROVE IInv'
  BY Zenon, <1>2, AdoptKeeps, FreshKeeps, OpeningKeeps, GivenBackKeeps, InsertKeeps,
     CloseHeldKeeps,
     RemoveKeeps, CloseWithSaveKeeps, CallHeldKeeps, CallEndsKeeps, CallFailedKeeps, VisitKeeps,
     RevisitKeeps, ShutdownVisitKeeps DEF Step
<1>3. ASSUME NEW s \in Sessions, WorkerDies(s) \/ Expire(s) \/ Drop(s) PROVE IInv'
  BY Zenon, <1>3, EnvironmentKeeps, DeallocateKeeps DEF Drop
<1> QED
  BY Zenon, <1>1, <1>2, <1>3, StartKeeps, AbandonKeeps, StutterIInv DEF Next

\* The invariant holds in every state of every behaviour.
LEMMA Invariance == Spec => []IInv
  BY InitIInv, StepIInv, PTL DEF Spec

\* by_id and by_path agree at every moment, whatever requests overlap, fail or
\* are dropped half way.
THEOREM SessionMapsAgree == Spec => []MapsAgree
  BY Invariance, PTL DEF IInv

\* A session in the maps is neither still being opened nor already being closed.
THEOREM ListedSessionsAreSettled == Spec => []ListedIsSettled
  BY Invariance, PTL DEF IInv

\* close, list, the reaper and the shutdown leave a session with a call in
\* flight in the maps.
THEOREM CallsKeepTheirSession == Spec => []CalledIsListed
<1>1. IInv => CalledIsListed
  <2> SUFFICES ASSUME IInv, NEW s \in Sessions, active[s] PROVE s \in Listed
    BY Zenon DEF CalledIsListed
  <2>1. PICK t \in Tasks : pc[t] = "rpc" /\ ses[t] = s
    BY Zenon DEF IInv, Calls
  <2>2. id[s] \in Ids /\ by_id[id[s]] = s
    BY <2>1, Distinct DEF IInv, TypeOK, InUse, Calls
  <2> QED
    BY Zenon, <2>2, Distinct DEF Listed
<1> QED
  BY <1>1, Invariance, PTL

\* No two tasks send, open, warm up or close on the worker of one session.
THEOREM OneTaskPerWorker == Spec => []OneOperation
<1>1. IInv => OneOperation
  <2> SUFFICES ASSUME IInv, NEW t \in Tasks, NEW u \in Tasks, t # u, pc[t] \in PoolCalls, pc[u] \in PoolCalls,
                      ses[t] = ses[u]
               PROVE  FALSE
    BY Zenon DEF OneOperation
  <2>1. ses[t] \in Sessions
    BY Zenon DEF IInv, TypeOK, Where, Idling, PoolCalls
  <2>2. CASE pc[t] \in Opening \/ pc[u] \in Opening
    BY Zenon, <2>2 DEF IInv, Private
  <2>3. CASE pc[t] \in Holding /\ pc[u] \in Holding
    BY Zenon, <2>1, <2>3 DEF IInv, Locks
  <2> QED
    BY Zenon, <2>2, <2>3 DEF PoolCalls, Opening, Holding
<1> QED
  BY <1>1, Invariance, PTL

\* The session the reaper removes is idle past its TTL at that very step, not
\* only when the snapshot was looked through.
THEOREM ReaperTakesOnlyTheIdle == Spec => ReapedWhenIdle
<1>1. IInv /\ [Next]_vars => [\A t \in Tasks : op[t] = "reap" /\ pc[t] = "remove" /\ pc'[t] = "close"
                                => IdlePastTtl(ses[t])]_vars
  BY Zenon DEF IInv, Reaps
<1> QED
  BY <1>1, Invariance, PTL DEF Spec, ReapedWhenIdle

=============================================================================
