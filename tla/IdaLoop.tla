------------------------------ MODULE IdaLoop ------------------------------
(***************************************************************************)
(* One worker process: the main thread, which owns IDA and serves requests *)
(* in run_ida_loop (src/ida/main_loop.rs); the callers on the server       *)
(* thread, which reach it through the bounded channel of IdaWorker         *)
(* (src/ida/worker.rs); the crash guard, which retires the process         *)
(* after a caught SIGSEGV (src/crash_guard.rs); the handler of             *)
(* SIGINT/SIGTERM (src/ida/interrupt.rs); and the server thread's          *)
(* bounded shutdown (src/main.rs).                                         *)
(*                                                                         *)
(* A request is abstracted to its kind: "open", "close", "closeif"         *)
(* (CloseIfGeneration), "bound" (AnalysisStatus and DscLoadImage with an   *)
(* expected generation), "free" (every other guarded request) and          *)
(* "shutdown".  IDA's own calls take a step to enter and a step to leave,  *)
(* so that signals, timeouts and other callers fall in between.            *)
(***************************************************************************)
EXTENDS Integers, Sequences, FiniteSets

CONSTANTS
    Clients,    \* tool calls and background tasks of the server thread
    Server,     \* the server thread's own shutdown, a caller like the others
    Paths,      \* database paths
    Capacity,   \* REQUEST_QUEUE_CAPACITY
    MaxGen,     \* the largest generation the counter can hold
    Hazards,    \* which faults of the environment happen, a subset of AllHazards
    None

AllHazards == {"initfail", "installfault", "crash", "signal", "timeout"}

ASSUME LoopConfig ==
    /\ Server \notin Clients
    /\ None \notin Clients \cup Paths \cup {Server}
    /\ Capacity \in Nat \ {0}
    /\ MaxGen \in Nat \ {0}
    /\ Hazards \subseteq AllHazards

VARIABLES
    \* the main thread
    pc,             \* where run_ida_loop is
    cur,            \* the request it is serving
    lib,            \* lib_initialized
    fault,          \* install_fault.is_some()
    idb,            \* the open database's path
    gen,            \* database_generation, 0 for None
    next_gen,       \* next_database_generation
    lock,           \* the path whose .imcp lock this process holds
    \* the process
    queue,          \* the channel
    caught,         \* CAUGHT_SIGNAL is set
    armed,          \* interrupt::handle is the disposition of the signals
    requested,      \* REQUESTED is set
    proc,           \* "up", or how the process ended
    disk,           \* disk[p]: the database files of p
    \* the callers
    srv,            \* where run_server_with_mode's shutdown is
    late,           \* a bounded shutdown request has timed out
    call,           \* call[c]: the state of c's outstanding request
    reply,          \* reply[c]: the answer to c's last request
    given,          \* given[c]: the generation c's last open returned
    \* history
    life,           \* how many databases have been opened
    given_life      \* given_life[c]: the one given[c] named when c received it

loopVars == <<cur, lib, fault, idb, gen, next_gen, lock, life>>
procVars == <<caught, armed, requested, proc>>
callVars == <<call, reply, given, given_life>>
srvVars  == <<srv, late>>
vars == <<pc, loopVars, queue, procVars, disk, srvVars, callVars>>

Callers == Clients \cup {Server}
Kinds == {"open", "bound", "free", "close", "closeif", "shutdown"}
Requests == [kind : Kinds, from : Callers \cup {None}, path : Paths \cup {None},
             gen : 0 .. MaxGen, life : Nat]
NoRequest == [kind |-> "free", from |-> None, path |-> None, gen |-> 0, life |-> 0]

\* Points of run_ida_loop; the ones in InIda are inside a call into IDA.
InIda == {"ida", "opening", "undo", "exhausted", "closing", "stopping", "saving"}
Pcs == {"top", "recv", "gate", "init", "inited", "locked", "left", "returned"} \cup InIda
\* "exit" and "forced" leave through std::process::exit or a normal return,
\* which run IDA's atexit handlers; "_exit" and "killed" do not.
Exits == {"exit", "forced", "_exit", "killed"}

Up == proc = "up"
At(p) == Up /\ pc = p

Init ==
    /\ pc = "top" /\ cur = NoRequest
    /\ lib = FALSE /\ fault = FALSE
    /\ idb = None /\ gen = 0 /\ next_gen = 0 /\ lock = None
    /\ queue = <<>>
    /\ caught = FALSE /\ armed = TRUE /\ requested = FALSE /\ proc = "up"
    /\ disk = [p \in Paths |-> "packed"]
    /\ srv = "serving" /\ late = FALSE
    /\ call = [c \in Callers |-> "idle"]
    /\ reply = [c \in Callers |-> "none"]
    /\ given = [c \in Callers |-> 0]
    /\ life = 0
    /\ given_life = [c \in Callers |-> 0]

-----------------------------------------------------------------------------
(* Callers: IdaWorker's methods.                                           *)

\* A call is pending: its future, a task of the server thread's runtime, still
\* holds the receiving half.
Waiting(c) == srv # "done" /\ call[c] \in {"wait", "cancelled"}

\* The receiver is dropped: whatever answers the request reaches nobody.
Orphan(r, c) == IF r.from = c THEN [r EXCEPT !.from = None] ELSE r
OrphanAll(c) ==
    /\ queue' = [i \in DOMAIN queue |-> Orphan(queue[i], c)]
    /\ cur' = Orphan(cur, c)

Request(c, k, p) ==
    [kind |-> k, from |-> c, path |-> p,
     gen  |-> IF k \in {"bound", "closeif"} THEN given[c] ELSE 0,
     life |-> IF k \in {"bound", "closeif"} THEN given_life[c] ELSE 0]

Settle(c, r) == call' = [call EXCEPT ![c] = "idle"] /\ reply' = [reply EXCEPT ![c] = r]
Room == Len(queue) < Capacity

\* The call of a control request that waits for room.
RetryOf == [close |-> "retry:close", closeif |-> "retry:closeif"]

\* try_send and the start of send_with_retry.  A full channel answers Busy to
\* everything but the control requests, which retry; a channel whose receiver
\* run_ida_loop has dropped answers WorkerClosed.
Enqueue(c, k, p) ==
    /\ queue' = Append(queue, Request(c, k, p))
    /\ call' = [call EXCEPT ![c] = "wait"]
    /\ reply' = [reply EXCEPT ![c] = "none"]

Send(c, k, p) ==
    /\ Up /\ srv # "done" /\ call[c] = "idle"
    /\ \/ pc # "returned" /\ Room /\ Enqueue(c, k, p)
       \/ /\ pc = "returned" \/ (~Room /\ k \in {"open", "bound", "free"})
          /\ Settle(c, "err") /\ UNCHANGED queue
       \/ /\ pc # "returned" /\ ~Room /\ k \in {"close", "closeif"}
          /\ call' = [call EXCEPT ![c] = RetryOf[k]]
          /\ reply' = [reply EXCEPT ![c] = "none"]
          /\ UNCHANGED queue
    /\ UNCHANGED <<pc, loopVars, procVars, disk, given, given_life>>

Retrying(c, k) == call[c] = RetryOf[k]

\* send_with_retry's next attempt, or its deadline (the shutdown's close has none).
Retry(c, k) ==
    /\ Up /\ srv # "done" /\ Retrying(c, k)
    /\ \/ pc # "returned" /\ Room /\ Enqueue(c, k, None)
       \/ pc = "returned" /\ Settle(c, "err") /\ UNCHANGED queue
       \/ c # Server /\ ~Room /\ Settle(c, "err") /\ UNCHANGED queue
    /\ UNCHANGED <<pc, loopVars, procVars, disk, srvVars, given, given_life>>

ClientSend(c) ==
    /\ \/ \E p \in Paths : Send(c, "open", p)
       \/ \E k \in {"free", "close"} : Send(c, k, None)
       \/ given[c] # 0 /\ \E k \in {"bound", "closeif"} : Send(c, k, None)
    /\ UNCHANGED srvVars

\* run_foreground_operation cancels an open's token when its client cancels or
\* its time is up, and then waits a bounded time for the answer.
CancelOpen(c) ==
    /\ Up /\ "timeout" \in Hazards /\ srv # "done" /\ call[c] = "wait"
    /\ \/ cur.from = c /\ cur.kind = "open"
       \/ \E i \in DOMAIN queue : queue[i].from = c /\ queue[i].kind = "open"
    /\ call' = [call EXCEPT ![c] = "cancelled"]
    /\ UNCHANGED <<pc, loopVars, queue, procVars, disk, srvVars, reply, given, given_life>>

\* recv_with_timeout expires, or the wait after a cancellation does.  The
\* request stays in the channel.
GiveUp(c) ==
    /\ Up /\ "timeout" \in Hazards /\ srv # "done"
    /\ \/ call[c] = "cancelled"
       \/ /\ call[c] = "wait"
          /\ \/ cur.from = c /\ cur.kind \in {"bound", "free"}
             \/ \E i \in DOMAIN queue : queue[i].from = c /\ queue[i].kind \in {"bound", "free"}
    /\ OrphanAll(c)
    /\ Settle(c, "err")
    /\ UNCHANGED <<pc, lib, fault, idb, gen, next_gen, lock, life,
                   procVars, disk, srvVars, given, given_life>>

\* An open whose receiver is gone was cancelled before it was given up.
IsCancelled(r) ==
    r.kind = "open" /\ r.from \in {None} \cup {c \in Callers : call[c] = "cancelled"}

-----------------------------------------------------------------------------
(* The main thread.                                                        *)

\* Answer the current request with r and go on with the loop.
Answer(r) ==
    /\ pc' = "top" /\ cur' = NoRequest
    /\ IF cur.from = None THEN UNCHANGED <<call, reply>> ELSE Settle(cur.from, r)

\* reject_with_error: Close is answered (), Shutdown has nobody to answer.
Reject == Answer(IF cur.kind = "close" THEN "closed" ELSE "err")

Keep == UNCHANGED <<given, given_life>>

\* interrupted_shutdown.  After a caught signal the database is forgotten,
\* otherwise it is closed; the lock file goes either way.
InterruptedForgets ==
    /\ idb' = None /\ lock' = None /\ proc' = "exit"
    /\ UNCHANGED <<pc, cur, lib, fault, gen, next_gen, life>>

InterruptedPacksAnyway ==
    \/ /\ idb # None
       /\ pc' = "saving" /\ UNCHANGED <<loopVars, proc>>
    \/ idb = None /\ InterruptedForgets

InterruptedSaves ==
    \/ /\ ~caught /\ idb # None
       /\ pc' = "saving" /\ UNCHANGED <<loopVars, proc>>
    \/ (caught \/ idb = None) /\ InterruptedForgets

\* The interrupt is polled between requests.
InterruptedShutdown ==
    /\ At("top") /\ requested
    /\ InterruptedSaves
    /\ UNCHANGED <<queue, caught, armed, requested, disk, srvVars, callVars>>

SaveDone ==
    /\ At("saving")
    /\ disk' = [disk EXCEPT ![idb] = "packed"]
    /\ idb' = None /\ lock' = None /\ proc' = "exit"
    /\ UNCHANGED <<pc, cur, lib, fault, gen, next_gen, life, queue,
                   caught, armed, requested, srvVars, callVars>>

NotInterrupted ==
    /\ At("top") /\ ~requested
    /\ pc' = "recv"
    /\ UNCHANGED <<loopVars, queue, procVars, disk, srvVars, callVars>>

\* recv_timeout: a request, or a timeout and back to the poll.  The channel is
\* never disconnected: the main thread holds a sender of its own.
RecvForever == queue # <<>> /\ cur' = Head(queue) /\ queue' = Tail(queue) /\ pc' = "gate"
RecvTimeout ==
    \/ queue # <<>> /\ cur' = Head(queue) /\ queue' = Tail(queue) /\ pc' = "gate"
    \/ queue = <<>> /\ pc' = "top" /\ UNCHANGED <<cur, queue>>

Recv ==
    /\ At("recv")
    /\ RecvTimeout
    /\ UNCHANGED <<lib, fault, idb, gen, next_gen, lock, life,
                   procVars, disk, srvVars, callVars>>

\* After a caught signal nothing is served: Shutdown ends the loop, Close loses
\* its responder (the caller reads WorkerClosed), the rest is refused.
RetiredCloses == Answer("closed")
RetiredDrops == Answer("err")

Retired ==
    /\ At("gate") /\ caught
    /\ \/ cur.kind = "shutdown" /\ pc' = "left" /\ UNCHANGED <<cur, call, reply>>
       \/ cur.kind # "shutdown" /\ RetiredDrops
    /\ UNCHANGED <<lib, fault, idb, gen, next_gen, lock, life, queue,
                   procVars, disk, srvVars, given, given_life>>

\* Deferred initialisation.
StartInit ==
    /\ At("gate") /\ ~caught /\ ~lib
    /\ \/ IsCancelled(cur) /\ Reject
       \/ ~IsCancelled(cur) /\ pc' = "init" /\ UNCHANGED <<cur, call, reply>>
    /\ UNCHANGED <<lib, fault, idb, gen, next_gen, lock, life, queue,
                   procVars, disk, srvVars, given, given_life>>

\* init_library resets the disposition of SIGINT.
InitLibrary ==
    /\ At("init")
    /\ armed' = FALSE /\ pc' = "inited"
    /\ UNCHANGED <<loopVars, queue, caught, requested, proc, disk, srvVars, callVars>>

InitOkUnarmed ==
    /\ At("inited")
    /\ lib' = TRUE
    /\ fault' \in {FALSE} \cup {f \in {TRUE} : "installfault" \in Hazards}
    /\ UNCHANGED armed
    /\ pc' = "gate"

InitOkArmed ==
    /\ At("inited")
    /\ lib' = TRUE
    /\ fault' \in {FALSE} \cup {f \in {TRUE} : "installfault" \in Hazards}
    /\ armed' = TRUE
    /\ pc' = "gate"

InitOk ==
    /\ InitOkArmed
    /\ UNCHANGED <<cur, idb, gen, next_gen, lock, life, queue, caught, requested,
                   proc, disk, srvVars, callVars>>

\* It fails, before or after init_library (an expired licence): the request is
\* rejected and the next one tries again.
InitKeepsRequest == pc' = "gate" /\ UNCHANGED <<cur, call, reply>>
InitRejects == Reject

InitFails ==
    /\ At("init") \/ At("inited")
    /\ "initfail" \in Hazards
    /\ InitRejects
    /\ UNCHANGED <<lib, fault, idb, gen, next_gen, lock, life, queue,
                   procVars, disk, srvVars, given, given_life>>

\* The gates are passed: the request may be served.
Served(k) == At("gate") /\ ~caught /\ lib /\ ~fault /\ cur.kind = k

\* A wrong installation refuses everything; no database can have been opened.
FaultRejects ==
    /\ At("gate") /\ ~caught /\ lib /\ fault /\ cur.kind # "shutdown"
    /\ Reject
    /\ UNCHANGED <<lib, fault, idb, gen, next_gen, lock, life, queue,
                   procVars, disk, srvVars, given, given_life>>

-----------------------------------------------------------------------------
(* Open: the arm of run_ida_loop and handle_open.                          *)

\* The answer to an open that succeeded, and what its caller was given.
AnswerOpened(g, l) ==
    /\ Answer("ok")
    /\ IF cur.from = None
         THEN Keep
         ELSE /\ given' = [given EXCEPT ![cur.from] = g]
              /\ given_life' = [given_life EXCEPT ![cur.from] = l]

\* A database is open: the same path is adopted with its generation, another
\* path is refused.  A missing file or a lock held elsewhere is refused too.
OpenRefused ==
    /\ Served("open")
    /\ \/ (IsCancelled(cur) \/ idb \notin {None, cur.path}) /\ Answer("err") /\ Keep
       \/ ~IsCancelled(cur) /\ idb = None /\ Answer("err") /\ Keep
       \/ ~IsCancelled(cur) /\ idb = cur.path /\ AnswerOpened(gen, life)
    /\ UNCHANGED <<lib, fault, idb, gen, next_gen, lock, life, queue,
                   procVars, disk, srvVars>>

\* acquire_mcp_lock succeeds.
OpenLock ==
    /\ Served("open") /\ ~IsCancelled(cur) /\ idb = None
    /\ lock' = cur.path /\ pc' = "locked"
    /\ UNCHANGED <<cur, lib, fault, idb, gen, next_gen, life, queue,
                   procVars, disk, srvVars, callVars>>

\* IDBOpenOptions::open unpacks the database.
OpenUnpack ==
    /\ At("locked")
    /\ disk' = [disk EXCEPT ![cur.path] = "live"]
    /\ pc' = "opening"
    /\ UNCHANGED <<loopVars, queue, procVars, srvVars, callVars>>

\* IDA fails to open it, perhaps leaving unpacked parts; the lock is released.
OpenFailsHoldingLock ==
    /\ \E left \in {"packed", "left"} : disk' = [disk EXCEPT ![cur.path] = left]
    /\ UNCHANGED lock

OpenFailsReleasing ==
    /\ \E left \in {"packed", "left"} : disk' = [disk EXCEPT ![cur.path] = left]
    /\ lock' = None

OpenFails ==
    /\ At("opening")
    /\ OpenFailsReleasing
    /\ Answer("err")
    /\ UNCHANGED <<lib, fault, idb, gen, next_gen, life, queue, procVars, srvVars,
                   given, given_life>>

\* ensure_not_cancelled after the open: the locals are dropped, the database
\* (packed) before the lock.
OpenCancelled ==
    /\ At("opening") /\ IsCancelled(cur)
    /\ pc' = "undo"
    /\ UNCHANGED <<loopVars, queue, procVars, disk, srvVars, callVars>>

NeverExhausted == FALSE
Exhausted == next_gen = MaxGen

\* The database is committed with a fresh generation, unless the counter is
\* exhausted: then it is closed again.
OpenDone ==
    /\ At("opening") /\ ~IsCancelled(cur)
    /\ \/ /\ ~Exhausted
          /\ idb' = cur.path
          /\ next_gen' = next_gen + 1 /\ gen' = next_gen + 1
          /\ life' = life + 1
          /\ AnswerOpened(next_gen + 1, life + 1)
       \/ /\ Exhausted
          /\ pc' = "exhausted"
          /\ UNCHANGED <<cur, idb, next_gen, gen, life, callVars>>
    /\ UNCHANGED <<lib, fault, lock, queue, procVars, disk, srvVars>>

OpenUndone ==
    /\ At("undo") \/ At("exhausted")
    /\ disk' = [disk EXCEPT ![cur.path] = "packed"]
    /\ lock' = None
    /\ Answer("err")
    /\ UNCHANGED <<lib, fault, idb, gen, next_gen, life, queue, procVars, srvVars,
                   given, given_life>>

-----------------------------------------------------------------------------
(* Close, CloseIfGeneration and the operations on the open database.       *)

\* require_generation, and CloseIfGeneration's own comparison.
AnyGeneration(r) == TRUE
RequireGeneration(r) == gen # 0 /\ r.gen = gen

\* Dropping the IDB packs it; the lock is released after that.
StartDropUnlocked == pc' = "closing" /\ lock' = None
StartDrop == pc' = "closing" /\ UNCHANGED lock

Close ==
    /\ \/ Served("close")
       \/ Served("closeif") /\ RequireGeneration(cur)
    /\ \/ idb # None /\ StartDrop /\ UNCHANGED <<cur, gen, call, reply>>
       \/ idb = None /\ gen' = 0 /\ lock' = None /\ Answer("closed")
    /\ UNCHANGED <<lib, fault, idb, next_gen, life, queue, procVars, disk, srvVars,
                   given, given_life>>

CloseDone ==
    /\ At("closing")
    /\ disk' = [disk EXCEPT ![idb] = "packed"]
    /\ idb' = None /\ gen' = 0 /\ lock' = None
    /\ Answer("closed")
    /\ UNCHANGED <<lib, fault, next_gen, life, queue, procVars, srvVars, given, given_life>>

\* An operation bound to another database is refused; so is a conditional close.
Refuse ==
    /\ Served("bound") \/ Served("closeif")
    /\ ~RequireGeneration(cur)
    /\ Answer(IF cur.kind = "bound" THEN "err" ELSE "stale")
    /\ UNCHANGED <<lib, fault, idb, gen, next_gen, lock, life, queue,
                   procVars, disk, srvVars, given, given_life>>

\* A guarded call into IDA.
Operate ==
    /\ Served("free") \/ (Served("bound") /\ RequireGeneration(cur))
    /\ pc' = "ida"
    /\ UNCHANGED <<loopVars, queue, procVars, disk, srvVars, callVars>>

Operated ==
    /\ At("ida")
    /\ \E r \in {"ok", "err"} : Answer(r)
    /\ UNCHANGED <<lib, fault, idb, gen, next_gen, lock, life, queue,
                   procVars, disk, srvVars, given, given_life>>

\* unix_guard: the call took SIGSEGV; the worker is retired and the caller told.
Crash ==
    /\ At("ida") /\ "crash" \in Hazards
    /\ caught' = TRUE
    /\ Answer("err")
    /\ UNCHANGED <<lib, fault, idb, gen, next_gen, lock, life, queue,
                   armed, requested, proc, disk, srvVars, given, given_life>>

-----------------------------------------------------------------------------
(* Leaving.                                                                *)

\* The Shutdown request: shutdown_cleanup, then the loop ends.
ShutdownSkipped == Answer("err") /\ UNCHANGED lock
ShutdownCleanup ==
    /\ \/ idb # None /\ pc' = "stopping" /\ UNCHANGED lock
       \/ idb = None /\ pc' = "left" /\ lock' = None
    /\ UNCHANGED <<cur, call, reply>>

Shutdown ==
    /\ At("gate") /\ ~caught /\ lib /\ cur.kind = "shutdown"
    /\ ShutdownCleanup
    /\ UNCHANGED <<lib, fault, idb, gen, next_gen, life, queue,
                   procVars, disk, srvVars, given, given_life>>

ShutdownPacked ==
    /\ At("stopping")
    /\ disk' = [disk EXCEPT ![idb] = "packed"]
    /\ idb' = None /\ lock' = None /\ pc' = "left"
    /\ UNCHANGED <<cur, lib, fault, gen, next_gen, life, queue,
                   procVars, srvVars, callVars>>

\* After the loop: a retired process forgets the database, releases the lock and
\* leaves through _exit; otherwise the receiver is dropped, and every queued
\* request's caller reads WorkerClosed.
PostLoop ==
    /\ At("left")
    /\ \/ /\ caught
          /\ idb' = None /\ lock' = None /\ proc' = "_exit"
          /\ UNCHANGED <<pc, queue, call, reply>>
       \/ /\ ~caught
          /\ pc' = "returned" /\ queue' = <<>>
          /\ LET dropped == {queue[i].from : i \in DOMAIN queue} \cap Callers IN
               /\ call' = [c \in Callers |-> IF c \in dropped THEN "idle" ELSE call[c]]
               /\ reply' = [c \in Callers |-> IF c \in dropped THEN "err" ELSE reply[c]]
          /\ UNCHANGED <<idb, lock, proc>>
    /\ UNCHANGED <<cur, lib, fault, gen, next_gen, life, caught, armed, requested,
                   disk, srvVars, given, given_life>>

\* main joins the server thread and returns.
Joined ==
    /\ At("returned") /\ srv = "done"
    /\ proc' = "exit"
    /\ UNCHANGED <<pc, loopVars, queue, caught, armed, requested, disk, srvVars, callVars>>

\* crash-guard-exit: the grace period after a caught signal is over.
GraceOver ==
    /\ Up /\ caught
    /\ proc' = "_exit"
    /\ UNCHANGED <<pc, loopVars, queue, caught, armed, requested, disk, srvVars, callVars>>

\* A signal asks the process to stop: the first is recorded, the second exits
\* at once; without the handler the first kills.
Signal ==
    /\ Up /\ "signal" \in Hazards
    /\ \/ armed /\ ~requested /\ requested' = TRUE /\ UNCHANGED proc
       \/ armed /\ requested /\ proc' = "_exit" /\ UNCHANGED requested
       \/ ~armed /\ proc' = "killed" /\ UNCHANGED requested
    /\ UNCHANGED <<pc, loopVars, queue, caught, armed, disk, srvVars, callVars>>

\* The transport closes: the server thread asks for a saving close, then for the
\* end of the loop, each with a bounded wait.
Disconnect ==
    /\ Up /\ srv = "serving" /\ srv' = "close"
    /\ UNCHANGED <<pc, loopVars, queue, procVars, disk, late, callVars>>

ServerClose ==
    /\ srv = "close" /\ Send(Server, "close", None)
    /\ srv' = "closewait"
    /\ UNCHANGED late

ServerClosed ==
    /\ Up /\ srv = "closewait" /\ call[Server] = "idle"
    /\ srv' = "stop"
    /\ UNCHANGED <<pc, loopVars, queue, procVars, disk, late, callVars>>

ServerCloseLate ==
    /\ Up /\ "timeout" \in Hazards /\ srv = "closewait" /\ call[Server] # "idle"
    /\ OrphanAll(Server)
    /\ Settle(Server, "err")
    /\ srv' = "stop" /\ late' = TRUE
    /\ UNCHANGED <<pc, lib, fault, idb, gen, next_gen, lock, life,
                   procVars, disk, given, given_life>>

\* worker.shutdown() only waits for room in the channel.
ServerStop ==
    /\ Up /\ srv = "stop"
    /\ \/ /\ pc # "returned" /\ Room
          /\ queue' = Append(queue, [NoRequest EXCEPT !.kind = "shutdown"])
          /\ UNCHANGED late
       \/ pc = "returned" /\ UNCHANGED <<queue, late>>
       \/ "timeout" \in Hazards /\ ~Room /\ late' = TRUE /\ UNCHANGED queue
    /\ srv' = "stopped"
    /\ UNCHANGED <<pc, loopVars, procVars, disk, callVars>>

\* A timeout forces the process down; otherwise the runtime ends with its tasks.
ServerDone ==
    /\ Up /\ srv = "stopped"
    /\ \/ late /\ proc' = "forced" /\ UNCHANGED srv
       \/ ~late /\ srv' = "done" /\ UNCHANGED proc
    /\ UNCHANGED <<pc, loopVars, queue, caught, armed, requested, disk, late, callVars>>

-----------------------------------------------------------------------------
LoopStep ==
    \/ InterruptedShutdown \/ SaveDone \/ NotInterrupted \/ Recv \/ Retired
    \/ StartInit \/ InitLibrary \/ InitOk \/ InitFails \/ FaultRejects
    \/ OpenRefused \/ OpenLock \/ OpenUnpack \/ OpenFails \/ OpenCancelled
    \/ OpenDone \/ OpenUndone \/ Close \/ CloseDone \/ Refuse
    \/ Operate \/ Operated \/ Crash
    \/ Shutdown \/ ShutdownPacked \/ PostLoop \/ Joined

ClientStep(c) ==
    \/ ClientSend(c)
    \/ \E k \in {"close", "closeif"} : Retry(c, k)
    \/ CancelOpen(c)
    \/ GiveUp(c)

ServerStep ==
    ServerClose \/ Retry(Server, "close") \/ ServerClosed \/ ServerStop \/ ServerDone

\* The process is gone.
Gone == ~Up /\ UNCHANGED vars

Next ==
    \/ LoopStep
    \/ \E c \in Clients : ClientStep(c)
    \/ ServerStep \/ ServerCloseLate \/ Disconnect
    \/ GraceOver \/ Signal \/ Gone

Spec == Init /\ [][Next]_vars

\* The main thread keeps running and IDA's calls return; the server thread's
\* shutdown, once begun, proceeds; the grace period ends; a control request
\* that waits for room keeps trying.
FairSpec ==
    /\ Spec
    /\ WF_vars(LoopStep)
    /\ WF_vars(ServerStep)
    /\ WF_vars(GraceOver)
    /\ \A c \in Clients : WF_vars(\E k \in {"close", "closeif"} : Retry(c, k))

-----------------------------------------------------------------------------
(* Properties.                                                             *)

\* Types; in particular a generation stays within its counter, which the check
\* of run_ida_loop for an exhausted counter guarantees, and the request channel
\* within REQUEST_QUEUE_CAPACITY.
TypeOK ==
    /\ pc \in Pcs /\ cur \in Requests
    /\ lib \in BOOLEAN /\ fault \in BOOLEAN
    /\ idb \in Paths \cup {None} /\ lock \in Paths \cup {None}
    /\ next_gen \in 0 .. MaxGen /\ gen \in 0 .. next_gen
    /\ queue \in Seq(Requests) /\ Len(queue) <= Capacity
    /\ caught \in BOOLEAN /\ armed \in BOOLEAN /\ requested \in BOOLEAN
    /\ proc \in {"up"} \cup Exits
    /\ disk \in [Paths -> {"packed", "live", "left"}]
    /\ srv \in {"serving", "close", "closewait", "stop", "stopped", "done"}
    /\ late \in BOOLEAN
    /\ call \in [Callers -> {"idle", "wait", "cancelled", "retry:close", "retry:closeif"}]
    /\ reply \in [Callers -> {"none", "ok", "err", "closed", "stale"}]
    /\ given \in [Callers -> 0 .. MaxGen]
    /\ life \in Nat /\ given_life \in [Callers -> Nat]

\* The .imcp lock is taken before IDA unpacks a database and released only
\* after it is packed again, on every path through run_ida_loop, handle_open,
\* the closes and both shutdowns: another process that finds the lock free
\* finds the database at rest, unless this process crashed inside IDA.
LockCoversDatabase ==
    Up /\ ~caught => \A p \in Paths : disk[p] = "live" => lock = p

\* Between requests the process holds a lock exactly when it holds a database,
\* and a generation exactly then: no error path leaks the lock, which would
\* keep every other process out until this one ends.
NothingLeaks ==
    Up /\ pc \in {"top", "recv", "gate"} =>
        /\ lock = idb
        /\ (gen # 0) <=> (idb # None)

\* A process stopped by one signal (interrupt::handle, or the default action in
\* the window after init_library) leaves every database packed.
SignalSaves ==
    proc = "killed" \/ (proc = "exit" /\ ~caught) => \A p \in Paths : disk[p] # "live"

\* A request bound to a generation (require_generation, CloseIfGeneration)
\* reaches only the database its caller was given: close and reopen of the same
\* or another path in between makes it fail.
BoundToItsLifetime ==
    [][pc = "gate" /\ pc' \in {"ida", "closing"} /\ cur.kind \in {"bound", "closeif"}
         => idb # None /\ cur.life = life]_vars

\* Once a guarded call has caught a fatal signal the main thread never enters
\* IDA again, not even to pack the database on its way out.
QuietAfterCrash ==
    [][caught => pc' = pc \/ pc' \notin InIda]_vars

\* A caller told that its close succeeded finds the database packed and its
\* lock released, by a process still fit to open another: a retired worker
\* must not look reusable to the pool.
CloseMeansClosed ==
    [][\A c \in Callers : reply[c] # "closed" /\ reply'[c] = "closed"
         => ~caught /\ idb' = None /\ lock' = None /\ \A p \in Paths : disk'[p] # "live"]_vars

\* Every accepted request is answered, its caller gives up, or the process ends.
RequestsAnswered == \A c \in Callers : (Up /\ Waiting(c)) ~> ~(Up /\ Waiting(c))

\* A process asked to stop stops, whatever it is doing.
SignalStops == (Up /\ requested) ~> ~Up

\* A Shutdown queued for a loop whose IDA library is up ends the process, whatever
\* is queued before it and whatever IDA is doing.
ShutdownEnds ==
    (Up /\ lib /\ \E i \in DOMAIN queue : queue[i].kind = "shutdown") ~> ~Up

\* main_loop.rs:2381, "always honour shutdown": once the server thread has
\* queued Shutdown and ended, the process ends.
ShutdownHonoured == (Up /\ srv = "done") ~> ~Up

\* main_loop.rs:2277-2283: every way out of the loop after a caught signal avoids
\* "a normal shutdown that would run IDA's atexit handlers".
NoAtexitAfterCrash == proc = "exit" => ~caught

=============================================================================
