--------------------------- MODULE DscBackground ---------------------------
(***************************************************************************)
(* open_dsc and the background tasks it starts (src/server/mod.rs and      *)
(* src/server/tools/database.rs) in one worker process: the task registry, *)
(* the idat subprocess that builds a missing .i64, the database generation *)
(* of the IDA loop, and other clients that open and close databases.       *)
(*                                                                         *)
(* A call is one invocation of open_dsc.  Its steps are the stretches of   *)
(* run_dsc_background between two awaits, and the loop's answers to its    *)
(* requests.  Cancellation arrives at any time from another thread.        *)
(***************************************************************************)
EXTENDS Naturals

CONSTANTS
  Calls,           \* invocations of open_dsc
  Caches,          \* dyld shared caches, each with one .i64
  Images,          \* the module and the frameworks to load, a number
  MaxGenerations,  \* bound: databases opened in a run
  Client,          \* any other client of the same IDA loop
  Binary,          \* a file of such a client that is no shared cache
  None

VARIABLES
  legacy,      \* the build's SDK is older than 9.4 (dsc_open_plan)
  status,      \* TaskStatus of each call's task; "none" for a call without one
  armed,       \* set_cancel_token has been called for the task
  asked,       \* the registry has been asked to cancel the task
  token,       \* the task's CancellationToken is cancelled
  pc,          \* where each call is
  cache,       \* the shared cache of each call; the dedup key of its task
  kind,        \* the DscOpenPlan of each call
  gen,         \* database_generation as each call knows it, 0 before the open
  left,        \* images each call has still to load
  late,        \* a load that timed out is still in the loop's queue
  idat,        \* the idat subprocess of each call
  i64,         \* the .i64 of each cache on disk
  open_path,   \* the cache whose database is open in the IDA loop
  database_generation,  \* the loop's, 0 when no database is open
  next_database_generation,
  opener,      \* who opened the database that is open
  loaded       \* the caches whose images have been loaded into it

registry == <<status, armed, asked, token>>
call == <<cache, kind, gen, left, late>>
files == <<idat, i64>>
db == <<open_path, database_generation, next_database_generation, opener, loaded>>
vars == <<legacy, status, armed, asked, token, pc, cache, kind, gen, left, late, idat, i64,
          open_path, database_generation, next_database_generation, opener, loaded>>

PCs == {"new", "planned", "start", "idat", "kill", "fail", "exited", "judged",
        "open", "opened", "open_err", "load", "loaded", "load_err", "status", "final",
        "settle", "cancel_close", "cancel_closed", "error_close", "error_closed", "done"}

\* Types of the registry, the calls, the subprocesses and the loop.
TypeOK ==
  /\ legacy \in BOOLEAN
  /\ status \in [Calls -> {"none", "running", "completed", "failed", "cancelled"}]
  /\ armed \in [Calls -> BOOLEAN] /\ asked \in [Calls -> BOOLEAN] /\ token \in [Calls -> BOOLEAN]
  /\ pc \in [Calls -> PCs]
  /\ cache \in [Calls -> Caches \cup {None}]
  /\ kind \in [Calls -> {"none", "existing", "raw", "idat"}]
  /\ gen \in [Calls -> 0 .. MaxGenerations]
  /\ left \in [Calls -> 0 .. Images]
  /\ late \in [Calls -> BOOLEAN]
  /\ idat \in [Calls -> {"none", "running", "ok", "bad"}]
  /\ i64 \in [Caches -> {"none", "partial", "whole"}]
  /\ open_path \in Caches \cup {Binary, None}
  /\ database_generation \in 0 .. MaxGenerations /\ next_database_generation \in 0 .. MaxGenerations
  /\ opener \in Calls \cup {Client, None}
  /\ loaded \subseteq Caches

Init ==
  /\ legacy \in BOOLEAN
  /\ status = [t \in Calls |-> "none"]
  /\ armed = [t \in Calls |-> FALSE]
  /\ asked = [t \in Calls |-> FALSE]
  /\ token = [t \in Calls |-> FALSE]
  /\ pc = [t \in Calls |-> "new"]
  /\ cache = [t \in Calls |-> None]
  /\ kind = [t \in Calls |-> "none"]
  /\ gen = [t \in Calls |-> 0]
  /\ left = [t \in Calls |-> Images]
  /\ late = [t \in Calls |-> FALSE]
  /\ idat = [t \in Calls |-> "none"]
  /\ i64 = [c \in Caches |-> "none"]
  /\ open_path = None /\ database_generation = 0 /\ next_database_generation = 0
  /\ opener = None /\ loaded = {}

Goto(t, l) == pc' = [pc EXCEPT ![t] = l]

-----------------------------------------------------------------------------
(* The task registry, as its callers rely on it *)

Running(t) == status[t] = "running"

\* finish_cancelled, fail, fail_after_cleanup_error
Settle(t, s) ==
  /\ status' = IF Running(t) THEN [status EXCEPT ![t] = s] ELSE status
  /\ UNCHANGED <<armed, asked, token>>

CancelPending(t) == token[t] \/ asked[t]

\* complete_with_cancel_token: the result, unless cancellation was asked for.
Complete(t) == Settle(t, IF CancelPending(t) THEN "cancelled" ELSE "completed")

\* create_keyed: one running task per dedup key.
KeyFree(c) == \A u \in Calls : Running(u) => cache[u] # c

\* set_cancel_token; a cancellation that came first is not forgotten.
SetCancelToken(t) ==
  /\ Running(t) /\ ~armed[t]
  /\ armed' = [armed EXCEPT ![t] = TRUE]
  /\ token' = [token EXCEPT ![t] = CancelPending(t)]
  /\ UNCHANGED <<status, asked, pc, call, files, db>>

\* tasks/cancel, and cancel_all_running at disconnect or shutdown
Cancel(t) ==
  /\ Running(t) /\ ~asked[t]
  /\ asked' = [asked EXCEPT ![t] = TRUE]
  /\ token' = [token EXCEPT ![t] = token[t] \/ armed[t]]
  /\ UNCHANGED <<status, armed, pc, call, files, db>>

\* Drop of the SessionLifetime the task's token is a child of
DropLifetime(t) ==
  /\ Running(t) /\ ~token[t]
  /\ token' = [token EXCEPT ![t] = TRUE]
  /\ UNCHANGED <<status, armed, asked, pc, call, files, db>>

-----------------------------------------------------------------------------
(* open_dsc *)

\* dsc_open_plan: an existing .i64 wins.
Plan(t, c) ==
  /\ pc[t] = "new"
  /\ cache' = [cache EXCEPT ![t] = c]
  /\ \/ /\ i64[c] # "none"
        /\ kind' = [kind EXCEPT ![t] = "existing"]
        /\ Goto(t, "open")
     \/ /\ i64[c] = "none"
        /\ kind' = [kind EXCEPT ![t] = IF legacy THEN "idat" ELSE "raw"]
        /\ Goto(t, "planned")
  /\ UNCHANGED <<registry, gen, left, late, files, db>>

\* Mutant of StartDscBackground: the dedup key is not looked at.
StartUnkeyed(t) ==
  /\ pc[t] = "planned"
  /\ status' = [status EXCEPT ![t] = "running"]
  /\ Goto(t, "start")
  /\ UNCHANGED <<armed, asked, token, call, files, db>>

\* start_dsc_background: AlreadyRunning, or a task of its own.
StartDscBackground(t) ==
  /\ pc[t] = "planned"
  /\ \/ /\ KeyFree(cache[t])
        /\ status' = [status EXCEPT ![t] = "running"]
        /\ Goto(t, "start")
     \/ /\ ~KeyFree(cache[t])
        /\ Goto(t, "done")
        /\ UNCHANGED status
  /\ UNCHANGED <<armed, asked, token, call, files, db>>

-----------------------------------------------------------------------------
(* Phase 1 of run_dsc_background: idat *)

Start(t) ==
  /\ pc[t] = "start"
  /\ \/ token[t] /\ Settle(t, "cancelled") /\ Goto(t, "done") /\ UNCHANGED idat
     \/ /\ ~token[t] /\ kind[t] = "raw"
        /\ Goto(t, "open") /\ UNCHANGED <<registry, idat>>
     \/ /\ ~token[t] /\ kind[t] = "idat"      \* spawned, or not
        /\ \/ idat' = [idat EXCEPT ![t] = "running"] /\ Goto(t, "idat")
           \/ idat' = [idat EXCEPT ![t] = "bad"] /\ Goto(t, "exited")
        /\ UNCHANGED registry
  /\ UNCHANGED <<call, i64, db>>

\* The subprocess begins to write its output, and ends well or badly.
IdatWrites(t) ==
  /\ idat[t] = "running" /\ i64[cache[t]] # "partial"
  /\ i64' = [i64 EXCEPT ![cache[t]] = "partial"]
  /\ UNCHANGED <<registry, pc, call, idat, db>>

IdatExits(t) ==
  /\ idat[t] = "running"
  /\ \/ /\ i64[cache[t]] = "partial"
        /\ idat' = [idat EXCEPT ![t] = "ok"]
        /\ i64' = [i64 EXCEPT ![cache[t]] = "whole"]
     \/ idat' = [idat EXCEPT ![t] = "bad"] /\ UNCHANGED i64
  /\ UNCHANGED <<registry, pc, call, db>>

\* Mutant of SelectIdat: only the exit is waited for.
WaitIdat(t) ==
  /\ pc[t] = "idat" /\ idat[t] # "running"
  /\ Goto(t, "exited")
  /\ UNCHANGED <<registry, call, files, db>>

\* The select: the exit or the cancellation.
SelectIdat(t) ==
  /\ pc[t] = "idat"
  /\ \/ idat[t] # "running" /\ Goto(t, "exited")
     \/ token[t] /\ Goto(t, "kill")
  /\ UNCHANGED <<registry, call, files, db>>

WaitFails(t) ==
  /\ pc[t] = "idat"
  /\ Goto(t, "fail")
  /\ UNCHANGED <<registry, call, files, db>>

\* stop_idat_and_remove_partial_outputs: kill and reap,
StopIdat(t) ==
  /\ pc[t] \in {"kill", "fail"} /\ idat[t] # "none"
  /\ idat' = [idat EXCEPT ![t] = "none"]
  /\ UNCHANGED <<registry, pc, call, i64, db>>

RemovePartialOutputs(t) == i64' = [i64 EXCEPT ![cache[t]] = "none"]

\* then remove, and only then settle the task.
IdatStopped(t) ==
  /\ pc[t] \in {"kill", "fail"} /\ idat[t] = "none"
  /\ RemovePartialOutputs(t)
  /\ Settle(t, IF pc[t] = "kill" THEN "cancelled" ELSE "failed")
  /\ Goto(t, "done")
  /\ UNCHANGED <<call, idat, db>>

\* The token is looked at once more when idat has ended by itself.
IdatExited(t) ==
  /\ pc[t] = "exited"
  /\ \/ token[t] /\ Settle(t, "cancelled") /\ Goto(t, "done")
     \/ ~token[t] /\ Goto(t, "judged") /\ UNCHANGED registry
  /\ UNCHANGED <<call, files, db>>

JudgeIdat(t) ==
  /\ pc[t] = "judged"
  /\ \/ /\ idat[t] = "bad" \/ i64[cache[t]] = "none"
        /\ RemovePartialOutputs(t)
        /\ Complete(t)
        /\ Goto(t, "done")
     \/ /\ idat[t] = "ok" /\ i64[cache[t]] # "none"
        /\ Goto(t, "open")
        /\ UNCHANGED <<registry, i64>>
  /\ UNCHANGED <<call, idat, db>>

-----------------------------------------------------------------------------
(* Phase 2: the open, the image loads and the status, through the IDA loop *)

OpenDatabase(by, c) ==
  /\ next_database_generation < MaxGenerations
  /\ next_database_generation' = next_database_generation + 1
  /\ database_generation' = next_database_generation + 1
  /\ open_path' = c
  /\ opener' = by
  /\ loaded' = {}

\* Dropping the IDB packs it into its .i64.
CloseDatabase ==
  /\ i64' = [c \in Caches |-> IF c = open_path /\ i64[c] = "none" THEN "whole" ELSE i64[c]]
  /\ database_generation' = 0 /\ open_path' = None /\ opener' = None /\ loaded' = {}
  /\ UNCHANGED next_database_generation

\* open_observed_with_generation: a full queue, a cancelled token, another
\* database or a failing open is an error; an .i64 that is already open is
\* returned with the generation it has (the .i64 of a raw cache is kept
\* elsewhere, and does not match the cache's path).
LoopOpen(t) ==
  /\ pc[t] = "open"
  /\ \/ Goto(t, "open_err") /\ UNCHANGED <<gen, db>>
     \/ /\ ~token[t] /\ database_generation # 0 /\ open_path = cache[t] /\ kind[t] # "raw"
        /\ gen' = [gen EXCEPT ![t] = database_generation]
        /\ Goto(t, "opened")
        /\ UNCHANGED db
     \/ /\ ~token[t] /\ database_generation = 0
        /\ OpenDatabase(t, cache[t])
        /\ gen' = [gen EXCEPT ![t] = database_generation']
        /\ Goto(t, "opened")
  /\ UNCHANGED <<registry, cache, kind, left, late, files>>

\* open_dsc_direct returns its error; a task settles with it.
OpenFailed(t) ==
  /\ pc[t] = "open_err"
  /\ Complete(t)
  /\ Goto(t, "done")
  /\ UNCHANGED <<call, files, db>>

Opened(t) ==
  /\ pc[t] = "opened"
  /\ \/ token[t] /\ Goto(t, "cancel_close")
     \/ ~token[t] /\ kind[t] # "idat" /\ Goto(t, "load")
     \/ ~token[t] /\ kind[t] = "idat" /\ Goto(t, "final")
  /\ UNCHANGED <<registry, call, files, db>>

\* Mutant of Expected: the load goes to whatever database is open.
ExpectedAny(t) == database_generation # 0

\* require_generation
Expected(t) == database_generation = gen[t]

\* dsc_load_image_for_generation, on the loop: an image, or an error.
LoopLoad(t) ==
  /\ pc[t] = "load"
  /\ \/ /\ Expected(t)
        /\ loaded' = loaded \cup {cache[t]}
        /\ left' = [left EXCEPT ![t] = @ - 1]
        /\ Goto(t, "loaded")
     \/ Goto(t, "load_err") /\ UNCHANGED <<left, loaded>>
  /\ UNCHANGED <<registry, cache, kind, gen, late, files, open_path,
                 database_generation, next_database_generation, opener>>

\* recv_with_timeout gives up on the answer, and leaves the request behind.
LoadTimesOut(t) ==
  /\ pc[t] = "load"
  /\ late' = [late EXCEPT ![t] = TRUE]
  /\ Goto(t, "load_err")
  /\ UNCHANGED <<registry, cache, kind, gen, left, files, db>>

LoopLateLoad(t) ==
  /\ late[t]
  /\ late' = [late EXCEPT ![t] = FALSE]
  /\ loaded' = IF Expected(t) THEN loaded \cup {cache[t]} ELSE loaded
  /\ UNCHANGED <<registry, pc, cache, kind, gen, left, files, open_path,
                 database_generation, next_database_generation, opener>>

\* Mutant of Loaded: one image too many.
LoadedMore(t) ==
  /\ pc[t] \in {"loaded", "load_err"}
  /\ \/ token[t] /\ Goto(t, "cancel_close")
     \/ ~token[t] /\ pc[t] = "loaded" /\ left[t] >= 0 /\ Goto(t, "load")
     \/ ~token[t] /\ pc[t] = "loaded" /\ left[t] = 0 /\ Goto(t, "status")
     \/ ~token[t] /\ pc[t] = "load_err" /\ kind[t] = "raw" /\ Goto(t, "error_close")
     \/ /\ pc[t] = "load_err" /\ kind[t] = "existing"   \* an error, or NotSupported
        /\ \/ Goto(t, "done")
           \/ left[t] = Images /\ Goto(t, "status")
  /\ UNCHANGED <<registry, call, files, db>>

\* After each load: the token, the error, the next image.
Loaded(t) ==
  /\ pc[t] \in {"loaded", "load_err"}
  /\ \/ token[t] /\ Goto(t, "cancel_close")
     \/ ~token[t] /\ pc[t] = "loaded" /\ left[t] > 0 /\ Goto(t, "load")
     \/ ~token[t] /\ pc[t] = "loaded" /\ left[t] = 0 /\ Goto(t, "status")
     \/ ~token[t] /\ pc[t] = "load_err" /\ kind[t] = "raw" /\ Goto(t, "error_close")
     \/ /\ pc[t] = "load_err" /\ kind[t] = "existing"   \* an error, or NotSupported
        /\ \/ Goto(t, "done")
           \/ left[t] = Images /\ Goto(t, "status")
  /\ UNCHANGED <<registry, call, files, db>>

\* analysis_status_for_generation, whose failure is only a warning
LoopStatus(t) ==
  /\ pc[t] = "status"
  /\ \/ kind[t] = "existing" /\ Goto(t, "done")
     \/ kind[t] # "existing" /\ Goto(t, "final")
  /\ UNCHANGED <<registry, call, files, db>>

Final(t) ==
  /\ pc[t] = "final"
  /\ \/ token[t] /\ Goto(t, "cancel_close")
     \/ ~token[t] /\ Goto(t, "settle")
  /\ UNCHANGED <<registry, call, files, db>>

\* Mutant of CompleteOrDefer: a late cancellation settles the task at once.
CompleteAtOnce(t) ==
  /\ pc[t] = "settle"
  /\ Complete(t) /\ Goto(t, "done")
  /\ UNCHANGED <<call, files, db>>

\* complete_or_defer_cancellation
CompleteOrDefer(t) ==
  /\ pc[t] = "settle"
  /\ \/ ~CancelPending(t) /\ Settle(t, "completed") /\ Goto(t, "done")
     \/ CancelPending(t) /\ Goto(t, "cancel_close") /\ UNCHANGED registry
  /\ UNCHANGED <<call, files, db>>

-----------------------------------------------------------------------------
(* finish_dsc_cancellation_after_open, finish_dsc_tool_error_after_open *)

Closing == {"cancel_close", "error_close"}

\* close_if_generation, behind the call's own earlier requests
LoopClose(t) ==
  /\ pc[t] \in Closing /\ ~late[t]
  /\ \/ database_generation = gen[t] /\ CloseDatabase
     \/ database_generation # gen[t] /\ UNCHANGED <<db, i64>>
  /\ Goto(t, IF pc[t] = "cancel_close" THEN "cancel_closed" ELSE "error_closed")
  /\ UNCHANGED <<registry, call, idat>>

\* The queue stays full or the loop is gone: fail_after_cleanup_error.
CloseFails(t) ==
  /\ pc[t] \in Closing
  /\ Settle(t, "failed")
  /\ Goto(t, "done")
  /\ UNCHANGED <<call, files, db>>

Finish(t) ==
  /\ \/ pc[t] = "cancel_closed" /\ Settle(t, "cancelled")
     \/ pc[t] = "error_closed" /\ Complete(t)
  /\ Goto(t, "done")
  /\ UNCHANGED <<call, files, db>>

-----------------------------------------------------------------------------
(* Other clients of the loop: open_idb on an .i64 or on a binary, close_idb *)

ClientOpen(f) ==
  /\ database_generation = 0 /\ (f \in Caches => i64[f] # "none")
  /\ OpenDatabase(Client, f)
  /\ UNCHANGED <<registry, pc, call, files>>

ClientClose ==
  /\ database_generation # 0
  /\ CloseDatabase
  /\ UNCHANGED <<registry, pc, call, idat>>

-----------------------------------------------------------------------------
\* Every stretch of a call and every answer of the loop to it
Step(t) ==
  \/ StartDscBackground(t) \/ Start(t) \/ SelectIdat(t) \/ StopIdat(t) \/ IdatStopped(t)
  \/ IdatExited(t) \/ JudgeIdat(t) \/ LoopOpen(t) \/ OpenFailed(t) \/ Opened(t)
  \/ LoopLoad(t) \/ Loaded(t) \/ LoopStatus(t) \/ Final(t) \/ CompleteOrDefer(t)
  \/ LoopClose(t) \/ Finish(t)

Next ==
  /\ \/ \E t \in Calls :
          \/ Step(t) \/ \E c \in Caches : Plan(t, c)
          \/ SetCancelToken(t) \/ Cancel(t) \/ DropLifetime(t)
          \/ IdatWrites(t) \/ IdatExits(t) \/ LoopLateLoad(t)
          \/ WaitFails(t) \/ LoadTimesOut(t) \/ CloseFails(t)
     \/ \E f \in Caches \cup {Binary} : ClientOpen(f)
     \/ ClientClose
  /\ UNCHANGED legacy

Fairness ==
  \A t \in Calls :
    /\ WF_vars(Step(t) /\ UNCHANGED legacy)
    /\ WF_vars(SetCancelToken(t) /\ UNCHANGED legacy)
    /\ WF_vars(LoopLateLoad(t) /\ UNCHANGED legacy)

Spec == Init /\ [][Next]_vars /\ Fairness

-----------------------------------------------------------------------------
\* "no IDA work survives a task that reports itself cancelled": its idat is gone
\* and the database it opened is closed, wherever the cancellation caught it,
\* and whoever else opens and closes databases meanwhile.
CancelledIsClean ==
  \A t \in Calls : status[t] = "cancelled" =>
    idat[t] # "running" /\ ~(gen[t] # 0 /\ database_generation = gen[t])

\* The registry's dedup key keeps two idat from writing one .i64: a task stays
\* "running" until its own idat has been reaped.
OneWriterPerI64 ==
  \A t, u \in Calls : idat[t] = "running" /\ idat[u] = "running" /\ cache[t] = cache[u] => t = u

\* An image is loaded only into the database of the cache it was asked for, even
\* when another client closes that database and opens one of its own between the
\* open and the load, and when the load runs after its caller gave up on it.
LoadsOnTarget == database_generation # 0 => loaded \subseteq {open_path}

\* A task whose cancellation was asked for settles, wherever it is and however
\* early it was asked.
CancelSettles == \A t \in Calls : (Running(t) /\ CancelPending(t)) ~> ~Running(t)

\* src/server/mod.rs:1611: "A killed idat can leave partial database files that
\* dsc_open_plan would reuse on the next call - remove them": a cancelled task
\* leaves no partial .i64 behind.
NoPartialLeft ==
  \A t \in Calls : status[t] = "cancelled" /\ kind[t] = "idat" /\ KeyFree(cache[t]) =>
    i64[cache[t]] # "partial"

\* src/ida/worker.rs:259: "Close the database only if it is still the lifetime
\* opened by the caller."
ClosesOnlyItsOwn ==
  [][\A t \in Calls :
       pc[t] \in Closing /\ pc'[t] # pc[t] =>
         (database_generation # 0 /\ database_generation' = 0 => opener = t)]_vars
=============================================================================
