------------------------ MODULE DscBackgroundProofs ------------------------
(***************************************************************************)
(* Proofs about DscBackground (src/server/mod.rs), for any number of calls *)
(* of open_dsc, shared caches and databases opened meanwhile: what a       *)
(* cancelled task leaves behind, who writes an .i64, and which database an *)
(* image is loaded into.  The second part is about the HTTP sessions of    *)
(* the same server (src/server/http_sessions.rs).                          *)
(***************************************************************************)
EXTENDS DscBackground, HttpSessions, FiniteSetTheorems, TLAPS

Types ==
  /\ status \in [Calls -> {"none", "running", "completed", "failed", "cancelled"}]
  /\ asked \in [Calls -> BOOLEAN] /\ token \in [Calls -> BOOLEAN]
  /\ pc \in [Calls -> PCs]
  /\ cache \in [Calls -> Caches \cup {None}]
  /\ gen \in [Calls -> Nat]
  /\ late \in [Calls -> BOOLEAN]
  /\ idat \in [Calls -> {"none", "running", "ok", "bad"}]
  /\ i64 \in [Caches -> {"none", "partial", "whole"}]
  /\ database_generation \in Nat /\ next_database_generation \in Nat

\* Before the open, and after it.
Early == {"new", "planned", "start", "idat", "kill", "fail", "exited", "judged", "open", "open_err"}
Late  == {"opened", "load", "loaded", "load_err", "status", "final", "settle",
          "cancel_close", "cancel_closed", "error_close", "error_closed"}

\* A task is registered while its idat may run, and its idat runs only while it
\* waits for it or stops it.  A cancelled task is over.
Phases ==
  \A t \in Calls :
    /\ pc[t] \in {"new", "planned"} => status[t] = "none"
    /\ pc[t] \in {"start", "idat", "kill", "fail"} => Running(t)
    /\ status[t] = "cancelled" => pc[t] = "done"
    /\ idat[t] = "running" => pc[t] \in {"idat", "kill", "fail"}

\* One running task per dedup key.
KeysUnique == \A t, u \in Calls : Running(t) /\ Running(u) /\ cache[t] = cache[u] => t = u

\* A call knows a generation once it has opened, none that is still to come,
\* and by it the database of its own cache.
GenerationsKnown ==
  /\ database_generation <= next_database_generation
  /\ \A t \in Calls :
       /\ gen[t] <= next_database_generation
       /\ pc[t] \in Early => gen[t] = 0
       /\ pc[t] \in Late \/ late[t] => gen[t] # 0
       /\ gen[t] # 0 /\ database_generation = gen[t] => open_path = cache[t]

\* What close_if_generation closed stays closed.
ClosedForGood ==
  \A t \in Calls : pc[t] \in {"cancel_closed", "error_closed"} => database_generation # gen[t]

IInv ==
  /\ Types /\ Phases /\ KeysUnique /\ GenerationsKnown /\ ClosedForGood
  /\ CancelledIsClean /\ LoadsOnTarget

-----------------------------------------------------------------------------
\* At the start no call has been made and no database is open.
LEMMA InitIInv == Init => IInv
  BY DEF Init, IInv, Types, PCs, Phases, Running, KeysUnique, GenerationsKnown, Early, Late,
     ClosedForGood,
         CancelledIsClean, LoadsOnTarget

\* Every step of a call, of its idat, of the loop and of other clients keeps the
\* invariant.
LEMMA StepIInv == IInv /\ [Next]_vars => IInv'
<1> SUFFICES ASSUME IInv, [Next]_vars PROVE IInv'
  BY Zenon
<1> USE DEF IInv
<1>1. ASSUME NEW t \in Calls, NEW c \in Caches, Plan(t, c) PROVE IInv'
  <2>1. Types'
    BY Zenon, <1>1 DEF Plan, Goto, Types, PCs, Phases, registry, call, files, db
  <2>2. Phases' /\ KeysUnique'
    BY <1>1 DEF Plan, Goto, Types, Phases, Running, KeysUnique, registry, call, files, db
  <2>3. GenerationsKnown' /\ ClosedForGood'
    BY <1>1 DEF Plan, Goto, Types, GenerationsKnown, Early, Late, ClosedForGood, registry,
       call, files, db
  <2>4. CancelledIsClean' /\ LoadsOnTarget'
    BY Zenon, <1>1 DEF Plan, Goto, Types, CancelledIsClean, Running, Phases, GenerationsKnown, Early,
       Late, ClosedForGood, LoadsOnTarget, registry, call, files, db
  <2> QED
    BY Zenon, <2>1, <2>2, <2>3, <2>4
<1>2. ASSUME NEW t \in Calls, SetCancelToken(t) PROVE IInv'
  <2>1. Types'
    BY Zenon, <1>2 DEF SetCancelToken, CancelPending, Types, PCs, Phases, registry, call, files, db
  <2>2. Phases' /\ KeysUnique'
    BY Zenon, <1>2 DEF SetCancelToken, CancelPending, Types, Phases, Running, KeysUnique, registry,
       call, files, db
  <2>3. GenerationsKnown' /\ ClosedForGood'
    BY Zenon, <1>2 DEF SetCancelToken, CancelPending, Types, GenerationsKnown, Early, Late,
       ClosedForGood, registry, call, files, db
  <2>4. CancelledIsClean' /\ LoadsOnTarget'
    BY Zenon, <1>2 DEF SetCancelToken, CancelPending, Types, CancelledIsClean, Running, Phases,
       GenerationsKnown, Early, Late, ClosedForGood, LoadsOnTarget, registry, call, files, db
  <2> QED
    BY Zenon, <2>1, <2>2, <2>3, <2>4
<1>3. ASSUME NEW t \in Calls, Cancel(t) PROVE IInv'
  <2>1. Types'
    BY Zenon, <1>3 DEF Cancel, Types, PCs, Phases, registry, call, files, db
  <2>2. Phases' /\ KeysUnique'
    BY Zenon, <1>3 DEF Cancel, Types, Phases, Running, KeysUnique, registry, call, files, db
  <2>3. GenerationsKnown' /\ ClosedForGood'
    BY Zenon, <1>3 DEF Cancel, Types, GenerationsKnown, Early, Late, ClosedForGood, registry, call,
       files, db
  <2>4. CancelledIsClean' /\ LoadsOnTarget'
    BY Zenon, <1>3 DEF Cancel, Types, CancelledIsClean, Running, Phases, GenerationsKnown, Early,
       Late, ClosedForGood, LoadsOnTarget, registry, call, files, db
  <2> QED
    BY Zenon, <2>1, <2>2, <2>3, <2>4
<1>4. ASSUME NEW t \in Calls, DropLifetime(t) PROVE IInv'
  <2>1. Types'
    BY Zenon, <1>4 DEF DropLifetime, Types, PCs, Phases, registry, call, files, db
  <2>2. Phases' /\ KeysUnique'
    BY Zenon, <1>4 DEF DropLifetime, Types, Phases, Running, KeysUnique, registry, call, files, db
  <2>3. GenerationsKnown' /\ ClosedForGood'
    BY Zenon, <1>4 DEF DropLifetime, Types, GenerationsKnown, Early, Late, ClosedForGood, registry,
       call, files, db
  <2>4. CancelledIsClean' /\ LoadsOnTarget'
    BY Zenon, <1>4 DEF DropLifetime, Types, CancelledIsClean, Running, Phases, GenerationsKnown,
       Early, Late, ClosedForGood, LoadsOnTarget, registry, call, files, db
  <2> QED
    BY Zenon, <2>1, <2>2, <2>3, <2>4
<1>5. ASSUME NEW t \in Calls, StartDscBackground(t) PROVE IInv'
  <2>1. Types'
    BY Zenon, <1>5 DEF StartDscBackground, KeyFree, Goto, Types, PCs, Phases, registry, call, files, db
  <2>2. Phases' /\ KeysUnique'
    BY <1>5 DEF StartDscBackground, KeyFree, Goto, Types, Phases, Running, KeysUnique,
       registry, call, files, db
  <2>3. GenerationsKnown' /\ ClosedForGood'
    BY <1>5 DEF StartDscBackground, KeyFree, Goto, Types, GenerationsKnown, Early, Late,
       ClosedForGood, registry, call, files, db
  <2>4. CancelledIsClean' /\ LoadsOnTarget'
    BY Zenon, <1>5 DEF StartDscBackground, KeyFree, Goto, Types, CancelledIsClean, Running, Phases,
       GenerationsKnown, Early, Late, ClosedForGood, LoadsOnTarget, registry, call, files, db
  <2> QED
    BY Zenon, <2>1, <2>2, <2>3, <2>4
<1>6. ASSUME NEW t \in Calls, Start(t) PROVE IInv'
  <2>1. Types'
    BY <1>6 DEF Start, Settle, Goto, Types, PCs, Phases, registry, call, files, db
  <2>2. Phases' /\ KeysUnique'
    BY <1>6 DEF Start, Settle, Goto, Types, Phases, Running, KeysUnique, registry, call, files,
       db
  <2>3. GenerationsKnown' /\ ClosedForGood'
    BY <1>6 DEF Start, Settle, Goto, Types, GenerationsKnown, Early, Late, ClosedForGood,
       registry, call, files, db
  <2>4. CancelledIsClean' /\ LoadsOnTarget'
    BY <1>6 DEF Start, Settle, Goto, Types, CancelledIsClean, Running, Phases,
       GenerationsKnown, Early, Late, ClosedForGood, LoadsOnTarget, registry, call, files, db
  <2> QED
    BY Zenon, <2>1, <2>2, <2>3, <2>4
<1>7. ASSUME NEW t \in Calls, IdatWrites(t) PROVE IInv'
  <2>1. Types'
    BY Zenon, <1>7 DEF IdatWrites, Types, PCs, Phases, registry, call, files, db
  <2>2. Phases' /\ KeysUnique'
    BY Zenon, <1>7 DEF IdatWrites, Types, Phases, Running, KeysUnique, registry, call, files, db
  <2>3. GenerationsKnown' /\ ClosedForGood'
    BY Zenon, <1>7 DEF IdatWrites, Types, GenerationsKnown, Early, Late, ClosedForGood, registry,
       call, files, db
  <2>4. CancelledIsClean' /\ LoadsOnTarget'
    BY Zenon, <1>7 DEF IdatWrites, Types, CancelledIsClean, Running, Phases, GenerationsKnown, Early,
       Late, ClosedForGood, LoadsOnTarget, registry, call, files, db
  <2> QED
    BY Zenon, <2>1, <2>2, <2>3, <2>4
<1>8. ASSUME NEW t \in Calls, IdatExits(t) PROVE IInv'
  <2>1. Types'
    BY Zenon, <1>8 DEF IdatExits, Types, PCs, Phases, registry, call, files, db
  <2>2. Phases' /\ KeysUnique'
    BY <1>8 DEF IdatExits, Types, Phases, Running, KeysUnique, registry, call, files, db
  <2>3. GenerationsKnown' /\ ClosedForGood'
    BY Zenon, <1>8 DEF IdatExits, Types, GenerationsKnown, Early, Late, ClosedForGood, registry, call,
       files, db
  <2>4. CancelledIsClean' /\ LoadsOnTarget'
    BY Zenon, <1>8 DEF IdatExits, Types, CancelledIsClean, Running, Phases, GenerationsKnown, Early,
       Late, ClosedForGood, LoadsOnTarget, registry, call, files, db
  <2> QED
    BY Zenon, <2>1, <2>2, <2>3, <2>4
<1>9. ASSUME NEW t \in Calls, SelectIdat(t) PROVE IInv'
  <2>1. Types'
    BY Zenon, <1>9 DEF SelectIdat, Goto, Types, PCs, Phases, registry, call, files, db
  <2>2. Phases' /\ KeysUnique'
    BY <1>9 DEF SelectIdat, Goto, Types, Phases, Running, KeysUnique, registry, call, files, db
  <2>3. GenerationsKnown' /\ ClosedForGood'
    BY <1>9 DEF SelectIdat, Goto, Types, GenerationsKnown, Early, Late, ClosedForGood,
       registry, call, files, db
  <2>4. CancelledIsClean' /\ LoadsOnTarget'
    BY Zenon, <1>9 DEF SelectIdat, Goto, Types, CancelledIsClean, Running, Phases, GenerationsKnown,
       Early, Late, ClosedForGood, LoadsOnTarget, registry, call, files, db
  <2> QED
    BY Zenon, <2>1, <2>2, <2>3, <2>4
<1>10. ASSUME NEW t \in Calls, WaitFails(t) PROVE IInv'
  <2>1. Types'
    BY Zenon, <1>10 DEF WaitFails, Goto, Types, PCs, Phases, registry, call, files, db
  <2>2. Phases' /\ KeysUnique'
    BY Zenon, <1>10 DEF WaitFails, Goto, Types, Phases, Running, KeysUnique, registry, call, files, db
  <2>3. GenerationsKnown' /\ ClosedForGood'
    BY Zenon, <1>10 DEF WaitFails, Goto, Types, GenerationsKnown, Early, Late, ClosedForGood,
       registry, call, files, db
  <2>4. CancelledIsClean' /\ LoadsOnTarget'
    BY Zenon, <1>10 DEF WaitFails, Goto, Types, CancelledIsClean, Running, Phases, GenerationsKnown,
       Early, Late, ClosedForGood, LoadsOnTarget, registry, call, files, db
  <2> QED
    BY Zenon, <2>1, <2>2, <2>3, <2>4
<1>11. ASSUME NEW t \in Calls, StopIdat(t) PROVE IInv'
  <2>1. Types'
    BY Zenon, <1>11 DEF StopIdat, Types, PCs, Phases, registry, call, files, db
  <2>2. Phases' /\ KeysUnique'
    BY Zenon, <1>11 DEF StopIdat, Types, Phases, Running, KeysUnique, registry, call, files, db
  <2>3. GenerationsKnown' /\ ClosedForGood'
    BY Zenon, <1>11 DEF StopIdat, Types, GenerationsKnown, Early, Late, ClosedForGood, registry, call,
       files, db
  <2>4. CancelledIsClean' /\ LoadsOnTarget'
    BY Zenon, <1>11 DEF StopIdat, Types, CancelledIsClean, Running, Phases, GenerationsKnown, Early,
       Late, ClosedForGood, LoadsOnTarget, registry, call, files, db
  <2> QED
    BY Zenon, <2>1, <2>2, <2>3, <2>4
<1>12. ASSUME NEW t \in Calls, IdatStopped(t) PROVE IInv'
  <2>1. Types'
    BY Zenon, <1>12 DEF IdatStopped, RemovePartialOutputs, Settle, Goto, Types, PCs, Phases, registry,
       call, files, db
  <2>2. Phases' /\ KeysUnique'
    BY Zenon, <1>12 DEF IdatStopped, RemovePartialOutputs, Settle, Goto, Types, Phases, Running,
       KeysUnique, registry, call, files, db
  <2>3. GenerationsKnown' /\ ClosedForGood'
    BY Zenon, <1>12 DEF IdatStopped, RemovePartialOutputs, Settle, Goto, Types, GenerationsKnown,
       Early, Late, ClosedForGood, registry, call, files, db
  <2>4. CancelledIsClean' /\ LoadsOnTarget'
    BY Zenon, <1>12 DEF IdatStopped, RemovePartialOutputs, Settle, Goto, Types, CancelledIsClean,
       Running, Phases, GenerationsKnown, Early, Late, ClosedForGood, LoadsOnTarget, registry,
       call, files, db
  <2> QED
    BY Zenon, <2>1, <2>2, <2>3, <2>4
<1>13. ASSUME NEW t \in Calls, IdatExited(t) PROVE IInv'
  <2>1. Types'
    BY Zenon, <1>13 DEF IdatExited, Settle, Goto, Types, PCs, Phases, registry, call, files, db
  <2>2. Phases' /\ KeysUnique'
    BY <1>13 DEF IdatExited, Settle, Goto, Types, Phases, Running, KeysUnique, registry, call,
       files, db
  <2>3. GenerationsKnown' /\ ClosedForGood'
    BY <1>13 DEF IdatExited, Settle, Goto, Types, GenerationsKnown, Early, Late, ClosedForGood,
       registry, call, files, db
  <2>4. CancelledIsClean' /\ LoadsOnTarget'
    BY <1>13 DEF IdatExited, Settle, Goto, Types, CancelledIsClean, Running, Phases,
       GenerationsKnown, Early, Late, ClosedForGood, LoadsOnTarget, registry, call, files, db
  <2> QED
    BY Zenon, <2>1, <2>2, <2>3, <2>4
<1>14. ASSUME NEW t \in Calls, JudgeIdat(t) PROVE IInv'
  <2>1. Types'
    BY <1>14 DEF JudgeIdat, RemovePartialOutputs, Complete, Settle, Goto, Types, PCs, Phases,
       registry, call, files, db
  <2>2. Phases' /\ KeysUnique'
    BY <1>14 DEF JudgeIdat, RemovePartialOutputs, Complete, Settle, Goto, Types, Phases,
       Running, KeysUnique, registry, call, files, db
  <2>3. GenerationsKnown' /\ ClosedForGood'
    BY <1>14 DEF JudgeIdat, RemovePartialOutputs, Complete, Settle, Goto, Types,
       GenerationsKnown, Early, Late, ClosedForGood, registry, call, files, db
  <2>4. CancelledIsClean' /\ LoadsOnTarget'
    BY <1>14 DEF JudgeIdat, RemovePartialOutputs, Complete, Settle, Goto, Types,
       CancelledIsClean, Running, Phases, GenerationsKnown, Early, Late, ClosedForGood,
       LoadsOnTarget, registry, call, files, db
  <2> QED
    BY Zenon, <2>1, <2>2, <2>3, <2>4
<1>15. ASSUME NEW t \in Calls, LoopOpen(t) PROVE IInv'
  <2>1. Types'
    BY <1>15 DEF LoopOpen, OpenDatabase, Goto, Types, PCs, Phases, registry, call, files, db
  <2>2. Phases' /\ KeysUnique'
    BY <1>15 DEF LoopOpen, OpenDatabase, Goto, Types, Phases, Running, KeysUnique, registry,
       call, files, db
  <2>3. GenerationsKnown' /\ ClosedForGood'
    BY <1>15 DEF LoopOpen, OpenDatabase, Goto, Types, GenerationsKnown, Early, Late,
       ClosedForGood, registry, call, files, db
  <2>4. CancelledIsClean' /\ LoadsOnTarget'
    BY <1>15 DEF LoopOpen, OpenDatabase, Goto, Types, CancelledIsClean, Running, Phases,
       GenerationsKnown, Early, Late, ClosedForGood, LoadsOnTarget, registry, call, files, db
  <2> QED
    BY Zenon, <2>1, <2>2, <2>3, <2>4
<1>16. ASSUME NEW t \in Calls, OpenFailed(t) PROVE IInv'
  <2>1. Types'
    BY Zenon, <1>16 DEF OpenFailed, Complete, Settle, Goto, Types, PCs, Phases, registry, call, files,
       db
  <2>2. Phases' /\ KeysUnique'
    BY Zenon, <1>16 DEF OpenFailed, Complete, Settle, Goto, Types, Phases, Running, KeysUnique,
       registry, call, files, db
  <2>3. GenerationsKnown' /\ ClosedForGood'
    BY Zenon, <1>16 DEF OpenFailed, Complete, Settle, Goto, Types, GenerationsKnown, Early, Late,
       ClosedForGood, registry, call, files, db
  <2>4. CancelledIsClean' /\ LoadsOnTarget'
    BY Zenon, <1>16 DEF OpenFailed, Complete, Settle, Goto, Types, CancelledIsClean, Running, Phases,
       GenerationsKnown, Early, Late, ClosedForGood, LoadsOnTarget, registry, call, files, db
  <2> QED
    BY Zenon, <2>1, <2>2, <2>3, <2>4
<1>17. ASSUME NEW t \in Calls, Opened(t) PROVE IInv'
  <2>1. Types'
    BY Zenon, <1>17 DEF Opened, Goto, Types, PCs, Phases, registry, call, files, db
  <2>2. Phases' /\ KeysUnique'
    BY <1>17 DEF Opened, Goto, Types, Phases, Running, KeysUnique, registry, call, files, db
  <2>3. GenerationsKnown' /\ ClosedForGood'
    BY <1>17 DEF Opened, Goto, Types, GenerationsKnown, Early, Late, ClosedForGood, registry,
       call, files, db
  <2>4. CancelledIsClean' /\ LoadsOnTarget'
    BY Zenon, <1>17 DEF Opened, Goto, Types, CancelledIsClean, Running, Phases, GenerationsKnown,
       Early, Late, ClosedForGood, LoadsOnTarget, registry, call, files, db
  <2> QED
    BY Zenon, <2>1, <2>2, <2>3, <2>4
<1>18. ASSUME NEW t \in Calls, LoopLoad(t) PROVE IInv'
  <2>1. Types'
    BY Zenon, <1>18 DEF LoopLoad, Expected, Goto, Types, PCs, Phases, registry, call, files, db
  <2>2. Phases' /\ KeysUnique'
    BY <1>18 DEF LoopLoad, Expected, Goto, Types, Phases, Running, KeysUnique, registry, call,
       files, db
  <2>3. GenerationsKnown' /\ ClosedForGood'
    BY <1>18 DEF LoopLoad, Expected, Goto, Types, GenerationsKnown, Early, Late, ClosedForGood,
       registry, call, files, db
  <2>4. CancelledIsClean' /\ LoadsOnTarget'
    BY Zenon, <1>18 DEF LoopLoad, Expected, Goto, Types, CancelledIsClean, Running, Phases,
       GenerationsKnown, Early, Late, ClosedForGood, LoadsOnTarget, registry, call, files, db
  <2> QED
    BY Zenon, <2>1, <2>2, <2>3, <2>4
<1>19. ASSUME NEW t \in Calls, LoadTimesOut(t) PROVE IInv'
  <2>1. Types'
    BY Zenon, <1>19 DEF LoadTimesOut, Goto, Types, PCs, Phases, registry, call, files, db
  <2>2. Phases' /\ KeysUnique'
    BY Zenon, <1>19 DEF LoadTimesOut, Goto, Types, Phases, Running, KeysUnique, registry, call, files,
       db
  <2>3. GenerationsKnown' /\ ClosedForGood'
    BY Zenon, <1>19 DEF LoadTimesOut, Goto, Types, GenerationsKnown, Early, Late, ClosedForGood,
       registry, call, files, db
  <2>4. CancelledIsClean' /\ LoadsOnTarget'
    BY Zenon, <1>19 DEF LoadTimesOut, Goto, Types, CancelledIsClean, Running, Phases,
       GenerationsKnown, Early, Late, ClosedForGood, LoadsOnTarget, registry, call, files, db
  <2> QED
    BY Zenon, <2>1, <2>2, <2>3, <2>4
<1>20. ASSUME NEW t \in Calls, LoopLateLoad(t) PROVE IInv'
  <2>1. Types'
    BY Zenon, <1>20 DEF LoopLateLoad, Expected, Types, PCs, Phases, registry, call, files, db
  <2>2. Phases' /\ KeysUnique'
    BY Zenon, <1>20 DEF LoopLateLoad, Expected, Types, Phases, Running, KeysUnique, registry, call,
       files, db
  <2>3. GenerationsKnown' /\ ClosedForGood'
    BY Zenon, <1>20 DEF LoopLateLoad, Expected, Types, GenerationsKnown, Early, Late, ClosedForGood,
       registry, call, files, db
  <2>4. CancelledIsClean' /\ LoadsOnTarget'
    BY Zenon, <1>20 DEF LoopLateLoad, Expected, Types, CancelledIsClean, Running, Phases,
       GenerationsKnown, Early, Late, ClosedForGood, LoadsOnTarget, registry, call, files, db
  <2> QED
    BY Zenon, <2>1, <2>2, <2>3, <2>4
<1>21. ASSUME NEW t \in Calls, Loaded(t) PROVE IInv'
  <2>1. Types'
    BY Zenon, <1>21 DEF Loaded, Goto, Types, PCs, Phases, registry, call, files, db
  <2>2. Phases' /\ KeysUnique'
    BY <1>21 DEF Loaded, Goto, Types, Phases, Running, KeysUnique, registry, call, files, db
  <2>3. GenerationsKnown' /\ ClosedForGood'
    BY <1>21 DEF Loaded, Goto, Types, GenerationsKnown, Early, Late, ClosedForGood, registry,
       call, files, db
  <2>4. CancelledIsClean' /\ LoadsOnTarget'
    BY Zenon, <1>21 DEF Loaded, Goto, Types, CancelledIsClean, Running, Phases, GenerationsKnown,
       Early, Late, ClosedForGood, LoadsOnTarget, registry, call, files, db
  <2> QED
    BY Zenon, <2>1, <2>2, <2>3, <2>4
<1>22. ASSUME NEW t \in Calls, LoopStatus(t) PROVE IInv'
  <2>1. Types'
    BY Zenon, <1>22 DEF LoopStatus, Goto, Types, PCs, Phases, registry, call, files, db
  <2>2. Phases' /\ KeysUnique'
    BY <1>22 DEF LoopStatus, Goto, Types, Phases, Running, KeysUnique, registry, call, files, db
  <2>3. GenerationsKnown' /\ ClosedForGood'
    BY <1>22 DEF LoopStatus, Goto, Types, GenerationsKnown, Early, Late, ClosedForGood,
       registry, call, files, db
  <2>4. CancelledIsClean' /\ LoadsOnTarget'
    BY Zenon, <1>22 DEF LoopStatus, Goto, Types, CancelledIsClean, Running, Phases, GenerationsKnown,
       Early, Late, ClosedForGood, LoadsOnTarget, registry, call, files, db
  <2> QED
    BY Zenon, <2>1, <2>2, <2>3, <2>4
<1>23. ASSUME NEW t \in Calls, Final(t) PROVE IInv'
  <2>1. Types'
    BY Zenon, <1>23 DEF Final, Goto, Types, PCs, Phases, registry, call, files, db
  <2>2. Phases' /\ KeysUnique'
    BY <1>23 DEF Final, Goto, Types, Phases, Running, KeysUnique, registry, call, files, db
  <2>3. GenerationsKnown' /\ ClosedForGood'
    BY <1>23 DEF Final, Goto, Types, GenerationsKnown, Early, Late, ClosedForGood, registry,
       call, files, db
  <2>4. CancelledIsClean' /\ LoadsOnTarget'
    BY Zenon, <1>23 DEF Final, Goto, Types, CancelledIsClean, Running, Phases, GenerationsKnown,
       Early, Late, ClosedForGood, LoadsOnTarget, registry, call, files, db
  <2> QED
    BY Zenon, <2>1, <2>2, <2>3, <2>4
<1>24. ASSUME NEW t \in Calls, CompleteOrDefer(t) PROVE IInv'
  <2>1. Types'
    BY Zenon, <1>24 DEF CompleteOrDefer, Settle, Goto, Types, PCs, Phases, registry, call, files, db
  <2>2. Phases' /\ KeysUnique'
    BY <1>24 DEF CompleteOrDefer, Settle, Goto, Types, Phases, Running, KeysUnique, registry,
       call, files, db
  <2>3. GenerationsKnown' /\ ClosedForGood'
    BY <1>24 DEF CompleteOrDefer, Settle, Goto, Types, GenerationsKnown, Early, Late,
       ClosedForGood, registry, call, files, db
  <2>4. CancelledIsClean' /\ LoadsOnTarget'
    BY <1>24 DEF CompleteOrDefer, Settle, Goto, Types, CancelledIsClean, Running, Phases,
       GenerationsKnown, Early, Late, ClosedForGood, LoadsOnTarget, registry, call, files, db
  <2> QED
    BY Zenon, <2>1, <2>2, <2>3, <2>4
<1>25. ASSUME NEW t \in Calls, LoopClose(t) PROVE IInv'
  <2>1. Types'
    BY <1>25 DEF LoopClose, Closing, CloseDatabase, Goto, Types, PCs, Phases, registry, call,
       files, db
  <2>2. Phases' /\ KeysUnique'
    BY Zenon, <1>25 DEF LoopClose, Closing, CloseDatabase, Goto, Types, Phases, Running, KeysUnique,
       registry, call, files, db
  <2>3. GenerationsKnown' /\ ClosedForGood'
    BY <1>25 DEF LoopClose, Closing, CloseDatabase, Goto, Types, GenerationsKnown, Early, Late,
       ClosedForGood, registry, call, files, db
  <2>4. CancelledIsClean' /\ LoadsOnTarget'
    BY Zenon, <1>25 DEF LoopClose, Closing, CloseDatabase, Goto, Types, CancelledIsClean, Running,
       Phases, GenerationsKnown, Early, Late, ClosedForGood, LoadsOnTarget, registry, call,
       files, db
  <2> QED
    BY Zenon, <2>1, <2>2, <2>3, <2>4
<1>26. ASSUME NEW t \in Calls, CloseFails(t) PROVE IInv'
  <2>1. Types'
    BY Zenon, <1>26 DEF CloseFails, Closing, Settle, Goto, Types, PCs, Phases, registry, call, files,
       db
  <2>2. Phases' /\ KeysUnique'
    BY Zenon, <1>26 DEF CloseFails, Closing, Settle, Goto, Types, Phases, Running, KeysUnique,
       registry, call, files, db
  <2>3. GenerationsKnown' /\ ClosedForGood'
    BY Zenon, <1>26 DEF CloseFails, Closing, Settle, Goto, Types, GenerationsKnown, Early, Late,
       ClosedForGood, registry, call, files, db
  <2>4. CancelledIsClean' /\ LoadsOnTarget'
    BY Zenon, <1>26 DEF CloseFails, Closing, Settle, Goto, Types, CancelledIsClean, Running, Phases,
       GenerationsKnown, Early, Late, ClosedForGood, LoadsOnTarget, registry, call, files, db
  <2> QED
    BY Zenon, <2>1, <2>2, <2>3, <2>4
<1>27. ASSUME NEW t \in Calls, Finish(t) PROVE IInv'
  <2>1. Types'
    BY Zenon, <1>27 DEF Finish, Complete, Settle, Goto, Types, PCs, Phases, registry, call, files, db
  <2>2. Phases' /\ KeysUnique'
    BY <1>27 DEF Finish, Complete, Settle, Goto, Types, Phases, Running, KeysUnique, registry,
       call, files, db
  <2>3. GenerationsKnown' /\ ClosedForGood'
    BY Zenon, <1>27 DEF Finish, Complete, Settle, Goto, Types, GenerationsKnown, Early, Late,
       ClosedForGood, registry, call, files, db
  <2>4. CancelledIsClean' /\ LoadsOnTarget'
    BY <1>27 DEF Finish, Complete, Settle, Goto, Types, CancelledIsClean, Running, Phases,
       GenerationsKnown, Early, Late, ClosedForGood, LoadsOnTarget, registry, call, files, db
  <2> QED
    BY Zenon, <2>1, <2>2, <2>3, <2>4
<1>28. ASSUME NEW f \in Caches \cup {Binary}, ClientOpen(f) PROVE IInv'
  <2>1. Types'
    BY <1>28 DEF ClientOpen, OpenDatabase, Types, PCs, Phases, registry, call, files, db
  <2>2. Phases' /\ KeysUnique'
    BY Zenon, <1>28 DEF ClientOpen, OpenDatabase, Types, Phases, Running, KeysUnique, registry, call,
       files, db
  <2>3. GenerationsKnown' /\ ClosedForGood'
    BY <1>28 DEF ClientOpen, OpenDatabase, Types, GenerationsKnown, Early, Late, ClosedForGood,
       registry, call, files, db
  <2>4. CancelledIsClean' /\ LoadsOnTarget'
    BY <1>28 DEF ClientOpen, OpenDatabase, Types, CancelledIsClean, Running, Phases,
       GenerationsKnown, Early, Late, ClosedForGood, LoadsOnTarget, registry, call, files, db
  <2> QED
    BY Zenon, <2>1, <2>2, <2>3, <2>4
<1>29. ASSUME ClientClose PROVE IInv'
  <2>1. Types'
    BY Zenon, <1>29 DEF ClientClose, CloseDatabase, Types, PCs, Phases, registry, call, files, db
  <2>2. Phases' /\ KeysUnique'
    BY Zenon, <1>29 DEF ClientClose, CloseDatabase, Types, Phases, Running, KeysUnique, registry,
       call, files, db
  <2>3. GenerationsKnown' /\ ClosedForGood'
    BY <1>29 DEF ClientClose, CloseDatabase, Types, GenerationsKnown, Early, Late,
       ClosedForGood, registry, call, files, db
  <2>4. CancelledIsClean' /\ LoadsOnTarget'
    BY Zenon, <1>29 DEF ClientClose, CloseDatabase, Types, CancelledIsClean, Running, Phases,
       GenerationsKnown, Early, Late, ClosedForGood, LoadsOnTarget, registry, call, files, db
  <2> QED
    BY Zenon, <2>1, <2>2, <2>3, <2>4
<1>30. ASSUME UNCHANGED vars PROVE IInv'
  BY Zenon, <1>30 DEF vars, Types, Phases, Running, KeysUnique, GenerationsKnown, ClosedForGood,
     CancelledIsClean, LoadsOnTarget
<1> QED
  BY Zenon, <1>1, <1>2, <1>3, <1>4, <1>5, <1>6, <1>7, <1>8, <1>9, <1>10, <1>11, <1>12, <1>13, <1>14,
     <1>15, <1>16, <1>17, <1>18, <1>19, <1>20, <1>21, <1>22, <1>23, <1>24, <1>25, <1>26, <1>27, <1>28, <1>29, <1>30
     DEF Next, Step

LEMMA Invariance == Spec => []IInv
  BY InitIInv, StepIInv, PTL DEF Spec

\* A task that reports itself cancelled has no idat running and its database is
\* closed, wherever the cancellation caught it.
THEOREM CancelledTasksAreClean == Spec => []CancelledIsClean
  BY Invariance, PTL DEF IInv

\* Two idat never write the same .i64: create_keyed admits one running task per
\* cache, and a task runs until its idat has been reaped.
THEOREM OneIdatPerI64 == Spec => []OneWriterPerI64
<1>1. IInv => OneWriterPerI64
  BY Zenon DEF IInv, Phases, KeysUnique, OneWriterPerI64
<1> QED
  BY <1>1, Invariance, PTL

\* dsc_load_image_for_generation loads only into the database of its own cache,
\* also after its caller has given up on it.
THEOREM ImagesReachTheirTarget == Spec => []LoadsOnTarget
  BY Invariance, PTL DEF IInv

-----------------------------------------------------------------------------
(* HttpSessions (src/server/http_sessions.rs), for any number of sessions    *)
(* and streams: the count of a session's streams, and what a clean-up that   *)
(* closes a session knows.                                                   *)

HttpTypes ==
  /\ inner \in [SessionIds -> {"none", "open", "closed"}]
  /\ states \subseteq SessionIds
  /\ generation \in [SessionIds -> Nat]
  /\ active_streams \in [SessionIds -> Nat]
  /\ abandoned_generation \in [SessionIds -> Nat]
  /\ stream \in [Streams -> {"new", "created", "open", "ended", "dropped"}]
  /\ of \in [Streams -> SessionIds \cup {NoSession}]
  /\ guard \in [Streams -> Nat]
  /\ close_on_drop \in [Streams -> BOOLEAN]
  /\ cleanup \in [Streams -> {"none", "grace", "close", "forget", "done"}]
  /\ target \in [Streams -> Nat]
  /\ closing \in [SessionIds -> {"none", "forget", "done"}]

\* A stream and its clean-up belong to a session that was created.
Attached ==
  \A x \in Streams :
    /\ stream[x] # "new" => of[x] \in SessionIds /\ inner[of[x]] # "none"
    /\ stream[x] = "new" => cleanup[x] = "none"

\* A session without a state has no count and nobody who abandoned it; one that
\* does not exist yet has no count.
Registered ==
  \A s \in SessionIds :
    /\ s \notin states => active_streams[s] = 0 /\ abandoned_generation[s] = 0
    /\ inner[s] = "none" => active_streams[s] = 0

\* Whoever is about to forget a state has closed its session.
ClosedFirst ==
  /\ \A s \in SessionIds : closing[s] # "none" => inner[s] = "closed"
  /\ \A x \in Streams : cleanup[x] = "forget" => inner[of[x]] = "closed"

Counted ==
  \A s \in SessionIds :
    /\ IsFiniteSet(OpenStreams(s))
    /\ inner[s] = "open" => active_streams[s] = Cardinality(OpenStreams(s))

\* The standalone streams whose client dropped them,
DroppedStreams == {y \in Streams : close_on_drop[y] /\ stream[y] = "dropped"}

\* and a session that had one.
Abandoned(s) == \E y \in DroppedStreams : of[y] = s

\* Only that starts a clean-up.
AbandonedFirst ==
  /\ \A s \in SessionIds : abandoned_generation[s] # 0 => Abandoned(s)
  /\ \A x \in Streams : cleanup[x] \in {"grace", "close"} => Abandoned(of[x])

HttpInv == HttpTypes /\ Attached /\ Registered /\ ClosedFirst /\ Counted /\ AbandonedFirst

-----------------------------------------------------------------------------
\* At the start nothing exists and nothing is counted.
LEMMA InitHttpInv == HttpInit => HttpInv
<1> SUFFICES ASSUME HttpInit PROVE HttpInv
  BY Zenon
<1>1. HttpTypes /\ Attached /\ Registered /\ ClosedFirst /\ AbandonedFirst
  BY Zenon DEF HttpInit, HttpTypes, Attached, Registered, ClosedFirst, AbandonedFirst
<1>2. ASSUME NEW s \in SessionIds PROVE OpenStreams(s) = {}
  BY Zenon DEF HttpInit, OpenStreams
<1>3. Counted
  BY Zenon, <1>2, FS_EmptySet DEF HttpInit, Counted
<1> QED
  BY Zenon, <1>1, <1>3 DEF HttpInv

\* Forgetting the state of a session that is closed, or that has no stream left,
\* keeps the registry right: session_closed.
LEMMA ForgetState ==
  ASSUME HttpInv, NEW s \in SessionIds, SessionClosed(s),
         inner' = inner, stream' = stream, of' = of,
         inner[s] = "closed"
  PROVE  Registered' /\ Counted' /\ \A r \in SessionIds : abandoned_generation'[r] # 0 => Abandoned(r)
<1> USE DEF HttpInv
<1>1. Registered'
  BY Zenon DEF HttpTypes, Registered, SessionClosed
<1>2. \A r \in SessionIds : OpenStreams(r)' = OpenStreams(r)
  BY Zenon DEF OpenStreams
<1>3. Counted'
  BY Zenon, <1>2 DEF HttpTypes, Counted, SessionClosed
<1>4. \A r \in SessionIds : abandoned_generation'[r] # 0 => Abandoned(r)
  BY Zenon DEF HttpTypes, AbandonedFirst, SessionClosed
<1> QED
  BY Zenon, <1>1, <1>3, <1>4

\* A stream that was open ends or is dropped (stream_closed): the count follows,
\* whether the session has a state, a clean-up is spawned, or the state is
\* forgotten for lack of a runtime to spawn one on.
LEMMA StreamLeaves ==
  ASSUME HttpInv, NEW x \in Streams, NEW how \in {"ended", "dropped"}, NEW abandoned \in BOOLEAN,
         stream[x] = "open", stream' = [stream EXCEPT ![x] = how],
         abandoned => close_on_drop[x] /\ how = "dropped",
         StreamClosed(x, abandoned), UNCHANGED <<inner, guard, tracked, closing>>
  PROVE  HttpInv'
<1> USE DEF HttpInv
<1>1. PICK s \in SessionIds : s = of[x] /\ inner[s] # "none"
  BY Zenon DEF Attached
<1>2. /\ OpenStreams(s)' = OpenStreams(s) \ {x}
      /\ x \in OpenStreams(s)
      /\ DroppedStreams \subseteq DroppedStreams'
      /\ of' = of
  BY Zenon, <1>1 DEF HttpTypes, OpenStreams, DroppedStreams, tracked
<1>3. ASSUME NEW r \in SessionIds, r # s PROVE OpenStreams(r)' = OpenStreams(r)
  BY Zenon, <1>1, <1>3 DEF HttpTypes, OpenStreams, tracked
<1>4. /\ IsFiniteSet(OpenStreams(s)')
      /\ Cardinality(OpenStreams(s)') = Cardinality(OpenStreams(s)) - 1
      /\ Cardinality(OpenStreams(s)) \in Nat
  <2>1. IsFiniteSet(OpenStreams(s))
    BY Zenon, <1>1 DEF Counted
  <2> QED
    BY <2>1, <1>2, FS_RemoveElement, FS_CardinalityType
<1>5. inner[s] = "open" => s \in states /\ active_streams[s] = Cardinality(OpenStreams(s)) /\ active_streams[s] # 0
  <2> HAVE inner[s] = "open"
  <2>1. active_streams[s] = Cardinality(OpenStreams(s))
    BY Zenon, <1>1 DEF Counted
  <2>2. Cardinality(OpenStreams(s)) # 0
    BY Zenon, <1>1, <1>2, FS_EmptySet DEF Counted
  <2> QED
    BY Zenon, <1>1, <2>1, <2>2 DEF Registered
<1>6. HttpTypes' /\ Left(s) \in Nat /\ CloseGeneration(x, abandoned) \in Nat
  <2>1. Left(s) \in Nat
    BY <1>1 DEF HttpTypes, Left
  <2>2. CloseGeneration(x, abandoned) \in Nat
    BY Zenon, <1>1, <2>1 DEF HttpTypes, CloseGeneration
  <2> QED
    BY <1>1, <2>1, <2>2 DEF HttpTypes, StreamClosed, SessionClosed, disconnects, tracked
<1>7. Attached' /\ ClosedFirst'
  BY <1>1 DEF HttpTypes, Attached, ClosedFirst, StreamClosed, SessionClosed, disconnects, tracked
<1>8. abandoned => x \in DroppedStreams'
  BY Zenon DEF HttpTypes, DroppedStreams, tracked
\* The count is right if the session's is: the others keep theirs.
<1>9. ASSUME \A r \in SessionIds : r # s => active_streams'[r] = active_streams[r],
             inner[s] = "open" => active_streams'[s] = active_streams[s] - 1
      PROVE  Counted'
  <2> SUFFICES ASSUME NEW r \in SessionIds
               PROVE  /\ IsFiniteSet(OpenStreams(r)')
                      /\ inner[r] = "open" => active_streams'[r] = Cardinality(OpenStreams(r)')
    BY Zenon DEF Counted
  <2>1. CASE r = s
    BY Zenon, <2>1, <1>4, <1>5, <1>9
  <2>2. CASE r # s
    BY Zenon, <2>2, <1>3, <1>9 DEF Counted
  <2> QED
    BY Zenon, <2>1, <2>2
<1>10. CASE s \notin states
  <2>1. UNCHANGED <<disconnects, cleanup, target>>
    BY Zenon, <1>1, <1>10 DEF StreamClosed
  <2>2. Registered' /\ AbandonedFirst'
    BY Zenon, <2>1, <1>2 DEF HttpTypes, Registered, AbandonedFirst, Abandoned, disconnects
  <2>3. Counted'
    BY Zenon, <1>5, <1>9, <1>10, <2>1 DEF disconnects
  <2> QED
    BY Zenon, <1>6, <1>7, <2>2, <2>3
<1>11. CASE s \in states /\ active_streams' = [active_streams EXCEPT ![s] = Left(s)]
              /\ abandoned_generation' = [abandoned_generation EXCEPT ![s] = IF abandoned THEN guard[x] ELSE @]
              /\ target' = [target EXCEPT ![x] = CloseGeneration(x, abandoned)]
              /\ cleanup' = [cleanup EXCEPT ![x] = IF target'[x] = 0 THEN "none" ELSE "grace"]
              /\ UNCHANGED <<states, generation>>
  <2>1. Registered'
    BY Zenon, <1>1, <1>11 DEF HttpTypes, Registered, Left
  <2>2. Counted'
    BY Zenon, <1>5, <1>9, <1>11 DEF HttpTypes, Left
  <2>3. ASSUME NEW r \in SessionIds, abandoned_generation'[r] # 0 PROVE \E y \in DroppedStreams' : of[y] = r
    BY Zenon, <1>1, <1>2, <1>8, <1>11, <2>3 DEF HttpTypes, AbandonedFirst, Abandoned
  <2>4. ASSUME NEW y \in Streams, cleanup'[y] \in {"grace", "close"} PROVE \E z \in DroppedStreams' : of[z] = of[y]
    <3>1. CASE y # x
      BY Zenon, <1>2, <1>11, <2>4, <3>1 DEF HttpTypes, AbandonedFirst, Abandoned
    <3>2. CASE y = x
      <4>1. CloseGeneration(x, abandoned) # 0
        BY Zenon, <1>11, <2>4, <3>2 DEF HttpTypes
      <4>2. abandoned \/ abandoned_generation[s] # 0
        BY Zenon, <1>1, <4>1 DEF CloseGeneration
      <4> QED
        BY Zenon, <1>1, <1>2, <1>8, <3>2, <4>2 DEF AbandonedFirst, Abandoned
    <3> QED
      BY Zenon, <3>1, <3>2
  <2>5. AbandonedFirst'
    BY Zenon, <1>2, <2>3, <2>4 DEF AbandonedFirst, Abandoned
  <2> QED
    BY Zenon, <1>6, <1>7, <2>1, <2>2, <2>5
<1>12. CASE s \in states /\ CloseGeneration(x, abandoned) # 0 /\ SessionClosed(s) /\ UNCHANGED cleanup
  <2>1. Left(s) = 0
    BY Zenon, <1>1, <1>12 DEF CloseGeneration
  <2>2. Registered'
    BY Zenon, <1>1, <1>12 DEF HttpTypes, Registered, SessionClosed
  <2>3. Counted'
    BY Zenon, <1>5, <1>9, <1>12, <2>1 DEF HttpTypes, Left, SessionClosed
  <2>4. AbandonedFirst'
    BY Zenon, <1>1, <1>2, <1>12 DEF HttpTypes, AbandonedFirst, Abandoned, SessionClosed
  <2> QED
    BY Zenon, <1>6, <1>7, <2>2, <2>3, <2>4
<1> QED
  BY <1>1, <1>6, <1>10, <1>11, <1>12 DEF StreamClosed, HttpTypes

-----------------------------------------------------------------------------
\* Every step of the session manager, its streams and its clean-up tasks keeps
\* the invariant.
LEMMA StepHttpInv == HttpInv /\ [HttpNext]_httpVars => HttpInv'
<1> SUFFICES ASSUME HttpInv, [HttpNext]_httpVars PROVE HttpInv'
  BY Zenon
<1> USE DEF HttpInv
<1>1. ASSUME NEW s \in SessionIds, CreateSession(s) PROVE HttpInv'
  <2>1. OpenStreams(s) = {} /\ active_streams[s] = 0
    BY Zenon, <1>1 DEF CreateSession, OpenStreams, Attached, Registered
  <2>2. ASSUME NEW r \in SessionIds PROVE OpenStreams(r)' = OpenStreams(r)
    BY Zenon, <1>1 DEF CreateSession, OpenStreams, tracked
  <2>3. Counted'
    BY Zenon, <1>1, <2>1, <2>2, FS_EmptySet DEF CreateSession, disconnects, HttpTypes, Counted
  <2>4. HttpTypes' /\ Attached' /\ Registered' /\ ClosedFirst' /\ AbandonedFirst'
    BY <1>1 DEF CreateSession, disconnects, tracked, HttpTypes, Attached, Registered, ClosedFirst,
                AbandonedFirst, Abandoned, DroppedStreams
  <2> QED
    BY Zenon, <2>3, <2>4
<1>2. ASSUME NEW s \in SessionIds, CloseSession(s) PROVE HttpInv'
  <2>1. ASSUME NEW r \in SessionIds PROVE OpenStreams(r)' = OpenStreams(r)
    BY Zenon, <1>2 DEF CloseSession, OpenStreams, tracked
  <2>2. Counted'
    BY Zenon, <1>2, <2>1 DEF CloseSession, disconnects, HttpTypes, Counted
  <2>3. HttpTypes' /\ Attached' /\ Registered' /\ ClosedFirst' /\ AbandonedFirst'
    BY <1>2 DEF CloseSession, disconnects, tracked, HttpTypes, Attached, Registered, ClosedFirst,
                AbandonedFirst, Abandoned, DroppedStreams
  <2> QED
    BY Zenon, <2>2, <2>3
<1>3. ASSUME NEW s \in SessionIds, FinishClose(s) PROVE HttpInv'
  <2>1. HttpTypes' /\ Attached' /\ ClosedFirst' /\ inner[s] = "closed"
    BY <1>3 DEF FinishClose, SessionClosed, disconnects, tracked, HttpTypes, Attached, ClosedFirst
  <2>2. DroppedStreams' = DroppedStreams /\ of' = of /\ cleanup' = cleanup
    BY Zenon, <1>3 DEF FinishClose, tracked, DroppedStreams
  <2>3. CASE SessionClosed(s)
    <3>1. Registered' /\ Counted' /\ \A r \in SessionIds : abandoned_generation'[r] # 0 => Abandoned(r)
      BY Zenon, <1>3, <2>1, <2>3, ForgetState DEF FinishClose, tracked
    <3> QED
      BY Zenon, <2>1, <2>2, <3>1 DEF AbandonedFirst, Abandoned
  <2>4. CASE UNCHANGED disconnects
    <3>1. ASSUME NEW r \in SessionIds PROVE OpenStreams(r)' = OpenStreams(r)
      BY Zenon, <1>3 DEF FinishClose, OpenStreams, tracked
    <3>2. Counted'
      BY Zenon, <1>3, <2>4, <3>1 DEF FinishClose, disconnects, Counted
    <3> QED
      BY Zenon, <1>3, <2>1, <2>2, <2>4, <3>2 DEF FinishClose, disconnects, Registered, AbandonedFirst,
         Abandoned
  <2> QED
    BY Zenon, <1>3, <2>3, <2>4 DEF FinishClose
<1>4. ASSUME NEW x \in Streams, NEW s \in SessionIds, CreateStream(x, s) PROVE HttpInv'
  <2>1. ASSUME NEW r \in SessionIds PROVE OpenStreams(r)' = OpenStreams(r)
    BY Zenon, <1>4 DEF CreateStream, HttpTypes, OpenStreams
  <2>2. Counted'
    BY Zenon, <1>4, <2>1 DEF CreateStream, disconnects, Counted
  <2>3. HttpTypes' /\ Attached' /\ Registered' /\ ClosedFirst'
    BY <1>4 DEF CreateStream, disconnects, HttpTypes, Attached, Registered, ClosedFirst
  <2>4. DroppedStreams' = DroppedStreams /\ x \notin DroppedStreams
    BY Zenon, <1>4 DEF CreateStream, HttpTypes, DroppedStreams
  <2>5. \A y \in Streams : y # x => of'[y] = of[y]
    BY Zenon, <1>4 DEF CreateStream, HttpTypes
  <2>6. AbandonedFirst'
    BY <1>4, <2>4, <2>5 DEF CreateStream, disconnects, Attached, AbandonedFirst, Abandoned, DroppedStreams
  <2> QED
    BY Zenon, <2>2, <2>3, <2>6
<1>5. ASSUME NEW x \in Streams, TrackStream(x) PROVE HttpInv'
  <2>1. PICK s \in SessionIds : s = of[x] /\ inner[s] # "none"
    BY Zenon, <1>5 DEF TrackStream, Attached
  <2>2. OpenStreams(s)' = OpenStreams(s) \cup {x} /\ x \notin OpenStreams(s)
    BY Zenon, <1>5, <2>1 DEF TrackStream, tracked, HttpTypes, OpenStreams
  <2>3. ASSUME NEW r \in SessionIds, r # s PROVE OpenStreams(r)' = OpenStreams(r)
    BY Zenon, <1>5, <2>1, <2>3 DEF TrackStream, tracked, HttpTypes, OpenStreams
  <2>4. IsFiniteSet(OpenStreams(s)') /\ Cardinality(OpenStreams(s)') = Cardinality(OpenStreams(s)) + 1
    BY <2>1, <2>2, FS_AddElement DEF Counted
  <2>5. Counted'
    <3> SUFFICES ASSUME NEW r \in SessionIds
                 PROVE  /\ IsFiniteSet(OpenStreams(r)')
                        /\ inner[r] = "open" => active_streams'[r] = Cardinality(OpenStreams(r)')
      BY Zenon, <1>5 DEF TrackStream, Counted
    <3>1. CASE r = s
      BY Zenon, <1>5, <2>1, <2>4, <3>1 DEF TrackStream, StreamOpened, HttpTypes, Counted
    <3>2. CASE r # s
      BY Zenon, <1>5, <2>1, <2>3, <3>2 DEF TrackStream, StreamOpened, HttpTypes, Counted
    <3> QED
      BY Zenon, <3>1, <3>2
  <2>6. HttpTypes' /\ Attached' /\ Registered' /\ ClosedFirst'
    BY <1>5, <2>1 DEF TrackStream, StreamOpened, tracked, HttpTypes, Attached, Registered,
       ClosedFirst
  <2>7. DroppedStreams' = DroppedStreams
    BY Zenon, <1>5 DEF TrackStream, tracked, HttpTypes, DroppedStreams
  <2>8. AbandonedFirst'
    BY Zenon, <1>5, <2>1, <2>7 DEF TrackStream, StreamOpened, tracked, HttpTypes, AbandonedFirst, Abandoned
  <2> QED
    BY Zenon, <2>5, <2>6, <2>8
<1>6. ASSUME NEW x \in Streams, EndStream(x) PROVE HttpInv'
  BY Zenon, <1>6, StreamLeaves DEF EndStream
<1>7. ASSUME NEW x \in Streams, DropStream(x) PROVE HttpInv'
  <2>1. close_on_drop[x] \in BOOLEAN
    BY Zenon DEF HttpTypes
  <2> QED
    BY Zenon, <1>7, <2>1, StreamLeaves DEF DropStream
<1>8. ASSUME NEW x \in Streams, GraceOver(x) PROVE HttpInv'
  <2>1. ASSUME NEW r \in SessionIds PROVE OpenStreams(r)' = OpenStreams(r)
    BY Zenon, <1>8 DEF GraceOver, OpenStreams, tracked
  <2>2. Counted'
    BY Zenon, <1>8, <2>1 DEF GraceOver, disconnects, Counted
  <2>3. HttpTypes' /\ Attached' /\ Registered' /\ ClosedFirst' /\ AbandonedFirst'
    BY <1>8 DEF GraceOver, disconnects, tracked, HttpTypes, Attached, Registered, ClosedFirst,
                AbandonedFirst, Abandoned, DroppedStreams
  <2> QED
    BY Zenon, <2>2, <2>3
<1>9. ASSUME NEW x \in Streams, CleanupCloses(x) PROVE HttpInv'
  <2>1. ASSUME NEW r \in SessionIds PROVE OpenStreams(r)' = OpenStreams(r)
    BY Zenon, <1>9 DEF CleanupCloses, OpenStreams, tracked
  <2>2. of[x] \in SessionIds
    BY Zenon, <1>9 DEF CleanupCloses, HttpTypes, Attached
  <2>3. Counted'
    BY Zenon, <1>9, <2>1, <2>2 DEF CleanupCloses, disconnects, HttpTypes, Counted
  <2>4. HttpTypes' /\ Attached' /\ Registered' /\ ClosedFirst' /\ AbandonedFirst'
    BY <1>9, <2>2 DEF CleanupCloses, disconnects, tracked, HttpTypes, Attached, Registered,
       ClosedFirst,
                AbandonedFirst, Abandoned, DroppedStreams
  <2> QED
    BY Zenon, <2>3, <2>4
<1>10. ASSUME NEW x \in Streams, CleanupForgets(x) PROVE HttpInv'
  <2>1. PICK s \in SessionIds : s = of[x] /\ inner[s] = "closed"
    BY Zenon, <1>10 DEF CleanupForgets, HttpTypes, Attached, ClosedFirst
  <2>2. HttpTypes' /\ Attached' /\ ClosedFirst'
    BY Zenon, <1>10, <2>1 DEF CleanupForgets, SessionClosed, tracked, HttpTypes, Attached, ClosedFirst
  <2>3. Registered' /\ Counted' /\ \A r \in SessionIds : abandoned_generation'[r] # 0 => Abandoned(r)
    BY Zenon, <1>10, <2>1, ForgetState DEF CleanupForgets, tracked
  <2>4. AbandonedFirst'
    BY <1>10, <2>3 DEF CleanupForgets, tracked, HttpTypes, AbandonedFirst, Abandoned, DroppedStreams
  <2> QED
    BY Zenon, <2>2, <2>3, <2>4
<1>11. ASSUME UNCHANGED httpVars PROVE HttpInv'
  <2>1. ASSUME NEW r \in SessionIds PROVE OpenStreams(r)' = OpenStreams(r)
    BY Zenon, <1>11 DEF httpVars, OpenStreams
  <2>2. Counted'
    BY Zenon, <1>11, <2>1 DEF httpVars, Counted
  <2>3. HttpTypes' /\ Attached' /\ Registered' /\ ClosedFirst' /\ AbandonedFirst'
    BY <1>11 DEF httpVars, HttpTypes, Attached, Registered, ClosedFirst, AbandonedFirst, Abandoned,
       DroppedStreams
  <2> QED
    BY Zenon, <2>2, <2>3
<1> QED
  BY Zenon, <1>1, <1>2, <1>3, <1>4, <1>5, <1>6, <1>7, <1>8, <1>9, <1>10, <1>11 DEF HttpNext, Cleanup

LEMMA HttpInvariance == HttpSpec => []HttpInv
  BY InitHttpInv, StepHttpInv, PTL DEF HttpSpec

\* active_streams is the number of streams of an open session, for any number
\* of sessions, streams and clean-ups under way.
THEOREM StreamsAreCounted == HttpSpec => []CountsStreams
<1>1. HttpInv => CountsStreams
  BY Zenon DEF HttpInv, Counted, CountsStreams
<1> QED
  BY <1>1, HttpInvariance, PTL

\* A clean-up that closes a session has a dropped standalone stream to show for
\* it: a dropped POST response closes nothing.
THEOREM OnlyStandaloneStreamsClose == HttpSpec => []PostsCloseNothing
<1>1. HttpInv => PostsCloseNothing
  BY Zenon DEF HttpInv, AbandonedFirst, Abandoned, DroppedStreams, PostsCloseNothing
<1> QED
  BY <1>1, HttpInvariance, PTL

\* The decision to close an open session (should_close_abandoned_session) is
\* taken only while none of its streams is open.
THEOREM ReconnectingClientsAreSeen == HttpSpec => DecidesOnQuiet
<1> DEFINE Quiet == \A x \in Streams : cleanup[x] = "grace" /\ cleanup'[x] = "close" /\ inner[of[x]] = "open" =>
                      OpenStreams(of[x]) = {}
<1>1. HttpInv /\ [HttpNext]_httpVars => [Quiet]_httpVars
  <2> SUFFICES ASSUME HttpInv, HttpNext, NEW x \in Streams,
                      cleanup[x] = "grace", cleanup'[x] = "close", inner[of[x]] = "open"
               PROVE  OpenStreams(of[x]) = {}
    BY Zenon
  <2> USE DEF HttpInv, HttpTypes
  <2>1. ASSUME cleanup' = cleanup PROVE FALSE
    BY Zenon, <2>1
  <2>2. ASSUME NEW y \in Streams, NEW c, cleanup' = [cleanup EXCEPT ![y] = c], c # "close" PROVE FALSE
    BY Zenon, <2>2
  <2>3. ASSUME NEW y \in Streams, NEW abandoned, StreamClosed(y, abandoned) PROVE FALSE
    BY Zenon, <2>1, <2>2, <2>3 DEF StreamClosed
  <2>4. PICK y \in Streams : Cleanup(y)
    BY Zenon, <2>1, <2>3 DEF HttpNext, CreateSession, CloseSession, FinishClose, CreateStream,
       TrackStream, EndStream, DropStream
  <2>5. GraceOver(y)
    BY Zenon, <2>2, <2>4 DEF Cleanup, CleanupCloses, CleanupForgets
  <2>6. ShouldClose(x)
    BY Zenon, <2>5 DEF GraceOver
  <2>7. PICK s \in SessionIds : s = of[x] /\ active_streams[s] = 0
    BY Zenon, <2>6 DEF ShouldClose, HttpInv, HttpTypes
  <2>8. IsFiniteSet(OpenStreams(s)) /\ Cardinality(OpenStreams(s)) = 0
    BY Zenon, <2>7 DEF HttpInv, Counted
  <2> QED
    BY Zenon, <2>7, <2>8, FS_EmptySet
<1> QED
  BY <1>1, HttpInvariance, PTL DEF HttpSpec, DecidesOnQuiet

=============================================================================
