------------------------------ MODULE Leasing ------------------------------
(***************************************************************************)
(* What the worker pool (src/ida/pool.rs) promises the sessions that share *)
(* its workers, without tasks, locks, processes, timers or capacity: a     *)
(* worker serves one session at a time, goes to the next one only after    *)
(* the last has let go of it and its database is closed, and is never used *)
(* again once it is dead.  WorkerPool implements this specification.       *)
(***************************************************************************)
CONSTANTS
  Ids,        \* workers
  Sessions,   \* database sessions
  NoSession,
  NoWorker

VARIABLES
  slot,       \* slot[w]: ChildState
  holder,     \* holder[w]: the session a Leased slot is for
  grant,      \* grant[s]: the worker s may send requests to
  dirty       \* dirty[w]: a database is open in w

vars == <<slot, holder, grant, dirty>>

Init ==
  /\ slot = [w \in Ids |-> "None"]
  /\ holder = [w \in Ids |-> NoSession]
  /\ grant = [s \in Sessions |-> NoWorker]
  /\ dirty = [w \in Ids |-> FALSE]

\* A new worker, for whoever comes.
Add(w) ==
  /\ slot[w] = "None"
  /\ slot' = [slot EXCEPT ![w] = "Idle"]
  /\ UNCHANGED <<holder, grant, dirty>>

\* A new or an idle worker, without a database, becomes the session's.
Grant(w, s) ==
  /\ slot[w] \in {"None", "Idle"} /\ ~dirty[w]
  /\ grant[s] = NoWorker /\ \A r \in Sessions : grant[r] # w
  /\ slot' = [slot EXCEPT ![w] = "Leased"]
  /\ holder' = [holder EXCEPT ![w] = s]
  /\ grant' = [grant EXCEPT ![s] = w]
  /\ UNCHANGED dirty

\* Only a session that has the worker opens a database in it.
Open(s) ==
  /\ grant[s] # NoWorker
  /\ dirty' = [dirty EXCEPT ![grant[s]] = TRUE]
  /\ UNCHANGED <<slot, holder, grant>>

\* The session lets go: it closes, fails to open, or learns that the worker is
\* dead.  What becomes of an open that was under way is not known.
Leave(s) ==
  /\ grant[s] # NoWorker
  /\ grant' = [grant EXCEPT ![s] = NoWorker]
  /\ dirty' \in {dirty} \cup {[dirty EXCEPT ![grant[s]] = b] : b \in BOOLEAN}
  /\ UNCHANGED <<slot, holder>>

\* The pool closes the database of a worker no session has any more.
Close(w) ==
  /\ slot[w] = "Leased" /\ \A s \in Sessions : grant[s] # w
  /\ slot' = [slot EXCEPT ![w] = "Closing"]
  /\ holder' = [holder EXCEPT ![w] = NoSession]
  /\ UNCHANGED <<grant, dirty>>

\* The database is closed: the worker may be leased again.
Return(w) ==
  /\ slot[w] = "Closing"
  /\ slot' = [slot EXCEPT ![w] = "Idle"]
  /\ dirty' = [dirty EXCEPT ![w] = FALSE]
  /\ UNCHANGED <<holder, grant>>

\* The worker is given up for good, whoever has it.
Retire(w) ==
  /\ slot[w] # "Dead"
  /\ slot' = [slot EXCEPT ![w] = "Dead"]
  /\ holder' = [holder EXCEPT ![w] = NoSession]
  /\ UNCHANGED <<grant, dirty>>

\* Its database is closed, or goes with its process.
Empty(w) ==
  /\ dirty' = [dirty EXCEPT ![w] = FALSE]
  /\ UNCHANGED <<slot, holder, grant>>

Next ==
  \/ \E w \in Ids : Add(w) \/ Close(w) \/ Return(w) \/ Retire(w) \/ Empty(w)
  \/ \E w \in Ids, s \in Sessions : Grant(w, s)
  \/ \E s \in Sessions : Open(s) \/ Leave(s)

Spec == Init /\ [][Next]_vars
=============================================================================
