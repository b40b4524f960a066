----------------------------- MODULE ToolCalls -----------------------------
(***************************************************************************)
(* Tool calls over one open database: the handlers of a worker's server,   *)
(* each a script of awaits (ToolScripts), in front of the IDA loop's       *)
(* bounded channel.                                                        *)
(*                                                                         *)
(* Calls reach the server one at a time when the supervisor's pool is in   *)
(* front of it (it holds the worker's call_lock for the whole call), and   *)
(* concurrently when a client talks to a bare `worker` over stdio.  A      *)
(* background analysis task runs beside the calls in both cases.           *)
(*                                                                         *)
(* A step of a call is what its task does between two awaits.  The loop    *)
(* serves one request per step; the oneshot answer and the caller's        *)
(* reaction to it are one step with it, because nothing else can see       *)
(* between them.  A timeout that races the answer is the loop's outcome    *)
(* "late": the request ran, the caller was told it timed out.              *)
(***************************************************************************)
EXTENDS ToolScripts

CONSTANTS
    Callers,    \* tasks of the server that can each run one call at a time
    Task,       \* the background analysis task
    Capacity,   \* of the loop's channel
    Longest     \* per caller: the length of the scripts it runs at most

\* Whose a request is that nobody waits for any more.
Nobody == "nobody"

ASSUME CallsAssumption ==
    /\ Task \notin Callers
    /\ Nobody \notin Callers \cup {Task}
    /\ Capacity \in Nat \ {0}
    /\ Longest \in [Callers -> Nat]

VARIABLES
    serial,     \* whether calls come through the pool's call_lock
    health,     \* "ok"; "caught" a crash, retiring; "dead"
    analysed,   \* auto-analysis has settled
    queue,      \* the channel to the IDA loop
    todo,       \* per actor: the rest of its script
    pc,         \* per actor: "idle", "run" or "wait"
    badge,      \* per caller: "complete" when the reply's badge says so
    partial,    \* history, per caller: it read a database still analysing
    view        \* history, per caller behind the lock: has it read,
                \* did the database move since, did it read again

vars == <<serial, health, analysed, queue, todo, pc, badge, partial, view>>

Actors == Callers \cup {Task}
\* "none" is no badge yet and also one that claims nothing (partial or
\* unknown); "void" is a complete one after somebody else's edit.
Badges == {"none", "complete", "void"}

Requests == [wait : {Timed, Waits, Cancellable},
             effect : {"read", "edit", "analyse"},
             guarded : BOOLEAN,
             name : {"read", "edit", "analyse"} \cup DOMAIN Calls]
Steps == [do : {"ask", "sample", "spawn"}, req : Requests, ends : BOOLEAN,
          skip : Nat]
Entries == [by : Actors \cup {Nobody}, req : Requests, cancelled : BOOLEAN]

TypeOK ==
    /\ serial \in BOOLEAN /\ analysed \in BOOLEAN
    /\ health \in {"ok", "caught", "dead"}
    /\ queue \in Seq(Entries) /\ Len(queue) <= Capacity
    /\ todo \in [Actors -> Seq(Steps)]
    /\ pc \in [Actors -> {"idle", "run", "wait"}]
    /\ badge \in [Callers -> Badges]
    /\ partial \in [Callers -> BOOLEAN]
    /\ view \in [Callers -> {"none", "one", "moved", "torn"}]

Init ==
    /\ serial \in BOOLEAN
    /\ analysed \in BOOLEAN
    /\ health = "ok"
    /\ queue = <<>>
    /\ todo = [a \in Actors |-> <<>>]
    /\ pc = [a \in Actors |-> "idle"]
    /\ badge = [c \in Callers |-> "none"]
    /\ partial = [c \in Callers |-> FALSE]
    /\ view = [c \in Callers |-> "none"]

---------------------------------------------------------------------------
(* Moving along a script.                                                  *)

Advance(a, n) ==
    /\ todo' = [todo EXCEPT ![a] = SubSeq(@, n + 1, Len(@))]
    /\ pc' = [pc EXCEPT ![a] = IF Len(todo[a]) = n THEN "idle" ELSE "run"]

End(a) ==
    /\ todo' = [todo EXCEPT ![a] = <<>>]
    /\ pc' = [pc EXCEPT ![a] = "idle"]

\* The error of the request at hand, as the handler treats it.
Failed(a) ==
    LET step == Head(todo[a])
    IN  IF step.ends THEN End(a) ELSE Advance(a, 1 + step.skip)

---------------------------------------------------------------------------
(* The calls.                                                              *)

\* As if the pool let a second call through.
BeginUnlocked(c) ==
    /\ health # "dead"
    /\ pc[c] = "idle"
    /\ \E tool \in Tools : \E script \in tool.scripts :
           /\ Len(script) \in 1 .. Longest[c]
           /\ todo' = [todo EXCEPT ![c] = script]
    /\ pc' = [pc EXCEPT ![c] = "run"]
    /\ badge' = [badge EXCEPT ![c] = "none"]
    /\ partial' = [partial EXCEPT ![c] = FALSE]
    /\ view' = [view EXCEPT ![c] = "none"]
    /\ UNCHANGED <<serial, health, analysed, queue>>

Begin(c) ==
    /\ health # "dead"
    /\ pc[c] = "idle"
    /\ serial => \A d \in Callers : pc[d] = "idle"
    /\ \E tool \in Tools : \E script \in tool.scripts :
           /\ Len(script) \in 1 .. Longest[c]
           /\ todo' = [todo EXCEPT ![c] = script]
    /\ pc' = [pc EXCEPT ![c] = "run"]
    /\ badge' = [badge EXCEPT ![c] = "none"]
    /\ partial' = [partial EXCEPT ![c] = FALSE]
    /\ view' = [view EXCEPT ![c] = "none"]
    /\ UNCHANGED <<serial, health, analysed, queue>>

Running(a, what) ==
    health # "dead" /\ pc[a] = "run" /\ Head(todo[a]).do \in what

\* try_send: a full channel is an error of the request, nothing waits for
\* room.
Send(a) ==
    /\ Running(a, {"ask", "sample"})
    /\ \/ /\ Len(queue) < Capacity
          /\ queue' = Append(queue, [by |-> a, req |-> Head(todo[a]).req,
                                     cancelled |-> FALSE])
          /\ pc' = [pc EXCEPT ![a] = "wait"]
          /\ UNCHANGED todo
       \/ /\ Len(queue) = Capacity
          /\ Failed(a)
          /\ UNCHANGED queue
    /\ UNCHANGED <<serial, health, analysed, badge, partial, view>>

\* create_keyed refuses a second analysis; either way the call is answered.
SpawnAnalysis(c) ==
    /\ Running(c, {"spawn"})
    /\ \/ /\ pc[Task] = "idle"
          /\ todo' = [todo EXCEPT ![c] = <<>>,
                                  ![Task] = <<Ask("AnalyzeFuncs", "entry")>>]
          /\ pc' = [pc EXCEPT ![c] = "idle", ![Task] = "run"]
       \/ /\ pc[Task] # "idle"
          /\ End(c)
    /\ UNCHANGED <<serial, health, analysed, queue, badge, partial, view>>

\* The request an actor waits for; one it no longer waits for is Nobody's.
Pending(a) == {i \in DOMAIN queue : queue[i].by = a}

\* A request as it stays behind; a foreground operation (or the client's
\* cancellation of it) cancels the token before it leaves.
LeftBehind(e) ==
    [by |-> Nobody, req |-> e.req,
     cancelled |-> e.cancelled \/ e.req.wait = Cancellable]

\* recv_with_timeout gives up and drops the receiver.
TimeOut(c) ==
    /\ health # "dead"
    /\ pc[c] = "wait"
    /\ Head(todo[c]).req.wait # Waits
    /\ \E i \in Pending(c) : queue' = [queue EXCEPT ![i] = LeftBehind(@)]
    /\ Failed(c)
    /\ UNCHANGED <<serial, health, analysed, badge, partial, view>>

\* A task's token is cancelled; the task still waits for the loop's answer.
CancelTask ==
    /\ health # "dead"
    /\ \E i \in Pending(Task) :
           /\ ~queue[i].cancelled
           /\ queue' = [queue EXCEPT ![i] = [by |-> Task, req |-> @.req,
                                             cancelled |-> TRUE]]
    /\ UNCHANGED <<serial, health, analysed, todo, pc, badge, partial, view>>

---------------------------------------------------------------------------
(* The loop.                                                               *)

\* What running a request does to the analysis: any call into IDA lets the
\* auto-analysis settle, an edit may give it work again.
Ran(req) ==
    analysed' \in CASE req.effect = "read"    -> {analysed, TRUE}
                    [] req.effect = "edit"    -> BOOLEAN
                    [] req.effect = "analyse" -> {TRUE}

\* The reply of the call has a complete badge, or may still get one.
Badged(c) ==
    \/ badge[c] = "complete"
    \/ \E i \in DOMAIN todo[c] : todo[c][i].do = "sample"

\* What the callers' replies are worth after request req of actor a ran.
\* The task's analysis is announced as running beside the calls, so only
\* the edits of calls count as the database moving.
Witness(a, req) ==
    /\ partial' = [c \in Callers |->
           \/ partial[c]
           \/ c = a /\ Head(todo[c]).do = "ask" /\ ~analysed /\ Badged(c)]
    /\ view' = [c \in Callers |->
           IF ~serial THEN "none"
           ELSE CASE c = a /\ req.effect = "read" /\ Head(todo[c]).do = "ask" ->
                       IF view[c] \in {"moved", "torn"} THEN "torn" ELSE "one"
                  [] c # a /\ pc[c] # "idle" /\ req.effect = "edit"
                       /\ view[c] = "one" -> "moved"
                  [] OTHER -> view[c]]

\* An edit made on somebody else's behalf voids what a badge says.
Voided(a, req, b) ==
    [c \in Callers |-> IF /\ c # a /\ pc[c] # "idle"
                          /\ req.effect = "edit" /\ b[c] = "complete"
                       THEN "void" ELSE b[c]]

\* The request ran and its caller, if there still is one, got the answer.
Answer ==
    LET e == Head(queue)
    IN  /\ health = "ok" /\ queue # <<>> /\ ~e.cancelled
        /\ queue' = Tail(queue)
        /\ Ran(e.req) /\ Witness(e.by, e.req)
        /\ \/ /\ e.by = Nobody
              /\ badge' = Voided(e.by, e.req, badge)
              /\ UNCHANGED <<todo, pc>>
           \/ /\ e.by \in Actors
              /\ Advance(e.by, 1)
              /\ badge' = Voided(e.by, e.req,
                     IF Head(todo[e.by]).do = "sample"
                         /\ analysed
                     THEN [badge EXCEPT ![e.by] = "complete"]
                     ELSE badge)
        /\ UNCHANGED <<serial, health>>

\* It ran, but the timeout of a caller that does not wait for good won.
Late ==
    LET e == Head(queue)
    IN  /\ health = "ok" /\ queue # <<>> /\ ~e.cancelled
        /\ e.by \in Callers /\ e.req.wait # Waits
        /\ queue' = Tail(queue)
        /\ Ran(e.req) /\ Witness(e.by, e.req)
        /\ Failed(e.by)
        /\ badge' = Voided(e.by, e.req, badge)
        /\ UNCHANGED <<serial, health>>

\* As if the arm dropped the responder's error on the floor.
RefuseUnanswered ==
    /\ health # "dead" /\ queue # <<>>
    /\ queue' = Tail(queue)
    /\ UNCHANGED <<serial, health, analysed, todo, pc, badge, partial, view>>

\* Taken off the channel without an effect: the handler failed, the token
\* was cancelled before it started, or an earlier crash retired the loop.
Refuse ==
    LET e == Head(queue)
    IN  /\ health # "dead" /\ queue # <<>>
        /\ queue' = Tail(queue)
        /\ \/ e.by = Nobody /\ UNCHANGED <<todo, pc>>
           \/ e.by \in Actors /\ Failed(e.by)
        /\ UNCHANGED <<serial, health, analysed, badge, partial, view>>

\* The handler crashed: under crash_guarded the caller gets an error and the
\* loop answers nothing else again, bare it takes the process with it.
Crash ==
    LET e == Head(queue)
    IN  /\ health = "ok" /\ queue # <<>> /\ ~e.cancelled
        /\ \/ /\ e.req.guarded
              /\ health' = "caught"
              /\ queue' = Tail(queue)
              /\ \/ e.by = Nobody /\ UNCHANGED <<todo, pc>>
                 \/ e.by \in Actors /\ Failed(e.by)
           \/ /\ ~e.req.guarded
              /\ health' = "dead"
              /\ UNCHANGED <<queue, todo, pc>>
        /\ UNCHANGED <<serial, analysed, badge, partial, view>>

\* The retiring process ends, or the pool kills the worker: on its own
\* timeout, when the client cancels, when a reply says it is beyond use.
Die ==
    /\ health # "dead"
    /\ health' = "dead"
    /\ UNCHANGED <<serial, analysed, queue, todo, pc, badge, partial, view>>

Gone ==
    health = "dead" /\ UNCHANGED vars

Serve == Answer \/ Late \/ Refuse \/ Crash

Next ==
    \/ \E c \in Callers :
           Begin(c) \/ SpawnAnalysis(c) \/ TimeOut(c)
    \/ \E a \in Actors : Send(a)
    \/ CancelTask
    \/ Serve
    \/ Die \/ Gone

Spec == Init /\ [][Next]_vars

---------------------------------------------------------------------------
(* Properties.                                                             *)

\* A badge that says "complete" is true of everything in the reply: unless
\* an edit of somebody else came between the sample and the end of the call,
\* no request of the call read a database whose analysis was unfinished.
\* It is why analysis_coverage() is sampled before the read it describes.
CoverageHolds ==
    \A c \in Callers : ~(badge[c] = "complete" /\ partial[c])

\* Behind the pool's call_lock a composite tool reads one database: no edit
\* of another call, not even of one that timed out and left its request in
\* the channel, comes between two of its reads or voids its badge.
CallsSeeOneDatabase ==
    serial => \A c \in Callers : view[c] # "torn" /\ badge[c] # "void"

\* An edit whose caller has gone is never waiting to be made, so a call that
\* was answered is not changing the database any more, but for the three
\* edits that are sent with a timeout and without a token: put_int and the
\* two shared cache loads.
EditsAreAwaited ==
    \A i \in DOMAIN queue :
        LET e == queue[i]
        IN  e.by = Nobody /\ e.req.effect # "read" /\ ~e.cancelled
                => e.req.name \in {"PutInt", "DscLoadImage", "DscLoadRegion"}

\* Nobody waits for an answer that cannot come: whoever is in an await has
\* exactly one request in the channel whose responder is theirs, and nobody
\* else has one.  A full channel, a timeout, a cancelled task and a caught
\* crash all end the await they interrupt, and a late answer finds no one.
NoLostWait ==
    health # "dead" =>
        \A a \in Actors :
            IF pc[a] = "wait" THEN \E i \in DOMAIN queue : Pending(a) = {i}
                              ELSE Pending(a) = {}
=============================================================================
