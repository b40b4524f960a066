---------------------------- MODULE HttpSessions ----------------------------
(***************************************************************************)
(* PooledSessionManager (src/server/http_sessions.rs): HTTP sessions that  *)
(* are closed when their client drops its standalone stream.               *)
(*                                                                         *)
(* A stream is a POST response or a standalone SSE stream; the clean-up    *)
(* task that stream_closed spawns is named after the stream.  A step is    *)
(* what happens under the states mutex, or inside rmcp's session store.    *)
(***************************************************************************)
EXTENDS Integers, FiniteSets

CONSTANTS
  SessionIds, \* sessions the clients open
  Streams,    \* streams they open on them, each once
  NoSession

VARIABLES
  inner,      \* rmcp's LocalSessionManager: is the session open?
  states,     \* the sessions that have a SessionDisconnectState
  generation, active_streams, abandoned_generation,  \* its fields
  stream,     \* where each TrackedSessionStream is
  of,         \* the session of each stream
  guard,      \* the generation in each stream's SessionStreamGuard
  close_on_drop,
  cleanup,    \* where each clean-up task is
  target,     \* close_generation of each clean-up task
  closing     \* where close_session of each session is

disconnects == <<states, generation, active_streams, abandoned_generation>>
tracked == <<of, close_on_drop>>
httpVars == <<inner, states, generation, active_streams, abandoned_generation,
          stream, of, guard, close_on_drop, cleanup, target, closing>>

MaxGeneration == Cardinality(Streams)

\* Types; active_streams counts no stream twice.
HttpTypeOK ==
  /\ inner \in [SessionIds -> {"none", "open", "closed"}]
  /\ states \subseteq SessionIds
  /\ generation \in [SessionIds -> 0 .. MaxGeneration]
  /\ active_streams \in [SessionIds -> 0 .. MaxGeneration]
  /\ abandoned_generation \in [SessionIds -> 0 .. MaxGeneration]
  /\ stream \in [Streams -> {"new", "created", "open", "ended", "dropped"}]
  /\ of \in [Streams -> SessionIds \cup {NoSession}]
  /\ guard \in [Streams -> 0 .. MaxGeneration]
  /\ close_on_drop \in [Streams -> BOOLEAN]
  /\ cleanup \in [Streams -> {"none", "grace", "close", "forget", "done"}]
  /\ target \in [Streams -> 0 .. MaxGeneration]
  /\ closing \in [SessionIds -> {"none", "forget", "done"}]

\* Generation 0 is the None of abandoned_generation.
HttpInit ==
  /\ inner = [s \in SessionIds |-> "none"]
  /\ states = {}
  /\ generation = [s \in SessionIds |-> 0]
  /\ active_streams = [s \in SessionIds |-> 0]
  /\ abandoned_generation = [s \in SessionIds |-> 0]
  /\ stream = [x \in Streams |-> "new"]
  /\ of = [x \in Streams |-> NoSession]
  /\ guard = [x \in Streams |-> 0]
  /\ close_on_drop = [x \in Streams |-> FALSE]
  /\ cleanup = [x \in Streams |-> "none"]
  /\ target = [x \in Streams |-> 0]
  /\ closing = [s \in SessionIds |-> "none"]

-----------------------------------------------------------------------------
(* SessionDisconnectRegistry *)

SessionClosed(s) ==
  /\ states' = states \ {s}
  /\ generation' = [generation EXCEPT ![s] = 0]
  /\ active_streams' = [active_streams EXCEPT ![s] = 0]
  /\ abandoned_generation' = [abandoned_generation EXCEPT ![s] = 0]

StreamOpened(x) ==
  LET s == of[x] IN
  /\ states' = states \cup {s}
  /\ generation' = [generation EXCEPT ![s] = @ + 1]
  /\ active_streams' = [active_streams EXCEPT ![s] = @ + 1]
  /\ abandoned_generation' = [abandoned_generation EXCEPT ![s] = 0]
  /\ guard' = [guard EXCEPT ![x] = generation[s] + 1]

\* Mutant of Left: the count runs below 0.
LeftExact(s) == active_streams[s] - 1

\* The count saturates at 0.
Left(s) == IF active_streams[s] = 0 THEN 0 ELSE active_streams[s] - 1

\* Mutant of CloseGeneration: only the abandoned stream itself starts it.
CloseOwnGeneration(x, abandoned) ==
  IF Left(of[x]) = 0 /\ abandoned THEN guard[x] ELSE 0

\* The generation whose clean-up stream_closed starts: the abandoned one, when
\* no stream is left.
CloseGeneration(x, abandoned) ==
  IF Left(of[x]) # 0 THEN 0
  ELSE IF abandoned THEN guard[x] ELSE abandoned_generation[of[x]]

StreamClosed(x, abandoned) ==
  LET s == of[x] IN
  \/ s \notin states /\ UNCHANGED <<disconnects, cleanup, target>>
  \/ /\ s \in states
     /\ target' = [target EXCEPT ![x] = CloseGeneration(x, abandoned)]
     /\ \/ /\ active_streams' = [active_streams EXCEPT ![s] = Left(s)]
           /\ abandoned_generation' = [abandoned_generation EXCEPT ![s] = IF abandoned THEN guard[x] ELSE @]
           /\ cleanup' = [cleanup EXCEPT ![x] = IF target'[x] = 0 THEN "none" ELSE "grace"]
           /\ UNCHANGED <<states, generation>>
        \/ /\ target'[x] # 0      \* no runtime to spawn the clean-up on
           /\ SessionClosed(s)
           /\ UNCHANGED cleanup

\* Mutant of ShouldClose: a stream that came back is not looked for.
ShouldCloseAnyway(x) == of[x] \in states

ShouldClose(x) ==
  /\ of[x] \in states
  /\ abandoned_generation[of[x]] = target[x]
  /\ active_streams[of[x]] = 0

-----------------------------------------------------------------------------
(* PooledSessionManager *)

CreateSession(s) ==
  /\ inner[s] = "none"
  /\ inner' = [inner EXCEPT ![s] = "open"]
  /\ UNCHANGED <<disconnects, stream, guard, tracked, cleanup, target, closing>>

\* create_stream (a POST response), create_standalone_stream, or resume of
\* either: rmcp makes the stream,
CreateStream(x, s) ==
  /\ stream[x] = "new" /\ inner[s] = "open"
  /\ stream' = [stream EXCEPT ![x] = "created"]
  /\ of' = [of EXCEPT ![x] = s]
  /\ \E standalone \in BOOLEAN :
       close_on_drop' = [close_on_drop EXCEPT ![x] = standalone]
  /\ UNCHANGED <<inner, disconnects, guard, cleanup, target, closing>>

\* and the registry counts it.
TrackStream(x) ==
  /\ stream[x] = "created"
  /\ stream' = [stream EXCEPT ![x] = "open"]
  /\ StreamOpened(x)
  /\ UNCHANGED <<inner, tracked, cleanup, target, closing>>

\* poll_next returns None: a POST is answered, or the session is closed.
EndStream(x) ==
  /\ stream[x] = "open"
  /\ ~close_on_drop[x] \/ inner[of[x]] = "closed"
  /\ stream' = [stream EXCEPT ![x] = "ended"]
  /\ StreamClosed(x, FALSE)
  /\ UNCHANGED <<inner, guard, tracked, closing>>

\* Mutant of DropStream: a dropped POST response counts as the client.
DropAnyStream(x) ==
  /\ stream[x] = "open"
  /\ stream' = [stream EXCEPT ![x] = "dropped"]
  /\ StreamClosed(x, TRUE)
  /\ UNCHANGED <<inner, guard, tracked, closing>>

\* The client goes away.
DropStream(x) ==
  /\ stream[x] = "open"
  /\ stream' = [stream EXCEPT ![x] = "dropped"]
  /\ StreamClosed(x, close_on_drop[x])
  /\ UNCHANGED <<inner, guard, tracked, closing>>

\* Mutant of CloseSession: the state goes first.
CloseSessionLate(s) ==
  /\ inner[s] = "open" /\ closing[s] = "none"
  /\ closing' = [closing EXCEPT ![s] = "forget"]
  /\ SessionClosed(s)
  /\ UNCHANGED <<inner, stream, guard, tracked, cleanup, target>>

\* close_session, for a DELETE or for a session whose keep-alive has run out:
CloseSession(s) ==
  /\ inner[s] = "open" /\ closing[s] = "none"
  /\ inner' = [inner EXCEPT ![s] = "closed"]
  /\ closing' = [closing EXCEPT ![s] = "forget"]
  /\ UNCHANGED <<disconnects, stream, guard, tracked, cleanup, target>>

\* an error of rmcp's close leaves the state.
FinishClose(s) ==
  /\ closing[s] = "forget"
  /\ closing' = [closing EXCEPT ![s] = "done"]
  /\ SessionClosed(s) \/ UNCHANGED disconnects
  /\ UNCHANGED <<inner, stream, guard, tracked, cleanup, target>>

-----------------------------------------------------------------------------
(* The clean-up task of stream_closed *)

GraceOver(x) ==
  /\ cleanup[x] = "grace"
  /\ cleanup' = [cleanup EXCEPT ![x] = IF ShouldClose(x) THEN "close" ELSE "done"]
  /\ UNCHANGED <<inner, disconnects, stream, guard, tracked, target, closing>>

CleanupCloses(x) ==
  /\ cleanup[x] = "close"
  /\ cleanup' = [cleanup EXCEPT ![x] = "forget"]
  /\ inner' = [inner EXCEPT ![of[x]] = "closed"]
  /\ UNCHANGED <<disconnects, stream, guard, tracked, target, closing>>

CleanupForgets(x) ==
  /\ cleanup[x] = "forget"
  /\ cleanup' = [cleanup EXCEPT ![x] = "done"]
  /\ SessionClosed(of[x])
  /\ UNCHANGED <<inner, stream, guard, tracked, target, closing>>

-----------------------------------------------------------------------------
Cleanup(x) == GraceOver(x) \/ CleanupCloses(x) \/ CleanupForgets(x)

HttpNext ==
  \/ \E s \in SessionIds : CreateSession(s) \/ CloseSession(s) \/ FinishClose(s)
  \/ \E x \in Streams :
       \/ \E s \in SessionIds : CreateStream(x, s)
       \/ TrackStream(x) \/ EndStream(x) \/ DropStream(x) \/ Cleanup(x)

HttpFairness == \A x \in Streams : WF_httpVars(Cleanup(x))

HttpSpec == HttpInit /\ [][HttpNext]_httpVars /\ HttpFairness

-----------------------------------------------------------------------------
OpenStreams(s) == {x \in Streams : stream[x] = "open" /\ of[x] = s}

\* As long as a session is open, active_streams is the number of its streams,
\* however opens, ends and drops overlap with clean-ups: the state is forgotten
\* only after the session has been closed, or with no stream left.
CountsStreams ==
  \A s \in SessionIds : inner[s] = "open" => active_streams[s] = Cardinality(OpenStreams(s))

\* "A dropped POST response stream is not sufficient proof that the session is
\* gone": a clean-up closes a session only after one of its standalone streams
\* was dropped.
PostsCloseNothing ==
  \A x \in Streams : cleanup[x] = "close" =>
    \E y \in Streams : of[y] = of[x] /\ close_on_drop[y] /\ stream[y] = "dropped"

\* A client that comes back during the grace period keeps its session: when the
\* clean-up decides to close, no stream of the session is open.
DecidesOnQuiet ==
  [][\A x \in Streams : cleanup[x] = "grace" /\ cleanup'[x] = "close" /\ inner[of[x]] = "open" =>
       OpenStreams(of[x]) = {}]_httpVars

\* A session whose client dropped its standalone stream is closed in the end,
\* unless the client comes back, even when a POST of it ended last.
AbandonedCloses ==
  \A s \in SessionIds :
    (inner[s] = "open" /\ active_streams[s] = 0 /\ abandoned_generation[s] # 0)
      ~> (inner[s] = "closed" \/ abandoned_generation[s] = 0)

\* The test "pooled_disconnect_registry_reconnect_cancels_abandoned_close" in
\* src/server/http_sessions.rs: a session with a stream is not closed by a
\* clean-up.
ReconnectKeepsSession ==
  [][\A x \in Streams : cleanup[x] = "close" /\ cleanup'[x] = "forget" /\ inner[of[x]] = "open" =>
       OpenStreams(of[x]) = {}]_httpVars
=============================================================================
