--------------------------- MODULE IdaLoopProofs ---------------------------
(***************************************************************************)
(* Proofs about IdaLoop (src/ida/main_loop.rs and what surrounds it), for  *)
(* any number of clients and paths, any capacity of the channel, any       *)
(* number of generations and any set of faults.                            *)
(***************************************************************************)
EXTENDS IdaLoop, McpLock, SequenceTheorems, TLAPS

\* A request names the database its caller was given by a generation that is
\* never used again, and an open names a path.
Ticket(r) == r.life = r.gen /\ (r.kind = "open" => r.path # None)

Tickets ==
  /\ life = next_gen /\ gen \in {0, next_gen}
  /\ \A c \in Callers : given_life[c] = given[c]
  /\ Ticket(cur) /\ \A i \in DOMAIN queue : Ticket(queue[i])

\* At most the database of path q is unpacked.
OnlyLive(q) == \A p \in Paths : disk[p] = "live" => p = q

\* handle_open holds the lock, and the database in a local variable.
InOpen == {"locked", "opening", "undo", "exhausted"}

\* What the process holds at each point of run_ida_loop: in an open the lock of
\* the path asked for; elsewhere the lock and the generation of the database
\* that is open.
Holds ==
  Up =>
    /\ pc \in InOpen => idb = None /\ lock = cur.path /\ cur.kind = "open" /\ OnlyLive(cur.path)
    /\ pc = "locked" => OnlyLive(None)
    /\ pc \notin InOpen => lock = idb /\ OnlyLive(idb)
    /\ pc \in {"closing", "stopping", "saving"} => idb # None
    /\ pc \notin {"left", "returned"} => (gen # 0 <=> idb # None)
    /\ pc = "returned" \/ (pc = "left" /\ ~caught) => idb = None

\* Nothing is opened before the library is up, nor with a wrong installation;
\* the signal handler is missing only before that; and after a caught signal
\* the loop stays out of IDA.
Ready ==
  /\ ~lib => ~fault /\ idb = None /\ pc \in {"top", "recv", "gate", "init", "inited"}
  /\ pc \in {"init", "inited"} => ~lib
  /\ fault => idb = None /\ pc \in {"top", "recv", "gate", "left", "returned"}
  /\ ~armed => ~lib
  /\ caught => lib /\ pc \in {"top", "recv", "gate", "left"}

IInv == TypeOK /\ Tickets /\ Holds /\ Ready /\ SignalSaves

-----------------------------------------------------------------------------
Replies == {"none", "ok", "err", "closed", "stale"}

\* A request whose receiver is dropped is the same request.
LEMMA OrphanSame ==
  ASSUME NEW r \in Requests, NEW c
  PROVE  /\ Orphan(r, c) \in Requests
         /\ Orphan(r, c).kind = r.kind /\ Orphan(r, c).path = r.path
         /\ Orphan(r, c).gen = r.gen /\ Orphan(r, c).life = r.life
  BY Zenon DEF Orphan, Requests

\* So the channel and the request being served stay what they are.
LEMMA OrphansSame ==
  ASSUME TypeOK, Tickets, NEW c, OrphanAll(c)
  PROVE  /\ queue' \in Seq(Requests) /\ Len(queue') = Len(queue) /\ cur' \in Requests
         /\ \A i \in DOMAIN queue' : Ticket(queue'[i])
         /\ Ticket(cur') /\ cur'.kind = cur.kind /\ cur'.path = cur.path
<1>1. cur \in Requests /\ queue \in Seq(Requests)
  BY Zenon DEF TypeOK
<1>2. cur' \in Requests /\ Ticket(cur') /\ cur'.kind = cur.kind /\ cur'.path = cur.path
  BY Zenon, <1>1, OrphanSame DEF OrphanAll, Tickets, Ticket
<1>3. \A i \in 1 .. Len(queue) : queue[i] \in Requests /\ Ticket(queue[i])
  BY <1>1 DEF Tickets
<1>4. \A i \in 1 .. Len(queue) : Orphan(queue[i], c) \in Requests /\ Ticket(Orphan(queue[i], c))
  BY <1>3, OrphanSame DEF Ticket
<1>5. queue' = [i \in 1 .. Len(queue) |-> Orphan(queue[i], c)]
  BY <1>1 DEF OrphanAll
<1>6. queue' \in [1 .. Len(queue) -> Requests] /\ Len(queue) \in Nat
  BY <1>1, <1>4, <1>5
<1>7. queue' \in Seq(Requests) /\ Len(queue') = Len(queue) /\ DOMAIN queue' = 1 .. Len(queue)
  BY <1>5, <1>6, IsASeq
<1> QED
  BY Zenon, <1>2, <1>4, <1>5, <1>7

\* What the types say of the request being served.
LEMMA CurTyped ==
  ASSUME TypeOK
  PROVE  /\ cur.from \in Callers \cup {None} /\ cur.path \in Paths \cup {None}
         /\ cur.kind \in Kinds /\ cur.gen \in 0 .. MaxGen /\ cur.life \in Nat
  BY Zenon DEF TypeOK, Requests

LEMMA NoRequestTyped == NoRequest \in Requests /\ Ticket(NoRequest)
  BY LoopConfig DEF Requests, Kinds, NoRequest, Ticket

\* The channel is first in, first out, and bounded by who checks for room.
LEMMA Received ==
  ASSUME TypeOK, Tickets, queue # <<>>
  PROVE  /\ Head(queue) \in Requests /\ Ticket(Head(queue))
         /\ Tail(queue) \in Seq(Requests) /\ Len(Tail(queue)) <= Capacity
         /\ \A i \in DOMAIN Tail(queue) : Ticket(Tail(queue)[i])
<1>1. queue \in Seq(Requests) /\ Len(queue) <= Capacity /\ Capacity \in Nat /\ \A i \in 1 .. Len(queue) : Ticket(queue[i])
  BY LoopConfig DEF TypeOK, Tickets
<1>2. Len(queue) \in Nat /\ Len(queue) # 0 /\ Head(queue) = queue[1]
  BY <1>1
<1>3. Tail(queue) \in Seq(Requests) /\ Len(Tail(queue)) = Len(queue) - 1
  BY <1>1
<1>4. \A i \in 1 .. Len(queue) - 1 : Tail(queue)[i] = queue[i + 1]
  BY <1>1
<1>5. DOMAIN Tail(queue) = 1 .. Len(queue) - 1
  BY <1>3
<1> QED
  BY <1>1, <1>2, <1>3, <1>4, <1>5

LEMMA Sent ==
  ASSUME TypeOK, Tickets, Room, NEW r \in Requests, Ticket(r)
  PROVE  /\ Append(queue, r) \in Seq(Requests) /\ Len(Append(queue, r)) <= Capacity
         /\ \A i \in DOMAIN Append(queue, r) : Ticket(Append(queue, r)[i])
<1>1. queue \in Seq(Requests) /\ Capacity \in Nat /\ \A i \in 1 .. Len(queue) : Ticket(queue[i])
  BY LoopConfig DEF TypeOK, Tickets
<1>2. Append(queue, r) \in Seq(Requests) /\ Len(Append(queue, r)) = Len(queue) + 1 /\ Len(queue) \in Nat
  BY <1>1
<1>3. \A i \in 1 .. Len(queue) + 1 : Append(queue, r)[i] = IF i = Len(queue) + 1 THEN r ELSE queue[i]
  BY <1>1
<1>4. DOMAIN Append(queue, r) = 1 .. Len(queue) + 1
  BY <1>2
<1> QED
  BY <1>1, <1>2, <1>3, <1>4 DEF Room

LEMMA EmptyTyped == <<>> \in Seq(Requests) /\ Len(<<>>) <= Capacity
  BY LoopConfig

\* An answer changes nothing but the caller it is for, and the loop goes on.
LEMMA Answered ==
  ASSUME TypeOK, NEW r \in Replies, Answer(r)
  PROVE  /\ pc' = "top" /\ cur' = NoRequest /\ cur' \in Requests /\ Ticket(cur')
         /\ call' \in [Callers -> {"idle", "wait", "cancelled", "retry:close", "retry:closeif"}]
         /\ reply' \in [Callers -> Replies]
         /\ \A c \in Callers : reply'[c] \in {reply[c], r}
<1>1. pc' = "top" /\ cur' = NoRequest /\ cur' \in Requests /\ Ticket(cur')
  BY Zenon, NoRequestTyped DEF Answer
<1>2. CASE cur.from = None
  BY Zenon, <1>1, <1>2 DEF Answer, TypeOK, Replies
<1>3. CASE cur.from # None
  <2>1. cur.from \in Callers /\ Settle(cur.from, r)
    BY Zenon, <1>3, CurTyped DEF Answer
  <2> QED
    BY Zenon, <1>1, <2>1 DEF Settle, TypeOK, Replies
<1> QED
  BY Zenon, <1>2, <1>3

\* A caller told that its open succeeded is given the generation of the database.
LEMMA OpenedAnswered ==
  ASSUME TypeOK, Tickets, NEW g \in 0 .. MaxGen, AnswerOpened(g, g)
  PROVE  /\ given' \in [Callers -> 0 .. MaxGen] /\ given_life' \in [Callers -> Nat]
         /\ \A c \in Callers : given_life'[c] = given'[c]
<1>1. g \in Nat
  BY LoopConfig
<1>2. CASE cur.from = None
  BY <1>2 DEF AnswerOpened, Keep, TypeOK, Tickets
<1>3. CASE cur.from # None
  <2>1. PICK d \in Callers : d = cur.from
    BY Zenon, <1>3, CurTyped
  <2>2. given' = [given EXCEPT ![d] = g] /\ given_life' = [given_life EXCEPT ![d] = g]
    BY Zenon, <1>3, <2>1 DEF AnswerOpened
  <2> QED
    BY Zenon, <1>1, <2>2 DEF TypeOK, Tickets
<1> QED
  BY Zenon, <1>2, <1>3

\* At the start the library is not up and no database is open.
LEMMA InitIInv == Init => IInv
<1> SUFFICES ASSUME Init PROVE IInv
  BY Zenon
<1>1. queue \in Seq(Requests) /\ Len(queue) = 0 /\ DOMAIN queue = {}
  BY DEF Init
<1>2. pc \in Pcs /\ cur \in Requests /\ proc \in {"up"} \cup Exits
  BY Zenon, NoRequestTyped DEF Init, Pcs
<1>3. next_gen \in 0 .. MaxGen /\ gen \in 0 .. next_gen /\ given \in [Callers -> 0 .. MaxGen] /\ Len(queue) <= Capacity
  BY <1>1, LoopConfig DEF Init
<1>4. TypeOK
  <2>1. disk \in [Paths -> {"packed", "live", "left"}] /\ given_life \in [Callers -> Nat] /\ life \in Nat
    BY Zenon DEF Init
  <2>2. /\ call \in [Callers -> {"idle", "wait", "cancelled", "retry:close", "retry:closeif"}]
        /\ reply \in [Callers -> {"none", "ok", "err", "closed", "stale"}]
    BY Zenon DEF Init
  <2>3. /\ lib \in BOOLEAN /\ fault \in BOOLEAN /\ caught \in BOOLEAN /\ armed \in BOOLEAN /\ requested \in BOOLEAN
        /\ late \in BOOLEAN /\ idb \in Paths \cup {None} /\ lock \in Paths \cup {None}
        /\ srv \in {"serving", "close", "closewait", "stop", "stopped", "done"}
    BY Zenon DEF Init
  <2> QED
    BY Zenon, <1>1, <1>2, <1>3, <2>1, <2>2, <2>3 DEF TypeOK
<1>5. Tickets
  BY Zenon, <1>1, NoRequestTyped DEF Init, Tickets
<1>6. Holds /\ Ready /\ SignalSaves
  BY Zenon DEF Init, Holds, InOpen, OnlyLive, Up, Ready, SignalSaves
<1> QED
  BY Zenon, <1>4, <1>5, <1>6 DEF IInv

\* What callers and the server thread do beside the loop leaves what it holds.
LEMMA Aside ==
  ASSUME IInv, UNCHANGED <<pc, lib, fault, idb, gen, lock, procVars, disk>>,
         cur'.kind = cur.kind, cur'.path = cur.path
  PROVE  Holds' /\ Ready' /\ SignalSaves'
  BY Zenon DEF IInv, Holds, OnlyLive, Up, Ready, SignalSaves, procVars

\* try_send: the request carries what its caller was given.
LEMMA Enqueued ==
  ASSUME TypeOK, Tickets, Room, NEW c \in Callers, NEW k \in Kinds, NEW p \in Paths \cup {None},
         k = "open" => p # None, Enqueue(c, k, p)
  PROVE  /\ queue' \in Seq(Requests) /\ Len(queue') <= Capacity /\ \A i \in DOMAIN queue' : Ticket(queue'[i])
         /\ call' \in [Callers -> {"idle", "wait", "cancelled", "retry:close", "retry:closeif"}]
         /\ reply' \in [Callers -> {"none", "ok", "err", "closed", "stale"}]
<1>1. given[c] \in 0 .. MaxGen /\ given_life[c] \in Nat /\ given_life[c] = given[c] /\ 0 \in 0 .. MaxGen
  BY LoopConfig DEF TypeOK, Tickets
<1>2. Request(c, k, p) \in Requests
  BY Zenon, <1>1 DEF Request, Requests
<1>3. Ticket(Request(c, k, p))
  BY Zenon, <1>1 DEF Request, Ticket
<1>4. queue' = Append(queue, Request(c, k, p))
  BY Zenon DEF Enqueue
<1>5. queue' \in Seq(Requests) /\ Len(queue') <= Capacity /\ \A i \in DOMAIN queue' : Ticket(queue'[i])
  BY Zenon, <1>2, <1>3, <1>4, Sent
<1> QED
  BY Zenon, <1>5 DEF Enqueue, TypeOK

\* A request is sent, refused, or waits for room.
LEMMA SendKeeps ==
  ASSUME IInv, NEW c \in Callers, NEW k \in Kinds, NEW p \in Paths \cup {None}, k = "open" => p # None,
         Send(c, k, p), late' = late, srv' \in {"serving", "close", "closewait", "stop", "stopped", "done"}
  PROVE  IInv'
<1> USE DEF IInv
<1>1. Holds' /\ Ready' /\ SignalSaves'
  BY Zenon, Aside DEF Send, loopVars
<1>2. CASE Room /\ Enqueue(c, k, p)
  <2>1. TypeOK'
    BY <1>2, Enqueued DEF Send, TypeOK, loopVars, procVars
  <2>2. Tickets'
    BY Zenon, <1>2, Enqueued DEF Send, Tickets, loopVars
  <2> QED
    BY Zenon, <1>1, <2>1, <2>2
<1>3. CASE Settle(c, "err") /\ UNCHANGED queue
  BY <1>1, <1>3 DEF Send, Settle, TypeOK, Tickets, loopVars, procVars
<1>4. CASE k \in {"close", "closeif"} /\ call' = [call EXCEPT ![c] = RetryOf[k]] /\ reply' = [reply EXCEPT ![c] = "none"]
           /\ UNCHANGED queue
  <2>1. RetryOf[k] \in {"retry:close", "retry:closeif"}
    BY <1>4 DEF RetryOf
  <2> QED
    BY <1>1, <1>4, <2>1 DEF Send, TypeOK, Tickets, loopVars, procVars
<1> QED
  BY Zenon, <1>2, <1>3, <1>4 DEF Send

LEMMA RetryKeeps ==
  ASSUME IInv, NEW c \in Callers, NEW k \in {"close", "closeif"}, Retry(c, k)
  PROVE  IInv'
<1> USE DEF IInv
<1>1. Holds' /\ Ready' /\ SignalSaves'
  BY Zenon, Aside DEF Retry, loopVars
<1>2. CASE Room /\ Enqueue(c, k, None)
  <2>1. /\ queue' \in Seq(Requests) /\ Len(queue') <= Capacity /\ \A i \in DOMAIN queue' : Ticket(queue'[i])
        /\ call' \in [Callers -> {"idle", "wait", "cancelled", "retry:close", "retry:closeif"}]
        /\ reply' \in [Callers -> {"none", "ok", "err", "closed", "stale"}]
    BY Zenon, <1>2, Enqueued DEF Kinds
  <2> QED
    BY <1>1, <2>1 DEF Retry, TypeOK, Tickets, loopVars, procVars, srvVars
<1>3. CASE Settle(c, "err") /\ UNCHANGED queue
  BY <1>1, <1>3 DEF Retry, Settle, TypeOK, Tickets, loopVars, procVars, srvVars
<1> QED
  BY Zenon, <1>2, <1>3 DEF Retry

\* A caller stops waiting: recv_with_timeout, or the server's bounded close.
LEMMA GivenUp ==
  ASSUME IInv, NEW c \in Callers, OrphanAll(c), Settle(c, "err"),
         UNCHANGED <<pc, lib, fault, idb, gen, next_gen, lock, life, procVars, disk, given, given_life>>,
         late' \in BOOLEAN, srv' \in {"serving", "close", "closewait", "stop", "stopped", "done"}
  PROVE  IInv'
<1> USE DEF IInv
<1>1. Holds' /\ Ready' /\ SignalSaves'
  BY Zenon, Aside, OrphansSame
<1>2. TypeOK'
  BY Zenon, OrphansSame DEF Settle, TypeOK, procVars
<1>3. Tickets'
  BY Zenon, OrphansSame DEF Tickets
<1> QED
  BY Zenon, <1>1, <1>2, <1>3

\* Every step of the loop, of its callers and of the process keeps the invariant.
LEMMA StepIInv == IInv /\ [Next]_vars => IInv'
<1> SUFFICES ASSUME IInv, [Next]_vars PROVE IInv'
  BY Zenon
<1> USE DEF IInv
<1>1. ASSUME InterruptedShutdown PROVE IInv'
  <2>1. TypeOK'
    BY Zenon, <1>1, LoopConfig DEF InterruptedShutdown, InterruptedSaves, InterruptedForgets,
       TypeOK, Up, At, Pcs, InIda, Exits, Callers, Replies, loopVars, procVars, callVars,
       srvVars
  <2>2. Tickets'
    BY Zenon, <1>1, LoopConfig DEF InterruptedShutdown, InterruptedSaves, InterruptedForgets,
       TypeOK, Up, At, Tickets, loopVars, procVars, callVars, srvVars
  <2>3. Holds'
    BY Zenon, <1>1, LoopConfig DEF InterruptedShutdown, InterruptedSaves, InterruptedForgets,
       TypeOK, Up, At, Holds, InOpen, OnlyLive, Tickets, Ticket, Ready, loopVars, procVars,
       callVars, srvVars
  <2>4. Ready' /\ SignalSaves'
    BY <1>1, LoopConfig DEF InterruptedShutdown, InterruptedSaves, InterruptedForgets, TypeOK,
       Up, At, Ready, Holds, InOpen, SignalSaves, OnlyLive, loopVars, procVars, callVars,
       srvVars
  <2> QED
    BY Zenon, <2>1, <2>2, <2>3, <2>4
<1>2. ASSUME SaveDone PROVE IInv'
  <2>1. TypeOK'
    BY Zenon, <1>2, LoopConfig DEF SaveDone, TypeOK, Up, At, Pcs, InIda, Exits, Callers,
       Replies, loopVars, procVars, callVars, srvVars
  <2>2. Tickets'
    BY Zenon, <1>2, LoopConfig DEF SaveDone, TypeOK, Up, At, Tickets, loopVars, procVars,
       callVars, srvVars
  <2>3. Holds'
    BY Zenon, <1>2, LoopConfig DEF SaveDone, TypeOK, Up, At, Holds, InOpen, OnlyLive, Tickets,
       Ticket, Ready, loopVars, procVars, callVars, srvVars
  <2>4. Ready' /\ SignalSaves'
    BY Zenon, <1>2, LoopConfig DEF SaveDone, TypeOK, Up, At, Ready, Holds, InOpen, SignalSaves,
       OnlyLive, loopVars, procVars, callVars, srvVars
  <2> QED
    BY <2>1, <2>2, <2>3, <2>4
<1>3. ASSUME NotInterrupted PROVE IInv'
  <2>1. TypeOK'
    BY <1>3, LoopConfig DEF NotInterrupted, TypeOK, Up, At, Pcs, InIda, Exits, Callers,
       Replies, loopVars, procVars, callVars, srvVars
  <2>2. Tickets'
    BY Zenon, <1>3, LoopConfig DEF NotInterrupted, TypeOK, Up, At, Tickets, loopVars, procVars,
       callVars, srvVars
  <2>3. Holds'
    BY Zenon, <1>3, LoopConfig DEF NotInterrupted, TypeOK, Up, At, Holds, InOpen, OnlyLive,
       Tickets, Ticket, Ready, loopVars, procVars, callVars, srvVars
  <2>4. Ready' /\ SignalSaves'
    BY Zenon, <1>3, LoopConfig DEF NotInterrupted, TypeOK, Up, At, Ready, Holds, InOpen,
       SignalSaves, OnlyLive, loopVars, procVars, callVars, srvVars
  <2> QED
    BY <2>1, <2>2, <2>3, <2>4
<1>4. ASSUME Recv PROVE IInv'
  <2>1. TypeOK'
    <3>1. queue' \in Seq(Requests) /\ Len(queue') <= Capacity /\ cur' \in Requests
      BY Zenon, <1>4, Received DEF Recv, RecvTimeout, TypeOK
    <3>2. pc' \in Pcs
      BY Zenon, <1>4 DEF Recv, RecvTimeout, Pcs
    <3> QED
      BY <1>4, <3>1, <3>2 DEF Recv, TypeOK, procVars, srvVars, callVars
  <2>2. Tickets'
    BY Zenon, <1>4, Received DEF Recv, RecvTimeout, Tickets, callVars
  <2>3. Holds'
    BY Zenon, <1>4, LoopConfig DEF Recv, RecvTimeout, TypeOK, Up, At, Holds, InOpen, OnlyLive,
       Tickets, Ticket, Ready, loopVars, procVars, callVars, srvVars
  <2>4. Ready' /\ SignalSaves'
    BY Zenon, <1>4, LoopConfig DEF Recv, RecvTimeout, TypeOK, Up, At, Ready, Holds, InOpen,
       SignalSaves, OnlyLive, loopVars, procVars, callVars, srvVars
  <2> QED
    BY <2>1, <2>2, <2>3, <2>4
<1>5. ASSUME Retired PROVE IInv'
  <2>1. TypeOK'
    BY <1>5, LoopConfig, Answered DEF Retired, RetiredDrops, Replies, TypeOK, Up, At, Pcs,
       InIda, Exits, Callers, loopVars, procVars, callVars, srvVars
  <2>2. Tickets'
    BY Zenon, <1>5, LoopConfig, Answered DEF Retired, RetiredDrops, Replies, TypeOK, Up, At,
       Tickets, loopVars, procVars, callVars, srvVars
  <2>3. Holds'
    BY Zenon, <1>5, LoopConfig, Answered DEF Retired, RetiredDrops, Replies, TypeOK, Up, At,
       Holds, InOpen, OnlyLive, Tickets, Ticket, Ready, loopVars, procVars, callVars, srvVars
  <2>4. Ready' /\ SignalSaves'
    BY Zenon, <1>5, LoopConfig, Answered DEF Retired, RetiredDrops, Replies, TypeOK, Up, At,
       Ready, Holds, InOpen, SignalSaves, OnlyLive, loopVars, procVars, callVars, srvVars
  <2> QED
    BY <2>1, <2>2, <2>3, <2>4
<1>6. ASSUME StartInit PROVE IInv'
  <2>1. TypeOK'
    BY <1>6, LoopConfig, Answered DEF StartInit, Reject, Replies, TypeOK, Up, At, Pcs, InIda,
       Exits, Callers, loopVars, procVars, callVars, srvVars
  <2>2. Tickets'
    BY Zenon, <1>6, LoopConfig, Answered DEF StartInit, Reject, Replies, TypeOK, Up, At,
       Tickets, loopVars, procVars, callVars, srvVars
  <2>3. Holds'
    BY Zenon, <1>6, LoopConfig, Answered DEF StartInit, Reject, Replies, TypeOK, Up, At, Holds,
       InOpen, OnlyLive, Tickets, Ticket, Ready, loopVars, procVars, callVars, srvVars
  <2>4. Ready' /\ SignalSaves'
    BY Zenon, <1>6, LoopConfig, Answered DEF StartInit, Reject, Replies, TypeOK, Up, At, Ready,
       Holds, InOpen, SignalSaves, OnlyLive, loopVars, procVars, callVars, srvVars
  <2> QED
    BY <2>1, <2>2, <2>3, <2>4
<1>7. ASSUME InitLibrary PROVE IInv'
  <2>1. TypeOK'
    BY ZenonT(30), <1>7, LoopConfig DEF InitLibrary, TypeOK, Up, At, Pcs, InIda, Exits, Callers, Replies,
       loopVars, procVars, callVars, srvVars
  <2>2. Tickets'
    BY Zenon, <1>7, LoopConfig DEF InitLibrary, TypeOK, Up, At, Tickets, loopVars, procVars,
       callVars, srvVars
  <2>3. Holds'
    BY Zenon, <1>7, LoopConfig DEF InitLibrary, TypeOK, Up, At, Holds, InOpen, OnlyLive,
       Tickets, Ticket, Ready, loopVars, procVars, callVars, srvVars
  <2>4. Ready' /\ SignalSaves'
    BY Zenon, <1>7, LoopConfig DEF InitLibrary, TypeOK, Up, At, Ready, Holds, InOpen,
       SignalSaves, OnlyLive, loopVars, procVars, callVars, srvVars
  <2> QED
    BY <2>1, <2>2, <2>3, <2>4
<1>8. ASSUME InitOk PROVE IInv'
  <2>1. TypeOK'
    BY Zenon, <1>8, LoopConfig DEF InitOk, InitOkArmed, TypeOK, Up, At, Pcs, InIda, Exits,
       Callers, Replies, loopVars, procVars, callVars, srvVars
  <2>2. Tickets'
    BY Zenon, <1>8, LoopConfig DEF InitOk, InitOkArmed, TypeOK, Up, At, Tickets, loopVars,
       procVars, callVars, srvVars
  <2>3. Holds'
    BY Zenon, <1>8, LoopConfig DEF InitOk, InitOkArmed, TypeOK, Up, At, Holds, InOpen,
       OnlyLive, Tickets, Ticket, Ready, loopVars, procVars, callVars, srvVars
  <2>4. Ready' /\ SignalSaves'
    BY Zenon, <1>8, LoopConfig DEF InitOk, InitOkArmed, TypeOK, Up, At, Ready, Holds, InOpen,
       SignalSaves, OnlyLive, loopVars, procVars, callVars, srvVars
  <2> QED
    BY <2>1, <2>2, <2>3, <2>4
<1>9. ASSUME InitFails PROVE IInv'
  <2>1. TypeOK'
    BY <1>9, LoopConfig, Answered DEF InitFails, InitRejects, Reject, Replies, TypeOK, Up, At,
       Pcs, InIda, Exits, Callers, loopVars, procVars, callVars, srvVars
  <2>2. Tickets'
    BY Zenon, <1>9, LoopConfig, Answered DEF InitFails, InitRejects, Reject, Replies, TypeOK,
       Up, At, Tickets, loopVars, procVars, callVars, srvVars
  <2>3. Holds'
    BY Zenon, <1>9, LoopConfig, Answered DEF InitFails, InitRejects, Reject, Replies, TypeOK,
       Up, At, Holds, InOpen, OnlyLive, Tickets, Ticket, Ready, loopVars, procVars, callVars,
       srvVars
  <2>4. Ready' /\ SignalSaves'
    BY Zenon, <1>9, LoopConfig, Answered DEF InitFails, InitRejects, Reject, Replies, TypeOK,
       Up, At, Ready, Holds, InOpen, SignalSaves, OnlyLive, loopVars, procVars, callVars,
       srvVars
  <2> QED
    BY <2>1, <2>2, <2>3, <2>4
<1>10. ASSUME FaultRejects PROVE IInv'
  <2>1. TypeOK'
    BY Zenon, <1>10, LoopConfig, Answered DEF FaultRejects, Reject, Replies, TypeOK, Up, At,
       Pcs, InIda, Exits, Callers, loopVars, procVars, callVars, srvVars
  <2>2. Tickets'
    BY Zenon, <1>10, LoopConfig, Answered DEF FaultRejects, Reject, Replies, TypeOK, Up, At,
       Tickets, loopVars, procVars, callVars, srvVars
  <2>3. Holds'
    BY Zenon, <1>10, LoopConfig, Answered DEF FaultRejects, Reject, Replies, TypeOK, Up, At,
       Holds, InOpen, OnlyLive, Tickets, Ticket, Ready, loopVars, procVars, callVars, srvVars
  <2>4. Ready' /\ SignalSaves'
    BY Zenon, <1>10, LoopConfig, Answered DEF FaultRejects, Reject, Replies, TypeOK, Up, At,
       Ready, Holds, InOpen, SignalSaves, OnlyLive, loopVars, procVars, callVars, srvVars
  <2> QED
    BY <2>1, <2>2, <2>3, <2>4
<1>11. ASSUME OpenRefused PROVE IInv'
  <2>1. TypeOK' /\ Tickets'
    <3>1. CASE Answer("err") /\ Keep
      BY <1>11, <3>1, Answered DEF OpenRefused, Keep, Replies, TypeOK, Pcs, Tickets, procVars,
         srvVars
    <3>2. CASE ~IsCancelled(cur) /\ idb = cur.path /\ AnswerOpened(gen, life)
      <4>1. cur.path # None
        BY Zenon, <1>11 DEF OpenRefused, Served, Tickets, Ticket
      <4>2. gen = life /\ gen \in 0 .. MaxGen
        BY Zenon, <1>11, <3>2, <4>1, LoopConfig DEF OpenRefused, Served, At, Holds, InOpen,
           Tickets, TypeOK
      <4>3. Answer("ok")
        BY Zenon, <3>2 DEF AnswerOpened
      <4> QED
        BY <1>11, <3>2, <4>2, <4>3, Answered, OpenedAnswered DEF OpenRefused, Replies, TypeOK,
           Pcs, Tickets, procVars, srvVars
    <3> QED
      BY Zenon, <1>11, <3>1, <3>2 DEF OpenRefused
  <2>2. Holds'
    BY Zenon, <1>11, LoopConfig, Answered DEF OpenRefused, Served, AnswerOpened, Keep, Replies,
       TypeOK, Up, At, Holds, InOpen, OnlyLive, Tickets, Ticket, Ready, loopVars, procVars,
       callVars, srvVars
  <2>3. Ready' /\ SignalSaves'
    BY Zenon, <1>11, LoopConfig, Answered DEF OpenRefused, Served, AnswerOpened, Keep, Replies,
       TypeOK, Up, At, Ready, Holds, InOpen, SignalSaves, OnlyLive, loopVars, procVars,
       callVars, srvVars
  <2> QED
    BY Zenon, <2>1, <2>2, <2>3
<1>12. ASSUME OpenLock PROVE IInv'
  <2>1. TypeOK'
    BY <1>12, CurTyped DEF OpenLock, TypeOK, Pcs, procVars, srvVars, callVars
  <2>2. Tickets'
    BY Zenon, <1>12, LoopConfig DEF OpenLock, Served, TypeOK, Up, At, Tickets, loopVars,
       procVars, callVars, srvVars
  <2>3. Holds'
    BY Zenon, <1>12, LoopConfig DEF OpenLock, Served, TypeOK, Up, At, Holds, InOpen, OnlyLive,
       Tickets, Ticket, Ready, loopVars, procVars, callVars, srvVars
  <2>4. Ready' /\ SignalSaves'
    BY Zenon, <1>12, LoopConfig DEF OpenLock, Served, TypeOK, Up, At, Ready, Holds, InOpen,
       SignalSaves, OnlyLive, loopVars, procVars, callVars, srvVars
  <2> QED
    BY <2>1, <2>2, <2>3, <2>4
<1>13. ASSUME OpenUnpack PROVE IInv'
  <2>1. TypeOK'
    BY ZenonT(30), <1>13, LoopConfig DEF OpenUnpack, TypeOK, Up, At, Pcs, InIda, Exits, Callers, Replies,
       loopVars, procVars, callVars, srvVars
  <2>2. Tickets'
    BY Zenon, <1>13, LoopConfig DEF OpenUnpack, TypeOK, Up, At, Tickets, loopVars, procVars,
       callVars, srvVars
  <2>3. Holds'
    BY Zenon, <1>13, LoopConfig DEF OpenUnpack, TypeOK, Up, At, Holds, InOpen, OnlyLive,
       Tickets, Ticket, Ready, loopVars, procVars, callVars, srvVars
  <2>4. Ready' /\ SignalSaves'
    BY Zenon, <1>13, LoopConfig DEF OpenUnpack, TypeOK, Up, At, Ready, Holds, InOpen,
       SignalSaves, OnlyLive, loopVars, procVars, callVars, srvVars
  <2> QED
    BY <2>1, <2>2, <2>3, <2>4
<1>14. ASSUME OpenFails PROVE IInv'
  <2>1. TypeOK'
    <3>1. PICK left \in {"packed", "left"} : disk' = [disk EXCEPT ![cur.path] = left]
      BY Zenon, <1>14 DEF OpenFails, OpenFailsReleasing
    <3>2. disk' \in [Paths -> {"packed", "live", "left"}]
      BY Zenon, <3>1 DEF TypeOK
    <3> QED
      BY <1>14, <3>2, Answered DEF OpenFails, OpenFailsReleasing, Replies, TypeOK, Pcs,
         procVars, srvVars
  <2>2. Tickets'
    BY Zenon, <1>14, LoopConfig, Answered DEF OpenFails, OpenFailsReleasing, Replies, TypeOK,
       Up, At, Tickets, loopVars, procVars, callVars, srvVars
  <2>3. Holds'
    BY <1>14, LoopConfig, Answered DEF OpenFails, OpenFailsReleasing, Replies, TypeOK, Up, At,
       Holds, InOpen, OnlyLive, Tickets, Ticket, Ready, loopVars, procVars, callVars, srvVars
  <2>4. Ready' /\ SignalSaves'
    BY Zenon, <1>14, LoopConfig, Answered DEF OpenFails, OpenFailsReleasing, Replies, TypeOK,
       Up, At, Ready, Holds, InOpen, SignalSaves, OnlyLive, loopVars, procVars, callVars,
       srvVars
  <2> QED
    BY <2>1, <2>2, <2>3, <2>4
<1>15. ASSUME OpenCancelled PROVE IInv'
  <2>1. TypeOK'
    BY <1>15, LoopConfig DEF OpenCancelled, TypeOK, Up, At, Pcs, InIda, Exits, Callers,
       Replies, loopVars, procVars, callVars, srvVars
  <2>2. Tickets'
    BY Zenon, <1>15, LoopConfig DEF OpenCancelled, TypeOK, Up, At, Tickets, loopVars, procVars,
       callVars, srvVars
  <2>3. Holds'
    BY Zenon, <1>15, LoopConfig DEF OpenCancelled, TypeOK, Up, At, Holds, InOpen, OnlyLive,
       Tickets, Ticket, Ready, loopVars, procVars, callVars, srvVars
  <2>4. Ready' /\ SignalSaves'
    BY Zenon, <1>15, LoopConfig DEF OpenCancelled, TypeOK, Up, At, Ready, Holds, InOpen,
       SignalSaves, OnlyLive, loopVars, procVars, callVars, srvVars
  <2> QED
    BY <2>1, <2>2, <2>3, <2>4
<1>16. ASSUME OpenDone PROVE IInv'
  <2>1. TypeOK' /\ Tickets'
    <3>1. CASE ~Exhausted
      <4>1. next_gen + 1 \in 0 .. MaxGen /\ AnswerOpened(next_gen + 1, next_gen + 1)
        BY <1>16, <3>1, LoopConfig DEF OpenDone, Exhausted, TypeOK, Tickets
      <4>2. Answer("ok")
        BY Zenon, <4>1 DEF AnswerOpened
      <4>3. idb' \in Paths \cup {None}
        BY Zenon, <1>16, <3>1, CurTyped DEF OpenDone
      <4>4. next_gen' \in 0 .. MaxGen /\ gen' \in 0 .. next_gen' /\ life' = next_gen' /\ gen' = next_gen' /\ life' \in Nat
        BY <1>16, <3>1, <4>1, LoopConfig DEF OpenDone, TypeOK, Tickets
      <4> QED
        BY <1>16, <4>1, <4>2, <4>3, <4>4, Answered, OpenedAnswered DEF OpenDone, Replies,
           TypeOK, Pcs, Tickets, procVars, srvVars
    <3>2. CASE Exhausted
      BY <1>16, <3>2 DEF OpenDone, TypeOK, Pcs, InIda, Tickets, procVars, srvVars, callVars
    <3> QED
      BY Zenon, <3>1, <3>2
  <2>2. Holds'
    BY <1>16, LoopConfig, Answered DEF OpenDone, Exhausted, AnswerOpened, Keep, Replies,
       TypeOK, Up, At, Holds, InOpen, OnlyLive, Tickets, Ticket, Ready, loopVars, procVars,
       callVars, srvVars
  <2>3. Ready' /\ SignalSaves'
    BY Zenon, <1>16, LoopConfig, Answered DEF OpenDone, Exhausted, AnswerOpened, Keep, Replies,
       TypeOK, Up, At, Ready, Holds, InOpen, SignalSaves, OnlyLive, loopVars, procVars,
       callVars, srvVars
  <2> QED
    BY <2>1, <2>2, <2>3
<1>17. ASSUME OpenUndone PROVE IInv'
  <2>1. TypeOK'
    BY ZenonT(30), <1>17, LoopConfig, Answered DEF OpenUndone, Replies, TypeOK, Up, At, Pcs, InIda, Exits,
       Callers, loopVars, procVars, callVars, srvVars
  <2>2. Tickets'
    BY Zenon, <1>17, LoopConfig, Answered DEF OpenUndone, Replies, TypeOK, Up, At, Tickets,
       loopVars, procVars, callVars, srvVars
  <2>3. Holds'
    BY <1>17, LoopConfig, Answered DEF OpenUndone, Replies, TypeOK, Up, At, Holds, InOpen,
       OnlyLive, Tickets, Ticket, Ready, loopVars, procVars, callVars, srvVars
  <2>4. Ready' /\ SignalSaves'
    BY Zenon, <1>17, LoopConfig, Answered DEF OpenUndone, Replies, TypeOK, Up, At, Ready,
       Holds, InOpen, SignalSaves, OnlyLive, loopVars, procVars, callVars, srvVars
  <2> QED
    BY <2>1, <2>2, <2>3, <2>4
<1>18. ASSUME Close PROVE IInv'
  <2>1. TypeOK'
    BY <1>18, LoopConfig, Answered DEF Close, Served, RequireGeneration, StartDrop, Replies,
       TypeOK, Up, At, Pcs, InIda, Exits, Callers, loopVars, procVars, callVars, srvVars
  <2>2. Tickets'
    BY Zenon, <1>18, LoopConfig, Answered DEF Close, Served, RequireGeneration, StartDrop,
       Replies, TypeOK, Up, At, Tickets, loopVars, procVars, callVars, srvVars
  <2>3. Holds'
    BY <1>18, LoopConfig, Answered DEF Close, Served, RequireGeneration, StartDrop, Replies,
       TypeOK, Up, At, Holds, InOpen, OnlyLive, Tickets, Ticket, Ready, loopVars, procVars,
       callVars, srvVars
  <2>4. Ready' /\ SignalSaves'
    BY Zenon, <1>18, LoopConfig, Answered DEF Close, Served, RequireGeneration, StartDrop,
       Replies, TypeOK, Up, At, Ready, Holds, InOpen, SignalSaves, OnlyLive, loopVars,
       procVars, callVars, srvVars
  <2> QED
    BY <2>1, <2>2, <2>3, <2>4
<1>19. ASSUME CloseDone PROVE IInv'
  <2>1. TypeOK'
    <3>1. gen' \in 0 .. next_gen'
      BY <1>19, LoopConfig DEF CloseDone, TypeOK
    <3>2. disk' \in [Paths -> {"packed", "live", "left"}]
      BY Zenon, <1>19 DEF CloseDone, TypeOK
    <3> QED
      BY <1>19, <3>1, <3>2, Answered DEF CloseDone, Replies, TypeOK, Pcs, procVars, srvVars
  <2>2. Tickets'
    BY Zenon, <1>19, LoopConfig, Answered DEF CloseDone, Replies, TypeOK, Up, At, Tickets,
       loopVars, procVars, callVars, srvVars
  <2>3. Holds'
    BY <1>19, LoopConfig, Answered DEF CloseDone, Replies, TypeOK, Up, At, Holds, InOpen,
       OnlyLive, Tickets, Ticket, Ready, loopVars, procVars, callVars, srvVars
  <2>4. Ready' /\ SignalSaves'
    BY Zenon, <1>19, LoopConfig, Answered DEF CloseDone, Replies, TypeOK, Up, At, Ready, Holds,
       InOpen, SignalSaves, OnlyLive, loopVars, procVars, callVars, srvVars
  <2> QED
    BY <2>1, <2>2, <2>3, <2>4
<1>20. ASSUME Refuse PROVE IInv'
  <2>1. TypeOK'
    BY <1>20, LoopConfig, Answered DEF Refuse, Served, Replies, TypeOK, Up, At, Pcs, InIda,
       Exits, Callers, loopVars, procVars, callVars, srvVars
  <2>2. Tickets'
    BY Zenon, <1>20, LoopConfig, Answered DEF Refuse, Served, Replies, TypeOK, Up, At, Tickets,
       loopVars, procVars, callVars, srvVars
  <2>3. Holds'
    BY Zenon, <1>20, LoopConfig, Answered DEF Refuse, Served, Replies, TypeOK, Up, At, Holds,
       InOpen, OnlyLive, Tickets, Ticket, Ready, loopVars, procVars, callVars, srvVars
  <2>4. Ready' /\ SignalSaves'
    BY Zenon, <1>20, LoopConfig, Answered DEF Refuse, Served, Replies, TypeOK, Up, At, Ready,
       Holds, InOpen, SignalSaves, OnlyLive, loopVars, procVars, callVars, srvVars
  <2> QED
    BY <2>1, <2>2, <2>3, <2>4
<1>21. ASSUME Operate PROVE IInv'
  <2>1. TypeOK'
    BY Zenon, <1>21, LoopConfig DEF Operate, Served, TypeOK, Up, At, Pcs, InIda, Exits,
       Callers, Replies, loopVars, procVars, callVars, srvVars
  <2>2. Tickets'
    BY Zenon, <1>21, LoopConfig DEF Operate, Served, TypeOK, Up, At, Tickets, loopVars,
       procVars, callVars, srvVars
  <2>3. Holds'
    BY Zenon, <1>21, LoopConfig DEF Operate, Served, TypeOK, Up, At, Holds, InOpen, OnlyLive,
       Tickets, Ticket, Ready, loopVars, procVars, callVars, srvVars
  <2>4. Ready' /\ SignalSaves'
    BY Zenon, <1>21, LoopConfig DEF Operate, Served, TypeOK, Up, At, Ready, Holds, InOpen,
       SignalSaves, OnlyLive, loopVars, procVars, callVars, srvVars
  <2> QED
    BY <2>1, <2>2, <2>3, <2>4
<1>22. ASSUME Operated PROVE IInv'
  <2>1. TypeOK'
    BY <1>22, LoopConfig, Answered DEF Operated, Replies, TypeOK, Up, At, Pcs, InIda, Exits,
       Callers, loopVars, procVars, callVars, srvVars
  <2>2. Tickets'
    BY Zenon, <1>22, LoopConfig, Answered DEF Operated, Replies, TypeOK, Up, At, Tickets,
       loopVars, procVars, callVars, srvVars
  <2>3. Holds'
    BY Zenon, <1>22, LoopConfig, Answered DEF Operated, Replies, TypeOK, Up, At, Holds, InOpen,
       OnlyLive, Tickets, Ticket, Ready, loopVars, procVars, callVars, srvVars
  <2>4. Ready' /\ SignalSaves'
    BY Zenon, <1>22, LoopConfig, Answered DEF Operated, Replies, TypeOK, Up, At, Ready, Holds,
       InOpen, SignalSaves, OnlyLive, loopVars, procVars, callVars, srvVars
  <2> QED
    BY <2>1, <2>2, <2>3, <2>4
<1>23. ASSUME Crash PROVE IInv'
  <2>1. TypeOK'
    BY <1>23, LoopConfig, Answered DEF Crash, Replies, TypeOK, Up, At, Pcs, InIda, Exits,
       Callers, loopVars, procVars, callVars, srvVars
  <2>2. Tickets'
    BY Zenon, <1>23, LoopConfig, Answered DEF Crash, Replies, TypeOK, Up, At, Tickets,
       loopVars, procVars, callVars, srvVars
  <2>3. Holds'
    BY Zenon, <1>23, LoopConfig, Answered DEF Crash, Replies, TypeOK, Up, At, Holds, InOpen,
       OnlyLive, Tickets, Ticket, Ready, loopVars, procVars, callVars, srvVars
  <2>4. Ready' /\ SignalSaves'
    BY Zenon, <1>23, LoopConfig, Answered DEF Crash, Replies, TypeOK, Up, At, Ready, Holds,
       InOpen, SignalSaves, OnlyLive, loopVars, procVars, callVars, srvVars
  <2> QED
    BY <2>1, <2>2, <2>3, <2>4
<1>24. ASSUME Shutdown PROVE IInv'
  <2>1. TypeOK'
    BY Zenon, <1>24, LoopConfig DEF Shutdown, ShutdownCleanup, TypeOK, Up, At, Pcs, InIda,
       Exits, Callers, Replies, loopVars, procVars, callVars, srvVars
  <2>2. Tickets'
    BY Zenon, <1>24, LoopConfig DEF Shutdown, ShutdownCleanup, TypeOK, Up, At, Tickets,
       loopVars, procVars, callVars, srvVars
  <2>3. Holds'
    BY <1>24, LoopConfig DEF Shutdown, ShutdownCleanup, TypeOK, Up, At, Holds, InOpen,
       OnlyLive, Tickets, Ticket, Ready, loopVars, procVars, callVars, srvVars
  <2>4. Ready' /\ SignalSaves'
    BY Zenon, <1>24, LoopConfig DEF Shutdown, ShutdownCleanup, TypeOK, Up, At, Ready, Holds,
       InOpen, SignalSaves, OnlyLive, loopVars, procVars, callVars, srvVars
  <2> QED
    BY <2>1, <2>2, <2>3, <2>4
<1>25. ASSUME ShutdownPacked PROVE IInv'
  <2>1. TypeOK'
    BY Zenon, <1>25, LoopConfig DEF ShutdownPacked, TypeOK, Up, At, Pcs, InIda, Exits, Callers,
       Replies, loopVars, procVars, callVars, srvVars
  <2>2. Tickets'
    BY Zenon, <1>25, LoopConfig DEF ShutdownPacked, TypeOK, Up, At, Tickets, loopVars,
       procVars, callVars, srvVars
  <2>3. Holds'
    BY Zenon, <1>25, LoopConfig DEF ShutdownPacked, TypeOK, Up, At, Holds, InOpen, OnlyLive,
       Tickets, Ticket, Ready, loopVars, procVars, callVars, srvVars
  <2>4. Ready' /\ SignalSaves'
    BY Zenon, <1>25, LoopConfig DEF ShutdownPacked, TypeOK, Up, At, Ready, Holds, InOpen,
       SignalSaves, OnlyLive, loopVars, procVars, callVars, srvVars
  <2> QED
    BY <2>1, <2>2, <2>3, <2>4
<1>26. ASSUME PostLoop PROVE IInv'
  <2>1. TypeOK'
    <3>1. CASE caught
      BY Zenon, <1>26, <3>1 DEF PostLoop, TypeOK, Exits, srvVars
    <3>2. CASE ~caught
      <4>1. queue' = <<>>
        BY Zenon, <1>26, <3>2 DEF PostLoop
      <4>2. /\ call' \in [Callers -> {"idle", "wait", "cancelled", "retry:close", "retry:closeif"}]
            /\ reply' \in [Callers -> {"none", "ok", "err", "closed", "stale"}]
        BY Zenon, <1>26, <3>2 DEF PostLoop, TypeOK
      <4> QED
        BY Zenon, <1>26, <3>2, <4>1, <4>2, EmptyTyped DEF PostLoop, TypeOK, Pcs, srvVars
    <3> QED
      BY Zenon, <3>1, <3>2
  <2>2. Tickets'
    BY <1>26, LoopConfig DEF PostLoop, TypeOK, Up, At, Tickets, loopVars, procVars, callVars,
       srvVars
  <2>3. Holds'
    BY Zenon, <1>26, LoopConfig DEF PostLoop, TypeOK, Up, At, Holds, InOpen, OnlyLive, Tickets,
       Ticket, Ready, loopVars, procVars, callVars, srvVars
  <2>4. Ready' /\ SignalSaves'
    BY Zenon, <1>26, LoopConfig DEF PostLoop, TypeOK, Up, At, Ready, Holds, InOpen,
       SignalSaves, OnlyLive, loopVars, procVars, callVars, srvVars
  <2> QED
    BY <2>1, <2>2, <2>3, <2>4
<1>27. ASSUME Joined PROVE IInv'
  <2>1. TypeOK'
    BY Zenon, <1>27, LoopConfig DEF Joined, TypeOK, Up, At, Pcs, InIda, Exits, Callers,
       Replies, loopVars, procVars, callVars, srvVars
  <2>2. Tickets'
    BY Zenon, <1>27, LoopConfig DEF Joined, TypeOK, Up, At, Tickets, loopVars, procVars,
       callVars, srvVars
  <2>3. Holds'
    BY Zenon, <1>27, LoopConfig DEF Joined, TypeOK, Up, At, Holds, InOpen, OnlyLive, Tickets,
       Ticket, Ready, loopVars, procVars, callVars, srvVars
  <2>4. Ready' /\ SignalSaves'
    BY Zenon, <1>27, LoopConfig DEF Joined, TypeOK, Up, At, Ready, Holds, InOpen, SignalSaves,
       OnlyLive, loopVars, procVars, callVars, srvVars
  <2> QED
    BY <2>1, <2>2, <2>3, <2>4
<1>28. ASSUME GraceOver PROVE IInv'
  <2>1. TypeOK'
    BY <1>28, LoopConfig DEF GraceOver, TypeOK, Up, At, Pcs, InIda, Exits, Callers, Replies,
       loopVars, procVars, callVars, srvVars
  <2>2. Tickets'
    BY Zenon, <1>28, LoopConfig DEF GraceOver, TypeOK, Up, At, Tickets, loopVars, procVars,
       callVars, srvVars
  <2>3. Holds'
    BY Zenon, <1>28, LoopConfig DEF GraceOver, TypeOK, Up, At, Holds, InOpen, OnlyLive,
       Tickets, Ticket, Ready, loopVars, procVars, callVars, srvVars
  <2>4. Ready' /\ SignalSaves'
    BY Zenon, <1>28, LoopConfig DEF GraceOver, TypeOK, Up, At, Ready, Holds, InOpen,
       SignalSaves, OnlyLive, loopVars, procVars, callVars, srvVars
  <2> QED
    BY <2>1, <2>2, <2>3, <2>4
<1>29. ASSUME Signal PROVE IInv'
  <2>1. TypeOK'
    <3>1. requested' \in BOOLEAN
      BY <1>29, Zenon DEF Signal, TypeOK
    <3>2. proc' \in {"up"} \cup Exits
      BY Zenon, <1>29 DEF Signal, TypeOK, Exits
    <3> QED
      BY Zenon, <1>29, <3>1, <3>2 DEF Signal, TypeOK, loopVars, srvVars, callVars
  <2>2. Tickets'
    BY Zenon, <1>29, LoopConfig DEF Signal, TypeOK, Up, At, Tickets, loopVars, procVars,
       callVars, srvVars
  <2>3. Holds'
    BY Zenon, <1>29, LoopConfig DEF Signal, TypeOK, Up, At, Holds, InOpen, OnlyLive, Tickets,
       Ticket, Ready, loopVars, procVars, callVars, srvVars
  <2>4. Ready' /\ SignalSaves'
    BY Zenon, <1>29, LoopConfig DEF Signal, TypeOK, Up, At, Ready, Holds, InOpen, SignalSaves,
       OnlyLive, loopVars, procVars, callVars, srvVars
  <2> QED
    BY <2>1, <2>2, <2>3, <2>4
<1>30. ASSUME Disconnect PROVE IInv'
  <2>1. TypeOK'
    BY <1>30, LoopConfig DEF Disconnect, TypeOK, Up, At, Pcs, InIda, Exits, Callers, Replies,
       loopVars, procVars, callVars, srvVars
  <2>2. Tickets'
    BY Zenon, <1>30, LoopConfig DEF Disconnect, TypeOK, Up, At, Tickets, loopVars, procVars,
       callVars, srvVars
  <2>3. Holds'
    BY Zenon, <1>30, LoopConfig DEF Disconnect, TypeOK, Up, At, Holds, InOpen, OnlyLive,
       Tickets, Ticket, Ready, loopVars, procVars, callVars, srvVars
  <2>4. Ready' /\ SignalSaves'
    BY Zenon, <1>30, LoopConfig DEF Disconnect, TypeOK, Up, At, Ready, Holds, InOpen,
       SignalSaves, OnlyLive, loopVars, procVars, callVars, srvVars
  <2> QED
    BY <2>1, <2>2, <2>3, <2>4
<1>31. ASSUME ServerClosed PROVE IInv'
  <2>1. TypeOK'
    BY <1>31, LoopConfig DEF ServerClosed, TypeOK, Up, At, Pcs, InIda, Exits, Callers, Replies,
       loopVars, procVars, callVars, srvVars
  <2>2. Tickets'
    BY Zenon, <1>31, LoopConfig DEF ServerClosed, TypeOK, Up, At, Tickets, loopVars, procVars,
       callVars, srvVars
  <2>3. Holds'
    BY Zenon, <1>31, LoopConfig DEF ServerClosed, TypeOK, Up, At, Holds, InOpen, OnlyLive,
       Tickets, Ticket, Ready, loopVars, procVars, callVars, srvVars
  <2>4. Ready' /\ SignalSaves'
    BY Zenon, <1>31, LoopConfig DEF ServerClosed, TypeOK, Up, At, Ready, Holds, InOpen,
       SignalSaves, OnlyLive, loopVars, procVars, callVars, srvVars
  <2> QED
    BY <2>1, <2>2, <2>3, <2>4
<1>32. ASSUME ServerStop PROVE IInv'
  <2>1. TypeOK' /\ Tickets'
    <3> DEFINE r == [NoRequest EXCEPT !.kind = "shutdown"]
    <3>1. r \in Requests /\ Ticket(r)
      BY LoopConfig DEF NoRequest, Requests, Kinds, Ticket
    <3>2. late' \in BOOLEAN /\ srv' \in {"serving", "close", "closewait", "stop", "stopped", "done"}
      BY <1>32, Zenon DEF ServerStop, TypeOK
    <3>3. CASE UNCHANGED queue
      BY Zenon, <1>32, <3>2, <3>3 DEF ServerStop, TypeOK, Tickets, loopVars, procVars, callVars
    <3>4. CASE Room /\ queue' = Append(queue, r)
      <4> HIDE DEF r
      <4>1. queue' \in Seq(Requests) /\ Len(queue') <= Capacity /\ \A i \in DOMAIN queue' : Ticket(queue'[i])
        BY Zenon, <3>1, <3>4, Sent
      <4> QED
        BY Zenon, <1>32, <3>2, <4>1 DEF ServerStop, TypeOK, Tickets, loopVars, procVars,
           callVars
    <3> QED
      BY Zenon, <1>32, <3>3, <3>4 DEF ServerStop
  <2>2. Holds'
    BY Zenon, <1>32, LoopConfig DEF ServerStop, Room, NoRequest, TypeOK, Up, At, Holds, InOpen,
       OnlyLive, Tickets, Ticket, Ready, loopVars, procVars, callVars, srvVars
  <2>3. Ready' /\ SignalSaves'
    BY Zenon, <1>32, LoopConfig DEF ServerStop, Room, NoRequest, TypeOK, Up, At, Ready, Holds,
       InOpen, SignalSaves, OnlyLive, loopVars, procVars, callVars, srvVars
  <2> QED
    BY <2>1, <2>2, <2>3
<1>33. ASSUME ServerDone PROVE IInv'
  <2>1. TypeOK'
    BY <1>33, LoopConfig DEF ServerDone, TypeOK, Up, At, Pcs, InIda, Exits, Callers, Replies,
       loopVars, procVars, callVars, srvVars
  <2>2. Tickets'
    BY Zenon, <1>33, LoopConfig DEF ServerDone, TypeOK, Up, At, Tickets, loopVars, procVars,
       callVars, srvVars
  <2>3. Holds'
    BY Zenon, <1>33, LoopConfig DEF ServerDone, TypeOK, Up, At, Holds, InOpen, OnlyLive,
       Tickets, Ticket, Ready, loopVars, procVars, callVars, srvVars
  <2>4. Ready' /\ SignalSaves'
    BY Zenon, <1>33, LoopConfig DEF ServerDone, TypeOK, Up, At, Ready, Holds, InOpen,
       SignalSaves, OnlyLive, loopVars, procVars, callVars, srvVars
  <2> QED
    BY <2>1, <2>2, <2>3, <2>4
<1>34. ASSUME NEW c \in Clients, ClientSend(c) PROVE IInv'
  <2>1. late' = late /\ srv' \in {"serving", "close", "closewait", "stop", "stopped", "done"} /\ c \in Callers
    BY Zenon, <1>34 DEF ClientSend, srvVars, TypeOK, Callers
  <2>2. CASE \E p \in Paths : Send(c, "open", p)
    BY Zenon, <2>1, <2>2, SendKeeps, LoopConfig DEF Kinds
  <2>3. CASE \E k \in {"free", "close", "bound", "closeif"} : Send(c, k, None)
    BY Zenon, <2>1, <2>3, SendKeeps DEF Kinds
  <2> QED
    BY Zenon, <1>34, <2>2, <2>3 DEF ClientSend
<1>35. ASSUME NEW c \in Clients, NEW k \in {"close", "closeif"}, Retry(c, k) PROVE IInv'
  BY Zenon, <1>35, RetryKeeps DEF Callers
<1>36. ASSUME NEW c \in Clients, CancelOpen(c) PROVE IInv'
  <2>1. Holds' /\ Ready' /\ SignalSaves'
    BY Zenon, <1>36, Aside DEF CancelOpen, loopVars
  <2>2. call' \in [Callers -> {"idle", "wait", "cancelled", "retry:close", "retry:closeif"}]
    BY Zenon, <1>36 DEF CancelOpen, TypeOK
  <2>3. UNCHANGED <<pc, loopVars, queue, procVars, disk, srvVars, reply, given, given_life>>
    BY Zenon, <1>36 DEF CancelOpen
  <2>4. TypeOK' /\ Tickets'
    BY <2>2, <2>3 DEF TypeOK, Tickets, loopVars, procVars, srvVars
  <2> QED
    BY Zenon, <2>1, <2>4
<1>37. ASSUME NEW c \in Clients, GiveUp(c) PROVE IInv'
  BY Zenon, <1>37, GivenUp DEF GiveUp, Callers, srvVars, TypeOK
<1>38. ASSUME ServerClose PROVE IInv'
  BY Zenon, <1>38, SendKeeps DEF ServerClose, Callers, Kinds
<1>39. ASSUME Retry(Server, "close") PROVE IInv'
  BY Zenon, <1>39, RetryKeeps DEF Callers
<1>40. ASSUME ServerCloseLate PROVE IInv'
  BY Zenon, <1>40, GivenUp DEF ServerCloseLate, Callers
<1>41. ASSUME UNCHANGED vars PROVE IInv'
  <2>1. Holds' /\ Ready' /\ SignalSaves'
    BY Zenon, <1>41, Aside DEF vars, loopVars
  <2>2. TypeOK' /\ Tickets'
    BY <1>41 DEF vars, TypeOK, Tickets, loopVars, procVars, srvVars, callVars
  <2> QED
    BY Zenon, <2>1, <2>2
<1> QED
  BY Zenon, <1>1, <1>2, <1>3, <1>4, <1>5, <1>6, <1>7, <1>8, <1>9, <1>10, <1>11, <1>12, <1>13,
     <1>14, <1>15, <1>16, <1>17, <1>18, <1>19, <1>20, <1>21, <1>22, <1>23, <1>24, <1>25, <1>26, <1>27, <1>28, <1>29, <1>30, <1>31, <1>32, <1>33, <1>34, <1>35, <1>36, <1>37, <1>38, <1>39, <1>40, <1>41
     DEF Next, LoopStep, ClientStep, ServerStep, Gone

LEMMA Invariance == Spec => []IInv
  BY InitIInv, StepIInv, PTL DEF Spec
-----------------------------------------------------------------------------
\* The loop enters IDA only where it has not caught a signal; from the gates,
\* only by an operation or a close.
LEMMA EntersIda ==
  ASSUME IInv, Next, pc' \in InIda, pc' # pc
  PROVE  ~caught /\ (pc = "gate" /\ pc' \in {"ida", "closing"} => Operate \/ Close)
<1> USE DEF InIda
<1>1. ASSUME LoopStep PROVE ~caught /\ (pc = "gate" /\ pc' \in {"ida", "closing"} => Operate \/ Close)
  <2>1. CASE InterruptedShutdown
    BY Zenon, <2>1 DEF InterruptedShutdown, InterruptedSaves, InterruptedForgets, At
  <2>2. CASE NotInterrupted \/ Recv \/ SaveDone \/ InitLibrary \/ InitOk \/ OpenLock \/ PostLoop \/ Joined \/ ShutdownPacked
    BY Zenon, <2>2 DEF NotInterrupted, Recv, RecvTimeout, SaveDone, InitLibrary, InitOk,
       InitOkArmed, OpenLock, PostLoop, Joined, ShutdownPacked, loopVars
  <2>3. CASE Retired \/ StartInit \/ InitFails \/ FaultRejects
    BY Zenon, <2>3 DEF Retired, RetiredDrops, StartInit, InitFails, InitRejects, FaultRejects,
       Reject, Answer
  <2>4. CASE OpenRefused \/ OpenFails \/ OpenUndone \/ CloseDone \/ Refuse \/ Operated \/ Crash
    BY Zenon, <2>4 DEF OpenRefused, AnswerOpened, OpenFails, OpenUndone, CloseDone, Refuse,
       Operated, Crash, Answer
  <2>5. CASE OpenUnpack \/ OpenCancelled \/ OpenDone
    BY Zenon, <2>5 DEF OpenUnpack, OpenCancelled, OpenDone, AnswerOpened, Answer, At, IInv,
       Ready
  <2>6. CASE Close \/ Operate \/ Shutdown
    BY Zenon, <2>6 DEF Close, Operate, Shutdown, ShutdownCleanup, Served, At
  <2> QED
    BY Zenon, <1>1, <2>1, <2>2, <2>3, <2>4, <2>5, <2>6 DEF LoopStep
<1>2. ASSUME NEW c \in Clients, ClientStep(c) PROVE FALSE
  BY Zenon, <1>2 DEF ClientStep, ClientSend, Send, Retry, CancelOpen, GiveUp
<1>3. CASE ServerStep \/ ServerCloseLate \/ Disconnect \/ GraceOver \/ Signal \/ Gone
  BY Zenon, <1>3 DEF ServerStep, ServerClose, Send, Retry, ServerClosed, ServerStop,
     ServerDone, ServerCloseLate,
              Disconnect, GraceOver, Signal, Gone, vars
<1> QED
  BY Zenon, <1>1, <1>2, <1>3 DEF Next

\* With no database open nothing is unpacked and nothing locked.
LEMMA AtRest ==
  ASSUME IInv, Up, pc \notin InOpen, idb = None
  PROVE  lock = None /\ \A p \in Paths : disk[p] # "live"
  BY Zenon, LoopConfig DEF IInv, Holds, OnlyLive

\* A close is answered "closed" by one that released everything.
Released == ~caught /\ idb' = None /\ lock' = None /\ \A p \in Paths : disk'[p] # "live"

LEMMA AnsweredClosed ==
  ASSUME IInv, Next, NEW c \in Callers, reply[c] # "closed", reply'[c] = "closed"
  PROVE  Released
<1> USE DEF IInv
<1>1. ASSUME NEW r \in Replies, Answer(r) PROVE r = "closed"
  BY Zenon, <1>1, Answered
<1>2. CASE Retired \/ OpenRefused \/ OpenFails \/ OpenDone \/ OpenUndone \/ Refuse \/ Operated \/ Crash
  BY Zenon, <1>1, <1>2 DEF Retired, RetiredDrops, OpenRefused, OpenFails, OpenDone,
     AnswerOpened, OpenUndone, Refuse,
                    Operated, Crash, Replies, callVars
<1>3. CASE StartInit \/ InitFails \/ FaultRejects
  <2>1. Up /\ pc \notin InOpen /\ idb = None /\ ~caught
    BY Zenon, <1>3 DEF StartInit, InitFails, FaultRejects, At, InOpen, Ready
  <2>2. UNCHANGED <<idb, lock, disk>>
    BY Zenon, <1>3 DEF StartInit, InitFails, FaultRejects
  <2> QED
    BY Zenon, <2>1, <2>2, AtRest DEF Released
<1>4. CASE Close
  <2>1. Up /\ pc \notin InOpen /\ ~caught
    BY Zenon, <1>4 DEF Close, Served, At, InOpen
  <2>2. idb = None /\ lock' = None /\ idb' = idb /\ disk' = disk
    BY Zenon, <1>4 DEF Close
  <2> QED
    BY Zenon, <2>1, <2>2, AtRest DEF Released
<1>5. CASE CloseDone
  <2>1. Up /\ pc = "closing" /\ ~caught /\ idb # None
    BY Zenon, <1>5 DEF CloseDone, At, Ready, Holds
  <2>2. OnlyLive(idb) /\ idb \in Paths
    BY Zenon, <2>1 DEF Holds, InOpen, TypeOK
  <2>3. \A p \in Paths : disk'[p] # "live"
    BY Zenon, <1>5, <2>2 DEF CloseDone, OnlyLive, TypeOK
  <2> QED
    BY Zenon, <1>5, <2>1, <2>3 DEF CloseDone, Released
<1>6. CASE PostLoop
  BY Zenon, <1>6 DEF PostLoop
<1>7. CASE \/ InterruptedShutdown \/ SaveDone \/ NotInterrupted \/ Recv \/ InitLibrary \/ InitOk \/ OpenLock
           \/ OpenUnpack \/ OpenCancelled \/ Operate \/ Shutdown \/ ShutdownPacked \/ Joined
  BY Zenon, <1>7 DEF InterruptedShutdown, SaveDone, NotInterrupted, Recv, InitLibrary, InitOk,
     OpenLock, OpenUnpack,
              OpenCancelled, Operate, Shutdown, ShutdownCleanup, ShutdownPacked, Joined,
              callVars
<1>8. ASSUME NEW d \in Callers, NEW k, NEW p, Send(d, k, p) PROVE FALSE
  BY Zenon, <1>8 DEF Send, Enqueue, Settle, TypeOK
<1>9. ASSUME NEW d \in Callers, NEW k, Retry(d, k) PROVE FALSE
  BY Zenon, <1>9 DEF Retry, Enqueue, Settle, TypeOK
<1>10. ASSUME NEW d \in Clients, CancelOpen(d) \/ GiveUp(d) PROVE FALSE
  <2>1. reply' = reply \/ Settle(d, "err")
    BY Zenon, <1>10 DEF CancelOpen, GiveUp
  <2> QED
    BY Zenon, <2>1 DEF Settle, TypeOK
<1>11. CASE ServerCloseLate
  BY Zenon, <1>11 DEF ServerCloseLate, Settle, TypeOK
<1>12. CASE ServerClosed \/ ServerStop \/ ServerDone \/ Disconnect \/ GraceOver \/ Signal \/ Gone
  BY Zenon, <1>12 DEF ServerClosed, ServerStop, ServerDone, Disconnect, GraceOver, Signal,
     Gone, vars, callVars
<1> QED
  BY Zenon, <1>2, <1>3, <1>4, <1>5, <1>6, <1>7, <1>8, <1>9, <1>10, <1>11, <1>12
     DEF Next, LoopStep, ClientStep, ClientSend, ServerStep, ServerClose, Callers

-----------------------------------------------------------------------------
\* Everything keeps its type; a generation never passes the counter's limit
\* and the channel never its capacity.
THEOREM LoopTypeCorrect == Spec => []TypeOK
<1>1. IInv => TypeOK
  BY Zenon DEF IInv
<1> QED
  BY <1>1, Invariance, PTL

\* The lock covers a database for as long as it is unpacked: handle_open takes
\* it first, every close and both shutdowns give it up last.
THEOREM LockCoversTheDatabase == Spec => []LockCoversDatabase
<1>1. IInv => LockCoversDatabase
  BY Zenon, LoopConfig DEF IInv, Holds, OnlyLive, LockCoversDatabase
<1> QED
  BY <1>1, Invariance, PTL

\* Between requests the process holds a lock and a generation exactly when a
\* database is open.
THEOREM NoErrorPathLeaks == Spec => []NothingLeaks
<1>1. IInv => NothingLeaks
  BY Zenon DEF IInv, Holds, InOpen, NothingLeaks
<1> QED
  BY <1>1, Invariance, PTL

\* A process stopped by one signal leaves every database packed.
THEOREM OneSignalSaves == Spec => []SignalSaves
<1>1. IInv => SignalSaves
  BY Zenon DEF IInv
<1> QED
  BY <1>1, Invariance, PTL

\* What is bound to a generation reaches only the database it was given for.
THEOREM BoundRequestsReachTheirDatabase == Spec => BoundToItsLifetime
<1>1. ASSUME IInv, [Next]_vars
      PROVE  [pc = "gate" /\ pc' \in {"ida", "closing"} /\ cur.kind \in {"bound", "closeif"}
                => idb # None /\ cur.life = life]_vars
  <2> SUFFICES ASSUME Next, pc = "gate", pc' \in {"ida", "closing"}, cur.kind \in {"bound", "closeif"}
               PROVE  idb # None /\ cur.life = life
    BY Zenon, <1>1
  <2>1. Operate \/ Close
    BY Zenon, <1>1, EntersIda DEF InIda
  <2>2. RequireGeneration(cur) /\ Up
    BY Zenon, <2>1 DEF Operate, Close, Served, At
  <2> QED
    BY Zenon, <1>1, <2>2 DEF RequireGeneration, IInv, Tickets, Ticket, Holds
<1> QED
  BY <1>1, Invariance, PTL DEF Spec, BoundToItsLifetime

\* After a caught signal the main thread stays out of IDA.
THEOREM RetiredWorkerStaysOut == Spec => QuietAfterCrash
<1>1. ASSUME IInv, [Next]_vars
      PROVE  [caught => pc' = pc \/ pc' \notin InIda]_vars
  BY Zenon, <1>1, EntersIda
<1> QED
  BY <1>1, Invariance, PTL DEF Spec, QuietAfterCrash

\* A caller told "closed" finds nothing unpacked and no lock held, by a worker
\* that can serve again.
THEOREM ClosedMeansReleased == Spec => CloseMeansClosed
<1>1. ASSUME IInv, [Next]_vars
      PROVE  [\A c \in Callers : reply[c] # "closed" /\ reply'[c] = "closed"
                => ~caught /\ idb' = None /\ lock' = None /\ \A p \in Paths : disk'[p] # "live"]_vars
  BY Zenon, <1>1, AnsweredClosed DEF Released
<1> QED
  BY <1>1, Invariance, PTL DEF Spec, CloseMeansClosed

-----------------------------------------------------------------------------
(* The lock file that handle_open takes and the loop's exits release         *)
(* (McpLock): FileHasKeeper and SweptClean, for any number of processes and  *)
(* of inodes.                                                                *)

Locking == {"probed", "write", "opening", "own", "unlink", "closefd"}

\* A process has its lock file open exactly from open to close.
OpenFiles == \A p \in Procs : fd[p] # Nobody <=> at[p] \in Locking \cup {"probe", "lock"}

\* The name is given inodes in order, so one that was unlinked never comes
\* back: a process that has unlinked the name is not its keeper any more.
InOrder ==
  /\ file # Nobody => file <= next
  /\ \A p \in Procs : /\ fd[p] # Nobody => fd[p] <= next
                      /\ at[p] = "closefd" => fd[p] # file

\* Who has the lock of an inode has that inode open.
LockedOpen == \A n \in Inodes : fcntl[n] # Nobody => fd[fcntl[n]] = n /\ at[fcntl[n]] \in Locking

\* Only the lock of a killed process is swept.
SweptDead == \A p \in Procs : sweep[p] # "wait" => at[p] = "dead"

\* The inductive invariant: FileHasKeeper alone is not one, because the loser of
\* a lock attempt stops keeping the file and leaves it to whoever has the lock.
KInv == LockTypeOK /\ OpenFiles /\ InOrder /\ LockedOpen /\ SweptDead /\ FileHasKeeper

LEMMA KInvInit == LockInit => KInv
  BY LockConfig
  DEF LockInit, KInv, LockTypeOK, PCs, Locking, OpenFiles, InOrder, LockedOpen, SweptDead,
  FileHasKeeper, Inodes

\* Steps that leave the files alone and only move a process between two points
\* that are alike for the invariant.
LEMMA KInvMove ==
  ASSUME KInv, NEW p \in Procs, NEW l \in PCs \ {"dead"}, Goto(p, l),
         UNCHANGED <<file, next, fcntl, fd, sweep>>, pid' \in [Inodes -> Procs \cup {Nobody}],
         at[p] # "closefd", l # "closefd", at[p] # "rmstale", at[p] # "dead",
         at[p] \in Locking <=> l \in Locking,
         at[p] \in {"probe", "lock"} <=> l \in {"probe", "lock"},
         at[p] # "lock"
  PROVE  KInv'
<1> USE DEF KInv, Goto
<1>1. LockTypeOK' BY Zenon DEF LockTypeOK
<1>2. OpenFiles' BY Zenon DEF OpenFiles, LockTypeOK
<1>3. InOrder' BY Zenon DEF InOrder, LockTypeOK
<1>4. LockedOpen' BY DEF LockedOpen, LockTypeOK
<1>5. SweptDead' BY Zenon DEF SweptDead, LockTypeOK
<1>6. FileHasKeeper' BY Zenon DEF FileHasKeeper, LockTypeOK, Locking, PCs
<1> QED BY Zenon, <1>1, <1>2, <1>3, <1>4, <1>5, <1>6

LEMMA KInvOpenStale == ASSUME KInv, NEW p \in Procs, OpenStale(p) PROVE KInv'
<1> USE LockConfig DEF KInv, OpenStale, Goto
<1>1. LockTypeOK' BY Zenon DEF LockTypeOK, PCs
<1>2. OpenFiles' BY Zenon DEF OpenFiles, LockTypeOK, Locking
<1>3. InOrder' BY Zenon DEF InOrder, OpenFiles, LockTypeOK, Locking
<1>4. LockedOpen' BY DEF LockedOpen, OpenFiles, LockTypeOK, Locking
<1>5. SweptDead' BY Zenon DEF SweptDead, LockTypeOK
<1>6. FileHasKeeper'
  BY DEF FileHasKeeper, SweptDead, OpenFiles, InOrder, LockedOpen, LockTypeOK, Locking
<1> QED BY Zenon, <1>1, <1>2, <1>3, <1>4, <1>5, <1>6

LEMMA KInvProbeStale == ASSUME KInv, NEW p \in Procs, ProbeStale(p) PROVE KInv'
<1> USE LockConfig DEF KInv, ProbeStale, Goto
<1>1. LockTypeOK' BY DEF LockTypeOK, PCs
<1>2. OpenFiles' BY Zenon DEF OpenFiles, LockTypeOK, Locking
<1>3. InOrder' BY Zenon DEF InOrder, OpenFiles, LockTypeOK, Locking
<1>4. LockedOpen' BY DEF LockedOpen, OpenFiles, LockTypeOK, Locking
<1>5. SweptDead' BY Zenon DEF SweptDead, LockTypeOK
<1>6. FileHasKeeper'
  BY DEF FileHasKeeper, SweptDead, OpenFiles, InOrder, LockedOpen, LockTypeOK, Locking
<1> QED BY Zenon, <1>1, <1>2, <1>3, <1>4, <1>5, <1>6

LEMMA KInvDropStale == ASSUME KInv, NEW p \in Procs, DropStale(p) PROVE KInv'
<1> USE LockConfig DEF KInv, DropStale, Goto, CloseFd
<1>1. LockTypeOK' BY Zenon DEF LockTypeOK, PCs
<1>2. OpenFiles' BY Zenon DEF OpenFiles, LockTypeOK, Locking
<1>3. InOrder' BY Zenon DEF InOrder, OpenFiles, LockTypeOK, Locking
<1>4. LockedOpen' BY DEF LockedOpen, OpenFiles, LockTypeOK, Locking
<1>5. SweptDead' BY Zenon DEF SweptDead, LockTypeOK
<1>6. FileHasKeeper'
  BY DEF FileHasKeeper, SweptDead, OpenFiles, InOrder, LockedOpen, LockTypeOK, Locking
<1> QED BY Zenon, <1>1, <1>2, <1>3, <1>4, <1>5, <1>6

LEMMA KInvRemoveStale == ASSUME KInv, NEW p \in Procs, RemoveStale(p) PROVE KInv'
<1> USE LockConfig DEF KInv, RemoveStale, Goto
<1>1. LockTypeOK' BY Zenon DEF LockTypeOK, PCs
<1>2. OpenFiles' BY Zenon DEF OpenFiles, LockTypeOK, Locking
<1>3. InOrder' BY Zenon DEF InOrder, OpenFiles, LockTypeOK, Locking
<1>4. LockedOpen' BY DEF LockedOpen, OpenFiles, LockTypeOK, Locking
<1>5. SweptDead' BY Zenon DEF SweptDead, LockTypeOK
<1>6. FileHasKeeper'
  BY Zenon DEF FileHasKeeper, SweptDead, OpenFiles, InOrder, LockedOpen, LockTypeOK, Locking
<1> QED BY Zenon, <1>1, <1>2, <1>3, <1>4, <1>5, <1>6

LEMMA KInvOpenFile == ASSUME KInv, NEW p \in Procs, OpenFile(p) PROVE KInv'
<1> USE LockConfig DEF KInv, OpenFile, Goto
<1>0. next < MaxInodes => next + 1 \in Inodes /\ next + 1 \in 0 .. MaxInodes
  BY DEF LockTypeOK, Inodes
<1>1. LockTypeOK' BY <1>0 DEF LockTypeOK, PCs
<1>2. OpenFiles' BY Zenon, <1>0 DEF OpenFiles, LockTypeOK, Locking
<1>3. InOrder' BY <1>0 DEF Inodes, InOrder, OpenFiles, LockTypeOK, Locking
<1>4. LockedOpen' BY <1>0 DEF LockedOpen, OpenFiles, LockTypeOK, Locking
<1>5. SweptDead' BY Zenon DEF SweptDead, LockTypeOK
<1>6. FileHasKeeper'
  BY <1>0 DEF FileHasKeeper, SweptDead, OpenFiles, InOrder, LockedOpen, LockTypeOK, Locking
<1> QED BY Zenon, <1>1, <1>2, <1>3, <1>4, <1>5, <1>6

LEMMA KInvTryLock == ASSUME KInv, NEW p \in Procs, TryLock(p) PROVE KInv'
<1> USE LockConfig DEF KInv, TryLock, Goto
<1>1. LockTypeOK' BY DEF LockTypeOK, PCs
<1>2. OpenFiles' BY Zenon DEF OpenFiles, LockTypeOK, Locking
<1>3. InOrder' BY Zenon DEF InOrder, OpenFiles, LockTypeOK, Locking
<1>4. LockedOpen' BY DEF LockedOpen, OpenFiles, LockTypeOK, Locking
<1>5. SweptDead' BY Zenon DEF SweptDead, LockTypeOK
<1>6. FileHasKeeper'
  BY DEF FileHasKeeper, SweptDead, OpenFiles, InOrder, LockedOpen, LockTypeOK, Locking
<1> QED BY Zenon, <1>1, <1>2, <1>3, <1>4, <1>5, <1>6

LEMMA KInvUnlink == ASSUME KInv, NEW p \in Procs, Unlink(p) PROVE KInv'
<1> USE LockConfig DEF KInv, Unlink, Goto
<1>1. LockTypeOK' BY Zenon DEF LockTypeOK, PCs
<1>2. OpenFiles' BY Zenon DEF OpenFiles, LockTypeOK, Locking
<1>3. InOrder' BY Zenon DEF InOrder, OpenFiles, LockTypeOK, Locking
<1>4. LockedOpen' BY DEF LockedOpen, OpenFiles, LockTypeOK, Locking
<1>5. SweptDead' BY Zenon DEF SweptDead, LockTypeOK
<1>6. FileHasKeeper'
  BY Zenon DEF FileHasKeeper, SweptDead, OpenFiles, InOrder, LockedOpen, LockTypeOK, Locking
<1> QED BY Zenon, <1>1, <1>2, <1>3, <1>4, <1>5, <1>6

LEMMA KInvRelease == ASSUME KInv, NEW p \in Procs, Release(p) PROVE KInv'
<1> USE LockConfig DEF KInv, Release, Goto, CloseFd
<1>1. LockTypeOK' BY Zenon DEF LockTypeOK, PCs
<1>2. OpenFiles' BY Zenon DEF OpenFiles, LockTypeOK, Locking
<1>3. InOrder' BY Zenon DEF InOrder, OpenFiles, LockTypeOK, Locking
<1>4. LockedOpen' BY DEF LockedOpen, OpenFiles, LockTypeOK, Locking
<1>5. SweptDead' BY Zenon DEF SweptDead, LockTypeOK
<1>6. FileHasKeeper'
  BY DEF FileHasKeeper, SweptDead, OpenFiles, InOrder, LockedOpen, LockTypeOK, Locking
<1> QED BY Zenon, <1>1, <1>2, <1>3, <1>4, <1>5, <1>6

LEMMA KInvKill == ASSUME KInv, NEW p \in Procs, Kill(p) PROVE KInv'
<1> USE LockConfig DEF KInv, Kill, Goto, CloseFd
<1>1. LockTypeOK' BY Zenon DEF LockTypeOK, PCs
<1>2. OpenFiles' BY Zenon DEF OpenFiles, LockTypeOK, Locking
<1>3. InOrder' BY Zenon DEF InOrder, OpenFiles, LockTypeOK, Locking
<1>4. LockedOpen' BY DEF LockedOpen, OpenFiles, LockTypeOK, Locking
<1>5. SweptDead' BY Zenon DEF SweptDead, LockTypeOK
<1>6. FileHasKeeper' BY Zenon DEF FileHasKeeper, LockTypeOK
<1> QED BY Zenon, <1>1, <1>2, <1>3, <1>4, <1>5, <1>6

LEMMA KInvSweep == ASSUME KInv, NEW p \in Procs, SweepRead(p) \/ SweepRemove(p) PROVE KInv'
<1> USE LockConfig DEF KInv, SweepRead, SweepRemove
<1>1. LockTypeOK' BY Zenon DEF LockTypeOK
<1>2. OpenFiles' BY Zenon DEF OpenFiles
<1>3. InOrder' BY DEF InOrder, OpenFiles, LockTypeOK, Locking
<1>4. LockedOpen' BY Zenon DEF LockedOpen
<1>5. SweptDead' BY Zenon DEF SweptDead, LockTypeOK
<1>6. FileHasKeeper' BY Zenon DEF FileHasKeeper, SweptDead, LockTypeOK
<1> QED BY Zenon, <1>1, <1>2, <1>3, <1>4, <1>5, <1>6

LEMMA KInvNext == KInv /\ [LockNext]_lockVars => KInv'
<1> SUFFICES ASSUME KInv, [LockNext]_lockVars PROVE KInv'
  OBVIOUS
<1>1. CASE UNCHANGED lockVars
  BY Zenon, <1>1 DEF lockVars, KInv, LockTypeOK, OpenFiles, InOrder, LockedOpen, SweptDead, FileHasKeeper
<1>2. ASSUME NEW p \in Procs,
             StartForced(p) \/ CheckStale(p) \/ Start(p) \/ WritePid(p)
               \/ OpenDatabase(p) \/ CloseDatabase(p)
      PROVE  KInv'
  <2>1. pid' \in [Inodes -> Procs \cup {Nobody}] /\ UNCHANGED <<file, next, fcntl, fd, sweep>>
    BY Zenon, <1>2 DEF KInv, LockTypeOK, StartForced, CheckStale, Start, WritePid, OpenDatabase,
       CloseDatabase
  <2> QED
    BY Zenon, <1>2, <2>1, KInvMove DEF StartForced, CheckStale, Start, WritePid, OpenDatabase,
       CloseDatabase, Locking, PCs
<1> QED
  BY Zenon, <1>1, <1>2, KInvKill, KInvSweep, KInvOpenStale, KInvProbeStale, KInvDropStale,
     KInvRemoveStale, KInvOpenFile, KInvTryLock, KInvUnlink, KInvRelease DEF LockNext

\* However many processes open, fail to open, close and force their way into the
\* database, none leaves a lock file behind as long as nobody has been killed.
THEOREM LockFilesHaveKeepers == LockSpec => []FileHasKeeper
<1>1. LockInit => KInv
  BY Zenon, KInvInit
<1>2. KInv => FileHasKeeper
  BY Zenon DEF KInv
<1> QED
  BY <1>1, <1>2, KInvNext, PTL DEF LockSpec

-----------------------------------------------------------------------------
\* An inode nobody has created yet carries no pid.
Fresh == \A n \in Inodes : n > next => pid[n] = Nobody

\* SweptClean needs both that a dead process writes no pid any more and that the
\* name never comes back to an old inode.
SInv == KInv /\ Fresh /\ SweptClean

LEMMA SInvWritePid == ASSUME SInv, NEW p \in Procs, WritePid(p) PROVE Fresh' /\ SweptClean'
<1> USE LockConfig DEF SInv, KInv, WritePid, Goto
<1>1. fd[p] \in Inodes /\ fd[p] <= next
  BY Zenon DEF OpenFiles, InOrder, LockTypeOK, Locking
<1>2. Fresh'
  BY <1>1 DEF Fresh, LockTypeOK, Inodes
<1>3. sweep[p] = "wait"
  BY Zenon DEF SweptDead
<1>4. SweptClean'
  BY Zenon, <1>1, <1>3 DEF SweptClean, LockTypeOK
<1> QED BY Zenon, <1>2, <1>4

LEMMA SInvOpenFile == ASSUME SInv, NEW p \in Procs, OpenFile(p) PROVE Fresh' /\ SweptClean'
<1> USE LockConfig DEF SInv, KInv, OpenFile, Goto
<1>1. next < MaxInodes => next + 1 \in Inodes /\ next + 1 > next
  BY DEF LockTypeOK, Inodes
<1>2. Fresh'
  BY <1>1 DEF Fresh, LockTypeOK, Inodes
<1>3. SweptClean'
  BY Zenon, <1>1 DEF SweptClean, Fresh, LockTypeOK
<1> QED BY Zenon, <1>2, <1>3

\* Steps that write no pid and give the name no inode.
LEMMA SInvOther ==
  ASSUME SInv, UNCHANGED <<next, pid>>, file' \in {file, Nobody},
         \A p \in Procs : sweep'[p] = "done" =>
           sweep[p] = "done" \/ file' = Nobody \/ (file' = file /\ pid[file] # p)
  PROVE  Fresh' /\ SweptClean'
BY Zenon DEF SInv, Fresh, SweptClean

LEMMA SInvSweep == ASSUME SInv, NEW q \in Procs, SweepRead(q) \/ SweepRemove(q) PROVE Fresh' /\ SweptClean'
<1>1. UNCHANGED <<next, pid>> /\ file' \in {file, Nobody}
  BY Zenon DEF SweepRead, SweepRemove
<1>2. ASSUME NEW p \in Procs, sweep'[p] = "done"
      PROVE  sweep[p] = "done" \/ file' = Nobody \/ (file' = file /\ pid[file] # p)
  BY Zenon, <1>2 DEF SInv, KInv, LockTypeOK, SweepRead, SweepRemove
<1> QED
  BY Zenon, <1>1, <1>2, SInvOther

LEMMA SInvNext == SInv /\ [LockNext]_lockVars => SInv'
<1> SUFFICES ASSUME SInv, [LockNext]_lockVars PROVE SInv'
  OBVIOUS
<1>1. KInv'
  BY Zenon, KInvNext DEF SInv
<1>2. CASE UNCHANGED lockVars
  BY Zenon, <1>1, <1>2 DEF lockVars, SInv, Fresh, SweptClean
<1>3. ASSUME NEW p \in Procs,
             \/ StartForced(p) \/ CheckStale(p) \/ OpenStale(p) \/ ProbeStale(p) \/ DropStale(p)
             \/ RemoveStale(p) \/ Start(p) \/ TryLock(p) \/ OpenDatabase(p)
             \/ CloseDatabase(p) \/ Unlink(p) \/ Release(p) \/ Kill(p)
      PROVE  Fresh' /\ SweptClean'
  <2>1. UNCHANGED <<next, pid, sweep>> /\ file' \in {file, Nobody}
    BY Zenon, <1>3 DEF StartForced, CheckStale, OpenStale, ProbeStale, DropStale, RemoveStale, Start,
                TryLock, OpenDatabase, CloseDatabase, Unlink, Release, Kill
  <2> QED
    BY Zenon, <2>1, SInvOther
<1> QED
  BY Zenon, <1>1, <1>2, <1>3, SInvWritePid, SInvOpenFile, SInvSweep DEF LockNext, SInv

\* Once remove_mcp_lock_for_pid has swept up after a killed worker, no lock file
\* names that worker, whatever the other processes do meanwhile and afterwards.
THEOREM SweepLeavesNoFile == LockSpec => []SweptClean
<1>1. LockInit => SInv
  BY Zenon, KInvInit DEF LockInit, SInv, Fresh, SweptClean
<1>2. SInv => SweptClean
  BY Zenon DEF SInv
<1> QED
  BY <1>1, <1>2, SInvNext, PTL DEF LockSpec

=============================================================================
