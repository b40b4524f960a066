------------------------------- MODULE McpLock -------------------------------
(***************************************************************************)
(* The .imcp lock file of one database (src/ida/lock.rs), between worker   *)
(* processes and the supervisor that cleans up after the ones it killed.   *)
(*                                                                         *)
(* The file is a name in a directory and, separately, the inodes that name *)
(* has referred to: a process locks the inode it opened, and unlinking the *)
(* name does not touch that lock.  A step is one system call.              *)
(***************************************************************************)
EXTENDS Naturals

CONSTANTS
  Procs,      \* worker processes that open this database
  MaxInodes,  \* bound: inodes the name may be given
  Nobody        \* "no process", "no inode"

Inodes == 1 .. MaxInodes

ASSUME LockConfig == MaxInodes \in Nat \ {0} /\ Nobody \notin Inodes \cup Procs

VARIABLES
  file,    \* the inode the name refers to
  next,    \* inodes created so far
  pid,     \* the pid written in each inode
  fcntl,   \* the process whose fcntl lock each inode carries
  fd,      \* the inode each process has open as its lock file
  at,      \* where each process is
  sweep    \* where remove_mcp_lock_for_pid is, for each killed process

lockVars == <<file, next, pid, fcntl, fd, at, sweep>>

PCs == {"idle", "stale", "reopen", "probe", "probed", "rmstale",
        "open", "lock", "write", "opening", "own", "unlink", "closefd", "dead"}

\* Types of the directory entry, the inodes and the processes of lock.rs.
LockTypeOK ==
  /\ file \in Inodes \cup {Nobody}
  /\ next \in 0 .. MaxInodes
  /\ pid \in [Inodes -> Procs \cup {Nobody}]
  /\ fcntl \in [Inodes -> Procs \cup {Nobody}]
  /\ fd \in [Procs -> Inodes \cup {Nobody}]
  /\ at \in [Procs -> PCs]
  /\ sweep \in [Procs -> {"wait", "remove", "done"}]

LockInit ==
  /\ file = Nobody /\ next = 0
  /\ pid = [n \in Inodes |-> Nobody]
  /\ fcntl = [n \in Inodes |-> Nobody]
  /\ fd = [p \in Procs |-> Nobody]
  /\ at = [p \in Procs |-> "idle"]
  /\ sweep = [p \in Procs |-> "wait"]

Goto(p, l) == at' = [at EXCEPT ![p] = l]

\* Closing a descriptor gives up the process's lock on the inode.
CloseFd(p) ==
  /\ fd' = [fd EXCEPT ![p] = Nobody]
  /\ fcntl' = [n \in Inodes |-> IF fcntl[n] = p THEN Nobody ELSE fcntl[n]]

-----------------------------------------------------------------------------
(* clean_stale_mcp_lock, for an open with force *)

StartForced(p) ==
  /\ at[p] = "idle"
  /\ Goto(p, "stale")
  /\ UNCHANGED <<file, next, pid, fcntl, fd, sweep>>

\* read_lock_file_pid: the file is stale when its pid is not running; when it
\* has no pid its lock is going to tell.
CheckStale(p) ==
  /\ at[p] = "stale"
  /\ \/ /\ file = Nobody
        /\ Goto(p, "open")
     \/ /\ file # Nobody
        /\ \/ pid[file] = Nobody /\ Goto(p, "reopen")
           \/ pid[file] # Nobody /\ at[pid[file]] = "dead" /\ Goto(p, "rmstale")
           \/ pid[file] # Nobody /\ at[pid[file]] # "dead" /\ Goto(p, "open")
  /\ UNCHANGED <<file, next, pid, fcntl, fd, sweep>>

\* open, without O_CREAT
OpenStale(p) ==
  /\ at[p] = "reopen"
  /\ \/ file = Nobody /\ Goto(p, "open")
     \/ file # Nobody /\ Goto(p, "probe")
  /\ fd' = [fd EXCEPT ![p] = file]
  /\ UNCHANGED <<file, next, pid, fcntl, sweep>>

ProbeStale(p) ==
  /\ at[p] = "probe"
  /\ \/ /\ fcntl[fd[p]] = Nobody
        /\ fcntl' = [fcntl EXCEPT ![fd[p]] = p]
        /\ Goto(p, "probed")
        /\ UNCHANGED fd
     \/ /\ fcntl[fd[p]] # Nobody
        /\ fd' = [fd EXCEPT ![p] = Nobody]
        /\ Goto(p, "open")
        /\ UNCHANGED fcntl
  /\ UNCHANGED <<file, next, pid, sweep>>

\* The lock is given up again before the name is removed.
DropStale(p) ==
  /\ at[p] = "probed"
  /\ CloseFd(p)
  /\ Goto(p, "rmstale")
  /\ UNCHANGED <<file, next, pid, sweep>>

RemoveStale(p) ==
  /\ at[p] = "rmstale"
  /\ file' = Nobody
  /\ Goto(p, "open")
  /\ UNCHANGED <<next, pid, fcntl, fd, sweep>>

-----------------------------------------------------------------------------
(* acquire_mcp_lock, the open of the database, and release_mcp_lock *)

Start(p) ==
  /\ at[p] = "idle"
  /\ Goto(p, "open")
  /\ UNCHANGED <<file, next, pid, fcntl, fd, sweep>>

\* open(O_CREAT)
OpenFile(p) ==
  /\ at[p] = "open"
  /\ \/ /\ file # Nobody
        /\ fd' = [fd EXCEPT ![p] = file]
        /\ UNCHANGED <<file, next>>
     \/ /\ file = Nobody /\ next < MaxInodes
        /\ next' = next + 1
        /\ file' = next + 1
        /\ fd' = [fd EXCEPT ![p] = next + 1]
  /\ Goto(p, "lock")
  /\ UNCHANGED <<pid, fcntl, sweep>>

\* try_lock_file: fcntl(F_SETLK).  DatabaseLocked when another process has it.
TryLock(p) ==
  /\ at[p] = "lock"
  /\ \/ /\ fcntl[fd[p]] = Nobody
        /\ fcntl' = [fcntl EXCEPT ![fd[p]] = p]
        /\ Goto(p, "write")
        /\ UNCHANGED fd
     \/ /\ fcntl[fd[p]] # Nobody
        /\ fd' = [fd EXCEPT ![p] = Nobody]
        /\ Goto(p, "idle")
        /\ UNCHANGED fcntl
  /\ UNCHANGED <<file, next, pid, sweep>>

WritePid(p) ==
  /\ at[p] = "write"
  /\ pid' = [pid EXCEPT ![fd[p]] = p]
  /\ Goto(p, "opening")
  /\ UNCHANGED <<file, next, fcntl, fd, sweep>>

\* Mutant of OpenDatabase: a failed open keeps the lock file.
OpenDatabaseKeeps(p) ==
  /\ at[p] = "opening"
  /\ \/ Goto(p, "own") /\ UNCHANGED <<fd, fcntl>>
     \/ Goto(p, "idle") /\ CloseFd(p)
  /\ UNCHANGED <<file, next, pid, sweep>>

\* handle_open opens the database, or fails and releases the lock again.
OpenDatabase(p) ==
  /\ at[p] = "opening"
  /\ Goto(p, "own") \/ Goto(p, "unlink")
  /\ UNCHANGED <<file, next, pid, fcntl, fd, sweep>>

\* Close, shutdown_cleanup: the database is closed before the lock is released.
CloseDatabase(p) ==
  /\ at[p] = "own"
  /\ Goto(p, "unlink")
  /\ UNCHANGED <<file, next, pid, fcntl, fd, sweep>>

\* release_mcp_lock: remove_file, by name,
Unlink(p) ==
  /\ at[p] = "unlink"
  /\ file' = Nobody
  /\ Goto(p, "closefd")
  /\ UNCHANGED <<next, pid, fcntl, fd, sweep>>

\* and then the descriptor goes.
Release(p) ==
  /\ at[p] = "closefd"
  /\ CloseFd(p)
  /\ Goto(p, "idle")
  /\ UNCHANGED <<file, next, pid, sweep>>

-----------------------------------------------------------------------------
(* A killed worker, and remove_mcp_lock_for_pid *)

Kill(p) ==
  /\ at[p] # "dead"
  /\ CloseFd(p)
  /\ Goto(p, "dead")
  /\ UNCHANGED <<file, next, pid, sweep>>

\* Mutant of SweepRead: the file is taken for somebody else's.
SweepReadWrong(p) ==
  /\ at[p] = "dead" /\ sweep[p] = "wait"
  /\ sweep' = [sweep EXCEPT ![p] = "done"]
  /\ UNCHANGED <<file, next, pid, fcntl, fd, at>>

SweepRead(p) ==
  /\ at[p] = "dead" /\ sweep[p] = "wait"
  /\ \/ file # Nobody /\ pid[file] = p /\ sweep' = [sweep EXCEPT ![p] = "remove"]
     \/ file = Nobody /\ sweep' = [sweep EXCEPT ![p] = "done"]
     \/ file # Nobody /\ pid[file] # p /\ sweep' = [sweep EXCEPT ![p] = "done"]
  /\ UNCHANGED <<file, next, pid, fcntl, fd, at>>

SweepRemove(p) ==
  /\ sweep[p] = "remove"
  /\ file' = Nobody
  /\ sweep' = [sweep EXCEPT ![p] = "done"]
  /\ UNCHANGED <<next, pid, fcntl, fd, at>>

-----------------------------------------------------------------------------
LockNext ==
  \E p \in Procs :
    \/ StartForced(p) \/ CheckStale(p) \/ OpenStale(p) \/ ProbeStale(p) \/ DropStale(p)
    \/ RemoveStale(p)
    \/ Start(p) \/ OpenFile(p) \/ TryLock(p) \/ WritePid(p) \/ OpenDatabase(p)
    \/ CloseDatabase(p) \/ Unlink(p) \/ Release(p)
    \/ Kill(p) \/ SweepRead(p) \/ SweepRemove(p)

LockSpec == LockInit /\ [][LockNext]_lockVars

-----------------------------------------------------------------------------
\* As long as nobody has been killed, a lock file never outlives its users: while the
\* name exists some process is on its way to remove it, or has that very inode
\* open.  So a failed open, a refused lock, a probe of the lock by a forced open,
\* in any overlap, leave no file behind that would need a forced open.
FileHasKeeper ==
  file # Nobody /\ (\A p \in Procs : at[p] # "dead") =>
    \E p \in Procs :
      \/ at[p] = "rmstale"
      \/ fd[p] = file /\ at[p] \in {"probed", "lock", "write", "opening", "own", "unlink"}

\* remove_mcp_lock_for_pid leaves no file behind that names the killed worker,
\* however the sweep overlaps with other processes' opens and releases.
SweptClean ==
  \A p \in Procs : sweep[p] = "done" => file = Nobody \/ pid[file] # p

\* src/ida/lock.rs:1: "MCP lock file helpers to prevent concurrent database
\* access".
MutualExclusion == \A p, q \in Procs : at[p] = "own" /\ at[q] = "own" => p = q
=============================================================================
