---------------------------- MODULE MCWorkerPool ----------------------------
(* Instances of WorkerPool for TLC. *)
EXTENDS WorkerPool, TLC

Symmetry == Permutations(Sessions) \cup Permutations(Tasks)

NoDrops   == {}
AllDrops  == PCs
MostDrops == PCs \ {"take"}
Both      == {"stdio", "http"}
Http      == {"http"}
AllEvents == {"spawn", "crash", "shutdown"}
NoShutdown == {"spawn", "crash"}
Crashes == {"crash"}
NoEvents == {}
=============================================================================
