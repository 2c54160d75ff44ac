------------------------------ MODULE MCWorker ------------------------------
(* Instances of WorkerBatch for TLC. *)
EXTENDS WorkerBatch, TLC

\* Blocks are interchangeable, and so are requests of which all or none may
\* be preempted.
Symmetry ==
    Permutations(BlockIds) \cup
        (IF Preemptible \in {{}, Requests} THEN Permutations(Requests) ELSE {})
============================================================================
