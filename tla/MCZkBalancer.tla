---------------------------- MODULE MCZkBalancer ----------------------------
(* Instances of ZkBalancer for TLC.                                        *)
EXTENDS BalancerHandover

CONSTANT t1

OneWeights == [t \in Tasks |-> IF t = t1 THEN 2 ELSE 1]
Sym == Permutations(Procs)
SameConfig == [p \in Procs |-> {Tasks}]
\* A task may be given up with a restart.
Upgrade == [p \in Procs |-> {Tasks, Tasks \ {t1}}]
=============================================================================
