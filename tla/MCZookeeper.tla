---------------------------- MODULE MCZookeeper ----------------------------
(* What processes share through ZooKeeper, on small instances: the lock of   *)
(* zk_lock.go and the configuration of zk_config.go.  They use different     *)
(* nodes and no common variable, so a behaviour is one of a single part and  *)
(* the other part stays where it begins.                                     *)
EXTENDS ZkLock, TLC

CONSTANTS pa, pb, a1, a2, b1, MaxSets, MaxErrs

\* Goroutines a1 and a2 share the zk.Lock of process pa; b1 is alone in pb.
SharedHome == a1 :> pa @@ a2 :> pa @@ b1 :> pb

VARIABLES part, depth, data, at, level, got, watch, ch, applied, failures

Config == INSTANCE ZkConfig WITH pc <- at, errs <- failures

configVars == <<depth, data, at, level, got, watch, ch, applied, failures>>

MCInit == part \in {"lock", "config"} /\ Init /\ Config!Init

MCNext ==
    \/ part = "lock" /\ Next /\ UNCHANGED <<part, configVars>>
    \/ part = "config" /\ Config!Next /\ UNCHANGED <<part, vars>>

\* The fairness of both parts.
MCSpec ==
    /\ MCInit /\ [][MCNext]_<<part, vars, configVars>>
    /\ \A g \in Threads : /\ WF_vars(part = "lock" /\ Locking(g))
                          /\ WF_vars(part = "lock" /\ Releasing(g))
    /\ \A p \in Procs : WF_configVars(part = "config" /\ Config!Step(p))

-----------------------------------------------------------------------------
(* A process that registers for a configuration key follows it: it does not  *)
(* fail because another creates the same path, its handler never gets an     *)
(* older value after a newer one, and without failed calls and expired       *)
(* sessions it ends with the last value.                                     *)
ConfigFollowed ==
    /\ []Config!NoneFailsAlone
    /\ Config!NeverBack
    /\ part = "config" => Config!AllApplied
=============================================================================
