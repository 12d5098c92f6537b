------------------------------ MODULE ZkConfig ------------------------------
(* zk_config.go: RegisterConfigHandler creates the path of a configuration   *)
(* key, applies the value and starts a goroutine that applies every value    *)
(* that follows, told of it by one-shot watches of ZooKeeper.                *)
EXTENDS Integers
CONSTANTS Procs,     \* the processes that register a handler for the key
          MaxSets,   \* bound on the changes of the value
          MaxErrs    \* bound on failed calls and expired sessions
VARIABLES depth,     \* how many of the three nodes of the path exist
          data,      \* the value of the key, by its version
          pc, level, \* of RegisterConfigHandler: where, and at which node
          got,       \* the value GetW returned, before the handler has it
          watch,     \* ZooKeeper will send an event to the channel
          ch,        \* the channel: empty, with an event, or closed
          applied,   \* the value the handler was last called with, or -1
          errs

vars == <<depth, data, pc, level, got, watch, ch, applied, errs>>

Levels == 3   \* configShareBasePath, the namespace, the key

Init ==
  /\ depth = 0 /\ data = 0 /\ errs = 0
  /\ pc = [p \in Procs |-> "exists"] /\ level = [p \in Procs |-> 1]
  /\ got = [p \in Procs |-> -1] /\ applied = [p \in Procs |-> -1]
  /\ watch = [p \in Procs |-> FALSE] /\ ch = [p \in Procs |-> "empty"]

\* CreatePath goes on to the next node, or GetW follows.
NextLevel(p) ==
  IF level[p] = Levels
  THEN pc' = [pc EXCEPT ![p] = "read"] /\ UNCHANGED level
  ELSE pc' = [pc EXCEPT ![p] = "exists"] /\ level' = [level EXCEPT ![p] = @ + 1]

\* CreatePath: the node exists, or is to be created.
Exists(p) ==
  /\ pc[p] = "exists"
  /\ IF depth >= level[p] THEN NextLevel(p)
     ELSE pc' = [pc EXCEPT ![p] = "create"] /\ UNCHANGED level
  /\ UNCHANGED <<depth, data, got, watch, ch, applied, errs>>

\* CreatePath: Create, for which ErrNodeExists is as good as success.
Create(p) ==
  /\ pc[p] = "create" /\ NextLevel(p)
  /\ depth' = IF depth >= level[p] THEN depth ELSE level[p]
  /\ UNCHANGED <<data, got, watch, ch, applied, errs>>

\* A failed Exists or Create ends the registration with an error.
PathFails(p) ==
  /\ pc[p] \in {"exists", "create"} /\ errs < MaxErrs /\ errs' = errs + 1
  /\ pc' = [pc EXCEPT ![p] = "failed"]
  /\ UNCHANGED <<depth, data, level, got, watch, ch, applied>>

\* The first GetW: the value, and a channel for the event that follows it.
Read(p) ==
  /\ pc[p] = "read" /\ pc' = [pc EXCEPT ![p] = "apply"]
  /\ got' = [got EXCEPT ![p] = data] /\ watch' = [watch EXCEPT ![p] = TRUE]
  /\ UNCHANGED <<depth, data, level, ch, applied, errs>>

\* It fails: logged, and RegisterConfigHandler returns nil without a goroutine.
ReadFails(p) ==
  /\ pc[p] = "read" /\ errs < MaxErrs /\ errs' = errs + 1
  /\ pc' = [pc EXCEPT ![p] = "unwatched"]
  /\ UNCHANGED <<depth, data, level, got, watch, ch, applied>>

\* action(data), of the registration and of the goroutine it starts.
Apply(p) ==
  /\ pc[p] = "apply" /\ pc' = [pc EXCEPT ![p] = "loop"]
  /\ applied' = [applied EXCEPT ![p] = got[p]]
  /\ UNCHANGED <<depth, data, level, got, watch, ch, errs>>

\* A mutation: the value is read and the channel stays the old one.
ChangedOnce(p) ==
  /\ pc[p] = "loop" /\ ch[p] = "event" /\ ch' = [ch EXCEPT ![p] = "closed"]
  /\ pc' = [pc EXCEPT ![p] = "apply"] /\ got' = [got EXCEPT ![p] = data]
  /\ UNCHANGED <<depth, data, level, watch, applied, errs>>

\* EventNodeDataChanged: GetW, and ch is the channel it made.
Changed(p) ==
  /\ pc[p] = "loop" /\ ch[p] = "event" /\ ch' = [ch EXCEPT ![p] = "empty"]
  /\ pc' = [pc EXCEPT ![p] = "apply"] /\ got' = [got EXCEPT ![p] = data]
  /\ watch' = [watch EXCEPT ![p] = TRUE]
  /\ UNCHANGED <<depth, data, level, applied, errs>>

\* GetW fails: logged, and ch stays the old channel, which is closed.
ChangedFails(p) ==
  /\ pc[p] = "loop" /\ ch[p] = "event" /\ ch' = [ch EXCEPT ![p] = "closed"]
  /\ errs < MaxErrs /\ errs' = errs + 1
  /\ UNCHANGED <<depth, data, pc, level, got, watch, applied>>

\* The session expires: its channels get an event that is not a change.
Expire(p) ==
  /\ watch[p] /\ watch' = [watch EXCEPT ![p] = FALSE]
  /\ ch' = [ch EXCEPT ![p] = "closed"] /\ errs < MaxErrs /\ errs' = errs + 1
  /\ UNCHANGED <<depth, data, pc, level, got, applied>>

\* The operator of the system stores a value, and the watches are used up.
Set ==
  /\ depth = Levels /\ data < MaxSets /\ data' = data + 1
  /\ ch' = [p \in Procs |-> IF watch[p] THEN "event" ELSE ch[p]]
  /\ watch' = [p \in Procs |-> FALSE]
  /\ UNCHANGED <<depth, pc, level, got, applied, errs>>

Step(p) == Exists(p) \/ Create(p) \/ Read(p) \/ Apply(p) \/ Changed(p)

Next ==
  \/ Set
  \/ \E p \in Procs :
       Step(p) \/ PathFails(p) \/ ReadFails(p) \/ ChangedFails(p) \/ Expire(p)

Spec == Init /\ [][Next]_vars

\* The goroutines run; nothing has to fail or to be stored.
FairSpec == Spec /\ \A p \in Procs : WF_vars(Step(p))

-----------------------------------------------------------------------------
(* A process that is sent an event later has no event waiting, and none has  *)
(* a value of the future.                                                    *)
TypeOK ==
  \A p \in Procs : /\ level[p] \in 1 .. Levels /\ (watch[p] => ch[p] = "empty")
                   /\ got[p] \in -1 .. data /\ applied[p] \in -1 .. data

(* Processes that create the path at the same time do not fail for it:       *)
(* CreatePath is an error only when a call of ZooKeeper failed.              *)
NoneFailsAlone == \A p \in Procs : pc[p] = "failed" => errs > 0

(* The handler of a process is never called with an older value after a      *)
(* newer one.                                                                *)
NeverBack == [][\A p \in Procs : applied'[p] >= applied[p]]_vars

(* As long as no call fails and no session expires, every process has the    *)
(* last value, also when several changes fall into the time of one handler.  *)
AllApplied == <>[](errs = 0 => \A p \in Procs : applied[p] = data)
=============================================================================
