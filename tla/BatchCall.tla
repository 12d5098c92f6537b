------------------------------ MODULE BatchCall -----------------------------
(* accessor.BatchCall: several requests (balances or allowances of several   *)
(* accounts) become one list of elements, which is sent to the best node,    *)
(* and again to the node that is best then if the call fails; at the end     *)
(* every request takes its part of the list.                                 *)
EXTENDS Integers, Sequences, SequencesExt
CONSTANTS Nodes, None,
          Batches,   \* the lengths of the requests there may be
          Retry      \* the attempts of BatchCall, 3
VARIABLES lens,      \* the lengths of the requests: elemsLength
          elems,     \* the elements: [node, try] of the value in Result, and Error
          try, node, \* the attempt and its node
          left,      \* the elements without an answer in this attempt
          pc, idx, startId,  \* of BatchCall, idx and startId of its last loop
          errs       \* of a request: what FromBatchElem stored in it

vars == <<lens, elems, try, node, left, pc, idx, startId, errs>>

Total(s) == FoldSeq(LAMBDA x, y : x + y, 0, s)

\* ToBatchElem of every request.
Init ==
  /\ lens \in Batches
  /\ elems = [i \in 1 .. Total(lens) |-> [node |-> None, try |-> 0, err |-> FALSE]]
  /\ errs = [r \in DOMAIN lens |-> <<>>]
  /\ try = 0 /\ node = None /\ left = {} /\ pc = "call" /\ idx = 1 /\ startId = 0

\* An attempt of RetryBatchCall: bestClient gives a node, or none that is usable.
Call(n) ==
  /\ pc = "call" /\ try < Retry /\ try' = try + 1 /\ node' = n
  /\ IF n = None THEN left' = {} /\ pc' = "call"
     ELSE left' = DOMAIN elems /\ pc' = "wait"
  /\ UNCHANGED <<lens, elems, idx, startId, errs>>

\* RetryBatchCall returns the last error.
GiveUp ==
  /\ pc = "call" /\ try = Retry /\ pc' = "failed"
  /\ UNCHANGED <<lens, elems, try, node, left, idx, startId, errs>>

\* The answer to element i: a value or an error; each replaces the one before.
Answer(i) ==
  /\ pc = "wait" /\ i \in left /\ left' = left \ {i}
  /\ \/ elems' = [elems EXCEPT ![i] = [node |-> node, try |-> try, err |-> FALSE]]
     \/ elems' = [elems EXCEPT ![i].err = TRUE]
  /\ UNCHANGED <<lens, try, node, pc, idx, startId, errs>>

\* The connection breaks, with some of the answers stored.
Break ==
  /\ pc = "wait" /\ pc' = "call"
  /\ UNCHANGED <<lens, elems, try, node, left, idx, startId, errs>>

\* A mutation: the call succeeds with the answers that came.
AnsweredSome ==
  /\ pc = "wait" /\ left # DOMAIN elems /\ pc' = "share"
  /\ UNCHANGED <<lens, elems, try, node, left, idx, startId, errs>>

\* All answers are there: the call succeeds.
Answered ==
  /\ pc = "wait" /\ left = {} /\ pc' = "share"
  /\ UNCHANGED <<lens, elems, try, node, left, idx, startId, errs>>

\* FromBatchElem of a request with its part of the list.
Share ==
  /\ pc = "share" /\ idx <= Len(lens) /\ idx' = idx + 1
  /\ LET end == startId + lens[idx]
     IN  /\ errs' = [errs EXCEPT ![idx] = [j \in 1 .. lens[idx] |-> elems[startId + j].err]]
         /\ startId' = end
  /\ UNCHANGED <<lens, elems, try, node, left, pc>>

Return ==
  /\ pc = "share" /\ idx > Len(lens) /\ pc' = "done"
  /\ UNCHANGED <<lens, elems, try, node, left, idx, startId, errs>>

Next ==
  \/ \E n \in Nodes \cup {None} : Call(n)
  \/ GiveUp \/ Break \/ Answered \/ Share \/ Return
  \/ \E i \in DOMAIN elems : Answer(i)

Spec == Init /\ [][Next]_vars

\* BatchCall runs, and a call of the client ends.
FairSpec == Spec /\ WF_vars(Next)

-----------------------------------------------------------------------------
(* The attempts are bounded, and the parts given out so far make up the      *)
(* beginning of the list.                                                    *)
TypeOK ==
  /\ try \in 0 .. Retry /\ left \subseteq DOMAIN elems
  /\ startId = Total(SubSeq(lens, 1, idx - 1)) /\ startId <= Len(elems)

(* When BatchCall returns nil every account of every request has the error   *)
(* of its own element, and each that has none has its value from the last    *)
(* attempt and so from one node, whatever earlier attempts left behind.      *)
OwnAnswers ==
  pc = "done" => \A r \in DOMAIN lens : \A j \in 1 .. lens[r] :
    LET e == elems[Total(SubSeq(lens, 1, r - 1)) + j]
    IN  errs[r][j] = e.err /\ (~e.err => e.node = node /\ e.try = try)

(* BatchCall returns, with an error after as many attempts as it may make.   *)
Returns == <>(pc \in {"done", "failed"})
=============================================================================
