-------------------------------- MODULE Fifo --------------------------------
(* What utils.MakeInfinite promises to the code that uses it: a queue        *)
(* without a bound.  Values come out in the order in which they were         *)
(* accepted, each of them once; closing the input accepts nothing more and   *)
(* loses nothing that was accepted.                                          *)
EXTENDS Sequences
CONSTANT Values
VARIABLES queue, out, closed   \* out is what was taken so far

vars == <<queue, out, closed>>

Init == queue = <<>> /\ out = <<>> /\ closed = FALSE

Put(v) == ~closed /\ queue' = Append(queue, v) /\ UNCHANGED <<out, closed>>

Take ==
  /\ queue # <<>>
  /\ out' = Append(out, Head(queue)) /\ queue' = Tail(queue)
  /\ UNCHANGED closed

Close == ~closed /\ closed' = TRUE /\ UNCHANGED <<queue, out>>

Next == (\E v \in Values : Put(v)) \/ Take \/ Close

Spec == Init /\ [][Next]_vars
=============================================================================
