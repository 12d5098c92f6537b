--------------------------- MODULE InfiniteChannel ---------------------------
(* utils.MakeInfinite: a goroutine between two unbuffered channels.  A sender *)
(* blocks on in until the goroutine takes its value, a receiver blocks on out *)
(* until the goroutine hands it one.  The goroutine's select is the choice    *)
(* between Accept, SeeClose and Deliver; its loop condition is Running.       *)
EXTENDS Sequences, Naturals
CONSTANTS Values, Senders, Receivers,
          None,      \* no value
          MaxSends   \* bound on the values a sender sends
VARIABLES buffer,    \* the list of the goroutine
          inNil,     \* the goroutine has set its variable in to nil
          closed,    \* a user of the channel has closed in
          sending,   \* the value a sender is blocked with, or None
          sent,      \* how many sends a sender has begun
          receiving, \* the receivers that are blocked on out
          out,       \* what the receivers got, in the order of the handovers
          panicked   \* a goroutine has sent on or closed a closed channel

ASSUME NoneAssumption == None \notin Values

vars == <<buffer, inNil, closed, sending, sent, receiving, out, panicked>>

Init ==
  /\ buffer = <<>> /\ inNil = FALSE /\ closed = FALSE /\ panicked = FALSE
  /\ sending = [s \in Senders |-> None] /\ sent = [s \in Senders |-> 0]
  /\ receiving = {} /\ out = <<>>

\* in <- v by a user: it blocks, or panics when in is closed already.
StartSend(s, v) ==
  /\ ~panicked /\ sending[s] = None /\ sent[s] < MaxSends
  /\ sent' = [sent EXCEPT ![s] = @ + 1]
  /\ sending' = IF closed THEN sending ELSE [sending EXCEPT ![s] = v]
  /\ panicked' = closed
  /\ UNCHANGED <<buffer, inNil, closed, receiving, out>>

\* close(in) by a user: senders that are blocked panic, and so does a second
\* close.
Close ==
  /\ ~panicked
  /\ closed' = TRUE
  /\ panicked' = (closed \/ \E s \in Senders : sending[s] # None)
  /\ UNCHANGED <<buffer, inNil, sending, sent, receiving, out>>

\* <-out by a user.
StartReceive(r) ==
  /\ ~panicked /\ r \notin receiving
  /\ receiving' = receiving \cup {r}
  /\ UNCHANGED <<buffer, inNil, closed, sending, sent, out, panicked>>

\* Mutations: the loop ends with the close; the loop needs both conditions.
RunningEarly == ~inNil
RunningBoth == buffer # <<>> /\ ~inNil

\* for buffer.Len() > 0 || in != nil
Running == buffer # <<>> \/ ~inNil

\* A mutation: the last value becomes the first one.
PushFront(s) == buffer' = <<sending[s]>> \o buffer
PushBack(s) == buffer' = Append(buffer, sending[s])

\* case v, ok := <-in with a value.
Accept(s) ==
  /\ ~panicked /\ Running /\ ~inNil /\ ~closed /\ sending[s] # None
  /\ PushBack(s)
  /\ sending' = [sending EXCEPT ![s] = None]
  /\ UNCHANGED <<inNil, closed, sent, receiving, out, panicked>>

\* case v, ok := <-in after close(in).
SeeClose ==
  /\ ~panicked /\ Running /\ ~inNil /\ closed
  /\ inNil' = TRUE
  /\ UNCHANGED <<buffer, closed, sending, sent, receiving, out, panicked>>

\* case outCh() <- curVal(): outCh is nil, and blocks, on an empty buffer.
Deliver(r) ==
  /\ ~panicked /\ Running /\ buffer # <<>> /\ r \in receiving
  /\ out' = Append(out, Head(buffer))
  /\ buffer' = Tail(buffer)
  /\ receiving' = receiving \ {r}
  /\ UNCHANGED <<inNil, closed, sending, sent, panicked>>

Goroutine == (\E s \in Senders : Accept(s)) \/ SeeClose
               \/ (\E r \in Receivers : Deliver(r))

Next ==
  \/ \E s \in Senders, v \in Values : StartSend(s, v)
  \/ Close
  \/ \E r \in Receivers : StartReceive(r)
  \/ Goroutine

Spec == Init /\ [][Next]_vars

(* The goroutine is scheduled, receivers receive in a loop (the only users,  *)
(* cloudwatch.Initialize and the caller of SubOrderNext, do), and select     *)
(* picks at random among the cases that are ready, so that neither input nor *)
(* output is starved.                                                        *)
FairSpec ==
  /\ Spec
  /\ \A r \in Receivers : WF_vars(StartReceive(r))
  /\ SF_vars(\E r \in Receivers : Deliver(r))
  /\ \A s \in Senders : SF_vars(Accept(s))

(* The list of the goroutine, the flag of in and the blocked sends stay of   *)
(* their types, and the goroutine knows of a close only after there was one. *)
TypeOK ==
  /\ buffer \in Seq(Values) /\ inNil \in BOOLEAN /\ closed \in BOOLEAN
  /\ sending \in [Senders -> Values \cup {None}]
  /\ sent \in [Senders -> 0 .. MaxSends] /\ panicked \in BOOLEAN
  /\ receiving \subseteq Receivers /\ out \in Seq(Values)
  /\ inNil => closed

F == INSTANCE Fifo WITH queue <- buffer

(* MakeInfinite implements the unbounded queue: what it accepts comes out in *)
(* order and once, also when close and the two select cases interleave.      *)
IsFifo == F!Spec

(* Unless the process panics, every value accepted from in is received: the  *)
(* loop of MakeInfinite does not end with values in its buffer.              *)
AllReceived == (buffer # <<>>) ~> (buffer = <<>> \/ panicked)

(* Unless the process panics, a blocked sender gets its value accepted: the  *)
(* channel takes input however slow the receivers are.                       *)
SendReturns == \A s \in Senders : (sending[s] # None) ~> (sending[s] = None \/ panicked)
==============================================================================
