------------------------ MODULE InfiniteChannelProofs ------------------------
(* MakeInfinite implements the unbounded queue of Fifo, for every number of  *)
(* senders, receivers and values.  Safety only: that values do come out      *)
(* rests on fairness and is left to TLC.                                     *)
EXTENDS InfiniteChannel, TLAPS

\* A sender is blocked with one value of Values or is not blocked.
SendingType == sending \in [Senders -> Values \cup {None}]
BufferType == buffer \in Seq(Values) /\ out \in Seq(Values) /\ closed \in BOOLEAN
IInv == SendingType /\ BufferType

(* The list and the blocked sends of MakeInfinite keep their types.          *)
LEMMA TypesKept == Spec => []IInv
<1>1. Init => IInv
  <2>1. Init => SendingType
    BY DEF Init, SendingType
  <2>2. Init => buffer \in Seq(Values) /\ out \in Seq(Values)
    BY DEF Init
  <2>3. Init => closed \in BOOLEAN
    BY DEF Init
  <2>4. QED
    BY <2>1, <2>2, <2>3 DEF IInv, BufferType
<1>2. IInv /\ [Next]_vars => IInv'
  <2> SUFFICES ASSUME IInv, [Next]_vars PROVE IInv'
    OBVIOUS
  <2> USE DEF IInv, SendingType, BufferType
  <2>1. ASSUME NEW s \in Senders, NEW v \in Values, StartSend(s, v) PROVE IInv'
    BY <2>1 DEF StartSend
  <2>2. CASE Close
    BY <2>2 DEF Close
  <2>3. ASSUME NEW r \in Receivers, StartReceive(r) PROVE IInv'
    BY <2>3 DEF StartReceive
  <2>4. ASSUME NEW s \in Senders, Accept(s) PROVE IInv'
    BY <2>4 DEF Accept, PushBack
  <2>5. CASE SeeClose
    BY <2>5 DEF SeeClose
  <2>6. ASSUME NEW r \in Receivers, Deliver(r) PROVE IInv'
    BY <2>6 DEF Deliver
  <2>7. CASE UNCHANGED vars
    BY <2>7 DEF vars
  <2>8. QED
    BY <2>1, <2>2, <2>3, <2>4, <2>5, <2>6, <2>7 DEF Next, Goroutine
<1>3. QED
  BY <1>1, <1>2, PTL DEF Spec

(* MakeInfinite implements the unbounded queue: what it accepts comes out in *)
(* order and once, for every number of users and in every interleaving of    *)
(* close with the two cases of its select.                                   *)
THEOREM ChannelIsFifo == Spec => IsFifo
<1>1. Init => F!Init
  BY DEF Init, F!Init
<1>2. IInv /\ [Next]_vars => [F!Next]_(F!vars)
  <2> SUFFICES ASSUME IInv, [Next]_vars PROVE [F!Next]_(F!vars)
    OBVIOUS
  <2> USE DEF F!vars
  <2>1. ASSUME NEW s \in Senders, NEW v \in Values, StartSend(s, v) PROVE UNCHANGED F!vars
    BY <2>1 DEF StartSend
  <2>2. CASE Close
    BY <2>2 DEF Close, F!Next, F!Close, IInv, BufferType
  <2>3. ASSUME NEW r \in Receivers, StartReceive(r) PROVE UNCHANGED F!vars
    BY <2>3 DEF StartReceive
  <2>4. ASSUME NEW s \in Senders, Accept(s) PROVE F!Next
    BY <2>4 DEF Accept, PushBack, F!Next, F!Put, IInv, SendingType
  <2>5. CASE SeeClose
    BY <2>5 DEF SeeClose
  <2>6. ASSUME NEW r \in Receivers, Deliver(r) PROVE F!Next
    BY <2>6 DEF Deliver, F!Next, F!Take
  <2>7. CASE UNCHANGED vars
    BY <2>7 DEF vars
  <2>8. QED
    BY <2>1, <2>2, <2>3, <2>4, <2>5, <2>6, <2>7 DEF Next, Goroutine
<1>3. QED
  BY <1>1, <1>2, TypesKept, PTL DEF Spec, IsFifo, F!Spec
==============================================================================
