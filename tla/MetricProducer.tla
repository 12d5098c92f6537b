--------------------------- MODULE MetricProducer ---------------------------
(* cloudwatch: callers store metric data in the unbounded channel of         *)
(* MakeInfinite (a queue: InfiniteChannel implements Fifo), one goroutine    *)
(* takes them out, drops what is obsolete and sends the rest in batches.     *)
(* Time is counted in units of the caller's choice.  What AWS answers is     *)
(* only logged, so a request ends the life of its data here.                 *)
EXTENDS Naturals, Sequences, SequencesExt
CONSTANTS Callers,
          ObsoleteTimeout,  \* obsoleteTimeoutSeconds
          BatchTimeout,     \* batchTimeoutSeconds
          BufferSize,       \* batchDatumBufferSize
          SendSize,         \* batchSendSize
          MaxCalls, MaxTime \* bounds: calls of Put*Metric, the clock
VARIABLES now,      \* time.Now()
          calls,    \* how many calls of Put*Metric were made
          storing,  \* what each caller has still to store
          chan,     \* inChan to outChan
          stored,   \* the data that went into the channel
          batch,    \* batchDatumBuffer
          start,    \* bufferStartTimeStamp
          requests, \* the requests given to PutMetricData
          dropped,  \* the obsolete data
          closed, panicked

vars == <<now, calls, storing, chan, stored, batch, start, requests, dropped, closed, panicked>>

Datum == [id : 1 .. MaxCalls, host : BOOLEAN, ts : 0 .. MaxTime]

Init ==
  /\ now = 0 /\ calls = 0 /\ start = 0
  /\ storing = [c \in Callers |-> <<>>]
  /\ chan = <<>> /\ stored = {} /\ batch = <<>> /\ requests = <<>> /\ dropped = {}
  /\ closed = FALSE /\ panicked = FALSE

\* PutResponseTimeMetric, PutHeartBeatMetric: one datum without and one with
\* the host dimension, of the same time.
Put(c) ==
  /\ ~panicked /\ storing[c] = <<>> /\ calls < MaxCalls
  /\ calls' = calls + 1
  /\ LET datum == [id |-> calls + 1, host |-> FALSE, ts |-> now]
     IN  storing' = [storing EXCEPT ![c] = <<datum, [datum EXCEPT !.host = TRUE]>>]
  /\ UNCHANGED <<now, chan, stored, batch, start, requests, dropped, closed, panicked>>

\* storeMetricLocal.  IsValid does not look at the channel: after Close the
\* send panics.
Store(c) ==
  /\ ~panicked /\ storing[c] # <<>>
  /\ IF closed THEN /\ panicked' = TRUE
                    /\ UNCHANGED <<storing, chan, stored>>
     ELSE /\ chan' = Append(chan, Head(storing[c]))
          /\ stored' = stored \cup {Head(storing[c])}
          /\ storing' = [storing EXCEPT ![c] = Tail(@)]
          /\ UNCHANGED panicked
  /\ UNCHANGED <<now, calls, batch, start, requests, dropped, closed>>

Close ==
  /\ ~panicked
  /\ closed' = TRUE /\ panicked' = closed
  /\ UNCHANGED <<now, calls, storing, chan, stored, batch, start, requests, dropped>>

Tick ==
  /\ ~panicked /\ now < MaxTime
  /\ now' = now + 1
  /\ UNCHANGED <<calls, storing, chan, stored, batch, start, requests, dropped, closed, panicked>>

CheckObsolete(d) == now - d.ts > ObsoleteTimeout

\* Timestamps of two callers may come out of order: no subtraction in Nat.
CheckTimeout(d) == d.ts > start + BatchTimeout

Least(m, n) == IF m < n THEN m ELSE n

\* Mutations: a rest shorter than a request is not sent; one item too many.
SendFull(b) == [i \in 1 .. Len(b) \div SendSize |-> SubSeq(b, (i - 1) * SendSize + 1, i * SendSize)]
SendMore(b) ==
  [i \in 1 .. (Len(b) + SendSize) \div (SendSize + 1) |->
     SubSeq(b, (i - 1) * (SendSize + 1) + 1, Least(i * (SendSize + 1), Len(b)))]

\* Requests of at most SendSize data, one after the other.
BatchSendMetricData(b) ==
  [i \in 1 .. (Len(b) + SendSize - 1) \div SendSize |->
     SubSeq(b, (i - 1) * SendSize + 1, Least(i * SendSize, Len(b)))]

\* The last lines of the loop, with the buffer as the append left it.
Flush(d, b) ==
  IF (CheckTimeout(d) /\ b # <<>>) \/ Len(b) >= BufferSize
  THEN /\ requests' = requests \o BatchSendMetricData(b)
       /\ batch' = <<>> /\ start' = d.ts
  ELSE batch' = b /\ UNCHANGED <<requests, start>>

\* One turn of the goroutine of Initialize.
Consume ==
  /\ ~panicked /\ chan # <<>>
  /\ chan' = Tail(chan)
  /\ LET d == Head(chan)
     IN IF CheckObsolete(d)
        THEN dropped' = dropped \cup {d} /\ Flush(d, batch)
        ELSE Flush(d, Append(batch, d)) /\ UNCHANGED dropped
  /\ UNCHANGED <<now, calls, storing, stored, closed, panicked>>

Next == (\E c \in Callers : Put(c) \/ Store(c)) \/ Close \/ Tick \/ Consume

Spec == Init /\ [][Next]_vars

-----------------------------------------------------------------------------
(* Every variable holds data of its type, and the buffer of the goroutine    *)
(* never outgrows the capacity it was made with.                             *)
TypeOK ==
  /\ now \in 0 .. MaxTime /\ calls \in 0 .. MaxCalls /\ start \in 0 .. MaxTime
  /\ \A c \in Callers : storing[c] \in Seq(Datum)
  /\ chan \in Seq(Datum) /\ stored \subseteq Datum /\ dropped \subseteq Datum
  /\ batch \in Seq(Datum) /\ Len(batch) < BufferSize
  /\ requests \in Seq(Seq(Datum))
  /\ closed \in BOOLEAN /\ panicked \in BOOLEAN

(* No datum is lost or sent twice by the batching: whatever a caller stored  *)
(* is in exactly one of the channel, the buffer, one request or the dropped  *)
(* ones, through all the slicing of batchSendMetricData.                     *)
DatumOnce ==
  LET kept == chan \o batch \o FlattenSeq(requests)
  IN  /\ \A i, j \in DOMAIN kept : kept[i] = kept[j] => i = j
      /\ Range(kept) \cap dropped = {}
      /\ Range(kept) \cup dropped = stored

(* AWS refuses requests of more than batchSendSize data, as the comment of   *)
(* the constant says; no request is empty either.                            *)
RequestBounded == \A i \in DOMAIN requests : Len(requests[i]) \in 1 .. SendSize

(* What waits in the buffer is not newer than the batch timeout after the    *)
(* last flush, although callers race and timestamps come out of order: a     *)
(* datum past the timeout always takes the whole buffer along.               *)
BatchSpan == \A i \in DOMAIN batch : batch[i].ts <= start + BatchTimeout
=============================================================================
