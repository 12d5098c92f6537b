----------------------------- MODULE MCMessages -----------------------------
(* What is sent and received, on small instances: the channel of             *)
(* MakeInfinite, the metrics that go through one, the way of an event from   *)
(* Kafka to the watchers of eventemitter, and the calls and logs of the      *)
(* contracts.  The parts share no variable, so a behaviour is one of a       *)
(* single part and the others stay where they begin.                         *)
EXTENDS InfiniteChannel, AbiCodec

CONSTANTS p, c, s, Plain, Concurrent, Serial, MaxLog, MaxFaults,
          Callers, ObsoleteTimeout, BatchTimeout, BufferSize, SendSize, MaxCalls, MaxTime,
          MaxRing, Recipients, MaxChange, MaxSubmit, Origins

\* Two types with topics of their own, and one whose topic depends on a field.
Kinds == {[type |-> t, finished |-> FALSE] : t \in {"TransferEvent", "ApprovalEvent", "BlockEvent"}}
           \cup {[type |-> "BlockEvent", finished |-> TRUE]}
TopicOf == [w \in {p, c, s} |-> "Transfer"]

VARIABLES part,
    log, committed, marked, pos, status, on, open, calls, busy, fresh, done, quit, faults,
    now, puts, storing, chan, stored, batch, start, requests, dropped, shut, broken,
    ring, call, tx, mined, fills, count, emitted, got

Pipeline == INSTANCE EventPipeline WITH closed <- quit
Metrics == INSTANCE MetricProducer WITH calls <- puts, closed <- shut, panicked <- broken
Ring == INSTANCE RingCall WITH log <- mined
Contract == INSTANCE ContractLogs WITH Senders <- Origins, sent <- emitted

pipeline == <<log, committed, marked, pos, status, on, open, calls, busy, fresh, done, quit, faults>>
metrics == <<now, puts, storing, chan, stored, batch, start, requests, dropped, shut, broken>>
contracts == <<ring, call, tx, mined, fills, count, emitted, got>>

MCInit ==
    /\ part \in {"channel", "pipeline", "metrics", "ring", "contract"}
    /\ Init /\ Pipeline!Init /\ Metrics!Init /\ Ring!Init /\ Contract!Init
    /\ part # "ring" => Len(ring.orders) = 1

MCNext ==
    \/ part = "channel" /\ Next /\ UNCHANGED <<part, pipeline, metrics, contracts>>
    \/ part = "pipeline" /\ Pipeline!Next /\ UNCHANGED <<part, vars, metrics, contracts>>
    \/ part = "metrics" /\ Metrics!Next /\ UNCHANGED <<part, vars, pipeline, contracts>>
    \/ part = "ring" /\ Ring!Next /\ UNCHANGED <<part, vars, pipeline, metrics, emitted, got>>
    \/ part = "contract" /\ Contract!Next
         /\ UNCHANGED <<part, vars, pipeline, metrics, ring, call, tx, mined, fills, count>>

\* The fairness of the channel and of the pipeline.
MCSpec ==
    /\ MCInit /\ [][MCNext]_<<part, vars, pipeline, metrics, contracts>>
    /\ \A r \in Receivers : WF_vars(part = "channel" /\ StartReceive(r))
    /\ SF_vars(part = "channel" /\ \E r \in Receivers : Deliver(r))
    /\ \A x \in Senders : SF_vars(part = "channel" /\ Accept(x))
    /\ WF_pipeline(part = "pipeline" /\ Pipeline!Register)
    /\ WF_pipeline(part = "pipeline" /\ (Pipeline!Skip \/ Pipeline!Emit \/ Pipeline!Mark))
    /\ WF_pipeline(part = "pipeline" /\ Pipeline!Restart)
    /\ WF_pipeline(part = "pipeline" /\ \E k \in calls : Pipeline!Return(k[1], k[2]))
    /\ WF_pipeline(part = "pipeline"
                     /\ \E k \in calls : Pipeline!HandOver(k[1], k[2]) \/ Pipeline!Panic(k[1], k[2]))
    /\ WF_pipeline(part = "pipeline" /\ \E w \in Serial : Pipeline!SerialReturn(w))

-----------------------------------------------------------------------------
(* What MakeInfinite has accepted is received in the end, also after the     *)
(* input is closed, and a send returns although the receivers are slow.      *)
ChannelDelivers == []TypeOK /\ (part = "channel" => AllReceived /\ SendReturns)

(* At least once and in order: a message whose offset the group has committed *)
(* was handled to its end by every watcher Emit waits for, whatever crashes  *)
(* happen, and within one life of the process a watcher that is not          *)
(* Concurrent handles messages in the order of the topic and none twice,     *)
(* each unmarshalled into the type it was marshalled from.                   *)
EventsHandled ==
    part = "pipeline" =>
        Pipeline!TypeOK /\ Pipeline!RightType /\ Pipeline!CommittedHandled /\ Pipeline!InOrder

(* Every message reaches the watchers of its topic, past messages that do    *)
(* not disassemble and through crashes, unless the consumer is closed.       *)
AllHandled == part = "pipeline" => Pipeline!AllHandled

(* Although callers race and timestamps come out of order, a metric datum is *)
(* sent once, in a request of at most batchSendSize data, and a datum past   *)
(* the batch timeout takes the whole buffer along.                           *)
MetricsBatched == Metrics!TypeOK /\ Metrics!DatumOnce /\ Metrics!RequestBounded /\ Metrics!BatchSpan

(* A submitRing call is read as the ring it was built from, and is signed    *)
(* with the auth keys for its own fee recipient and selections, until the    *)
(* ring is submitted once more; a call that is cut is rejected.              *)
RingDecoded == part = "ring" => Ring!RingDecoded /\ Ring!AuthSignsCall

(* The fills read from a RingMined log close the ring.                       *)
RingFilled == part = "ring" => Ring!FillsLinked

(* The other calls and logs of the contracts are read as what they say,      *)
(* whichever arguments of a log are topics.                                  *)
ContractDecoded == part = "contract" => Contract!ContractDecoded
=============================================================================
