--------------------------- MODULE EventPipeline ---------------------------
(* From the extractor to the watchers: an event is assembled into a Kafka    *)
(* message, the consumer goroutine of a process takes the messages of the    *)
(* topic one by one, disassembles each and emits it, and marks its offset    *)
(* when Emit has returned.  Emit starts a goroutine per watcher and waits    *)
(* for those that are not Concurrent.  A watcher of NewSerialWatcher only    *)
(* hands the event to a goroutine of its own.                                *)
(*                                                                           *)
(* Emit reads the map of watchers without mtx while On and Un write it.  The *)
(* read gives the slice before or after the write, or the runtime ends the   *)
(* process: On and Un are atomic here, and Crash stands for the third.       *)
EXTENDS Naturals, Sequences, FiniteSets
CONSTANTS Plain,        \* watchers with Concurrent = false, there from the start
          Concurrent,   \* watchers with Concurrent = true, there from the start
          Serial,       \* watchers of NewSerialWatcher
          TopicOf,      \* the topic a watcher is registered for
          Kinds,        \* the kinds of events that are produced
          None,
          MaxLog, MaxFaults \* bounds: messages; crashes, stops and closes
VARIABLES log,       \* the messages of the Kafka topic, in one partition
          committed, \* the offset the consumer group has committed
          marked,    \* MarkOffset was called up to here
          pos,       \* the offset the consumer is at
          status,    \* of the process: down, none (not registered), idle, emitting
          on,        \* the serial watchers that are registered
          open,      \* the serial watchers whose dataChan is open
          calls,     \* the calls of Handle that have not returned: <<watcher, offset>>
          busy,      \* the offset a serial goroutine handles, or None
          fresh,     \* the offsets a watcher handled since the process started
          done,      \* the pairs <<watcher, offset>> ever handled
          closed,    \* ConsumerRegister.Close was called
          faults

vars == <<log, committed, marked, pos, status, on, open, calls, busy, fresh, done, closed, faults>>

Watchers == Plain \cup Concurrent \cup Serial

\* eventToTopic without its case for BlockEvent, by Go type.
TopicOfType ==
  [SubmitRingMethodEvent |-> "Miner_SubmitRing_Method", OrderCancelledEvent |-> "CancelOrder",
   CutoffEvent |-> "Cutoff", CutoffPairEvent |-> "CutoffPair",
   ApprovalEvent |-> "Approve", TransferEvent |-> "Transfer",
   WethDepositEvent |-> "WethDeposit", WethWithdrawalEvent |-> "WethWithdrawal",
   TokenRegisterEvent |-> "TokenRegistered", TokenUnRegisterEvent |-> "TokenUnRegistered",
   AddressAuthorizedEvent |-> "AddressAuthorized", AddressDeAuthorizedEvent |-> "AddressDeAuthorized",
   RingMinedEvent |-> "RingMined", OrderFilledEvent |-> "OrderFilled",
   EthTransferEvent |-> "EthTransfer", UnsupportedContractEvent |-> "UnsupportedContract",
   SyncCompleteEvent |-> "SyncChainComplete", ForkedEvent |-> "ChainForkDetected"]

EventToTopic(e) ==
  IF e.type = "BlockEvent" THEN IF e.finished THEN "Block_End" ELSE "Block_New"
  ELSE IF e.type \in DOMAIN TopicOfType THEN TopicOfType[e.type] ELSE ""

\* topicToEvent: the type a message is unmarshalled into; other topics give nil.
TypeOfTopic ==
  [Miner_SubmitRing_Method |-> "SubmitRingMethodEvent", CancelOrder |-> "OrderCancelledEvent",
   Cutoff |-> "CutoffEvent", CutoffPair |-> "CutoffPairEvent",
   Approve |-> "ApprovalEvent", Transfer |-> "TransferEvent",
   WethDeposit |-> "WethDepositEvent", WethWithdrawal |-> "WethWithdrawalEvent",
   TokenRegistered |-> "TokenRegisterEvent", TokenUnRegistered |-> "TokenUnRegisterEvent",
   AddressAuthorized |-> "AddressAuthorizedEvent", AddressDeAuthorized |-> "AddressDeAuthorizedEvent",
   RingMined |-> "RingMinedEvent", OrderFilled |-> "OrderFilledEvent",
   EthTransfer |-> "EthTransferEvent", UnsupportedContract |-> "UnsupportedContractEvent",
   Block_New |-> "BlockEvent", Block_End |-> "BlockEvent",
   SyncChainComplete |-> "SyncCompleteEvent", ChainForkDetected |-> "ForkedEvent"]

\* Disassemble succeeds; a message that is not even a KafkaOnChainEvent has
\* the topic "".
Disassembles(m) == m.topic \in DOMAIN TypeOfTopic

\* The watchers of a topic in the order of On do not matter: Emit starts a
\* goroutine for each.
WatchersOf(topic) == {w \in Plain \cup Concurrent \cup on : TopicOf[w] = topic}

Fault == faults < MaxFaults /\ faults' = faults + 1
Up == status \in {"idle", "emitting"}
AtStart == /\ on' = {} /\ open' = {} /\ calls' = {} /\ closed' = FALSE
           /\ busy' = [w \in Serial |-> None] /\ fresh' = [w \in Watchers |-> <<>>]

Init ==
  /\ log = <<>> /\ committed = 0 /\ marked = 0 /\ pos = 0 /\ status = "none"
  /\ on = {} /\ open = {} /\ calls = {} /\ busy = [w \in Serial |-> None]
  /\ fresh = [w \in Watchers |-> <<>>] /\ done = {}
  /\ closed = FALSE /\ faults = 0

\* Assemble and SendMessage.  A type without a topic is an error and sends
\* nothing; the same event may be sent twice by a retry.
Produce(e) ==
  /\ Len(log) < MaxLog /\ EventToTopic(e) # ""
  /\ log' = Append(log, [topic |-> EventToTopic(e), event |-> e])
  /\ UNCHANGED <<committed, marked, pos, status, on, open, calls, busy, fresh, done, closed, faults>>

\* A message this version of the library does not know, or not JSON at all.
ProduceOther(topic) ==
  /\ Len(log) < MaxLog
  /\ log' = Append(log, [topic |-> topic, event |-> [type |-> "other", finished |-> FALSE]])
  /\ UNCHANGED <<committed, marked, pos, status, on, open, calls, busy, fresh, done, closed, faults>>

\* RegisterTopicAndHandler; when NewConsumer fails the program calls it again.
Register ==
  /\ status = "none"
  /\ status' = "idle" /\ pos' = committed /\ marked' = committed
  /\ UNCHANGED <<log, committed, on, open, calls, busy, fresh, done, closed, faults>>

\* A mutation: a message whose handler failed is taken again.
SkipRetry ==
  /\ status = "idle" /\ ~closed /\ pos < Len(log) /\ ~Disassembles(log[pos + 1])
  /\ UNCHANGED vars

\* A message that does not disassemble: handle returns an error, which is
\* logged, and the offset is marked all the same.
Skip ==
  /\ status = "idle" /\ ~closed /\ pos < Len(log) /\ ~Disassembles(log[pos + 1])
  /\ pos' = pos + 1 /\ marked' = pos + 1
  /\ UNCHANGED <<log, committed, status, on, open, calls, busy, fresh, done, closed, faults>>

\* Emit starts the goroutines of the watchers the slice has at this moment.
Emit ==
  /\ status = "idle" /\ ~closed /\ pos < Len(log) /\ Disassembles(log[pos + 1])
  /\ status' = "emitting" /\ pos' = pos + 1
  /\ calls' = calls \cup {<<w, pos + 1>> : w \in WatchersOf(log[pos + 1].topic)}
  /\ UNCHANGED <<log, committed, marked, on, open, busy, fresh, done, closed, faults>>

\* Handle of a watcher of the program runs to its end, with or without error.
Handled(w, o) ==
  /\ fresh' = [fresh EXCEPT ![w] = Append(@, o)]
  /\ done' = done \cup {<<w, o>>}

Return(w, o) ==
  /\ <<w, o>> \in calls /\ w \notin Serial
  /\ calls' = calls \ {<<w, o>>} /\ Handled(w, o)
  /\ UNCHANGED <<log, committed, marked, pos, status, on, open, busy, closed, faults>>

\* dataChan <- eventData meets <-dataChan of the goroutine of NewSerialWatcher.
HandOver(w, o) ==
  /\ <<w, o>> \in calls /\ w \in open /\ busy[w] = None
  /\ calls' = calls \ {<<w, o>>} /\ busy' = [busy EXCEPT ![w] = o]
  /\ UNCHANGED <<log, committed, marked, pos, status, on, open, fresh, done, closed, faults>>

SerialReturn(w) ==
  /\ busy[w] # None
  /\ busy' = [busy EXCEPT ![w] = None] /\ Handled(w, busy[w])
  /\ UNCHANGED <<log, committed, marked, pos, status, on, open, calls, closed, faults>>

\* A mutation: Emit does not wait for the handlers.
WaitNone == TRUE

\* wg.Wait() in Emit.
Wait == \A c \in calls : c[1] \in Concurrent

\* MarkOffset, after Emit.
Mark ==
  /\ status = "emitting" /\ Wait
  /\ status' = "idle" /\ marked' = pos
  /\ UNCHANGED <<log, committed, pos, on, open, calls, busy, fresh, done, closed, faults>>

\* The consumer group commits the marked offset from time to time.
Commit ==
  /\ Up /\ ~closed /\ committed < marked
  /\ committed' = marked
  /\ UNCHANGED <<log, marked, pos, status, on, open, calls, busy, fresh, done, closed, faults>>

\* ConsumerRegister.Close: the consumer commits and closes its channel of
\* messages; the goroutine finishes its message and then only meets !ok.
Close ==
  /\ Up /\ ~closed /\ Fault
  /\ closed' = TRUE /\ committed' = marked
  /\ UNCHANGED <<log, marked, pos, status, on, open, calls, busy, fresh, done>>

\* NewSerialWatcher: the goroutine and On.
StartSerial(w) ==
  /\ status # "down" /\ w \notin open \cup on /\ busy[w] = None
  /\ \A c \in calls : c[1] # w
  /\ open' = open \cup {w} /\ on' = on \cup {w}
  /\ UNCHANGED <<log, committed, marked, pos, status, calls, busy, fresh, done, closed, faults>>

\* The first line of the stop function: a Handle that is blocked on dataChan
\* panics, as does one that gets there before Un.
StopClose(w) ==
  /\ w \in open /\ Fault
  /\ open' = open \ {w}
  /\ UNCHANGED <<log, committed, marked, pos, status, on, calls, busy, fresh, done, closed>>

StopUn(w) ==
  /\ w \in on \ open
  /\ on' = on \ {w}
  /\ UNCHANGED <<log, committed, marked, pos, status, open, calls, busy, fresh, done, closed, faults>>

Down ==
  /\ status' = "down" /\ AtStart
  /\ UNCHANGED <<log, committed, marked, pos, done>>

Panic(w, o) == <<w, o>> \in calls /\ w \in Serial \ open /\ Down /\ UNCHANGED faults

\* The end of the process at any point, the fatal outcome of the unlocked
\* read in Emit included.
Crash == status # "down" /\ Fault /\ Down

Restart ==
  /\ status = "down"
  /\ status' = "none"
  /\ UNCHANGED <<log, committed, marked, pos, on, open, calls, busy, fresh, done, closed, faults>>

Others == {"PendingTransaction", ""}

Next ==
  \/ \E e \in Kinds : Produce(e)
  \/ \E t \in Others : ProduceOther(t)
  \/ Register \/ Skip \/ Emit \/ Mark \/ Commit \/ Close \/ Crash \/ Restart
  \/ \E c \in calls : Return(c[1], c[2]) \/ HandOver(c[1], c[2]) \/ Panic(c[1], c[2])
  \/ \E w \in Serial : SerialReturn(w) \/ StartSerial(w) \/ StopClose(w) \/ StopUn(w)

Spec == Init /\ [][Next]_vars

(* Every goroutine that can go on does; handlers of the program return; the  *)
(* process is restarted and registers again.                                 *)
FairSpec ==
  /\ Spec /\ WF_vars(Register) /\ WF_vars(Skip \/ Emit \/ Mark) /\ WF_vars(Restart)
  /\ WF_vars(\E c \in calls : Return(c[1], c[2]))
  /\ WF_vars(\E c \in calls : HandOver(c[1], c[2]) \/ Panic(c[1], c[2]))
  /\ WF_vars(\E w \in Serial : SerialReturn(w))

-----------------------------------------------------------------------------
(* Offsets stay in order, committed behind marked behind the position, and   *)
(* Handle is only being called by Emit for messages the consumer has taken.  *)
TypeOK ==
  /\ status \in {"down", "none", "idle", "emitting"} /\ closed \in BOOLEAN
  /\ committed \in 0 .. marked /\ marked \in 0 .. pos /\ pos \in 0 .. Len(log)
  /\ on \subseteq Serial /\ open \subseteq on /\ done \subseteq Watchers \X DOMAIN log
  /\ calls \subseteq Watchers \X (1 .. pos) /\ busy \in [Serial -> (1 .. MaxLog) \cup {None}]
  /\ faults \in 0 .. MaxFaults

(* Assemble and Disassemble agree: an event is unmarshalled into the type it *)
(* was marshalled from, and the begin and the end of a block are not mixed.  *)
RightType ==
  \A i \in DOMAIN log : LET m == log[i] IN
    m.event.type # "other" =>
      /\ TypeOfTopic[m.topic] = m.event.type
      /\ m.topic = "Block_End" <=> (m.event.type = "BlockEvent" /\ m.event.finished)

(* At least once: whatever crashes happen, a message whose offset the group  *)
(* has committed was handled to its end by every watcher Emit waits for.     *)
CommittedHandled ==
  \A o \in 1 .. committed, w \in Plain : TopicOf[w] = log[o].topic => <<w, o>> \in done

(* In order: within one life of the process a watcher that is not Concurrent *)
(* handles messages in the order of the topic and none twice, a watcher of   *)
(* NewSerialWatcher too, although its goroutine runs beside Emit.            *)
InOrder ==
  \A w \in Plain \cup Serial : \A i, j \in DOMAIN fresh[w] : i < j => fresh[w][i] < fresh[w][j]

(* Every message reaches the watchers of its topic, past messages that do    *)
(* not disassemble and through crashes, unless the consumer is closed.       *)
AllHandled ==
  \A o \in 1 .. MaxLog, w \in Plain :
    (o <= Len(log) /\ log[o].topic = TopicOf[w]) ~> (<<w, o>> \in done \/ closed)
=============================================================================
