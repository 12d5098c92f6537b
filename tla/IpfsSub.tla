------------------------------- MODULE IpfsSub -------------------------------
(* IPFSSubServiceImpl: one subscription (subProxy) per topic, each with the  *)
(* goroutines its listen has started.  A goroutine reads a record from the   *)
(* stream of the subscription and emits the order in it, for ever: nothing   *)
(* looks at the stop channel that quit closes.                               *)
EXTENDS Naturals, Sequences, FiniteSets
CONSTANTS ListenTopics,   \* of the options, a sequence
          OtherTopics,    \* topics that are registered later
          MaxRecords, MaxProxies, MaxListeners  \* bounds: records published per topic,
                          \* subscriptions made, goroutines of a subscription
VARIABLES pub,      \* the records of a topic: is it an order?
          proxies,  \* the subscriptions: topic, stop channel, next record, what was emitted
          subs,     \* the index of the subscription of a topic, 0 if there is none
          reading,  \* per subscription, the goroutines blocked in iterator.Next
          holding,  \* records that were read and are not emitted: <<subscription, record>>
          started,  \* Start was called
          orderly,  \* it was called once, before topics were registered, and
                    \* neither Stop nor Restart was
          alive

vars == <<pub, proxies, subs, reading, holding, started, orderly, alive>>

Topics == {ListenTopics[i] : i \in DOMAIN ListenTopics} \cup OtherTopics

\* newSubProxy: PubSubSubscribe gives the records that are published from now on.
Proxy(t, n) == [topic |-> t, stop |-> "nil", from |-> n, next |-> n, emitted |-> <<>>]
NewSubProxy(t) == Proxy(t, Len(pub[t]) + 1)

\* NewIPFSSubService; a subscription that fails ends the process.
Init ==
  /\ pub = [t \in Topics |-> <<>>]
  /\ proxies = [i \in DOMAIN ListenTopics |-> Proxy(ListenTopics[i], 1)]
  /\ subs \in [Topics -> 0 .. Len(ListenTopics)]
  /\ \A t \in Topics :
       /\ subs[t] # 0 => ListenTopics[subs[t]] = t
       /\ \A i \in DOMAIN ListenTopics : ListenTopics[i] = t => i <= subs[t]
  /\ reading = [i \in 1 .. MaxProxies |-> 0]
  /\ holding = {} /\ started = FALSE /\ orderly = TRUE /\ alive = TRUE

\* A record is published to the topic, by this relay or another.
Publish(t, isOrder) ==
  /\ alive /\ Len(pub[t]) < MaxRecords
  /\ pub' = [pub EXCEPT ![t] = Append(@, isOrder)]
  /\ UNCHANGED <<proxies, subs, reading, holding, started, orderly, alive>>

\* quit: closing a stop channel that was not made or is closed panics.
Quits(i) == proxies[i].stop = "open"

\* A mutation: Register listens although the subscription is listened to.
RegisterTwice(t) ==
  /\ alive /\ subs[t] = 0 /\ Len(proxies) < MaxProxies
  /\ proxies' = Append(proxies, [NewSubProxy(t) EXCEPT !.stop = "open"])
  /\ reading' = [reading EXCEPT ![Len(proxies) + 1] = 2]
  /\ subs' = [subs EXCEPT ![t] = Len(proxies) + 1]
  /\ orderly' = (orderly /\ started)
  /\ UNCHANGED <<pub, holding, started, alive>>

\* Register; a topic that exists and a failed subscription are errors that
\* change nothing.
Register(t) ==
  /\ alive /\ subs[t] = 0 /\ Len(proxies) < MaxProxies
  /\ proxies' = Append(proxies, [NewSubProxy(t) EXCEPT !.stop = "open"])
  /\ reading' = [reading EXCEPT ![Len(proxies) + 1] = 1]
  /\ subs' = [subs EXCEPT ![t] = Len(proxies) + 1]
  /\ orderly' = (orderly /\ started)
  /\ UNCHANGED <<pub, holding, started, alive>>

Unregister(t) ==
  /\ alive /\ subs[t] # 0
  /\ IF Quits(subs[t])
     THEN /\ proxies' = [proxies EXCEPT ![subs[t]].stop = "closed"]
          /\ subs' = [subs EXCEPT ![t] = 0]
          /\ UNCHANGED alive
     ELSE alive' = FALSE /\ UNCHANGED <<proxies, subs>>
  /\ UNCHANGED <<pub, reading, holding, started, orderly>>

InSubs(i) == \E t \in Topics : subs[t] = i

Listeners(i) == reading[i] + Cardinality({h \in holding : h[1] = i})

\* listen on every subscription of the map.
ListenAll ==
  /\ \A i \in DOMAIN proxies : InSubs(i) => Listeners(i) < MaxListeners
  /\ proxies' = [i \in DOMAIN proxies |-> IF InSubs(i) THEN [proxies[i] EXCEPT !.stop = "open"] ELSE proxies[i]]
  /\ reading' = [i \in DOMAIN reading |-> IF InSubs(i) THEN reading[i] + 1 ELSE reading[i]]

Start ==
  /\ alive /\ ListenAll /\ started' = TRUE /\ orderly' = (orderly /\ ~started)
  /\ UNCHANGED <<pub, subs, holding, alive>>

AllQuit == \A i \in DOMAIN proxies : InSubs(i) => Quits(i)

Stop ==
  /\ alive
  /\ alive' = AllQuit
  /\ proxies' = [i \in DOMAIN proxies |-> IF AllQuit /\ InSubs(i) THEN [proxies[i] EXCEPT !.stop = "closed"] ELSE proxies[i]]
  /\ orderly' = FALSE
  /\ UNCHANGED <<pub, subs, reading, holding, started>>

Restart ==
  /\ alive /\ orderly' = FALSE
  /\ IF AllQuit THEN ListenAll /\ UNCHANGED alive
     ELSE alive' = FALSE /\ UNCHANGED <<proxies, reading>>
  /\ UNCHANGED <<pub, subs, holding, started>>

Readable(i) == alive /\ reading[i] > 0 /\ proxies[i].next <= Len(pub[proxies[i].topic])

\* A goroutine gets the next record; one without an order is passed over.
Read(i) ==
  /\ Readable(i)
  /\ LET n == proxies[i].next IN
       /\ proxies' = [proxies EXCEPT ![i].next = n + 1]
       /\ IF pub[proxies[i].topic][n]
          THEN holding' = holding \cup {<<i, n>>} /\ reading' = [reading EXCEPT ![i] = @ - 1]
          ELSE UNCHANGED <<holding, reading>>
  /\ UNCHANGED <<pub, subs, started, orderly, alive>>

\* Two goroutines in Next of one chunkedReader race: the record may be lost
\* or torn, and a torn one ends the process.
ReadTorn(i) ==
  /\ Readable(i) /\ reading[i] > 1
  /\ \/ proxies' = [proxies EXCEPT ![i].next = @ + 1] /\ UNCHANGED alive
     \/ alive' = FALSE /\ UNCHANGED proxies
  /\ UNCHANGED <<pub, subs, reading, holding, started, orderly>>

\* An error of iterator.Next is fatal.
ReadFails(i) ==
  /\ alive /\ reading[i] > 0
  /\ alive' = FALSE
  /\ UNCHANGED <<pub, proxies, subs, reading, holding, started, orderly>>

\* eventemitter.Emit of the order has returned.
Emit(i, n) ==
  /\ alive /\ <<i, n>> \in holding
  /\ holding' = holding \ {<<i, n>>}
  /\ reading' = [reading EXCEPT ![i] = @ + 1]
  /\ proxies' = [proxies EXCEPT ![i].emitted = Append(@, n)]
  /\ UNCHANGED <<pub, subs, started, orderly, alive>>

Calls ==
  \/ \E t \in Topics : Register(t) \/ Unregister(t)
  \/ Start \/ Stop \/ Restart

Goroutines ==
  \/ \E i \in DOMAIN proxies : Read(i) \/ ReadTorn(i) \/ ReadFails(i)
  \/ \E h \in holding : Emit(h[1], h[2])

Next == (\E t \in Topics, b \in BOOLEAN : Publish(t, b)) \/ Calls \/ Goroutines

Spec == Init /\ [][Next]_vars

\* Every goroutine that has a record to read or to emit goes on.
FairSpec ==
  /\ Spec
  /\ \A i \in 1 .. MaxProxies : WF_vars(i \in DOMAIN proxies /\ Read(i))
  /\ WF_vars(\E h \in holding : Emit(h[1], h[2]))

------------------------------------------------------------------------------
(* Every registered topic has a subscription of its own topic, and a         *)
(* goroutine that holds a record holds an order its subscription has read.   *)
TypeOK ==
  /\ Len(proxies) <= MaxProxies /\ alive \in BOOLEAN /\ started \in BOOLEAN /\ orderly \in BOOLEAN
  /\ \A i \in DOMAIN proxies :
       /\ proxies[i].stop \in {"nil", "open", "closed"}
       /\ proxies[i].next \in proxies[i].from .. Len(pub[proxies[i].topic]) + 1
  /\ \A t \in Topics : subs[t] # 0 => proxies[subs[t]].topic = t
  /\ \A h \in holding : h[2] < proxies[h[1]].next /\ pub[proxies[h[1]].topic][h[2]]
  /\ \A i \in 1 .. MaxProxies : Listeners(i) \in 0 .. MaxListeners

Emitted(i, n) == i \in DOMAIN proxies /\ \E j \in DOMAIN proxies[i].emitted : proxies[i].emitted[j] = n

(* With the orderly use a subscription emits the orders of its topic in the  *)
(* order in which they were published, each once and none left out, while    *)
(* topics are registered and unregistered.                                   *)
EmittedInOrder ==
  orderly => \A i \in DOMAIN proxies : LET p == proxies[i] IN
    /\ \A j, k \in DOMAIN p.emitted : j < k => p.emitted[j] < p.emitted[k]
    /\ \A n \in p.from .. p.next - 1 : pub[p.topic][n] =>
         <<i, n>> \in holding \/ Emitted(i, n)

(* With the orderly use an order published to a topic while it is listened   *)
(* to is emitted in the end, past records without an order, unless reading   *)
(* fails and ends the process.                                               *)
OrderEmitted ==
  \A i \in 1 .. MaxProxies, n \in 1 .. MaxRecords :
    (/\ started /\ i \in DOMAIN proxies /\ InSubs(i) /\ proxies[i].from <= n
     /\ n <= Len(pub[proxies[i].topic]) /\ pub[proxies[i].topic][n])
      ~> (~alive \/ ~orderly \/ Emitted(i, n))
==============================================================================
