----------------------------- MODULE MCBroadcast -----------------------------
(* The order broadcast on small instances: PubOrder, SubOrderNext, the       *)
(* matrix client below both, and the IPFS subscriptions.  The parts share no *)
(* variable, so a behaviour is one of a single part and the others stay      *)
(* where they begin.                                                         *)
EXTENDS OrderPublish

CONSTANTS p1, p2, r1, r2, r3,
          Rooms, CachedRooms, Limit, MaxRoom, MaxCrash, MaxLost,
          Lockers, Getters, Nobody, Replaces, MaxLogins, MaxCalls, MaxErr, MaxForget,
          t1, t2, MaxRecords, MaxProxies, MaxListeners

VARIABLES part,
    room, from, cached, hand, chan, received, up, crashes, lost,
    token, valid, issued, mtx, pc, used, again, result, disturbed, calls, denied, forgets,
    pub, proxies, subs, reading, holding, started, orderly, alive

\* Two publishers of the same sort, one of them with two rooms.
MCRoomsOf == [p \in Publishers |-> IF p = p1 THEN <<r1, r2>> ELSE <<r3>>]
MCNameOf == [p \in Publishers |-> "matrixPublisher"]
Feed == INSTANCE OrderFeed
Matrix == INSTANCE MatrixClient WITH errs <- denied
\* One topic of the options and one that is registered later.
Ipfs == INSTANCE IpfsSub WITH ListenTopics <- <<t1>>, OtherTopics <- {t2}

feed == <<room, from, cached, hand, chan, received, up, crashes, lost>>
matrix == <<token, valid, issued, mtx, pc, used, again, result, disturbed, calls, denied, forgets>>
ipfs == <<pub, proxies, subs, reading, holding, started, orderly, alive>>

MCInit ==
    /\ part \in {"publishing", "feed", "matrix", "ipfs"}
    /\ Init /\ Feed!Init /\ Matrix!Init /\ Ipfs!Init

MCNext ==
    \/ part = "publishing" /\ Next /\ UNCHANGED <<part, feed, matrix, ipfs>>
    \/ part = "feed" /\ Feed!Next /\ UNCHANGED <<part, vars, matrix, ipfs>>
    \/ part = "matrix" /\ Matrix!Next /\ UNCHANGED <<part, vars, feed, ipfs>>
    \/ part = "ipfs" /\ Ipfs!Next /\ UNCHANGED <<part, vars, feed, matrix>>

\* The fairness of the parts.
MCSpec ==
    /\ MCInit /\ [][MCNext]_<<part, vars, feed, matrix, ipfs>>
    /\ \A r \in Rooms : /\ WF_feed(part = "feed" /\ Feed!Next1(r))
                        /\ WF_feed(part = "feed" /\ Feed!Push(r))
    /\ WF_feed(part = "feed" /\ Feed!Receive)
    /\ WF_feed(part = "feed" /\ Feed!Restart)
    /\ \A g \in Lockers \cup Getters : SF_matrix(part = "matrix" /\ Matrix!Go(g))
    /\ \A i \in 1 .. MaxProxies : WF_ipfs(part = "ipfs" /\ i \in DOMAIN proxies /\ Ipfs!Read(i))
    /\ WF_ipfs(part = "ipfs" /\ \E h \in holding : Ipfs!Emit(h[1], h[2]))

------------------------------------------------------------------------------
(* SubOrderNext: until a crash no order before the cursor is left out; with  *)
(* a cached cursor an order is received at most once and in order, without   *)
(* one every order of another relay is received, through crashes.            *)
OrdersFed ==
    /\ [](Feed!TypeOK /\ Feed!AtMostOnce /\ Feed!NoneLeftOut)
    /\ part = "feed" => Feed!AllReceived

(* The matrix client: a call that could log in is refused only if another    *)
(* goroutine was logging in or the server forgot a token; and as long as no  *)
(* request fails mtx is held only around a request and every call returns.   *)
MatrixServes ==
    /\ [](Matrix!TypeOK /\ Matrix!Recovers /\ Matrix!LockHeld)
    /\ part = "matrix" => Matrix!CallEnds

(* With the orderly use an IPFS subscription emits the orders of its topic   *)
(* in order, each once and none left out, and all of them unless reading     *)
(* fails and ends the process.                                               *)
SubscriptionEmits ==
    /\ [](Ipfs!TypeOK /\ Ipfs!EmittedInOrder)
    /\ part = "ipfs" => Ipfs!OrderEmitted
==============================================================================
