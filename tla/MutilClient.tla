---------------------------- MODULE MutilClient -----------------------------
(***************************************************************************)
(* Routing of calls to Ethereum nodes, eth/accessor/accessor_mutilclient.go*)
(* Every process keeps its nodes (clients), the ones that did not answer   *)
(* (downedClients) and the last block number of each; a goroutine asks all *)
(* clients for their block number every three seconds and notes in Redis   *)
(* which node has reported which block.  bestClient picks a node that has  *)
(* the block a call is about.                                              *)
(*                                                                         *)
(* A node that answers never goes back to a lower block.                   *)
(***************************************************************************)
EXTENDS Integers, FiniteSets, FiniteSetsExt

CONSTANTS
    Procs,      \* processes that share the Redis cache
    Urls,       \* the nodes
    RawUrls,    \* RawUrls[p]: the nodes in p's configuration
    Window,     \* blocks_count: how many block numbers Redis keeps
    None,       \* no block number, no node
    MaxHeight,  \* bound: the highest block
    MaxFlips,   \* bound: nodes going down or coming back
    MaxCalls    \* bound: calls

ASSUME UrlAssumption == RawUrls \in [Procs -> SUBSET Urls]
ASSUME NoneAssumption == None \notin Nat /\ None \notin Urls
ASSUME BoundAssumption ==
    Window \in Nat \ {0} /\ MaxHeight \in Nat \ {0} /\ MaxFlips \in Nat /\ MaxCalls \in Nat

VARIABLES
    height,     \* height[u]: the block node u has
    up,         \* the nodes that answer
    usage,      \* Redis: usage[b], the nodes that reported block b
    blocks,     \* Redis: the reported block numbers
    clients,    \* clients[p]
    downed,     \* downed[p]: downedClients
    known,      \* known[p][u]: RpcClient.blockNumber, or None
    todo,       \* todo[a]: the clients the loop of syncBlockNumber has not asked yet
    got,        \* got[a]: <<node, its block number or None>>, or None
    pc,         \* pc[p]: where the caller in p is
    want,       \* want[p]: the block the call is about
    chosen,     \* chosen[p]: the node bestClient returned, or None
    flips, calls

nodes == <<height, up, flips>>
redis == <<usage, blocks>>
table == <<clients, downed, known>>
vars == <<nodes, redis, table, todo, got, pc, want, chosen, calls>>

\* syncBlockNumber runs in the goroutine of startSyncBlockNumber and in callers.
Actors == Procs \X {"ticker", "caller"}
Heights == 0..MaxHeight

TypeOK ==
    /\ height \in [Urls -> Heights]
    /\ up \subseteq Urls
    /\ usage \in [Heights -> SUBSET Urls]
    /\ blocks \subseteq Heights
    /\ clients \in [Procs -> SUBSET Urls]
    /\ downed \in [Procs -> SUBSET Urls]
    /\ known \in [Procs -> [Urls -> Heights \cup {None}]]
    /\ todo \in [Actors -> SUBSET Urls]
    /\ got \in [Actors -> (Urls \X (Heights \cup {None})) \cup {None}]
    /\ pc \in [Procs -> {"idle", "usage", "sync", "chosen"}]
    /\ want \in [Procs -> Heights]
    /\ chosen \in [Procs -> Urls \cup {None}]
    /\ flips \in 0..MaxFlips
    /\ calls \in 0..MaxCalls

\* NewMutilClient: newRpcClient for every configured node.  Redis may hold what
\* other processes reported before.
Init ==
    /\ height \in [Urls -> 0..1]
    /\ up \in SUBSET Urls
    /\ usage \in {r \in [Heights -> SUBSET Urls] : \A b \in Heights : \A u \in r[b] : height[u] >= b}
    /\ blocks = {b \in Heights : usage[b] # {} /\ \A c \in Heights : usage[c] # {} => b > c - Window}
    /\ clients = [p \in Procs |-> RawUrls[p] \cap up]
    /\ downed = [p \in Procs |-> RawUrls[p] \ up]
    /\ known = [p \in Procs |-> [u \in Urls |-> None]]
    /\ todo = [a \in Actors |-> {}]
    /\ got = [a \in Actors |-> None]
    /\ pc = [p \in Procs |-> "idle"]
    /\ want = [p \in Procs |-> 0]
    /\ chosen = [p \in Procs |-> None]
    /\ flips = 0 /\ calls = 0

-----------------------------------------------------------------------------
\* The nodes: a new block, an outage and its end.
Grow(u) ==
    /\ height[u] < MaxHeight
    /\ height' = [height EXCEPT ![u] = @ + 1]
    /\ UNCHANGED <<up, flips, redis, table, todo, got, pc, want, chosen, calls>>

Flip(u) ==
    /\ flips < MaxFlips
    /\ flips' = flips + 1
    /\ up' = IF u \in up THEN up \ {u} ELSE up \cup {u}
    /\ UNCHANGED <<height, redis, table, todo, got, pc, want, chosen, calls>>

\* The key of block b has not been written for three days.
UsageExpires(b) ==
    /\ usage[b] # {}
    /\ usage' = [usage EXCEPT ![b] = {}]
    /\ UNCHANGED <<nodes, blocks, table, todo, got, pc, want, chosen, calls>>

-----------------------------------------------------------------------------
\* startSyncBlockNumber: the next round of the ticker.
SyncStart(p) ==
    /\ todo[<<p, "ticker">>] = {} /\ got[<<p, "ticker">>] = None /\ clients[p] # {}
    /\ todo' = [todo EXCEPT ![<<p, "ticker">>] = clients[p]]
    /\ UNCHANGED <<nodes, redis, table, got, pc, want, chosen, calls>>

\* syncBlockNumber: one client is asked ...
SyncAsk(a) ==
    /\ got[a] = None
    /\ \E u \in todo[a] :
          /\ todo' = [todo EXCEPT ![a] = @ \ {u}]
          /\ got' = [got EXCEPT ![a] = <<u, IF u \in up THEN height[u] ELSE None>>]
    /\ UNCHANGED <<nodes, redis, table, pc, want, chosen, calls>>

\* Mutation: the trimming keeps the old numbers instead of the new ones.
SyncNoteTrim(a) ==
    /\ got[a] # None
    /\ LET p == a[1]
           u == got[a][1]
           b == got[a][2]
       IN  IF b = None
           THEN /\ downed' = [downed EXCEPT ![p] = @ \cup {u}]
                /\ UNCHANGED <<known, redis>>
           ELSE /\ downed' = [downed EXCEPT ![p] = @ \ {u}]
                /\ known' = [known EXCEPT ![p] = [@ EXCEPT ![u] = b]]
                /\ usage' = [usage EXCEPT ![b] = @ \cup {u}]
                /\ blocks' = {x \in blocks \cup {b} : x < b + Window}
    /\ got' = [got EXCEPT ![a] = None]
    /\ UNCHANGED <<nodes, clients, todo, pc, want, chosen, calls>>

\* Mutation: a client that answers stays among the downed ones.
SyncNoteDowned(a) ==
    /\ got[a] # None
    /\ LET p == a[1]
           u == got[a][1]
           b == got[a][2]
       IN  IF b = None
           THEN /\ downed' = [downed EXCEPT ![p] = @ \cup {u}]
                /\ UNCHANGED <<known, redis>>
           ELSE /\ known' = [known EXCEPT ![p] = [@ EXCEPT ![u] = b]]
                /\ usage' = [usage EXCEPT ![b] = @ \cup {u}]
                /\ blocks' = {x \in blocks \cup {b} : x > b - Window}
                /\ UNCHANGED downed
    /\ got' = [got EXCEPT ![a] = None]
    /\ UNCHANGED <<nodes, clients, todo, pc, want, chosen, calls>>

\* ... and its answer noted, here and in Redis.
SyncNote(a) ==
    /\ got[a] # None
    /\ LET p == a[1]
           u == got[a][1]
           b == got[a][2]
       IN  IF b = None
           THEN /\ downed' = [downed EXCEPT ![p] = @ \cup {u}]
                /\ UNCHANGED <<known, redis>>
           ELSE /\ downed' = [downed EXCEPT ![p] = @ \ {u}]
                /\ known' = [known EXCEPT ![p] = [@ EXCEPT ![u] = b]]
                /\ usage' = [usage EXCEPT ![b] = @ \cup {u}]
                /\ blocks' = {x \in blocks \cup {b} : x > b - Window}
    /\ got' = [got EXCEPT ![a] = None]
    /\ UNCHANGED <<nodes, clients, todo, pc, want, chosen, calls>>

-----------------------------------------------------------------------------
\* Mutation: a node one block behind is good enough.
MayHaveAlmost(p, n) == {u \in clients[p] \ downed[p] : known[p][u] = None \/ known[p][u] >= n - 1}

\* BlockNumber, 0 when Redis has none.
BlockNumber == IF blocks = {} THEN 0 ELSE Max(blocks)

\* Call and BatchCall: bestClient for a block number; "latest" is BlockNumber or,
\* when Redis cannot be read, 0, and any other word is 0.
Route(p) ==
    /\ pc[p] = "idle" /\ calls < MaxCalls
    /\ calls' = calls + 1
    /\ \E n \in Heights : want' = [want EXCEPT ![p] = n]
    /\ pc' = [pc EXCEPT ![p] = "usage"]
    /\ UNCHANGED <<nodes, redis, table, todo, got, chosen>>

\* The route parameter is the url of a client.
RouteTo(p) ==
    /\ pc[p] = "idle" /\ calls < MaxCalls
    /\ calls' = calls + 1
    /\ \E u \in clients[p] : chosen' = [chosen EXCEPT ![p] = u]
    /\ want' = [want EXCEPT ![p] = 0]
    /\ pc' = [pc EXCEPT ![p] = "chosen"]
    /\ UNCHANGED <<nodes, redis, table, todo, got>>

\* The clients of p that are not down and may have block n.
MayHave(p, n) == {u \in clients[p] \ downed[p] : known[p][u] = None \/ known[p][u] >= n}

Choose(p, urls) ==
    /\ \E u \in urls : chosen' = [chosen EXCEPT ![p] = u]
    /\ pc' = [pc EXCEPT ![p] = "chosen"]
    /\ UNCHANGED todo

\* useageClient, with newRpcClient for nodes only other processes know.
Usage(p) ==
    /\ pc[p] = "usage"
    /\ LET new == usage[want[p]] \ (clients[p] \cup downed[p])
           urls == usage[want[p]] \ (downed[p] \cup (new \ up))
       IN  /\ clients' = [clients EXCEPT ![p] = @ \cup (new \cap up)]
           /\ downed' = [downed EXCEPT ![p] = @ \cup (new \ up)]
           /\ \/ Choose(p, urls)
              \/ urls = {} /\ Choose(p, MayHave(p, want[p]))
              \/ /\ urls = {} /\ MayHave(p, want[p]) = {}
                 /\ todo' = [todo EXCEPT ![<<p, "caller">>] = clients[p]]
                 /\ pc' = [pc EXCEPT ![p] = "sync"]
                 /\ UNCHANGED chosen
    /\ UNCHANGED <<nodes, redis, known, got, want, calls>>

\* After the caller's own syncBlockNumber: a node, or "there isn't an usable ethnode".
AfterSync(p) ==
    /\ pc[p] = "sync" /\ todo[<<p, "caller">>] = {} /\ got[<<p, "caller">>] = None
    /\ \/ Choose(p, MayHave(p, want[p]))
       \/ /\ MayHave(p, want[p]) = {}
          /\ pc' = [pc EXCEPT ![p] = "idle"]
          /\ UNCHANGED <<chosen, todo>>
    /\ UNCHANGED <<nodes, redis, table, got, want, calls>>

\* The node is called; its answer is the caller's.
CallNode(p) ==
    /\ pc[p] = "chosen"
    /\ pc' = [pc EXCEPT ![p] = "idle"]
    /\ chosen' = [chosen EXCEPT ![p] = None]
    /\ UNCHANGED <<nodes, redis, table, todo, got, want, calls>>

Caller(p) == Usage(p) \/ AfterSync(p) \/ CallNode(p)
Sync(a) == SyncAsk(a) \/ SyncNote(a)

Next ==
    \/ \E u \in Urls : Grow(u) \/ Flip(u)
    \/ \E b \in Heights : UsageExpires(b)
    \/ \E p \in Procs : SyncStart(p) \/ Route(p) \/ RouteTo(p) \/ Caller(p)
    \/ \E a \in Actors : Sync(a)

Spec == Init /\ [][Next]_vars

\* The ticker goes on, its loop reaches every client, callers run on.
FairSpec ==
    /\ Spec
    /\ \A p \in Procs : WF_vars(SyncStart(p)) /\ WF_vars(Caller(p))
    /\ \A a \in Actors : WF_vars(Sync(a))

-----------------------------------------------------------------------------
\* bestClient only returns nodes that have the block of the call, unless it
\* knows nothing about the node yet.
HasBlock(p) ==
    pc'[p] = "chosen" /\ pc[p] # "chosen"
        => height[chosen'[p]] >= want'[p] \/ known[p][chosen'[p]] = None

ChosenHasBlock == [][\A p \in Procs : HasBlock(p)]_vars

\* The block number that Redis answers never goes back, although slow nodes go
\* on to report old blocks and old numbers are trimmed.
BlockNumberMonotone == [][BlockNumber' >= BlockNumber]_vars

\* A client that answers again after an outage is used again.
Recovers ==
    \A u \in Urls, p \in Procs :
        <>[](u \in up) => [](u \in clients[p] => <>(u \notin downed[p]))
=============================================================================
