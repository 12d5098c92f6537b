------------------------- MODULE MutilClientProofs --------------------------
(***************************************************************************)
(* Proofs about MutilClient for every set of processes and nodes.          *)
(***************************************************************************)
EXTENDS MutilClient, TLAPS

\* Whatever is noted about a node, in Redis, in a process or in an answer that
\* is not noted yet, the node had that block, and nodes do not lose blocks.
Reached ==
    /\ \A b \in Heights : \A u \in usage[b] : height[u] >= b
    /\ \A p \in Procs, u \in Urls : known[p][u] # None => height[u] >= known[p][u]
    /\ \A a \in Actors : got[a] # None /\ got[a][2] # None => height[got[a][1]] >= got[a][2]

IInv == TypeOK /\ Reached

USE UrlAssumption, NoneAssumption, BoundAssumption

\* The choice among urls in bestClient keeps the types.
LEMMA ChooseType ==
    ASSUME TypeOK, NEW p \in Procs, NEW urls \in SUBSET Urls, Choose(p, urls)
    PROVE  /\ todo' \in [Actors -> SUBSET Urls]
           /\ pc' \in [Procs -> {"idle", "usage", "sync", "chosen"}]
           /\ chosen' \in [Procs -> Urls \cup {None}]
<1>1. PICK u \in urls : chosen' = [chosen EXCEPT ![p] = u]
  BY DEF Choose
<1>2. u \in Urls
  OBVIOUS
<1>3. chosen' \in [Procs -> Urls \cup {None}]
  BY <1>1, <1>2 DEF TypeOK
<1> QED BY <1>3 DEF Choose, TypeOK

\* Every step keeps the types.
LEMMA TypeStep == TypeOK /\ [Next]_vars => TypeOK'
<1> SUFFICES ASSUME TypeOK, [Next]_vars PROVE TypeOK'
  OBVIOUS
<1> USE DEF TypeOK
<1>1. ASSUME NEW u \in Urls, Grow(u) PROVE TypeOK'
  BY <1>1 DEF Grow, redis, table, Heights
<1>2. ASSUME NEW u \in Urls, Flip(u) PROVE TypeOK'
  BY <1>2 DEF Flip, redis, table
<1>3. ASSUME NEW b \in Heights, UsageExpires(b) PROVE TypeOK'
  BY <1>3 DEF UsageExpires, nodes, table
<1>4. ASSUME NEW p \in Procs, SyncStart(p) PROVE TypeOK'
  BY <1>4 DEF SyncStart, nodes, redis, table, Actors
<1>5. ASSUME NEW p \in Procs, Route(p) PROVE TypeOK'
  BY <1>5 DEF Route, nodes, redis, table
<1>6. ASSUME NEW p \in Procs, RouteTo(p) PROVE TypeOK'
  <2>1. want' \in [Procs -> Heights]
    BY <1>6 DEF RouteTo, Heights
  <2> QED BY <1>6, <2>1 DEF RouteTo, nodes, redis, table
<1>7. ASSUME NEW p \in Procs, Usage(p) PROVE TypeOK'
  <2>1. clients' \in [Procs -> SUBSET Urls] /\ downed' \in [Procs -> SUBSET Urls]
    BY <1>7 DEF Usage
  <2>2. usage[want[p]] \subseteq Urls /\ MayHave(p, want[p]) \subseteq Urls
    BY DEF MayHave
  <2> DEFINE new == usage[want[p]] \ (clients[p] \cup downed[p])
             urls == usage[want[p]] \ (downed[p] \cup (new \ up))
  <2>3. \/ Choose(p, urls)
        \/ Choose(p, MayHave(p, want[p]))
        \/ /\ todo' = [todo EXCEPT ![<<p, "caller">>] = clients[p]]
           /\ pc' = [pc EXCEPT ![p] = "sync"]
           /\ UNCHANGED chosen
    BY <1>7 DEF Usage
  <2>4. urls \in SUBSET Urls /\ MayHave(p, want[p]) \in SUBSET Urls
    BY <2>2
  <2> HIDE DEF urls, new
  <2>5. /\ todo' \in [Actors -> SUBSET Urls]
        /\ pc' \in [Procs -> {"idle", "usage", "sync", "chosen"}]
        /\ chosen' \in [Procs -> Urls \cup {None}]
    <3>1. CASE Choose(p, urls) \/ Choose(p, MayHave(p, want[p]))
      BY <2>4, <3>1, ChooseType
    <3>2. CASE /\ todo' = [todo EXCEPT ![<<p, "caller">>] = clients[p]]
               /\ pc' = [pc EXCEPT ![p] = "sync"]
               /\ UNCHANGED chosen
      BY <3>2 DEF Actors
    <3> QED BY <2>3, <3>1, <3>2
  <2> QED BY <1>7, <2>1, <2>5 DEF Usage, nodes, redis
<1>8. ASSUME NEW p \in Procs, AfterSync(p) PROVE TypeOK'
  <2>1. MayHave(p, want[p]) \in SUBSET Urls
    BY DEF MayHave
  <2>2. CASE Choose(p, MayHave(p, want[p]))
    BY <1>8, <2>1, <2>2, ChooseType DEF AfterSync, nodes, redis, table
  <2>3. CASE pc' = [pc EXCEPT ![p] = "idle"] /\ UNCHANGED <<chosen, todo>>
    BY <1>8, <2>3 DEF AfterSync, nodes, redis, table
  <2> QED BY <1>8, <2>2, <2>3 DEF AfterSync
<1>9. ASSUME NEW p \in Procs, CallNode(p) PROVE TypeOK'
  BY <1>9 DEF CallNode, nodes, redis, table
<1>10. ASSUME NEW a \in Actors, SyncAsk(a) PROVE TypeOK'
  <2>1. PICK u \in todo[a] : /\ todo' = [todo EXCEPT ![a] = @ \ {u}]
                             /\ got' = [got EXCEPT ![a] = <<u, IF u \in up THEN height[u] ELSE None>>]
    BY <1>10 DEF SyncAsk
  <2>2. u \in Urls
    OBVIOUS
  <2>3. <<u, IF u \in up THEN height[u] ELSE None>> \in Urls \X (Heights \cup {None})
    BY <2>2
  <2> QED BY <1>10, <2>1, <2>3 DEF SyncAsk, nodes, redis, table
<1>11. ASSUME NEW a \in Actors, SyncNote(a) PROVE TypeOK'
  <2>1. a[1] \in Procs
    BY DEF Actors
  <2>2. got[a] \in Urls \X (Heights \cup {None})
    BY <1>11 DEF SyncNote
  <2>3. got[a][1] \in Urls /\ got[a][2] \in Heights \cup {None}
    BY <2>2
  <2>4. CASE got[a][2] = None
    BY <1>11, <2>1, <2>3, <2>4 DEF SyncNote, nodes, redis
  <2>5. CASE got[a][2] # None
    <3>1. got[a][2] \in Heights
      BY <2>3, <2>5
    <3>2. /\ downed' = [downed EXCEPT ![a[1]] = @ \ {got[a][1]}]
          /\ known' = [known EXCEPT ![a[1]] = [@ EXCEPT ![got[a][1]] = got[a][2]]]
          /\ usage' = [usage EXCEPT ![got[a][2]] = @ \cup {got[a][1]}]
          /\ blocks' = {x \in blocks \cup {got[a][2]} : x > got[a][2] - Window}
      BY <1>11, <2>5 DEF SyncNote
    <3>3. known' \in [Procs -> [Urls -> Heights \cup {None}]]
      BY <2>1, <2>3, <3>1, <3>2
    <3>4. usage' \in [Heights -> SUBSET Urls] /\ blocks' \subseteq Heights
      BY <2>3, <3>1, <3>2
    <3>5. downed' \in [Procs -> SUBSET Urls]
      BY <2>1, <3>2
    <3> QED BY <1>11, <3>3, <3>4, <3>5 DEF SyncNote, nodes
  <2> QED BY <2>4, <2>5
<1>12. CASE UNCHANGED vars
  BY <1>12 DEF vars, nodes, redis, table
<1> QED
  BY <1>1, <1>2, <1>3, <1>4, <1>5, <1>6, <1>7, <1>8, <1>9, <1>10, <1>11, <1>12
  DEF Next, Caller, Sync

\* Every step keeps the inductive invariant.
LEMMA InvariantStep == IInv /\ [Next]_vars => IInv'
<1> SUFFICES ASSUME IInv, [Next]_vars PROVE Reached'
  BY TypeStep DEF IInv
<1>t. TypeOK /\ Reached
  BY DEF IInv
<1>r. ASSUME UNCHANGED <<height, usage, known, got>> PROVE Reached'
  BY <1>r, <1>t DEF Reached
<1>1. ASSUME NEW u \in Urls, Grow(u) PROVE Reached'
  <2>1. \A v \in Urls : height[v] \in Nat /\ height'[v] \in Nat /\ height'[v] >= height[v]
    BY <1>1, <1>t DEF Grow, TypeOK, Heights
  <2>2. \A b \in Heights : \A v \in usage'[b] : height'[v] >= b
    BY <1>1, <1>t, <2>1 DEF Grow, redis, Reached, TypeOK, Heights
  <2>3. \A p \in Procs, v \in Urls : known'[p][v] # None => height'[v] >= known'[p][v]
    <3> SUFFICES ASSUME NEW p \in Procs, NEW v \in Urls, known[p][v] # None
                 PROVE  height'[v] >= known[p][v]
      BY <1>1 DEF Grow, table
    <3>1. known[p][v] \in Nat
      BY <1>t DEF TypeOK, Heights
    <3> QED BY <1>t, <2>1, <3>1 DEF Reached
  <2>4. \A a \in Actors : got'[a] # None /\ got'[a][2] # None => height'[got'[a][1]] >= got'[a][2]
    <3> SUFFICES ASSUME NEW a \in Actors, got[a] # None, got[a][2] # None
                 PROVE  height'[got[a][1]] >= got[a][2]
      BY <1>1 DEF Grow
    <3>1. got[a][1] \in Urls /\ got[a][2] \in Nat
      BY <1>t DEF TypeOK, Heights
    <3> QED BY <1>t, <2>1, <3>1 DEF Reached
  <2> QED BY <2>2, <2>3, <2>4 DEF Reached
<1>2. ASSUME NEW b \in Heights, UsageExpires(b) PROVE Reached'
  BY <1>2, <1>t DEF UsageExpires, nodes, table, Reached, TypeOK
<1>3. ASSUME NEW a \in Actors, SyncAsk(a) PROVE Reached'
  <2>1. PICK u \in todo[a] : got' = [got EXCEPT ![a] = <<u, IF u \in up THEN height[u] ELSE None>>]
    BY <1>3 DEF SyncAsk
  <2>2. height[u] \in Nat
    BY <1>t DEF TypeOK, Heights
  <2>3. \A c \in Actors : got'[c] # None /\ got'[c][2] # None => height[got'[c][1]] >= got'[c][2]
    BY <1>t, <2>1, <2>2 DEF Reached, TypeOK
  <2> QED BY <1>3, <1>t, <2>3 DEF SyncAsk, nodes, redis, table, Reached
<1>4. ASSUME NEW a \in Actors, SyncNote(a) PROVE Reached'
  <2>1. a[1] \in Procs /\ got[a] \in Urls \X (Heights \cup {None})
    BY <1>4, <1>t DEF SyncNote, TypeOK, Actors
  <2>2. \A c \in Actors : got'[c] # None => got'[c] = got[c]
    BY <1>4, <1>t DEF SyncNote, TypeOK
  <2>3. CASE got[a][2] = None
    BY <1>4, <1>t, <2>2, <2>3 DEF SyncNote, nodes, redis, Reached
  <2>4. CASE got[a][2] # None
    <3>1. got[a][1] \in Urls /\ got[a][2] \in Heights /\ height[got[a][1]] >= got[a][2]
      BY <1>4, <1>t, <2>1, <2>4 DEF SyncNote, Reached
    <3>2. /\ known' = [known EXCEPT ![a[1]] = [@ EXCEPT ![got[a][1]] = got[a][2]]]
          /\ usage' = [usage EXCEPT ![got[a][2]] = @ \cup {got[a][1]}]
          /\ UNCHANGED height
      BY <1>4, <2>4 DEF SyncNote, nodes
    <3>3. \A b \in Heights : \A u \in usage'[b] : height[u] >= b
      BY <1>t, <3>1, <3>2 DEF Reached, TypeOK
    <3>4. \A p \in Procs, u \in Urls : known'[p][u] # None => height[u] >= known'[p][u]
      BY <1>t, <2>1, <3>1, <3>2 DEF Reached, TypeOK
    <3> QED BY <1>t, <2>2, <3>2, <3>3, <3>4 DEF Reached
  <2> QED BY <2>3, <2>4
<1>5. ASSUME NEW u \in Urls, Flip(u) PROVE Reached'
  BY <1>5, <1>r DEF Flip, redis, table
<1>6. ASSUME NEW p \in Procs, SyncStart(p) \/ Route(p) \/ RouteTo(p) \/ Caller(p) PROVE Reached'
  BY <1>6, <1>r DEF SyncStart, Route, RouteTo, Caller, Usage, AfterSync, CallNode, nodes, redis, table
<1>7. CASE UNCHANGED vars
  BY <1>7, <1>r DEF vars, nodes, redis, table
<1> QED BY <1>1, <1>2, <1>3, <1>4, <1>5, <1>6, <1>7 DEF Next, Sync

\* Whatever bestClient returns in a step has the block.
LEMMA ChoiceHasBlock ==
    ASSUME IInv, [Next]_vars
    PROVE  [\A p \in Procs : HasBlock(p)]_vars
<1> SUFFICES ASSUME Next, NEW p \in Procs, pc'[p] = "chosen", pc[p] # "chosen"
             PROVE  height[chosen'[p]] >= want'[p] \/ known[p][chosen'[p]] = None
  BY DEF HasBlock
<1>t. TypeOK /\ Reached
  BY DEF IInv
<1>m. \A u \in MayHave(p, want[p]) : height[u] >= want[p] \/ known[p][u] = None
  <2> SUFFICES ASSUME NEW u \in MayHave(p, want[p]), known[p][u] # None
               PROVE  height[u] >= want[p]
    OBVIOUS
  <2>1. u \in Urls /\ known[p][u] >= want[p]
    BY <1>t DEF MayHave, TypeOK
  <2>2. known[p][u] \in Nat /\ want[p] \in Nat /\ height[u] \in Nat
    BY <1>t, <2>1 DEF TypeOK, Heights
  <2> QED BY <1>t, <2>1, <2>2 DEF Reached
<1>1. ASSUME RouteTo(p) PROVE height[chosen'[p]] >= want'[p]
  <2>1. PICK u \in clients[p] : chosen' = [chosen EXCEPT ![p] = u]
    BY <1>1 DEF RouteTo
  <2>2. chosen'[p] = u /\ u \in Urls /\ want'[p] = 0
    BY <1>1, <1>t, <2>1 DEF RouteTo, TypeOK
  <2> QED BY <1>t, <2>2 DEF TypeOK, Heights
<1>c. ASSUME NEW urls, Choose(p, urls) PROVE chosen'[p] \in urls
  BY <1>c, <1>t DEF Choose, TypeOK
<1>2. ASSUME Usage(p) PROVE height[chosen'[p]] >= want'[p] \/ known[p][chosen'[p]] = None
  <2>1. \/ chosen'[p] \in usage[want[p]]
        \/ chosen'[p] \in MayHave(p, want[p])
        \/ pc' = [pc EXCEPT ![p] = "sync"]
    BY <1>2, <1>c DEF Usage
  <2>2. pc' # [pc EXCEPT ![p] = "sync"]
    BY <1>t DEF TypeOK
  <2>3. want' = want /\ want[p] \in Heights
    BY <1>2, <1>t DEF Usage, TypeOK
  <2> QED BY <1>t, <1>m, <2>1, <2>2, <2>3 DEF Reached
<1>3. ASSUME AfterSync(p) PROVE height[chosen'[p]] >= want'[p] \/ known[p][chosen'[p]] = None
  <2>1. pc' # [pc EXCEPT ![p] = "idle"]
    BY <1>t DEF TypeOK
  <2>2. Choose(p, MayHave(p, want[p]))
    BY <1>3, <2>1 DEF AfterSync
  <2> QED BY <1>3, <1>m, <1>c, <2>2 DEF AfterSync
<1>4. \/ RouteTo(p) \/ Usage(p) \/ AfterSync(p)
  <2>1. ASSUME NEW u \in Urls, Grow(u) \/ Flip(u) PROVE FALSE
    BY <2>1 DEF Grow, Flip
  <2>2. ASSUME NEW b \in Heights, UsageExpires(b) PROVE FALSE
    BY <2>2 DEF UsageExpires
  <2>3. ASSUME NEW a \in Actors, Sync(a) PROVE FALSE
    BY <2>3 DEF Sync, SyncAsk, SyncNote
  <2>4. ASSUME NEW q \in Procs, SyncStart(q) \/ Route(q) \/ CallNode(q) PROVE FALSE
    BY <2>4, <1>t DEF SyncStart, Route, CallNode, TypeOK
  <2>5. ASSUME NEW q \in Procs, RouteTo(q) \/ Usage(q) \/ AfterSync(q) PROVE q = p
    BY <2>5, <1>t DEF RouteTo, Usage, AfterSync, Choose, TypeOK
  <2> QED BY <2>1, <2>2, <2>3, <2>4, <2>5 DEF Next, Caller
<1> QED BY <1>1, <1>2, <1>3, <1>4

\* bestClient, from what Redis and the clients map say at the moment of the
\* choice, returns only nodes that have the block of the call, unless the node
\* was never asked.
THEOREM RoutedToBlock == Spec => ChosenHasBlock
<1>1. Init => IInv
  <2> SUFFICES ASSUME Init PROVE IInv
    OBVIOUS
  <2>1. TypeOK
    BY DEF Init, TypeOK, Heights
  <2>2. Reached
    BY DEF Init, Reached
  <2> QED BY <2>1, <2>2 DEF IInv
<1>2. IInv /\ [Next]_vars => [\A p \in Procs : HasBlock(p)]_vars
  BY ChoiceHasBlock
<1> QED BY <1>1, <1>2, InvariantStep, PTL DEF Spec, ChosenHasBlock
=============================================================================
