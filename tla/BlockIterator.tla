--------------------------- MODULE BlockIterator ----------------------------
(***************************************************************************)
(* The block iterator of eth/accessor/method.go: Next waits until a block  *)
(* has the wanted number of confirmations and returns it with all its      *)
(* transactions and receipts, which GetFullBlock collects with several     *)
(* calls and keeps in Redis; Prev goes back.  The chain grows and is       *)
(* reorganised while the calls are made.                                   *)
(*                                                                         *)
(* A block is named by its hash <<number, version>>; a reorganisation      *)
(* gives the blocks it replaces new versions.                              *)
(***************************************************************************)
EXTENDS Integers, FiniteSets

CONSTANTS
    Txs,        \* transactions
    Body,       \* Body[n][v]: the transactions of block <<n, v>>
    Start,      \* startNumber
    End,        \* endNumber, 0 when there is none
    Confirms,   \* confirms
    Retries,    \* fetchTxRetryCount
    None,       \* no block
    MaxHeight,  \* bound: the highest block
    MaxDepth,   \* bound: how many blocks a reorganisation replaces
    MaxReorgs,  \* bound: reorganisations
    MaxErr,     \* bound: failed calls
    MaxPrev     \* bound: calls of Prev

Versions == 0..MaxReorgs
Numbers == 0..MaxHeight

ASSUME BodyAssumption == Body \in [Numbers -> [Versions -> SUBSET Txs]]
ASSUME RangeAssumption == Start \in Nat \ {0} /\ End \in Nat /\ Confirms \in Nat /\ Retries \in Nat
ASSUME BoundAssumption ==
    {MaxHeight, MaxDepth, MaxReorgs, MaxErr, MaxPrev} \subseteq Nat

VARIABLES
    height,     \* the chain: its highest block
    ver,        \* ver[n]: the version of block n on the chain
    cached,     \* Redis: the full blocks GetFullBlock has stored
    current,    \* currentNumber
    pc,         \* where the caller is
    block,      \* the hash GetFullBlock works on
    txs,        \* <<transaction, hash of its block>> fetched so far
    receipts,   \* the same for receipts
    tries,      \* failed attempts for one transaction
    last,       \* the number returned last, or None
    returned,   \* all blocks returned by Next: [hash, txs, receipts]
    reorgs, errs, prevs

chain == <<height, ver, reorgs>>
fetch == <<block, txs, receipts, tries>>
vars == <<chain, cached, current, pc, fetch, last, returned, errs, prevs>>

Hashes == Numbers \X Versions
BodyOf(h) == Body[h[1]][h[2]]
Canonical(h) == h[1] <= height /\ ver[h[1]] = h[2]
FullBlock == [hash : Hashes, txs : SUBSET (Txs \X Hashes), receipts : SUBSET (Txs \X Hashes)]

TypeOK ==
    /\ height \in Numbers
    /\ ver \in [Numbers -> Versions]
    /\ cached \subseteq FullBlock
    /\ current \in 0..(MaxHeight + 1)
    /\ pc \in {"idle", "wait", "header", "txs", "receipts", "count"}
    /\ block \in Hashes
    /\ txs \subseteq Txs \X Hashes /\ receipts \subseteq Txs \X Hashes
    /\ tries \in 0..(Retries + 1)
    /\ last \in Numbers \cup {None}
    /\ returned \subseteq FullBlock
    /\ reorgs \in 0..MaxReorgs /\ errs \in 0..MaxErr /\ prevs \in 0..MaxPrev

Init ==
    /\ height = Start /\ ver = [n \in Numbers |-> 0] /\ reorgs = 0
    /\ cached = {}
    /\ current = Start
    /\ pc = "idle"
    /\ block = <<0, 0>> /\ txs = {} /\ receipts = {} /\ tries = 0
    /\ last = None
    /\ returned = {}
    /\ errs = 0 /\ prevs = 0

-----------------------------------------------------------------------------
\* The chain.
Grow ==
    /\ height < MaxHeight
    /\ height' = height + 1
    /\ UNCHANGED <<ver, reorgs, cached, current, pc, fetch, last, returned, errs, prevs>>

\* The last d blocks are replaced.
Reorg(d) ==
    /\ reorgs < MaxReorgs /\ d <= height
    /\ reorgs' = reorgs + 1
    /\ ver' = [n \in Numbers |-> IF n > height - d THEN reorgs + 1 ELSE ver[n]]
    /\ UNCHANGED <<height, cached, current, pc, fetch, last, returned, errs, prevs>>

-----------------------------------------------------------------------------
Failure == errs < MaxErr /\ errs' = errs + 1

\* A call fails; Next returns its error and the iterator stays where it is.
Fails ==
    /\ pc \in {"idle", "header", "txs", "receipts", "count"}
    /\ Failure
    /\ pc' = "idle"
    /\ UNCHANGED <<chain, cached, current, fetch, last, returned, prevs>>

Finished == End > 0 /\ End < current

\* Mutation: one confirmation too few.
Next1Early ==
    /\ pc = "idle" /\ ~Finished
    /\ pc' = IF height + 1 < current + Confirms THEN "wait" ELSE "header"
    /\ UNCHANGED <<chain, cached, current, fetch, last, returned, errs, prevs>>

\* Mutation: HasNext waits for a block beyond the confirmations.
HasNextLate ==
    /\ pc = "wait" /\ height > current + Confirms
    /\ pc' = "header"
    /\ UNCHANGED <<chain, cached, current, fetch, last, returned, errs, prevs>>

\* Next: the number of the highest block is asked for.
Next1 ==
    /\ pc = "idle" /\ ~Finished
    /\ pc' = IF height < current + Confirms THEN "wait" ELSE "header"
    /\ UNCHANGED <<chain, cached, current, fetch, last, returned, errs, prevs>>

\* hasNext: asked again every five seconds.
HasNext ==
    /\ pc = "wait" /\ height >= current + Confirms
    /\ pc' = "header"
    /\ UNCHANGED <<chain, cached, current, fetch, last, returned, errs, prevs>>

\* What Next does with a block GetFullBlock returned without error.
Return(b) ==
    /\ returned' = returned \cup {b}
    /\ last' = current
    /\ current' = current + 1
    /\ pc' = "idle"

\* GetFullBlock: the header, then the cache, then the transactions.
Header ==
    /\ pc = "header"
    /\ LET h == <<current, ver[current]>>
           hits == {b \in cached : b.hash = h}
       IN  /\ block' = h
           /\ \/ \E b \in hits : Return(b)
              \/ /\ hits = {} /\ BodyOf(h) = {}
                 /\ Return([hash |-> h, txs |-> {}, receipts |-> {}])
              \/ /\ hits = {} /\ BodyOf(h) # {}
                 /\ pc' = "txs"
                 /\ UNCHANGED <<current, last, returned>>
    /\ txs' = {} /\ receipts' = {} /\ tries' = 0
    /\ UNCHANGED <<chain, cached, errs, prevs>>

Names(s) == {x[1] : x \in s}

\* The answers a node can give for transaction t: the blocks of the chain it is in.
Found(t) == {h \in Hashes : Canonical(h) /\ t \in BodyOf(h)}

\* BatchTransactions: every transaction of the block is fetched, and fetched
\* again as long as it is in no block.
FetchTx ==
    /\ pc = "txs"
    /\ \E t \in BodyOf(block) \ Names(txs) :
          \/ /\ \E h \in Found(t) : txs' = txs \cup {<<t, h>>}
             /\ tries' = 0
             /\ pc' = IF BodyOf(block) = Names(txs) \cup {t} THEN "receipts" ELSE "txs"
          \/ /\ Found(t) = {}
             /\ tries' = tries + 1
             /\ pc' = IF tries + 1 > Retries THEN "idle" ELSE "txs"
             /\ UNCHANGED txs
    /\ UNCHANGED <<chain, cached, current, block, receipts, last, returned, errs, prevs>>

\* BatchTransactionRecipients: the same for the receipts.
FetchReceipt ==
    /\ pc = "receipts"
    /\ \E t \in BodyOf(block) \ Names(receipts) :
          \/ /\ \E h \in Found(t) : receipts' = receipts \cup {<<t, h>>}
             /\ tries' = 0
             /\ pc' = IF BodyOf(block) = Names(receipts) \cup {t} THEN "count" ELSE "receipts"
          \/ /\ Found(t) = {}
             /\ tries' = tries + 1
             /\ pc' = IF tries + 1 > Retries THEN "idle" ELSE "receipts"
             /\ UNCHANGED receipts
    /\ UNCHANGED <<chain, cached, current, block, txs, last, returned, errs, prevs>>

\* The number of transactions of the block with this hash, 0 when the node does
\* not know it any more.
TxCount(h) == {Cardinality(BodyOf(h))} \cup (IF Canonical(h) THEN {} ELSE {0})

\* The count is compared; a complete block is stored and returned.
Count ==
    /\ pc = "count"
    /\ \E n \in TxCount(block) :
          IF n = Cardinality(txs) /\ n = Cardinality(receipts)
          THEN LET b == [hash |-> block, txs |-> txs, receipts |-> receipts]
               IN  Return(b) /\ cached' = cached \cup {b}
          ELSE pc' = "idle" /\ UNCHANGED <<cached, current, last, returned>>
    /\ UNCHANGED <<chain, fetch, errs, prevs>>

\* A full block is stored for ten hours.
CacheExpire ==
    /\ \E b \in cached : cached' = cached \ {b}
    /\ UNCHANGED <<chain, current, pc, fetch, last, returned, errs, prevs>>

\* Prev.
Prev ==
    /\ pc = "idle" /\ prevs < MaxPrev /\ Start <= current
    /\ prevs' = prevs + 1
    /\ current - 1 \in 0..height
    /\ last' = current - 1
    /\ current' = current - 1
    /\ UNCHANGED <<chain, cached, pc, fetch, returned, errs>>

Step == Next1 \/ HasNext \/ Header \/ FetchTx \/ FetchReceipt \/ Count

Next == Grow \/ (\E d \in 1..MaxDepth : Reorg(d)) \/ Fails \/ CacheExpire \/ Prev \/ Step

Spec == Init /\ [][Next]_vars

\* The caller asks on, the calls are answered and the chain grows.
FairSpec == Spec /\ WF_vars(Step) /\ WF_vars(Grow)

-----------------------------------------------------------------------------
\* A block returned by Next stays on the chain, as long as no reorganisation is
\* deeper than the confirmations the iterator waits for.
ReturnedFinal == \A b \in returned : Canonical(b.hash)

\* A returned block has all its transactions and receipts, each from that block.
ReturnedComplete ==
    \A b \in returned : b.txs = BodyOf(b.hash) \X {b.hash} /\ b.receipts = b.txs

\* No block is left out: Next and Prev return a neighbour of the last one.
NoneSkipped ==
    [][last' # last /\ last # None => last' \in {last - 1, last + 1}]_vars

\* The iterator never goes beyond endNumber.
WithinEnd == End > 0 => \A b \in returned : b.hash[1] <= End

\* Every block that gets its confirmations is returned, whatever calls failed
\* and blocks were replaced meanwhile.
AllReturned == <>(Finished \/ current + Confirms > MaxHeight)

\* What Next returns can be relied on: a block of the chain up to endNumber that
\* no reorganisation takes away, with exactly its transactions and receipts.
ReturnedSound == ReturnedFinal /\ ReturnedComplete /\ WithinEnd
=============================================================================
