------------------------------ MODULE GasPrice ------------------------------
(* gasprice_evaluator: every process calls InitGasPriceEvaluator; the one    *)
(* that gets the ZooKeeper lock follows the chain with a block iterator,     *)
(* keeps the last blocks and writes the price it computes to the cache that  *)
(* EstimateGasPrice of every process reads.  The lock is exclusive and is    *)
(* released when its process dies (ZkLock); the iterator gives the confirmed *)
(* blocks in order without a gap (BlockIterator).                            *)
EXTENDS Integers, Sequences, SequencesExt
CONSTANTS Procs, Nobody,
          Prices,    \* the gas prices of transactions
          Default,   \* 1000000000
          Window,    \* how many blocks are kept, 30
          MaxTxs, MaxHeight, MaxCrash, MaxErr  \* bounds
VARIABLES chain,    \* the gas prices of the transactions of every block five confirmations deep
          holder,   \* who holds the lock
          state,    \* of a process: down, waiting for the lock, ready (has it), looping, stuck
          next,     \* the block the iterator gives next
          blocks,   \* GasPriceEvaluator.Blocks
          cached,   \* the cached price, -1 if there is none
          crashes, errs

vars == <<chain, holder, state, next, blocks, cached, crashes, errs>>

Init ==
  /\ chain = <<>> /\ holder = Nobody /\ cached = -1 /\ crashes = 0 /\ errs = 0
  /\ state = [p \in Procs |-> "waiting"] /\ next = [p \in Procs |-> 1]
  /\ blocks = [p \in Procs |-> <<>>]

Total(s) == FoldSeq(LAMBDA x, y : x + y, 0, s)

\* A mutation: the lower two thirds are taken.
BestLow(prices) ==
  LET sorted == SortSeq(prices, <)
      end == (Len(prices) \div 3) * 2
  IN  Total(SubSeq(sorted, 1, end)) \div (end + 1)

\* bestGasPrice: the sum of the upper two thirds, divided by one more than
\* their number.
BestGasPrice(prices) ==
  LET sorted == SortSeq(prices, >)
      end == (Len(prices) \div 3) * 2
  IN  Total(SubSeq(sorted, 1, end)) \div (end + 1)

Mine(txs) ==
  /\ Len(chain) < MaxHeight /\ chain' = Append(chain, txs)
  /\ UNCHANGED <<holder, state, next, blocks, cached, crashes, errs>>

\* zklock.TryLock returns, with the lock or with an error that ends start.
Lock(p) ==
  /\ state[p] = "waiting" /\ holder = Nobody
  /\ holder' = p /\ state' = [state EXCEPT ![p] = "ready"]
  /\ UNCHANGED <<chain, next, blocks, cached, crashes, errs>>

LockFails(p) ==
  /\ state[p] = "waiting" /\ errs < MaxErr
  /\ errs' = errs + 1 /\ state' = [state EXCEPT ![p] = "stuck"]
  /\ UNCHANGED <<chain, holder, next, blocks, cached, crashes>>

\* accessor.BlockNumber less five: the last block that has its five
\* confirmations.
StartIterator(p) ==
  /\ state[p] = "ready"
  /\ state' = [state EXCEPT ![p] = "looping"] /\ blocks' = [blocks EXCEPT ![p] = <<>>]
  /\ next' = [next EXCEPT ![p] = IF chain = <<>> THEN 1 ELSE Len(chain)]
  /\ UNCHANGED <<chain, holder, cached, crashes, errs>>

\* BlockNumber fails: the lock is kept and nobody evaluates.
StartFails(p) ==
  /\ state[p] = "ready" /\ errs < MaxErr
  /\ errs' = errs + 1 /\ state' = [state EXCEPT ![p] = "stuck"]
  /\ UNCHANGED <<chain, holder, next, blocks, cached, crashes>>

\* e.Blocks = e.Blocks[1:] beyond the limit.
Keep(bs) == IF Len(bs) > Window THEN Tail(bs) ELSE bs

\* A turn of the loop with a block; the error of cache.Set is not looked at.
\* (A turn whose Next fails changes nothing.)
Block(p) ==
  /\ state[p] = "looping" /\ next[p] <= Len(chain)
  /\ next' = [next EXCEPT ![p] = @ + 1]
  /\ LET kept == Keep(Append(blocks[p], chain[next[p]]))
     IN  /\ blocks' = [blocks EXCEPT ![p] = kept]
         /\ \/ cached' = BestGasPrice(FlattenSeq(kept)) /\ UNCHANGED errs
            \/ errs < MaxErr /\ errs' = errs + 1 /\ UNCHANGED cached
  /\ UNCHANGED <<chain, holder, state, crashes>>

\* The process dies and ZooKeeper ends its session, and with it the lock.
Crash(p) ==
  /\ state[p] # "down" /\ crashes < MaxCrash
  /\ crashes' = crashes + 1 /\ state' = [state EXCEPT ![p] = "down"]
  /\ holder' = IF holder = p THEN Nobody ELSE holder
  /\ next' = [next EXCEPT ![p] = 1] /\ blocks' = [blocks EXCEPT ![p] = <<>>]
  /\ UNCHANGED <<chain, cached, errs>>

Restart(p) ==
  /\ state[p] = "down" /\ state' = [state EXCEPT ![p] = "waiting"]
  /\ UNCHANGED <<chain, holder, next, blocks, cached, crashes, errs>>

Blocks == UNION {[1 .. n -> Prices] : n \in 0 .. MaxTxs}

Next ==
  \/ \E txs \in Blocks : Mine(txs)
  \/ \E p \in Procs : \/ Lock(p) \/ LockFails(p) \/ StartIterator(p) \/ StartFails(p)
                      \/ Block(p) \/ Crash(p) \/ Restart(p)

Spec == Init /\ [][Next]_vars

\* The lock is granted, the loop runs, a process that died is started again.
FairSpec == Spec /\ \A p \in Procs :
  SF_vars(Lock(p)) /\ WF_vars(StartIterator(p)) /\ WF_vars(Block(p)) /\ WF_vars(Restart(p))

\* EstimateGasPrice, where -1 is a nil bound and read tells whether cache.Get
\* answered.
EstimateGasPrice(read, min, max) ==
  LET price == IF read /\ cached # -1 THEN cached ELSE Default
  IN  IF max # -1 /\ max < price THEN max
      ELSE IF min # -1 /\ min > price THEN min ELSE price

-----------------------------------------------------------------------------
(* A process evaluates only while it holds the lock, and a window holds at   *)
(* most the blocks it may keep: the last ones of the chain it has seen.      *)
TypeOK ==
  /\ holder \in Procs \cup {Nobody} /\ cached \in Int
  /\ \A p \in Procs :
       /\ state[p] \in {"ready", "looping"} => holder = p
       /\ state[p] = "looping" =>
            /\ Len(blocks[p]) <= Window
            /\ blocks[p] = SubSeq(chain, next[p] - Len(blocks[p]), next[p] - 1)

(* Every estimate respects both bounds of its caller when they are in order, *)
(* whatever price the evaluating process left in the cache, 0 included, and  *)
(* when the cache does not answer.                                           *)
EstimateWithin ==
  \A read \in BOOLEAN, min, max \in Prices \cup {-1} :
    (min = -1 \/ max = -1 \/ min <= max) =>
      /\ min # -1 => EstimateGasPrice(read, min, max) >= min
      /\ max # -1 => EstimateGasPrice(read, min, max) <= max

(* The cached price never exceeds what some transaction of the chain paid,   *)
(* and with at least three transactions in the window it is at least half of *)
(* the median: the division by one too many costs no more than that.         *)
PriceSound ==
  /\ cached > 0 => \E i \in DOMAIN chain : \E j \in DOMAIN chain[i] : cached <= chain[i][j]
  /\ \A p \in Procs : state[p] = "looping" /\ blocks[p] # <<>> =>
       LET prices == FlattenSeq(blocks[p])
           sorted == SortSeq(prices, >)
       IN  Len(prices) >= 3 => 2 * BestGasPrice(prices) + 1 >= sorted[(Len(prices) + 1) \div 2]

(* As long as no call fails, the evaluation gets past every block of the     *)
(* chain, through crashes of the process that evaluates.                     *)
Evaluated ==
  \A h \in 1 .. MaxHeight :
    (Len(chain) >= h) ~> (errs > 0 \/ \E p \in Procs : state[p] = "looping" /\ next[p] > h)
=============================================================================
