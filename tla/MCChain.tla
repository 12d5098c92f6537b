------------------------------ MODULE MCChain -------------------------------
(* What the library asks of an Ethereum chain, on small instances: the block *)
(* iterator, batches of requests, the Loopring contracts and the gas price.  *)
(* The parts share no variable, so a behaviour is one of a single part and   *)
(* the others stay where they begin.                                         *)
EXTENDS BlockIterator

CONSTANTS t1, t2, t3, Nodes, Batches, Retry, c1, c2, c3, d1, d2, Readers, MaxInitErr,
          Procs, Nobody, Prices, Default, Window, MaxTxs, GasHeight, MaxCrash

\* Block 2 loses a transaction when it is replaced.
Bodies ==
    [n \in Numbers |-> [v \in Versions |->
        IF n = 1 THEN {t1}
        ELSE IF n = 2 THEN (IF v = 0 THEN {t2, t3} ELSE {t2})
        ELSE {}]]

\* Two or three requests, one of them without accounts.
RequestLengths == {<<1, 2>>, <<2, 0, 1>>}

\* Three contracts, two of which share a delegate.
Contracts == {c1, c2, c3}
DelegateOf == [c \in Contracts |-> IF c = c3 THEN d2 ELSE d1]

VARIABLES part,
    lens, elems, try, node, unanswered, batchPc, idx, startId, batchErrs,
    params, init, versions, impl, calls, reader, asked, initErrs,
    mined, holder, state, next, blocks, price, crashes, gasErrs

Batch == INSTANCE BatchCall WITH left <- unanswered, pc <- batchPc, errs <- batchErrs
Loopring == INSTANCE LoopringAccessor WITH left <- versions, errs <- initErrs, MaxErr <- MaxInitErr
Gas == INSTANCE GasPrice WITH chain <- mined, cached <- price, errs <- gasErrs, MaxHeight <- GasHeight

batch == <<lens, elems, try, node, unanswered, batchPc, idx, startId, batchErrs>>
loopring == <<params, init, versions, impl, calls, reader, asked, initErrs>>
gas == <<mined, holder, state, next, blocks, price, crashes, gasErrs>>

MCInit ==
    /\ part \in {"iterator", "batch", "loopring", "gas"}
    /\ Init /\ Batch!Init /\ Loopring!Init /\ Gas!Init
    /\ part # "batch" => lens = <<1, 2>>

MCNext ==
    \/ part = "iterator" /\ Next /\ UNCHANGED <<part, batch, loopring, gas>>
    \/ part = "batch" /\ Batch!Next /\ UNCHANGED <<part, vars, loopring, gas>>
    \/ part = "loopring" /\ Loopring!Next /\ UNCHANGED <<part, vars, batch, gas>>
    \/ part = "gas" /\ Gas!Next /\ UNCHANGED <<part, vars, batch, loopring>>

\* The fairness of every part.
MCSpec ==
    /\ MCInit /\ [][MCNext]_<<part, vars, batch, loopring, gas>>
    /\ WF_vars(part = "iterator" /\ Step) /\ WF_vars(part = "iterator" /\ Grow)
    /\ WF_batch(part = "batch" /\ Batch!Next)
    /\ \A p \in Procs : /\ SF_gas(part = "gas" /\ Gas!Lock(p))
                        /\ WF_gas(part = "gas" /\ Gas!StartIterator(p))
                        /\ WF_gas(part = "gas" /\ Gas!Block(p))
                        /\ WF_gas(part = "gas" /\ Gas!Restart(p))

-----------------------------------------------------------------------------
(* Next and Prev leave no block out, and every block that gets its            *)
(* confirmations is returned by Next, whatever calls failed and blocks were  *)
(* replaced meanwhile.                                                       *)
BlocksReturned == []TypeOK /\ NoneSkipped /\ (part = "iterator" => AllReturned)

(* BatchCall returns, at the latest with an error after its last attempt, and *)
(* when it returns nil every account of every request has the error or the   *)
(* value of its own element, from the last attempt.                          *)
BatchAnswered ==
    /\ [](part = "batch" => Batch!TypeOK /\ Batch!OwnAnswers)
    /\ part = "batch" => Batch!Returns

(* From when Initialize returns nil every contract of the options is served, *)
(* also to a goroutine that began on what an earlier attempt had left.       *)
ReadyServes == []Loopring!TypeOK /\ Loopring!ReadyServes

(* The cached gas price is covered by a transaction of the chain and is at   *)
(* least half of the median of a window of three or more, an estimate        *)
(* respects the bounds of its caller, and without failed calls the price     *)
(* follows every block, through crashes of the process that evaluates.       *)
GasPriceFollows ==
    /\ [](part = "gas" => Gas!TypeOK /\ Gas!PriceSound /\ Gas!EstimateWithin)
    /\ part = "gas" => Gas!Evaluated
=============================================================================
