------------------------------ MODULE MCMarkets ------------------------------
(* What an order is worth and where it trades, on small instances: the       *)
(* tables of marketutil, the prices of marketcap, the amounts of an order,   *)
(* and the calls of the cache, over a pool and over a cluster.  The parts    *)
(* share no variable, so a behaviour is one of a single part and the others  *)
(* stay where they begin.                                                    *)
EXTENDS ClusterCache, TLC

CONSTANTS MaxRefresh, MaxEvents,
          t1, t2, CNY, USD, Prices, DustValue, MaxStart, MaxStop, MaxTick,
          MaxAmount, MaxTime, Dust,
          Shared, MaxActive, MaxFailures

VARIABLES part,
    supportTokens, supportMarkets, allTokens, allMarkets, allTokenPairs, symbolTokenMap,
    loaded, step, gone, phase, seen, overlapped, refreshes, events,
    redis, price, notSupport, at, cur, tick, todo, missing, stopAt, stopN, stops, ticks, misses,
    amountS, amountB, buyNoMore, validSince, validUntil,
    dealtS, dealtB, cancelledS, cancelledB, splitS, splitB, status, now,
    kept, dying, doing, asked, answer, broken, living, served, failures

\* WETH and LRC are markets, OMG and RDN are not; the registry's events are
\* about RDN.  No symbol changes sides: it would be on both for a moment of
\* the refresh.
Symbols == {"LRC", "WETH", "OMG", "RDN"}
Files ==
    LET markets == ("LRC" :> TRUE) @@ ("WETH" :> TRUE)
    IN  {("OMG" :> FALSE) @@ markets, ("OMG" :> FALSE) @@ ("RDN" :> FALSE) @@ markets,
         ("OMG" :> FALSE) @@ ("WETH" :> TRUE)}

Tables == INSTANCE MarketTables WITH
    BaseOrder <- ("LRC" :> 10) @@ ("WETH" :> 20), Events <- {"RDN"},
    Decimals <- ("LRC" :> 10) @@ ("WETH" :> 10) @@ ("OMG" :> 100) @@ ("RDN" :> 1)
Cap == INSTANCE MarketCap WITH Tokens <- {t1, t2}, Currency <- CNY, errs <- misses
Amounts == INSTANCE OrderAmounts
Cache == INSTANCE RedisCache WITH
    store <- kept, expiring <- dying, pc <- doing, op <- asked, res <- answer, alive <- living, calls <- served,
    errs <- failures, MaxErr <- MaxFailures

tables == <<supportTokens, supportMarkets, allTokens, allMarkets, allTokenPairs, symbolTokenMap,
            loaded, step, gone, phase, seen, overlapped, refreshes, events>>
cap == <<redis, price, notSupport, at, cur, tick, todo, missing, stopAt, stopN, stops, ticks, misses>>
amounts == <<amountS, amountB, buyNoMore, validSince, validUntil,
             dealtS, dealtB, cancelledS, cancelledB, splitS, splitB, status, now>>
cache == <<kept, dying, doing, asked, answer, broken, living, served, failures>>

\* Every order, every file; the first tickers are of t1.
MCInit ==
    /\ part \in {"tables", "cap", "amounts", "cache", "cluster"}
    /\ Tables!Init /\ Cap!Init /\ Amounts!Init /\ Cache!Init /\ Init
    /\ redis = [c \in {CNY, USD} |-> t1 :> 3]
    /\ part # "tables" => "RDN" \in DOMAIN loaded
    /\ part # "amounts" => /\ amountS = 1 /\ amountB = 1 /\ ~buyNoMore
                           /\ validSince = 0 /\ validUntil = 0

MCNext ==
    \/ part = "tables" /\ Tables!Next /\ UNCHANGED <<part, cap, amounts, cache, vars>>
    \/ part = "cap" /\ Cap!Next /\ UNCHANGED <<part, tables, amounts, cache, vars>>
    \/ part = "amounts" /\ Amounts!Next /\ UNCHANGED <<part, tables, cap, cache, vars>>
    \/ part = "cache" /\ Cache!Next /\ UNCHANGED <<part, tables, cap, amounts, vars>>
    \/ part = "cluster" /\ Next /\ UNCHANGED <<part, tables, cap, amounts, cache>>

\* The fairness of the parts.
MCSpec ==
    /\ MCInit /\ [][MCNext]_<<part, tables, cap, amounts, cache, vars>>
    /\ WF_cap(part = "cap" /\ Cap!Stopped)
    /\ \A w \in 0 .. MaxStart :
         /\ WF_cap(part = "cap" /\ Cap!Read(w)) /\ WF_cap(part = "cap" /\ Cap!Finish(w))
         /\ WF_cap(part = "cap" /\ Cap!Timer(w))
         /\ WF_cap(part = "cap" /\ \E t \in {t1, t2} : Cap!Write(w, t))
    /\ WF_amounts(part = "amounts" /\ Amounts!Tick) /\ WF_amounts(part = "amounts" /\ Amounts!Close)
    /\ \A c \in Clients :
         WF_cache(part = "cache" /\ (Cache!Acquire(c) \/ Cache!Do(c) \/ Cache!Expire(c) \/ Cache!Close(c)))

------------------------------------------------------------------------------
(* The tables of marketutil.  At every point of a refresh or a handler,      *)
(* WrapMarket and GetSide do not depend on which token of a pair is sold and *)
(* a pair that every file has keeps its market; as long as the two did not   *)
(* overlap, AllTokenPairs and AllMarkets list exactly what WrapMarket gives  *)
(* and CalculatePrice gives a trade one price, from both of its orders.  The *)
(* prices of marketcap are prices that were in Redis.                        *)
TablesAgree ==
    /\ part = "cap" => Cap!TypeOK
    /\ part = "tables" => /\ Tables!TypeOK /\ Tables!WrapSymmetric /\ Tables!StaysSupported
                          /\ Tables!PairsKnown /\ Tables!MarketListed /\ Tables!PriceReciprocal

(* RemainedAmount makes up the order with what was taken, at its price; what *)
(* a miner may fill is within the balance and what remains, and as much as   *)
(* both allow.                                                               *)
AmountsExact == part = "amounts" => Amounts!TypeOK /\ Amounts!RemainedExact /\ Amounts!FilledFits

(* An order with only dust left never has more again, an expired order is    *)
(* never effective again, and every order ends, by time if not by dealing.   *)
OrderEnds == Amounts!OverForGood /\ (part = "amounts" => Amounts!OrderEnds)

(* marketcap's Stop returns, wherever the goroutines are, and when it has no *)
(* goroutine started before it is left.                                      *)
CapStops == Cap!StoppedQuiet /\ (part = "cap" => Cap!StopReturns)

(* Once Redis stays as it is, a running provider's IsOrderValueDust comes to *)
(* the answers that follow from Redis alone.                                 *)
DustRight == part = "cap" => Cap!DustRight

(* Every call of the cache returns, however many wait for a connection and   *)
(* whichever way the calls before it ended, unless the process ends; and for *)
(* the only user of a key nil means done.                                    *)
CacheDone ==
    /\ [](part = "cache" => Cache!TypeOK /\ Cache!NilMeansDone)
    /\ part = "cache" => Cache!CallEnds
==============================================================================
