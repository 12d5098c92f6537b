------------------------------ MODULE MarketCap -----------------------------
(* CapProvider_CoinMarketCap: the prices of tokens in two currencies, copied *)
(* from Redis by the constructor and then by the goroutine of every Start,   *)
(* token by token and without a lock; the set of tokens without a price is   *)
(* that of the currency synchronised last.  Callers ask for values and for   *)
(* whether what is left of an order is dust.                                 *)
EXTENDS Integers, FiniteSets
CONSTANTS Tokens, CNY, USD,
          Prices,       \* the prices a token may have in Redis
          Currency,     \* options.Currency
          DustValue,    \* options.DustValue, at least 1
          MaxStart, MaxStop, MaxTick, MaxErr  \* bounds
VARIABLES redis,       \* currency -> the tickers there are: token -> price
          price,       \* tokenMarketCaps: currency -> token -> price, 0 at first
          notSupport,  \* notSupportTokens
          at, cur,     \* of a goroutine: where it is, and the currency it synchronises
          tick, todo, missing,  \* of a goroutine: the tickers it read, the tokens left, the tokens without one
          stopAt, stopN,  \* the goroutine Stop sends to, 0 when it is not running, and the last one
          stops, ticks, errs

vars == <<redis, price, notSupport, at, cur, tick, todo, missing, stopAt, stopN, stops, ticks, errs>>

Currencies == {CNY, USD}
Workers == 0 .. MaxStart  \* 0 is the constructor
Empty == [t \in {} |-> 0]
Started == {w \in Workers \ {0} : at[w] # "none"}

Init ==
  /\ \E S \in SUBSET Tokens : redis \in [Currencies -> [S -> Prices]]
  /\ price = [c \in Currencies |-> [t \in Tokens |-> 0]] /\ notSupport = {}
  /\ at = [w \in Workers |-> IF w = 0 THEN "read" ELSE "none"]
  /\ cur = [w \in Workers |-> IF w = 0 THEN USD ELSE CNY]
  /\ tick = [w \in Workers |-> Empty] /\ todo = [w \in Workers |-> {}]
  /\ missing = [w \in Workers |-> {}]
  /\ stopAt = 0 /\ stopN = 0 /\ stops = 0 /\ ticks = 0 /\ errs = 0

\* The collector writes the tickers of both currencies.
Collect ==
  /\ ticks < MaxTick /\ ticks' = ticks + 1
  /\ \E S \in SUBSET Tokens : redis' \in [Currencies -> [S -> Prices]]
  /\ UNCHANGED <<price, notSupport, at, cur, tick, todo, missing, stopAt, stopN, stops, errs>>

\* syncMarketCapFromRedis reads the tickers; after an error of Redis or of a
\* ticker's JSON it goes on without any.
Read(w) ==
  /\ at[w] = "read" /\ at' = [at EXCEPT ![w] = "write"]
  /\ \/ tick' = [tick EXCEPT ![w] = redis[cur[w]]] /\ UNCHANGED errs
     \/ errs < MaxErr /\ errs' = errs + 1 /\ tick' = [tick EXCEPT ![w] = Empty]
  /\ todo' = [todo EXCEPT ![w] = Tokens] /\ missing' = [missing EXCEPT ![w] = {}]
  /\ UNCHANGED <<redis, price, notSupport, cur, stopAt, stopN, stops, ticks>>

\* An iteration of its loop over tokenMarketCaps, in any order.
Write(w, t) ==
  /\ at[w] = "write" /\ t \in todo[w] /\ todo' = [todo EXCEPT ![w] = @ \ {t}]
  /\ IF t \in DOMAIN tick[w]
     THEN price' = [price EXCEPT ![cur[w]][t] = tick[w][t]] /\ UNCHANGED missing
     ELSE missing' = [missing EXCEPT ![w] = @ \cup {t}] /\ UNCHANGED price
  /\ UNCHANGED <<redis, notSupport, at, cur, tick, stopAt, stopN, stops, ticks, errs>>

\* It replaces notSupportTokens.  The constructor does USD and then CNY, the
\* goroutine CNY and then USD.
Finish(w) ==
  /\ at[w] = "write" /\ todo[w] = {} /\ notSupport' = missing[w]
  /\ LET first == IF w = 0 THEN USD ELSE CNY
     IN  /\ cur' = [cur EXCEPT ![w] = IF @ = CNY THEN USD ELSE CNY]
         /\ at' = [at EXCEPT ![w] = IF cur[w] = first THEN "read"
                                    ELSE IF w = 0 THEN "ended" ELSE "wait"]
  /\ UNCHANGED <<redis, price, tick, todo, missing, stopAt, stopN, stops, ticks, errs>>

\* time.After of the select fires; it starts anew with every turn, so that a
\* Stop that waits comes first.
Timer(w) ==
  /\ at[w] = "wait" /\ stopAt # w /\ at' = [at EXCEPT ![w] = "read"]
  /\ UNCHANGED <<redis, price, notSupport, cur, tick, todo, missing, stopAt, stopN, stops, ticks, errs>>

Start(w) ==
  /\ at[0] = "ended" /\ at[w] = "none" /\ w > 0
  /\ \A v \in 1 .. w - 1 : at[v] # "none"
  /\ at' = [at EXCEPT ![w] = "wait"]
  /\ UNCHANGED <<redis, price, notSupport, cur, tick, todo, missing, stopAt, stopN, stops, ticks, errs>>

\* Stop calls the stopFuncs, which it does not forget, one after the other.
Stop ==
  /\ stopAt = 0 /\ Started # {} /\ stops < MaxStop
  /\ stops' = stops + 1 /\ stopAt' = 1 /\ stopN' = Cardinality(Started)
  /\ UNCHANGED <<redis, price, notSupport, at, cur, tick, todo, missing, ticks, errs>>

\* A mutation: stopChan has a buffer.
StoppedBuffered ==
  /\ stopAt > 0 /\ stopAt' = IF stopAt < stopN THEN stopAt + 1 ELSE 0
  /\ at' = [at EXCEPT ![stopAt] = IF @ = "wait" THEN "ended" ELSE @]
  /\ UNCHANGED <<redis, price, notSupport, cur, tick, todo, missing, stopN, stops, ticks, errs>>

\* A goroutine in its select takes what Stop sends.
Stopped ==
  /\ stopAt > 0 /\ at[stopAt] = "wait" /\ at' = [at EXCEPT ![stopAt] = "ended"]
  /\ stopAt' = IF stopAt < stopN THEN stopAt + 1 ELSE 0
  /\ UNCHANGED <<redis, price, notSupport, cur, tick, todo, missing, stopN, stops, ticks, errs>>

Next ==
  \/ Collect \/ Stop \/ Stopped
  \/ \E w \in Workers : \/ Read(w) \/ Finish(w) \/ Timer(w) \/ Start(w)
                        \/ \E t \in Tokens : Write(w, t)

Spec == Init /\ [][Next]_vars

\* The goroutines run and the timer of a select fires.
FairSpec == Spec /\ WF_vars(Stopped) /\ \A w \in Workers :
  WF_vars(Read(w)) /\ WF_vars(Finish(w)) /\ WF_vars(Timer(w)) /\ \A t \in Tokens : WF_vars(Write(w, t))

IsSupport(t) == t \notin notSupport

\* LegalCurrencyValueByCurrency, with a decimals factor of 1; every token of
\* the model is in tokenMarketCaps.
LegalCurrencyValue(t, amount, c) == IF t \in notSupport THEN 0 ELSE amount * price[c][t]

\* A mutation: the amount of the token bought is not used.
DustOfSold(s, b, remainedS, remainedB) == DustValue > LegalCurrencyValue(s, remainedS, Currency)

IsOrderValueDust(s, b, remainedS, remainedB) ==
  DustValue > IF IsSupport(s) THEN LegalCurrencyValue(s, remainedS, Currency)
              ELSE LegalCurrencyValue(b, remainedB, Currency)

-----------------------------------------------------------------------------
(* A goroutine writes only prices it read, and only into its own currency's  *)
(* sync; a price that is not 0 was once in Redis.                            *)
TypeOK ==
  /\ notSupport \subseteq Tokens /\ stopAt \in Workers
  /\ \A c \in Currencies : price[c] \in [Tokens -> Prices \cup {0}]
  /\ \A w \in Workers : /\ cur[w] \in Currencies /\ todo[w] \cap missing[w] = {}
                        /\ at[w] \in {"none", "read", "write", "wait", "ended"}
                        /\ missing[w] \cap DOMAIN tick[w] = {}

(* When Stop returns, no goroutine started before it is left that would      *)
(* still write a price.                                                      *)
StoppedQuiet ==
  [][stopAt > 0 /\ stopAt' = 0 => \A w \in 1 .. stopN : at'[w] = "ended"]_vars

(* The first Stop returns, however many goroutines there are and wherever    *)
(* they are in their synchronisation.                                        *)
StopReturns == stops = 1 ~> stopAt = 0 \/ stops > 1

Running == \E w \in Started : at[w] # "ended"

(* Once Redis stays as it is, a running provider comes to the answers that   *)
(* follow from it alone: a token without tickers is not supported, and an    *)
(* order is dust by the value of what it sells if that has a price, and of   *)
(* what it buys otherwise, whatever failed and changed before.               *)
DustRight ==
  <>[](Running => \A s, b \in Tokens, n, m \in 0 .. 2 :
         LET in == redis[Currency]
             value == IF s \in DOMAIN in THEN n * in[s] ELSE IF b \in DOMAIN in THEN m * in[b] ELSE 0
         IN  IsOrderValueDust(s, b, n, m) = (value < DustValue))
=============================================================================
