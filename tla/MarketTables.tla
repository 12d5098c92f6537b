---------------------------- MODULE MarketTables ----------------------------
(* marketutil: the tables of tokens and markets, loaded from a file, loaded  *)
(* again by a cron job while the process uses them, and changed by the       *)
(* handlers of the token registry's events.  No lock guards them: the six    *)
(* variables of a refresh are assigned one after the other, and a handler    *)
(* takes several steps.                                                      *)
EXTENDS Integers, TLC, Bags
CONSTANTS Symbols,
          BaseOrder,   \* MarketBaseOrder: a function on some of the symbols
          Decimals,    \* of a symbol's token in the file, 10^n
          Files,       \* the files there may be: symbol -> is it a market
          Events,      \* the symbols whose tokens the registry's events are about
          MaxRefresh, MaxEvents  \* bounds
VARIABLES supportTokens, supportMarkets, allTokens,  \* symbol -> decimals
          allMarkets,      \* a set of <<token, market>>
          allTokenPairs,   \* a bag of <<TokenS, TokenB>>
          symbolTokenMap,  \* the symbols whose address GetSymbolWithAddress knows
          loaded, step,    \* the file being loaded and the next assignment, 0 if there is none
          gone, phase, seen,  \* the token being unregistered, the next step, the list computed
          overlapped,      \* a refresh and a handler have run at the same time
          refreshes, events

tables == <<supportTokens, supportMarkets, allTokens, allMarkets, allTokenPairs, symbolTokenMap>>
vars == <<tables, loaded, step, gone, phase, seen, overlapped, refreshes, events>>

\* A symbol has one address, for which the symbol itself stands.
NoSymbol == "none"

Only(file, markets) == [s \in {x \in DOMAIN file : file[x] = markets} |-> Decimals[s]]
Without(table, s) == [x \in DOMAIN table \ {s} |-> table[x]]

Base(s) == IF s \in DOMAIN BaseOrder THEN BaseOrder[s] ELSE 0

\* getTokenAndMarketFromDB: what it returns for a file.
Markets(file) ==
  {<<k, kk>> \in (DOMAIN file) \X (DOMAIN Only(file, TRUE)) :
     k \in DOMAIN BaseOrder => BaseOrder[k] < Base(kk)}

Pairs(file) ==
  SetToBag({<<s, b>> \in (DOMAIN file) \X (DOMAIN file) : s # b /\ (file[s] \/ file[b])})

Init ==
  \E file \in Files :
    /\ supportTokens = Only(file, FALSE) /\ supportMarkets = Only(file, TRUE)
    /\ allTokens = [s \in DOMAIN file |-> Decimals[s]]
    /\ allMarkets = Markets(file) /\ allTokenPairs = Pairs(file)
    /\ symbolTokenMap = DOMAIN file
    /\ loaded = file /\ step = 0 /\ gone = NoSymbol /\ phase = 0 /\ seen = EmptyBag /\ overlapped = FALSE
    /\ refreshes = 0 /\ events = 0

\* The cron job reads the file.
Refresh(file) ==
  /\ step = 0 /\ refreshes < MaxRefresh
  /\ refreshes' = refreshes + 1 /\ loaded' = file /\ step' = 1 /\ overlapped' = (overlapped \/ gone # NoSymbol)
  /\ UNCHANGED <<tables, gone, phase, seen, events>>

\* The assignments, from left to right.
Assign ==
  /\ step > 0 /\ step' = IF step = 6 THEN 0 ELSE step + 1
  /\ supportTokens' = IF step = 1 THEN Only(loaded, FALSE) ELSE supportTokens
  /\ supportMarkets' = IF step = 2 THEN Only(loaded, TRUE) ELSE supportMarkets
  /\ allTokens' = IF step = 3 THEN [s \in DOMAIN loaded |-> Decimals[s]] ELSE allTokens
  /\ allMarkets' = IF step = 4 THEN Markets(loaded) ELSE allMarkets
  /\ allTokenPairs' = IF step = 5 THEN Pairs(loaded) ELSE allTokenPairs
  /\ symbolTokenMap' = IF step = 6 THEN DOMAIN loaded ELSE symbolTokenMap
  /\ UNCHANGED <<loaded, gone, phase, seen, overlapped, refreshes, events>>

\* TokenRegister, which nothing in the library subscribes: a token without
\* decimals.
TokenRegister(s) ==
  /\ step = 0 /\ gone = NoSymbol /\ events < MaxEvents /\ events' = events + 1
  /\ supportTokens' = (s :> 0) @@ supportTokens /\ allTokens' = (s :> 0) @@ allTokens
  /\ allTokenPairs' = allTokenPairs (+)
       SetToBag({<<m, s>> : m \in DOMAIN supportMarkets} \cup {<<s, m>> : m \in DOMAIN supportMarkets})
  /\ UNCHANGED <<supportMarkets, allMarkets, symbolTokenMap, loaded, step, gone, phase, seen, overlapped, refreshes>>

\* TokenUnRegister begins; its event tells the token.
TokenUnRegister(s) ==
  /\ gone = NoSymbol /\ events < MaxEvents
  /\ events' = events + 1 /\ gone' = s /\ phase' = 1 /\ overlapped' = (overlapped \/ step # 0)
  /\ UNCHANGED <<tables, loaded, step, seen, refreshes>>

Others(pairs, s) == [p \in {x \in DOMAIN pairs : x[1] # s /\ x[2] # s} |-> pairs[p]]

\* It deletes from two maps, computes the list of the other pairs, and assigns it.
UnRegisterStep ==
  /\ gone # NoSymbol
  /\ phase' = (phase + 1) % 5
  /\ gone' = IF phase = 4 THEN NoSymbol ELSE gone
  /\ supportTokens' = IF phase = 1 THEN Without(supportTokens, gone) ELSE supportTokens
  /\ allTokens' = IF phase = 2 THEN Without(allTokens, gone) ELSE allTokens
  /\ seen' = CASE phase = 3 -> Others(allTokenPairs, gone) [] phase = 4 -> EmptyBag [] OTHER -> seen
  /\ allTokenPairs' = IF phase = 4 THEN seen ELSE allTokenPairs
  /\ UNCHANGED <<supportMarkets, allMarkets, symbolTokenMap, loaded, step, overlapped, refreshes, events>>

Next ==
  \/ \E file \in Files : Refresh(file)
  \/ Assign \/ UnRegisterStep
  \/ \E s \in Events : TokenRegister(s) \/ TokenUnRegister(s)

Spec == Init /\ [][Next]_vars

IsMarket(s) == s \in DOMAIN supportMarkets
IsToken(s) == s \in DOMAIN supportTokens

\* WrapMarket; <<>> is its error.
WrapMarket(s, b) ==
  IF IsMarket(s) /\ IsToken(b) THEN <<b, s>>
  ELSE IF IsMarket(b) /\ IsToken(s) THEN <<s, b>>
  ELSE IF IsMarket(b) /\ IsMarket(s) THEN (IF Base(s) < Base(b) THEN <<s, b>> ELSE <<b, s>>)
  ELSE <<>>

GetSide(s, b) ==
  IF IsMarket(s) /\ IsToken(b) THEN "buy"
  ELSE IF IsMarket(b) /\ IsToken(s) THEN "sell"
  ELSE IF IsMarket(b) /\ IsMarket(s) THEN (IF Base(s) < Base(b) THEN "sell" ELSE "buy")
  ELSE ""

\* A mutation: the tokens' decimals are swapped on the sell side.
PriceSwapped(as, ab, s, b) ==
  IF s \notin DOMAIN allTokens \/ b \notin DOMAIN allTokens \/ as = 0 \/ ab = 0 THEN <<0, 1>>
  ELSE IF GetSide(s, b) = "buy" THEN <<as * allTokens[b], ab * allTokens[s]>>
  ELSE <<ab * allTokens[b], as * allTokens[s]>>

\* CalculatePrice, as a fraction.
CalculatePrice(as, ab, s, b) ==
  IF s \notin DOMAIN allTokens \/ b \notin DOMAIN allTokens \/ as = 0 \/ ab = 0 THEN <<0, 1>>
  ELSE IF GetSide(s, b) = "buy" THEN <<as * allTokens[b], ab * allTokens[s]>>
  ELSE <<ab * allTokens[s], as * allTokens[b]>>

Rest == step = 0 /\ gone = NoSymbol

-----------------------------------------------------------------------------
(* Between refreshes and handlers the table of all tokens is what the two    *)
(* tables of supported symbols say, except for an unregistered market.       *)
TypeOK ==
  /\ step \in 0 .. 6 /\ phase \in 0 .. 4 /\ (gone = NoSymbol) = (phase = 0)
  /\ IsABag(allTokenPairs) /\ IsABag(seen)
  /\ Rest /\ ~overlapped =>
       /\ DOMAIN supportTokens \subseteq DOMAIN allTokens
       /\ DOMAIN allTokens \subseteq DOMAIN supportTokens \cup DOMAIN supportMarkets

(* Between refreshes and handlers that did not overlap, whatever events came *)
(* before, every pair of AllTokenPairs is of two tokens that AllTokens still *)
(* has, and every such pair with a market is listed.                         *)
PairsKnown ==
  Rest /\ ~overlapped => {p \in DOMAIN allTokenPairs : p[1] # p[2]} =
    {<<s, b>> \in (DOMAIN allTokens) \X (DOMAIN allTokens) : s # b /\ (IsMarket(s) \/ IsMarket(b))}

(* The market of a pair does not depend on which token is sold, at any point *)
(* of a refresh or a handler: both orders of a ring get into one book, and   *)
(* GetSide puts them on its two sides.                                       *)
WrapSymmetric ==
  \A s, b \in Symbols : s # b =>
    /\ WrapMarket(s, b) = WrapMarket(b, s)
    /\ WrapMarket(s, b) # <<>> =>
         /\ GetSide(s, b) = (IF WrapMarket(s, b) = <<s, b>> THEN "sell" ELSE "buy")
         /\ GetSide(b, s) # GetSide(s, b)

(* Until an event changes the tables, AllMarkets lists exactly the markets   *)
(* that WrapMarket gives, so an order's market is one the relay serves.      *)
MarketListed ==
  step = 0 /\ events = 0 =>
    allMarkets = {WrapMarket(p[1], p[2]) :
                    p \in {q \in (DOMAIN allTokens) \X (DOMAIN allTokens) :
                            q[1] # q[2] /\ WrapMarket(q[1], q[2]) # <<>>}}

(* A trade has one price, seen from the order that sells s and from the one  *)
(* that buys it, as long as refreshes and handlers did not overlap: when     *)
(* they do, a token may be left without a side.                              *)
PriceReciprocal ==
  Rest /\ ~overlapped => \A s, b \in DOMAIN allTokens, as, ab \in 1 .. 2 :
    s # b /\ (IsMarket(s) \/ IsMarket(b)) /\ allTokens[s] > 0 /\ allTokens[b] > 0 =>
      LET p == CalculatePrice(as, ab, s, b)
          q == CalculatePrice(ab, as, b, s)
      IN  p[1] * q[2] = q[1] * p[2]

(* A pair every file has with the same flags, and that no event is about,    *)
(* keeps its market through every refresh, between its assignments too.      *)
StaysSupported ==
  \A s, b \in Symbols \ Events :
    LET stable == \A f, g \in Files : \A x \in {s, b} : x \in DOMAIN f /\ x \in DOMAIN g /\ f[x] = g[x]
    IN  stable /\ s # b /\ (\E f \in Files : f[s] \/ f[b]) => WrapMarket(s, b) # <<>>
=============================================================================
