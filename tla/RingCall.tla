------------------------------ MODULE RingCall ------------------------------
(***************************************************************************)
(* A ring of orders on its way to the chain and back: the submitRing call  *)
(* that eth/contract/method.go builds and decodes, the ring's cached hash  *)
(* (types/ring.go), and the fills that eth/contract/event.go reads out of  *)
(* the RingMined log.                                                      *)
(*                                                                         *)
(* Hashes are ideal: a hash is the tuple of what is hashed, and a          *)
(* signature names its signer and the hash.  The chain and the program     *)
(* that evaluates the ring are external.                                   *)
(***************************************************************************)
EXTENDS ContractTypes, TLC

CONSTANTS
    MaxRing,    \* bound: orders of a ring
    Recipients, \* fee recipients, as bytes (a word has at least three)
    MaxChange,  \* bound: new fee selections
    MaxSubmit,  \* bound: calls built from one ring
    None

VARIABLES
    ring,    \* the ring: its orders, their FeeSelection, and its cached Hash
    call,    \* the last call: None or its data, and the ring and recipient it is for
    tx,      \* what the call was decoded to: None or a result
    log,     \* the RingMined log: None or its topics and data, and what happened
    fills,   \* what the log was decoded to: None or a result
    count    \* how much of each bound is used up

vars == <<ring, call, tx, log, fills, count>>

\* The n-th order of a ring of size orders; it buys what the next one sells.  Each
\* field has a value of its own.
RawOrder(n, size) ==
    [Owner |-> Addr(10 * n + 1), TokenS |-> Addr(10 * n + 2), TokenB |-> Addr(10 * ((n % size) + 1) + 2),
     WalletAddress |-> Addr(10 * n + 3), AuthAddr |-> Addr(10 * n + 4),
     AmountS |-> 1000 * n, AmountB |-> 1000 * n + 1, ValidSince |-> 1000 * n + 2, ValidUntil |-> 1000 * n + 3,
     LrcFee |-> 1000 * n + 4, BuyNoMoreThanAmountB |-> (n % 2) = 1, MarginSplitPercentage |-> 10 * n + 5,
     V |-> 27 + (n % 2), R |-> Word(<<n, 1>>), S |-> Word(<<n, 2>>)]

Init ==
    /\ \E size \in 1..MaxRing :
         ring = [orders |-> [n \in 1..size |-> RawOrder(n, size)],
                 select |-> [n \in 1..size |-> 0], id |-> {}, hash |-> None]
    /\ call = None /\ tx = None /\ log = None /\ fills = None
    /\ count = [change |-> 0, submit |-> 0]

-----------------------------------------------------------------------------
(* The ring and its hash.                                                  *)

\* FeeSelections: one bit per order.
FeeSelections(select) ==
    FoldLeft(LAMBDA a, i : a + (IF select[i] > 0 THEN 2^(i - 1) ELSE 0), 0, [i \in DOMAIN select |-> i])

Xor(a, b) == (a \ b) \cup (b \ a)

\* GenerateUniqueId: computed once.
GenerateUniqueId(r) ==
    IF r.id # {} THEN r.id ELSE FoldLeft(LAMBDA a, o : Xor(a, {OrderHash(o)}), {}, r.orders)

\* Ring.GenerateHash.
RingHash(r, to) == [id |-> GenerateUniqueId(r), to |-> to, fees |-> FeeSelections(r.select)]

\* An ideal signature with the auth key of the n-th order, as SigToVRS returns it.
SigToVRS(n, h) == [v |-> 27 + (n % 2), r |-> Word(<<n, h.to, h.fees>>), s |-> Word(<<n + 100, h.to, h.fees>>)]

-----------------------------------------------------------------------------
(* submitRing.                                                             *)

SubmitRingArgs ==
    <<Arg("AddressList", "address", 0, <<4, 0>>, FALSE), Arg("UintArgsList", "uint", WordSize, <<6, 0>>, FALSE),
      Arg("Uint8ArgsList", "uint", 1, <<1, 0>>, FALSE), Arg("BuyNoMoreThanAmountBList", "bool", 0, <<0>>, FALSE),
      Arg("VList", "uint", 1, <<0>>, FALSE), Arg("RList", "bytes", WordSize, <<0>>, FALSE),
      Arg("SList", "bytes", WordSize, <<0>>, FALSE), Arg("FeeRecipient", "address", 0, <<>>, FALSE),
      Arg("FeeSelections", "uint", 2, <<>>, FALSE)>>

\* SubmitRingMethodInputs; the last two fields have no tag.
SubmitRingFields ==
    <<[type |-> <<"slice", <<"array", Bytes(AddressSize), 4>>>>, id |-> 0],
      [type |-> <<"slice", <<"array", <<"ptr">>, 6>>>>, id |-> 1],
      [type |-> <<"slice", <<"array", <<"uint8">>, 1>>>>, id |-> 2],
      [type |-> <<"slice", <<"bool">>>>, id |-> 3], [type |-> <<"slice", <<"uint8">>>>, id |-> 4],
      [type |-> <<"slice", Bytes(WordSize)>>, id |-> 5], [type |-> <<"slice", Bytes(WordSize)>>, id |-> 6],
      [type |-> Bytes(AddressSize), id |-> 7], [type |-> <<"uint16">>, id |-> 8],
      [type |-> Bytes(AddressSize), id |-> 0], [type |-> Bytes(AddressSize), id |-> 0]>>

\* FloatString(0) of a rate: a half is rounded up.  The rates are external: here
\* sixteenths.
Rounded(num, den) == (2 * num + den) \div (2 * den)

\* GenerateSubmitRingMethodInputsData for the ring r, whose hash is set.
SubmitRingData(r, to) ==
    LET o == r.orders
        auth == [i \in DOMAIN o |-> SigToVRS(i, r.hash)]
    IN  Pack(TypesOf(SubmitRingArgs), [i \in 1..9 |-> SubmitRingFields[i].type],
          <<[i \in DOMAIN o |-> <<o[i].Owner, o[i].TokenS, o[i].WalletAddress, o[i].AuthAddr>>],
            [i \in DOMAIN o |-> <<o[i].AmountS, o[i].AmountB, o[i].ValidSince, o[i].ValidUntil, o[i].LrcFee,
                                  Rounded(o[i].AmountS, 16)>>],
            [i \in DOMAIN o |-> <<o[i].MarginSplitPercentage>>],
            [i \in DOMAIN o |-> o[i].BuyNoMoreThanAmountB],
            [i \in DOMAIN o |-> o[i].V] \o [i \in DOMAIN o |-> auth[i].v],
            [i \in DOMAIN o |-> o[i].R] \o [i \in DOMAIN o |-> auth[i].r],
            [i \in DOMAIN o |-> o[i].S] \o [i \in DOMAIN o |-> auth[i].s],
            Addr(to), FeeSelections(r.select) % 2^16>>)

\* SubmitRingMethodInputs.ConvertDown of the unpacked fields m.
SubmitRingConvertDown(m) ==
    LET n == Len(m[1])
        Order(i) ==
            [Owner |-> m[1][i][1], TokenS |-> m[1][i][2], TokenB |-> m[1][(i % n) + 1][2],
             WalletAddress |-> m[1][i][3], AuthAddr |-> m[1][i][4],
             AmountS |-> m[2][i][1], AmountB |-> m[2][i][2], ValidSince |-> m[2][i][3], ValidUntil |-> m[2][i][4],
             LrcFee |-> m[2][i][5], BuyNoMoreThanAmountB |-> m[4][i], MarginSplitPercentage |-> m[3][i][1],
             V |-> m[5][i], R |-> m[6][i], S |-> m[7][i]]
    IN  IF n < 2 \/ Len(m[2]) # n \/ Len(m[3]) # n \/ \E k \in 5..7 : Len(m[k]) # 2 * n THEN Fail
        ELSE Return([OrderList |-> [i \in 1..n |-> Order(i)], Hashes |-> [i \in 1..n |-> OrderHash(Order(i))],
                     FeeReceipt |-> m[8], FeeSelection |-> m[9]])

SubmitRingDecoded(data) ==
    Then(UnpackMethod(SubmitRingFields, SubmitRingArgs, data), SubmitRingConvertDown)

-----------------------------------------------------------------------------
(* RingMined.  The log has seven words per order, in the order the comment *)
(* in event.go gives.                                                      *)

RingMinedArgs ==
    <<Arg("RingIndex", "uint", WordSize, <<>>, FALSE), Arg("RingHash", "bytes", WordSize, <<>>, TRUE),
      Arg("Miner", "address", 0, <<>>, FALSE), Arg("FeeRecipient", "address", 0, <<>>, FALSE),
      Arg("OrderInfoList", "bytes", WordSize, <<0>>, FALSE)>>

RingMinedFields ==
    <<[type |-> <<"ptr">>, id |-> 0], [type |-> Bytes(WordSize), id |-> 1], [type |-> Bytes(AddressSize), id |-> 2],
      [type |-> Bytes(AddressSize), id |-> 3], [type |-> <<"slice", Bytes(WordSize)>>, id |-> 4]>>

\* What the chain may do with one order: fee or reward, margin on either side.
Outcomes ==
    {[fee |-> 7, reward |-> 0, splitS |-> 3, splitB |-> 0], [fee |-> 0, reward |-> 5, splitS |-> 0, splitB |-> 4],
     [fee |-> 9, reward |-> 6, splitS |-> 0, splitB |-> 0], [fee |-> 0, reward |-> 0, splitS |-> 0, splitB |-> 8]}
FillAmount(i) == 100 + i
HashWord(i) == Word(<<i, 200>>)

\* The contract's words for the i-th order o with outcome c.
OrderInfo(i, o, c) ==
    <<HashWord(i), LeftPadBytes(o.Owner, WordSize), LeftPadBytes(o.TokenS, WordSize),
      PackNum(FillAmount(i)), PackNum(c.reward),
      PackNum(IF c.fee > 0 THEN c.fee ELSE -c.reward), PackNum(IF c.splitS > 0 THEN c.splitS ELSE -c.splitB)>>

RingMinedLog(o, cs) ==
    LET info == Concat([i \in DOMAIN o |-> OrderInfo(i, o[i], cs[i])])
        own == NonIndexed(RingMinedArgs)
    IN  [topics |-> <<Word(<<99>>), Word(<<77, 7>>)>>,
         data |-> Pack(TypesOf(own), [i \in DOMAIN own |-> GoType(own[i].type)], <<5, Addr(61), Addr(62), info>>).val]

\* Mutation: a negative number is read as a large one.
SafeBigUnsigned(b) == ToNumber(b)

\* safeBig.
safeBig(b) == IF b[1] > 128 THEN ToNumber(b) - 256^WordSize ELSE ToNumber(b)
safeAddress(b) == Slice(b, WordSize - AddressSize, WordSize)
Max0(x) == IF x > 0 THEN x ELSE 0

\* RingMinedEvent.ConvertDown: an order buys from the one before it in the ring.
RingMinedConvertDown(e) ==
    LET info == e[5]
        n == Len(info) \div 7
        At(i, k) == info[7 * (i - 1) + k + 1]
        Pre(i) == IF i = 1 THEN n ELSE i - 1
        Next7(i) == IF i = n THEN 1 ELSE i + 1
        Fill(i) ==
            [OrderHash |-> At(i, 0), PreOrderHash |-> At(Pre(i), 0), NextOrderHash |-> At(Next7(i), 0),
             Owner |-> safeAddress(At(i, 1)), SellTo |-> safeAddress(At(Next7(i), 1)), BuyFrom |-> safeAddress(At(Pre(i), 1)),
             TokenS |-> safeAddress(At(i, 2)), TokenB |-> safeAddress(At(Pre(i), 2)),
             AmountS |-> safeBig(At(i, 3)), AmountB |-> safeBig(At(Pre(i), 3)), LrcReward |-> safeBig(At(i, 4)),
             LrcFee |-> Max0(safeBig(At(i, 5))), SplitS |-> Max0(safeBig(At(i, 6))), SplitB |-> Max0(-safeBig(At(i, 6)))]
    IN  IF Len(info) % 7 # 0 \/ n < 2 THEN Fail
        ELSE Return([RingIndex |-> e[1], Ringhash |-> e[2], Miner |-> e[3], FeeRecipient |-> e[4],
                     fills |-> [i \in 1..n |-> Fill(i)],
                     TotalLrcFee |-> FoldLeft(LAMBDA a, i : a + Fill(i).LrcFee, 0, [i \in 1..n |-> i]),
                     TradeAmount |-> n])

-----------------------------------------------------------------------------
(* Steps.                                                                  *)

\* The ring is evaluated again: other fees are chosen.
Select(i) ==
    /\ count.change < MaxChange /\ log = None
    /\ ring' = [ring EXCEPT !.select[i] = 1 - @]
    /\ count' = [count EXCEPT !.change = @ + 1]
    /\ UNCHANGED <<call, tx, log, fills>>

\* The hash is only generated when there is none.
Hashed(r, to) ==
    IF r.hash # None THEN r ELSE [r EXCEPT !.hash = RingHash(r, to), !.id = GenerateUniqueId(r)]

\* GenerateSubmitRingMethodInputsData.  A ring that was mined is not submitted again.
Submit(to) ==
    /\ count.submit < MaxSubmit /\ log = None
    /\ ring' = Hashed(ring, to)
    /\ call' = [data |-> SubmitRingData(Hashed(ring, to), to).val, to |-> to, select |-> ring.select]
    /\ tx' = None
    /\ count' = [count EXCEPT !.submit = @ + 1]
    /\ UNCHANGED <<log, fills>>

\* An order cannot be signed: there is no call, but the ring keeps its hash.
SubmitFails(to) ==
    /\ count.submit < MaxSubmit /\ log = None
    /\ ring' = Hashed(ring, to)
    /\ count' = [count EXCEPT !.submit = @ + 1]
    /\ UNCHANGED <<call, tx, log, fills>>

\* The first k bytes of the call are decoded.
Receive(k) ==
    /\ call # None /\ tx = None
    /\ tx' = [cut |-> k < Len(call.data), event |-> SubmitRingDecoded(Slice(call.data, 0, k))]
    /\ UNCHANGED <<ring, call, log, fills, count>>

\* The contract executes the complete call.
Mine(cs) ==
    /\ call # None /\ tx # None /\ log = None
    /\ ~tx.cut
    /\ log' = [mined |-> RingMinedLog(ring.orders, cs), cases |-> cs]
    /\ UNCHANGED <<ring, call, tx, fills, count>>

ReceiveLog ==
    /\ log # None /\ fills = None
    /\ fills' = Then(UnpackEvent(RingMinedFields, RingMinedArgs, log.mined.data, log.mined.topics),
                     RingMinedConvertDown)
    /\ UNCHANGED <<ring, call, tx, log, count>>

Next ==
    \/ \E i \in DOMAIN ring.orders : Select(i)
    \/ \E to \in Recipients : Submit(to) \/ SubmitFails(to)
    \/ call # None /\ \E k \in 0..Len(call.data) : Receive(k)
    \/ \E cs \in [DOMAIN ring.orders -> Outcomes] : Mine(cs)
    \/ ReceiveLog

Spec == Init /\ [][Next]_vars

-----------------------------------------------------------------------------
(* Properties.                                                             *)

\* What the relay reads out of a submitRing call is the ring it was built from:
\* all fields of all orders, the hashes computed from them, the fee recipient and
\* selections.  A call that is cut anywhere, or has one order, is rejected.
RingDecoded ==
    tx # None =>
        /\ tx.event.ok <=> ~tx.cut /\ Len(ring.orders) > 1
        /\ tx.event.ok =>
             tx.event.val = [OrderList |-> ring.orders, Hashes |-> [i \in DOMAIN ring.orders |-> OrderHash(ring.orders[i])],
                             FeeReceipt |-> Addr(call.to), FeeSelection |-> FeeSelections(call.select)]

\* The auth signatures of a call sign the hash of the ring with the call's fee
\* recipient and selections, as long as the ring is not submitted a second time:
\* Hash is cached in the ring, and later calls repeat the signatures of the first.
AuthSignsCall ==
    tx # None /\ count.submit = 1 =>
        LET n == Len(ring.orders)
            Sig(i) == SigToVRS(i, [id |-> ring.id, to |-> call.to, fees |-> FeeSelections(call.select)])
            Signed(m) == Return(\A i \in 1..n : [v |-> m[5][n + i], r |-> m[6][n + i], s |-> m[7][n + i]] = Sig(i))
        IN  Then(UnpackMethod(SubmitRingFields, SubmitRingArgs, call.data), Signed) = Return(TRUE)

\* The fills of a mined ring form the ring: each order sells to the next, which
\* buys from it the same token and amount; fees, rewards and margins are those of
\* the contract, negative words included, and the total is their sum.
FillsLinked ==
    fills # None =>
        /\ fills.ok <=> Len(ring.orders) > 1
        /\ fills.ok =>
             LET f == fills.val.fills
                 n == Len(ring.orders)
             IN  /\ Len(f) = n /\ fills.val.TradeAmount = n
                 /\ fills.val.TotalLrcFee = FoldLeft(LAMBDA a, c : a + c.fee, 0, log.cases)
                 /\ <<fills.val.RingIndex, fills.val.Ringhash, fills.val.Miner, fills.val.FeeRecipient>>
                      = <<5, Word(<<77, 7>>), Addr(61), Addr(62)>>
                 /\ \A i \in 1..n :
                      LET next == f[(i % n) + 1] IN
                      /\ f[i].OrderHash = HashWord(i) /\ f[i].Owner = ring.orders[i].Owner
                      /\ f[i].TokenS = ring.orders[i].TokenS /\ f[i].AmountS = FillAmount(i)
                      /\ f[i].NextOrderHash = next.OrderHash /\ next.PreOrderHash = f[i].OrderHash
                      /\ f[i].SellTo = next.Owner /\ next.BuyFrom = f[i].Owner
                      /\ next.TokenB = f[i].TokenS /\ next.AmountB = f[i].AmountS
                      /\ f[i].LrcReward = log.cases[i].reward /\ f[i].LrcFee = log.cases[i].fee
                      /\ f[i].SplitS = log.cases[i].splitS /\ f[i].SplitB = log.cases[i].splitB
                      /\ n = 2 => f[i].TokenB = ring.orders[i].TokenB
=============================================================================
