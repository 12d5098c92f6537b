--------------------------- MODULE ContractTypes ----------------------------
(***************************************************************************)
(* What the calls and logs of the contracts have in common: the types of   *)
(* their arguments, values of these types, and the hash of an order.       *)
(***************************************************************************)
EXTENDS AbiCodec

Type(base, size, dims) == NewType(base, size, dims).val
Arg(field, base, size, dims, indexed) == [field |-> field, type |-> Type(base, size, dims), indexed |-> indexed]
TypesOf(args) == [i \in DOMAIN args |-> args[i].type]

\* The Go type [n]byte, and common.Address and common.Hash.
Bytes(n) == <<"array", <<"uint8">>, n>>

Addr(k) == LeftPadBytes(<<k>>, AddressSize)
Word(b) == RightPadBytes(b, WordSize)

\* Order.GenerateHash: an ideal hash, the tuple of what is hashed but for
\* the delegate, which is the same for all orders here.
OrderHash(o) ==
    <<o.Owner, o.TokenS, o.TokenB, o.WalletAddress, o.AuthAddr, o.AmountS, o.AmountB, o.ValidSince,
      o.ValidUntil, o.LrcFee, o.BuyNoMoreThanAmountB, o.MarginSplitPercentage>>
=============================================================================
