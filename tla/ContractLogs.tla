---------------------------- MODULE ContractLogs ----------------------------
(***************************************************************************)
(* The other calls and logs of the contracts, as eth/contract/method.go    *)
(* and event.go decode them: for each kind, the arguments of the ABI, the  *)
(* Go struct they are unpacked into, and ConvertDown.  Which arguments of  *)
(* an event are topics is up to the contract, so every choice is taken.    *)
(* The ABIs are external: their types are those of the structs' fields.    *)
(***************************************************************************)
EXTENDS ContractTypes, TLC

CONSTANTS
    Senders,  \* senders of transactions, as bytes
    None

VARIABLES
    sent,  \* None, or a call or log: its kind, its data, and what it says
    got    \* what it was decoded to: None or a result

vars == <<sent, got>>

-----------------------------------------------------------------------------
(* Structs: the name and type of each argument in the ABI, and the type of *)
(* the Go field.  The fieldId tags count the fields.                       *)

Field(name, base, size, dims, go) == [field |-> name, type |-> Type(base, size, dims), go |-> go]
Address(name) == Field(name, "address", 0, <<>>, Bytes(AddressSize))
Uint256(name) == Field(name, "uint", WordSize, <<>>, <<"ptr">>)
Uint8(name) == Field(name, "uint", 1, <<>>, <<"uint8">>)
Bytes32(name) == Field(name, "bytes", WordSize, <<>>, Bytes(WordSize))
Bool(name) == Field(name, "bool", 0, <<>>, <<"bool">>)
String(name) == Field(name, "string", 0, <<>>, <<"string">>)
\* A Go int for a narrow unsigned integer of the ABI.
Number(name) == Field(name, "uint", 2, <<>>, <<"int">>)

TransferEvent == <<Address("From"), Address("To"), Uint256("Value")>>
ApprovalEvent == <<Address("Owner"), Address("Spender"), Uint256("Value")>>
OrderCancelledEvent == <<Bytes32("OrderHash"), Uint256("AmountCancelled")>>
CutoffEvent == <<Address("Address"), Uint256("Cutoff")>>
CutoffPairEvent == <<Address("Address"), Address("Token1"), Address("Token2"), Uint256("Cutoff")>>
TokenRegisteredEvent == <<Address("Addr"), String("Symbol")>>
TokenUnRegisteredEvent == <<Address("Addr"), String("Symbol")>>
AddressAuthorizedEvent == <<Address("Addr"), Number("Number")>>
AddressDeAuthorizedEvent == <<Address("Addr"), Number("Number")>>
WethDepositEvent == <<Address("Dst"), Uint256("Wad")>>
WethWithdrawalEvent == <<Address("Src"), Uint256("Wad")>>

CancelOrderMethod ==
    <<Field("Addresses", "address", 0, <<5>>, <<"array", Bytes(AddressSize), 5>>),
      Field("OrderValues", "uint", WordSize, <<6>>, <<"array", <<"ptr">>, 6>>),
      Bool("BuyNoMoreThanAmountB"), Uint8("MarginSplitPercentage"), Uint8("V"), Bytes32("R"), Bytes32("S")>>
CutoffMethod == <<Uint256("Cutoff")>>
CutoffPairMethod == <<Address("Token1"), Address("Token2"), Uint256("Cutoff")>>
WethDepositMethod == <<Uint256("Value")>>
WethWithdrawalMethod == <<Uint256("Wad")>>
ApproveMethod == <<Address("Spender"), Uint256("Value")>>
TransferMethod == <<Address("To"), Uint256("Value")>>

Events ==
    [Transfer |-> TransferEvent, Approval |-> ApprovalEvent, OrderCancelled |-> OrderCancelledEvent,
     AllOrdersCancelled |-> CutoffEvent, OrdersCancelled |-> CutoffPairEvent,
     TokenRegistered |-> TokenRegisteredEvent, TokenUnregistered |-> TokenUnRegisteredEvent,
     AddressAuthorized |-> AddressAuthorizedEvent, AddressDeauthorized |-> AddressDeAuthorizedEvent,
     Deposit |-> WethDepositEvent, Withdrawal |-> WethWithdrawalEvent]

Methods ==
    [cancelOrder |-> CancelOrderMethod, cancelAllOrders |-> CutoffMethod,
     cancelAllOrdersByTradingPair |-> CutoffPairMethod, deposit |-> WethDepositMethod,
     withdraw |-> WethWithdrawalMethod, approve |-> ApproveMethod, transfer |-> TransferMethod]

FieldsOf(struct) == [i \in DOMAIN struct |-> [type |-> struct[i].go, id |-> i - 1]]
ArgsOf(struct, indexed) ==
    [i \in DOMAIN struct |-> [field |-> struct[i].field, type |-> struct[i].type, indexed |-> i \in indexed]]

\* The ABI's deposit() has no argument; its ether is the value of the transaction.
AbiOf(kind) == IF kind = "deposit" THEN <<>> ELSE Methods[kind]

-----------------------------------------------------------------------------
(* ConvertDown of the fields f, and the sender of the call.                *)

TransferDown(f) == [Sender |-> f[1], Receiver |-> f[2], Amount |-> f[3]]
ApprovalDown(f) == [Owner |-> f[1], Spender |-> f[2], Amount |-> f[3]]
OrderCancelledDown(f) == [OrderHash |-> f[1], AmountCancelled |-> f[2]]
CutoffDown(f) == [Owner |-> f[1], Cutoff |-> f[2]]
CutoffPairDown(f) == [Owner |-> f[1], Token1 |-> f[2], Token2 |-> f[3], Cutoff |-> f[4]]
TokenRegisteredDown(f) == [Token |-> f[1], Symbol |-> f[2]]
TokenUnRegisteredDown(f) == [Token |-> f[1], Symbol |-> f[2]]
AddressAuthorizedDown(f) == [Protocol |-> f[1], Number |-> f[2]]
AddressDeAuthorizedDown(f) == [Protocol |-> f[1], Number |-> f[2]]
WethDepositDown(f) == [Dst |-> f[1], Amount |-> f[2]]
WethWithdrawalDown(f) == [Src |-> f[1], Amount |-> f[2]]

EventDown(kind, f) ==
    CASE kind = "Transfer" -> TransferDown(f)
      [] kind = "Approval" -> ApprovalDown(f)
      [] kind = "OrderCancelled" -> OrderCancelledDown(f)
      [] kind = "AllOrdersCancelled" -> CutoffDown(f)
      [] kind = "OrdersCancelled" -> CutoffPairDown(f)
      [] kind = "TokenRegistered" -> TokenRegisteredDown(f)
      [] kind = "TokenUnregistered" -> TokenUnRegisteredDown(f)
      [] kind = "AddressAuthorized" -> AddressAuthorizedDown(f)
      [] kind = "AddressDeauthorized" -> AddressDeAuthorizedDown(f)
      [] kind = "Deposit" -> WethDepositDown(f)
      [] kind = "Withdrawal" -> WethWithdrawalDown(f)

CancelOrderMethodDown(f) ==
    LET order == [Owner |-> f[1][1], TokenS |-> f[1][2], TokenB |-> f[1][3], WalletAddress |-> f[1][4],
                  AuthAddr |-> f[1][5], AmountS |-> f[2][1], AmountB |-> f[2][2], ValidSince |-> f[2][3],
                  ValidUntil |-> f[2][4], LrcFee |-> f[2][5], BuyNoMoreThanAmountB |-> f[3],
                  MarginSplitPercentage |-> f[4], V |-> f[5], R |-> f[6], S |-> f[7]]
    IN  [order |-> order, Hash |-> OrderHash(order), cancelAmount |-> f[2][6]]
CutoffMethodDown(f, from) == [Owner |-> from, Cutoff |-> f[1]]
CutoffPairMethodDown(f, from) == [Owner |-> from, Token1 |-> f[1], Token2 |-> f[2], Cutoff |-> f[3]]
WethDepositMethodDown == [Dst |-> Addr(0), Amount |-> None]
WethWithdrawalMethodDown(f, from) == [Src |-> from, Amount |-> f[1]]
ApproveMethodDown(f, from) == [Owner |-> from, Spender |-> f[1], Amount |-> f[2]]
TransferMethodDown(f, from) == [Sender |-> from, Receiver |-> f[1], Amount |-> f[2]]

MethodDown(kind, f, from) ==
    CASE kind = "cancelOrder" -> CancelOrderMethodDown(f)
      [] kind = "cancelAllOrders" -> CutoffMethodDown(f, from)
      [] kind = "cancelAllOrdersByTradingPair" -> CutoffPairMethodDown(f, from)
      [] kind = "deposit" -> WethDepositMethodDown
      [] kind = "withdraw" -> WethWithdrawalMethodDown(f, from)
      [] kind = "approve" -> ApproveMethodDown(f, from)
      [] kind = "transfer" -> TransferMethodDown(f, from)
-----------------------------------------------------------------------------
(* Steps.                                                                  *)

\* A value of type t, one of two; i tells the arguments apart.
RECURSIVE ValueOf(_, _, _)
ValueOf(t, i, high) ==
    CASE t.T = "array" -> [k \in 1..t.size |-> ValueOf(t.elem, 10 * i + k, high)]
      [] t.T = "address" -> Addr(100 + i)
      [] t.T = "uint" -> IF high THEN 256^t.size - i ELSE i
      [] t.T = "bool" -> high
      [] t.T = "string" -> IF high THEN [k \in 1..(WordSize + 1) |-> 65] ELSE <<>>
      [] t.T = "fixedbytes" -> [k \in 1..WordSize |-> IF high THEN 256 - i ELSE 0]

ValuesOf(struct, high) == [i \in DOMAIN struct |-> ValueOf(struct[i].type, i, high[i])]
Named(struct, vals) == [name \in {struct[i].field : i \in DOMAIN struct} |->
                          vals[CHOOSE i \in DOMAIN struct : struct[i].field = name]]

\* What the contracts' compiler may make a topic: up to three arguments of one word
\* (a Go int cannot take a topic).
Indexable(struct) ==
    {I \in SUBSET {i \in DOMAIN struct : ~requiresLengthPrefix(struct[i].type) /\ Kind(struct[i].go) # "int"} :
       Cardinality(I) <= 3}

Init == sent = None /\ got = None

\* A contract emits a log.
Emit(kind, indexed, high) ==
    LET struct == Events[kind]
        args == ArgsOf(struct, indexed)
        own == NonIndexed(args)
        vals == ValuesOf(struct, high)
        Pick(I) == [k \in 1..Cardinality(I) |-> vals[SetToSortSeq(I, <)[k]]]
        topics == [k \in 1..Cardinality(indexed) |->
                     LET i == SetToSortSeq(indexed, <)[k] IN packElement(struct[i].type, vals[i])]
    IN
    /\ sent = None
    /\ sent' = [kind |-> kind, args |-> args, says |-> Named(struct, vals), topics |-> <<Word(<<99>>)>> \o topics,
                data |-> Pack(TypesOf(own), [i \in DOMAIN own |-> GoType(own[i].type)],
                              Pick(DOMAIN struct \ indexed)).val]
    /\ UNCHANGED got

\* Somebody calls a contract.
Call(kind, from, high) ==
    LET abi == AbiOf(kind)
        vals == ValuesOf(abi, high)
    IN
    /\ sent = None
    /\ sent' = [kind |-> kind, args |-> ArgsOf(abi, {}), says |-> Named(abi, vals), from |-> Addr(from),
                data |-> Pack([i \in DOMAIN abi |-> abi[i].type], [i \in DOMAIN abi |-> abi[i].go], vals).val]
    /\ UNCHANGED got

DecodeEvent ==
    /\ sent # None /\ got = None
    /\ sent.kind \in DOMAIN Events
    /\ got' = [cut |-> FALSE,
               event |-> Then(UnpackEvent(FieldsOf(Events[sent.kind]), sent.args, sent.data, sent.topics),
                              LAMBDA f : Return(EventDown(sent.kind, f)))]
    /\ UNCHANGED sent

\* The first k bytes of the call are decoded.
DecodeCall(k) ==
    /\ got = None
    /\ got' = [cut |-> k < Len(sent.data),
               event |-> Then(UnpackMethod(FieldsOf(Methods[sent.kind]), sent.args, Slice(sent.data, 0, k)),
                              LAMBDA f : Return(MethodDown(sent.kind, f, sent.from)))]
    /\ UNCHANGED sent

Next ==
    \/ \E kind \in DOMAIN Events : \E indexed \in Indexable(Events[kind]), high \in [DOMAIN Events[kind] -> BOOLEAN] :
         Emit(kind, indexed, high)
    \/ \E kind \in DOMAIN Methods, from \in Senders : \E high \in [DOMAIN AbiOf(kind) -> BOOLEAN] :
         Call(kind, from, high)
    \/ DecodeEvent
    \/ sent # None /\ sent.kind \in DOMAIN Methods /\ \E k \in 0..Len(sent.data) : DecodeCall(k)

Spec == Init /\ [][Next]_vars

-----------------------------------------------------------------------------
(* Properties.                                                             *)

\* The meaning of each call and log: which argument of the ABI is which field of
\* the relay's event.
Meaning(kind, a) ==
    CASE kind = "Transfer" -> [Sender |-> a.From, Receiver |-> a.To, Amount |-> a.Value]
      [] kind = "Approval" -> [Owner |-> a.Owner, Spender |-> a.Spender, Amount |-> a.Value]
      [] kind = "OrderCancelled" -> [OrderHash |-> a.OrderHash, AmountCancelled |-> a.AmountCancelled]
      [] kind = "AllOrdersCancelled" -> [Owner |-> a.Address, Cutoff |-> a.Cutoff]
      [] kind = "OrdersCancelled" ->
           [Owner |-> a.Address, Token1 |-> a.Token1, Token2 |-> a.Token2, Cutoff |-> a.Cutoff]
      [] kind \in {"TokenRegistered", "TokenUnregistered"} -> [Token |-> a.Addr, Symbol |-> a.Symbol]
      [] kind = "Deposit" -> [Dst |-> a.Dst, Amount |-> a.Wad]
      [] kind = "Withdrawal" -> [Src |-> a.Src, Amount |-> a.Wad]
      [] kind = "cancelAllOrders" -> [Owner |-> sent.from, Cutoff |-> a.Cutoff]
      [] kind = "cancelAllOrdersByTradingPair" ->
           [Owner |-> sent.from, Token1 |-> a.Token1, Token2 |-> a.Token2, Cutoff |-> a.Cutoff]
      [] kind = "withdraw" -> [Src |-> sent.from, Amount |-> a.Wad]
      [] kind = "approve" -> [Owner |-> sent.from, Spender |-> a.Spender, Amount |-> a.Value]
      [] kind = "transfer" -> [Sender |-> sent.from, Receiver |-> a.To, Amount |-> a.Value]

\* A cancelled order as the fields of the call give it.
CancelMeaning(a) ==
    LET who == a.Addresses
        n == a.OrderValues
        o == [Owner |-> who[1], TokenS |-> who[2], TokenB |-> who[3], WalletAddress |-> who[4], AuthAddr |-> who[5],
              AmountS |-> n[1], AmountB |-> n[2], ValidSince |-> n[3], ValidUntil |-> n[4], LrcFee |-> n[5],
              BuyNoMoreThanAmountB |-> a.BuyNoMoreThanAmountB, MarginSplitPercentage |-> a.MarginSplitPercentage,
              V |-> a.V, R |-> a.R, S |-> a.S]
    IN  [order |-> o, Hash |-> OrderHash(o), cancelAmount |-> n[6]]

\* A log, whichever of its arguments are topics, and a complete call are decoded to
\* what they say, each value in its own field.  Rejected are exactly: a call that is
\* cut; a log without any topic of its own; the logs with a Go int, which no integer
\* of the ABI can be stored in; and deposit, which has no argument.
ContractDecoded ==
    got # None =>
        /\ got.event.ok <=>
             /\ ~got.cut
             /\ sent.kind \in DOMAIN Events => \E i \in DOMAIN sent.args : sent.args[i].indexed
             /\ sent.kind \notin {"AddressAuthorized", "AddressDeauthorized", "deposit"}
        /\ got.event.ok =>
             got.event.val = IF sent.kind = "cancelOrder" THEN CancelMeaning(sent.says) ELSE Meaning(sent.kind, sent.says)
=============================================================================
