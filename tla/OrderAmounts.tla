---------------------------- MODULE OrderAmounts ----------------------------
(* types.OrderState: what is left of an order while it is dealt, split,      *)
(* cancelled and grows old, what a miner may fill of it with the owner's     *)
(* balance (ConvertOrderStateToFilledOrder), and when it counts as finished, *)
(* effective or expired.  Amounts are integers, what is computed from them   *)
(* rational: <<numerator, denominator>>.                                     *)
EXTENDS Integers
CONSTANTS MaxAmount, MaxTime,   \* bounds
          Dust                  \* the dust value, at a price of 1
VARIABLES amountS, amountB, buyNoMore, validSince, validUntil,  \* RawOrder
          dealtS, dealtB, cancelledS, cancelledB, splitS, splitB, status, now

order == <<amountS, amountB, buyNoMore, validSince, validUntil>>
taken == <<dealtS, dealtB, cancelledS, cancelledB, splitS, splitB>>
vars == <<order, taken, status, now>>

Open == {"new", "partial"}

Init ==
  /\ amountS \in 1 .. MaxAmount /\ amountB \in 1 .. MaxAmount /\ buyNoMore \in BOOLEAN
  /\ validSince \in 0 .. MaxTime /\ validUntil \in validSince .. MaxTime
  /\ dealtS = 0 /\ dealtB = 0 /\ cancelledS = 0 /\ cancelledB = 0 /\ splitS = 0 /\ splitB = 0
  /\ status = "new" /\ now = 0

Rat(n, d) == <<n, d>>
Times(x, y) == <<x[1] * y[1], x[2] * y[2]>>
Inv(x) == <<x[2], x[1]>>
Leq(x, y) == x[1] * y[2] <= y[1] * x[2]
Less(x, y) == ~Leq(y, x)

SellPrice == Rat(amountS, amountB)

\* A mutation: what was split is left out.
RemainedUnsplit ==
  IF buyNoMore
  THEN LET b == Rat(amountB - (dealtB + cancelledB), 1) IN [s |-> Times(b, SellPrice), b |-> b]
  ELSE LET s == Rat(amountS - (dealtS + cancelledS), 1) IN [s |-> s, b |-> Times(s, Inv(SellPrice))]

\* RemainedAmount: by the side that limits the order, and its price.
RemainedAmount ==
  IF buyNoMore
  THEN LET b == Rat(amountB - (dealtB + cancelledB + splitB), 1) IN [s |-> Times(b, SellPrice), b |-> b]
  ELSE LET s == Rat(amountS - (dealtS + cancelledS + splitS), 1) IN [s |-> s, b |-> Times(s, Inv(SellPrice))]

DealtAndSplitAmount ==
  IF buyNoMore
  THEN LET b == Rat(dealtB + splitB, 1) IN [s |-> Times(b, SellPrice), b |-> b]
  ELSE LET s == Rat(dealtS + splitS, 1) IN [s |-> s, b |-> Times(s, Inv(SellPrice))]

\* ConvertOrderStateToFilledOrder: the available amounts.
Filled(balance) ==
  LET r == RemainedAmount
      poor == Less(balance, r.s)
      s == IF poor THEN balance ELSE r.s
      b == IF poor THEN Times(s, Inv(SellPrice)) ELSE r.b
  IN  IF buyNoMore THEN [s |-> Times(b, SellPrice), b |-> b]
      ELSE [s |-> s, b |-> Times(s, Inv(SellPrice))]

\* IsOrderFullFinished with a price of 1.
IsOrderFullFinished == Leq(RemainedAmount.s, Rat(Dust, 1))

\* A mutation: an order is expired from the maximal time on only, as if a
\* timestamp were in milliseconds.
ExpiredLate == status \in Open /\ validUntil * 1000 + 1 < now

IsExpired == status \in Open /\ validUntil < now

IsEffective == status \in Open /\ validSince <= now /\ validUntil > now

\* The relay's bookkeeping around these functions.  A ring deals, an order is
\* cancelled or split, within what is left and at the order's price or better
\* for its owner.
Within(s, b) ==
  /\ s * amountB <= b * amountS /\ dealtB + cancelledB + splitB + b <= 2 * MaxAmount
  /\ IF buyNoMore THEN dealtB + cancelledB + splitB + b <= amountB
     ELSE dealtS + cancelledS + splitS + s <= amountS

Take(s, b) ==
  /\ status \in Open /\ s + b > 0 /\ Within(s, b)
  /\ \/ /\ dealtS' = dealtS + s /\ dealtB' = dealtB + b /\ status' = "partial"
        /\ UNCHANGED <<cancelledS, cancelledB, splitS, splitB>>
     \/ /\ cancelledS' = cancelledS + s /\ cancelledB' = cancelledB + b
        /\ UNCHANGED <<dealtS, dealtB, splitS, splitB, status>>
     \/ /\ splitS' = splitS + s /\ splitB' = splitB + b
        /\ UNCHANGED <<dealtS, dealtB, cancelledS, cancelledB, status>>
  /\ UNCHANGED <<order, now>>

Close ==
  /\ \/ IsOrderFullFinished /\ status \in Open /\ status' = "finished"
     \/ IsExpired /\ status' = "expired"
  /\ UNCHANGED <<order, taken, now>>

Tick ==
  /\ now <= MaxTime /\ now' = now + 1 /\ UNCHANGED <<order, taken, status>>

Next == Tick \/ Close \/ \E s, b \in 0 .. MaxAmount : Take(s, b)

Spec == Init /\ [][Next]_vars

\* The relay deals with an order that is old or finished.
FairSpec == Spec /\ WF_vars(Tick) /\ WF_vars(Close)

-----------------------------------------------------------------------------
(* The state of an order has its type, and an order was closed as expired    *)
(* only after the last second of its validity.                               *)
TypeOK ==
  /\ status \in Open \cup {"finished", "expired"} /\ now \in 0 .. MaxTime + 1
  /\ status = "expired" => now > validUntil
  /\ \A x \in {dealtS, dealtB, cancelledS, cancelledB, splitS, splitB} : x \in 0 .. 2 * MaxAmount

(* Whatever mixture of dealing, cancelling and splitting an order has seen,  *)
(* what remains of it is never negative on either side, has the order's      *)
(* price, and makes up the order with what was taken: no rounding between    *)
(* the two ways to limit an order.                                           *)
RemainedExact ==
  LET r == RemainedAmount
      t == DealtAndSplitAmount
      left(a, x, y) == a * x[2] * y[2] - x[1] * y[2] - y[1] * x[2]
  IN  /\ Leq(Rat(0, 1), r.s) /\ Leq(Rat(0, 1), r.b)
      /\ r.s[1] * r.b[2] * amountB = r.b[1] * r.s[2] * amountS
      /\ IF buyNoMore THEN left(amountB, r.b, t.b) = cancelledB * r.b[2] * t.b[2]
         ELSE left(amountS, r.s, t.s) = cancelledS * r.s[2] * t.s[2]

(* What a miner may fill is within the balance of the owner and within what  *)
(* remains, as much as both allow, and has the order's price.                *)
FilledFits ==
  \A balance \in 0 .. MaxAmount + 1 :
    LET f == Filled(Rat(balance, 1))
        r == RemainedAmount
    IN  /\ Leq(f.s, Rat(balance, 1)) /\ Leq(f.s, r.s) /\ Leq(f.b, r.b)
        /\ Leq(Rat(balance, 1), f.s) \/ Leq(r.s, f.s)
        /\ f.s[1] * f.b[2] * amountB = f.b[1] * f.s[2] * amountS

(* An order with only dust left never has more again, and an expired order   *)
(* is never effective again.                                                 *)
OverForGood ==
  [][/\ IsOrderFullFinished => IsOrderFullFinished'
     /\ IsExpired => ~IsEffective']_vars

(* Every order ends: time takes it past the second at which it is neither    *)
(* effective nor expired.                                                    *)
OrderEnds == <>(status \notin Open)
=============================================================================
