-------------------------- MODULE FinanceCalculator --------------------------
(***************************************************************************)
(* The fee arithmetic of finance_calculator.go and domain/finance.go.      *)
(* Every amount is a whole number of rupiah; a percentage is taken with    *)
(* the integer division of Go, which on the positive amounts used here     *)
(* rounds down.  The flat fees are constants so that a small instance can  *)
(* use small amounts.                                                      *)
(***************************************************************************)
EXTENDS Integers

CONSTANTS
  FeeGoodsRekberPay,     \* flat buyer fee, BRONZE seller, paid by wallet
  FeeGoodsNonRekberPay,  \* flat buyer fee, BRONZE seller, paid otherwise
  MaxMemberEventLimit    \* what an unverified seller may sell in one deal

ASSUME FeesAssumption ==
  /\ FeeGoodsRekberPay \in Nat
  /\ FeeGoodsNonRekberPay \in Nat
  /\ MaxMemberEventLimit \in Nat

\* The tiers the goods handler accepts in seller_tier.
Tiers == {"GOLD", "SILVER", "BRONZE"}

Percent(p, amount) == (amount * p) \div 100

BuyerRate == [GOLD |-> 8, SILVER |-> 4]
SellerRate == [GOLD |-> 3, SILVER |-> 6, BRONZE |-> 10]

\* CalculateBuyerServiceFee for goods: what the buyer pays on top of the base.
\* It is 0 for services and for events.
CalculateBuyerServiceFee(base, isRekberPay, sellerTier) ==
  IF sellerTier = "BRONZE"
    THEN IF isRekberPay THEN FeeGoodsRekberPay ELSE FeeGoodsNonRekberPay
    ELSE Percent(BuyerRate[sellerTier], base)

\* CalculateSellerServiceFee for goods: the commission kept from the seller.
CalculateSellerServiceFee(base, sellerTier) == Percent(SellerRate[sellerTier], base)

\* CalculateSellerServiceFee for services: a flat 5%, whatever the tier.  It is
\* taken twice over, from the base for the row and from each milestone when it
\* is released, and the rounded parts need not add up to the rounded whole.
ServicesCommission(amount) == Percent(5, amount)

\* EventPlatformFee: what is reserved for the platform from an event escrow.
EventPlatformFee(gross) == Percent(5, gross)
=============================================================================
