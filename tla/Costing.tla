------------------------------ MODULE Costing ------------------------------
(***************************************************************************)
(* Prices and costs (go/internal/costing/service.go and its copies in      *)
(* go/main.go): which pricing period a day falls into, what a model's      *)
(* tokens and premium requests cost then, and to which request a user turn *)
(* is charged.                                                             *)
(*                                                                         *)
(* Abstractions.  A day is a number, and 0 the day of a record without a   *)
(* timestamp ("" or "unknown").  A model's name is a sequence of parts, so *)
(* that NormalizeModel has something to strip.  Tokens and prices are      *)
(* natural numbers (money without its scale); rounding is left out.        *)
(***************************************************************************)
EXTENDS Integers, SequencesExt

CONSTANTS
    ModelNames,         \* normalised names
    PricingPeriods      \* pricing.json

Undated == 0

Pricing == [input : Nat, output : Nat, cacheRead : Nat, cacheWrite : Nat]

(* "pricing_periods is sorted newest-first" (pricing.json:5). *)
ASSUME PricingAssumption ==
    /\ Len(PricingPeriods) \in Nat \ {0} /\ DOMAIN PricingPeriods = 1..Len(PricingPeriods)
    /\ \A i \in DOMAIN PricingPeriods :
           LET p == PricingPeriods[i]
           IN  /\ p.effectiveFrom \in Nat \ {Undated}
               /\ p.premiumRequestCost \in Nat
               /\ p.modelPricing \in [DOMAIN p.modelPricing -> Pricing]
               /\ p.premiumMultiplier \in [DOMAIN p.premiumMultiplier -> Nat]
               /\ DOMAIN p.modelPricing \cup DOMAIN p.premiumMultiplier \subseteq ModelNames
    /\ \A i, j \in DOMAIN PricingPeriods :
           i < j => PricingPeriods[i].effectiveFrom >= PricingPeriods[j].effectiveFrom
-----------------------------------------------------------------------------
(* NormalizeModel *)

Strip(name, prefix) ==
    IF name # <<>> /\ Head(name) = prefix THEN Tail(name) ELSE name

NormalizeModel(name) ==
    LET bare  == Strip(Strip(Strip(name, "sweagent-capi:"), "capi:"), "capi-noe-ptuc-ib-")
        plain == SelectSeq(bare, LAMBDA part : part # ":defaultReasoningEffort=")
    IN  IF plain # <<>> /\ plain[Len(plain)] = "-date" THEN Front(plain) ELSE plain
-----------------------------------------------------------------------------
(* GetPeriod and what is looked up in it *)

(* The first period of the list that has begun, else the last one; "" and  *)
(* "unknown" are later than any date.                                      *)
GetPeriod(day) ==
    LET begun == {i \in DOMAIN PricingPeriods :
                     day = Undated \/ day >= PricingPeriods[i].effectiveFrom}
    IN  IF begun = {} THEN Len(PricingPeriods)
        ELSE CHOOSE i \in begun : \A j \in begun : i <= j

GetPremiumRequestCost(day) == PricingPeriods[GetPeriod(day)].premiumRequestCost

HasPricing(model, day) ==
    NormalizeModel(model) \in DOMAIN PricingPeriods[GetPeriod(day)].modelPricing

GetPricing(model, day) ==
    PricingPeriods[GetPeriod(day)].modelPricing[NormalizeModel(model)]

GetPremiumMultiplier(model, day) ==
    LET multiplier == PricingPeriods[GetPeriod(day)].premiumMultiplier
        n == NormalizeModel(model)
    IN  IF n \in DOMAIN multiplier THEN multiplier[n] ELSE 1
-----------------------------------------------------------------------------
(* Costs of a record of token counts *)

NetInput(s) == s.prompt - s.cacheRead - s.cacheWrite

UncachedInput(s) == IF NetInput(s) < 0 THEN 0 ELSE NetInput(s)

CalcCost(model, s, day) ==
    IF ~HasPricing(model, day) THEN 0
    ELSE LET p == GetPricing(model, day)
         IN  UncachedInput(s) * p.input + s.completion * p.output
             + s.cacheRead * p.cacheRead + s.cacheWrite * p.cacheWrite

CalcCostNoCache(model, s, day) ==
    IF ~HasPricing(model, day) THEN 0
    ELSE LET p == GetPricing(model, day)
         IN  s.prompt * p.input + s.completion * p.output
-----------------------------------------------------------------------------
(* ReattributeUserTurns, on the calls of one parse in the order of the log *)

Multiplier(call) == GetPremiumMultiplier(NormalizeModel(call.model), call.day)

(* A user turn on a model that costs nothing moves to the next call of a   *)
(* model that does.                                                        *)
Reattribute(calls, i) ==
    LET payers == {j \in DOMAIN calls : j > i /\ Multiplier(calls[j]) > 0}
        next   == CHOOSE j \in payers : \A k \in payers : j <= k
    IN  IF ~calls[i].turn \/ Multiplier(calls[i]) # 0 \/ payers = {} THEN calls
        ELSE [calls EXCEPT ![i].turn = FALSE, ![next].turn = TRUE]

ReattributeUserTurns(calls) ==
    LET after[i \in 0..Len(calls)] ==
            IF i = 0 THEN calls ELSE Reattribute(after[i - 1], i)
    IN  after[Len(calls)]
=============================================================================
