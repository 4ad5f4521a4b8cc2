---------------------------- MODULE MCAdaptiveCore ----------------------------
(* Instances of AdaptiveCore for TLC: suppliers, prices and injections of the *)
(* scenarios price_spike and flapping_price.                                  *)
EXTENDS AdaptiveCore

Supplier(price, days) == [price |-> price, available |-> TRUE, days |-> days]
Scenario(north, south, span, mode) ==
    [world |-> [s \in Suppliers |-> IF s = "NorthParts" THEN Supplier(north, 3) ELSE Supplier(south, 5)],
     primary |-> "NorthParts", span |-> span, mode |-> mode]

PriceSpike(mode) == Scenario(75, 78, 1, mode)
FlappingPrice(mode) == Scenario(79, 76, 0, mode)

Event(kind, supplier, value) == [kind |-> kind, supplier |-> supplier, value |-> value]
Hold == Event("hold_placed", NoSupplier, 6000)
HoldReleased == Event("hold_released", NoSupplier, 6000)
FlapUp == Event("price_changed", "NorthParts", 81)
FlapDown == Event("price_changed", "NorthParts", 74)
Unavailable == Event("supplier_unavailable", "NorthParts", 0)
Delayed == Event("delivery_delayed", "NorthParts", 9)
Revoked == Event("authority_revoked", NoSupplier, 0)

\* Two runs that share the budget and the suppliers: one adapts, one does not.
SharedStarts ==
    [r \in Runs |-> IF r = "r1" THEN {FlappingPrice("adaptive")} ELSE {PriceSpike("baseline")}]
\* One run, in either scenario.
SoloStarts == [r \in Runs |-> {FlappingPrice("adaptive"), PriceSpike("adaptive")}]

ByCycle == [r \in Runs |-> IF r = "r1" THEN {1} ELSE {MaxCycles}]
ToEnd == [r \in Runs |-> {MaxCycles}]
PriceInjections == {FlapUp, FlapDown, Unavailable, Hold}
AllInjections == {Hold, HoldReleased, FlapUp, FlapDown, Unavailable, Delayed, Revoked}

==============================================================================
