---------------------------- MODULE ShipmentCost ----------------------------
(***************************************************************************)
(* What a shipment costs: ShipmentsService.calculateShipmentCost, called   *)
(* once by create() before its first transaction; the total becomes        *)
(* Shipment.price and the amount of the Xendit invoice.                    *)
(*                                                                         *)
(* Prices are whole rupiah.  geolib gives the distance in whole metres and *)
(* create() divides by 1000, so the comparisons with 50 and 100 km and the *)
(* begun 100 km blocks are exact in metres.  The weight is in grams.       *)
(***************************************************************************)
EXTENDS Integers

CONSTANTS
  Distances,  \* distances between pickup and destination, in metres
  Weights     \* weights of parcels, in grams

ASSUME CostAssumption == Distances \subseteq Nat /\ Weights \subseteq Nat \ {0}

VARIABLES
  parcel,     \* the parcel create() was asked to send
  charge      \* what calculateShipmentCost returned, NotPriced before

costVars == <<parcel, charge>>

DeliveryTypes == {"same_day", "next_day", "regular"}

minimumPriceTenfold == 100000
minimumPrice == 10000

baseRates == [same_day |-> 15000, next_day |-> 10000, regular |-> 5000]
weightRates == [same_day |-> 1000, next_day |-> 800, regular |-> 500]
distanceTierRates ==
  [same_day |-> [tier1 |-> 8000, tier2 |-> 12000, tier3 |-> 15000],
   next_day |-> [tier1 |-> 6000, tier2 |-> 9000,  tier3 |-> 12000],
   regular  |-> [tier1 |-> 4000, tier2 |-> 6000,  tier3 |-> 8000]]

\* Math.ceil(n / unit)
BegunOnlyWhole(n, unit) == n \div unit
Begun(n, unit) == (n + unit - 1) \div unit

basePrice(p) == baseRates[p.deliveryType]

weightPrice(p) == Begun(p.weight, 1000) * weightRates[p.deliveryType]

distancePriceExtraOnly(p) ==
  LET rate == distanceTierRates[p.deliveryType] IN
  IF p.distance <= 50000 THEN rate.tier1
  ELSE IF p.distance <= 100000 THEN rate.tier1 + rate.tier2
  ELSE Begun(p.distance - 100000, 100000) * rate.tier3
distancePrice(p) ==
  LET rate == distanceTierRates[p.deliveryType] IN
  IF p.distance <= 50000 THEN rate.tier1
  ELSE IF p.distance <= 100000 THEN rate.tier1 + rate.tier2
  ELSE rate.tier3 + Begun(p.distance - 100000, 100000) * rate.tier3

AtLeast(minimum, price) == IF price < minimum THEN minimum ELSE price

totalPrice(p) ==
  AtLeast(minimumPrice, basePrice(p) + weightPrice(p) + distancePrice(p))

calculateShipmentCost(p) ==
  [totalPrice |-> totalPrice(p), basePrice |-> basePrice(p),
   weightPrice |-> weightPrice(p), distancePrice |-> distancePrice(p)]

NotPriced == [totalPrice |-> 0, basePrice |-> 0, weightPrice |-> 0, distancePrice |-> 0]

Offered == [distance : Distances, weight : Weights, deliveryType : DeliveryTypes]

CostInit ==
  /\ parcel \in Offered
  /\ charge = NotPriced

Price ==
  /\ charge = NotPriced
  /\ charge' = calculateShipmentCost(parcel)
  /\ UNCHANGED parcel

CostNext == Price

CostSpec == CostInit /\ [][CostNext]_costVars
---------------------------------------------------------------------------
\* The type invariant: prices are whole rupiah, and a charge is at least the
\* minimum price.
CostTypeOK ==
  /\ parcel \in Offered
  /\ charge = NotPriced \/ charge \in [totalPrice : {n \in Nat : n >= 10000},
                                      basePrice : Nat, weightPrice : Nat, distancePrice : Nat]

\* Across every boundary of the tiers, a parcel that is no farther and no
\* heavier is no dearer (shipments.service.ts:499-518).
NeverCheaper == charge # NotPriced =>
  \A p \in Offered :
    p.deliveryType = parcel.deliveryType /\ p.distance <= parcel.distance
      /\ p.weight <= parcel.weight => totalPrice(p) <= charge.totalPrice

\* A faster delivery of the same parcel costs more: no delivery type is billed
\* at the rate of a slower one (shipments.service.ts:466-494).
Faster == [same_day |-> "next_day", next_day |-> "regular"]
FasterCostsMore == charge # NotPriced /\ parcel.deliveryType # "regular" =>
  charge.totalPrice > totalPrice([parcel EXCEPT !.deliveryType = Faster[@]])

\* n whole units of size unit cover amount, and n - 1 do not.
Covers(n, unit, amount) == (n - 1) * unit < amount /\ amount <= n * unit

\* Beyond 100 km every begun block of 100 km is charged, the first included,
\* and every begun kilogram (shipments.service.ts:480-515).
BegunUnits == charge # NotPriced =>
  LET kilo  == weightRates[parcel.deliveryType]
      block == distanceTierRates[parcel.deliveryType].tier3
  IN /\ charge.weightPrice % kilo = 0
     /\ Covers(charge.weightPrice \div kilo, 1000, parcel.weight)
     /\ parcel.distance > 100000 =>
          /\ charge.distancePrice % block = 0
          /\ Covers(charge.distancePrice \div block, 100000, parcel.distance)

\* The total is the sum of its parts; the minimum price replaces it only for a
\* regular parcel of at most a kilogram going at most 50 km, and adds 500
\* rupiah (shipments.service.ts:517-528).
AddsUp == charge # NotPriced =>
  LET sum == charge.basePrice + charge.weightPrice + charge.distancePrice IN
  \/ charge.totalPrice = sum
  \/ /\ parcel.deliveryType = "regular"
     /\ parcel.weight <= 1000 /\ parcel.distance <= 50000
     /\ charge.totalPrice = sum + 500
=============================================================================
