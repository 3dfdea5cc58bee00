------------------------- MODULE HeatingAllocation -------------------------
(***************************************************************************)
(* The heating engine (packages/heating-engine: engine.py, co2.py,         *)
(* degree_days.py): one amount for a building, less the owner's part of    *)
(* the CO2 cost, is divided into warm water and heating, each of these     *)
(* into a base and a consumption pot, and every pot between the renters by *)
(* area and days or by what was metered; the owner has the rest.           *)
(*                                                                         *)
(* `f` is the engine's input:                                              *)
(*   window, area, tenancies   as in CostAllocation                        *)
(*   year                      days of a full year; a longer period is     *)
(*                             refused                                     *)
(*   warmth                    degree days of each day, positive           *)
(*   cost, energy              cents, and the kWh of the whole system      *)
(*   heat, water               reading per unit, NoValue if it is missing; *)
(*                             heat in tenths, the device's last digit     *)
(*   segments                  rows [unit, tenancy, heat] of interim       *)
(*                             readings, NoOne for the owner               *)
(*   central                   whether warm water is made centrally        *)
(*   volume                    of the warm water, NoValue if not metered   *)
(*   perVolume, perArea        kWh of a unit of warm water, and of a unit  *)
(*                             of area in a year                           *)
(*   share, bounds             tenths that follow consumption, and what    *)
(*                             the law permits                             *)
(*   co2                       [mass, cost], zero if not stated            *)
(*   plant                     [given, off, commercial, protected,         *)
(*                             excluded, proofs] of the heating plant      *)
(*   steps                     the Anlage's steps [below, percent] in      *)
(*                             order, the last without an upper bound      *)
(***************************************************************************)
EXTENDS CostAllocation

TotalArea(f) == SumOf(f.area)

PeriodDays(f) == f.window.to - f.window.from

-----------------------------------------------------------------------------
(* Who takes part: per unit its renters and, for all empty days, the owner. *)

\* degree_day_weight()
Warmth(f, spans) == MapThenSumSet(LAMBDA d : f.warmth[d], UNION {DaysOf(s) : s \in spans})

PartyOf(f, u, t, spans) ==
    [unit |-> u, tenancy |-> t, days |-> SumOf([s \in spans |-> s.to - s.from]),
     warmth |-> Warmth(f, spans)]

\* _build_parties()
HeatParties(f) ==
    UNION {LET q == TimelineOf(f, u)
               empty == Vacancies(q, f.window)
           IN  {PartyOf(f, u, q[i].tenancy, {q[i]}) : i \in DOMAIN q}
                 \cup (IF empty = {} THEN {} ELSE {PartyOf(f, u, NoOne, empty)}) :
           u \in DOMAIN f.area}

IsRenter(p) == p.tenancy # NoOne

-----------------------------------------------------------------------------
(* Weights, a function from the parties to integers of one scale.          *)

AreaDays(f) == [p \in HeatParties(f) |-> f.area[p.unit] * p.days]

MissingArea(f, reading) ==
    SumOf([u \in {x \in DOMAIN f.area : reading[x] = NoValue} |-> f.area[u]])

MeteredArea(f, reading) == TotalArea(f) - MissingArea(f, reading)

\* _resolve_readings(): more than a quarter of the area without a reading.
FallsBackToArea(f, reading) == 4 * MissingArea(f, reading) > TotalArea(f)

\* What a unit used, measured or estimated by area, times the metered area.
Resolved(f, reading) ==
    LET sum == SumOf([u \in {x \in DOMAIN f.area : reading[x] # NoValue} |-> reading[u]])
    IN  [u \in DOMAIN f.area |->
            IF reading[u] # NoValue THEN reading[u] * MeteredArea(f, reading)
            ELSE sum * f.area[u]]

Siblings(f, p) == {x \in HeatParties(f) : x.unit = p.unit}

Segmented(f) == {s.unit : s \in f.segments}

\* Interim readings count as they are, in place of the unit's annual reading.
SegmentOf(f, p) ==
    SumOf([s \in {x \in f.segments : x.unit = p.unit /\ x.tenancy = p.tenancy} |-> s.heat])

\* Mutant: every party is rounded, the owner too.
ByWarmthRoundedForAll(f, p) ==
    LET scale == MeteredArea(f, f.heat)
    IN  HalfUp(Resolved(f, f.heat)[p.unit] * p.warmth,
               scale * SumOf([x \in Siblings(f, p) |-> x.warmth])) * scale

(***************************************************************************)
(* A reading of several parties goes by their degree days. A renter's part *)
(* is rounded to the device's digit, and the owner's is what is left of    *)
(* the reading.                                                            *)
(***************************************************************************)
ByWarmth(f, p) ==
    LET scale == MeteredArea(f, f.heat)
        part(x) == HalfUp(Resolved(f, f.heat)[p.unit] * x.warmth,
                          scale * SumOf([y \in Siblings(f, p) |-> y.warmth])) * scale
    IN  IF IsRenter(p) THEN part(p)
        ELSE Resolved(f, f.heat)[p.unit]
             - SumOf([x \in {y \in Siblings(f, p) : IsRenter(y)} |-> part(x)])

\* _consumption_weights() for heat.
HeatWeights(f) ==
    [p \in HeatParties(f) |->
        IF p.unit \in Segmented(f) THEN SegmentOf(f, p) * MeteredArea(f, f.heat)
        ELSE IF Cardinality(Siblings(f, p)) = 1 THEN Resolved(f, f.heat)[p.unit]
        ELSE ByWarmth(f, p)]

\* _consumption_weights() for warm water: by days, in units of one day.
WaterWeights(f) == [p \in HeatParties(f) |-> Resolved(f, f.water)[p.unit] * p.days]

\* The central meter is the denominator: what the units do not show is the
\* owner's, and below zero if estimates exceed the meter.
Unmetered(f) ==
    IF f.volume = NoValue THEN 0
    ELSE f.volume * MeteredArea(f, f.water) * PeriodDays(f) - SumOf(WaterWeights(f))

-----------------------------------------------------------------------------
(* Pots.                                                                   *)

\* split_co2_cost(), _select_step(): the intensity of a full year, rounded to
\* a tenth, decides on the percentage.
Intensity(f) ==
    HalfUp(10 * f.co2.mass * (IF PeriodDays(f) = f.year THEN 1 ELSE f.year),
           TotalArea(f) * (IF PeriodDays(f) = f.year THEN 1 ELSE PeriodDays(f)))

StepFor(f, intensity) ==
    f.steps[CHOOSE i \in DOMAIN f.steps :
               /\ i = Len(f.steps) \/ intensity < f.steps[i].below
               /\ \A j \in 1 .. i - 1 : intensity >= f.steps[j].below]

\* evaluate_plant_co2(): the landlord's share in half percents. A heat pump or
\* biomass has none, a commercial building has half, protection halves it.
LandlordShare(f, percent) ==
    IF f.plant.off \/ f.plant.excluded THEN 0
    ELSE (IF f.plant.commercial THEN 100 ELSE 2 * percent)
         \div (IF f.plant.protected THEN 2 ELSE 1)

LandlordCo2(f) ==
    IF f.co2.cost = 0 THEN 0
    ELSE LET share == LandlordShare(f, StepFor(f, Intensity(f)).percent)
         IN  Portion(f.co2.cost, share, 200 - share)

Billable(f) == f.cost - LandlordCo2(f)

\* _separate_warm_water(): the kWh of the warm water, times a year's days.
WaterEnergy(f) ==
    IF f.volume # NoValue THEN f.perVolume * f.volume * f.year
    ELSE f.perArea * TotalArea(f) * PeriodDays(f)

WaterPot(f) ==
    IF ~f.central THEN 0
    ELSE Portion(Billable(f), WaterEnergy(f), f.energy * f.year - WaterEnergy(f))

\* A pot divided into base and consumption.
BasePot(f, pot) == Portion(pot, 10 - f.share, f.share)

-----------------------------------------------------------------------------
(* Blocks: what each renter and the owner carry of one pot.                *)

OwnersOf(weight) == SumOf([p \in {x \in DOMAIN weight : ~IsRenter(x)} |-> weight[p]])

RentersOf(weight) == [p \in {x \in DOMAIN weight : IsRenter(x)} |-> weight[p]]

\* _allocate_to_parties()
Block(pot, weight, unmetered) ==
    LET share == RenterShares(pot, RentersOf(weight), OwnersOf(weight) + unmetered)
    IN  [pot |-> pot, share |-> share, owner |-> OwnerResidual(pot, share)]

\* The money primitive refuses a weight below zero, for the renters' shares
\* and for the owner's origins.
Negative(weight, unmetered) ==
    \/ \E p \in DOMAIN weight : weight[p] < 0
    \/ OwnersOf(weight) + unmetered < 0
    \/ SumOf(RentersOf(weight)) + unmetered < 0

HeatByArea(f) == FallsBackToArea(f, f.heat)

WaterByArea(f) == FallsBackToArea(f, f.water)

Blocks(f) ==
    LET area == AreaDays(f)
        water == WaterPot(f)
        heating == Billable(f) - water
    IN  <<Block(BasePot(f, heating), area, 0),
          Block(heating - BasePot(f, heating), IF HeatByArea(f) THEN area ELSE HeatWeights(f), 0),
          Block(BasePot(f, water), area, 0),
          IF WaterByArea(f) \/ ~f.central THEN Block(water - BasePot(f, water), area, 0)
          ELSE Block(water - BasePot(f, water), WaterWeights(f), Unmetered(f))>>

(***************************************************************************)
(* _reconcile_all_area_blocks_to_single_allocation(): with area for every  *)
(* pot a renter owes one rounding of the whole, and the last pot that is   *)
(* not empty takes the difference.                                         *)
(***************************************************************************)
Reconciled(f, blocks) ==
    LET last == CHOOSE i \in DOMAIN blocks :
                   /\ blocks[i].pot # 0 \/ (i = 4 /\ \A j \in DOMAIN blocks : blocks[j].pot = 0)
                   /\ \A j \in i + 1 .. 4 : blocks[j].pot = 0
        whole == Block(Billable(f), AreaDays(f), 0)
        others(p) == SumOf([i \in DOMAIN blocks \ {last} |-> blocks[i].share[p]])
        share == [p \in DOMAIN whole.share |-> whole.share[p] - others(p)]
    IN  [blocks EXCEPT ![last].share = share,
                       ![last].owner = OwnerResidual(blocks[last].pot, share)]

-----------------------------------------------------------------------------

MeteredWater(f) ==
    SumOf([u \in {x \in DOMAIN f.area : f.water[x] # NoValue} |-> f.water[u]])

\* _validate(), and what the steps themselves refuse.
HeatRefused(f) ==
    \/ f.share \notin f.bounds
    \/ \E u \in DOMAIN f.area : DoublyClaimed(TimelineOf(f, u))
    \/ \E s \in f.segments :
          \A p \in HeatParties(f) : p.unit # s.unit \/ p.tenancy # s.tenancy
    \/ f.co2.cost # 0 /\ PeriodDays(f) > f.year
    \/ f.plant.given /\ (~f.plant.proofs \/ (~f.plant.off /\ f.co2.cost = 0))
    \/ f.central /\ (WaterEnergy(f) <= 0 \/ WaterEnergy(f) >= f.energy * f.year)
    \/ /\ f.central /\ f.volume # NoValue
       /\ MeteredWater(f) > f.volume
    \/ ~HeatByArea(f) /\ Negative(HeatWeights(f), 0)
    \/ /\ f.central /\ ~WaterByArea(f)
       /\ Negative(WaterWeights(f), Unmetered(f))

\* calculate_heating_statement()
Heat(f) ==
    IF HeatRefused(f) THEN [kind |-> "raised"]
    ELSE [kind |-> "heat", landlord |-> LandlordCo2(f), billable |-> Billable(f),
          byArea |-> HeatByArea(f),
          weight |-> IF HeatByArea(f) THEN AreaDays(f) ELSE HeatWeights(f),
          blocks |-> IF HeatByArea(f) /\ (~f.central \/ WaterByArea(f))
                     THEN Reconciled(f, Blocks(f)) ELSE Blocks(f)]
=============================================================================
