-------------------------- MODULE HeatingReference --------------------------
(***************************************************************************)
(* Buildings for the check of HeatingStatement, and what its results must  *)
(* agree with, counted day by day, span by span and position by position.  *)
(***************************************************************************)
EXTENDS HeatingStatement

-----------------------------------------------------------------------------
(* A window of four days; unit 1 has a fifth of the area and may be        *)
(* estimated, unit 2 may not.                                              *)

HeatWindow == [from |-> 1, to |-> 5]

HeatedBy(t, u, from, to) == [tenancy |-> t, unit |-> u, from |-> from, to |-> to]

\* Changes of renter with and without a gap, and a day claimed twice.
HeatRentals ==
    {{HeatedBy(1, 1, 1, Forever), HeatedBy(3, 2, 0, 4)},
     {HeatedBy(1, 1, 0, 3), HeatedBy(2, 1, 3, 5), HeatedBy(3, 2, 0, Forever)},
     {HeatedBy(1, 1, 0, 2), HeatedBy(2, 1, 3, 5), HeatedBy(3, 2, 0, Forever)},
     {HeatedBy(3, 2, 0, 3), HeatedBy(4, 2, 3, 5)},
     {HeatedBy(1, 1, 0, 4), HeatedBy(2, 1, 3, 5)}}

Read(value, tenancy, moved, estimated) ==
    [value |-> value, tenancy |-> tenancy, moved |-> moved, estimated |-> estimated]

Yearly(opening, closing) == <<Read(opening, NoOne, FALSE, NoValue), Read(closing, NoOne, FALSE, NoValue)>>

\* An interim reading: a names the renter before, b the renter after it.
Interim(a, b) ==
    <<Read(1, NoOne, FALSE, NoValue), Read(6, a, TRUE, NoValue), Read(9, b, FALSE, NoValue)>>

Device(id, u, factor, rows) == [id |-> id, unit |-> u, factor |-> factor, rows |-> rows]

SmallDevices ==
    {{}, {Device(1, 1, 15, Yearly(2, 9))}, {Device(1, 1, 10, Interim(1, 2))},
     {Device(1, 1, 10, Interim(NoOne, 2))}, {Device(1, 1, 10, Interim(1, NoOne))},
     {Device(1, 1, 10, Yearly(4, 3))}, {Device(1, 1, 10, Yearly(4, 4))},
     {Device(1, 1, 10, Yearly(0, 6)), Device(2, 1, 15, Yearly(1, 4))},
     {Device(1, 1, 10, <<Read(5, NoOne, FALSE, NoValue), Read(1, NoOne, FALSE, 8)>>)}}

LargeDevices ==
    {{}, {Device(3, 2, 10, Yearly(0, 11))}, {Device(3, 2, 10, Yearly(7, 7))},
     {Device(3, 2, 10, Interim(3, 4))}, {Device(3, 2, 10, <<Read(3, NoOne, FALSE, NoValue)>>)}}

Invoice(id, amount, from, to, mass, co2) ==
    [id |-> id, amount |-> amount, from |-> from, to |-> to, mass |-> mass, co2 |-> co2]

Invoices ==
    {{Invoice(1, 101, 1, 5, 0, 0)}, {Invoice(1, 97, 1, 5, 5, 31), Invoice(2, 50, 3, 7, 4, 10)},
     {Invoice(1, 60, 0, 4, 12, 7)}, {Invoice(1, 60, 5, 9, 0, 0)}}

\* Plants: none stated, a protected building, a heat pump, a shop without proof.
Plants ==
    {NoPlant, [NoPlant EXCEPT !.given = TRUE, !.protected = TRUE],
     [NoPlant EXCEPT !.given = TRUE, !.off = TRUE],
     [NoPlant EXCEPT !.given = TRUE, !.commercial = TRUE, !.proofs = FALSE]}

\* Warm water: none, metered, with a gap, with a missing reading, unmetered.
WaterFacts ==
    {[central |-> FALSE, volume |-> NoValue, water |-> <<NoValue, NoValue>>],
     [central |-> TRUE, volume |-> 6, water |-> <<2, 4>>],
     [central |-> TRUE, volume |-> 6, water |-> <<1, 3>>],
     [central |-> TRUE, volume |-> 6, water |-> <<NoValue, 4>>],
     [central |-> TRUE, volume |-> 4, water |-> <<NoValue, 4>>],
     [central |-> TRUE, volume |-> 6, water |-> <<2, NoValue>>],
     [central |-> TRUE, volume |-> NoValue, water |-> <<2, 4>>]}

\* Intensities below one and below two, and above.
StepsOfLaw == <<[below |-> 10, percent |-> 0], [below |-> 20, percent |-> 35],
                [below |-> 0, percent |-> 95]>>

Building(rentals, devices, invoices, w, plant, year) ==
    [window |-> HeatWindow, area |-> <<1, 4>>, tenancies |-> rentals, year |-> year,
     warmth |-> <<5, 1, 3, 2>>, invoices |-> invoices, devices |-> devices, energy |-> 60,
     central |-> w.central, volume |-> w.volume, water |-> w.water, perVolume |-> 4,
     perArea |-> 3, share |-> 7, bounds |-> 5 .. 7, plant |-> plant, steps |-> StepsOfLaw,
     mode |-> [kind |-> "none", statement |-> 0], mdl |-> <<>>]

OwnBills ==
    {Building(r, a \cup b, i, w, NoPlant, 4) :
        r \in HeatRentals, a \in SmallDevices, b \in LargeDevices,
        i \in {x \in Invoices : Cardinality(x) = 2}, w \in WaterFacts}
    \cup {Building(r, a \cup b, i, w, plant, year) :
        r \in {x \in HeatRentals : Cardinality(x) = 3},
        a \in {{Device(1, 1, 10, Yearly(0, 6))}}, b \in {{Device(3, 2, 10, Yearly(0, 11))}},
        i \in Invoices, w \in WaterFacts, plant \in Plants, year \in {3, 4, 6}}

Confirmed(gross, a, b, owner, total, stated) ==
    [gross |-> gross, position |-> <<a, b>>, owner |-> owner, total |-> total,
     stated |-> stated, mass |-> 9, co2 |-> 21]

\* Positions that add up, that miss the total by a rounding, and by more.
PassedBills ==
    {[Building(r, {}, {}, w, NoPlant, 4) EXCEPT !.mode = mode, !.mdl = <<first, second>>] :
        r \in {x \in HeatRentals : Cardinality(x) = 3},
        w \in {x \in WaterFacts : ~x.central},
        mode \in [kind : {"none", "lokara", "pending"}, statement : {0}]
                   \cup [kind : {"taken"}, statement : {1, 2}],
        first \in {Confirmed(FALSE, 30, 50, 20, 100, FALSE), Confirmed(FALSE, 30, 50, 18, 94, FALSE)},
        second \in {Confirmed(TRUE, 33, 50, owner, total, stated) :
                       owner \in {0, 17}, total \in {0, 3, 81, 97, 100}, stated \in BOOLEAN}}

HeatingCalls == [kind : {"heating"}, facts : OwnBills \cup PassedBills]

ReductionCalls ==
    [kind : {"reduction"}, grounds : SUBSET {"unmetered", "remote", "information"},
     claims : [1 .. 1 -> [gross : 0 .. 60, base : {-1, 0, 3, 10, 30, 45, 60}]]]

-----------------------------------------------------------------------------
(* Half a unit to each side: n/d is x, rounded.                            *)
Rounds(x, n, d) == 2 * (x * d - n) <= d /\ 2 * (n - x * d) <= d

DaysHeld(s, u, t) ==
    {d \in DaysOf(s.window) : \E r \in s.tenancies : r.unit = u /\ r.tenancy = t /\ d \in DaysOf(r)}

DaysEmpty(s, u) ==
    {d \in DaysOf(s.window) : \A r \in s.tenancies : r.unit = u => d \notin DaysOf(r)}

DaysOfParty(s, p) ==
    IF p.tenancy = NoOne THEN DaysEmpty(s, p.unit) ELSE DaysHeld(s, p.unit, p.tenancy)

WarmthOn(s, days) == SumOf([d \in days |-> s.warmth[d]])

\* What the meters of a unit counted, and what they counted for one party.
Counted(s, u, named) ==
    SumOf([x \in {y \in Spans(s) : y[1].unit = u /\ (named => ~Annual(y))} |-> SpanHeat(x)])

CountedFor(s, u, t) ==
    SumOf([x \in {y \in Spans(s) : y[1].unit = u /\ ~Annual(y) /\ Closing(y).tenancy = t}
              |-> SpanHeat(x)])

NamedUnits(s) == {u \in DOMAIN s.area : \E x \in Spans(s) : x[1].unit = u /\ ~Annual(x)}

ReadUnits(s) == {u \in DOMAIN s.area : \E x \in Spans(s) : x[1].unit = u} \ NamedUnits(s)

\* The exact share of a weight in a pot.
Shares(block, weight, whole) ==
    \A p \in DOMAIN block.share :
        IF whole = 0 THEN block.share[p] = 0 ELSE Rounds(block.share[p], block.pot * weight[p], whole)

(***************************************************************************)
(* The weights of the heating consumption: a party with interim readings   *)
(* has what was counted for it; a unit read once is divided by degree days *)
(* and loses nothing, its renters' parts rounded to the last digit.        *)
(***************************************************************************)
WeightsByUse(s, w) ==
    LET scale == SumOf([u \in {x[1].unit : x \in {y \in Spans(s) : Annual(y)}} |-> s.area[u]])
    IN  /\ \A p \in DOMAIN w : p.unit \in NamedUnits(s) =>
               w[p] = scale * CountedFor(s, p.unit, p.tenancy)
        /\ \A u \in ReadUnits(s) :
               SumOf([p \in {x \in DOMAIN w : x.unit = u} |-> w[p]])
                   = scale * Counted(s, u, FALSE)
        /\ \A p \in DOMAIN w : p.unit \in ReadUnits(s) /\ p.tenancy # NoOne =>
               2 * (w[p] * WarmthOn(s, DaysOf(s.window))
                    - scale * Counted(s, p.unit, FALSE) * WarmthOn(s, DaysOfParty(s, p)))
               \in -scale * WarmthOn(s, DaysOf(s.window)) .. scale * WarmthOn(s, DaysOf(s.window))

AreaDaysOf(s, p) == s.area[p.unit] * Cardinality(DaysOfParty(s, p))

WholeArea(s) == SumOf(s.area) * Cardinality(DaysOf(s.window))

\* The step of the law whose interval has the intensity, without rounding it:
\* a step ends half a tenth below its bound.
LawfulPercent(s, mass) ==
    LET year == IF Cardinality(DaysOf(s.window)) = s.year THEN 1 ELSE s.year
        days == IF Cardinality(DaysOf(s.window)) = s.year THEN 1 ELSE Cardinality(DaysOf(s.window))
        under(i) == i = Len(s.steps)
                    \/ 20 * mass * year < (2 * s.steps[i].below - 1) * SumOf(s.area) * days
    IN  s.steps[CHOOSE i \in DOMAIN s.steps : under(i) /\ \A j \in 1 .. i - 1 : ~under(j)].percent

OwnBillAgrees(s, r) ==
    LET total == SumOf([i \in DOMAIN r.blocks |-> SumOf(r.blocks[i].share) + r.blocks[i].owner])
                 + r.landlord
        met == {i \in s.invoices : DaysOf(i) \cap DaysOf(s.window) # {}}
        exact == SumOf([i \in met |-> i.amount * Cardinality(DaysOf(i) \cap DaysOf(s.window))])
        area == [p \in DOMAIN r.weight |-> AreaDaysOf(s, p)]
        dry == {u \in DOMAIN s.area : s.water[u] = NoValue}
        onlyArea == r.byArea
                    /\ (~s.central \/ 4 * SumOf([u \in dry |-> s.area[u]]) > SumOf(s.area))
    IN  /\ 2 * (4 * total - exact) \in -4 * Cardinality(met) .. 4 * Cardinality(met)
        /\ \A i \in DOMAIN r.blocks :
               SumOf(r.blocks[i].share) + r.blocks[i].owner = r.blocks[i].pot
        /\ IF onlyArea
           THEN \A p \in DOMAIN r.blocks[1].share :
                   Rounds(SumOf([i \in 1 .. 4 |-> r.blocks[i].share[p]]),
                          r.billable * area[p], WholeArea(s))
           ELSE /\ Shares(r.blocks[1], area, WholeArea(s)) /\ Shares(r.blocks[3], area, WholeArea(s))
                /\ ~r.byArea => WeightsByUse(s, r.weight)
                /\ Shares(r.blocks[2], r.weight, SumOf(r.weight))
        /\ s.plant = NoPlant =>
               LET co2 == SumOf([i \in met |-> i.co2])
                   mass == SumOf([i \in met |-> i.mass])
               IN  r.landlord = IF co2 = 0 THEN 0
                                ELSE HalfUp(co2 * LawfulPercent(s, mass), 100)

\* Metered warm water by days, the owner with what the flats do not show.
WaterAgrees(s, r) ==
    s.central /\ s.volume # NoValue /\ (\A u \in DOMAIN s.area : s.water[u] # NoValue) =>
        Shares(r.blocks[4],
               [p \in DOMAIN r.weight |-> s.water[p.unit] * Cardinality(DaysOfParty(s, p))],
               s.volume * Cardinality(DaysOf(s.window)))

\* Every renter pays the confirmed position, or its share of what is billable.
PassedOnAgrees(s, r) ==
    LET m == s.mdl[IF s.mode.kind = "taken" THEN s.mode.statement ELSE Len(s.mdl)]
        co2 == IF m.gross THEN HalfUp(m.co2 * LawfulPercent(s, m.mass), 100) ELSE 0
    IN  /\ r.billable = m.total - co2
        /\ SumOf(r.share) + r.owner = r.billable
        /\ \A t \in DOMAIN r.share : Rounds(r.share[t], m.position[t] * r.billable, m.total)

\* The grounds side by side, less what rounding takes beyond the cap.
ReductionAgrees(c, r) ==
    \A t \in DOMAIN c.claims :
        LET claim == c.claims[t]
            percent == (IF "remote" \in c.grounds THEN 3 ELSE 0)
                       + (IF "information" \in c.grounds THEN 3 ELSE 0)
            exact == percent * claim.gross
                     + (IF "unmetered" \in c.grounds THEN 15 * claim.base ELSE 0)
            deducted == claim.gross - r.net[t]
        IN  /\ 2 * (100 * deducted - exact) \in -300 .. 300
            /\ 2 * 100 * deducted <= 2 * 21 * claim.gross + 100
            /\ r.net[t] >= 0

HeatingAgrees(c, r) ==
    CASE r.kind = "heat" -> OwnBillAgrees(c.facts, r) /\ WaterAgrees(c.facts, r)
      [] r.kind = "mdl" -> PassedOnAgrees(c.facts, r)
      [] r.kind = "net" -> ReductionAgrees(c, r)
      [] OTHER -> TRUE

\* Every unit has been read over the whole period, by device or by interim
\* readings, so that nothing has to be estimated.
AllRead(s) == \A u \in DOMAIN s.area : \E x \in Spans(s) : x[1].unit = u
=============================================================================
