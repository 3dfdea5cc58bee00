---------------------------- MODULE Depreciation ----------------------------
(***************************************************************************)
(* Depreciation of a building (packages/afa-engine, and _afa_result() of   *)
(* apps/api: routers/tax.py, which calls the engine once per question).    *)
(* The engine is handed normalised facts, a record whose fields say what   *)
(* is asked; Calculate answers with values or blocks. Money is in cents,   *)
(* rates in basis points, every amount is rounded half up once. A record   *)
(* is refused with 422, or fails with an exception nothing catches.        *)
(***************************************************************************)
EXTENDS Calendar, Cents, Sequences, TLC

Unknown == -1  \* a fact that is null

\* The rates by year of completion, the limit of near-acquisition costs and
\* of a market discount, all valid from 2023.
Rates == <<[to |-> 1924, bp |-> 250], [to |-> 2022, bp |-> 200], [to |-> 9999, bp |-> 300]>>

GuardRate == 1500

DiscountLimit == 500

RulesFrom == 2023

RateOf(year) ==
    Rates[CHOOSE i \in DOMAIN Rates :
             year <= Rates[i].to /\ \A j \in 1 .. i - 1 : year > Rates[j].to].bp

Block == [kind |-> "block"]

Failed == [kind |-> "failed"]

YearShare(basis, bp) == HalfUp(basis * bp, 10000)

PartYear(amount, months) == HalfUp(amount * months, 12)

-----------------------------------------------------------------------------
(* The answers of the engine.                                              *)

Purchase(f) ==
    [kind |-> "purchase",
     total |-> f.kaufpreis_cents - f.movable_assets_cents + SumOf(f.ancillary_cents),
     financing |-> f.grundschuld_notar_cents]

\* The purchase with a stated fraction: what financing costs in the basis
\* would have changed.
PurchaseCompared(f) ==
    LET p == Purchase(f)
        part(total) == HalfUp(total * f.bmf_building_value_cents, f.bmf_property_value_cents)
        annual(total) == YearShare(part(total), RateOf(f.year_built))
    IN  [kind |-> "compared", total |-> p.total, financing |-> p.financing,
         building |-> part(p.total), land |-> p.total - part(p.total), annual |-> annual(p.total),
         delta |-> p.financing - (annual(p.total + p.financing) - annual(p.total))]

\* The building's part of a cost by the ministry's procedure.
ByProcedure(f, cost) ==
    LET land == f.land_area_sqm * f.land_value_cents_per_sqm
        gross == HalfUp(f.living_area * (IF f.building_type = "mfh" THEN 135 ELSE 125), 100)
        normal == HalfUp(gross * HalfUp(f.nhk_cents * f.price_index_bp, 10000), 100)
        age == Max({0, f.valuation_year - f.year_built})
        left == Max({f.minimum_residual_bp,
                     HalfUp(Max({0, f.useful_life_years - age}) * 10000, f.useful_life_years)})
        value == HalfUp(normal * left, 10000)
        building == HalfUp(cost * value, value + land)
    IN  IF value + land <= 0 THEN Block
        ELSE [kind |-> "split", building |-> building, land |-> cost - building,
              annual |-> YearShare(building, RateOf(f.year_built))]

ByShare(f) ==
    LET building == HalfUp(f.acquisition_cost_cents * f.contract_building_share_bp, 10000)
    IN  [kind |-> "split", building |-> building,
         land |-> f.acquisition_cost_cents - building,
         annual |-> YearShare(building, RateOf(f.year_built))]

\* A contract's split against the procedure's: what it changes in a year.
Contracted(f) ==
    LET annual(amount) == YearShare(amount, RateOf(f.year_built))
    IN  [kind |-> "contracted", building |-> f.contract_building_cents,
         delta |-> annual(f.contract_building_cents) - annual(f.comparison_bmf_building_cents)]

\* An annuity loan month by month; a special repayment comes before the
\* interest of its month.
Special(f, n, at) ==
    IF n = at /\ n <= f.installment_count THEN f.special_repayment_cents ELSE 0

Loan(f, at) ==
    LET annuity == HalfUp(f.nominal_cents * (f.interest_bp + f.initial_repayment_bp), 120000)
        interest(owed) == HalfUp(owed * f.interest_bp, 120000)
        owed[n \in 1 .. f.installment_count + 1] ==
            IF n = 1 THEN f.nominal_cents - Special(f, 1, at)
            ELSE owed[n - 1] - (annuity - interest(owed[n - 1])) - Special(f, n, at)
        month == 1 .. f.installment_count
    IN  IF \E n \in month : annuity - interest(owed[n]) <= 0 THEN Block
        ELSE [kind |-> "loan", annuity |-> annuity,
              interest |-> SumOf([n \in month |-> interest(owed[n])]),
              repayment |-> SumOf([n \in month |-> annuity - interest(owed[n])]),
              closing |-> owed[f.installment_count + 1]]

LoanWithSpecial(f) ==
    LET with == Loan(f, f.special_repayment_before_installment)
        without == Loan(f, Unknown)
    IN  IF Block \in {with, without} THEN Failed
        ELSE with @@ [saving |-> without.interest - with.interest,
                      total |-> with.repayment + f.special_repayment_cents]

\* A discount: at once if it is the market's, else over the fixed interest.
Discount(f) ==
    LET annual == HalfUp(f.non_market_disagio_cents, f.fixed_interest_years)
        first == PartYear(annual, f.first_year_months)
    IN  IF f.market_disagio_cents > YearShare(f.nominal_cents, DiscountLimit) THEN Block
        ELSE IF f.fixed_interest_years = 0 THEN Failed
        ELSE [kind |-> "discount", market |-> f.market_disagio_cents, first |-> first, annual |-> annual,
              last |-> f.non_market_disagio_cents - first - annual * (f.fixed_interest_years - 1)]

Continued(f) ==
    LET annual == YearShare(f.predecessor_basis_cents, f.rate_bp)
        before == PartYear(annual, f.predecessor_months)
    IN  [kind |-> "continued", annual |-> annual, predecessor |-> before, successor |-> annual - before,
         opening |-> f.predecessor_basis_cents - f.predecessor_accumulated_afa_cents]

ByReport(f) ==
    LET annual == HalfUp(f.building_basis_cents, f.remaining_life_years)
    IN  IF f.report_qualification \notin {"oebuv", "zertifiziert"} THEN Block
        ELSE IF f.remaining_life_years = 0 THEN Failed
        ELSE [kind |-> "report", annual |-> annual,
              last |-> f.building_basis_cents - annual * f.remaining_life_years]

\* The part of a year's amount that falls on rented area.
Deductible(f) ==
    LET part == HalfUp(f.annual_afa_cents * f.rented_area_months, f.total_area_months)
    IN  [kind |-> "use", deductible |-> part, private |-> f.annual_afa_cents - part]

\* A year, and its part from the month of the transfer on.
FullYear(f) ==
    LET annual == YearShare(f.building_basis_cents, RateOf(f.year_built))
    IN  [kind |-> "year", annual |-> annual,
         first |-> PartYear(annual, 13 - f.relevant_date.m)]

SaleYear(f) ==
    LET amount == PartYear(YearShare(f.building_basis_cents, RateOf(f.year_built)), f.sale_date.m)
    IN  [kind |-> "sale", amount |-> amount, closing |-> f.opening_book_value_cents - amount]

\* The whole series: a first part, full years, and what is left.
Series(f) ==
    LET annual == YearShare(f.building_basis_cents, RateOf(f.year_built))
        first == PartYear(annual, 13 - f.transfer_date.m)
        rest == f.building_basis_cents - first
    IN  [kind |-> "series", first |-> first, annual |-> annual, years |-> rest \div annual,
         last |-> rest % annual, end |-> f.series_start_year + rest \div annual + 1]

LaterCost(f) ==
    LET basis == f.building_basis_cents + f.later_production_cost_cents
    IN  [kind |-> "raised", basis |-> basis, annual |-> YearShare(basis, f.rate_bp),
         closing |-> f.opening_book_value_cents + f.later_production_cost_cents
                         - YearShare(basis, f.rate_bp)]

\* Near-acquisition costs: at most GuardRate of the building within three
\* years of the transfer, by the day the work ended.
GuardLimit(f) == YearShare(f.building_basis_cents, GuardRate)

WindowEnd(f) == Date(f.transfer_date.y + 3, f.transfer_date.m, f.transfer_date.d)

Sum(q) == SumOf([i \in DOMAIN q |-> q[i].net_cents])

\* Mutant: a work counts by its order, not by the day it ended.
InsideOfAll(f) == f.measures

Inside(f) == SelectSeq(f.measures, LAMBDA x : Before(x.leistung_bis, WindowEnd(f)))

Measures(f) ==
    LET classes == {f.measures[i].class : i \in DOMAIN f.measures}
        sum == Sum(Inside(f)) + f.previous_counted_cents
    IN  IF f.measures # <<>> /\ "class" \in DOMAIN f.measures[1]
        THEN CASE classes = {"erweiterung"} ->
                    [kind |-> "later", later |-> Sum(f.measures), counted |-> f.previous_counted_cents]
               [] classes = {"jaehrlichUeblich"} ->
                    [kind |-> "usual", later |-> 0, counted |-> f.previous_counted_cents]
               [] OTHER -> Failed
        \* replace(year=...) has no 29 February three years on.
        ELSE IF f.transfer_date.m = 2 /\ f.transfer_date.d = 29 THEN Failed
        ELSE [kind |-> "counted", counted |-> sum, buffer |-> GuardLimit(f) - sum]

GuardStatus(f) ==
    LET sum == SumOf(f.counted_measure_cents)
    IN  [kind |-> "guard", counted |-> sum, buffer |-> GuardLimit(f) - sum,
         status |-> IF sum * 10 >= GuardLimit(f) * 8 THEN "warning" ELSE "ok"]

\* The limit is exceeded: every counted work joins the basis in its year.
Reclassified(f) ==
    LET m == f.counted_measures_by_year
        basis(i) == f.building_basis_cents
                        + SumOf([j \in 1 .. i |-> m[j].net_cents])
        year(i, b) == LET whole == YearShare(b, f.rate_bp)
                      IN  IF i = 1 THEN PartYear(whole, 10) ELSE whole
    IN  [kind |-> "reclassified", counted |-> Sum(m), limit |-> GuardLimit(f),
         basis |-> [i \in DOMAIN m |-> basis(i)],
         delta |-> [i \in DOMAIN m |-> year(i, basis(i)) - year(i, f.building_basis_cents)]]

InterestShare(f) ==
    LET part == HalfUp(f.interest_cents * f.rented_area_months, f.total_area_months)
    IN  [kind |-> "use", deductible |-> part, private |-> f.interest_cents - part]

-----------------------------------------------------------------------------
(* Which question a record asks: the first that its keys answer.           *)

Calculate(f) ==
    LET has(k) == k \in DOMAIN f
        missing(k) == has(k) /\ f[k] = Unknown
        route == IF has("allocation_route") THEN f.allocation_route ELSE "none"
    IN  CASE route = "gutachten" /\ (~has("report_building_share_bp") \/ missing("report_building_share_bp"))
                -> [kind |-> "incomplete"]
          [] route = "bmf" /\ ~has("land_value_cents_per_sqm") -> [kind |-> "incomplete"]
          [] \/ route = "bmf" /\ missing("land_value_cents_per_sqm")
             \/ has("self_use_periods") \/ missing("year_built")
             \/ has("notary_date") /\ ~has("transfer_date")
                -> Block
          [] has("predecessor_basis_cents") -> Continued(f)
          [] has("remaining_life_years") -> ByReport(f)
          [] has("nominal_cents") /\ has("interest_bp") ->
                IF has("special_repayment_cents") THEN LoanWithSpecial(f) ELSE Loan(f, Unknown)
          [] has("market_disagio_cents") -> Discount(f)
          [] has("interest_cents") -> InterestShare(f)
          [] has("counted_measures_by_year") -> Reclassified(f)
          [] has("measures") -> Measures(f)
          [] has("counted_measure_cents") -> GuardStatus(f)
          [] has("later_production_cost_cents") -> LaterCost(f)
          [] has("contract_building_cents") -> Contracted(f)
          [] route = "contract" -> ByShare(f)
          [] has("kaufpreis_cents") ->
                IF has("bmf_building_value_cents") THEN PurchaseCompared(f) ELSE Purchase(f)
          [] route = "bmf" ->
                ByProcedure(f, IF has("purchase_price_cents")
                               THEN f.purchase_price_cents - f.movable_assets_cents + f.ancillary_cost_cents
                               ELSE f.acquisition_cost_cents)
          [] has("series_start_year") -> Series(f)
          [] has("sale_date") -> SaleYear(f)
          [] has("annual_afa_cents") -> Deductible(f)
          [] has("building_basis_cents") /\ has("year_built") -> FullYear(f)
          [] OTHER -> Failed

-----------------------------------------------------------------------------
(* The record of a building and a year: _afa_result(). The engine is asked  *)
(* question by question; an answer without the expected value is a 422     *)
(* while the basis and the amount are found, and an uncaught error later.  *)

Refused == [kind |-> "refused"]

BasisOf(building, land, total) ==
    [kind |-> "basis", building |-> building, land |-> land, total |-> total]

SplitBasis(split, total) ==
    IF split.kind = "split" THEN BasisOf(split.building, split.land, total) ELSE Refused

PurchaseBasisOf(b, total) ==
    CASE b.route = "vertrag" ->
            IF b.split.building + b.split.land = total
            THEN BasisOf(b.split.building, b.split.land, total) ELSE Refused
      [] b.route = "bmf" ->
            SplitBasis(Calculate([allocation_route |-> b.route, acquisition_cost_cents |-> total,
                                  valuation_year |-> b.tax_year, minimum_residual_bp |-> 3000,
                                  year_built |-> b.year_built, living_area |-> b.area] @@ b.split),
                       total)
      [] b.route = "gutachten" ->
            SplitBasis(Calculate([allocation_route |-> "contract", acquisition_cost_cents |-> total,
                                  year_built |-> b.year_built] @@ b.split),
                       total)
      [] OTHER -> Refused

PurchaseBasis(b) == PurchaseBasisOf(b, Calculate(b.purchase).total)

Basis(b) ==
    CASE b.erwerbsart = "kauf" -> PurchaseBasis(b)
      [] b.erwerbsart = "neubau" -> BasisOf(b.building, b.land, b.building)
      [] b.erwerbsart = "unentgeltlich" ->
            BasisOf(b.plan.predecessor_basis_cents, 0, b.plan.predecessor_basis_cents)
      [] OTHER -> Refused

\* What the year is worth: a plan that is continued and a report's remaining
\* life know no first year, a purchase and a new building start by months.
AmountOf(b, report, year) ==
    CASE b.erwerbsart = "unentgeltlich" -> Calculate(b.plan).annual
      [] b.erwerbsart # "unentgeltlich" /\ report.kind = "report" -> report.annual
      [] b.tax_year = b.relevant_date.y -> year.first
      [] b.tax_year < b.relevant_date.y -> 0
      [] OTHER -> year.annual

YearAmount(b, building) ==
    AmountOf(b, Calculate([building_basis_cents |-> building] @@ b.report),
             Calculate([building_basis_cents |-> building, year_built |-> b.year_built,
                        relevant_date |-> b.relevant_date]))

FirstMonth(b) ==
    CASE b.tax_year = b.relevant_date.y -> b.relevant_date.m
      [] b.tax_year < b.relevant_date.y -> 13
      [] OTHER -> 1

\* A use of one's own takes each month it touches.
UsedIn(p, y, m) ==
    ~Before(Date(y, m, LastDay(y, m)), p.from) /\ ~Before(p.to, Date(y, m, 1))

RentedAreaMonths(b) ==
    LET months == FirstMonth(b) .. 12
        taken(p) == p.area * Cardinality({m \in months : UsedIn(p, b.tax_year, m)})
    IN  b.area * Cardinality(months)
            - SumOf([i \in DOMAIN b.selfUse |-> taken(b.selfUse[i])])

LoanAnswers(b) == [i \in DOMAIN b.loans |-> Calculate(b.loans[i])]

WholeAreaMonths(b) == b.area * (13 - FirstMonth(b))

\* The deductible part of the year, by the rented area months.
UseOf(b, amount) ==
    IF amount = 0 \/ WholeAreaMonths(b) = 0 THEN [kind |-> "use", deductible |-> 0, private |-> 0]
    ELSE Calculate([annual_afa_cents |-> amount, rented_area_months |-> RentedAreaMonths(b),
                    total_area_months |-> WholeAreaMonths(b)])

Measured(b, basis) ==
    IF b.measures = <<>> THEN [later |-> 0]
    ELSE Calculate([measures |-> b.measures, previous_counted_cents |-> b.previous,
                    transfer_date |-> b.relevant_date, building_basis_cents |-> basis.building])

RecordOf(b, basis, amount, measures, loans) ==
    IF \/ b.area <= 0
       \/ \E i \in DOMAIN b.selfUse : b.selfUse[i].area \notin 0 .. b.area
       \/ RentedAreaMonths(b) < 0
       \/ measures = Failed
       \/ \E i \in DOMAIN loans : loans[i] = Failed
    THEN Failed
    ELSE [kind |-> "record", total |-> basis.total, building |-> basis.building,
          land |-> basis.land, amount |-> amount, loans |-> loans, later |-> measures.later]
         @@ UseOf(b, amount)

RecordOn(b, basis) ==
    IF basis = Refused THEN Refused
    ELSE RecordOf(b, basis, YearAmount(b, basis.building), Measured(b, basis), LoanAnswers(b))

AfaRecord(b) == IF b.tax_year < RulesFrom THEN Failed ELSE RecordOn(b, Basis(b))
=============================================================================
