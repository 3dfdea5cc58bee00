----------------------- MODULE DepreciationReference -----------------------
(***************************************************************************)
(* Records and questions for the check of Depreciation, and what its       *)
(* answers must agree with: the same money month by month, day by day and  *)
(* as exact fractions.                                                     *)
(***************************************************************************)
EXTENDS Depreciation

-----------------------------------------------------------------------------
(* Questions to the engine.                                                *)

Transfers == {Date(2024, 1, 31), Date(2024, 7, 1), Date(2024, 12, 5)}

LoanQuestions ==
    [nominal_cents : {50000, 1200}, interest_bp : {0, 400}, initial_repayment_bp : {0, 200, 9000},
     installment_count : {12, 2}]

SpecialQuestions ==
    [nominal_cents : {50000}, interest_bp : {400}, initial_repayment_bp : {0, 200},
     installment_count : {12}, special_repayment_cents : {1, 7000, 60000},
     special_repayment_before_installment : {1, 6, 12, 13}]

DiscountQuestions ==
    [nominal_cents : {10000}, market_disagio_cents : {0, 500, 501},
     non_market_disagio_cents : {0, 1001}, fixed_interest_years : {0, 1, 7},
     first_year_months : {1, 12}]

SeriesQuestions ==
    [building_basis_cents : {7000, 9999}, year_built : {1924, 1925, 2022, 2023},
     transfer_date : Transfers, series_start_year : {2024}]

ReportQuestions ==
    [building_basis_cents : {7001}, remaining_life_years : {0, 1, 33},
     report_qualification : {"oebuv", "zertifiziert", "none"}]

PlanQuestions ==
    [predecessor_basis_cents : {7001}, rate_bp : {200, 333}, predecessor_accumulated_afa_cents : {0, 900},
     predecessor_months : {0, 5, 12}]

Work(cents, day) == [net_cents |-> cents, leistung_bis |-> day]

MeasureQuestions ==
    [measures : {<<>>, <<Work(700, Date(2026, 12, 31)), Work(90, Date(2027, 2, 28))>>,
                 <<Work(700, Date(2027, 7, 1)), Work(90, Date(2027, 6, 30)), Work(5, Date(2024, 6, 1))>>},
     previous_counted_cents : {0, 250}, transfer_date : Transfers \cup {Date(2024, 2, 29)},
     building_basis_cents : {5003}]

ReclassifyQuestions ==
    [building_basis_cents : {9001, 9999}, rate_bp : {200, 300},
     counted_measures_by_year : {<<>>, <<[net_cents |-> 1501]>>,
                                 <<[net_cents |-> 701], [net_cents |-> 802], [net_cents |-> 3]>>}]

OtherQuestions ==
    [building_basis_cents : {5003}, counted_measure_cents : {<<>>, <<600>>, <<300, 301>>, <<751>>}]
    \cup [building_basis_cents : {5003}, later_production_cost_cents : {999}, rate_bp : {200},
          opening_book_value_cents : {0, 4000}]
    \cup [building_basis_cents : {5003}, year_built : {1900, 2024}, sale_date : Transfers,
          opening_book_value_cents : {4000}]
    \cup [interest_cents : {101}, rented_area_months : {0, 5, 7, 12}, total_area_months : {12}]
    \cup [contract_building_cents : {8000}, contract_land_cents : {1000},
          comparison_bmf_building_cents : {6001, 9000}, comparison_bmf_land_cents : {3000}, year_built : {1980}]
    \cup [kaufpreis_cents : {9000}, movable_assets_cents : {0, 501}, ancillary_cents : {<<1, 2, 3, 4>>},
          grundschuld_notar_cents : {77}, bmf_building_value_cents : {3}, bmf_property_value_cents : {4, 7},
          year_built : {1980}]
    \cup [allocation_route : {"bmf"}, year_built : {1980, Unknown}]
    \cup [allocation_route : {"gutachten"}, year_built : {1980}]

Questions ==
    UNION {LoanQuestions, SpecialQuestions, DiscountQuestions, SeriesQuestions, ReportQuestions,
           PlanQuestions, MeasureQuestions, ReclassifyQuestions, OtherQuestions}

-----------------------------------------------------------------------------
(* Records of the API: the kinds of acquisition, uses of one's own that    *)
(* touch months by a day or overlap, works and loans.                      *)

Paid == [kaufpreis_cents |-> 9000, movable_assets_cents |-> 501, ancillary_cents |-> <<40, 30, 20, 10>>,
         grundschuld_notar_cents |-> 77]

NoReport == [remaining_life_years |-> 0, report_qualification |-> "none"]

Use(area, from, to) == [area |-> area, from |-> from, to |-> to]

Never == Date(9999, 12, 31)

Uses ==
    {<<>>, <<Use(3, Date(2024, 3, 31), Date(2024, 9, 1))>>, <<Use(7, Date(2020, 1, 1), Never)>>,
     <<Use(4, Date(2023, 1, 1), Date(2024, 8, 15)), Use(4, Date(2024, 8, 16), Never)>>,
     <<Use(8, Date(2024, 1, 1), Never)>>}

Classed(class) == [net_cents |-> 300, leistung_bis |-> Date(2025, 1, 1), class |-> class]

Record ==
    [erwerbsart |-> "kauf", route |-> "vertrag", tax_year |-> 2024, year_built |-> 1990, purchase |-> Paid,
     split |-> [building |-> 6000, land |-> 2599], building |-> 7003, land |-> 900,
     plan |-> [predecessor_basis_cents |-> 7001, rate_bp |-> 200, predecessor_accumulated_afa_cents |-> 0,
               predecessor_months |-> 5],
     report |-> NoReport, relevant_date |-> Date(2024, 5, 15), area |-> 7, selfUse |-> <<>>,
     measures |-> <<>>, previous |-> 0, loans |-> <<>>]

Splits ==
    {[route |-> "vertrag", split |-> [building |-> 6000, land |-> 2599]],
     [route |-> "vertrag", split |-> [building |-> 6000, land |-> 2600]],
     [route |-> "gutachten", split |-> [contract_building_share_bp |-> 7345]]}
    \cup [route : {"bmf"},
          split : [land_area_sqm : {0, 20}, land_value_cents_per_sqm : {Unknown, 30},
                   building_type : {"mfh", "efh"}, nhk_cents : {80}, price_index_bp : {18000},
                   useful_life_years : {80}]]

Records ==
    {[[Record EXCEPT !.tax_year = y, !.selfUse = u, !.erwerbsart = k] EXCEPT !.report = r] :
        y \in {2022, 2023, 2024, 2025, 2095}, u \in Uses, k \in {"kauf", "neubau", "unentgeltlich"},
        r \in {NoReport, [remaining_life_years |-> 33, report_qualification |-> "oebuv"]}}
    \cup {s @@ [Record EXCEPT !.area = a] : s \in Splits, a \in {0, 7, 90}}
    \cup {[Record EXCEPT !.measures = m, !.loans = q] :
            m \in {<<>>, <<Classed("erweiterung"), Classed("erweiterung")>>, <<Classed("jaehrlichUeblich")>>,
                   <<Classed("erweiterung"), Classed("instandsetzungModernisierung")>>},
            q \in {<<>>} \cup {<<x>> : x \in LoanQuestions \cup SpecialQuestions}}

-----------------------------------------------------------------------------
(* What the answers must agree with.                                       *)

\* x is n/d to half a cent, and to half a cent of what another rounding adds.
Near(x, n, d, more) == 2 * (x * d - n) <= d + more /\ 2 * (n - x * d) <= d + more

LoanAgrees(f, r) ==
    LET paid == IF "total" \in DOMAIN r THEN r.total ELSE r.repayment
    IN  /\ r.interest + r.repayment = r.annuity * f.installment_count
        /\ "special_repayment_before_installment" \notin DOMAIN f
            \/ f.special_repayment_before_installment <= f.installment_count
               => r.closing + paid = f.nominal_cents
        /\ "saving" \in DOMAIN r => r.saving >= 0
        /\ f.interest_bp = 0 => r.interest = 0

QuestionAgrees(f, r) ==
    CASE r.kind = "loan" -> LoanAgrees(f, r)
      [] r.kind = "discount" ->
            /\ 20 * r.market <= f.nominal_cents
            /\ r.first + r.annual * (f.fixed_interest_years - 1) + r.last = f.non_market_disagio_cents
      [] r.kind = "series" ->
            /\ r.first + r.annual * r.years + r.last = f.building_basis_cents
            /\ r.last \in 0 .. r.annual - 1
            /\ Near(r.first, (13 - f.transfer_date.m) * f.building_basis_cents * RateOf(f.year_built),
                    120000, 10000 * (13 - f.transfer_date.m))
      [] r.kind = "continued" ->
            /\ r.predecessor + r.successor = r.annual
            /\ f.predecessor_months \in {0, 12} => 0 \in {r.predecessor, r.successor}
      [] r.kind = "report" -> Near(r.annual, f.building_basis_cents, f.remaining_life_years, 0)
      [] r.kind = "counted" ->
            /\ r.counted = f.previous_counted_cents + SumOf([i \in DOMAIN f.measures |->
                   IF /\ ElapsedMonths(f.transfer_date, f.measures[i].leistung_bis) < 36
                   THEN f.measures[i].net_cents ELSE 0])
            /\ Near(r.counted + r.buffer, 15 * f.building_basis_cents, 100, 0)
      [] r.kind = "guard" ->
            /\ r.counted + r.buffer = GuardLimit(f)
            /\ r.status = "warning" <=> r.buffer * 5 <= GuardLimit(f)
      [] r.kind = "reclassified" ->
            /\ Len(r.basis) > 0 => r.basis[Len(r.basis)] = f.building_basis_cents + r.counted
            /\ \A i \in DOMAIN r.delta :
                  LET months == IF i = 1 THEN 10 ELSE 12
                  IN  Near(r.delta[i], (r.basis[i] - f.building_basis_cents) * f.rate_bp * months,
                           120000, 240000)
      [] r.kind = "use" -> r.deductible >= 0 /\ r.private >= 0
      [] OTHER -> TRUE

\* Private months, counted day by day.
TakenDays(b, p) ==
    {m \in FirstMonth(b) .. 12 : \E d \in 1 .. LastDay(b.tax_year, m) :
        ~Before(Date(b.tax_year, m, d), p.from) /\ ~Before(p.to, Date(b.tax_year, m, d))}

FreeShare(b) ==
    b.area * (13 - FirstMonth(b))
        - SumOf([i \in DOMAIN b.selfUse |-> b.selfUse[i].area * Cardinality(TakenDays(b, b.selfUse[i]))])

RecordAgrees(b, r) ==
    IF r.kind # "record" THEN TRUE
    ELSE /\ b.erwerbsart = "kauf" =>
               r.building + r.land = 8599 /\ r.total = 8599
         /\ b.tax_year < b.relevant_date.y => r.deductible = 0
         /\ r.deductible + r.private = r.amount \/ (b.tax_year < b.relevant_date.y /\ r.private = 0)
         /\ b.tax_year >= b.relevant_date.y =>
               Near(r.deductible, r.amount * FreeShare(b), b.area * (13 - FirstMonth(b)), 0)
         /\ b.tax_year = b.relevant_date.y /\ b.erwerbsart # "unentgeltlich" /\ b.report = NoReport =>
               Near(r.amount, r.building * 200 * 8, 120000, 80000)
         /\ \A i \in DOMAIN r.loans : QuestionAgrees(b.loans[i], r.loans[i])
=============================================================================
