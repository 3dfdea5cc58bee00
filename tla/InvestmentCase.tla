--------------------------- MODULE InvestmentCase ---------------------------
(***************************************************************************)
(* A planned purchase (packages/investment-engine, routers/investment.py): *)
(* the facts of a case are the ones the owner gave, none is assumed to be  *)
(* zero, and the seven figures, the schedule of the first twelve payments  *)
(* and the two sensitivities are computed from them once and frozen.       *)
(***************************************************************************)
EXTENDS Integers, Sequences, FiniteSets, TLC, Functions, Cents

\* Facts are a function from the names that were given: money in cents, rates
\* in hundredths of a per cent.
Known(f, name, default) == IF name \in DOMAIN f THEN f[name] ELSE default

Above0(f, name) == name \in DOMAIN f /\ f[name] > 0

\* INVESTMENT_RULE_BUNDLES
DefaultBuildingShare == 7500
DefaultAfaRate == 200
DefaultMarginalTax == 4200
InterestOffsets == <<-100, -50, 0, 50, 100>>
RepaymentSteps == <<100, 200, 300, 400>>
DscrBand == [amber |-> 100, green |-> 120]
CashflowBand == [amber |-> 0, green |-> 5000]

LiquidityColor(n, band) ==
    IF n < band.amber THEN "red" ELSE IF n < band.green THEN "amber" ELSE "green"

----------------------------------------------------------------------------
(* What each figure needs.                                                 *)

RentRequired == {"purchase_price", "monthly_actual_rent"}

PlanningCosts == {"administration", "maintenance", "reserve", "vacancy_risk"}

NetRequired == RentRequired \cup PlanningCosts \cup {"acquisition_costs", "vacancy"}

FinancingRequired(f) ==
    NetRequired \cup {"loan", "interest"}
        \cup IF "fixed_monthly_annuity" \in DOMAIN f THEN {} ELSE {"initial_repayment"}

Missing(f, required) == required \ DOMAIN f

IsComplete(f) == Missing(f, FinancingRequired(f)) = {}

\* calculate_investment_snapshot: a complete case without a price, and a loan
\* whose interest would fall below zero on the axis, are refused.
Calculable(f) ==
    /\ IsComplete(f) => f["purchase_price"] # 0
    /\ Above0(f, "loan") /\ "interest" \in DOMAIN f => f["interest"] + InterestOffsets[1] >= 0

----------------------------------------------------------------------------
(* The loan.                                                               *)

InterestOf(balance, rate) == HalfUp(balance * rate, 120000)

MonthlyAnnuity(f) ==
    IF "fixed_monthly_annuity" \in DOMAIN f THEN f["fixed_monthly_annuity"]
    ELSE HalfUp(f["loan"] * (f["interest"] + f["initial_repayment"]), 120000)

\* The balance after each month, if every payment is made.
Balances(loan, rate, monthly) ==
    LET balance[m \in 0 .. 12] ==
            IF m = 0 THEN loan
            ELSE LET b == balance[m - 1] IN b - (monthly - InterestOf(b, rate))
    IN  balance

PaymentRow(rate, monthly, opening, closing) ==
    [opening |-> opening, interest |-> InterestOf(opening, rate),
     repayment |-> monthly - InterestOf(opening, rate), balance |-> closing]

PaymentRows(rate, monthly, balance) ==
    [m \in 1 .. 12 |-> PaymentRow(rate, monthly, balance[m - 1], balance[m])]

NoDebt == [blocked |-> FALSE, monthly |-> 0, interest |-> 0, repayment |-> 0, service |-> 0,
           rows |-> [m \in 1 .. 12 |-> [opening |-> 0, interest |-> 0, repayment |-> 0, balance |-> 0]]]

\* The months whose payment repays nothing.
Unpaid(rows) == {m \in DOMAIN rows : rows[m].repayment <= 0}

AnnuityOf(monthly, rows) ==
    IF Unpaid(rows) # {}
    THEN [blocked |-> TRUE,
          firstInterest |-> rows[Min(Unpaid(rows))].interest,
          firstRepayment |-> rows[Min(Unpaid(rows))].repayment]
    ELSE [blocked |-> FALSE, monthly |-> monthly, rows |-> rows, service |-> monthly * 12,
          interest |-> MapThenSumSet(LAMBDA m : rows[m].interest, 1 .. 12),
          repayment |-> MapThenSumSet(LAMBDA m : rows[m].repayment, 1 .. 12)]

Annuity(loan, rate, monthly) ==
    IF loan = 0 THEN NoDebt
    ELSE AnnuityOf(monthly, PaymentRows(rate, monthly, Balances(loan, rate, monthly)))

FinancingOf(f) == Annuity(f["loan"], f["interest"], IF f["loan"] = 0 THEN 0 ELSE MonthlyAnnuity(f))

\* clamp_repayment_control: the control is moved to the first rate that repays.
ClampedAnnuity(loan, rate, requested) == Max({requested, InterestOf(loan, rate) + 1})

----------------------------------------------------------------------------
(* Depreciation, by provenance.                                            *)

\* The linked record, then the owner's own figure, then the assumption.
Afa(f, total) ==
    LET share == Known(f, "building_share", DefaultBuildingShare)
        basis == Known(f, "reference_basis", HalfUp(total * share, 10000))
        assumed == HalfUp(basis * Known(f, "afa_rate", DefaultAfaRate), 10000)
    IN  [basis |-> basis,
         annual |-> Known(f, "reference_annual", Known(f, "annual_full_afa", assumed)),
         source |-> IF "reference_annual" \in DOMAIN f THEN "reference"
                    ELSE IF "annual_full_afa" \in DOMAIN f THEN "wizard" ELSE "assumption"]

----------------------------------------------------------------------------
(* The figures.                                                            *)

EffectiveRent(f) == HalfUp(12 * f["monthly_actual_rent"] * (10000 - f["vacancy"]), 10000)

CashCosts(f) == MapThenSumSet(LAMBDA c : f[c], PlanningCosts)

DeductibleCosts(f) == f["administration"] + f["maintenance"]

Noi(f) == EffectiveRent(f) - CashCosts(f)

Total(f) == f["purchase_price"] + f["acquisition_costs"]

Factor(f) == HalfUp(f["purchase_price"] * 100, 12 * f["monthly_actual_rent"])

GrossYield(f) == HalfUp(12 * f["monthly_actual_rent"] * 10000, f["purchase_price"])

\* Mutant: the rent that covers the tax is not taxed itself.
BreakEvenUntaxed(costs, service, deductible, marginal) ==
    costs + service - HalfUp(marginal * deductible, 10000)

\* The rent at which nothing is left after tax.
BreakEvenAfter(costs, service, deductible, marginal) ==
    HalfUp((costs + service - HalfUp(marginal * deductible, 10000)) * 10000, 10000 - marginal)

Returns(f, before, after, repayment) ==
    IF ~Above0(f, "equity") THEN <<>>
    ELSE [equity_before |-> HalfUp((before + repayment) * 10000, f["equity"]),
          equity_after |-> HalfUp((after + repayment) * 10000, f["equity"]),
          cash_on_cash |-> HalfUp(after * 10000, f["equity"])]

\* _calculate_complete, for a loan that is repaid.
CompleteOf(f, loan, afa) ==
    LET marginal == Known(f, "marginal_tax", DefaultMarginalTax)
        deductible == DeductibleCosts(f) + loan.interest + afa.annual
        tax == HalfUp((EffectiveRent(f) - deductible) * marginal, 10000)
        before == Noi(f) - loan.service
        even == CashCosts(f) + loan.service
        evenAfter == BreakEvenAfter(CashCosts(f), loan.service, deductible, marginal)
    IN  [total |-> Total(f), effective_rent |-> EffectiveRent(f), noi |-> Noi(f),
         loan |-> loan, afa |-> afa, tax |-> tax,
         before_year |-> before, after_year |-> before - tax,
         before_month |-> HalfUp(before, 12), after_month |-> HalfUp(before - tax, 12),
         factor |-> Factor(f), gross_yield |-> GrossYield(f),
         net_yield |-> HalfUp(Noi(f) * 10000, Total(f)),
         break_even_before |-> even, break_even_after |-> evenAfter,
         break_even_before_month |-> HalfUp(even, 12),
         break_even_after_month |-> HalfUp(evenAfter, 12),
         ltv_purchase |-> HalfUp(f["loan"] * 10000, f["purchase_price"]),
         ltv_total |-> HalfUp(f["loan"] * 10000, Total(f))]
        @@ (IF loan.service = 0 THEN <<>> ELSE [dscr |-> HalfUp(Noi(f) * 100, loan.service)])
        @@ Returns(f, before, before - tax, loan.repayment)

Complete(f) == CompleteOf(f, FinancingOf(f), Afa(f, Total(f)))

\* _base_values: what follows from the facts of a case that is not complete.
BaseValues(f) ==
    (IF {"purchase_price", "acquisition_costs"} \subseteq DOMAIN f
        THEN [total |-> Total(f)] ELSE <<>>)
    @@ (IF {"monthly_actual_rent", "vacancy"} \subseteq DOMAIN f
        THEN [effective_rent |-> EffectiveRent(f)] ELSE <<>>)
    @@ (IF Above0(f, "purchase_price") /\ Above0(f, "monthly_actual_rent")
        THEN [factor |-> Factor(f), gross_yield |-> GrossYield(f)] ELSE <<>>)
    @@ (IF Missing(f, NetRequired) # {} THEN <<>>
        ELSE [noi |-> Noi(f)]
             @@ (IF Total(f) = 0 THEN <<>> ELSE [net_yield |-> HalfUp(Noi(f) * 10000, Total(f))]))

----------------------------------------------------------------------------
(* The seven slots.                                                        *)

Unavailable(missing) ==
    [status |-> "unavailable", missing |-> IF missing = {} THEN {"required_input"} ELSE missing]

Available(value) == [status |-> "available", value |-> value]

Shown(values, name, missing) ==
    IF name \in DOMAIN values THEN Available(values[name]) ELSE Unavailable(missing)

Or(missing, otherwise) == IF missing = {} THEN {otherwise} ELSE missing

\* _kpi_slots
KpiSlots(f, values) ==
    LET unpriced == {n \in RentRequired : ~Above0(f, n)}
        net == Missing(f, NetRequired)
        financing == Missing(f, FinancingRequired(f))
        ready == unpriced = {} /\ financing = {}
        equity == financing \cup IF Above0(f, "equity") THEN {} ELSE {"equity"}
        financed(name) == IF ready THEN Shown(values, name, {"valid_net_inputs"})
                          ELSE Unavailable(Or(financing, "valid_net_inputs"))
    IN  [factor |-> Shown(values, "factor", unpriced),
         gross_yield |-> Shown(values, "gross_yield", unpriced),
         net_yield |-> IF unpriced = {} /\ net = {} THEN Shown(values, "net_yield", {})
                       ELSE Unavailable(Or(net, "valid_price_and_rent")),
         dscr |-> IF ready /\ f["loan"] = 0 THEN [status |-> "not_applicable"] ELSE financed("dscr"),
         equity_return |-> IF ready /\ equity = {} THEN Shown(values, "equity_after", equity)
                           ELSE Unavailable(equity),
         cashflow |-> financed("after_month"),
         break_even |-> financed("break_even_after_month")]

----------------------------------------------------------------------------
(* The two axes: each row is the whole case again with one fact replaced.  *)

WithInterest(f, rate) == ("interest" :> rate) @@ f

WithRepayment(f, rate) ==
    ("initial_repayment" :> rate) @@ Restrict(f, DOMAIN f \ {"fixed_monthly_annuity"})

Calculated(values) ==
    [outcome |-> "calculated", values |-> values,
     dscr_color |-> LiquidityColor(values.dscr, DscrBand),
     cashflow_color |-> LiquidityColor(values.after_month, CashflowBand)]

AxisRow(f) ==
    IF FinancingOf(f).blocked THEN [outcome |-> "hard_block"] @@ FinancingOf(f)
    ELSE Calculated(Complete(f))

InterestAxis(f) ==
    [i \in DOMAIN InterestOffsets |-> AxisRow(WithInterest(f, f["interest"] + InterestOffsets[i]))]

RepaymentAxis(f) ==
    [i \in DOMAIN RepaymentSteps |-> AxisRow(WithRepayment(f, RepaymentSteps[i]))]

\* _bank_view: without a loan the view has no loan-to-value.
BankView(f, values, slots) ==
    [slots |-> slots,
     ltv |-> IF Above0(f, "loan") /\ "ltv_purchase" \in DOMAIN values
             THEN <<values.ltv_purchase, values.ltv_total>> ELSE <<>>,
     schedule |-> IF "loan" \in DOMAIN values THEN values.loan.rows ELSE <<>>]

----------------------------------------------------------------------------
(* The calculation.                                                        *)

Findings(f) ==
    IF Known(f, "analysis_period", 12) # 12 THEN {"non_12_month_period_inapplicable"} ELSE {}

Warnings(f) ==
    IF {"acquisition_costs", "purchase_price"} \subseteq DOMAIN f
       /\ f["acquisition_costs"] > f["purchase_price"]
    THEN {"unrealistic_acquisition_costs"} ELSE {}

\* The guard against a payment that repays nothing needs no other fact.
Financed(f) ==
    /\ {"loan", "interest"} \subseteq DOMAIN f
    /\ \/ "fixed_monthly_annuity" \in DOMAIN f
       \/ "initial_repayment" \in DOMAIN f

HardBlock(f) == Financed(f) /\ FinancingOf(f).blocked

Full(f) == IsComplete(f) /\ \A n \in RentRequired : Above0(f, n)

Axes(f) ==
    IF Full(f) /\ f["loan"] > 0
    THEN [interest_axis |-> InterestAxis(f), repayment_axis |-> RepaymentAxis(f)]
    ELSE [interest_axis |-> <<>>, repayment_axis |-> <<>>]

Figures(f, values, slots) ==
    [outcome |-> "calculated", values |-> values, slots |-> slots,
     bank |-> BankView(f, values, slots)] @@ Axes(f)

FiguresOf(f, values) == Figures(f, values, KpiSlots(f, values))

\* calculate_investment_snapshot
Snapshot(f) ==
    [findings |-> Findings(f), warnings |-> Warnings(f)]
    @@ IF HardBlock(f) THEN [outcome |-> "hard_block", guard |-> FinancingOf(f)]
       ELSE FiguresOf(f, IF Full(f) THEN Complete(f) ELSE BaseValues(f))
=============================================================================
