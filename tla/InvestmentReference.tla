------------------------ MODULE InvestmentReference ------------------------
(***************************************************************************)
(* What a planned purchase must satisfy, told without the engine's order   *)
(* of steps: a loan by what each month leaves, the cash of a year by where *)
(* it goes, the break-even rent by what it would leave, the slots by what  *)
(* each needs, and the axes by how their rows compare.                     *)
(***************************************************************************)
EXTENDS InvestmentStore

-----------------------------------------------------------------------------
(* The cases asked about; amounts of a small flat, in cents.               *)

Whole ==
    [purchase_price |-> 90000, acquisition_costs |-> 9000, monthly_actual_rent |-> 600,
     vacancy |-> 300, administration |-> 360, maintenance |-> 500, reserve |-> 300,
     vacancy_risk |-> 140, equity |-> 29000, loan |-> 70000, interest |-> 400,
     initial_repayment |-> 200]

Without(f, names) == Restrict(f, DOMAIN f \ names)

PartsOf(f) == {Without(f, {a, b}) : a, b \in DOMAIN f \cup {"none"}}

PaidBy(f, annuity) == ("fixed_monthly_annuity" :> annuity) @@ Without(f, {"initial_repayment"})

\* Loans that are never, barely, slowly and at once repaid, and none; rates at
\* and below the reach of the axis.
Loans ==
    {f @@ Whole : f \in [loan : {0, 1, 3000, 70000}, interest : {0, 99, 100, 400, 1200},
                         initial_repayment : {0, 1, 100, 200, 400}]}
    \cup {PaidBy(f @@ Whole, a) :
            f \in [loan : {0, 3000, 69900}, interest : {100, 400}],
            a \in {0, 10, 11, 233, 234, 300, 2000}}

\* Rents and prices that are zero, costs above the rent, no equity, and what
\* the tax takes.
Means ==
    {f @@ Whole : f \in [purchase_price : {0, 1000, 90000}, monthly_actual_rent : {0, 1, 600, 6000},
                         vacancy : {0, 333, 10000}, equity : {0, 29000}]}
    \cup {("marginal_tax" :> t) @@ f :
            t \in {0, 4200, 9000}, f \in {Whole, ("monthly_actual_rent" :> 7000) @@ Whole,
                                          PaidBy(Whole, 600), ("loan" :> 0) @@ Whole}}

Wear ==
    {f @@ g : f \in PartsOf([reference_basis |-> 50000, reference_annual |-> 1700,
                             annual_full_afa |-> 900, building_share |-> 3333, afa_rate |-> 250]),
              g \in {Whole, Without(Whole, {"equity", "interest"}), PaidBy(Whole, 233)}}

Other ==
    {("analysis_period" :> p) @@ Whole : p \in {0, 12, 18}}
    \cup {[purchase_price |-> 40000, acquisition_costs |-> c] @@ Whole : c \in {40000, 40001}}
    \cup {("fixed_monthly_annuity" :> 400) @@ Whole}

AllNamed == [n \in TextNames |-> "named"]

Asked(facts, events, layouts, texts, financing) ==
    [facts : facts, events : events, layout : layouts, texts : texts, financing : financing]

\* What surrounds the facts: access and layout, the texts, and facts outside
\* of their range.
InvestmentQuestions ==
    LET sourced == {Whole, [annual_full_afa |-> 900] @@ Whole, [reference_basis |-> 50000] @@ Whole,
                    PaidBy(Whole, 233), [annual_full_afa |-> 900] @@ PaidBy(Whole, 233)}
    IN  Asked(PartsOf(Whole) \cup PartsOf(PaidBy(Whole, 400)) \cup Loans \cup Means \cup Wear \cup Other,
              {<<TRUE>>}, {"default"}, {AllNamed}, {"absent"})
        \cup Asked(sourced, {<<>>, <<TRUE>>, <<TRUE, FALSE>>, <<FALSE, TRUE>>},
                   {"default", "own", "foreign"}, {AllNamed}, {"absent", "angebot"})
        \cup Asked(sourced, {<<TRUE>>}, {"default"},
                   UNION {[s -> {"blank", "named"}] : s \in SUBSET TextNames}, {"indikativ"})
        \cup Asked({(n :> v) @@ Whole : n \in {"vacancy", "building_share", "marginal_tax", "loan"},
                                       v \in {-1, 10000, 10001}}
                   \cup {("marginal_tax" :> 9999) @@ PaidBy(Whole, 233)},
                   {<<TRUE>>}, {"own"}, {AllNamed}, {"absent"})

-----------------------------------------------------------------------------

Near(n, d, exact) == 2 * (n * d - exact) <= d /\ -2 * (n * d - exact) <= d

\* The owner's access: it was opened and not closed since.
Open(events) == \E i \in DOMAIN events : events[i] /\ \A j \in i .. Len(events) : events[j]

BothPayments(f) == {"initial_repayment", "fixed_monthly_annuity"} \subseteq DOMAIN f

\* The texts without which the facts have no source.
Needed(f) ==
    (IF "annual_full_afa" \in DOMAIN f THEN {"afa_record_version"} ELSE {})
    \cup IF "reference_annual" \in DOMAIN f \/ "reference_basis" \in DOMAIN f
         THEN {"source", "record_version"} ELSE {}

BlankTexts(q) == {n \in DOMAIN q.texts : q.texts[n] = "blank"}

Unsourced(q) ==
    \/ ~(Needed(q.facts) \subseteq DOMAIN q.texts)
    \/ BlankTexts(q) \cap (Needed(q.facts) \cup {"header"}) # {}

OutOfRange(f) ==
    \/ \E n \in DOMAIN f : f[n] < 0
    \/ \E n \in {"vacancy", "building_share"} \cap DOMAIN f : f[n] > 10000
    \/ "marginal_tax" \in DOMAIN f /\ f["marginal_tax"] >= 10000

Payment(f) == "initial_repayment" \in DOMAIN f \/ "fixed_monthly_annuity" \in DOMAIN f

AllButEquity == PlanningCosts \cup {"purchase_price", "monthly_actual_rent", "acquisition_costs",
                                    "vacancy", "loan", "interest"}

\* Everything is known, but not at a price, or a loan costs less than one per
\* cent.
Incalculable(f) ==
    \/ AllButEquity \subseteq DOMAIN f /\ Payment(f) /\ f["purchase_price"] = 0
    \/ "loan" \in DOMAIN f /\ "interest" \in DOMAIN f /\ f["loan"] > 0 /\ f["interest"] < 100

\* Interest is highest in the first month, so a payment above it always repays.
RepaysFromTheStart(f) ==
    f["loan"] = 0 \/ MonthlyAnnuity(f) > InterestOf(f["loan"], f["interest"])

\* The control's limit is the first payment that is let through.
ClampRepays(f) ==
    LET least == ClampedAnnuity(f["loan"], f["interest"], MonthlyAnnuity(f))
    IN  ~HardBlock(PaidBy(f, least)) /\ HardBlock(PaidBy(f, least - 1))

\* Needed by the slots, and usable.
Usable(f, names) ==
    /\ names \subseteq DOMAIN f
    /\ f["purchase_price"] > 0 /\ f["monthly_actual_rent"] > 0

Rented == {"purchase_price", "monthly_actual_rent"}

SlotsAgree(f, slots) ==
    LET financed == Usable(f, AllButEquity) /\ Payment(f) IN
    /\ \A n \in {"factor", "gross_yield"} : slots[n].status = "available" <=> Usable(f, Rented)
    /\ slots.net_yield.status = "available" <=> Usable(f, AllButEquity \ {"loan", "interest"})
    /\ slots.dscr.status # "unavailable" <=> financed
    /\ slots.dscr.status = "not_applicable" <=> financed /\ f["loan"] = 0
    /\ \A n \in {"cashflow", "break_even"} : slots[n].status = "available" <=> financed
    /\ slots.equity_return.status = "available" <=> financed /\ Above0(f, "equity")
    /\ \A n \in DOMAIN slots :
          slots[n].status = "unavailable" =>
              \A fact \in slots[n].missing \cap (DOMAIN f) : f[fact] = 0

\* Twelve payments, each the month's interest and the rest repayment.
LoanAgrees(f, loan) ==
    /\ loan.rows[1].opening = f["loan"]
    /\ \A m \in 1 .. 12 :
          LET row == loan.rows[m] IN
          /\ Near(row.interest, 120000, row.opening * f["interest"])
          /\ row.opening - row.balance = row.repayment
          /\ row.interest + row.repayment = loan.monthly
          /\ f["loan"] # 0 => row.repayment > 0
          /\ m < 12 => /\ loan.rows[m + 1].opening = row.balance
                       /\ loan.rows[m + 1].interest <= row.interest
    /\ loan.repayment = f["loan"] - loan.rows[12].balance
    /\ loan.service = loan.interest + loan.repayment

\* A year's rent goes into costs, debt service, tax and what is left.
CashAgrees(f, v) ==
    LET costs == f["administration"] + f["maintenance"] + f["reserve"] + f["vacancy_risk"]
        marginal == IF "marginal_tax" \in DOMAIN f THEN f["marginal_tax"] ELSE 4200
        taken(rent) == HalfUp((rent - f["administration"] - f["maintenance"] - v.loan.interest
                               - v.afa.annual) * marginal, 10000)
        left(rent) == rent - costs - v.loan.interest - v.loan.repayment - taken(rent)
    IN  /\ Near(v.effective_rent, 10000, 12 * f["monthly_actual_rent"] * (10000 - f["vacancy"]))
        /\ v.effective_rent = costs + v.loan.service + v.tax + v.after_year
        /\ v.after_year = left(v.effective_rent)
        /\ Near(v.before_month, 12, v.before_year) /\ Near(v.after_month, 12, v.after_year)
        /\ left(v.break_even_after) \in -1 .. 1
        /\ v.break_even_before - costs = v.loan.service
        /\ marginal = 0 => v.break_even_after = v.break_even_before /\ v.after_year = v.before_year

\* Price over rent and rent over price do not know the costs or the loan.
YieldsAgree(f, v) ==
    LET rent == 12 * f["monthly_actual_rent"] IN
    /\ Near(v.factor, rent, 100 * f["purchase_price"])
    /\ Near(v.gross_yield, f["purchase_price"], 10000 * rent)
    /\ Near(v.net_yield, v.total, 10000 * v.noi)
    /\ f["loan"] # 0 => Near(v.dscr, v.loan.service, 100 * v.noi)
    /\ "equity_after" \in DOMAIN v =>
          /\ Near(v.equity_after, f["equity"], 10000 * (v.after_year + v.loan.repayment))
          /\ v.equity_before - v.equity_after \in
                 LET t == (10000 * v.tax) \div f["equity"] IN t - 1 .. t + 2

\* A linked record wins over the owner's figure, which wins over the rate.
AfaAgrees(f, v) ==
    IF "reference_annual" \in DOMAIN f THEN v.afa.annual = f["reference_annual"]
    ELSE IF "annual_full_afa" \in DOMAIN f THEN v.afa.annual = f["annual_full_afa"]
    ELSE Near(v.afa.annual, 10000,
              v.afa.basis * IF "afa_rate" \in DOMAIN f THEN f["afa_rate"] ELSE 200)

\* The case lies on its own axes; dearer money never serves the debt better,
\* and repaying faster costs liquidity and leaves less debt.
AxesAgree(f, r) ==
    LET paid(axis) == {i \in DOMAIN axis : axis[i].outcome = "calculated"}
        later(axis) == {p \in paid(axis) \X paid(axis) : p[1] < p[2]}
        blockedAlways(axis, i, j) == axis[i].outcome = "hard_block" => axis[j].outcome = "hard_block"
    IN  /\ r.interest_axis[3].values = r.values
        /\ \A i \in paid(r.interest_axis) :
              /\ r.interest_axis[i].values.net_yield = r.values.net_yield
              /\ r.interest_axis[i].values.factor = r.values.factor
        /\ \A p \in later(r.interest_axis) :
              r.interest_axis[p[2]].values.dscr * (IF r.values.noi < 0 THEN -1 ELSE 1)
                  <= r.interest_axis[p[1]].values.dscr * (IF r.values.noi < 0 THEN -1 ELSE 1)
        /\ "fixed_monthly_annuity" \in DOMAIN f =>
              \A i \in 1 .. 5, j \in 1 .. 5 : i < j => blockedAlways(r.interest_axis, i, j)
        /\ \A i \in 1 .. 4, j \in 1 .. 4 : i < j => blockedAlways(r.repayment_axis, j, i)
        /\ \A p \in later(r.repayment_axis) :
              LET slow == r.repayment_axis[p[1]].values
                  fast == r.repayment_axis[p[2]].values
              IN  /\ fast.before_year <= slow.before_year
                  /\ fast.loan.rows[12].balance <= slow.loan.rows[12].balance
        /\ \A i \in 1 .. 4 :
              "initial_repayment" \in DOMAIN f /\ f["initial_repayment"] = RepaymentSteps[i] =>
                  r.repayment_axis[i].values = r.values

\* What is kept is what was asked and computed, and names whose figure the
\* depreciation is.
KeptAgrees(q, r) ==
    /\ r.input.facts = q.facts /\ r.input.version = 1
    /\ r.input.financing.source = r.result.financing.source
    /\ q.financing # "absent" => r.result.financing.source = q.financing
    /\ r.input.afa.source = "wizard" => "annual_full_afa" \in DOMAIN q.facts
    /\ r.input.afa.source = "reference" <=>
          \/ "reference_annual" \in DOMAIN q.facts
          \/ "reference_basis" \in DOMAIN q.facts /\ "loan" \notin DOMAIN r.result.values
    /\ r.input.afa.version = "named"

\* The bank is shown the case that the owner was, blocked or not, until the
\* access is closed; a case that was not kept is not shown.
ShownAgrees(q, r) ==
    LET shown(view, events) == ShowCase(r, view, q.events \o events)
        closed == shown("case", <<FALSE>>)
    IN  /\ closed.kind = "refused" /\ closed.code = 403
        /\ shown("bank", <<TRUE>>).kind = "shown" <=> r.kind = "case"
        /\ r.kind = "case" =>
              LET owner == shown("case", <<FALSE, TRUE>>).view
                  axes == shown("sensitivity", <<>>).view
                  pdf == shown("pdf", <<>>).view
              IN  /\ pdf.layout = q.layout /\ pdf.result.outcome = owner.outcome
                  /\ owner.outcome = "hard_block" <=> shown("bank", <<>>).view.bank = <<>>
                  /\ Len(axes.interest_axis) \in {0, 5}
                  /\ axes.interest_axis # <<>> => axes.interest_axis[3].values = owner.values

(***************************************************************************)
(* A case is refused, blocked, partly or wholly calculated as its facts    *)
(* allow, and the figures of a whole case fit together. It is kept as it   *)
(* was asked; only a blank text that nothing needs is turned away by the   *)
(* table after everything else has taken it.                               *)
(***************************************************************************)
CaseAgrees(q, r) ==
    LET f == q.facts
        whole == Usable(f, AllButEquity) /\ Payment(f)
        refused == \/ BothPayments(f) \/ Unsourced(q) \/ OutOfRange(f) \/ ~Open(q.events)
                   \/ q.layout = "foreign" \/ Incalculable(f)
    IN  /\ r.kind = "refused" <=> refused
        /\ ShownAgrees(q, r)
        /\ r.kind = "failed" <=> ~refused /\ BlankTexts(q) # {}
        /\ r.kind = "case" =>
              /\ KeptAgrees(q, r)
              /\ r.result.outcome = "hard_block" <=>
                    /\ {"loan", "interest"} \subseteq DOMAIN f /\ Payment(f)
                    /\ ~RepaysFromTheStart(f)
              /\ r.result.outcome = "hard_block" => ClampRepays(f)
              /\ r.result.outcome = "calculated" =>
                    /\ SlotsAgree(f, r.result.slots)
                    /\ whole => /\ LoanAgrees(f, r.result.values.loan)
                                /\ CashAgrees(f, r.result.values)
                                /\ YieldsAgree(f, r.result.values)
                                /\ AfaAgrees(f, r.result.values)
                    /\ IF whole /\ f["loan"] > 0 THEN AxesAgree(f, r.result)
                       ELSE r.result.interest_axis = <<>> /\ r.result.repayment_axis = <<>>
                    /\ r.result.bank.ltv # <<>> <=> whole /\ f["loan"] > 0
=============================================================================
