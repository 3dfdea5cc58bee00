-------------------------- MODULE InvestmentStore --------------------------
(***************************************************************************)
(* The request for a planned purchase and what is kept of it: what the API *)
(* takes, what the engine takes again, and what the two tables accept      *)
(* (create_case of routers/investment.py, the checks of lokara_db          *)
(* models.py and the trigger of migration 0045).                           *)
(*                                                                         *)
(* q.texts gives for each text that was sent whether it says anything; the *)
(* texts of the bank's header are one of them.                             *)
(***************************************************************************)
EXTENDS InvestmentCase

TextNames == {"afa_record_version", "source", "record_version", "header"}

Sent(q, n) == n \in DOMAIN q.texts

Named(q, n) == Sent(q, n) /\ q.texts[n] = "named"

NamedIfSent(q, n) == Sent(q, n) => Named(q, n)

Limit == [vacancy |-> 10000, building_share |-> 10000, marginal_tax |-> 9999]

InRange(f) == \A n \in DOMAIN f : f[n] >= 0 /\ (n \in DOMAIN Limit => f[n] <= Limit[n])

Referenced(f) == {"reference_basis", "reference_annual"} \cap DOMAIN f # {}

\* _require_enabled: the latest event decides.
Enabled(events) == events # <<>> /\ events[Len(events)]

-----------------------------------------------------------------------------
(* What the API and the engine take.                                       *)

\* InvestmentFactsIn: a blank text has a length, and passes.
ValidFacts(q) ==
    /\ InRange(q.facts)
    /\ ~({"initial_repayment", "fixed_monthly_annuity"} \subseteq DOMAIN q.facts)
    /\ "annual_full_afa" \in DOMAIN q.facts => Sent(q, "afa_record_version")
    /\ Referenced(q.facts) => Sent(q, "source") /\ Sent(q, "record_version")

HeaderReads(q) == NamedIfSent(q, "header")

\* _validate_public_input: the texts that a figure needs.
PublicInput(q) ==
    /\ InRange(q.facts)
    /\ Referenced(q.facts) => Named(q, "source") /\ Named(q, "record_version")
    /\ "annual_full_afa" \in DOMAIN q.facts => Named(q, "afa_record_version")
    /\ HeaderReads(q)

Ordered(s, step) == \A i \in 1 .. Len(s) - 1 : s[i] + step <= s[i + 1]

OneBase(offsets) == Cardinality({i \in DOMAIN offsets : offsets[i] = 0}) = 1

\* _validate_rule_ranges
RulesInRange ==
    /\ DefaultBuildingShare \in 0 .. 10000 /\ DefaultAfaRate >= 0
    /\ DefaultMarginalTax \in 0 .. 9999
    /\ Ordered(InterestOffsets, 0) /\ OneBase(InterestOffsets)
    /\ Ordered(RepaymentSteps, 1) /\ \A i \in DOMAIN RepaymentSteps : RepaymentSteps[i] > 0
    /\ 0 <= DscrBand.amber /\ DscrBand.amber <= DscrBand.green
    /\ CashflowBand.amber <= CashflowBand.green

\* _financing_provenance: a purchase is an assumption until it says more.
Financing(q) ==
    [source |-> IF q.financing = "absent" THEN "annahme" ELSE q.financing]

-----------------------------------------------------------------------------
(* What is frozen.                                                         *)

\* The source of the year's depreciation: the version of the rules is always
\* named.
Source(q, source) ==
    [source |-> source, assumption |-> source = "assumption",
     version |-> CASE source = "reference" -> q.texts["record_version"]
                   [] source = "wizard" -> q.texts["afa_record_version"]
                   [] OTHER -> "named"]

\* _afa_provenance_snapshot, when the engine names no source.
FrozenAfa(f) ==
    IF Referenced(f) THEN "reference"
    ELSE IF "annual_full_afa" \in DOMAIN f THEN "wizard" ELSE "assumption"

NoFigures ==
    [values |-> <<>>, slots |-> <<>>, bank |-> <<>>, interest_axis |-> <<>>, repayment_axis |-> <<>>]

\* InvestmentResult: what a blocked case has no figure for is empty.
ResultRow(q, r) ==
    [financing |-> Financing(q)]
    @@ r @@ (IF r.outcome = "hard_block" THEN NoFigures ELSE [guard |-> <<>>])

InputRow(q, row) ==
    [facts |-> q.facts, texts |-> q.texts, financing |-> Financing(q), layout |-> q.layout,
     version |-> 1,
     afa |-> Source(q, IF row.outcome = "calculated" /\ "afa" \in DOMAIN row.values
                       THEN row.values.afa.source ELSE FrozenAfa(q.facts))]

-----------------------------------------------------------------------------
(* What the tables accept.                                                 *)

\* _INVESTMENT_PUBLIC_VALUE_CHECKS
PublicValues(input) ==
    /\ InRange(input.facts)
    /\ NamedIfSent(input, "afa_record_version")
    /\ "annual_full_afa" \in DOMAIN input.facts => Named(input, "afa_record_version")

\* _INVESTMENT_AFA_REFERENCE_VALUES: needed or not, a text is not blank.
ReferenceValues(input) ==
    /\ \A n \in {"source", "record_version"} : NamedIfSent(input, n)
    /\ Referenced(input.facts) => Named(input, "source") /\ Named(input, "record_version")

\* _INVESTMENT_BANK_HEADER_VALUES
HeaderValues(input) == NamedIfSent(input, "header")

\* _INVESTMENT_RULE_VALUES_CHECK
RuleValues ==
    /\ DefaultBuildingShare \in 0 .. 10000 /\ DefaultAfaRate >= 0 /\ DefaultMarginalTax \in 0 .. 9999
    /\ Len(InterestOffsets) = 5 /\ Ordered(InterestOffsets, 0) /\ OneBase(InterestOffsets)
    /\ Len(RepaymentSteps) = 4 /\ RepaymentSteps[1] > 0 /\ Ordered(RepaymentSteps, 1)
    /\ DscrBand.amber >= 0 /\ DscrBand.green >= DscrBand.amber
    /\ CashflowBand.green >= CashflowBand.amber

\* The checks of investment_input_snapshot; the first version follows none.
InputAccepted(input) ==
    /\ input.version = 1
    /\ PublicValues(input) /\ ReferenceValues(input) /\ HeaderValues(input)
    /\ RuleValues
    /\ input.financing.source \in {"annahme", "indikativ", "angebot"}
    /\ input.afa.version = "named"

\* _INVESTMENT_RESULT_COMPLETE_CHECK
ResultComplete(row) ==
    DOMAIN row = DOMAIN NoFigures \cup {"outcome", "financing", "findings", "warnings", "guard"}

\* _INVESTMENT_RESULT_VARIANT_CHECK
ResultVariant(row) ==
    \/ row.outcome = "calculated" /\ row.guard = <<>>
    \/ /\ row.outcome = "hard_block"
       /\ \A n \in DOMAIN NoFigures : row[n] = <<>>
       /\ {"firstInterest", "firstRepayment"} \subseteq DOMAIN row.guard

\* The checks of investment_result_snapshot.
ResultAccepted(row) ==
    /\ row.financing.source \in {"annahme", "indikativ", "angebot"}
    /\ ResultComplete(row) /\ ResultVariant(row)

-----------------------------------------------------------------------------

Refused(code) == [kind |-> "refused", code |-> code]

\* A row that a table refuses fails the request, and nothing is kept.
Failed == [kind |-> "failed"]

\* The input and its result are stored together or not at all.
Stored(input, row) ==
    IF InputAccepted(input) /\ ResultAccepted(row)
    THEN [kind |-> "case", input |-> input, result |-> row]
    ELSE Failed

Frozen(q, row) == Stored(InputRow(q, row), row)

\* create_case
CreateCase(q) ==
    IF ~ValidFacts(q) THEN Refused(422)
    ELSE IF ~Enabled(q.events) THEN Refused(403)
    ELSE IF q.layout = "foreign" \/ ~PublicInput(q) \/ ~RulesInRange \/ ~Calculable(q.facts)
    THEN Refused(422)
    ELSE Frozen(q, ResultRow(q, Snapshot(q.facts)))

-----------------------------------------------------------------------------
(* What is shown of a case, as long as the access is open.                 *)

\* get_case, get_sensitivity, get_bank_view, get_bank_pdf: nothing is computed
\* again.
View(kept, view) ==
    CASE view = "case" ->
            [n \in {"outcome", "values", "slots", "findings", "warnings"} |-> kept.result[n]]
      [] view = "sensitivity" ->
            [n \in {"interest_axis", "repayment_axis"} |-> kept.result[n]]
      [] view = "bank" -> [bank |-> kept.result.bank]
      [] view = "pdf" -> [result |-> kept.result, layout |-> kept.input.layout]

\* _stored_case
ShowCase(kept, view, events) ==
    IF ~Enabled(events) THEN Refused(403)
    ELSE IF kept.kind # "case" THEN Refused(404)
    ELSE [kind |-> "shown", view |-> View(kept, view)]
=============================================================================
