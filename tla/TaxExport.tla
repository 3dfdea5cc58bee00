----------------------------- MODULE TaxExport -----------------------------
(***************************************************************************)
(* The readiness of a tax export, the Anlage V overview and the DATEV rows *)
(* of a building and a year, as the export engine and the tax router       *)
(* compute them from the stored tax events. Accounts are model values, 0   *)
(* where none is stored; texts and encodings are left out.                 *)
(*                                                                         *)
(* f is [events, building, year, kind, afa, profile, mapping, ...]: afa    *)
(* and profile hold one record or none; mapping is a function.             *)
(***************************************************************************)
EXTENDS Calendar, Cents, Sequences, Bags, TLC

NoDay == [y |-> 0, m |-> 0, d |-> 0]
Unset == -1
NoCategory == "none"
NoAccount == 0

-----------------------------------------------------------------------------
(* What the tables keep: an event has its own id and corrects an event of  *)
(* its building; what rent was due comes from its source, unchecked.       *)

Rows ==
    [id : Nat \ {0}, building : Nat, supersedes : Nat, paid : Days \cup {NoDay},
     due : Days \cup {NoDay}, amount : Nat, direction : {"einnahme", "ausgabe"},
     category : STRING, recurring : BOOLEAN, cold : Int, advance : Int,
     unmatched : BOOLEAN, expected : Int, vat : BOOLEAN]

Stored(f) ==
    /\ f.events \in Seq(Rows)
    /\ \A i, j \in DOMAIN f.events : f.events[i].id = f.events[j].id => i = j
    /\ \A i, j \in DOMAIN f.events :
          f.events[j].supersedes = f.events[i].id => f.events[j].building = f.events[i].building
    /\ f.afa # <<>> => f.afa[1].afa \in Int /\ f.afa[1].interest \in Int

-----------------------------------------------------------------------------
(* The tax year of a payment. The window is around New Year.               *)

InWindow(x) == (x.m = 12 /\ x.d >= 22) \/ (x.m = 1 /\ x.d <= 10)

\* Mutant: a payment in the window always follows its due date.
TaxYearByDueDate(e) == IF e.recurring /\ e.due # NoDay /\ InWindow(e.paid) THEN e.due.y ELSE e.paid.y

AssignTaxYear(e) ==
    IF e.recurring /\ e.due # NoDay /\ InWindow(e.paid) /\ InWindow(e.due) THEN e.due.y ELSE e.paid.y

\* The building's events that no other event of the building supersedes.
Current(f) ==
    LET own == {f.events[i] : i \in {j \in DOMAIN f.events : f.events[j].building = f.building}}
    IN  {e \in own : \A o \in own : o.supersedes # e.id}

-----------------------------------------------------------------------------
(* Readiness.                                                              *)

\* The account of the adviser's chart; an adviser's override is not read.
SelectedAccount(entry, chart) ==
    CASE chart = "skr03" -> entry.skr03
      [] chart = "skr04" -> entry.skr04
      [] OTHER -> NoAccount

HasAccount(f, category, chart) ==
    category \in DOMAIN f.mapping /\ SelectedAccount(f.mapping[category], chart) # NoAccount

\* What is found of one event: <<severity, code, event>>.
EventFindings(f, e, chart) ==
    {x \in {<<"rot", "payment_without_date", e.id, e.paid = NoDay>>,
            <<"gelb", "payment_without_category", e.id, e.category = NoCategory>>,
            <<"gelb", "missing_selected_account", e.id,
              e.category \notin {NoCategory, "rent_collection", "kaution", "nk_guthaben"}
                  /\ ~HasAccount(f, e.category, chart)>>,
            <<"gelb", "unmatched_party", e.id, e.unmatched>>,
            <<"gelb", "unresolved_year_window", e.id,
              e.recurring /\ e.due = NoDay /\ e.paid # NoDay /\ InWindow(e.paid)>>,
            <<"gelb", "expected_rent_gap", e.id, e.expected # Unset /\ e.expected # e.amount>>,
            <<"gelb", "vat_case_detected", e.id, e.vat>>} : x[4]}

SemanticFindings(f, ledger, interest, chart, numbers) ==
    {<<x[1], x[2], x[3]>> : x \in UNION {EventFindings(f, e, chart) : e \in ledger}}
    \cup (IF ledger = {} THEN {<<"rot", "no_payment_data_in_requested_period", 0>>} ELSE {})
    \cup (IF interest = <<>> THEN {<<"gelb", "object_without_afa_record", 0>>}
          ELSE IF interest[1].cents # 0 /\ ~interest[1].confirmed
          THEN {<<"gelb", "unconfirmed_interest_proposal", 0>>} ELSE {})
    \cup (IF f.kind = "datev_extf" /\ ~numbers
          THEN {<<"rot", "datev_without_adviser_or_client_number", 0>>} ELSE {})

\* The router passes the cash facts alone: an event's signals (recurring,
\* expected amount, VAT, unmatched) do not reach the findings, and neither
\* does the stored record's interest, which it looks for at another place.
CashFacts(e) ==
    [e EXCEPT !.recurring = FALSE, !.unmatched = FALSE, !.expected = Unset, !.vat = FALSE]

ReadinessLedger(f) ==
    {CashFacts(e) : e \in {x \in Current(f) : x.paid = NoDay \/ AssignTaxYear(x) = f.year}}

\* The stored AfA record must be the building's and the year's, the mapping
\* the year's. Every attempt is stored and blocked.
Readiness(f) ==
    IF \/ f.afa # <<>> /\ (f.afa[1].building # f.building \/ f.afa[1].year # f.year)
       \/ f.mappingYear # f.year
    THEN [kind |-> "refused"]
    ELSE LET chart == IF f.profile = <<>> THEN "none" ELSE f.profile[1].chart
             found == SemanticFindings(f, ReadinessLedger(f),
                          IF f.afa = <<>> THEN <<>> ELSE <<[cents |-> 0, confirmed |-> FALSE]>>,
                          chart, f.profile # <<>> /\ f.profile[1].numbers)
         IN  [kind |-> "attempt", findings |-> found, blocked |-> TRUE]

-----------------------------------------------------------------------------
(* The overview.                                                           *)

RentComponents(e) ==
    LET cold == Min({e.amount, e.cold})
        advance == Min({Max({0, e.amount - cold}), e.advance})
    IN  [cold |-> cold, advance |-> advance, credit |-> e.amount - cold - advance]

\* Of a payment: its part of the income, and of the costs.
Income(e) ==
    CASE e.category = "rent_collection" -> RentComponents(e).cold + RentComponents(e).advance
      [] e.category = "kaution" -> 0
      [] e.category \notin {"rent_collection", "kaution"} /\ e.direction = "einnahme" -> e.amount
      [] OTHER -> IF e.category \in {"nk_guthaben", "kaltmiete", "nk_vorauszahlung"}
                  THEN -e.amount ELSE 0

CashCost(e) ==
    IF e.direction = "ausgabe"
       /\ e.category \notin {"rent_collection", "kaution", "nk_guthaben", "kaltmiete", "nk_vorauszahlung"}
    THEN e.amount ELSE 0

\* The categories a payment adds to the export.
CategoriesOf(e) ==
    IF e.category = "rent_collection"
    THEN (IF RentComponents(e).cold # 0 THEN {"kaltmiete"} ELSE {})
         \cup (IF RentComponents(e).advance # 0 THEN {"nk_vorauszahlung"} ELSE {})
    ELSE {e.category} \ {"kaution", NoCategory}

Overview(f, ledger, chart) ==
    LET afa == f.afa[1]
        counted == {e \in ledger : e.paid # NoDay /\ AssignTaxYear(e) = f.year}
        income == SumOf([e \in counted |-> Income(e)])
        cash == SumOf([e \in counted |-> CashCost(e)])
        costs == cash + afa.afa + afa.interest
        unconfirmed == afa.interest # 0 /\ ~afa.confirmed
        proposal == IF unconfirmed THEN {<<"gelb", "unconfirmed_interest_proposal", 0>>} ELSE {}
    IN  [income |-> income, cash |-> cash, advertising |-> costs,
         result |-> income - costs,
         credit |-> -SumOf([e \in {x \in counted : x.category = "nk_guthaben"
                                                    /\ x.direction = "ausgabe"} |-> e.amount]),
         components |-> {<<e.id, RentComponents(e)>> :
                            e \in {x \in counted : x.category = "rent_collection"}},
         effect |-> {<<e.id, Income(e) - CashCost(e)>> : e \in counted},
         account |-> {<<e.id, SelectedAccount(f.mapping[e.category], chart)>> :
                         e \in {x \in counted : HasAccount(f, x.category, chart)}},
         \* The open interest is reported twice.
         findings |-> SetToBag(SemanticFindings([f EXCEPT !.kind = "anlage_v"], counted,
                                   <<[cents |-> afa.interest, confirmed |-> afa.confirmed]>>,
                                   "none", FALSE))
                      (+) SetToBag(proposal),
         categories |-> (UNION {CategoriesOf(e) : e \in counted}
                         \cup (IF afa.afa # 0 THEN {"afa"} ELSE {})
                         \cup (IF afa.interest # 0 THEN {"schuldzinsen"} ELSE {}))
                        \ {"disagio", "erhaltungsaufwand"}]

BookedBefore(a, b) == Before(a.paid, b.paid) \/ (a.paid = b.paid /\ a.id < b.id)

\* The DATEV rows: every current event with an account, of every year, by
\* date and event. The amount's digits are split before the decimal comma.
DatevRows(f, ledger, chart) ==
    LET booked == {e \in ledger : HasAccount(f, e.category, chart)}
    IN  IF \E e \in booked : e.paid = NoDay THEN <<>>
        ELSE [i \in 1 .. Cardinality(booked) |->
                LET e == CHOOSE x \in booked : Cardinality({o \in booked : BookedBefore(o, x)}) = i - 1
                IN  [id |-> e.id, euros |-> e.amount \div 100, cents |-> e.amount % 100,
                     day |-> e.paid.d, month |-> e.paid.m]]

\* The lines of the PDF; rent booked by its component has no line of its own,
\* and the payments it names are those of every year.
PdfLines(overview, ledger) ==
    [cold |-> MapThenSumSet(LAMBDA c : c[2].cold, overview.components),
     advance |-> MapThenSumSet(LAMBDA c : c[2].advance, overview.components),
     advertising |-> overview.advertising, result |-> overview.result,
     payments |-> Cardinality({e \in ledger : e.direction = "einnahme"}),
     costs |-> Cardinality({e \in ledger : e.direction = "ausgabe"})]

\* Generation for a verified test: only from an attempt that is not blocked,
\* with a record and a mapping that are not.
Generate(f) ==
    LET ledger == Current(f)
        chart == IF f.profile = <<>> THEN "skr03" ELSE f.profile[1].chart
    IN  IF \/ ~f.released \/ f.afa = <<>> \/ (f.kind = "datev_extf" /\ f.profile = <<>>)
           \/ f.kind = "datev_extf"
              /\ \E e \in ledger : HasAccount(f, e.category, chart) /\ e.paid = NoDay
        THEN [kind |-> "refused"]
        ELSE LET overview == Overview(f, ledger, chart) IN
             [kind |-> "archive", overview |-> overview,
              rows |-> IF f.kind = "datev_extf" THEN DatevRows(f, ledger, chart) ELSE <<>>,
              lines |-> PdfLines(overview, ledger)]

-----------------------------------------------------------------------------
(***************************************************************************)
(* Ledgers for the check of TaxExport, and what the export must agree      *)
(* with, payment by payment.                                               *)
(***************************************************************************)

Event ==
    [id |-> 1, building |-> 1, supersedes |-> 0, paid |-> Date(2025, 6, 3), due |-> NoDay, amount |-> 900,
     direction |-> "einnahme", category |-> "kaltmiete", recurring |-> FALSE, cold |-> 0,
     advance |-> 0, unmatched |-> FALSE, expected |-> Unset, vat |-> FALSE]

\* A rent paid and due around New Year.
RentEvents ==
    {[Event EXCEPT !.paid = p, !.due = d, !.recurring = r, !.category = "rent_collection", !.cold = 620,
         !.advance = 150, !.amount = a] :
        p \in {NoDay, Date(2024, 12, 22), Date(2025, 1, 10), Date(2025, 12, 21), Date(2025, 12, 28)},
        d \in {NoDay, Date(2025, 1, 1), Date(2025, 10, 5), Date(2024, 12, 31), Date(2026, 1, 10)},
        r \in BOOLEAN, a \in {600, 700, 800}}

\* Another payment: of each category and direction, of another year or
\* building, with the signals that the findings look for.
OtherEvents ==
    {[Event EXCEPT !.id = 2, !.category = c, !.direction = d, !.amount = 1234, !.paid = p] :
        c \in {"nk_guthaben", "kaution", "kaltmiete", "grundsteuer", NoCategory},
        d \in {"einnahme", "ausgabe"}, p \in {Date(2025, 1, 3), Date(2024, 3, 1)}}
    \cup {[Event EXCEPT !.id = 2, !.building = 2],
          [Event EXCEPT !.id = 2, !.recurring = TRUE, !.paid = Date(2025, 1, 3), !.vat = TRUE,
                        !.unmatched = TRUE, !.expected = 800]}

\* A correction of the first payment, or none.
Corrections ==
    {<<>>, <<[Event EXCEPT !.id = 3, !.supersedes = 1, !.amount = 650]>>,
     <<[Event EXCEPT !.id = 3, !.supersedes = 1, !.paid = Date(2024, 6, 3)]>>}

Accounts ==
    ("kaltmiete" :> [skr03 |-> 8100, skr04 |-> NoAccount]) @@
    ("grundsteuer" :> [skr03 |-> 4900, skr04 |-> 6300])

ExportFacts ==
    [events |-> <<>>, building |-> 1, year |-> 2025, kind |-> "anlage_v_csv", released |-> TRUE,
     afa |-> <<[building |-> 1, year |-> 2025, afa |-> 100, interest |-> 40, confirmed |-> FALSE]>>,
     profile |-> <<[chart |-> "skr03", numbers |-> TRUE]>>, mapping |-> Accounts, mappingYear |-> 2025]

ExportQuestions ==
    {[ExportFacts EXCEPT !.events = <<r, o>> \o c] :
        r \in RentEvents, o \in OtherEvents, c \in Corrections}
    \cup {[ExportFacts EXCEPT !.events = <<[Event EXCEPT !.paid = p], o>>, !.kind = "datev_extf"] :
            p \in {Date(2025, 6, 3), Date(2025, 1, 3), Date(2023, 12, 31)}, o \in OtherEvents}
    \cup {[ExportFacts EXCEPT !.events = e, !.kind = k, !.profile = p, !.afa = a, !.mappingYear = y,
                              !.released = b] :
            e \in {<<>>} \cup {<<o>> : o \in OtherEvents}, k \in {"anlage_v_pdf", "datev_extf"},
            p \in {<<>>} \cup {<<x>> : x \in [chart : {"skr03", "skr04", "none"}, numbers : BOOLEAN]},
            a \in {<<>>} \cup {<<x>> : x \in [building : {1}, year : {2024, 2025}, afa : {0}, interest : {7},
                                               confirmed : {TRUE}]},
            y \in {2025, 2024}, b \in BOOLEAN}

-----------------------------------------------------------------------------
(* A day of the ten days before or after a New Year's midnight.            *)

AroundNewYear(x) ==
    \E y \in {x.y, x.y + 1} :
        LET after == Ordinal(x) - Ordinal(Date(y, 1, 1)) IN -10 <= after /\ after <= 9

\* The payments that stand, by number: the corrected one does not.
Standing(f) ==
    {i \in DOMAIN f.events :
        f.events[i].building = f.building
        /\ ~\E j \in DOMAIN f.events : f.events[j].supersedes = f.events[i].id}

YearOf(e) ==
    IF e.recurring /\ e.due # NoDay /\ AroundNewYear(e.due) /\ AroundNewYear(e.paid)
    THEN e.due.y ELSE e.paid.y

\* What a payment does to the result: of a rent, what is due of it is income.
EffectOf(e) ==
    CASE e.category = "kaution" -> 0
      [] e.category = "rent_collection" -> Min({e.amount, Min({e.amount, e.cold}) + e.advance})
      [] OTHER -> IF e.direction = "einnahme" THEN e.amount ELSE -e.amount

InYear(f) == {i \in Standing(f) : f.events[i].paid # NoDay /\ YearOf(f.events[i]) = f.year}

OverviewAgrees(f, o) ==
    /\ o.result = SumOf([i \in InYear(f) |-> EffectOf(f.events[i])])
                    - f.afa[1].afa - f.afa[1].interest
    /\ o.income = o.result + o.advertising
    /\ o.effect = {<<f.events[i].id, EffectOf(f.events[i])>> : i \in InYear(f)}
    /\ \A c \in o.components :
          \E i \in InYear(f) :
             LET e == f.events[i] IN
             /\ e.id = c[1]
             /\ c[2].cold + c[2].advance + c[2].credit = e.amount /\ c[2].credit >= 0
             /\ e.cold >= 0 => c[2].cold >= 0
             /\ e.advance >= 0 => c[2].advance >= 0
             /\ c[2].advance > 0 => c[2].cold = e.cold

\* A row of every booked payment, of each one, in the order of the days, to
\* the cent.
RowsAgree(f, rows) ==
    LET RowOf(r, i) == i \in Standing(f) /\ f.events[i].id = r.id IN
    /\ \A k \in DOMAIN rows :
          \E i \in DOMAIN f.events :
              /\ RowOf(rows[k], i)
              /\ 100 * rows[k].euros + rows[k].cents = f.events[i].amount
              /\ f.events[i].paid.d = rows[k].day
    /\ \A k, l \in DOMAIN rows : k < l =>
          /\ rows[k].id # rows[l].id
          /\ \A i, j \in DOMAIN f.events : RowOf(rows[k], i) /\ RowOf(rows[l], j) =>
                ~Before(f.events[j].paid, f.events[i].paid)
    /\ f.kind = "datev_extf" =>
          \A i \in Standing(f) :
              HasAccount(f, f.events[i].category, f.profile[1].chart) =>
                  \E k \in DOMAIN rows : RowOf(rows[k], i)

ExportAgrees(f, attempt, archive) ==
    /\ attempt.kind = "attempt" =>
          /\ attempt.blocked
          /\ InYear(f) = {} /\ (\A i \in Standing(f) : f.events[i].paid # NoDay)
                <=> <<"rot", "no_payment_data_in_requested_period", 0>> \in attempt.findings
          /\ \A i \in Standing(f) :
                f.events[i].paid = NoDay
                    <=> <<"rot", "payment_without_date", f.events[i].id>> \in attempt.findings
          /\ \A x \in attempt.findings :
                x[3] = 0 \/ \E i \in Standing(f) : f.events[i].id = x[3]
    /\ archive.kind = "archive" =>
          OverviewAgrees(f, archive.overview) /\ RowsAgree(f, archive.rows)
          /\ archive.lines.result = archive.overview.result
=============================================================================
