----------------------------- MODULE MCEngines -----------------------------
(***************************************************************************)
(* Checks the pure engines over bounded inputs: one call per behaviour,    *)
(* its result compared with a reference that is defined another way. The   *)
(* calls of MCSettlement, which this module extends, are among them.       *)
(***************************************************************************)
EXTENDS MCSettlement, CostAllocation, HeatingReference

Afa    == INSTANCE DepreciationReference
Export == INSTANCE TaxExport
Guard  == INSTANCE GuardRules
Uvi    == INSTANCE UviBlocks
Case   == INSTANCE InvestmentReference
Air    == INSTANCE WeatherStation

-----------------------------------------------------------------------------
(* Operating costs: a window of four days, two units, up to three          *)
(* tenancies, the first two of them in unit 1.                             *)

Window == [from |-> 1, to |-> 5]

Rented(t, u, from, to) == [tenancy |-> t, unit |-> u, from |-> from, to |-> to]

\* Changes of renter inside, at the edge of and outside the window; the last
\* set claims day 3 twice.
Rentals ==
    {{}, {Rented(1, 1, 1, Forever)}, {Rented(1, 1, 0, 3), Rented(3, 2, 2, Forever)},
     {Rented(1, 1, 0, 3), Rented(2, 1, 3, 5)}, {Rented(1, 1, 2, 3), Rented(2, 1, 4, Forever)},
     {Rented(1, 1, 0, 1), Rented(2, 1, 2, 5), Rented(3, 2, 1, Forever)},
     {Rented(1, 1, 0, 4), Rented(2, 1, 3, 5)}}

Agreement(t, from, to, named, clause) ==
    [tenancy |-> t, from |-> from, to |-> to, agreed |-> TRUE, named |-> named,
     clause |-> clause]

\* Agreements of one tenancy that do not overlap.
AgreementsOf(t) ==
    {{}, {Agreement(t, 0, Forever, TRUE, TRUE)}, {Agreement(t, 2, Forever, FALSE, TRUE)},
     {Agreement(t, 0, 3, TRUE, FALSE), Agreement(t, 3, 4, TRUE, TRUE)},
     {[Agreement(t, 1, Forever, TRUE, TRUE) EXCEPT !.agreed = FALSE]}}

Agreements ==
    {a \cup b \cup c : a \in AgreementsOf(1), b \in AgreementsOf(2),
                       c \in {{}, {Agreement(3, 0, Forever, TRUE, TRUE)}}}

CostOf(key, unit, tenancy) ==
    {[from |-> 0, to |-> 3, state |-> "allocable", held |-> FALSE, amount |-> amount,
      key |-> key, unit |-> unit, tenancy |-> tenancy, naming |-> n, new |-> n] :
        amount \in {7, 100}, n \in BOOLEAN}

\* Costs of another period, voided, without a classification or not released.
OtherCosts ==
    {[c EXCEPT !.from = start, !.to = start + 3, !.state = state, !.held = held] :
        c \in CostOf("AREA", NoOne, NoOne), start \in {1, 5}, held \in BOOLEAN,
        state \in {"allocable", "not_allocable", "unclassified", "voided"}}

BuildingFacts(rentals, agreements, costs, modes, persons, selfUse, readings) ==
    [window : {Window}, limit : {5}, area : {<<2, 3>>}, mode : modes, tenancies : rentals,
     agreements : agreements, persons : persons, selfUse : selfUse,
     reading : readings, cost : costs]

NoReading == <<NoValue, NoValue>>

Persons(t, count, from, to) == [tenancy |-> t, count |-> count, from |-> from, to |-> to]

\* Open counts that outlive their tenancy, a change of the count, no count.
Counts ==
    {{}, {Persons(1, 2, 0, Forever), Persons(2, 1, 0, Forever)},
     {Persons(1, 2, 0, 2), Persons(1, 3, 2, Forever), Persons(3, 1, 1, 3)}}

OwnUse(u, area, from, to) == [unit |-> u, area |-> area, from |-> from, to |-> to]

OwnUses ==
    {{}, {OwnUse(1, 2, 3, Forever)}, {OwnUse(1, 1, 0, 5), OwnUse(2, 3, 2, 4)}}

SmallBuildings ==
    BuildingFacts(Rentals, Agreements,
        UNION {CostOf("AREA", NoOne, NoOne), CostOf("UNITS", NoOne, NoOne),
               CostOf("DIRECT", 1, NoOne), CostOf("DIRECT", NoOne, 1)},
        {"keine"}, {{}}, {{}}, {NoReading})
    \cup {[f EXCEPT !.limit = limit] : limit \in {4, 5}, f \in
        BuildingFacts(Rentals, {{Agreement(1, 0, Forever, TRUE, TRUE)}}, OtherCosts,
            {"keine"}, {{}}, {{}}, {NoReading})}
    \cup BuildingFacts(Rentals, Agreements, CostOf("PERSONS", NoOne, NoOne),
        {"letzte_belegung", "immer_1", "keine"}, Counts, OwnUses, {NoReading})
    \cup BuildingFacts(Rentals, Agreements, CostOf("CONSUMPTION", NoOne, NoOne),
        {"keine"}, {{}}, {{}}, {0, 2, NoValue} \X {0, 3, NoValue})

\* The buildings whose costs are allocated, as the tables keep them.
CONSTANT Buildings

ASSUME BuildingsAssumption == \A f \in Buildings : Stored(f)

CostCalls == [kind : {"costs"}, facts : Buildings]

AllocateCosts ==
    /\ result = NoResult /\ call.kind = "costs"
    /\ result' = Allocate(call.facts)
    /\ UNCHANGED call

BillHeating ==
    /\ result = NoResult /\ call.kind = "heating"
    /\ result' = HeatingOf(call.facts)
    /\ UNCHANGED call

DeductSection12 ==
    /\ result = NoResult /\ call.kind = "reduction"
    /\ result' = Deductions(call.claims, call.grounds)
    /\ UNCHANGED call

-----------------------------------------------------------------------------

\* The depreciation of a year, and its place in the tax record of that year.
DepreciationCalls ==
    [kind : {"afa"}, facts : Afa!Questions] \cup [kind : {"record"}, facts : Afa!Records]

CalculateDepreciation ==
    /\ result = NoResult /\ call.kind = "afa"
    /\ result' = Afa!Calculate(call.facts)
    /\ UNCHANGED call

RecordTaxYear ==
    /\ result = NoResult /\ call.kind = "record"
    /\ result' = Afa!AfaRecord(call.facts)
    /\ UNCHANGED call

\* The ledgers of buildings, with what is selected for an export.
CONSTANT Ledgers

ASSUME LedgersAssumption == \A f \in Ledgers : Export!Stored(f)

SmallLedgers == Export!ExportQuestions

\* A readiness attempt for one selection of facts, and an export of the same.
ExportTaxYear ==
    /\ result = NoResult /\ call.kind = "export"
    /\ result' = [kind |-> "export", attempt |-> Export!Readiness(call.facts),
                   archive |-> Export!Generate(call.facts)]
    /\ UNCHANGED call

\* The facts that the guards look at, on the days they look at them.
CONSTANT Subjects

ASSUME SubjectsAssumption == Subjects \subseteq Guard!Inputs

SmallSubjects == Guard!GuardQuestions

EvaluateGuard ==
    /\ result = NoResult /\ call.kind = "guard"
    /\ result' = Guard!Evaluate(call.facts)
    /\ UNCHANGED call

\* The consumption information of a unit for a month, and the month's figure
\* between two readings of a heat meter.
InformRenter ==
    /\ result = NoResult /\ call.kind = "uvi"
    /\ result' = Uvi!Inform(call.facts)
    /\ UNCHANGED call

InterpolateMonth ==
    /\ result = NoResult /\ call.kind = "month"
    /\ result' = [kind |-> "month",
                   figure |-> Uvi!Interpolated(call.facts.readings, call.facts.month)]
    /\ UNCHANGED call

\* The station that stands for a postal code, and the code's annual factor.
AssignStation ==
    /\ result = NoResult /\ call.kind = "station"
    /\ result' = Air!Assign(call.facts)
    /\ UNCHANGED call

ResolveFactor ==
    /\ result = NoResult /\ call.kind = "factor"
    /\ result' = Air!Factor(call.facts)
    /\ UNCHANGED call

\* A planned purchase, from its facts.
PlanPurchase ==
    /\ result = NoResult /\ call.kind = "case"
    /\ result' = Case!CreateCase(call.facts)
    /\ UNCHANGED call

-----------------------------------------------------------------------------

AnswerCalls ==
    [kind : {"export"}, facts : Ledgers]
    \cup [kind : {"guard"}, facts : Subjects]
    \cup [kind : {"uvi"}, facts : Uvi!UviQuestions]
    \cup [kind : {"month"}, facts : Uvi!Interpolations]
    \cup [kind : {"case"}, facts : Case!InvestmentQuestions]
    \cup [kind : {"station"}, facts : Air!StationQuestions]
    \cup [kind : {"factor"}, facts : Air!FactorQuestions]

EnginesInit ==
    /\ call \in SettleCalls \cup SplitCalls \cup CostCalls \cup HeatingCalls \cup ReductionCalls
                \cup DepreciationCalls \cup AnswerCalls
    /\ result = NoResult

EnginesNext ==
    \/ Next
    \/ AllocateCosts \/ BillHeating \/ DeductSection12
    \/ CalculateDepreciation \/ RecordTaxYear \/ ExportTaxYear
    \/ EvaluateGuard \/ InformRenter \/ InterpolateMonth \/ PlanPurchase
    \/ AssignStation \/ ResolveFactor

EnginesSpec == EnginesInit /\ [][EnginesNext]_vars
-----------------------------------------------------------------------------
(* Operating costs, day by day.                                            *)

OccupiedBy(f, u, d) == {r.tenancy : r \in {x \in f.tenancies : x.unit = u /\ d \in DaysOf(x)}}

\* Who lives in a unit on a day, as the persons key counts it: each tenancy's
\* counts, and in an empty unit the fiction, unless the owner uses all of it.
CountedOn(f, t, d) ==
    SumOf([c \in {x \in f.persons : x.tenancy = t /\ d \in DaysOf(x)} |-> c.count])

FictionOn(f, u, d) ==
    IF \/ f.mode = "keine" \/ OccupiedBy(f, u, d) # {}
       \/ \E s \in f.selfUse : s.unit = u /\ s.area >= f.area[u] /\ d \in DaysOf(s)
    THEN 0
    ELSE IF f.mode = "immer_1" THEN 1 ELSE Later(1, LastKnown(f, u, d))

\* The weight of tenancy t on unit u for day d, and of all on that day.
DayWeight(f, t, u, d) ==
    IF t \notin OccupiedBy(f, u, d) THEN 0
    ELSE CASE f.cost.key = "AREA" -> f.area[u]
           [] f.cost.key = "PERSONS" -> CountedOn(f, t, d)
           [] f.cost.key = "DIRECT" -> IF u = f.cost.unit THEN 1 ELSE 0
           [] OTHER -> 1

EmptyWeight(f, u, d) ==
    IF f.cost.key = "PERSONS" THEN FictionOn(f, u, d)
    ELSE IF OccupiedBy(f, u, d) # {} \/ (f.cost.key = "DIRECT" /\ u # f.cost.unit) THEN 0
    ELSE IF f.cost.key = "AREA" THEN f.area[u] ELSE 1

UnitDays(f) == (DOMAIN f.area) \X DaysOf(f.window)

PayingWeight(f, t) ==
    SumOf([p \in UnitDays(f) |->
              IF AgreedOn(f, t, p[2]) THEN DayWeight(f, t, p[1], p[2]) ELSE 0])

Tenants(f) == {r.tenancy : r \in f.tenancies}

OwnerWeight(f) ==
    SumOf([p \in UnitDays(f) |->
              EmptyWeight(f, p[1], p[2])
              + SumOf([t \in Tenants(f) |->
                          IF AgreedOn(f, t, p[2]) THEN 0 ELSE DayWeight(f, t, p[1], p[2])])])

\* A metered figure is one renter's who had the unit, and an agreement, on
\* every day; a unit without one renter has no figure.
SoleUser(f, u) ==
    {t \in Tenants(f) : \A d \in DaysOf(f.window) : OccupiedBy(f, u, d) = {t}}

MeteredWeight(f, t) ==
    SumOf([u \in DOMAIN f.area |->
              IF /\ SoleUser(f, u) = {t} /\ f.reading[u] # NoValue
                 /\ \A d \in DaysOf(f.window) : AgreedOn(f, t, d)
              THEN f.reading[u] ELSE 0])

Metered(f) ==
    SumOf([u \in DOMAIN f.area |->
              IF f.reading[u] # NoValue
                 /\ (SoleUser(f, u) # {}
                     \/ \A d \in DaysOf(f.window) : OccupiedBy(f, u, d) = {})
              THEN f.reading[u] ELSE 0])

WeightsOf(t) ==
    SumOf([l \in {x \in DOMAIN result.weight : Of(x) = t} |-> result.weight[l]])

(***************************************************************************)
(* A renter weighs as much as the days on which the renter has the unit    *)
(* and an agreement that covers the cost; every other day, and the fiction *)
(* for an empty one, weighs on the owner; no day is counted twice or lost. *)
(* Each amount is its exact share to half a cent and stands on a renter's  *)
(* document, and the renters and the owner together carry the cost. A cost *)
(* assigned to one tenancy is that tenancy's, whatever its days. (Code:    *)
(* nk-engine engine.py, person_counts.py, statement_service.py.)           *)
(***************************************************************************)
AllocationMatchesDays ==
    call.kind = "costs" /\ result.kind = "lines" =>
        LET f == call.facts
            whole == SumOf(result.weight) + result.ownerWeight
        IN  /\ IF f.cost.tenancy # NoOne
               THEN whole = 1 /\ WeightsOf(f.cost.tenancy) = 1
               ELSE IF f.cost.key = "CONSUMPTION"
               THEN /\ \A t \in Tenants(f) : WeightsOf(t) = MeteredWeight(f, t)
                    /\ whole = Metered(f)
               ELSE /\ \A t \in Tenants(f) : WeightsOf(t) = PayingWeight(f, t)
                    /\ result.ownerWeight = OwnerWeight(f)
            /\ \A l \in DOMAIN result.share :
                  LET miss == result.share[l] * whole - f.cost.amount * result.weight[l]
                  IN  whole # 0 => 2 * miss <= whole /\ -2 * miss <= whole
            /\ whole = 0 => result.owner = f.cost.amount
            /\ SumOf(result.share) + result.owner = f.cost.amount
            /\ f.cost.tenancy = NoOne /\ ~HeldBack(f) =>
                  \A l \in DOMAIN result.share :
                      result.share[l] # 0 => l \in TenantCopy(f, DOMAIN result.share, Of(l))
            /\ f.cost.key \in {"AREA", "UNITS"} =>
                  whole = SumOf([p \in UnitDays(f) |->
                                    IF f.cost.key = "AREA" THEN f.area[p[1]] ELSE 1])

(***************************************************************************)
(* The prorated invoices are the renters', the owner's and the landlord's  *)
(* CO2 part, to the cent. Base costs follow area and days, consumption     *)
(* what was counted for a party or the degree days of its days, warm water *)
(* the central meter; each amount is its exact share to half a cent, and   *)
(* with area alone the whole is rounded once. Confirmed amounts are passed *)
(* on, scaled if they are gross, and deductions never exceed their cap.    *)
(* (Code: heating-engine engine.py, page01b.py, mdl.py, self_billing.py.)  *)
(***************************************************************************)
HeatingReconciles ==
    call.kind \in {"heating", "reduction"} => HeatingAgrees(call, result)

(***************************************************************************)
(* Depreciation of a whole series of years: a year of AfA is the exact     *)
(* months' share of the basis at the year's rate, the years never take     *)
(* more than the basis, and a tax record counts the rented area month by   *)
(* month, splits AfA and loan interest by it and reclassifies measures     *)
(* above the guard's limit. (Code: afa_engine, routers/tax.py, afa.py.)    *)
(***************************************************************************)
AfaReconciles ==
    result # NoResult =>
        /\ call.kind = "afa" => Afa!QuestionAgrees(call.facts, result)
        /\ call.kind = "record" => Afa!RecordAgrees(call.facts, result)

(***************************************************************************)
(* An export counts each payment of the year that no other corrects once,  *)
(* and nothing else; the attempt finds the payments without a day, or that *)
(* there is no payment; and the rows for DATEV are the payments with an    *)
(* account, each once, to the cent, in the order of their days.            *)
(* (Code: export_engine, routers/tax.py.)                                  *)
(***************************************************************************)
ExportsAgree ==
    call.kind = "export" /\ result # NoResult =>
        Export!ExportAgrees(call.facts, result.attempt, result.archive)

(***************************************************************************)
(* Each of the landlord's guards answers as its section of the law says    *)
(* of the same facts, told span by span: limits that are reached count,    *)
(* deadlines end with their last day, and a missing fact is asked for.     *)
(* (Code: guard-engine evaluators.py, page05_guards.py.)                   *)
(***************************************************************************)
GuardsAgree ==
    call.kind = "guard" /\ result # NoResult => Guard!GuardAgrees(call.facts, result)

(***************************************************************************)
(* The monthly information: the months compared are the ones asked for,    *)
(* every figure comes from the readings, the weather and the comparables   *)
(* of exactly its month, an incomplete basis refuses the run and never     *)
(* prints zero, and a month between two readings is its part of the whole. *)
(* A postal code's station is the nearest that measured both months, at    *)
(* one place, and its annual factor is the last file's that was read.      *)
(* (Code: routers/uvi_runs.py, uvi-engine, heizspiegel.py, warm_water.py,  *)
(* adapters dwd.py.)                                                       *)
(***************************************************************************)
UviAgrees ==
    result # NoResult =>
        /\ call.kind = "uvi" => Uvi!InformationAgrees(call.facts, result)
        /\ call.kind = "month" => Uvi!InterpolationAgrees(call.facts, result.figure)
        /\ call.kind = "station" => Air!AssignmentAgrees(call.facts, result)
        /\ call.kind = "factor" => Air!FactorAgrees(call.facts, result)

(***************************************************************************)
(* A planned purchase: only the facts that were given count, a payment     *)
(* that repays nothing blocks the case, the year's rent is spent to the    *)
(* cent, the break-even rent leaves nothing, and the rows of an axis are   *)
(* the same case with one fact changed. (Code: investment-engine,          *)
(* routers/investment.py.)                                                 *)
(***************************************************************************)
InvestmentAgrees ==
    call.kind = "case" /\ result # NoResult => Case!CaseAgrees(call.facts, result)

(***************************************************************************)
(* When every unit was read, heating is billed by what was read: a change  *)
(* of renter with interim readings is two measured segments                *)
(* (docs/03, E11), never an allocation by area.                            *)
(***************************************************************************)
InterimReadingsCount ==
    call.kind = "heating" /\ result.kind = "heat" /\ AllRead(call.facts) => ~result.byArea
=============================================================================
