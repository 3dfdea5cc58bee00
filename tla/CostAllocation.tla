--------------------------- MODULE CostAllocation ---------------------------
(***************************************************************************)
(* Operating costs from the stored facts of one building to the lines of a *)
(* statement: the facts the statement collects (statement_service.py,      *)
(* person_counts.py) and the engine that allocates one cost with them      *)
(* (packages/nk-engine: engine.py).                                        *)
(*                                                                         *)
(* `facts` is what the session reads:                                      *)
(*   window      the billing period, and the day twelve months after it    *)
(*   limit       began                                                     *)
(*   area, mode  an area per unit, the mode of the fictional occupancy     *)
(*   tenancies   rows [tenancy, unit, from, to]                            *)
(*   agreements  rows [tenancy, from, to, agreed, named, clause]           *)
(*   persons     rows [tenancy, count, from, to]                           *)
(*   selfUse     rows [unit, area, from, to]                               *)
(*   reading     cold water per unit, NoValue where there is no meter      *)
(*   cost        [from, to, state, held, amount, key, unit, tenancy,       *)
(*               naming, new]: its period, its latest classification, the  *)
(*               amount that may be allocated, the key with its target     *)
(* A tenancy has one row, so its days in the window are one segment.       *)
(***************************************************************************)
EXTENDS Cents, Sequences

-----------------------------------------------------------------------------
(* Half-open periods of days and the occupancy timeline of one unit        *)
(* (packages/domain: period.py, occupancy.py). A period is [from, to) with *)
(* Forever for an open end. Vacancy is never stored: it is what the        *)
(* tenancies leave of the window.                                          *)

Forever == 1000

NoValue == -1

NoOne == 0  \* a unit or a tenancy that is not named

Later(a, b) == IF a >= b THEN a ELSE b

Earlier(a, b) == IF a <= b THEN a ELSE b

Clip(p, window) ==
    [p EXCEPT !.from = Later(p.from, window.from), !.to = Earlier(p.to, window.to)]

\* overlap_days(), 0 when the two do not meet.
DaysIn(p, window) ==
    Later(0, Earlier(p.to, window.to) - Later(p.from, window.from))

\* The days of a period, for statements about single days.
DaysOf(p) == p.from .. p.to - 1

StartsBefore(a, b) == a.from < b.from \/ (a.from = b.from /\ a.tenancy < b.tenancy)

\* The rows of a unit inside the window, clipped and sorted by their start.
Timeline(rows, window) ==
    LET spans == {Clip(r, window) : r \in {x \in rows : DaysIn(x, window) > 0}}
    IN  CHOOSE q \in [1 .. Cardinality(spans) -> spans] :
            \A i, j \in DOMAIN q : i < j => StartsBefore(q[i], q[j])

TenanciesOf(facts, unit) == {r \in facts.tenancies : r.unit = unit}

TimelineOf(facts, unit) == Timeline(TenanciesOf(facts, unit), facts.window)

\* OccupancyOverlapError: neighbours in the sorted order are compared.
DoublyClaimed(q) == \E i \in 1 .. Len(q) - 1 : q[i + 1].from < q[i].to

\* The spans no row covers, for a timeline in which no day is claimed twice.
Vacancies(q, window) ==
    LET start(i) == IF i = 0 THEN window.from ELSE q[i].to
        end(i) == IF i = Len(q) THEN window.to ELSE q[i + 1].from
    IN  {[from |-> start(i), to |-> end(i)] :
            i \in {j \in 0 .. Len(q) : start(j) < end(j)}}

\* A period minus a set of periods: the maximal pieces that are left.
Remaining(p, covered) ==
    LET free == DaysOf(p) \ UNION {DaysOf(c) : c \in covered}
    IN  {[from |-> s[1], to |-> s[2] + 1] :
            s \in {x \in free \X free :
                /\ x[1] <= x[2] /\ x[1] .. x[2] \subseteq free
                /\ x[1] - 1 \notin free /\ x[2] + 1 \notin free}}

(***************************************************************************)
(* What the tables and their routes keep: a unit has an area, a tenancy    *)
(* one unit and one row, a period at least one day (Period refuses others, *)
(* period.py 19-23), a tenancy at most one count a day, none negative      *)
(* (ck_ and ex_ constraints of person_count); a cost has a target exactly  *)
(* when its key is DIRECT (KeyChoice), and the target exists               *)
(* (_validate_direct_target).                                              *)
(***************************************************************************)
Stored(facts) ==
    LET Periods == {p \in [from : Int, to : Int] : p.from < p.to}
        isPeriod(p) == [from |-> p.from, to |-> p.to] \in Periods
        Unit == DOMAIN facts.area
    IN  /\ facts.window \in Periods
        /\ IsFiniteSet(Unit) /\ facts.area \in [Unit -> Nat]
        /\ facts.reading \in [Unit -> Nat \cup {NoValue}]
        /\ facts.mode \in {"letzte_belegung", "immer_1", "keine"}
        /\ IsFiniteSet(facts.tenancies) /\ \A r \in facts.tenancies : isPeriod(r)
        /\ facts.tenancies \subseteq
              [tenancy : Nat \ {NoOne}, unit : Unit, from : Int, to : Int]
        /\ \A r, s \in facts.tenancies : r.tenancy = s.tenancy => r = s
        /\ IsFiniteSet(facts.persons) /\ \A c \in facts.persons : isPeriod(c)
        /\ facts.persons \subseteq
              [tenancy : Nat \ {NoOne}, count : Nat, from : Int, to : Int]
        /\ \A b, c \in facts.persons :
              b.tenancy = c.tenancy /\ DaysOf(b) \cap DaysOf(c) # {} => b = c
        /\ facts.selfUse \subseteq [unit : Unit, area : Nat, from : Int, to : Int]
        /\ facts.agreements \subseteq
              [tenancy : Nat \ {NoOne}, from : Int, to : Int, agreed : BOOLEAN,
               named : BOOLEAN, clause : BOOLEAN]
        /\ facts.cost.key \in {"AREA", "UNITS", "PERSONS", "CONSUMPTION", "DIRECT", "MEA"}
        /\ facts.cost.amount \in Int
        /\ facts.cost.tenancy # NoOne => facts.cost.key = "DIRECT"
        /\ facts.cost.key = "DIRECT" /\ facts.cost.tenancy = NoOne => facts.cost.unit \in Unit

-----------------------------------------------------------------------------
(* What the statement hands to the engine.                                 *)

\* _nk_costs(): a cost that meets the window is charged in full, unless it is
\* voided, unclassified, or classified as the owner's own.
Charged(facts) == facts.cost.state = "allocable" /\ DaysIn(facts.cost, facts.window) > 0

\* A cost without a classification, or one whose classification is not released,
\* keeps every renter's document back.
HeldBack(facts) ==
    /\ DaysIn(facts.cost, facts.window) > 0
    /\ facts.cost.state = "unclassified"
       \/ (facts.cost.state # "voided" /\ facts.cost.held)

\* The agreement of the day: agreed at all, naming the cost where the
\* catalogue asks for it, and with the clause for a new kind of cost.
AgreedOn(facts, t, day) ==
    \E a \in facts.agreements :
        /\ a.tenancy = t /\ day \in DaysOf(a)
        /\ a.agreed /\ (facts.cost.naming => a.named) /\ (facts.cost.new => a.clause)

\* _agreement_failure_periods(): the days without, merged to periods.
Ineligible(facts, r) ==
    LET p == Clip([from |-> r.from, to |-> r.to], facts.window)
    IN  Remaining(p, {[from |-> d, to |-> d + 1] :
                         d \in {x \in DaysOf(p) : AgreedOn(facts, r.tenancy, x)}})

\* _self_use_spans(): self-use of the whole area; a part of it is vacancy.
WholeSelfUse(facts, unit) ==
    {Clip(s, facts.window) : s \in {x \in facts.selfUse :
        /\ x.unit = unit /\ x.area >= facts.area[unit]
        /\ DaysIn(x, facts.window) > 0}}

\* _last_known_persons(): the tenancy that began last before the vacancy did,
\* and the count that was entered for it last.
LastKnown(facts, unit, day) ==
    LET before == {r \in TenanciesOf(facts, unit) : r.from <= day}
        last == CHOOSE r \in before :
                   \A x \in before : x.from < r.from
                                     \/ (x.from = r.from /\ x.tenancy <= r.tenancy)
        counts == {c \in facts.persons : c.tenancy = last.tenancy}
    IN  IF before = {} \/ counts = {} THEN 1
        ELSE (CHOOSE c \in counts : \A x \in counts : x.from <= c.from).count

\* _fictional_rows(): who would live in what stands empty.
FictionalCounts(facts) ==
    IF facts.mode = "keine" THEN {}
    ELSE LET spans(u) ==
                 UNION {Remaining(v, WholeSelfUse(facts, u)) :
                           v \in Vacancies(TimelineOf(facts, u), facts.window)}
         IN  {[tenancy |-> NoOne, unit |-> g[1], from |-> g[2].from, to |-> g[2].to,
               count |-> IF facts.mode = "immer_1" THEN 1
                         ELSE Later(1, LastKnown(facts, g[1], g[2].from))] :
                g \in UNION {{u} \X spans(u) : u \in DOMAIN facts.area}}

\* _entered_rows(): every count inside its own tenancy.
EnteredCounts(facts) ==
    {[tenancy |-> p[1].tenancy, unit |-> p[2].unit, from |-> Later(p[1].from, p[2].from),
      to |-> Earlier(p[1].to, p[2].to), count |-> p[1].count] :
        p \in {x \in facts.persons \X facts.tenancies :
            x[1].tenancy = x[2].tenancy /\ DaysIn(x[1], x[2]) > 0}}

\* person_count_inputs()
PersonRows(facts) == EnteredCounts(facts) \cup FictionalCounts(facts)

\* _nk_consumptions(): one figure for the window has one party, or none.
Consumptions(facts) ==
    LET users(u) ==
            LET q == TimelineOf(facts, u) IN
            {q[i].tenancy : i \in DOMAIN q}
              \cup (IF Vacancies(q, facts.window) = {} THEN {} ELSE {NoOne})
    IN  {[unit |-> u, tenancy |-> CHOOSE t \in users(u) : TRUE,
          value |-> facts.reading[u]] :
            u \in {x \in DOMAIN facts.area :
                      facts.reading[x] # NoValue /\ Cardinality(users(x)) = 1}}

-----------------------------------------------------------------------------
(* The engine.  The parties of a cost are the weights of its renter lines, *)
(* by a line's identity, and the weight that stays with the owner.         *)

Of(line) == line[1]  \* the tenancy a line is for

\* Mutant: the days without an agreement are not looked for.
IneligibleDaysNone(facts, t, p) == 0

\* _ineligible_days(), _ineligible_days_for_period()
IneligibleDays(facts, t, p) ==
    LET rows == {r \in facts.tenancies : r.tenancy = t} IN
    SumOf([i \in UNION {Ineligible(facts, r) : r \in rows} |->
              DaysIn(i, p)])

(***************************************************************************)
(* _unit_value_parties(), _segment_parties(): area, units and the unit of  *)
(* a direct cost. Days of a renter without an agreement count for the      *)
(* owner, and the renter keeps a line, of zero if no day is left.          *)
(***************************************************************************)
UnitParties(facts, units, value) ==
    LET rows == UNION {{Clip(r, facts.window) :
                           r \in {x \in TenanciesOf(facts, u) :
                                     DaysIn(x, facts.window) > 0}} : u \in units}
        none(r) == IneligibleDays(facts, r.tenancy, r)
        empty(u) == SumOf([v \in Vacancies(TimelineOf(facts, u), facts.window) |->
                              v.to - v.from])
    IN  [weight |-> [l \in {<<r.tenancy, r>> : r \in rows} |->
                        value[l[2].unit] * (l[2].to - l[2].from - none(l[2]))],
         owner |-> SumOf([u \in units |-> value[u] * empty(u)])
                   + SumOf([r \in rows |-> value[r.unit] * none(r)])]

\* _persons_parties(): a line per count; the landlord's counts are weight only.
PersonParties(facts) ==
    LET rows == {c \in PersonRows(facts) : DaysIn(c, facts.window) > 0}
        renters == {c \in rows : c.tenancy # NoOne}
        none(c) == IneligibleDays(facts, c.tenancy, Clip(c, facts.window))
        days(c) == DaysIn(c, facts.window)
    IN  [weight |-> [l \in {<<c.tenancy, c>> : c \in renters} |->
                        l[2].count * (days(l[2]) - none(l[2]))],
         owner |-> SumOf([c \in rows \ renters |-> c.count * days(c)])
                   + SumOf([c \in renters |-> c.count * none(c)])]

\* _consumption_parties(): one day without an agreement withholds the figure.
ConsumptionParties(facts) ==
    LET rows == Consumptions(facts)
        withheld(c) == c.tenancy # NoOne
                       /\ \E r \in facts.tenancies :
                              r.tenancy = c.tenancy /\ Ineligible(facts, r) # {}
    IN  [weight |-> [l \in {<<c.tenancy, c>> : c \in {x \in rows : x.tenancy # NoOne}} |->
                        IF withheld(l[2]) THEN 0 ELSE l[2].value],
         owner |-> SumOf([c \in {x \in rows : x.tenancy = NoOne \/ withheld(x)} |->
                             c.value])]

\* _direct_parties() with a tenancy: the whole cost, whatever its days.
TenancyParty(t) == [weight |-> [l \in {<<t, "direct">>} |-> 1], owner |-> 0]

\* _billing_window(): the law allows twelve months.
TooLong(facts) == facts.window.to > facts.limit

OneEach(facts) == [u \in DOMAIN facts.area |-> 1]

\* _parties_for_cost()
Parties(facts) ==
    CASE facts.cost.key = "AREA" -> UnitParties(facts, DOMAIN facts.area, facts.area)
      [] facts.cost.key = "UNITS" -> UnitParties(facts, DOMAIN facts.area, OneEach(facts))
      [] facts.cost.key = "PERSONS" -> PersonParties(facts)
      [] facts.cost.key = "CONSUMPTION" -> ConsumptionParties(facts)
      [] facts.cost.tenancy # NoOne -> TenancyParty(facts.cost.tenancy)
      [] OTHER -> UnitParties(facts, {facts.cost.unit}, OneEach(facts))

(***************************************************************************)
(* What stops the whole statement: a period that is too long, a timeline   *)
(* with a day claimed twice (it is built for the fictional occupancy, for  *)
(* a cold-water reading and for the keys by unit), a key without its       *)
(* input, and the key MEA, as the statement passes no shares of ownership. *)
(***************************************************************************)
RefusedInput(facts) ==
    \/ TooLong(facts)
    \/ facts.cost.key = "MEA"
    \/ facts.cost.key = "PERSONS" /\ PersonRows(facts) = {}
    \/ facts.cost.key = "CONSUMPTION" /\ Consumptions(facts) = {}
    \/ \E u \in DOMAIN facts.area :
          /\ DoublyClaimed(TimelineOf(facts, u))
          /\ \/ facts.mode # "keine"
             \/ facts.reading[u] # NoValue
             \/ facts.cost.key \in {"AREA", "UNITS"}
             \/ facts.cost.key = "DIRECT" /\ facts.cost.tenancy = NoOne /\ facts.cost.unit = u

\* calculate_nk_statement() for the costs of the window, here at most one.
Allocate(facts) ==
    IF ~Charged(facts) THEN [kind |-> "none"]
    ELSE IF RefusedInput(facts) THEN [kind |-> "blocked"]
    ELSE LET p == Parties(facts)
             share == RenterShares(facts.cost.amount, p.weight, p.owner)
         IN  [kind |-> "lines", weight |-> p.weight, share |-> share,
              ownerWeight |-> p.owner, owner |-> OwnerResidual(facts.cost.amount, share)]

\* project_statement() for a renter with days in the window: the renter's lines.
TenantCopy(facts, lines, t) ==
    {l \in lines :
        /\ Of(l) = t /\ ~HeldBack(facts)
        /\ \E r \in facts.tenancies : r.tenancy = t /\ DaysIn(r, facts.window) > 0}
=============================================================================
