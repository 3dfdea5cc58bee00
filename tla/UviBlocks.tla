----------------------------- MODULE UviBlocks -----------------------------
(***************************************************************************)
(* The figures of the monthly consumption information: the engine          *)
(* (packages/uvi-engine: evaluators.py), the reference rows it compares    *)
(* with (rules-store: heizspiegel.py, warm_water.py), and what             *)
(* create_uvi_run (routers/uvi_runs.py) reads, refuses, shows and archives *)
(* once a run has its configuration; UviRuns has the requests around it.   *)
(*                                                                         *)
(* A figure that may be absent is <<>> or <<figure>>. Movements and heat   *)
(* of a building are thousandths, factors and degree days tenths, shares   *)
(* thousandths, areas whole square metres. Quotients are exact; the code's *)
(* have 28 digits, which tells only at a tie of a quotient without end.    *)
(***************************************************************************)
EXTENDS Calendar, Cents, Sequences, TLC

Given(x) == x # <<>>

\* _display_percent, _comparison_percent: tenths of a percent.
PercentOf(delta, reference) == IF reference = 0 THEN <<>> ELSE <<HalfUp(1000 * delta, reference)>>

\* evaluate_block_b, also for warm water and for the raw prior year.
Compare(current, reference) ==
    IF ~Given(reference) THEN [status |-> "unavailable"]
    ELSE [status |-> "ready", reference |-> reference[1], delta |-> current - reference[1],
          percent |-> PercentOf(current - reference[1], reference[1])]

-----------------------------------------------------------------------------
(* Block A: heat of a month.                                               *)

\* Mutant: the building's heat is divided by the movement of one unit.
ProvisionalOfUnit(movement, evidence) == <<HalfUp(evidence.heat[1] * movement, 1000 * movement + 1)>>

\* A building's measured heat by the share of its allocators' movement.
Provisional(movement, evidence) ==
    <<HalfUp(evidence.heat[1] * movement, 1000 * evidence.movement[1])>>

Positive(x) == Given(x) /\ x[1] > 0

\* evaluate_normalized_block_a: the heat, or none when evidence is missing.
MonthlyHeat(movement, unit, c, evidence) ==
    CASE unit = "KWH" -> <<HalfUp(movement, 1000)>>
      [] unit = "CUBIC_METRE" ->
            IF Given(c.factor) /\ Given(c.condition)
            THEN <<HalfUp(movement * c.factor[1] * c.condition[1], 100000)>> ELSE <<>>
      [] unit = "HKV_UNITS" ->
            IF c.allocator /\ Positive(evidence.heat) /\ Positive(evidence.movement)
            THEN Provisional(movement, evidence) ELSE <<>>

\* evaluate_block_a: the movement between two readings. Only a device that
\* was changed may run backwards.
HeatBetween(start, end, unit, c, changed) ==
    IF end < start /\ ~changed THEN <<>>
    ELSE MonthlyHeat(end - start, unit, c, [heat |-> <<>>, movement |-> <<>>])

\* evaluate_hkv_provisional: a rolling total in whole kilowatt hours.
RollingShare(units, buildingUnits, heat, allocator) ==
    IF ~allocator \/ buildingUnits = 0 \/ ~Given(heat) THEN <<>>
    ELSE <<HalfUp(heat[1] * units, buildingUnits)>>

\* interpolate_month: readings on their days, at least two, in order, none
\* twice. The value at a boundary is a quotient.
InOrder(readings) ==
    Len(readings) >= 2 /\ \A i \in 2 .. Len(readings) : Before(readings[i - 1].day, readings[i].day)

Reached(readings, day) ==
    ~Before(day, readings[1].day) /\ ~Before(readings[Len(readings)].day, day)

ValueAt(readings, day) ==
    LET i == CHOOSE i \in 1 .. Len(readings) - 1 :
                ~Before(day, readings[i].day) /\ ~Before(readings[i + 1].day, day)
        span == Ordinal(readings[i + 1].day) - Ordinal(readings[i].day)
    IN  [top |-> readings[i].value * span
                   + (readings[i + 1].value - readings[i].value)
                         * (Ordinal(day) - Ordinal(readings[i].day)),
         under |-> span]

Interpolated(readings, month) ==
    LET next == AddMonths(month, 1)
        a == ValueAt(readings, month)
        b == ValueAt(readings, next)
        movement == b.top * a.under - a.top * b.under
    IN  IF ~(InOrder(readings) /\ Reached(readings, month) /\ Reached(readings, next))
           \/ movement < 0
        THEN <<>> ELSE <<HalfUp(movement, a.under * b.under)>>

-----------------------------------------------------------------------------
(* Blocks C, D and D2, and warm water.                                     *)

\* evaluate_block_c: what the prior year would have needed in this year's
\* weather, or the raw figure without degree days.
WeatherAdjusted(previous, now, before) ==
    IF Given(now) /\ Positive(before) THEN HalfUp(previous * now[1], before[1]) ELSE previous

PriorYear(current, previous, now, before) ==
    Compare(current, IF Given(previous) THEN <<WeatherAdjusted(previous[1], now, before)>> ELSE <<>>)

\* evaluate_block_d: the mean of the other units' heat per square metre, if
\* the target and two more have a figure.
CrossSection(heat, area, others) ==
    LET valid == {o \in others : Given(o.heat) /\ o.area > 0}
        whole == FoldSet(LAMBDA o, acc : o.area * acc, 1, valid)
        intensities == MapThenSumSet(LAMBDA o : o.heat[1] * (whole \div o.area), valid)
    IN  IF Cardinality(valid) < 2 THEN [status |-> "use_d2"]
        ELSE Compare(heat, <<HalfUp(intensities * area, whole * Cardinality(valid))>>)

\* HEIZSPIEGEL_2025_ROWS: kilowatt hours per square metre and year, with the
\* part that is warm water.
Middle ==
    [Erdgas |-> <<121, 116, 114, 115>>, Heizoel |-> <<165, 142, 123, 127>>,
     Fernwaerme |-> <<89, 94, 112, 87>>, Waermepumpe |-> <<36, 33, 30>>,
     Holzpellets |-> <<148, 126, 113>>]

WarmWaterPart(source) == IF source = "Waermepumpe" THEN 8 ELSE 24

\* _size_class of the building's area: the row of Middle.
SizeClass(area) ==
    CASE area <= 150 -> 1 [] area <= 250 -> 2 [] area <= 500 -> 3 [] OTHER -> 4

\* resolve_heizspiegel_row: above 500 square metres two sources have no row.
HeizspiegelRow(source, area) == Middle[source][Min({SizeClass(area), Len(Middle[source])})]

\* evaluate_block_d2 and evaluate_warm_water_block_d2.
Normed(current, annual, area, share) == Compare(current, <<HalfUp(annual * area * share, 1000)>>)

\* WARM_WATER_FORMULA: tenths of kilowatt hours per cubic metre.
WarmWaterFactor(c) == IF Given(c.hot) THEN <<25 * (c.hot[1] - 10)>> ELSE <<>>

\* evaluate_warm_water_block_a.
WarmWaterHeat(movement, factor) == HalfUp(movement * factor[1], 10000)

-----------------------------------------------------------------------------
(* create_uvi_run. f.configured, f.heat, f.water, f.evidence and f.degree  *)
(* are by month: the ready configuration, the current readings of the      *)
(* tenancy's heat and warm-water meters, the building's evidence, the      *)
(* degree days.                                                            *)

ComparedMonths == {"previous", "prior_year"}

InformationMonths == {"target"} \cup ComparedMonths

\* _leaf, _monthly_leaf: one current row, with its source readings.
OneSourced(rows) == Cardinality(rows) <= 1 /\ \A r \in rows : r.sourced

DeviceCategory(f) == (CHOOSE r \in f.heat["target"] : TRUE).unit

HeatRows(f, m) ==
    IF m = "target" THEN f.heat[m] ELSE {r \in f.heat[m] : r.unit = DeviceCategory(f)}

EvidenceIn(f, m) == IF Given(f.evidence[m]) THEN f.evidence[m][1] ELSE [heat |-> <<>>, movement |-> <<>>]

\* Each month is converted with its own configuration and evidence.
HeatOfMonth(f, m) ==
    {MonthlyHeat(r.movement, r.unit, f.configured[m][1], EvidenceIn(f, m)) : r \in HeatRows(f, m)}

\* The one figure of a set with at most one.
Figure(s) == IF s = {} THEN <<>> ELSE CHOOSE x \in s : TRUE

HeatRefused(f) ==
    \/ ~Given(f.configured["target"]) \/ f.heat["target"] = {} \/ ~OneSourced(f.heat["target"])
    \/ \E m \in ComparedMonths :
          HeatRows(f, m) # {} /\ (~OneSourced(HeatRows(f, m)) \/ ~Given(f.configured[m]))
    \/ \E m \in InformationMonths : <<>> \in HeatOfMonth(f, m)

\* The months before are read again by the meter of the target's reading.
WaterRows(f, m) ==
    {r \in f.water[m] : \E t \in f.water["target"] : r.meter = t.meter}

WaterOfMonth(f, m) ==
    {<<WarmWaterHeat(r.movement, WarmWaterFactor(f.configured["target"][1]))>> : r \in WaterRows(f, m)}

WaterRefused(f) ==
    f.central /\
        (\/ \E m \in InformationMonths : ~OneSourced(f.water[m])
         \/ f.water["target"] = {}
         \/ \E r \in f.water["target"] : ~r.ofUnit
         \/ ~Given(f.configured["target"][1].hot))

\* The other units with one current reading of the device category: their
\* heat by the target's configuration and evidence.
Comparables(f) ==
    LET rows(o) == {r \in o.rows : r.unit = DeviceCategory(f)} IN
    {[unit |-> o.unit, area |-> o.area,
      heat |-> MonthlyHeat((CHOOSE r \in rows(o) : TRUE).movement, DeviceCategory(f),
                           f.configured["target"][1], EvidenceIn(f, "target"))] :
        o \in {o \in f.others : Cardinality(rows(o)) = 1 /\ OneSourced(rows(o))}}

BuildingArea(f) == f.area + MapThenSumSet(LAMBDA o : o.area, f.others)

DegreeDays(f, m) == IF Given(f.degree[m]) THEN <<f.degree[m][1].days>> ELSE <<>>

Share(f) == IF Given(f.degree["target"]) THEN f.degree["target"][1].share ELSE <<>>

Refused == [kind |-> "refused"]

\* The rows are valid from October 2025; an earlier month is no answer at all.
Unresolved == [kind |-> "error"]

HeatIn(f, m) == Figure(HeatOfMonth(f, m))

\* Blocks A to C: the month, the month before, and the prior year's raw and
\* in this year's weather.
HeatFigures(f) ==
    LET a == HeatIn(f, "target")[1]
        prior == HeatIn(f, "prior_year")
    IN  [a |-> a, b |-> Compare(a, HeatIn(f, "previous")), raw |-> Compare(a, prior),
         c |-> PriorYear(a, prior, DegreeDays(f, "target"), DegreeDays(f, "prior_year"))]

BuildingAverage(f) == CrossSection(HeatIn(f, "target")[1], f.area, Comparables(f))

\* The norm is needed where too few units compare, and for warm water.
NormNeeded(f) == BuildingAverage(f).status = "use_d2" \/ f.central

ResolvedRow(f) ==
    LET source == f.configured["target"][1].source
    IN  [middle |-> HeizspiegelRow(source, BuildingArea(f)), water |-> WarmWaterPart(source)]

\* Block D, or D2: the norm without its part of warm water.
AverageFigure(f) ==
    LET row == ResolvedRow(f)
    IN  IF BuildingAverage(f).status = "use_d2"
        THEN [basis |-> "heizspiegel",
              average |-> Normed(HeatIn(f, "target")[1], row.middle - row.water, f.area, Share(f)[1])]
        ELSE [basis |-> "building", average |-> BuildingAverage(f)]

WaterFigures(f) ==
    LET w == Figure(WaterOfMonth(f, "target"))[1]
    IN  [a |-> w,
         b |-> Compare(w, Figure(WaterOfMonth(f, "previous"))),
         c |-> Compare(w, Figure(WaterOfMonth(f, "prior_year"))),
         average |-> Normed(w, ResolvedRow(f).water, f.area, Share(f)[1])]

\* The archive: the readings of each month, the weather, the row.
ArchivedMonths(f) ==
    [movement |-> [m \in InformationMonths |-> {r.movement : r \in HeatRows(f, m)}],
     heat |-> [m \in InformationMonths |-> HeatIn(f, m)]]

ArchivedWeather(f) ==
    [share |-> Share(f), days |-> [m \in {"target", "prior_year"} |-> DegreeDays(f, m)]]

ArchivedRow(f) == [row |-> IF NormNeeded(f) THEN <<ResolvedRow(f)>> ELSE <<>>]

Information(f) ==
    IF NormNeeded(f) /\ ~Given(Share(f)) THEN Refused
    ELSE IF NormNeeded(f) /\ Before(f.month, Date(2025, 10, 1)) THEN Unresolved
    ELSE [kind |-> "information",
          water |-> IF f.central THEN <<WaterFigures(f)>> ELSE <<>>,
          archived |-> ArchivedMonths(f) @@ ArchivedWeather(f) @@ ArchivedRow(f)
                           @@ [comparables |-> Comparables(f)]]
             @@ HeatFigures(f) @@ AverageFigure(f)

Inform(f) ==
    IF HeatRefused(f) THEN Refused
    ELSE IF WaterRefused(f) THEN Refused
    ELSE Information(f)

-----------------------------------------------------------------------------
(* Questions put to the figures and what the answers must agree with: every
   unit's part of a measured whole, the information of the month before, and
   what can be computed again from the archive alone. *)

Row(movement, unit) == [movement |-> movement, unit |-> unit, sourced |-> TRUE]

Water(movement, meter) ==
    [movement |-> movement, meter |-> meter, ofUnit |-> meter # 3, sourced |-> TRUE]

Config(source, allocator, factor, hot) ==
    [source |-> source, allocator |-> allocator, factor |-> factor,
     condition |-> IF factor = <<>> THEN <<>> ELSE <<9>>, hot |-> hot]

Evidence(heat, movement) == [heat |-> <<heat>>, movement |-> <<movement>>]

Unit(n, area, rows) == [unit |-> n, area |-> area, rows |-> rows]

ByMonth(target, previous, prior) ==
    [m \in InformationMonths |->
        CASE m = "target" -> target [] m = "previous" -> previous [] OTHER -> prior]

\* Two readings of allocators in a building of three units and two in which
\* one unit has a meter of another kind, no source or no area.
Others(unit, more) ==
    {Unit(2, 40, {Row(200, unit)}), Unit(3, 25, {Row(500, unit)})}
    \cup (IF more THEN {Unit(4, 50, {Row(300, "KWH")}), Unit(5, 20, {[Row(100, unit) EXCEPT !.sourced = FALSE]}),
                        Unit(6, 400, {Row(100, unit), Row(120, unit)})}
          ELSE {})

Heating(unit, c, evidence) ==
    [configured : {ByMonth(<<c>>, <<c>>, p) : p \in {<<c>>, <<>>}}
                  \cup {ByMonth(<<c>>, <<[c EXCEPT !.factor = IF c.factor = <<>> THEN <<>> ELSE <<80>>]>>, <<c>>)},
     heat : {ByMonth({Row(300, unit)}, p, y) :
                p \in {{}, {Row(450, unit)}, {Row(450, unit), Row(7, "KWH")}, {Row(0, unit)}},
                y \in {{}, {Row(140, unit)}}},
     evidence : {ByMonth(evidence, <<Evidence(640000, 2000)>>, evidence)}]

Weather ==
    {ByMonth(t, <<>>, y) :
        t \in {<<>>, <<[days |-> 1200, share |-> <<125>>]>>, <<[days |-> 0, share |-> <<>>]>>},
        y \in {<<>>, <<[days |-> 1500, share |-> <<100>>]>>, <<[days |-> 0, share |-> <<>>]>>}}

NoWater == ByMonth({}, {}, {})

Building(others) ==
    [month : {Date(2026, 1, 1)}, area : {50}, others : others, central : {FALSE}, water : {NoWater},
     degree : Weather]

\* The allocators' readings add up to the building's movement of 1000.
Allocators ==
    LET c == Config("Erdgas", TRUE, <<>>, <<>>) IN
    {h @@ b : h \in Heating("HKV_UNITS", c, <<Evidence(700000, 1000)>>)
                   \cup Heating("HKV_UNITS", [c EXCEPT !.allocator = FALSE], <<Evidence(700000, 1000)>>)
                   \cup Heating("HKV_UNITS", c, <<>>),
              b \in Building({Others("HKV_UNITS", TRUE), Others("HKV_UNITS", FALSE)})}

Meters ==
    {h @@ b : h \in Heating("CUBIC_METRE", Config("Fernwaerme", FALSE, <<103>>, <<>>), <<>>)
                   \cup Heating("CUBIC_METRE", Config("Waermepumpe", FALSE, <<>>, <<>>), <<>>),
              b \in Building({{}, Others("CUBIC_METRE", TRUE)})}

WarmWaters ==
    {[[[g EXCEPT !.central = TRUE, !.month = month] EXCEPT !.configured["target"] = <<c>>] EXCEPT !.water = w] :
        g \in {h @@ b : h \in Heating("KWH", Config("Heizoel", FALSE, <<>>, <<60>>), <<>>),
                        b \in {x \in Building({{}}) : x.degree["target"] # <<>>
                                                           /\ x.degree["prior_year"] # <<>>}},
        month \in {Date(2025, 9, 1), Date(2025, 10, 1)},
        c \in {Config(s, FALSE, <<>>, hot) : s \in {"Heizoel", "Waermepumpe"}, hot \in {<<>>, <<60>>, <<55>>}},
        w \in {ByMonth({}, {}, {}), ByMonth({Water(1500, 1)}, {Water(0, 1)}, {Water(1200, 2)}),
               ByMonth({Water(1500, 1)}, {}, {Water(1200, 1)}), ByMonth({Water(1500, 3)}, {}, {}),
               ByMonth({Water(1500, 1), Water(10, 2)}, {}, {})}}

Interpolations ==
    {[readings |-> r, month |-> m] :
        r \in {<<>>, <<[day |-> Date(2025, 12, 15), value |-> 10], [day |-> Date(2026, 2, 14), value |-> 71]>>,
               <<[day |-> Date(2025, 12, 1), value |-> 0], [day |-> Date(2026, 3, 1), value |-> 100]>>,
               <<[day |-> Date(2026, 1, 1), value |-> 5], [day |-> Date(2026, 1, 20), value |-> 24],
                 [day |-> Date(2026, 3, 1), value |-> 3]>>,
               <<[day |-> Date(2026, 2, 1), value |-> 5], [day |-> Date(2026, 1, 1), value |-> 9]>>},
        m \in {Date(2025, 12, 1), Date(2026, 1, 1), Date(2026, 2, 1)}}

UviQuestions == Allocators \cup Meters \cup WarmWaters

-----------------------------------------------------------------------------

\* x is n/d to half a unit.
Half(x, n, d) == 2 * (x * d - n) <= d /\ 2 * (n - x * d) <= d

\* The question of the month before, from what it has in common with this
\* one.
MonthBefore(f) ==
    [f EXCEPT !.configured = ByMonth(f.configured["previous"], <<>>, <<>>),
              !.heat = ByMonth(HeatRows(f, "previous"), {}, {}),
              !.evidence = ByMonth(f.evidence["previous"], <<>>, <<>>),
              !.central = FALSE, !.others = {}, !.month = Date(2026, 1, 1),
              !.degree["target"] = <<[days |-> 1, share |-> <<10>>]>>]

\* The units' parts of a building's heat: each its exact part to half a
\* kilowatt hour, and all parts the whole to half of one for each.
PartsOfWhole(f, x) ==
    LET e == f.evidence["target"][1]
        units == {o \in x.comparables : Given(o.heat)}
        moved(o) == (CHOOSE r \in (CHOOSE u \in f.others : u.unit = o.unit).rows :
                        r.unit = "HKV_UNITS").movement
        movement == MapThenSumSet(moved, units) + (CHOOSE r \in f.heat["target"] : TRUE).movement
        heat == MapThenSumSet(LAMBDA o : o.heat[1], units) + x.heat["target"][1]
    IN  movement = e.movement[1] =>
            /\ 2 * (1000 * heat - e.heat[1]) <= 1000 * (1 + Cardinality(units))
            /\ 2 * (e.heat[1] - 1000 * heat) <= 1000 * (1 + Cardinality(units))

\* The average of the building lies between its most and its least frugal
\* unit; the normed one is the row's heat without its warm water.
AverageAgrees(f, r) ==
    LET x == r.archived
        given == {o \in x.comparables : Given(o.heat)}
    IN  IF r.basis = "building"
        THEN /\ Cardinality(given) >= 2
             /\ \E o \in given : o.heat[1] * f.area <= (r.average.reference + 1) * o.area
             /\ \E o \in given : o.heat[1] * f.area >= (r.average.reference - 1) * o.area
        ELSE /\ Cardinality(given) < 2
             /\ Half(r.average.reference, (x.row[1].middle - x.row[1].water) * f.area * x.share[1], 1000)

InformationAgrees(f, r) ==
    r.kind = "information" =>
        LET x == r.archived
            old == Inform(MonthBefore(f))
        IN  /\ \A c \in {r.b, r.raw, r.c, r.average} :
                  c.status = "ready" =>
                      /\ c.reference + c.delta = r.a
                      /\ c.percent = <<>> <=> c.reference = 0
            /\ r.b.status = "ready" => old.kind = "information" /\ r.b.reference = old.a
            /\ r.c.status = "ready" /\ Given(x.days["target"]) /\ Positive(x.days["prior_year"]) =>
                  Half(r.c.reference, r.raw.reference * x.days["target"][1], x.days["prior_year"][1])
            /\ r.c.status = r.raw.status
            /\ AverageAgrees(f, r)
            /\ DeviceCategory(f) = "HKV_UNITS" => PartsOfWhole(f, x)
            /\ f.central <=> r.water # <<>>
            /\ r.water # <<>> =>
                  LET w == r.water[1] IN
                  /\ w.b.status = "ready" =>
                        \E o \in f.water["previous"], t \in f.water["target"] :
                            LET miss == w.b.reference * t.movement - w.a * o.movement IN
                            o.meter = t.meter /\ 2 * miss <= t.movement + o.movement
                                              /\ -2 * miss <= t.movement + o.movement
                  /\ w.average.reference <= x.row[1].middle * f.area

\* The values at the boundaries are on the line between the readings around
\* them: a month's consumption of even days is the same each day.
InterpolationAgrees(q, x) ==
    x # <<>> /\ Len(q.readings) = 2 =>
        LET days == Ordinal(q.readings[2].day) - Ordinal(q.readings[1].day)
            inMonth == LastDay(q.month.y, q.month.m)
        IN  Half(x[1], (q.readings[2].value - q.readings[1].value) * inMonth, days)
=============================================================================
