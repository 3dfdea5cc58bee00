-------------------------- MODULE HeatingStatement --------------------------
(***************************************************************************)
(* From the stored facts of a building to its heating statement: which     *)
(* source is billed, the invoices and the devices' readings, and the       *)
(* positions a metering service has confirmed (statement_service.py,       *)
(* adapters/meter.py; heating-engine: page01b.py, device_readings.py,      *)
(* self_billing.py, mdl.py). The engine itself is HeatingAllocation.       *)
(*                                                                         *)
(* `s` has the engine's input but for cost, heat, segments and co2, and    *)
(*   invoices   rows [id, amount, from, to, mass, co2]                     *)
(*   devices    rows [id, unit, factor, rows]; rows are the effective      *)
(*              readings inside the window by their day, [value, tenancy,  *)
(*              moved, estimated], the factor in tenths                    *)
(*   energy     NoValue without a usable heat meter of the building        *)
(*   mode       [kind, statement]: "none", "lokara", "pending", or "taken" *)
(*              with a statement of the metering service                   *)
(*   mdl        the versions of those statements for exactly this period,  *)
(*              [gross, position, owner, total, stated, mass, co2]; their  *)
(*              own heated area is the building's                          *)
(* The result is "missing" where the statement names a reason instead of   *)
(* figures, and "raised" where the engine raises an error.                 *)
(***************************************************************************)
EXTENDS HeatingAllocation

\* allocate_invoice_to_billing_period(): by days, each invoice rounded once.
Prorated(s, i) == HalfUp(i.amount * DaysIn(i, s.window), i.to - i.from)

\* _heating_costs()
Billed(s) == {i \in s.invoices : DaysIn(i, s.window) > 0}

HeatingCost(s) == SumOf([i \in Billed(s) |-> Prorated(s, i)])

\* _co2_input(): what the invoices state, and nothing if one of the two is zero.
StatedCo2(s) ==
    LET mass == SumOf([i \in Billed(s) |-> i.mass])
        cost == SumOf([i \in Billed(s) |-> i.co2])
    IN  IF mass <= 0 \/ cost <= 0 THEN [mass |-> 0, cost |-> 0]
        ELSE [mass |-> mass, cost |-> cost]

-----------------------------------------------------------------------------
(* Readings. A span lies between two neighbouring readings of one device   *)
(* and belongs to the renter the closing one names, to the owner at a      *)
(* change of renter without one, and else to the unit's year.              *)

Spans(s) == UNION {{<<d, i>> : i \in 1 .. Len(d.rows) - 1} : d \in s.devices}

Closing(x) == x[1].rows[x[2] + 1]

Annual(x) == Closing(x).tenancy = NoOne /\ ~Closing(x).moved

Consumed(x) == Closing(x).value - x[1].rows[x[2]].value

\* _span_units(), in tenths; an estimate replaces both register values.
SpanHeat(x) ==
    IF Closing(x).estimated # NoValue THEN Closing(x).estimated
    ELSE HalfUp(Consumed(x) * x[1].factor, 10)

HeatOf(spans) == SumOf([x \in spans |-> SpanHeat(x)])

\* aggregate_device_reading_spans(), _apply_device_input()
UnitHeat(s) ==
    [u \in DOMAIN s.area |->
        LET annual == {x \in Spans(s) : x[1].unit = u /\ Annual(x)}
        IN  IF annual = {} THEN NoValue ELSE HeatOf(annual)]

Segments(s) ==
    LET parts == {x \in Spans(s) : ~Annual(x)}
        of(u, t) == {x \in parts : x[1].unit = u /\ Closing(x).tenancy = t}
    IN  {[unit |-> x[1].unit, tenancy |-> Closing(x).tenancy,
          heat |-> HeatOf(of(x[1].unit, Closing(x).tenancy))] : x \in parts}

\* A device without a pair of readings, if no device has one; a register that
\* ran backwards between two readings.
BadDevices(s) ==
    \/ s.devices # {} /\ Spans(s) = {}
    \/ \E x \in Spans(s) : Closing(x).estimated = NoValue /\ Consumed(x) < 0

EngineInput(s) ==
    [window |-> s.window, area |-> s.area, tenancies |-> s.tenancies, year |-> s.year,
     warmth |-> s.warmth, cost |-> HeatingCost(s), energy |-> s.energy,
     heat |-> UnitHeat(s), segments |-> Segments(s), water |-> s.water,
     central |-> s.central, volume |-> s.volume, perVolume |-> s.perVolume,
     perArea |-> s.perArea, share |-> s.share, bounds |-> s.bounds,
     co2 |-> StatedCo2(s), plant |-> s.plant, steps |-> s.steps]

(***************************************************************************)
(* The gate before the engine: nothing was used, or more than a quarter of *)
(* the area has neither a reading nor a segment (_reading_total(); the     *)
(* service never authorises the fallback to area).                         *)
(***************************************************************************)
NoDenominator(f) ==
    LET missing == {u \in DOMAIN f.area : f.heat[u] = NoValue /\ u \notin Segmented(f)}
        read == {u \in DOMAIN f.area : f.heat[u] # NoValue /\ u \notin Segmented(f)}
        used == SumOf([u \in read |-> f.heat[u]]) + SumOf([x \in f.segments |-> x.heat])
    IN  \/ used = 0 /\ missing = {}
        \/ 4 * SumOf([u \in missing |-> f.area[u]]) > TotalArea(f)

SelfBilling(s) ==
    IF BadDevices(s) THEN [kind |-> "raised"]
    ELSE LET f == EngineInput(s) IN IF NoDenominator(f) THEN [kind |-> "missing"] ELSE Heat(f)

-----------------------------------------------------------------------------
(* A confirmed statement of a metering service: its amounts are passed on. *)

Off(m) == SumOf(m.position) + m.owner - m.total

OutOfTolerance(m) ==
    LET allowed == Cardinality(DOMAIN m.position) + 1
    IN  Off(m) > allowed \/ -Off(m) > allowed

NoPlant == [given |-> FALSE, off |-> FALSE, commercial |-> FALSE, protected |-> FALSE,
            excluded |-> FALSE, proofs |-> TRUE]

\* The landlord's CO2 part is taken from the whole before the positions of a
\* gross statement are scaled.
MdlBillable(s, m) ==
    IF ~m.gross THEN m.total
    ELSE m.total - LandlordCo2([window |-> s.window, area |-> s.area, year |-> s.year,
                                steps |-> s.steps, plant |-> NoPlant,
                                co2 |-> [mass |-> m.mass, cost |-> m.co2]])

\* rescale_mdl_gross_positions()
MdlShare(s, m, t) ==
    IF m.gross THEN HalfUp(m.position[t] * MdlBillable(s, m), m.total) ELSE m.position[t]

\* _mdl(); the owner has what the renters' positions leave of the whole.
PassedOn(s, m) ==
    IF OutOfTolerance(m) \/ (m.gross /\ ~m.stated) THEN [kind |-> "missing"]
    ELSE IF m.gross /\ (m.total = 0 \/ MdlBillable(s, m) < 0) THEN [kind |-> "raised"]
    ELSE LET share == [t \in DOMAIN m.position |-> MdlShare(s, m, t)]
         IN  [kind |-> "mdl", share |-> share, billable |-> MdlBillable(s, m),
              owner |-> OwnerResidual(MdlBillable(s, m), share)]

\* _heating_mode(), _confirmed_mdl(), compute_statement(): the owner's choice
\* for the period, and without one the latest confirmed statement.
Chosen(s) ==
    CASE s.mode.kind = "none" -> Len(s.mdl)
      [] s.mode.kind = "taken" -> s.mode.statement
      [] OTHER -> 0

HeatingOf(s) ==
    IF s.mode.kind = "pending" THEN [kind |-> "missing"]
    ELSE IF Chosen(s) # 0 THEN PassedOn(s, s.mdl[Chosen(s)])
    ELSE IF Billed(s) = {} \/ s.energy = NoValue THEN [kind |-> "missing"]
    ELSE SelfBilling(s)

-----------------------------------------------------------------------------
(* Section 12: what a renter may deduct. Every ground is rounded by itself *)
(* and their sum is capped by 21 percent of the claim (_section12_result). *)

Percent(amount, p) == HalfUp(amount * p, 100)

Deduction(gross, base, grounds) ==
    Earlier((IF "unmetered" \in grounds THEN Percent(base, 15) ELSE 0)
                + (IF "remote" \in grounds THEN Percent(gross, 3) ELSE 0)
                + (IF "information" \in grounds THEN Percent(gross, 3) ELSE 0),
            Percent(gross, 21))

\* Without a valid base per renter no deduction is stated at all.
Deductions(claims, grounds) ==
    IF \E r \in DOMAIN claims : claims[r].base < 0 \/ claims[r].base > claims[r].gross
    THEN [kind |-> "incomplete"]
    ELSE [kind |-> "net",
          net |-> [r \in DOMAIN claims |->
                      claims[r].gross - Deduction(claims[r].gross, claims[r].base, grounds)]]
=============================================================================
