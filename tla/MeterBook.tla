----------------------------- MODULE MeterBook -----------------------------
(***************************************************************************)
(* Readings and life of the meters of one building (apps/api:              *)
(* routers/meters.py). Readings are append-only. A correction is a new row *)
(* for the same day; the workspace and the billing gateway each decide on  *)
(* their own which row counts.                                             *)
(*                                                                         *)
(* recorded_at and created_at default to now(), the start of the           *)
(* transaction, so rows are ordered by when their request began and not by *)
(* when they were committed. No request locks a row.                       *)
(***************************************************************************)
EXTENDS Integers, FiniteSets, FiniteSetsExt

CONSTANTS
    Session,   \* concurrent requests
    Meter,     \* ids a meter may get
    Installed, \* the meters there are at first
    Day,       \* days of readings and events, positive
    MaxBegin   \* bound: requests begun

VARIABLES
    meter,       \* ids of the meters that exist
    reading,     \* meter_reading rows
    event,       \* meter_lifecycle_event rows other than INSTALLED
    beginning,   \* requests begun so far, the clock of now()
    meterRequest \* the request of each session

vars == <<meter, reading, event, beginning, meterRequest>>

\* A reading is known by its meter and its recorded_at. corrects is the
\* recorded_at of the reading it supersedes, 0 when it supersedes none.
Reading == [meter: Meter, day: Day, at: 1 .. MaxBegin, corrects: 0 .. MaxBegin]

Event == [meter: Meter, type: {"REMOVED", "VOID", "REPLACED"}, day: Day, at: 1 .. MaxBegin]

Idle == [op |-> "idle"]

Init ==
    /\ meter = Installed
    /\ reading = {}
    /\ event = {}
    /\ beginning = 0
    /\ meterRequest = [s \in Session |-> Idle]

Continue(s, state) == meterRequest' = [meterRequest EXCEPT ![s] = state]

\* A new request: its transaction starts now.
Begin(s, request) ==
    /\ meterRequest[s] = Idle /\ beginning < MaxBegin
    /\ beginning' = beginning + 1
    /\ Continue(s, request)
    /\ UNCHANGED <<meter, reading, event>>

GiveUp(s) ==
    /\ meterRequest[s] # Idle
    /\ Continue(s, Idle)
    /\ UNCHANGED <<meter, reading, event, beginning>>

----------------------------------------------------------------------------
(* What counts.                                                            *)

EventsOf(m) == {e \in event : e.meter = m}

LastEvent(m) ==
    CHOOSE e \in EventsOf(m) : \A f \in EventsOf(m) :
        f.day < e.day \/ (f.day = e.day /\ f.at <= e.at)

Lifecycle(m) == IF EventsOf(m) = {} THEN "ACTIVE" ELSE LastEvent(m).type

ReadingsOf(m) == {r \in reading : r.meter = m}

Corrected(r) == \E c \in ReadingsOf(r.meter) : c.corrects = r.at

LastOnDay(m, d) ==
    {r \in ReadingsOf(m) : r.day = d /\ \A o \in ReadingsOf(m) : o.day = d => o.at <= r.at}

\* _effective_readings: the last row of its day unless a row corrects it.
Effective(m) == {r \in ReadingsOf(m) : r \in LastOnDay(m, r.day) /\ ~Corrected(r)}

\* DbMeterGateway orders by recorded_at, and the fold keeps the last row of
\* a day; the links between corrections are not read.
Billed(m, d) == LastOnDay(m, d)

----------------------------------------------------------------------------
(* create_reading.                                                         *)

\* The caller knows the reading it corrects, so that reading is committed.
BeginReading(s, m, d, corrects, confirmed) ==
    /\ m \in meter
    /\ corrects # 0 => \E r \in reading : r.at = corrects
    /\ Begin(s, [op |-> "read", confirmed |-> confirmed,
                 row |-> [meter |-> m, day |-> d, at |-> beginning + 1,
                          corrects |-> corrects]])

\* Mutant: the day of the corrected reading is not compared.
CorrectableAnyDay(row) == \E r \in Effective(row.meter) : r.at = row.corrects

Correctable(row) == \E r \in Effective(row.meter) : r.at = row.corrects /\ r.day = row.day

\* A reading that corrects none on a day that has one needs a confirmation.
DuplicateDate(row) == row.corrects = 0 /\ \E r \in Effective(row.meter) : r.day = row.day

\* _reading_findings: blockers refuse, warnings refuse unless confirmed.
Accepted(row, confirmed) ==
    /\ Lifecycle(row.meter) # "VOID"
    /\ EventsOf(row.meter) # {} => row.day <= LastEvent(row.meter).day
    /\ row.corrects # 0 => Correctable(row)
    /\ DuplicateDate(row) => confirmed

CheckReading(s) ==
    LET r == meterRequest[s] IN
    /\ r.op = "read" /\ Accepted(r.row, r.confirmed)
    /\ Continue(s, [op |-> "record", row |-> r.row])
    /\ UNCHANGED <<meter, reading, event, beginning>>

\* uq_meter_reading_direct_successor
InsertReading(s) ==
    LET row == meterRequest[s].row IN
    /\ meterRequest[s].op = "record"
    /\ row.corrects # 0 => \A r \in ReadingsOf(row.meter) : r.corrects # row.corrects
    /\ reading' = reading \cup {row}
    /\ Continue(s, Idle)
    /\ UNCHANGED <<meter, event, beginning>>

----------------------------------------------------------------------------
(* remove_meter, void_meter, create_meter.                                 *)

\* A meter with readings can be removed, but not voided.
BeginEnd(s, m, type, d) ==
    /\ m \in meter /\ Lifecycle(m) = "ACTIVE"
    /\ type = "VOID" => ReadingsOf(m) = {}
    /\ Begin(s, [op |-> "end", event |->
                    [meter |-> m, type |-> type, day |-> d, at |-> beginning + 1]])

InsertEvent(s) ==
    /\ meterRequest[s].op = "end"
    /\ event' = event \cup {meterRequest[s].event}
    /\ Continue(s, Idle)
    /\ UNCHANGED <<meter, reading, beginning>>

\* A first meter of its kind; serials are unique within the building.
InstallMeter(s, m) ==
    /\ meterRequest[s] = Idle /\ m \notin meter
    /\ meter' = meter \cup {m}
    /\ UNCHANGED <<reading, event, beginning, meterRequest>>

BeginReplacement(s, old, new, d) ==
    /\ old \in meter /\ new \notin meter /\ Lifecycle(old) = "ACTIVE"
    /\ Begin(s, [op |-> "replace", old |-> old, new |-> new, day |-> d,
                 at |-> beginning + 1])

\* The last reading of the old meter and the first of the new one, which are
\* not checked against the readings there are.
DeviceChange(t) ==
    {[meter |-> m, day |-> t.day, at |-> t.at, corrects |-> 0] : m \in {t.old, t.new}}

\* UNIQUE (building_id, serial)
InsertReplacement(s) ==
    LET t == meterRequest[s] IN
    /\ t.op = "replace" /\ t.new \notin meter
    /\ meter' = meter \cup {t.new}
    /\ event' = event \cup
          {[meter |-> t.old, type |-> "REPLACED", day |-> t.day, at |-> t.at]}
    /\ reading' = reading \cup DeviceChange(t)
    /\ Continue(s, Idle)
    /\ UNCHANGED beginning

----------------------------------------------------------------------------

Next ==
    \E s \in Session :
        \/ \E m \in Meter, d \in Day, c \in 0 .. MaxBegin, ok \in BOOLEAN :
              BeginReading(s, m, d, c, ok)
        \/ CheckReading(s) \/ InsertReading(s)
        \/ \E m \in Meter, d \in Day, type \in {"REMOVED", "VOID"} : BeginEnd(s, m, type, d)
        \/ InsertEvent(s)
        \/ \E m \in Meter : InstallMeter(s, m)
        \/ \E old, new \in Meter, d \in Day : BeginReplacement(s, old, new, d)
        \/ InsertReplacement(s)
        \/ GiveUp(s)

Spec == Init /\ [][Next]_vars

----------------------------------------------------------------------------

TypeOK ==
    /\ reading \subseteq Reading /\ event \subseteq Event
    /\ {r.meter : r \in reading} \cup {e.meter : e \in event} \subseteq meter
    /\ meter \subseteq Meter /\ beginning \in 0 .. MaxBegin

(***************************************************************************)
(* A day with readings has exactly one effective reading in the workspace, *)
(* and it is the one the bill uses, although the two are computed by       *)
(* different rules and concurrent requests commit out of order. (Code:     *)
(* meters.py 252-265 against meter_gateway.py 63-80.)                      *)
(***************************************************************************)
OneEffectiveReading ==
    \A r \in reading :
        /\ {e \in Effective(r.meter) : e.day = r.day} = Billed(r.meter, r.day)
        /\ Cardinality(Billed(r.meter, r.day)) = 1
=============================================================================
