------------------------------ MODULE UviRuns ------------------------------
(***************************************************************************)
(* The monthly consumption information (apps/api: routers/uvi_runs.py) and *)
(* the versions of the building's configuration that it resolves           *)
(* (routers/meters.py). A run is made once and archived; the rows it reads *)
(* are append-only, a correction supersedes the row before it.             *)
(*                                                                         *)
(* Dates count half months: month m reaches from 2m up to, but not on,     *)
(* 2m + 2. The arithmetic of the blocks, the degree days and the building  *)
(* evidence decide only whether a request is refused, which any request    *)
(* may be.                                                                 *)
(***************************************************************************)
EXTENDS Integers, Sequences, FiniteSets

CONSTANTS
    Session,          \* concurrent requests
    Tenancy,          \* tenancies of the building
    Month,            \* months asked for
    ValidFrom,        \* days a configuration may begin on
    ValidTo,          \* days it may end before; NoEnd when it is open
    NoEnd,            \* later than every day
    MaxConfiguration, \* bound: configurations
    MaxReading,       \* bound: monthly readings
    MaxRun            \* bound: runs

VARIABLES
    configuration,  \* building_uvi_configuration by insertion
    monthlyReading, \* monthly_meter_reading by insertion
    uviRun,         \* uvi_run by insertion, each with its GENERATED event
    answered,       \* history: the runs that requests were answered with
    uviRequest      \* what each request has read

vars == <<configuration, monthlyReading, uviRun, answered, uviRequest>>

\* supersedes is the position of the predecessor, 0 for a first row.
Configuration ==
    [from: ValidFrom, to: ValidTo \cup {NoEnd}, supersedes: 0 .. MaxConfiguration]

MonthlyReading == [tenancy: Tenancy, month: Nat, supersedes: 0 .. MaxReading]

UviRun ==
    [tenancy: Tenancy, month: Month, configuration: 1 .. MaxConfiguration,
     target: 1 .. MaxReading, previous: 0 .. MaxReading]

Idle == [op |-> "idle"]

Init ==
    /\ configuration = <<>> /\ monthlyReading = <<>>
    /\ uviRun = <<>> /\ answered = {}
    /\ uviRequest = [s \in Session |-> Idle]

Continue(s, state) == uviRequest' = [uviRequest EXCEPT ![s] = state]

\* Refused (403, 404, 422) or abandoned.
GiveUp(s) ==
    /\ uviRequest[s] # Idle
    /\ Continue(s, Idle)
    /\ UNCHANGED <<configuration, monthlyReading, uviRun, answered>>

Leaves(rows, of) == {i \in of : \A j \in of : rows[j].supersedes # i}

----------------------------------------------------------------------------
(* _append_gas_configuration, called when a gas meter is created.          *)

ReadLeaf(s, from, to) ==
    LET leaves == Leaves(configuration, DOMAIN configuration)
        row(i) == [from |-> from, to |-> to, supersedes |-> i]
    IN  /\ uviRequest[s] = Idle /\ from < to /\ Cardinality(leaves) <= 1
        /\ \A i \in leaves : configuration[i].from < from
        /\ \E i \in IF leaves = {} THEN {0} ELSE leaves :
              Continue(s, [op |-> "configure", row |-> row(i)])
        /\ UNCHANGED <<configuration, monthlyReading, uviRun, answered>>

\* The unique keys: one first row, one successor of every row.
Superseded(rows, i) == \E j \in DOMAIN rows : rows[j].supersedes = i

InsertConfiguration(s) ==
    /\ uviRequest[s].op = "configure" /\ Len(configuration) < MaxConfiguration
    /\ ~Superseded(configuration, uviRequest[s].row.supersedes)
    /\ configuration' = Append(configuration, uviRequest[s].row)
    /\ Continue(s, Idle)
    /\ UNCHANGED <<monthlyReading, uviRun, answered>>

----------------------------------------------------------------------------
(* Monthly readings are written outside src/. Only a direct successor is   *)
(* unique, so that a month may get two first readings.                     *)

MonthOf(t, m) ==
    {i \in DOMAIN monthlyReading :
        monthlyReading[i].tenancy = t /\ monthlyReading[i].month = m}

RecordMonth(t, m, corrects) ==
    /\ Len(monthlyReading) < MaxReading
    /\ corrects # 0 => corrects \in Leaves(monthlyReading, MonthOf(t, m))
    /\ monthlyReading' = Append(monthlyReading,
          [tenancy |-> t, month |-> m, supersedes |-> corrects])
    /\ UNCHANGED <<configuration, uviRun, answered, uviRequest>>

----------------------------------------------------------------------------
(* resolve_building_uvi_configuration.                                     *)

Eligible(m) == {i \in DOMAIN configuration : configuration[i].from <= 2 * m}

\* The number of eligible ancestors of an eligible row.
Depth(m) ==
    LET depth[i \in Nat] ==
          IF configuration[i].supersedes \in Eligible(m)
          THEN 1 + depth[configuration[i].supersedes] ELSE 0
    IN  [i \in Eligible(m) |-> depth[i]]

Selected(m) ==
    {i \in Eligible(m) : \A j \in Eligible(m) :
        \/ Depth(m)[j] < Depth(m)[i]
        \/ Depth(m)[j] = Depth(m)[i] /\ configuration[j].from <= configuration[i].from}

\* The boundary of any version, a superseded one included, blocks its month.
BoundaryInside(m) ==
    \E i \in DOMAIN configuration :
        2 * m + 1 \in {configuration[i].from, configuration[i].to}

Ready(i, m) == ~BoundaryInside(m) /\ configuration[i].to >= 2 * m + 2

----------------------------------------------------------------------------
(* create_uvi_run.                                                         *)

RunsOf(t, m) == {i \in DOMAIN uviRun : uviRun[i].tenancy = t /\ uviRun[i].month = m}

Answer(t, m, i) == answered' = answered \cup {[tenancy |-> t, month |-> m, run |-> i]}

AnswerExisting(s, t, m) ==
    /\ uviRequest[s] = Idle
    /\ \E i \in RunsOf(t, m) : Answer(t, m, i)
    /\ UNCHANGED <<configuration, monthlyReading, uviRun, uviRequest>>

BeginRun(s, t, m) ==
    /\ uviRequest[s] = Idle /\ RunsOf(t, m) = {}
    /\ Continue(s, [op |-> "resolve", tenancy |-> t, month |-> m])
    /\ UNCHANGED <<configuration, monthlyReading, uviRun, answered>>

\* One query serves the month and the one before it.
ResolveConfiguration(s) ==
    LET r == uviRequest[s] IN
    /\ r.op = "resolve"
    /\ \E i \in Selected(r.month) :
          /\ Ready(i, r.month)
          /\ Continue(s, [op |-> "target", tenancy |-> r.tenancy, month |-> r.month,
                          configuration |-> i,
                          comparable |-> \E j \in Selected(r.month - 1) :
                                             Ready(j, r.month - 1)])
    /\ UNCHANGED <<configuration, monthlyReading, uviRun, answered>>

CurrentReadings(t, m) == Leaves(monthlyReading, MonthOf(t, m))

\* _leaf refuses a month with two heads.
ReadTarget(s) ==
    LET r == uviRequest[s] IN
    /\ r.op = "target"
    /\ \E i \in CurrentReadings(r.tenancy, r.month) :
          /\ CurrentReadings(r.tenancy, r.month) = {i}
          /\ Continue(s, [op |-> "previous", tenancy |-> r.tenancy, month |-> r.month,
                          configuration |-> r.configuration,
                          comparable |-> r.comparable, target |-> i])
    /\ UNCHANGED <<configuration, monthlyReading, uviRun, answered>>

\* A reading to compare with needs a configuration of its own month.
ReadPrevious(s) ==
    LET r == uviRequest[s]
        heads == CurrentReadings(r.tenancy, r.month - 1)
    IN  /\ r.op = "previous"
        /\ heads # {} => r.comparable
        /\ \E i \in IF heads = {} THEN {0} ELSE heads :
              /\ heads \subseteq {i}
              /\ Continue(s, [op |-> "archive", row |->
                    [tenancy |-> r.tenancy, month |-> r.month,
                     configuration |-> r.configuration,
                     target |-> r.target, previous |-> i]])
        /\ UNCHANGED <<configuration, monthlyReading, uviRun, answered>>

\* Mutant: no unique key on tenancy and month.
MadeNever(t, m) == FALSE

\* uq_uvi_run_tenancy_month
Made(t, m) == RunsOf(t, m) # {}

\* The savepoint keeps the run and its event, or is undone by the unique key;
\* then the run that won is read again and answered with.
ArchiveRun(s) ==
    LET row == uviRequest[s].row IN
    /\ uviRequest[s].op = "archive"
    /\ \/ /\ ~Made(row.tenancy, row.month) /\ Len(uviRun) < MaxRun
          /\ uviRun' = Append(uviRun, row)
          /\ Answer(row.tenancy, row.month, Len(uviRun) + 1)
       \/ /\ Made(row.tenancy, row.month)
          /\ \E i \in RunsOf(row.tenancy, row.month) : Answer(row.tenancy, row.month, i)
          /\ UNCHANGED uviRun
    /\ Continue(s, Idle)
    /\ UNCHANGED <<configuration, monthlyReading>>

----------------------------------------------------------------------------

Next ==
    \/ \E t \in Tenancy, m \in Month \cup {n - 1 : n \in Month}, c \in 0 .. MaxReading :
          RecordMonth(t, m, c)
    \/ \E s \in Session :
          \/ \E from \in ValidFrom, to \in ValidTo \cup {NoEnd} : ReadLeaf(s, from, to)
          \/ InsertConfiguration(s)
          \/ \E t \in Tenancy, m \in Month : AnswerExisting(s, t, m) \/ BeginRun(s, t, m)
          \/ ResolveConfiguration(s) \/ ReadTarget(s) \/ ReadPrevious(s) \/ ArchiveRun(s)
          \/ GiveUp(s)

Spec == Init /\ [][Next]_vars

----------------------------------------------------------------------------

TypeOK ==
    /\ configuration \in Seq(Configuration) /\ monthlyReading \in Seq(MonthlyReading)
    /\ uviRun \in Seq(UviRun)
    /\ answered \subseteq [tenancy: Tenancy, month: Month, run: DOMAIN uviRun]

(***************************************************************************)
(* A month of a tenancy has one run, and every answer about it names that  *)
(* run, whichever of two simultaneous requests made it. The run used the   *)
(* version that began last of those there were, and that version holds for *)
(* the whole month, although versions are appended while requests read:    *)
(* the depth of a version follows the order of their beginnings. (Code:    *)
(* uvi_runs.py 130-173, 610-632, 1695-1741 and meters.py 697-757.)         *)
(***************************************************************************)
OneRunPerMonth ==
    /\ \A i, j \in DOMAIN uviRun :
          uviRun[i].tenancy = uviRun[j].tenancy /\ uviRun[i].month = uviRun[j].month => i = j
    /\ \A a \in answered :
          uviRun[a.run].tenancy = a.tenancy /\ uviRun[a.run].month = a.month
    /\ \A i \in DOMAIN uviRun :
          LET used == uviRun[i].configuration
              m == uviRun[i].month
          IN  /\ configuration[used].from <= 2 * m /\ 2 * m + 2 <= configuration[used].to
              /\ \A j \in 1 .. used - 1 : configuration[j].from < configuration[used].from
=============================================================================
