--------------------------- MODULE WeatherStation ---------------------------
(***************************************************************************)
(* The weather of the consumption information, as the adapter normalises   *)
(* it before it is stored (packages/adapters: dwd.py): the degree days of  *)
(* a month with the station that stands for a postal code, and the annual  *)
(* climate factors with the factor of a postal code for a rolling year.    *)
(*                                                                         *)
(* Places are kilometres north of the equator on one meridian, where a     *)
(* great circle's length is a difference. A text that is not what its      *)
(* column asks for is the value Blank, or a row that is not complete.      *)
(***************************************************************************)
EXTENDS Calendar, Sequences, TLC

Blank == 0

\* 90 degrees of latitude.
Pole == 10007

Distance(a, b) == IF a < b THEN b - a ELSE a - b

-----------------------------------------------------------------------------
(* The rows of a month: nine columns, tokenized already.                   *)

\* A month's heating days are days that were measured.
RowReads(row, month) ==
    /\ row.complete /\ row.station # Blank /\ row.month = month
    /\ row.valid <= LastDay(month.y, month.m) /\ row.heating <= row.valid
    /\ row.place \in -Pole .. Pole
    /\ row.degreeDays >= 0

OncePerStation(rows) ==
    \A i, j \in DOMAIN rows : rows[i].station = rows[j].station => i = j

FileReads(file) ==
    /\ file.name # Blank
    /\ \A i \in DOMAIN file.rows : RowReads(file.rows[i], file.month)
    /\ OncePerStation(file.rows)

\* The records of a file, each with the evidence of where it is from.
RecordsOf(file) == [i \in DOMAIN file.rows |-> file.rows[i] @@ [file |-> file.name]]

\* What an assignment takes for a month: records of that month from one file.
MonthReads(records, month) ==
    /\ records # <<>> /\ OncePerStation(records)
    /\ \A i, j \in DOMAIN records :
          records[i].month = month /\ records[i].file = records[j].file

-----------------------------------------------------------------------------
(* The station of a postal code.                                           *)

\* The vendored centroids: a code is five digits and listed once.
Centroid == (10115 :> 5840) @@ (80331 :> 5350)

\* A station stands for both months only if each has 25 days of it.
MinimumDays == 25

Stations(records) == {records[i].station : i \in DOMAIN records}

Of(records, s) == records[CHOOSE i \in DOMAIN records : records[i].station = s]

CommonStations(target, comparison) ==
    {s \in Stations(target) \cap Stations(comparison) :
        Of(target, s).valid >= MinimumDays /\ Of(comparison, s).valid >= MinimumDays}

\* Nothing is assigned when a station, measured or not, has moved.
Drifted(target, comparison) ==
    \E s \in Stations(target) \cap Stations(comparison) :
        Of(target, s).place # Of(comparison, s).place

Nearer(a, b) == a[1] < b[1] \/ (a[1] = b[1] /\ a[2] <= b[2])

Refused == [kind |-> "refused"]

\* Mutant: the comparison month's days are not looked at.
NearestOfTarget(code, target, comparison) ==
    LET ranked == {<<Distance(Centroid[code], Of(target, s).place), s>> :
                      s \in {t \in Stations(target) \cap Stations(comparison) :
                                Of(target, t).valid >= MinimumDays}}
    IN  IF ranked = {} THEN <<>> ELSE <<CHOOSE r \in ranked : \A o \in ranked : Nearer(r, o)>>

Nearest(code, target, comparison) ==
    LET ranked == {<<Distance(Centroid[code], Of(target, s).place), s>> :
                      s \in CommonStations(target, comparison)}
    IN  IF ranked = {} THEN <<>> ELSE <<CHOOSE r \in ranked : \A o \in ranked : Nearer(r, o)>>

\* What is assigned, with the evidence to assign it again.
Assigned(f, distance, station) ==
    [kind |-> "assigned", station |-> station, distance |-> distance, far |-> distance > 50,
     months |-> f.months, files |-> <<f.target.name, f.comparison.name>>]

\* assign_monthly_station_for_plz, from the files of both months.
Assign(f) ==
    LET target == RecordsOf(f.target)
        comparison == RecordsOf(f.comparison)
        nearest == Nearest(f.code, target, comparison)
    IN  IF \/ ~FileReads(f.target) \/ ~FileReads(f.comparison)
           \/ f.code \notin DOMAIN Centroid
           \/ ~MonthReads(target, f.months[1]) \/ ~MonthReads(comparison, f.months[2])
           \/ Drifted(target, comparison)
        THEN Refused
        ELSE IF nearest = <<>> THEN [kind |-> "none"]
        ELSE Assigned(f, nearest[1][1], nearest[1][2])

-----------------------------------------------------------------------------
(* Annual climate factors: a file of one rolling year.                     *)

\* A code that lost its leading zeroes is the same code: [digits, value].
CodeReads(code) == code.digits \in 1 .. 5

\* Hundredths, written with the separator of the file's kind.
FactorReads(factor, comma) == factor.comma = comma /\ factor.hundredths \in 40 .. 180

\* The day a year later; 29 February has none and becomes the 28th.
YearLater(x) == Date(x.y + 1, x.m, IF x.m = 2 /\ x.d = 29 THEN 28 ELSE x.d)

PeriodReads(p) ==
    /\ p.named
    /\ Ordinal(p.to) + 1 = Ordinal(YearLater(p.from))
    /\ NotBefore(p.published, p.to)

\* Only a CSV whose name ends in _k writes commas.
Comma(p) == p.comma /\ ~p.xml

Identity(p, row) == <<row.code.value, p.from, p.to>>

FactorRowReads(p, row) ==
    /\ row.complete /\ row.from = p.from /\ row.to = p.to
    /\ CodeReads(row.code) /\ FactorReads(row.factor, Comma(p))

\* A file is taken as a whole or not at all: at least 7000 rows, no code
\* twice. p.others stands for further rows, each of its own code.
MinimumRows == 7000

PublicationReads(p) ==
    /\ PeriodReads(p) /\ p.headed
    /\ \A i \in DOMAIN p.rows : FactorRowReads(p, p.rows[i])
    /\ Len(p.rows) + p.others >= MinimumRows
    /\ \A i, j \in DOMAIN p.rows : p.rows[i].code.value = p.rows[j].code.value => i = j

FactorsOf(p) ==
    [x \in {Identity(p, p.rows[i]) : i \in DOMAIN p.rows} |->
        LET row == p.rows[CHOOSE i \in DOMAIN p.rows : Identity(p, p.rows[i]) = x]
        IN  [factor |-> row.factor.hundredths, file |-> <<p.from, p.to, p.published>>]]

\* merge_annual_climate_factors: what is new wins, what is older stays.
Merge(existing, incoming) == incoming @@ existing

\* An import, or the store as it was when the file cannot be read.
Import(store, p) == IF PublicationReads(p) THEN Merge(store, FactorsOf(p)) ELSE store

\* resolve_annual_climate_factor: the factor, or the raw comparison.
Resolve(store, code, from, to) ==
    IF ~CodeReads(code) THEN Refused
    ELSE IF <<code.value, from, to>> \in DOMAIN store
    THEN [kind |-> "factor", factor |-> store[<<code.value, from, to>>].factor]
    ELSE [kind |-> "raw"]

NoFactors == [x \in {} |-> Refused]

\* Two publications, one after the other, and a question.
Factor(f) ==
    Resolve(Import(Import(NoFactors, f.first), f.second), f.code, f.from, f.to)

-----------------------------------------------------------------------------
(***************************************************************************)
(* Files and questions put to WeatherStation, and what the answers must    *)
(* agree with: the same question with the months changed over, without a   *)
(* station that was not chosen, and with a file read a second time.        *)
(***************************************************************************)

Target == Date(2024, 2, 1)
Earlier == Date(2023, 2, 1)

Measured(station, place, month, valid) ==
    [complete |-> TRUE, station |-> station, place |-> place, month |-> month,
     valid |-> valid, heating |-> 20, degreeDays |-> 4000]

File(name, month, rows) == [name |-> name, month |-> month, rows |-> rows]

\* Up to three stations: two equally near, a third far away.
Rows(month) ==
    {[i \in 1 .. 3 |-> Measured(i, <<5830, 5850, north>>[i], month, valid[i])] :
        valid \in {24, 25} \X {20, 28} \X {20, 28}, north \in {5890, 5891}}
    \cup {<<>>, <<Measured(2, 5850, month, 29)>>,
          <<Measured(2, 5850, month, 28), Measured(3, 5890, month, 28)>>}

\* A file that cannot be read: a row that is not complete, of no station, of
\* another month, with more days than the month has, heated on days that
\* were not measured, beyond the pole or twice.
Broken(month) ==
    LET row == Measured(1, 5830, month, 28) IN
    {<<[row EXCEPT !.complete = FALSE]>>, <<[row EXCEPT !.station = Blank]>>,
     <<[row EXCEPT !.month = Date(2022, 2, 1)]>>, <<[row EXCEPT !.valid = 30]>>,
     <<[row EXCEPT !.valid = 19]>>, <<[row EXCEPT !.place = Pole + 1]>>,
     <<[row EXCEPT !.degreeDays = -1]>>, <<row, row>>}

StationQuestions ==
    {[code |-> code, months |-> <<Target, Earlier>>, target |-> File(name, Target, t),
      comparison |-> File(2, Earlier, c)] :
        code \in {10115, 80331, 99999}, name \in {1, Blank}, t \in Rows(Target), c \in Rows(Earlier)}
    \cup {[code |-> 10115, months |-> months, target |-> File(1, Target, t),
           comparison |-> File(2, Earlier, c)] :
        months \in {<<Target, Earlier>>, <<Target, Target>>},
        t \in Broken(Target) \cup {<<Measured(1, 5830, Target, 28)>>},
        c \in Broken(Earlier) \cup {<<Measured(1, 5830, Earlier, 28)>>}}

\* A code as it is written, with as many digits.
Code(digits, value) == [digits |-> digits, value |-> value]

FactorRow(p, code, hundredths) ==
    [complete |-> TRUE, from |-> p.from, to |-> p.to, code |-> code,
     factor |-> [comma |-> Comma(p), hundredths |-> hundredths]]

Publication(from, to, published) ==
    [named |-> TRUE, xml |-> FALSE, comma |-> TRUE, headed |-> TRUE, from |-> from, to |-> to,
     published |-> published, others |-> 6999]

WithRows(p, rows) == p @@ [rows |-> rows]

OfYear == Publication(Date(2024, 3, 1), Date(2025, 2, 28), Date(2025, 4, 15))

\* The same period again, a later one, one from a leap day, one too long.
Publications ==
    LET later == Publication(Date(2024, 6, 1), Date(2025, 5, 31), Date(2025, 5, 30))
        leap == Publication(Date(2024, 2, 29), Date(2025, 2, 27), Date(2025, 2, 27))
        one(p, code, h) == WithRows(p, <<FactorRow(p, code, h)>>)
        row == FactorRow(OfYear, Code(5, 1067), 114)
    IN  {one(p, Code(digits, 1067), h) :
            p \in {OfYear, leap, [later EXCEPT !.published = Date(2025, 5, 31)]},
            digits \in {4, 5}, h \in {39, 40, 180, 181}}
        \cup {one(p, Code(5, 1067), 114) :
            p \in {later, [OfYear EXCEPT !.to = Date(2025, 3, 1)], [OfYear EXCEPT !.others = 6998],
                   [OfYear EXCEPT !.named = FALSE], [OfYear EXCEPT !.headed = FALSE],
                   [OfYear EXCEPT !.xml = TRUE]}}
        \cup {WithRows(OfYear, rows) :
            rows \in {<<row, FactorRow(OfYear, Code(4, 1067), 90)>>,
                      <<row, FactorRow(OfYear, Code(5, 80331), 90)>>,
                      <<[row EXCEPT !.code = Code(0, 0)]>>, <<[row EXCEPT !.from = Date(2024, 4, 1)]>>,
                      <<[row EXCEPT !.factor.comma = FALSE]>>, <<[row EXCEPT !.complete = FALSE]>>}}

FactorQuestions ==
    {[first |-> a, second |-> b, code |-> c, from |-> p.from, to |-> p.to] :
        a \in Publications, b \in Publications, p \in {OfYear},
        c \in {Code(4, 1067), Code(5, 1067), Code(5, 80331), Code(6, 1067)}}

-----------------------------------------------------------------------------

\* The question with its months changed over.
Swapped(f) ==
    [f EXCEPT !.months = <<f.months[2], f.months[1]>>, !.target = f.comparison,
              !.comparison = f.target]

Without(file, s) == [file EXCEPT !.rows = SelectSeq(file.rows, LAMBDA r : r.station # s)]

\* The same station stands for both months and each has 25 days of it, no
\* nearer one has; a station that was not chosen does not matter, nor which
\* of the two months is asked for; and a station that moved, chosen or not,
\* refuses the assignment.
AssignmentAgrees(f, r) ==
    LET other == Assign(Swapped(f)) IN
    /\ other.kind = r.kind
    /\ r.kind # "refused" =>
          \A i \in DOMAIN f.target.rows, j \in DOMAIN f.comparison.rows :
              LET t == f.target.rows[i]
                  c == f.comparison.rows[j]
              IN  t.station = c.station =>
                    /\ t.place = c.place
                    /\ t.valid > 24 /\ c.valid > 24 =>
                          /\ r.kind = "assigned"
                          /\ r.distance <= Distance(Centroid[f.code], t.place)
                    /\ r.kind = "assigned" /\ r.station = t.station =>
                          t.valid > 24 /\ c.valid > 24 /\ (r.far <=> Distance(Centroid[f.code], t.place) > 50)
    /\ r.kind = "assigned" =>
          /\ other.station = r.station
          /\ \A i \in DOMAIN f.target.rows :
                LET s == f.target.rows[i].station IN
                s # r.station =>
                    LET less == Assign([f EXCEPT !.target = Without(f.target, s)])
                    IN  less.kind = "assigned" /\ less.station = r.station

\* The code has the factor of the last file that was read and names it, with
\* or without its zeroes; what is read again changes nothing, and an accepted
\* period has as many days as its year.
FactorAgrees(f, r) ==
    LET says(p) == IF PublicationReads(p) /\ p.from = f.from /\ p.to = f.to
                   THEN {p.rows[i].factor.hundredths :
                            i \in {k \in DOMAIN p.rows : p.rows[k].code.value = f.code.value}}
                   ELSE {}
        once == Import(Import(NoFactors, f.first), f.second)
    IN  /\ r.kind = "refused" <=> f.code.digits = 6
        /\ r.kind = "factor" => r.factor \in (IF says(f.second) # {} THEN says(f.second) ELSE says(f.first))
        /\ r.kind = "raw" => says(f.first) \cup says(f.second) = {}
        /\ Import(once, f.second) = once
        /\ \A x \in DOMAIN once : Ordinal(x[3]) - Ordinal(x[2]) \in {364, 365}
        /\ \A x \in DOMAIN once : once[x].factor \in 40 .. 180
=============================================================================
