----------------------------- MODULE GuardRules -----------------------------
(***************************************************************************)
(* The guards W1 to W8 (packages/guard-engine) with the values of the      *)
(* rules-store's Page-05 bundles. A guard looks at one subject on one day  *)
(* and says its stage, whether it is active, and the day it is about; the  *)
(* texts, the evidence and the blockers of the rules are left out. Money   *)
(* is in cents, an index and a rate are fractions of integers.             *)
(***************************************************************************)
EXTENDS Calendar, Cents, Sequences, TLC

NoDate == Date(0, 1, 1)  \* a date that is null

Unstated == -1           \* an amount that is null

Wrong == [kind |-> "error"]  \* ValueError

DaysOrNone == Days \cup {NoDate}

Entries == Seq([date : Days, amount : Int])

Snapshots == [value : Int, year : Int]

\* What the engine is asked, guard by guard; it checks the amounts itself.
Inputs ==
    [guard : {"W1"}, today : Days, period_end : Days, delivered : DaysOrNone]
    \cup [guard : {"W2"}, today : Days, medium : STRING, calibrated : DaysOrNone]
    \cup [guard : {"W3"}, today : Days, rent : Int, due : Entries, payments : Entries]
    \cup [guard : {"W4"}, today : Days, remote : BOOLEAN, sent : DaysOrNone,
          start : DaysOrNone, sentThisMonth : BOOLEAN]
    \cup [guard : {"W5"}, today : Days, rent : Int, base : Int, comparative : Int,
          tight : BOOLEAN, last : Days, request : DaysOrNone]
    \cup [guard : {"W6"}, today : Days, schedule : Entries, rent : Int]
    \cup [guard : {"W7"}, today : Days, rent : Int, base : Snapshots, new : Snapshots,
          last : Days]
    \cup [guard : {"W8"}, today : Days, rent : Int, occupied : BOOLEAN, ended : Days]

NotAfter(a, b) == ~Before(b, a)

\* sorted(key=date): the places in S of a list, entries of one day in their
\* order in the list.
ByDate(list, S) ==
    CHOOSE q \in [1 .. Cardinality(S) -> S] :
        \A i, j \in DOMAIN q : i < j =>
            \/ Before(list[q[i]].date, list[q[j]].date)
            \/ list[q[i]].date = list[q[j]].date /\ q[i] < q[j]

\* Who is told, by guard and stage (the channels of the bundles, which W1 and
\* W4 do not have).
Channels(guard, stage) ==
    CASE guard = "W2" /\ stage = "exceeded" -> {"EMAIL"}
      [] guard = "W2" /\ stage = "expiry_month" -> {"EMAIL", "IN_APP"}
      [] guard = "W3" /\ stage = "3a" -> {"EMAIL"}
      [] guard = "W3" /\ stage = "3b" -> {"PUSH"}
      [] <<guard, stage>> \in
            {<<"W2", "notice">>, <<"W3", "info">>, <<"W5", "opportunity">>,
             <<"W6", "adjustment_due">>, <<"W7", "opportunity">>, <<"W8", "vacancy">>}
            -> {"IN_APP"}
      [] OTHER -> {}

\* A guard's result, with what the guard says of its own.
Guard(guard, stage, active, resolved, boundary, detail) ==
    [kind |-> "guard", stage |-> stage, active |-> active, resolved |-> resolved,
     boundary |-> boundary, channels |-> Channels(guard, stage), detail |-> detail]

NoDetail == <<>>

-----------------------------------------------------------------------------
(* W1: a statement reaches the renter within twelve months of its period.  *)

StatementDeadline(f) ==
    LET boundary == AddMonths(f.period_end, 12)
        days == Ordinal(boundary) - Ordinal(f.today)
        inTime == f.delivered # NoDate /\ NotAfter(f.delivered, boundary)
        stage == CASE inTime -> "resolved"
                   [] ~inTime /\ days < 0 -> "expired"
                   [] ~inTime /\ days = 0 -> "last_day"
                   [] ~inTime /\ days = 30 -> "reminder_30_days"
                   [] ~inTime /\ days = 90 -> "reminder_90_days"
                   [] OTHER -> "none"
        objection == IF f.delivered = NoDate THEN NoDate ELSE AddMonths(f.delivered, 12)
    IN  Guard("W1", stage, stage \notin {"resolved", "none"}, inTime, boundary,
              [objection |-> objection])

(* W2: a meter is calibrated to the end of a year.                         *)

ValidYears(medium) ==
    CASE medium \in {"cold_water", "warm_water", "heat_meter", "heat_exchanger_hot_water"} -> 6
      [] medium \in {"electricity", "gas"} -> 8
      [] OTHER -> 0

MeterCalibration(f) ==
    LET boundary == Date(f.calibrated.y + ValidYears(f.medium), 12, 31)
        months == 12 * (boundary.y - f.today.y) + boundary.m - f.today.m
        stage == CASE months < 0 -> "exceeded"
                   [] months = 0 -> "expiry_month"
                   [] months \in 1 .. 6 -> "notice"
                   [] OTHER -> "none"
    IN  CASE f.medium = "heat_cost_allocator" ->
                Guard("W2", "excluded", FALSE, FALSE, NoDate, NoDetail)
          [] f.medium # "heat_cost_allocator" /\ ValidYears(f.medium) = 0 -> Wrong
          [] ValidYears(f.medium) # 0 /\ f.calibrated = NoDate ->
                Guard("W2", "missing_calibration_date", TRUE, FALSE, NoDate, NoDetail)
          [] OTHER -> Guard("W2", stage, stage # "none", FALSE, boundary, NoDetail)

(* W3: payments pay the oldest debts first.                                *)

\* Mutant: what is paid after today has been received.
PaidAtAll(f) == SumOf([i \in DOMAIN f.payments |-> f.payments[i].amount])

Received(f) ==
    SumOf([i \in DOMAIN f.payments |->
              IF NotAfter(f.payments[i].date, f.today) THEN f.payments[i].amount ELSE 0])

\* The entries that have fallen due, and the open amount of each, oldest first.
FallenDue(f) == {i \in DOMAIN f.due : NotAfter(f.due[i].date, f.today)}

OpenAmounts(f) ==
    LET q == ByDate(f.due, FallenDue(f))
        amount == [i \in FallenDue(f) |-> f.due[i].amount]
        left[i \in 0 .. Cardinality(FallenDue(f))] ==
            IF i = 0 THEN Received(f) ELSE left[i - 1] - Min({amount[q[i]], left[i - 1]})
    IN  [i \in DOMAIN q |-> amount[q[i]] - Min({amount[q[i]], left[i - 1]})]

PaymentArrears(f) ==
    LET open == OpenAmounts(f)
        arrears == SumOf(open)
        dates == Cardinality({i \in DOMAIN open : open[i] > 0})
        terminates == dates > 2 /\ arrears >= 2 * f.rent
        warns == dates >= 2 /\ arrears > f.rent
        stage == CASE terminates -> "3b"
                   [] ~terminates /\ warns -> "3a"
                   [] ~terminates /\ ~warns /\ arrears > 0 -> "info"
                   [] OTHER -> "resolved"
    IN  IF \/ f.rent <= 0
           \/ \E i \in FallenDue(f) : f.due[i].amount < 0
           \/ \E i \in DOMAIN f.payments :
                 f.payments[i].amount < 0 /\ NotAfter(f.payments[i].date, f.today)
        THEN Wrong
        ELSE Guard("W3", stage, arrears > 0, arrears = 0, NoDate,
                   [arrears |-> arrears, dates |-> dates, warned |-> warns])

(* W4: a month of consumption information is due at the next month's end.  *)

RetrofitDeadline == Date(2026, 12, 31)

Cadence(f) ==
    LET source == IF f.sent # NoDate THEN f.sent ELSE f.start
        boundary == MonthEnd(AddMonths(source, 1))
        stage == CASE f.sentThisMonth -> "resolved"
                   [] ~f.sentThisMonth /\ Before(boundary, f.today) -> "overdue"
                   [] ~f.sentThisMonth /\ boundary = f.today -> "due"
                   [] OTHER -> "not_due"
    IN  CASE ~f.remote /\ NotAfter(f.today, RetrofitDeadline) ->
                Guard("W4", "retrofit_notice", TRUE, FALSE, RetrofitDeadline, NoDetail)
          [] \/ ~f.remote /\ Before(RetrofitDeadline, f.today)
             \/ f.remote /\ source = NoDate ->
                Guard("W4", "source_missing", FALSE, FALSE, NoDate, NoDetail)
          [] OTHER ->
                Guard("W4", stage, stage \in {"overdue", "due"}, f.sentThisMonth, boundary,
                      NoDetail)

(* W5: the rent may rise to the cap of three years and the comparative     *)
(* rent, fifteen months after the last increase.                           *)

CapPercent(f) == IF f.tight THEN 115 ELSE 120

ComparativeIncrease(f) ==
    LET ceiling == HalfUp(f.base * CapPercent(f), 100)
        limit == IF f.comparative = Unstated THEN ceiling ELSE Min({ceiling, f.comparative})
        increase == Max({0, limit - f.rent})
        declare == AddMonths(f.last, 12)
        active == NotAfter(declare, f.today) /\ increase > 0
        consent == MonthEnd(AddMonths(f.request, 2))
        action == AddMonths(consent, 3)
        asked == f.request # NoDate
        stage == IF active THEN "opportunity"
                 ELSE IF increase = 0 THEN "no_increase" ELSE "waiting_period"
    IN  IF f.rent < 0 \/ f.base < 0 \/ f.comparative < Unstated THEN Wrong
        ELSE Guard("W5", stage, active, FALSE, IF asked THEN action ELSE declare,
                   [ceiling |-> ceiling, limit |-> limit, increase |-> increase,
                    rule |-> IF f.comparative # Unstated /\ f.comparative < ceiling
                             THEN "comparative_rent" ELSE "cap",
                    earliest |-> AddMonths(f.last, 15),
                    effective |-> IF asked THEN MonthStart(AddMonths(f.request, 3)) ELSE NoDate,
                    consent |-> IF asked THEN consent ELSE NoDate])

(* W6: a graduated rent steps at most once a year.                         *)

GraduatedRent(f) ==
    LET q == ByDate(f.schedule, DOMAIN f.schedule)
        day(i) == f.schedule[q[i]].date
        reached == {i \in DOMAIN q : NotAfter(day(i), f.today)}
        step == f.schedule[q[Max(reached)]]
        due == reached # {} /\ step.amount # f.rent
        stage == IF due THEN "adjustment_due" ELSE IF reached # {} THEN "resolved" ELSE "not_due"
    IN  IF \E i \in 1 .. Len(f.schedule) - 1 : Before(day(i + 1), AddMonths(day(i), 12))
        THEN Guard("W6", "invalid", FALSE, FALSE, NoDate, NoDetail)
        ELSE Guard("W6", stage, due, reached # {} /\ ~due,
                   IF reached # {} THEN step.date ELSE NoDate, NoDetail)

(* W7: an indexed rent follows the index, once a year.                     *)

IndexRent(f) ==
    LET boundary == AddMonths(f.last, 12)
        elapsed == ElapsedMonths(f.last, f.today)
        rent == HalfUp(f.rent * f.new.value, f.base.value)
        stage == IF elapsed >= 12 THEN "opportunity" ELSE "waiting_period"
    IN  CASE f.rent < 0 -> Wrong
          [] f.rent >= 0 /\ f.base.year # f.new.year ->
                Guard("W7", "basis_year_mismatch", FALSE, FALSE, boundary, [rent |-> Unstated])
          [] f.rent >= 0 /\ f.base.year = f.new.year /\ f.base.value <= 0 -> Wrong
          [] /\ f.rent >= 0 /\ f.base.year = f.new.year
             /\ f.base.value > 0 /\ f.new.value <= f.base.value ->
                Guard("W7", "no_increase", FALSE, FALSE, boundary, [rent |-> Unstated])
          [] OTHER -> Guard("W7", stage, stage = "opportunity", FALSE, boundary, [rent |-> rent])

(* W8: an empty unit loses its last rent day by day.                       *)

VacancyThreshold == 30

RentPeriod == 30

Vacancy(f) ==
    LET days == Max({0, Ordinal(f.today) - Ordinal(f.ended)})
        stage == IF days > VacancyThreshold THEN "vacancy" ELSE "within_threshold"
    IN  CASE f.rent < 0 -> Wrong
          [] f.rent >= 0 /\ f.occupied ->
                Guard("W8", "active_tenancy", FALSE, TRUE, NoDate,
                      [days |-> Unstated, lost |-> Unstated])
          [] OTHER ->
                Guard("W8", stage, stage = "vacancy", FALSE, Plus(f.ended, VacancyThreshold),
                      [days |-> days, lost |-> HalfUp(f.rent * days, RentPeriod)])

Evaluate(f) ==
    CASE f.guard = "W1" -> StatementDeadline(f)
      [] f.guard = "W2" -> MeterCalibration(f)
      [] f.guard = "W3" -> PaymentArrears(f)
      [] f.guard = "W4" -> Cadence(f)
      [] f.guard = "W5" -> ComparativeIncrease(f)
      [] f.guard = "W6" -> GraduatedRent(f)
      [] f.guard = "W7" -> IndexRent(f)
      [] f.guard = "W8" -> Vacancy(f)

-----------------------------------------------------------------------------
(* Subjects and days for the check of the guards, and what a guard says of
   them, found another way: by looking for the days a rule is about. *)

-----------------------------------------------------------------------------
(* Days at the ends of months and of a leap February.                      *)

GuardDays ==
    {Date(2025, 2, 28), Date(2025, 3, 1), Date(2025, 3, 31), Date(2024, 11, 30), Date(2025, 1, 29),
     Date(2025, 1, 30), Date(2025, 12, 31), Date(2024, 2, 29), Date(2025, 6, 30), Date(2026, 1, 1)}

PeriodEnds == {Date(2024, 2, 29), Date(2023, 12, 31), Date(2024, 3, 31), Date(2024, 1, 30)}

Due(day, amount) == [date |-> day, amount |-> amount]

\* Entries out of order, due on one day, of nothing, not yet due.
DueEntries ==
    {<<>>, <<Due(Date(2025, 1, 1), 5), Due(Date(2025, 2, 1), 5)>>,
     <<Due(Date(2025, 3, 1), 5), Due(Date(2025, 1, 1), 5), Due(Date(2025, 2, 1), 3)>>,
     <<Due(Date(2025, 1, 1), 5), Due(Date(2025, 1, 1), 9), Due(Date(2025, 2, 1), 0),
       Due(Date(2025, 2, 28), 4)>>,
     <<Due(Date(2025, 1, 1), 6), Due(Date(2025, 3, 31), -2)>>}

PaidEntries ==
    {<<>>, <<Due(Date(2025, 1, 15), 7)>>, <<Due(Date(2025, 2, 28), 4), Due(Date(2025, 3, 1), 3)>>,
     <<Due(Date(2025, 1, 2), 30)>>, <<Due(Date(2025, 3, 1), -1)>>}

Schedules ==
    {<<>>, <<Due(Date(2024, 2, 29), 5), Due(Date(2025, 2, 28), 6)>>,
     <<Due(Date(2025, 3, 1), 6), Due(Date(2024, 3, 1), 5), Due(Date(2026, 3, 1), 7)>>,
     <<Due(Date(2024, 3, 2), 5), Due(Date(2025, 3, 1), 6)>>}

Index(value, year) == [value |-> value, year |-> year]

GuardQuestions ==
    [guard : {"W1"}, period_end : PeriodEnds, today : GuardDays,
     delivered : {NoDate, Date(2025, 2, 28), Date(2025, 3, 1), Date(2024, 12, 31)}]
    \cup [guard : {"W2"},
          medium : {"cold_water", "electricity", "gas", "heat_cost_allocator", "pellets"},
          calibrated : {NoDate, Date(2019, 1, 1), Date(2018, 12, 31), Date(2017, 5, 5)},
          today : GuardDays]
    \cup [guard : {"W3"}, rent : {0, 5}, due : DueEntries, payments : PaidEntries,
          today : {Date(2025, 1, 31), Date(2025, 2, 28), Date(2025, 3, 31)}]
    \cup [guard : {"W4"}, remote : BOOLEAN, sent : {NoDate, Date(2025, 1, 31), Date(2025, 5, 30)},
          start : {NoDate, Date(2024, 1, 15)}, sentThisMonth : BOOLEAN,
          today : GuardDays \cup {Date(2027, 1, 1)}]
    \cup [guard : {"W5"}, rent : {-1, 100, 120}, base : {99, 102},
          comparative : {Unstated, 110, 119},
          tight : BOOLEAN, last : {Date(2024, 2, 29), Date(2024, 1, 31)}, today : GuardDays,
          request : {NoDate, Date(2024, 11, 30), Date(2025, 1, 31)}]
    \cup [guard : {"W6"}, schedule : Schedules, rent : {5, 6}, today : GuardDays]
    \cup [guard : {"W7"}, rent : {-1, 101}, base : {Index(1000, 2020), Index(0, 2020)},
          new : {Index(1000, 2020), Index(1037, 2020), Index(1037, 2025), Index(-1, 2020)},
          last : {Date(2024, 2, 29), Date(2024, 3, 31), Date(2024, 1, 30)}, today : GuardDays]
    \cup [guard : {"W8"}, rent : {-1, 0, 1000}, occupied : BOOLEAN, today : GuardDays,
          ended : {Date(2025, 1, 29), Date(2024, 12, 31), Date(2025, 12, 1)}]

-----------------------------------------------------------------------------
(* A day n months on: the last day of that month not past the day's number. *)

MonthsOn(x, n) ==
    LET y == x.y + (x.m + n - 1) \div 12
        m == ((x.m + n - 1) % 12) + 1
    IN  Date(y, m, CHOOSE d \in 1 .. LastDay(y, m) :
                      d <= x.d /\ \A e \in 1 .. LastDay(y, m) : e <= x.d => e <= d)

DaysTo(a, b) == Ordinal(b) - Ordinal(a)

\* The debts that are due on the day or were due before it.
Owed(f) == {i \in DOMAIN f.due : DaysTo(f.due[i].date, f.today) >= 0}

\* What is open after the whole money went to the oldest debts: the debts that
\* the money does not reach to the end.
OpenCount(f) ==
    LET days(i) == Ordinal(f.due[i].date)
        older(i, j) == days(i) < days(j) \/ (days(i) = days(j) /\ i <= j)
        upTo(j) == SumOf([i \in {k \in Owed(f) : older(k, j)} |-> f.due[i].amount])
    IN  Cardinality({j \in Owed(f) : f.due[j].amount > 0 /\ upTo(j) > Received(f)})

DueCents(f) == SumOf([i \in Owed(f) |-> f.due[i].amount])

GuardAgrees(f, r) ==
    r # Wrong =>
        /\ r.channels # {} => r.active
        /\ CASE f.guard = "W1" ->
                 LET boundary == MonthsOn(f.period_end, 12)
                     late == f.delivered = NoDate \/ DaysTo(f.delivered, boundary) < 0
                 IN  /\ r.boundary = boundary
                     /\ r.resolved = ~late
                     /\ r.active <=> late /\ (\/ DaysTo(f.today, boundary) < 0
                                             \/ DaysTo(f.today, boundary) \in {0, 30, 90})
                     /\ r.stage = "expired" => DaysTo(boundary, f.today) > 0
           [] f.guard = "W2" /\ r.stage \in {"exceeded", "expiry_month", "notice", "none"} ->
                 \* The notice begins with the June of the last year.
                 LET years == IF f.medium \in {"electricity", "gas"} THEN 8 ELSE 6 IN
                 /\ r.boundary = Date(f.calibrated.y + years, 12, 31)
                 /\ r.stage = "exceeded" <=> Before(r.boundary, f.today)
                 /\ r.active <=> ~Before(f.today, Date(f.calibrated.y + years, 6, 1))
           [] f.guard = "W3" ->
                 LET paid == [i \in DOMAIN f.payments |->
                                 IF DaysTo(f.payments[i].date, f.today) >= 0
                                 THEN f.payments[i].amount ELSE 0]
                 IN  /\ r.detail.arrears = Max({0, DueCents(f) - SumOf(paid)})
                     /\ r.detail.dates = OpenCount(f)
                     /\ r.stage = "3b" => r.detail.warned /\ r.detail.arrears >= 2 * f.rent
                     /\ r.detail.warned <=> r.stage \in {"3a", "3b"}
           [] f.guard = "W4" /\ r.stage \in {"resolved", "overdue", "due", "not_due"} ->
                 LET source == IF f.sent # NoDate THEN f.sent ELSE f.start
                 IN  /\ r.boundary.d = LastDay(r.boundary.y, r.boundary.m)
                     /\ 12 * r.boundary.y + r.boundary.m = 12 * source.y + source.m + 1
                     /\ r.active <=> ~f.sentThisMonth /\ DaysTo(r.boundary, f.today) >= 0
           [] f.guard = "W5" ->
                 /\ 100 * r.detail.ceiling - f.base * CapPercent(f) \in -49 .. 50
                 /\ f.comparative # Unstated => r.detail.limit <= f.comparative
                 /\ f.rent + r.detail.increase = Max({f.rent, r.detail.limit})
                 /\ r.detail.limit <= r.detail.ceiling
                 /\ r.active => DaysTo(MonthsOn(f.last, 12), f.today) >= 0
                 /\ r.detail.earliest = MonthsOn(f.last, 15)
                 /\ f.request # NoDate => Plus(r.detail.consent, 1) = r.detail.effective
           [] f.guard = "W6" /\ r.stage # "invalid" ->
                 LET reached == {i \in DOMAIN f.schedule :
                                    DaysTo(f.schedule[i].date, f.today) >= 0} IN
                 /\ r.active => \E i \in reached :
                       /\ f.schedule[i].amount # f.rent /\ r.boundary = f.schedule[i].date
                       /\ \A j \in reached : DaysTo(f.schedule[j].date, f.schedule[i].date) >= 0
                 /\ \A i, j \in DOMAIN f.schedule : i # j =>
                       DaysTo(f.schedule[i].date, f.schedule[j].date) \notin -364 .. 364
           [] f.guard = "W7" ->
                 /\ r.active => DaysTo(r.boundary, f.today) >= 0 /\ r.detail.rent >= f.rent
                 /\ r.stage = "waiting_period" => DaysTo(r.boundary, f.today) <= 0
                 /\ r.detail.rent # Unstated =>
                       2 * (r.detail.rent * f.base.value - f.rent * f.new.value)
                           \in 1 - f.base.value .. f.base.value
           [] f.guard = "W8" ->
                 /\ r.active => ~f.occupied /\ DaysTo(r.boundary, f.today) > 0
                 /\ ~r.active /\ ~f.occupied => DaysTo(r.boundary, f.today) <= 0
                 /\ r.detail.lost # Unstated /\ DaysTo(f.ended, f.today) % 30 = 0 =>
                       r.detail.lost = f.rent * Max({0, DaysTo(f.ended, f.today) \div 30})
           [] OTHER -> TRUE
=============================================================================
