--------------------------- MODULE Records_proofs ---------------------------
(***************************************************************************)
(* The seven components of Records, for any number of requests and rows.   *)
(* One chain of versions per stream, one UVI run of a month with the       *)
(* version that holds for it, one key per cost and one reading per day;    *)
(* then the movements of BankImport, the sums of AdvanceLedger and the     *)
(* evaluations, reminders and checklist events of GuardRuns; and every     *)
(* component stays inside its types.                                       *)
(***************************************************************************)
EXTENDS Records, SequenceTheorems, SumTheorems

-----------------------------------------------------------------------------
(* UviRuns: the versions form one chain, and each begins after the one     *)
(* before it. What a request has resolved holds whatever is appended.      *)

Rising ==
    /\ \A i \in DOMAIN configuration : configuration[i].supersedes = i - 1
    /\ \A i, j \in DOMAIN configuration : i < j => configuration[i].from < configuration[j].from

\* Version k holds for all of month m.
HoldsFor(k, m) ==
    /\ k \in DOMAIN configuration
    /\ configuration[k].from <= 2 * m /\ 2 * m + 2 <= configuration[k].to

UviClaim(x) ==
    /\ x.op = "configure" =>
          /\ x.row \in Uvi!Configuration
          /\ x.row.supersedes # 0 =>
                /\ x.row.supersedes \in DOMAIN configuration
                /\ configuration[x.row.supersedes].from < x.row.from
    /\ x.op \in {"resolve", "target", "previous"} => x.tenancy \in Tenancy /\ x.month \in Month
    /\ x.op \in {"target", "previous"} => HoldsFor(x.configuration, x.month)
    /\ x.op = "previous" => x.target \in DOMAIN monthlyReading
    /\ x.op = "archive" =>
          x.row \in Uvi!UviRun /\ HoldsFor(x.row.configuration, x.row.month)

UviInv ==
    /\ Uvi!TypeOK
    /\ Len(configuration) <= MaxConfiguration /\ Len(monthlyReading) <= MaxReading
    /\ Rising
    /\ \A i \in DOMAIN uviRun : HoldsFor(uviRun[i].configuration, uviRun[i].month)
    /\ \A i, j \in DOMAIN uviRun :
          uviRun[i].tenancy = uviRun[j].tenancy /\ uviRun[i].month = uviRun[j].month => i = j
    /\ \A a \in answered :
          uviRun[a.run].tenancy = a.tenancy /\ uviRun[a.run].month = a.month
    /\ DOMAIN uviRequest = Session
    /\ \A s \in Session : UviClaim(uviRequest[s])

LEMMA UviTables ==
    ASSUME Uvi!TypeOK
    PROVE  /\ configuration \in Seq(Uvi!Configuration) /\ Len(configuration) \in Nat
           /\ DOMAIN configuration = 1 .. Len(configuration)
           /\ \A i \in DOMAIN configuration : configuration[i] \in Uvi!Configuration
           /\ \A i \in DOMAIN configuration : /\ configuration[i].from \in Int
                                              /\ configuration[i].to \in Int
           /\ monthlyReading \in Seq(Uvi!MonthlyReading) /\ Len(monthlyReading) \in Nat
           /\ DOMAIN monthlyReading = 1 .. Len(monthlyReading)
           /\ uviRun \in Seq(Uvi!UviRun) /\ Len(uviRun) \in Nat
           /\ DOMAIN uviRun = 1 .. Len(uviRun)
           /\ \A i \in DOMAIN uviRun : uviRun[i] \in Uvi!UviRun
<1>1. /\ configuration \in Seq(Uvi!Configuration)
      /\ monthlyReading \in Seq(Uvi!MonthlyReading)
      /\ uviRun \in Seq(Uvi!UviRun)
  BY DEF Uvi!TypeOK
<1>2. /\ \A i \in DOMAIN configuration : configuration[i] \in Uvi!Configuration
      /\ \A i \in DOMAIN uviRun : uviRun[i] \in Uvi!UviRun
  BY <1>1, ElementOfSeq
<1> QED
  BY <1>1, <1>2, LenProperties, RecordsAssumption DEF Uvi!Configuration

LEMMA MonthsAreNumbers ==
    /\ \A m \in Month : m \in Nat /\ m - 1 \in Nat
    /\ Month \cup {n - 1 : n \in Month} \subseteq Nat
<1>1. \A m \in Month : m \in Nat \ {0}
  BY RecordsAssumption
<1>2. \A m \in Month : m \in Nat /\ m - 1 \in Nat
  BY <1>1
<1> QED
  BY <1>2

LEMMA IdleUvi == UviClaim(Uvi!Idle)
  BY DEF UviClaim, Uvi!Idle

LEMMA InitUvi == Uvi!Init => UviInv
<1> SUFFICES ASSUME Uvi!Init PROVE UviInv
  OBVIOUS
<1>1. Uvi!TypeOK
  BY DEF Uvi!Init, Uvi!TypeOK
<1>2. UviInv
  BY <1>1, IdleUvi, RecordsAssumption DEF Uvi!Init, UviInv, Rising
<1> QED
  BY <1>2

\* What is claimed of a request stays true while the tables grow.
UviGrows ==
    /\ \A i \in DOMAIN configuration :
          i \in DOMAIN configuration' /\ configuration'[i] = configuration[i]
    /\ DOMAIN monthlyReading \subseteq DOMAIN monthlyReading'

LEMMA HoldsForKept ==
    ASSUME UviGrows, NEW k, NEW m, HoldsFor(k, m)
    PROVE  HoldsFor(k, m)'
  BY DEF UviGrows, HoldsFor

LEMMA UviClaimKept ==
    ASSUME UviGrows, NEW x, UviClaim(x)
    PROVE  UviClaim(x)'
  BY HoldsForKept DEF UviGrows, UviClaim

\* A step of one request that leaves the tables alone.
LEMMA UviRequestStep ==
    ASSUME UviInv, NEW s \in Session, NEW y, UviClaim(y), Uvi!Continue(s, y),
           UNCHANGED <<configuration, monthlyReading, uviRun, answered>>
    PROVE  UviInv'
<1>1. UviGrows /\ Uvi!TypeOK'
  BY DEF UviGrows, UviInv, Uvi!TypeOK
<1>2. Rising' /\ \A k, m : HoldsFor(k, m) => HoldsFor(k, m)'
  BY DEF UviInv, Rising, HoldsFor
<1>3. ASSUME NEW t \in Session PROVE UviClaim(uviRequest[t])'
  <2>1. PICK x : x = uviRequest[t]
    OBVIOUS
  <2>2. UviClaim(x)' /\ UviClaim(y)'
    BY <1>1, <2>1, UviClaimKept DEF UviInv
  <2>3. uviRequest'[t] = IF t = s THEN y ELSE x
    BY <2>1 DEF Uvi!Continue, UviInv
  <2> QED
    BY <2>2, <2>3
<1>4. DOMAIN uviRequest' = Session
  BY DEF Uvi!Continue, UviInv
<1> QED
  BY <1>1, <1>2, <1>3, <1>4 DEF UviInv

LEMMA ReadLeafKeeps ==
    ASSUME UviInv, NEW s \in Session, NEW from \in ValidFrom, NEW to \in ValidTo \cup {NoEnd},
           Uvi!ReadLeaf(s, from, to)
    PROVE  UviInv'
<1> DEFINE leaves == Uvi!Leaves(configuration, DOMAIN configuration)
<1>1. PICK i \in IF leaves = {} THEN {0} ELSE leaves :
         Uvi!Continue(s, [op |-> "configure",
                          row |-> [from |-> from, to |-> to, supersedes |-> i]])
  BY DEF Uvi!ReadLeaf
<1>2. /\ \A j \in leaves : configuration[j].from < from
      /\ UNCHANGED <<configuration, monthlyReading, uviRun, answered>>
  BY DEF Uvi!ReadLeaf
<1>3. leaves \subseteq DOMAIN configuration
  BY DEF Uvi!Leaves
<1>4. i \in 0 .. MaxConfiguration /\ (i # 0 => i \in leaves)
  BY <1>1, <1>3, UviTables, RecordsAssumption DEF UviInv
<1>5. PICK row : row = [from |-> from, to |-> to, supersedes |-> i]
  OBVIOUS
<1>6. row \in Uvi!Configuration /\ row.supersedes = i /\ row.from = from
  BY <1>4, <1>5 DEF Uvi!Configuration
<1>7. PICK y : y = [op |-> "configure", row |-> row]
  OBVIOUS
<1>8. UviClaim(y)
  BY <1>2, <1>3, <1>4, <1>6, <1>7 DEF UviClaim
<1> QED
  BY <1>1, <1>2, <1>5, <1>7, <1>8, UviRequestStep

LEMMA InsertConfigurationKeeps ==
    ASSUME UviInv, NEW s \in Session, Uvi!InsertConfiguration(s)
    PROVE  UviInv'
<1>1. PICK row : row = uviRequest[s].row
  OBVIOUS
<1>2. /\ Len(configuration) < MaxConfiguration
      /\ ~Uvi!Superseded(configuration, row.supersedes)
      /\ configuration' = Append(configuration, row)
      /\ Uvi!Continue(s, Uvi!Idle)
      /\ UNCHANGED <<monthlyReading, uviRun, answered>>
  BY <1>1 DEF Uvi!InsertConfiguration
<1>3. /\ row \in Uvi!Configuration
      /\ row.supersedes # 0 =>
            /\ row.supersedes \in DOMAIN configuration
            /\ configuration[row.supersedes].from < row.from
  BY <1>1 DEF Uvi!InsertConfiguration, UviInv, UviClaim
<1>4. row.from \in Int /\ row.supersedes \in Nat
  BY <1>3, RecordsAssumption DEF Uvi!Configuration
<1>5. /\ configuration' \in Seq(Uvi!Configuration)
      /\ Len(configuration') = Len(configuration) + 1
      /\ DOMAIN configuration' = DOMAIN configuration \cup {Len(configuration) + 1}
      /\ \A i \in DOMAIN configuration : configuration'[i] = configuration[i]
      /\ configuration'[Len(configuration) + 1] = row
  BY <1>2, <1>3, UviTables, AppendProperties DEF UviInv
<1>6. row.supersedes = Len(configuration)
  <2>1. \A i \in DOMAIN configuration : configuration[i].supersedes # row.supersedes
    BY <1>2 DEF Uvi!Superseded
  <2>2. \A i \in 1 .. Len(configuration) : i - 1 # row.supersedes
    BY <2>1, UviTables DEF UviInv, Rising
  <2>3. row.supersedes \in 0 .. Len(configuration)
    BY <1>3, <1>4, UviTables DEF UviInv
  <2>4. row.supersedes + 1 \notin 1 .. Len(configuration)
    BY <1>4, <2>2
  <2> QED
    BY <1>4, <2>3, <2>4, UviTables DEF UviInv
<1>7. Rising'
  <2>1. \A i \in DOMAIN configuration : configuration[i].from < row.from
    <3>1. ASSUME NEW i \in DOMAIN configuration PROVE configuration[i].from < row.from
      <4>1. configuration[Len(configuration)].from < row.from
        BY <1>3, <1>6, UviTables DEF UviInv
      <4>2. CASE i = Len(configuration)
        BY <4>1, <4>2
      <4>3. CASE i # Len(configuration)
        <5>1. Len(configuration) \in DOMAIN configuration /\ i < Len(configuration)
          BY <4>3, UviTables DEF UviInv
        <5>2. configuration[i].from < configuration[Len(configuration)].from
          BY <5>1 DEF UviInv, Rising
        <5> QED
          BY <1>4, <4>1, <5>1, <5>2, UviTables DEF UviInv
      <4> QED
        BY <4>2, <4>3
    <3> QED
      BY <3>1
  <2>2. \A i \in DOMAIN configuration' : configuration'[i].supersedes = i - 1
    BY <1>5, <1>6, UviTables DEF UviInv, Rising
  <2>3. \A i, j \in DOMAIN configuration' :
            i < j => configuration'[i].from < configuration'[j].from
    BY <1>5, <2>1, UviTables DEF UviInv, Rising
  <2> QED
    BY <2>2, <2>3 DEF Rising
<1>8. UviGrows
  BY <1>2, <1>5 DEF UviGrows
<1>9. Uvi!TypeOK' /\ Len(configuration') <= MaxConfiguration
  BY <1>2, <1>5, UviTables, RecordsAssumption DEF UviInv, Uvi!TypeOK
<1>10. ASSUME NEW t \in Session PROVE UviClaim(uviRequest[t])'
  <2>1. PICK x : x = uviRequest[t]
    OBVIOUS
  <2>2. UviClaim(x)' /\ UviClaim(Uvi!Idle)'
    BY <1>8, <2>1, IdleUvi, UviClaimKept DEF UviInv
  <2>3. uviRequest'[t] = IF t = s THEN Uvi!Idle ELSE x
    BY <1>2, <2>1 DEF Uvi!Continue, UviInv
  <2> QED
    BY <2>2, <2>3
<1>11. \A i \in DOMAIN uviRun' : HoldsFor(uviRun[i].configuration, uviRun[i].month)'
  <2>1. ASSUME NEW i \in DOMAIN uviRun
        PROVE  HoldsFor(uviRun[i].configuration, uviRun[i].month)'
    <3>1. PICK k, m : k = uviRun[i].configuration /\ m = uviRun[i].month
      OBVIOUS
    <3>2. HoldsFor(k, m)'
      BY <1>8, <3>1, HoldsForKept DEF UviInv
    <3> QED
      BY <1>2, <3>1, <3>2
  <2> QED
    BY <1>2, <2>1
<1>12. DOMAIN uviRequest' = Session
  BY <1>2 DEF Uvi!Continue, UviInv
<1> QED
  BY <1>2, <1>7, <1>9, <1>10, <1>11, <1>12 DEF UviInv

LEMMA RecordMonthKeeps ==
    ASSUME UviInv, NEW t \in Tenancy, NEW m \in Month \cup {n - 1 : n \in Month},
           NEW c \in 0 .. MaxReading, Uvi!RecordMonth(t, m, c)
    PROVE  UviInv'
<1>1. PICK row : row = [tenancy |-> t, month |-> m, supersedes |-> c]
  OBVIOUS
<1>2. row \in Uvi!MonthlyReading
  BY <1>1, MonthsAreNumbers DEF Uvi!MonthlyReading
<1>3. /\ Len(monthlyReading) < MaxReading /\ monthlyReading' = Append(monthlyReading, row)
      /\ UNCHANGED <<configuration, uviRun, answered, uviRequest>>
  BY <1>1 DEF Uvi!RecordMonth
<1>4. /\ monthlyReading' \in Seq(Uvi!MonthlyReading)
      /\ Len(monthlyReading') = Len(monthlyReading) + 1
      /\ DOMAIN monthlyReading \subseteq DOMAIN monthlyReading'
  BY <1>2, <1>3, UviTables, AppendProperties DEF UviInv
<1>5. UviGrows
  BY <1>3, <1>4 DEF UviGrows
<1>6. Uvi!TypeOK' /\ Len(monthlyReading') <= MaxReading
  BY <1>3, <1>4, UviTables, RecordsAssumption DEF UviInv, Uvi!TypeOK
<1>7. Rising' /\ \A k, n : HoldsFor(k, n) => HoldsFor(k, n)'
  BY <1>3 DEF UviInv, Rising, HoldsFor
<1>8. ASSUME NEW s \in Session PROVE UviClaim(uviRequest[s])'
  <2>1. PICK x : x = uviRequest[s]
    OBVIOUS
  <2>2. UviClaim(x)'
    BY <1>5, <2>1, UviClaimKept DEF UviInv
  <2> QED
    BY <1>3, <2>1, <2>2
<1> QED
  BY <1>3, <1>6, <1>7, <1>8 DEF UviInv

LEMMA BeginRunKeeps ==
    ASSUME UviInv, NEW s \in Session, NEW t \in Tenancy, NEW m \in Month,
           Uvi!BeginRun(s, t, m)
    PROVE  UviInv'
<1>1. PICK y : y = [op |-> "resolve", tenancy |-> t, month |-> m]
  OBVIOUS
<1>2. UviClaim(y)
  BY <1>1 DEF UviClaim
<1> QED
  BY <1>1, <1>2, UviRequestStep DEF Uvi!BeginRun

LEMMA ResolveConfigurationKeeps ==
    ASSUME UviInv, NEW s \in Session, Uvi!ResolveConfiguration(s)
    PROVE  UviInv'
<1>1. PICK r : r = uviRequest[s]
  OBVIOUS
<1>2. r.tenancy \in Tenancy /\ r.month \in Month
  BY <1>1 DEF Uvi!ResolveConfiguration, UviInv, UviClaim
<1>3. PICK i \in Uvi!Selected(r.month) :
         /\ Uvi!Ready(i, r.month)
         /\ Uvi!Continue(s, [op |-> "target", tenancy |-> r.tenancy, month |-> r.month,
                             configuration |-> i,
                             comparable |-> \E j \in Uvi!Selected(r.month - 1) :
                                                Uvi!Ready(j, r.month - 1)])
  BY <1>1 DEF Uvi!ResolveConfiguration
<1>4. PICK y : y = [op |-> "target", tenancy |-> r.tenancy, month |-> r.month,
                    configuration |-> i,
                    comparable |-> \E j \in Uvi!Selected(r.month - 1) :
                                       Uvi!Ready(j, r.month - 1)]
  OBVIOUS
<1>5. HoldsFor(i, r.month)
  <2>1. i \in Uvi!Eligible(r.month)
    BY DEF Uvi!Selected
  <2>2. i \in DOMAIN configuration /\ configuration[i].from <= 2 * r.month
    BY <2>1 DEF Uvi!Eligible
  <2>3. configuration[i].to >= 2 * r.month + 2
    BY <1>3 DEF Uvi!Ready
  <2>4. configuration[i].to \in Int /\ r.month \in Int
    <3>1. configuration[i].to \in Int
      BY <2>2, UviTables DEF UviInv
    <3> QED
      BY <1>2, <3>1, MonthsAreNumbers
  <2> QED
    BY <2>2, <2>3, <2>4 DEF HoldsFor
<1>6. UviClaim(y)
  BY <1>2, <1>4, <1>5 DEF UviClaim
<1> QED
  BY <1>1, <1>3, <1>4, <1>6, UviRequestStep DEF Uvi!ResolveConfiguration

LEMMA ReadTargetKeeps ==
    ASSUME UviInv, NEW s \in Session, Uvi!ReadTarget(s)
    PROVE  UviInv'
<1>1. PICK r : r = uviRequest[s]
  OBVIOUS
<1>2. /\ r.tenancy \in Tenancy /\ r.month \in Month
      /\ HoldsFor(r.configuration, r.month)
  BY <1>1 DEF Uvi!ReadTarget, UviInv, UviClaim
<1>3. PICK i \in Uvi!CurrentReadings(r.tenancy, r.month) :
         Uvi!Continue(s, [op |-> "previous", tenancy |-> r.tenancy, month |-> r.month,
                          configuration |-> r.configuration,
                          comparable |-> r.comparable, target |-> i])
  BY <1>1 DEF Uvi!ReadTarget
<1>4. PICK y : y = [op |-> "previous", tenancy |-> r.tenancy, month |-> r.month,
                    configuration |-> r.configuration,
                    comparable |-> r.comparable, target |-> i]
  OBVIOUS
<1>5. i \in DOMAIN monthlyReading
  BY DEF Uvi!CurrentReadings, Uvi!Leaves, Uvi!MonthOf
<1>6. UviClaim(y)
  BY <1>2, <1>4, <1>5 DEF UviClaim
<1> QED
  BY <1>3, <1>4, <1>6, UviRequestStep DEF Uvi!ReadTarget

LEMMA ReadPreviousKeeps ==
    ASSUME UviInv, NEW s \in Session, Uvi!ReadPrevious(s)
    PROVE  UviInv'
<1>1. PICK r : r = uviRequest[s]
  OBVIOUS
<1>2. /\ r.tenancy \in Tenancy /\ r.month \in Month
      /\ HoldsFor(r.configuration, r.month) /\ r.target \in DOMAIN monthlyReading
  BY <1>1 DEF Uvi!ReadPrevious, UviInv, UviClaim
<1> DEFINE heads == Uvi!CurrentReadings(r.tenancy, r.month - 1)
<1>3. PICK i \in IF heads = {} THEN {0} ELSE heads :
         Uvi!Continue(s, [op |-> "archive", row |->
             [tenancy |-> r.tenancy, month |-> r.month,
              configuration |-> r.configuration,
              target |-> r.target, previous |-> i]])
  BY <1>1 DEF Uvi!ReadPrevious
<1>4. heads \subseteq DOMAIN monthlyReading
  BY DEF Uvi!CurrentReadings, Uvi!Leaves, Uvi!MonthOf
<1>5. PICK row : row = [tenancy |-> r.tenancy, month |-> r.month,
                        configuration |-> r.configuration,
                        target |-> r.target, previous |-> i]
  OBVIOUS
<1>6. i \in 0 .. MaxReading /\ r.target \in 1 .. MaxReading
  BY <1>2, <1>3, <1>4, UviTables, RecordsAssumption DEF UviInv
<1>7. r.configuration \in 1 .. MaxConfiguration
  BY <1>2, UviTables, RecordsAssumption DEF UviInv, HoldsFor
<1>8. /\ row \in Uvi!UviRun
      /\ row.configuration = r.configuration /\ row.month = r.month
  BY <1>2, <1>5, <1>6, <1>7 DEF Uvi!UviRun
<1>9. PICK y : y = [op |-> "archive", row |-> row]
  OBVIOUS
<1>10. UviClaim(y)
  BY <1>2, <1>8, <1>9 DEF UviClaim
<1> QED
  BY <1>3, <1>5, <1>9, <1>10, UviRequestStep DEF Uvi!ReadPrevious

\* An answer names the run that is there.
LEMMA AnswerKeeps ==
    ASSUME UviInv, NEW t \in Tenancy, NEW m \in Month, NEW i \in Uvi!RunsOf(t, m),
           Uvi!Answer(t, m, i), NEW s \in Session, NEW y,
           uviRequest' = uviRequest \/ (Uvi!Continue(s, y) /\ UviClaim(y)),
           UNCHANGED <<configuration, monthlyReading, uviRun>>
    PROVE  UviInv'
<1>1. PICK a : a = [tenancy |-> t, month |-> m, run |-> i]
  OBVIOUS
<1>2. /\ a \in [tenancy: Tenancy, month: Month, run: DOMAIN uviRun]
      /\ uviRun[a.run].tenancy = a.tenancy /\ uviRun[a.run].month = a.month
      /\ answered' = answered \cup {a}
  BY <1>1 DEF Uvi!RunsOf, Uvi!Answer
<1>3. UviGrows /\ Uvi!TypeOK'
  BY <1>2 DEF UviGrows, UviInv, Uvi!TypeOK
<1>4. Rising' /\ \A k, n : HoldsFor(k, n) => HoldsFor(k, n)'
  BY DEF UviInv, Rising, HoldsFor
<1>5. ASSUME NEW u \in Session PROVE UviClaim(uviRequest[u])'
  <2>1. PICK x : x = uviRequest[u]
    OBVIOUS
  <2>2. UviClaim(x)' /\ (UviClaim(y) => UviClaim(y)')
    BY <1>3, <2>1, UviClaimKept DEF UviInv
  <2>3. uviRequest'[u] = x \/ (UviClaim(y) /\ uviRequest'[u] = IF u = s THEN y ELSE x)
    BY <2>1 DEF Uvi!Continue, UviInv
  <2> QED
    BY <2>2, <2>3
<1>6. DOMAIN uviRequest' = Session
  BY DEF Uvi!Continue, UviInv
<1> QED
  BY <1>2, <1>3, <1>4, <1>5, <1>6 DEF UviInv

\* The savepoint: the run of the month is this one, or it was there before.
LEMMA ArchiveRunKeeps ==
    ASSUME UviInv, NEW s \in Session, Uvi!ArchiveRun(s)
    PROVE  UviInv'
<1>1. PICK row : row = uviRequest[s].row
  OBVIOUS
<1>2. /\ row \in Uvi!UviRun /\ HoldsFor(row.configuration, row.month)
      /\ row.tenancy \in Tenancy /\ row.month \in Month
  BY <1>1 DEF Uvi!ArchiveRun, UviInv, UviClaim, Uvi!UviRun
<1>3. CASE Uvi!Made(row.tenancy, row.month)
  <2>1. PICK i \in Uvi!RunsOf(row.tenancy, row.month) : Uvi!Answer(row.tenancy, row.month, i)
    BY <1>1, <1>3 DEF Uvi!ArchiveRun
  <2>2. Uvi!Continue(s, Uvi!Idle) /\ UNCHANGED <<configuration, monthlyReading, uviRun>>
    BY <1>1, <1>3 DEF Uvi!ArchiveRun
  <2> QED
    BY <1>2, <2>1, <2>2, IdleUvi, AnswerKeeps
<1>4. CASE ~Uvi!Made(row.tenancy, row.month)
  <2>1. PICK n : n = Len(uviRun) + 1
    OBVIOUS
  <2>2. /\ uviRun' = Append(uviRun, row) /\ Uvi!Answer(row.tenancy, row.month, n)
        /\ Uvi!Continue(s, Uvi!Idle) /\ UNCHANGED <<configuration, monthlyReading>>
    BY <1>1, <1>4, <2>1 DEF Uvi!ArchiveRun
  <2>3. /\ uviRun' \in Seq(Uvi!UviRun)
        /\ DOMAIN uviRun' = DOMAIN uviRun \cup {n}
        /\ \A i \in DOMAIN uviRun : uviRun'[i] = uviRun[i]
        /\ uviRun'[n] = row
    BY <1>2, <2>1, <2>2, UviTables, AppendProperties DEF UviInv
  <2>4. PICK a : a = [tenancy |-> row.tenancy, month |-> row.month, run |-> n]
    OBVIOUS
  <2>5. /\ a \in [tenancy: Tenancy, month: Month, run: DOMAIN uviRun']
        /\ uviRun'[a.run].tenancy = a.tenancy /\ uviRun'[a.run].month = a.month
        /\ answered' = answered \cup {a}
    BY <1>2, <2>2, <2>3, <2>4 DEF Uvi!Answer
  <2>6. /\ answered \subseteq [tenancy: Tenancy, month: Month, run: DOMAIN uviRun]
        /\ \A b \in answered : b.run \in DOMAIN uviRun
    BY DEF UviInv, Uvi!TypeOK
  <2>7. answered' \subseteq [tenancy: Tenancy, month: Month, run: DOMAIN uviRun']
    BY <2>3, <2>5, <2>6
  <2>8. Uvi!TypeOK' /\ UviGrows
    BY <2>2, <2>3, <2>7 DEF UviInv, Uvi!TypeOK, UviGrows
  <2>9. \A b \in answered' :
            uviRun'[b.run].tenancy = b.tenancy /\ uviRun'[b.run].month = b.month
    BY <2>3, <2>5, <2>6 DEF UviInv
  <2>10. \A i \in DOMAIN uviRun : ~(uviRun[i].tenancy = row.tenancy /\ uviRun[i].month = row.month)
    BY <1>4 DEF Uvi!Made, Uvi!RunsOf
  <2>11. \A i, j \in DOMAIN uviRun' :
            uviRun'[i].tenancy = uviRun'[j].tenancy /\ uviRun'[i].month = uviRun'[j].month => i = j
    BY <2>3, <2>10 DEF UviInv
  <2>12. Rising' /\ \A k, m : HoldsFor(k, m) => HoldsFor(k, m)'
    BY <2>2 DEF UviInv, Rising, HoldsFor
  <2>13. \A i \in DOMAIN uviRun' : HoldsFor(uviRun'[i].configuration, uviRun'[i].month)
    BY <1>2, <2>3 DEF UviInv
  <2>14. \A i \in DOMAIN uviRun' : HoldsFor(uviRun[i].configuration, uviRun[i].month)'
    BY <2>2, <2>13 DEF HoldsFor
  <2>15. ASSUME NEW u \in Session PROVE UviClaim(uviRequest[u])'
    <3>1. PICK x : x = uviRequest[u]
      OBVIOUS
    <3>2. UviClaim(x)' /\ UviClaim(Uvi!Idle)'
      BY <2>8, <3>1, IdleUvi, UviClaimKept DEF UviInv
    <3>3. uviRequest'[u] = IF u = s THEN Uvi!Idle ELSE x
      BY <2>2, <3>1 DEF Uvi!Continue, UviInv
    <3> QED
      BY <3>2, <3>3
  <2>16. DOMAIN uviRequest' = Session
    BY <2>2 DEF Uvi!Continue, UviInv
  <2> QED
    BY <2>2, <2>8, <2>9, <2>11, <2>12, <2>14, <2>15, <2>16 DEF UviInv
<1> QED
  BY <1>3, <1>4

LEMMA UviStep == UviInv /\ [Uvi!Next]_uviVars => UviInv'
<1> SUFFICES ASSUME UviInv, [Uvi!Next]_uviVars PROVE UviInv'
  OBVIOUS
<1>1. CASE \E t \in Tenancy, m \in Month \cup {n - 1 : n \in Month}, c \in 0 .. MaxReading :
              Uvi!RecordMonth(t, m, c)
  BY <1>1, RecordMonthKeeps
<1>2. ASSUME NEW s \in Session,
             \E from \in ValidFrom, to \in ValidTo \cup {NoEnd} : Uvi!ReadLeaf(s, from, to)
      PROVE  UviInv'
  BY <1>2, ReadLeafKeeps
<1>3. ASSUME NEW s \in Session, NEW t \in Tenancy, NEW m \in Month, Uvi!AnswerExisting(s, t, m)
      PROVE  UviInv'
  <2>1. PICK i \in Uvi!RunsOf(t, m) : Uvi!Answer(t, m, i)
    BY <1>3 DEF Uvi!AnswerExisting
  <2> QED
    BY <1>3, <2>1, AnswerKeeps DEF Uvi!AnswerExisting
<1>4. ASSUME NEW s \in Session, NEW t \in Tenancy, NEW m \in Month, Uvi!BeginRun(s, t, m)
      PROVE  UviInv'
  BY <1>4, BeginRunKeeps
<1>5. ASSUME NEW s \in Session,
             \/ Uvi!InsertConfiguration(s) \/ Uvi!ResolveConfiguration(s)
             \/ Uvi!ReadTarget(s) \/ Uvi!ReadPrevious(s) \/ Uvi!ArchiveRun(s)
      PROVE  UviInv'
  BY <1>5, InsertConfigurationKeeps, ResolveConfigurationKeeps, ReadTargetKeeps,
     ReadPreviousKeeps, ArchiveRunKeeps
<1>6. ASSUME NEW s \in Session, Uvi!GiveUp(s) PROVE UviInv'
  BY <1>6, IdleUvi, UviRequestStep DEF Uvi!GiveUp
<1>7. CASE UNCHANGED uviVars
  <2>1. UNCHANGED <<configuration, monthlyReading, uviRun, answered, uviRequest>>
    BY <1>7 DEF uviVars
  <2> QED
    BY <2>1 DEF UviInv, Uvi!TypeOK, Rising, HoldsFor, UviClaim
<1> QED
  BY <1>1, <1>2, <1>3, <1>4, <1>5, <1>6, <1>7 DEF Uvi!Next

\* A month of a tenancy has one run, every answer names it, and its version
\* holds for the whole month and began last of those there were, whatever is
\* appended while the requests read (uvi_runs.py, meters.py).
THEOREM OneRunOfEveryMonth == RecordsSpec => []OneRunPerMonth
<1>1. RecordsInit => UviInv
  BY InitUvi DEF RecordsInit
<1>2. UviInv /\ [RecordsNext]_RecordsVars => UviInv'
  <2>1. [RecordsNext]_RecordsVars => [Uvi!Next]_uviVars
    BY DEF RecordsNext, RecordsVars
  <2> QED
    BY <2>1, UviStep
<1>3. UviInv => OneRunPerMonth
  <2> SUFFICES ASSUME UviInv PROVE Uvi!OneRunPerMonth
    BY DEF OneRunPerMonth
  <2>1. ASSUME NEW i \in DOMAIN uviRun
        PROVE  LET used == uviRun[i].configuration
                   m == uviRun[i].month
               IN  /\ configuration[used].from <= 2 * m /\ 2 * m + 2 <= configuration[used].to
                   /\ \A j \in 1 .. used - 1 : configuration[j].from < configuration[used].from
    <3>1. PICK k, m : k = uviRun[i].configuration /\ m = uviRun[i].month
      OBVIOUS
    <3>2. HoldsFor(k, m)
      BY <3>1 DEF UviInv
    <3>3. \A j \in 1 .. k - 1 : configuration[j].from < configuration[k].from
      <4>1. k \in DOMAIN configuration /\ DOMAIN configuration = 1 .. Len(configuration)
        BY <3>2, UviTables DEF UviInv, HoldsFor
      <4>2. \A j \in 1 .. k - 1 : j \in DOMAIN configuration /\ j < k
        BY <4>1, UviTables DEF UviInv
      <4> QED
        BY <4>1, <4>2 DEF UviInv, Rising
    <3> QED
      BY <3>1, <3>2, <3>3 DEF HoldsFor
  <2> QED
    BY <2>1 DEF UviInv, Uvi!OneRunPerMonth
<1> QED
  BY <1>1, <1>2, <1>3, PTL DEF RecordsSpec

-----------------------------------------------------------------------------
(* CostBook: assignments and classifications come in pairs of one request, *)
(* which its time of beginning identifies.                                 *)

\* The assignment that a classification names, and the classification that an
\* assignment was made with.
Named1(x) == [cost |-> x.cost, key |-> x.key, at |-> x.at]

MadeWith(a) == [cost |-> a.cost, key |-> a.key, at |-> a.at, of |-> a.at]

CostRows ==
    /\ \A x \in classification :
          x.key # NoKey => x.of = x.at /\ Named1(x) \in assignment
    /\ \A a \in assignment : MadeWith(a) \in classification
    /\ \A x, y \in classification : x.at = y.at => x = y
    /\ \A x, y \in classification : x.cost = y.cost /\ x.key = NoKey => x = y
    /\ \A x \in classification : cost[x.cost] # "ABSENT" /\ x.at <= begun
    /\ \A c \in Cost : cost[c] # "ABSENT" => \E x \in classification : x.cost = c

Keying == {"create", "rekey"}

\* A request that writes a key has a time of its own. One that re-keys or voids
\* has seen the cost, and to re-key it a classification with a key.
CostClaim(x) ==
    /\ x.op \in Keying =>
          /\ x.cost \in Cost /\ x.key \in Key \cup {NoKey} /\ x.at \in 1 .. begun
          /\ \A y \in classification : y.at # x.at
    /\ x.op \in {"rekey", "void"} => x.cost \in Cost /\ cost[x.cost] # "ABSENT"
    /\ x.op = "rekey" =>
          /\ x.key \in Key
          /\ \A y \in classification : y.cost = x.cost => y.key # NoKey
    /\ x.op = "agree" => x.row \in Costs!Agreement

CostInv ==
    /\ Costs!TypeOK /\ CostRows
    /\ DOMAIN costRequest = Session
    /\ \A s \in Session : CostClaim(costRequest[s])
    /\ \A s, t \in Session :
          /\ costRequest[s].op \in Keying /\ costRequest[t].op \in Keying
          /\ costRequest[s].at = costRequest[t].at
          => s = t

LEMMA CostTables ==
    ASSUME Costs!TypeOK
    PROVE  /\ begun \in Nat /\ MaxCostRequest \in Nat /\ begun <= MaxCostRequest
           /\ cost \in [Cost -> {"ABSENT", "CURRENT", "VOIDED"}]
           /\ \A x \in classification : x \in Costs!Classification
           /\ \A x \in classification : /\ x.cost \in Cost /\ x.key \in Key \cup {NoKey}
                                         /\ x.at \in 1 .. MaxCostRequest
           /\ \A a \in assignment : a \in Costs!Assignment
           /\ \A a \in assignment : /\ a.cost \in Cost /\ a.key \in Key
                                     /\ a.at \in 1 .. MaxCostRequest
  BY RecordsAssumption DEF Costs!TypeOK, Costs!Classification, Costs!Assignment, Costs!Time

\* Of some rows with times up to a bound one is the latest.
LEMMA LatestIsOne ==
    ASSUME NEW n \in Nat, NEW rows, rows # {}, \A r \in rows : r.at \in 1 .. n
    PROVE  /\ Costs!LatestOf(rows) \in rows
           /\ \A o \in rows : o.at <= Costs!LatestOf(rows).at
<1> DEFINE D == {n - r.at : r \in rows}
<1>0. \A r \in rows : r.at \in Int /\ n - r.at \in Nat
  OBVIOUS
<1>1. D \subseteq Nat /\ D # {}
  <2>1. D \subseteq Nat
    BY <1>0
  <2>2. PICK r : r \in rows
    OBVIOUS
  <2>3. n - r.at \in D
    BY <2>2
  <2> QED
    BY <2>1, <2>3
<1>2. PICK d \in D : \A e \in D : ~(<<e, d>> \in OpToRel(<, Nat))
  BY <1>1, WFMin, NatLessThanWellFounded, Zenon
<1>3. \A e \in D : ~(e < d)
  BY <1>1, <1>2 DEF OpToRel
<1>4. PICK r \in rows : d = n - r.at
  OBVIOUS
<1>5. \A o \in rows : o.at <= r.at
  <2>1. ASSUME NEW o \in rows PROVE o.at <= r.at
    <3>1. ~(n - o.at < n - r.at)
      BY <1>3, <1>4
    <3> QED
      BY <1>0, <3>1
  <2> QED
    BY <2>1
<1> QED
  BY <1>5 DEF Costs!LatestOf

LEMMA IdleCost == CostClaim(Costs!Idle) /\ Costs!Idle.op \notin Keying
  BY DEF CostClaim, Costs!Idle, Keying

LEMMA InitCost == Costs!Init => CostInv
<1> SUFFICES ASSUME Costs!Init PROVE CostInv
  OBVIOUS
<1>1. Costs!TypeOK
  BY RecordsAssumption DEF Costs!Init, Costs!TypeOK
<1>2. CostRows
  BY DEF Costs!Init, CostRows
<1> QED
  BY <1>1, <1>2, IdleCost DEF Costs!Init, CostInv

\* A request begins, goes on or ends; no table changes.
LEMMA CostRequestStep ==
    ASSUME CostInv, NEW s \in Session, NEW y, Costs!Continue(s, y),
           CostClaim(y)',
           begun' \in begun .. MaxCostRequest,
           y.op \in Keying => y.at > begun,
           UNCHANGED <<cost, assignment, classification, agreement>>
    PROVE  CostInv'
<1>1. Costs!TypeOK' /\ begun' \in Nat /\ begun <= begun'
  BY CostTables DEF CostInv, Costs!TypeOK
<1>2. CostRows'
  BY <1>1, CostTables DEF CostInv, CostRows, Named1, MadeWith
<1>3. \A t \in Session : costRequest'[t] = IF t = s THEN y ELSE costRequest[t]
  BY DEF Costs!Continue, CostInv
<1>4. ASSUME NEW t \in Session PROVE CostClaim(costRequest[t])'
  <2>1. PICK x : x = costRequest[t]
    OBVIOUS
  <2>2. CostClaim(x)'
    BY <1>1, <2>1, CostTables DEF CostInv, CostClaim
  <2> QED
    BY <1>3, <2>1, <2>2
<1>5. ASSUME NEW t \in Session, NEW u \in Session,
             costRequest'[t].op \in Keying, costRequest'[u].op \in Keying,
             costRequest'[t].at = costRequest'[u].at
      PROVE  t = u
  <2>1. \A v \in Session : v # s /\ costRequest'[v].op \in Keying =>
            costRequest'[v].at \in 1 .. begun
    BY <1>3 DEF CostInv, CostClaim
  <2>2. costRequest'[s].op \in Keying => costRequest'[s].at \in Nat /\ costRequest'[s].at > begun
    BY <1>1, <1>3 DEF CostClaim
  <2> QED
    BY <1>1, <1>3, <1>5, <2>1, <2>2, CostTables DEF CostInv
<1>6. DOMAIN costRequest' = Session
  BY DEF Costs!Continue, CostInv
<1> QED
  BY <1>1, <1>2, <1>4, <1>5, <1>6 DEF CostInv

LEMMA GiveUpKeeps ==
    ASSUME CostInv, NEW s \in Session, Costs!GiveUp(s)
    PROVE  CostInv'
<1>1. CostClaim(Costs!Idle)'
  BY DEF CostClaim, Costs!Idle, Keying
<1>2. begun' \in begun .. MaxCostRequest
  BY CostTables DEF CostInv, Costs!GiveUp
<1> QED
  BY <1>1, <1>2, IdleCost, CostRequestStep DEF Costs!GiveUp

LEMMA BeginCostKeeps ==
    ASSUME CostInv, NEW s \in Session, NEW y, Costs!Begin(s, y), CostClaim(y)',
           y.op \in Keying => y.at = begun + 1
    PROVE  CostInv'
<1>1. begun' = begun + 1 /\ begun < MaxCostRequest
  BY DEF Costs!Begin
<1> QED
  BY <1>1, CostTables, CostRequestStep DEF Costs!Begin, CostInv

LEMMA CreateCostKeeps ==
    ASSUME CostInv, NEW s \in Session, NEW c \in Cost, NEW key \in Key \cup {NoKey},
           NEW replaces, Costs!CreateCost(s, c, key, replaces)
    PROVE  CostInv'
<1>1. PICK y : y = [op |-> "create", cost |-> c, key |-> key, at |-> begun + 1]
  OBVIOUS
<1>2. Costs!Begin(s, y)
  BY <1>1 DEF Costs!CreateCost
<1>3. begun' = begun + 1 /\ classification' = classification /\ begun < MaxCostRequest
  BY <1>2 DEF Costs!Begin
<1>4. CostClaim(y)'
  BY <1>1, <1>3, CostTables DEF CostClaim, CostInv, CostRows, Keying
<1> QED
  BY <1>1, <1>2, <1>4, BeginCostKeeps

LEMMA ReadToVoidKeeps ==
    ASSUME CostInv, NEW s \in Session, NEW c \in Cost, Costs!ReadToVoid(s, c)
    PROVE  CostInv'
<1>1. PICK y : y = [op |-> "void", cost |-> c]
  OBVIOUS
<1>2. Costs!Begin(s, y) /\ cost[c] # "ABSENT"
  BY <1>1 DEF Costs!ReadToVoid
<1>3. CostClaim(y)' /\ y.op \notin Keying
  BY <1>1, <1>2 DEF CostClaim, Costs!Begin, Keying
<1> QED
  BY <1>2, <1>3, BeginCostKeeps

\* A cost whose latest classification has a key has no classification without.
LEMMA ReadToRekeyKeeps ==
    ASSUME CostInv, NEW s \in Session, NEW c \in Cost, NEW key \in Key,
           Costs!ReadToRekey(s, c, key)
    PROVE  CostInv'
<1>1. PICK y : y = [op |-> "rekey", cost |-> c, key |-> key, at |-> begun + 1]
  OBVIOUS
<1>2. /\ Costs!Begin(s, y) /\ cost[c] # "ABSENT"
      /\ Costs!LatestOf(Costs!ClassificationsOf(c)).key # NoKey
  BY <1>1 DEF Costs!ReadToRekey
<1>3. /\ begun' = begun + 1 /\ begun < MaxCostRequest
      /\ UNCHANGED <<cost, assignment, classification, agreement>>
  BY <1>2 DEF Costs!Begin
<1>4. \A x \in classification : x.cost = c => x.key # NoKey
  <2>1. ASSUME NEW x \in classification, x.cost = c, x.key = NoKey PROVE FALSE
    <3>1. x \in Costs!ClassificationsOf(c)
      BY <2>1 DEF Costs!ClassificationsOf
    <3>2. \A o \in Costs!ClassificationsOf(c) : o = x
      BY <2>1 DEF Costs!ClassificationsOf, CostInv, CostRows
    <3>3. Costs!LatestOf(Costs!ClassificationsOf(c)) \in Costs!ClassificationsOf(c)
      BY <3>1, CostTables, LatestIsOne DEF Costs!ClassificationsOf, CostInv
    <3> QED
      BY <1>2, <2>1, <3>2, <3>3
  <2> QED
    BY <2>1
<1>5. CostClaim(y)'
  BY <1>1, <1>2, <1>3, <1>4, CostTables DEF CostClaim, CostInv, CostRows, Keying
<1> QED
  BY <1>1, <1>2, <1>5, BeginCostKeeps

\* A key is written with its classification: a first one for a cost there was
\* not, or another one for a cost whose classifications all have a key.
LEMMA KeyedStep ==
    ASSUME CostInv, NEW s \in Session, costRequest[s].op \in Keying,
           NEW c \in Cost, NEW key \in Key \cup {NoKey}, NEW at,
           at = costRequest[s].at,
           cost' \in [Cost -> {"ABSENT", "CURRENT", "VOIDED"}],
           \A d \in Cost : cost'[d] # "ABSENT" <=> cost[d] # "ABSENT" \/ d = c,
           \A y \in classification : y.cost = c => y.key # NoKey /\ key # NoKey,
           assignment' = assignment \cup
              (IF key = NoKey THEN {} ELSE {[cost |-> c, key |-> key, at |-> at]}),
           Costs!Classify(c, key, at), Costs!Continue(s, Costs!Idle),
           UNCHANGED <<agreement, begun>>
    PROVE  CostInv'
<1>1. PICK n : n = [cost |-> c, key |-> key, at |-> at, of |-> IF key = NoKey THEN 0 ELSE at]
  OBVIOUS
<1>2. classification' = classification \cup {n}
  BY <1>1 DEF Costs!Classify, Costs!Stamp
<1>3. PICK a : a = [cost |-> c, key |-> key, at |-> at]
  OBVIOUS
<1>4. assignment' = assignment \cup (IF key = NoKey THEN {} ELSE {a})
  BY <1>3
<1>5. at \in 1 .. begun /\ \A y \in classification : y.at # at
  BY DEF CostInv, CostClaim
<1>6. at \in 1 .. MaxCostRequest /\ begun \in Nat
  BY <1>5, CostTables DEF CostInv
<1>7. n \in Costs!Classification
  <2>1. MaxCostRequest \in Nat
    BY RecordsAssumption
  <2>2. (IF key = NoKey THEN 0 ELSE at) \in 0 .. MaxCostRequest
    BY <1>6, <2>1
  <2> QED
    BY <1>1, <1>6, <2>2 DEF Costs!Classification, Costs!Time
<1>8. key # NoKey => a \in Costs!Assignment
  BY <1>3, <1>6 DEF Costs!Assignment, Costs!Time
<1>9. Costs!TypeOK'
  BY <1>2, <1>4, <1>7, <1>8 DEF CostInv, Costs!TypeOK
<1>10. CostRows'
  <2>1. \A x \in classification' : x.key # NoKey => x.of = x.at /\ Named1(x) \in assignment'
    <3>1. n.key # NoKey => n.of = n.at /\ Named1(n) \in assignment'
      BY <1>1, <1>3, <1>4 DEF Named1
    <3> QED
      BY <1>2, <1>4, <3>1 DEF CostInv, CostRows
  <2>2. \A b \in assignment' : MadeWith(b) \in classification'
    <3>1. key # NoKey => MadeWith(a) = n
      BY <1>1, <1>3 DEF MadeWith
    <3> QED
      BY <1>2, <1>4, <3>1 DEF CostInv, CostRows
  <2>3. \A x, y \in classification' : x.at = y.at => x = y
    BY <1>1, <1>2, <1>5 DEF CostInv, CostRows
  <2>4. \A x, y \in classification' : x.cost = y.cost /\ x.key = NoKey => x = y
    BY <1>1, <1>2 DEF CostInv, CostRows
  <2>5. \A x \in classification' : cost'[x.cost] # "ABSENT" /\ x.at <= begun
    BY <1>1, <1>2, <1>5, <1>6, CostTables DEF CostInv, CostRows
  <2>6. \A d \in Cost : cost'[d] # "ABSENT" => \E x \in classification' : x.cost = d
    BY <1>1, <1>2 DEF CostInv, CostRows
  <2> QED
    BY <2>1, <2>2, <2>3, <2>4, <2>5, <2>6 DEF CostRows, Named1, MadeWith
<1>11. \A t \in Session : costRequest'[t] = IF t = s THEN Costs!Idle ELSE costRequest[t]
  BY DEF Costs!Continue, CostInv
<1>12. ASSUME NEW t \in Session PROVE CostClaim(costRequest[t])'
  <2>1. CASE t = s
    BY <2>1, <1>11 DEF CostClaim, Costs!Idle, Keying
  <2>2. CASE t # s
    <3>1. PICK x : x = costRequest[t]
      OBVIOUS
    <3>2. CostClaim(x) /\ (x.op \in Keying => x.at # at)
      BY <2>2, <3>1 DEF CostInv
    <3>3. x.op \in Keying =>
             /\ x.cost \in Cost /\ x.key \in Key \cup {NoKey} /\ x.at \in 1 .. begun
             /\ \A y \in classification' : y.at # x.at
      BY <1>1, <1>2, <3>2 DEF CostClaim
    <3>4. x.op \in {"rekey", "void"} => x.cost \in Cost /\ cost'[x.cost] # "ABSENT"
      BY <3>2 DEF CostClaim
    <3>5. x.op = "rekey" =>
             /\ x.key \in Key
             /\ \A y \in classification' : y.cost = x.cost => y.key # NoKey
      <4>1. SUFFICES ASSUME x.op = "rekey"
                     PROVE  \A y \in classification' : y.cost = x.cost => y.key # NoKey
        BY <3>2 DEF CostClaim
      <4>2. PICK z \in classification : z.cost = x.cost
        BY <3>2, <4>1 DEF CostClaim, CostInv, CostRows
      <4>3. n.cost = x.cost => n.key # NoKey
        BY <1>1, <4>2
      <4> QED
        BY <1>2, <3>2, <4>1, <4>3 DEF CostClaim
    <3>6. CostClaim(x)'
      BY <3>2, <3>3, <3>4, <3>5 DEF CostClaim
    <3> QED
      BY <1>11, <2>2, <3>1, <3>6
  <2> QED
    BY <2>1, <2>2
<1>13. \A t, u \in Session :
          (/\ costRequest'[t].op \in Keying /\ costRequest'[u].op \in Keying
           /\ costRequest'[t].at = costRequest'[u].at)
          => t = u
  BY <1>11, IdleCost DEF CostInv
<1>14. DOMAIN costRequest' = Session
  BY DEF Costs!Continue, CostInv
<1> QED
  BY <1>9, <1>10, <1>12, <1>13, <1>14 DEF CostInv

LEMMA InsertCostKeeps ==
    ASSUME CostInv, NEW s \in Session, Costs!InsertCost(s)
    PROVE  CostInv'
<1>1. PICK r : r = costRequest[s]
  OBVIOUS
<1>2. /\ r.op = "create" /\ cost[r.cost] = "ABSENT"
      /\ cost' = [cost EXCEPT ![r.cost] = "CURRENT"]
      /\ assignment' = assignment \cup
            (IF r.key = NoKey THEN {} ELSE {[cost |-> r.cost, key |-> r.key, at |-> r.at]})
      /\ Costs!Classify(r.cost, r.key, r.at)
      /\ Costs!Continue(s, Costs!Idle)
      /\ UNCHANGED <<agreement, begun>>
  BY <1>1 DEF Costs!InsertCost
<1>3. r.op \in Keying /\ r.cost \in Cost /\ r.key \in Key \cup {NoKey}
  BY <1>1, <1>2 DEF CostInv, CostClaim, Keying
<1>4. /\ cost' \in [Cost -> {"ABSENT", "CURRENT", "VOIDED"}]
      /\ \A d \in Cost : cost'[d] # "ABSENT" <=> cost[d] # "ABSENT" \/ d = r.cost
  BY <1>2, <1>3, CostTables DEF CostInv
<1>5. \A y \in classification : y.cost # r.cost
  BY <1>2 DEF CostInv, CostRows
<1> QED
  BY <1>1, <1>2, <1>3, <1>4, <1>5, KeyedStep

LEMMA ReassignKeyKeeps ==
    ASSUME CostInv, NEW s \in Session, Costs!ReassignKey(s)
    PROVE  CostInv'
<1>1. PICK r : r = costRequest[s]
  OBVIOUS
<1>2. /\ r.op = "rekey"
      /\ assignment' = assignment \cup {[cost |-> r.cost, key |-> r.key, at |-> r.at]}
      /\ Costs!Classify(r.cost, r.key, r.at)
      /\ Costs!Continue(s, Costs!Idle)
      /\ UNCHANGED <<cost, agreement, begun>>
  BY <1>1 DEF Costs!ReassignKey
<1>3. /\ r.op \in Keying /\ r.cost \in Cost /\ r.key \in Key /\ cost[r.cost] # "ABSENT"
      /\ \A y \in classification : y.cost = r.cost => y.key # NoKey
  BY <1>1, <1>2 DEF CostInv, CostClaim, Keying
<1>4. r.key # NoKey /\ r.key \in Key \cup {NoKey}
  BY <1>3, RecordsAssumption
<1>5. /\ cost' \in [Cost -> {"ABSENT", "CURRENT", "VOIDED"}]
      /\ \A d \in Cost : cost'[d] # "ABSENT" <=> cost[d] # "ABSENT" \/ d = r.cost
  BY <1>2, <1>3, CostTables DEF CostInv
<1>6. assignment' = assignment \cup
         (IF r.key = NoKey THEN {} ELSE {[cost |-> r.cost, key |-> r.key, at |-> r.at]})
  BY <1>2, <1>4
<1> QED
  BY <1>1, <1>2, <1>3, <1>4, <1>5, <1>6, KeyedStep

LEMMA VoidCostKeeps ==
    ASSUME CostInv, NEW s \in Session, Costs!VoidCost(s)
    PROVE  CostInv'
<1>1. PICK c : c = costRequest[s].cost
  OBVIOUS
<1>2. /\ cost' = [cost EXCEPT ![c] = "VOIDED"] /\ Costs!Continue(s, Costs!Idle)
      /\ UNCHANGED <<assignment, classification, agreement, begun>>
      /\ c \in Cost /\ cost[c] # "ABSENT"
  BY <1>1 DEF Costs!VoidCost, CostInv, CostClaim
<1>3. /\ cost' \in [Cost -> {"ABSENT", "CURRENT", "VOIDED"}]
      /\ \A d \in Cost : cost'[d] # "ABSENT" <=> cost[d] # "ABSENT"
  BY <1>2, CostTables DEF CostInv
<1>4. Costs!TypeOK'
  BY <1>2, <1>3 DEF CostInv, Costs!TypeOK
<1>5. CostRows'
  BY <1>2, <1>3, CostTables DEF CostInv, CostRows, Named1, MadeWith
<1>6. \A t \in Session : costRequest'[t] = IF t = s THEN Costs!Idle ELSE costRequest[t]
  BY <1>2 DEF Costs!Continue, CostInv
<1>7. ASSUME NEW t \in Session PROVE CostClaim(costRequest[t])'
  <2>1. PICK x, i : x = costRequest[t] /\ i = Costs!Idle
    OBVIOUS
  <2>2. CostClaim(x)' /\ CostClaim(i)'
    BY <1>2, <1>3, <2>1 DEF CostInv, CostClaim, Costs!Idle, Keying
  <2> QED
    BY <1>6, <2>1, <2>2
<1>8. \A t, u \in Session :
          (/\ costRequest'[t].op \in Keying /\ costRequest'[u].op \in Keying
           /\ costRequest'[t].at = costRequest'[u].at)
          => t = u
  BY <1>6, IdleCost DEF CostInv
<1>9. DOMAIN costRequest' = Session
  BY <1>2 DEF Costs!Continue, CostInv
<1> QED
  BY <1>4, <1>5, <1>7, <1>8, <1>9 DEF CostInv

LEMMA ReadAgreementsKeeps ==
    ASSUME CostInv, NEW s \in Session, NEW from \in CostDay, NEW to \in CostDay,
           NEW revises \in 0 .. MaxCostRequest, Costs!ReadAgreements(s, from, to, revises)
    PROVE  CostInv'
<1>1. PICK row : row = [from |-> from, to |-> to, at |-> begun + 1, revises |-> revises]
  OBVIOUS
<1>2. PICK y : y = [op |-> "agree", row |-> row]
  OBVIOUS
<1>3. Costs!Begin(s, y)
  BY <1>1, <1>2 DEF Costs!ReadAgreements
<1>4. begun + 1 \in 1 .. MaxCostRequest
  BY <1>3, CostTables DEF Costs!Begin, CostInv
<1>5. row \in Costs!Agreement
  BY <1>1, <1>4 DEF Costs!Agreement, Costs!Time
<1>6. CostClaim(y)' /\ y.op \notin Keying
  BY <1>2, <1>5 DEF CostClaim, Keying
<1> QED
  BY <1>3, <1>6, BeginCostKeeps

LEMMA InsertAgreementKeeps ==
    ASSUME CostInv, NEW s \in Session, Costs!InsertAgreement(s)
    PROVE  CostInv'
<1>1. PICK row : row = costRequest[s].row
  OBVIOUS
<1>2. /\ agreement' = agreement \cup {row} /\ Costs!Continue(s, Costs!Idle)
      /\ UNCHANGED <<cost, assignment, classification, begun>>
      /\ row \in Costs!Agreement
  BY <1>1 DEF Costs!InsertAgreement, CostInv, CostClaim
<1>3. Costs!TypeOK' /\ CostRows'
  BY <1>2 DEF CostInv, Costs!TypeOK, CostRows, Named1, MadeWith
<1>4. \A t \in Session : costRequest'[t] = IF t = s THEN Costs!Idle ELSE costRequest[t]
  BY <1>2 DEF Costs!Continue, CostInv
<1>5. ASSUME NEW t \in Session PROVE CostClaim(costRequest[t])'
  <2>1. PICK x, i : x = costRequest[t] /\ i = Costs!Idle
    OBVIOUS
  <2>2. CostClaim(x)' /\ CostClaim(i)'
    BY <1>2, <2>1 DEF CostInv, CostClaim, Costs!Idle, Keying
  <2> QED
    BY <1>4, <2>1, <2>2
<1>6. \A t, u \in Session :
          (/\ costRequest'[t].op \in Keying /\ costRequest'[u].op \in Keying
           /\ costRequest'[t].at = costRequest'[u].at)
          => t = u
  BY <1>4, IdleCost DEF CostInv
<1>7. DOMAIN costRequest' = Session
  BY <1>2 DEF Costs!Continue, CostInv
<1> QED
  BY <1>3, <1>5, <1>6, <1>7 DEF CostInv

LEMMA CostStep == CostInv /\ [Costs!Next]_costsVars => CostInv'
<1> SUFFICES ASSUME CostInv, [Costs!Next]_costsVars PROVE CostInv'
  OBVIOUS
<1>1. ASSUME NEW s \in Session, NEW c \in Cost, NEW key \in Key \cup {NoKey},
             NEW replaces, Costs!CreateCost(s, c, key, replaces)
      PROVE  CostInv'
  BY <1>1, CreateCostKeeps
<1>2. ASSUME NEW s \in Session, NEW c \in Cost,
             Costs!ReadToVoid(s, c) \/ \E key \in Key : Costs!ReadToRekey(s, c, key)
      PROVE  CostInv'
  BY <1>2, ReadToVoidKeeps, ReadToRekeyKeeps
<1>3. ASSUME NEW s \in Session,
             \E from, to \in CostDay, revises \in 0 .. MaxCostRequest :
                Costs!ReadAgreements(s, from, to, revises)
      PROVE  CostInv'
  BY <1>3, ReadAgreementsKeeps
<1>4. ASSUME NEW s \in Session,
             \/ Costs!InsertCost(s) \/ Costs!VoidCost(s) \/ Costs!ReassignKey(s)
             \/ Costs!InsertAgreement(s) \/ Costs!GiveUp(s)
      PROVE  CostInv'
  BY <1>4, InsertCostKeeps, VoidCostKeeps, ReassignKeyKeeps, InsertAgreementKeeps, GiveUpKeeps
<1>5. CASE UNCHANGED costsVars
  <2>1. UNCHANGED <<cost, assignment, classification, agreement, begun, costRequest>>
    BY <1>5 DEF costsVars
  <2> QED
    BY <2>1 DEF CostInv, Costs!TypeOK, CostRows, CostClaim
<1> QED
  BY <1>1, <1>2, <1>3, <1>4, <1>5 DEF Costs!Next

\* The latest key of a cost and its latest classification were written by one
\* request, in whatever order two requests that re-key it commit (costs.py).
THEOREM KeyAlwaysMatches == RecordsSpec => []KeyMatchesClassification
<1>1. RecordsInit => CostInv
  BY InitCost DEF RecordsInit
<1>2. CostInv /\ [RecordsNext]_RecordsVars => CostInv'
  <2>1. [RecordsNext]_RecordsVars => [Costs!Next]_costsVars
    BY DEF RecordsNext, RecordsVars
  <2> QED
    BY <2>1, CostStep
<1>3. CostInv => KeyMatchesClassification
  <2> SUFFICES ASSUME CostInv, NEW c \in Cost, cost[c] # "ABSENT"
               PROVE  LET x == Costs!CurrentClassification(c) IN
                      IF x.key = NoKey THEN Costs!AssignmentsOf(c) = {}
                      ELSE /\ Costs!CurrentKey(c).at = x.of
                           /\ Costs!CurrentKey(c).key = x.key
    BY DEF KeyMatchesClassification, Costs!KeyMatchesClassification
  <2>1. PICK x : x = Costs!CurrentClassification(c)
    OBVIOUS
  <2>2. Costs!ClassificationsOf(c) # {} /\ Costs!ClassificationsOf(c) \subseteq classification
    BY DEF CostInv, CostRows, Costs!ClassificationsOf
  <2>3. /\ x \in classification /\ x.cost = c
        /\ \A y \in classification : y.cost = c => y.at <= x.at
    BY <2>1, <2>2, CostTables, LatestIsOne
    DEF CostInv, Costs!CurrentClassification, Costs!ClassificationsOf
  <2>4. \A a \in assignment : a.cost = c =>
            /\ MadeWith(a) \in classification /\ MadeWith(a).cost = c
            /\ MadeWith(a).key = a.key /\ MadeWith(a).at = a.at /\ a.key # NoKey
    BY CostTables, RecordsAssumption DEF CostInv, CostRows, MadeWith
  <2>5. CASE x.key = NoKey
    <3>1. \A a \in assignment : a.cost # c
      BY <2>3, <2>4, <2>5 DEF CostInv, CostRows
    <3> QED
      BY <2>1, <2>5, <3>1 DEF Costs!AssignmentsOf
  <2>6. CASE x.key # NoKey
    <3>1. x.of = x.at /\ Named1(x) \in assignment /\ Named1(x).cost = c /\ Named1(x).at = x.at
      BY <2>3, <2>6 DEF CostInv, CostRows, Named1
    <3>2. PICK k : k = Costs!CurrentKey(c)
      OBVIOUS
    <3>3. Named1(x) \in Costs!AssignmentsOf(c) /\ Costs!AssignmentsOf(c) \subseteq assignment
      BY <3>1 DEF Costs!AssignmentsOf
    <3>4. k \in assignment /\ k.cost = c /\ x.at <= k.at
      BY <3>1, <3>2, <3>3, CostTables, LatestIsOne
      DEF CostInv, Costs!CurrentKey, Costs!AssignmentsOf
    <3>5. MadeWith(k) \in classification /\ MadeWith(k).key = k.key /\ MadeWith(k).at = k.at
          /\ k.at <= x.at
      BY <2>3, <2>4, <3>4
    <3>6. k.at = x.at
      BY <2>3, <3>4, <3>5, CostTables DEF CostInv
    <3>7. MadeWith(k) = x
      BY <2>3, <3>5, <3>6 DEF CostInv, CostRows
    <3> QED
      BY <2>1, <2>6, <3>1, <3>2, <3>5, <3>6, <3>7
  <2> QED
    BY <2>1, <2>5, <2>6
<1> QED
  BY <1>1, <1>2, <1>3, PTL DEF RecordsSpec

-----------------------------------------------------------------------------
(* MeterBook: a correction began after the reading it names was committed, *)
(* and stands for the same day, so the last row of a day is never the one  *)
(* that was corrected.                                                     *)

\* The reading of meter m and day d that was recorded at a time.
ReadingAt(m, d, at) == \E r \in reading : r.meter = m /\ r.day = d /\ r.at = at

MeterRows ==
    /\ \A r, q \in reading : r.meter = q.meter /\ r.at = q.at => r = q
    /\ \A r \in reading : r.at <= beginning
    /\ \A c \in reading : c.corrects # 0 =>
          c.corrects < c.at /\ ReadingAt(c.meter, c.day, c.corrects)

\* The requests that will write readings, and the time they write them with.
Stamping == {"read", "record", "replace"}

StampOf(x) == IF x.op = "replace" THEN x.at ELSE x.row.at

MeterClaim(x) ==
    /\ x.op \in Stamping =>
          StampOf(x) \in 1 .. beginning /\ \A r \in reading : r.at # StampOf(x)
    /\ x.op \in {"read", "record"} =>
          x.row \in Meters!Reading /\ x.row.meter \in meter /\ x.row.corrects < x.row.at
    /\ x.op = "record" /\ x.row.corrects # 0 =>
          ReadingAt(x.row.meter, x.row.day, x.row.corrects)
    /\ x.op = "end" => x.event \in Meters!Event /\ x.event.meter \in meter
    /\ x.op = "replace" => x.old \in meter /\ x.new \in Meter /\ x.day \in MeterDay

MeterInv ==
    /\ Meters!TypeOK /\ MeterRows
    /\ DOMAIN meterRequest = Session
    /\ \A s \in Session : MeterClaim(meterRequest[s])
    /\ \A s, t \in Session :
          (/\ meterRequest[s].op \in Stamping /\ meterRequest[t].op \in Stamping
           /\ StampOf(meterRequest[s]) = StampOf(meterRequest[t]))
          => s = t

LEMMA MeterTables ==
    ASSUME Meters!TypeOK
    PROVE  /\ beginning \in Nat /\ MaxMeterRequest \in Nat /\ beginning <= MaxMeterRequest
           /\ \A r \in reading : r \in Meters!Reading
           /\ \A r \in reading : /\ r.meter \in meter /\ r.day \in MeterDay
                                  /\ r.at \in 1 .. MaxMeterRequest
                                  /\ r.corrects \in 0 .. MaxMeterRequest
           /\ \A e \in event : e.meter \in meter
<1>1. \A r \in reading : r \in Meters!Reading /\ r.meter \in meter
  BY DEF Meters!TypeOK
<1>2. \A e \in event : e.meter \in meter
  BY DEF Meters!TypeOK
<1> QED
  BY <1>1, <1>2, RecordsAssumption DEF Meters!TypeOK, Meters!Reading

LEMMA IdleMeter == MeterClaim(Meters!Idle) /\ Meters!Idle.op \notin Stamping
  BY DEF MeterClaim, Meters!Idle, Stamping

LEMMA InitMeters == Meters!Init => MeterInv
<1> SUFFICES ASSUME Meters!Init PROVE MeterInv
  OBVIOUS
<1>1. Meters!TypeOK
  BY RecordsAssumption DEF Meters!Init, Meters!TypeOK
<1>2. MeterRows
  BY DEF Meters!Init, MeterRows
<1> QED
  BY <1>1, <1>2, IdleMeter DEF Meters!Init, MeterInv

\* A request begins or goes on, keeping the time it has.
LEMMA MeterRequestStep ==
    ASSUME MeterInv, NEW s \in Session, NEW y, Meters!Continue(s, y), MeterClaim(y)',
           beginning' \in beginning .. MaxMeterRequest,
           y.op \in Stamping =>
              \/ StampOf(y) > beginning
              \/ meterRequest[s].op \in Stamping /\ StampOf(y) = StampOf(meterRequest[s]),
           UNCHANGED <<meter, reading, event>>
    PROVE  MeterInv'
<1>1. Meters!TypeOK' /\ beginning' \in Nat /\ beginning <= beginning'
  BY MeterTables DEF MeterInv, Meters!TypeOK
<1>2. MeterRows'
  BY <1>1, MeterTables DEF MeterInv, MeterRows, ReadingAt
<1>3. \A t \in Session : meterRequest'[t] = IF t = s THEN y ELSE meterRequest[t]
  BY DEF Meters!Continue, MeterInv
<1>4. ASSUME NEW t \in Session PROVE MeterClaim(meterRequest[t])'
  <2>1. PICK x : x = meterRequest[t]
    OBVIOUS
  <2>2. MeterClaim(x)'
    BY <1>1, <2>1, MeterTables DEF MeterInv, MeterClaim, StampOf, ReadingAt
  <2> QED
    BY <1>3, <2>1, <2>2
<1>5. ASSUME NEW t \in Session, NEW u \in Session,
             meterRequest'[t].op \in Stamping, meterRequest'[u].op \in Stamping,
             StampOf(meterRequest'[t]) = StampOf(meterRequest'[u])
      PROVE  t = u
  <2>1. \A v \in Session : meterRequest[v].op \in Stamping =>
            StampOf(meterRequest[v]) \in 1 .. beginning
    BY DEF MeterInv, MeterClaim
  <2>2. \A v, w \in Session :
            (/\ meterRequest[v].op \in Stamping /\ meterRequest[w].op \in Stamping
             /\ StampOf(meterRequest[v]) = StampOf(meterRequest[w]))
            => v = w
    BY DEF MeterInv
  <2>3. CASE t # s /\ u # s
    BY <1>3, <1>5, <2>2, <2>3
  <2>4. CASE t = s \/ u = s
    <3>1. ASSUME NEW v \in Session, v # s, y.op \in Stamping,
                 meterRequest[v].op \in Stamping, StampOf(meterRequest[v]) = StampOf(y)
          PROVE  FALSE
      <4>1. StampOf(meterRequest[v]) \in 1 .. beginning
        BY <2>1, <3>1
      <4>2. ~(StampOf(y) > beginning)
        BY <3>1, <4>1, MeterTables DEF MeterInv
      <4> QED
        BY <2>2, <3>1, <4>2
    <3> QED
      BY <1>3, <1>5, <2>4, <3>1
  <2> QED
    BY <2>3, <2>4
<1>6. DOMAIN meterRequest' = Session
  BY DEF Meters!Continue, MeterInv
<1> QED
  BY <1>1, <1>2, <1>4, <1>5, <1>6 DEF MeterInv

LEMMA BeginMeterKeeps ==
    ASSUME MeterInv, NEW s \in Session, NEW y, Meters!Begin(s, y), MeterClaim(y)',
           y.op \in Stamping => StampOf(y) = beginning + 1
    PROVE  MeterInv'
<1>1. beginning' = beginning + 1 /\ beginning < MaxMeterRequest
  BY DEF Meters!Begin
<1> QED
  BY <1>1, MeterTables, MeterRequestStep DEF Meters!Begin, MeterInv

\* The reading that a request corrects was committed before it began.
LEMMA BeginReadingKeeps ==
    ASSUME MeterInv, NEW s \in Session, NEW m \in Meter, NEW d \in MeterDay,
           NEW c \in 0 .. MaxMeterRequest, NEW confirmed,
           Meters!BeginReading(s, m, d, c, confirmed)
    PROVE  MeterInv'
<1>1. PICK row : row = [meter |-> m, day |-> d, at |-> beginning + 1, corrects |-> c]
  OBVIOUS
<1>2. PICK y : y = [op |-> "read", confirmed |-> confirmed, row |-> row]
  OBVIOUS
<1>3. Meters!Begin(s, y) /\ m \in meter /\ (c # 0 => \E r \in reading : r.at = c)
  BY <1>1, <1>2 DEF Meters!BeginReading
<1>4. /\ beginning' = beginning + 1 /\ beginning < MaxMeterRequest
      /\ UNCHANGED <<meter, reading, event>>
  BY <1>3 DEF Meters!Begin
<1>5. beginning \in Nat /\ beginning + 1 \in 1 .. MaxMeterRequest
  BY <1>4, MeterTables DEF MeterInv
<1>6. c < beginning + 1
  BY <1>3, <1>5 DEF MeterInv, MeterRows
<1>7. row \in Meters!Reading
  BY <1>1, <1>5 DEF Meters!Reading
<1>8. \A r \in reading : r.at # beginning + 1
  BY <1>5, MeterTables DEF MeterInv, MeterRows
<1>9. y.op = "read" /\ y.row = row /\ row.meter = m /\ row.at = beginning + 1 /\ row.corrects = c
  BY <1>1, <1>2
<1>10. StampOf(y) = beginning + 1
  BY <1>9 DEF StampOf
<1>11. MeterClaim(y)'
  BY <1>3, <1>4, <1>5, <1>6, <1>7, <1>8, <1>9, <1>10 DEF MeterClaim, StampOf, Stamping
<1> QED
  BY <1>3, <1>10, <1>11, BeginMeterKeeps

LEMMA BeginEndKeeps ==
    ASSUME MeterInv, NEW s \in Session, NEW m \in Meter, NEW d \in MeterDay,
           NEW type \in {"REMOVED", "VOID"}, Meters!BeginEnd(s, m, type, d)
    PROVE  MeterInv'
<1>1. PICK e : e = [meter |-> m, type |-> type, day |-> d, at |-> beginning + 1]
  OBVIOUS
<1>2. PICK y : y = [op |-> "end", event |-> e]
  OBVIOUS
<1>3. Meters!Begin(s, y) /\ m \in meter
  BY <1>1, <1>2 DEF Meters!BeginEnd
<1>4. beginning + 1 \in 1 .. MaxMeterRequest /\ meter' = meter
  BY <1>3, MeterTables DEF MeterInv, Meters!Begin
<1>5. e \in Meters!Event /\ e.meter \in meter
  BY <1>1, <1>3, <1>4 DEF Meters!Event
<1>6. MeterClaim(y)' /\ y.op \notin Stamping
  BY <1>2, <1>4, <1>5 DEF MeterClaim, Stamping
<1> QED
  BY <1>3, <1>6, BeginMeterKeeps

LEMMA BeginReplacementKeeps ==
    ASSUME MeterInv, NEW s \in Session, NEW old \in Meter, NEW new \in Meter,
           NEW d \in MeterDay, Meters!BeginReplacement(s, old, new, d)
    PROVE  MeterInv'
<1>1. PICK y : y = [op |-> "replace", old |-> old, new |-> new, day |-> d,
                    at |-> beginning + 1]
  OBVIOUS
<1>2. Meters!Begin(s, y) /\ old \in meter
  BY <1>1 DEF Meters!BeginReplacement
<1>3. /\ beginning' = beginning + 1 /\ beginning \in Nat /\ beginning < MaxMeterRequest
      /\ UNCHANGED <<meter, reading, event>>
  BY <1>2, MeterTables DEF Meters!Begin, MeterInv
<1>4. \A r \in reading : r.at # beginning + 1
  BY <1>3, MeterTables DEF MeterInv, MeterRows
<1>5. StampOf(y) = beginning + 1 /\ y.op = "replace"
  BY <1>1 DEF StampOf
<1>6. MeterClaim(y)'
  BY <1>1, <1>2, <1>3, <1>4, <1>5 DEF MeterClaim, StampOf, Stamping
<1> QED
  BY <1>2, <1>5, <1>6, BeginMeterKeeps

\* The check finds the corrected reading on the same day.
LEMMA CheckReadingKeeps ==
    ASSUME MeterInv, NEW s \in Session, Meters!CheckReading(s)
    PROVE  MeterInv'
<1>1. PICK r : r = meterRequest[s]
  OBVIOUS
<1>2. PICK y : y = [op |-> "record", row |-> r.row]
  OBVIOUS
<1>3. /\ r.op = "read" /\ Meters!Accepted(r.row, r.confirmed) /\ Meters!Continue(s, y)
      /\ UNCHANGED <<meter, reading, event, beginning>>
  BY <1>1, <1>2 DEF Meters!CheckReading
<1>4. r.row.corrects # 0 => ReadingAt(r.row.meter, r.row.day, r.row.corrects)
  BY <1>3 DEF Meters!Accepted, Meters!Correctable, Meters!Effective, Meters!ReadingsOf, ReadingAt
<1>5. MeterClaim(r) /\ r.op \in Stamping /\ y.op = "record" /\ y.row = r.row
  BY <1>1, <1>2, <1>3 DEF MeterInv, Stamping
<1>6. StampOf(y) = StampOf(r)
  BY <1>3, <1>5 DEF StampOf
<1>7. MeterClaim(y)
  BY <1>3, <1>4, <1>5, <1>6 DEF MeterClaim
<1>8. MeterClaim(y)'
  BY <1>3, <1>7 DEF MeterClaim, StampOf, ReadingAt
<1>9. beginning' \in beginning .. MaxMeterRequest
  BY <1>3, MeterTables DEF MeterInv
<1> QED
  BY <1>1, <1>3, <1>5, <1>6, <1>8, <1>9, MeterRequestStep

\* A request writes its rows and ends; a new meter may come with them.
LEMMA InsertRowsKeeps ==
    ASSUME MeterInv, NEW s \in Session, NEW rows,
           \A r \in rows :
              /\ r \in Meters!Reading /\ r.meter \in meter'
              /\ meterRequest[s].op \in Stamping /\ r.at = StampOf(meterRequest[s])
              /\ r.corrects # 0 => r.corrects < r.at /\ ReadingAt(r.meter, r.day, r.corrects),
           \A r, q \in rows : r.meter = q.meter => r = q,
           reading' = reading \cup rows,
           meter \subseteq meter', meter' \subseteq Meter,
           \A e \in event' : e \in Meters!Event /\ e.meter \in meter',
           beginning' = beginning, Meters!Continue(s, Meters!Idle)
    PROVE  MeterInv'
<1>1. \A r \in rows : r.at \in 1 .. beginning /\ \A q \in reading : q.at # r.at
  BY DEF MeterInv, MeterClaim
<1>2. Meters!TypeOK'
  <2>1. reading' \subseteq Meters!Reading /\ event' \subseteq Meters!Event
    BY DEF MeterInv, Meters!TypeOK
  <2>2. {r.meter : r \in reading'} \cup {e.meter : e \in event'} \subseteq meter'
    BY MeterTables DEF MeterInv
  <2> QED
    BY <2>1, <2>2 DEF MeterInv, Meters!TypeOK
<1>3. \A m, d, at : ReadingAt(m, d, at) => ReadingAt(m, d, at)'
  BY DEF ReadingAt
<1>4. MeterRows'
  <2>1. \A r, q \in reading' : r.meter = q.meter /\ r.at = q.at => r = q
    BY <1>1 DEF MeterInv, MeterRows
  <2>2. \A r \in reading' : r.at <= beginning
    BY <1>1, MeterTables DEF MeterInv, MeterRows
  <2>3. \A c \in reading' : c.corrects # 0 => c.corrects < c.at /\ ReadingAt(c.meter, c.day, c.corrects)
    BY DEF MeterInv, MeterRows
  <2>4. \A c \in reading' : c.corrects # 0 =>
            c.corrects < c.at /\ ReadingAt(c.meter, c.day, c.corrects)'
    <3>1. ASSUME NEW c \in reading', c.corrects # 0
          PROVE  c.corrects < c.at /\ ReadingAt(c.meter, c.day, c.corrects)'
      <4>1. PICK m, d, at : m = c.meter /\ d = c.day /\ at = c.corrects
        OBVIOUS
      <4>2. ReadingAt(m, d, at)'
        BY <1>3, <2>3, <3>1, <4>1
      <4> QED
        BY <2>3, <3>1, <4>1, <4>2
    <3> QED
      BY <3>1
  <2> QED
    BY <2>1, <2>2, <2>4 DEF MeterRows
<1>5. \A t \in Session : meterRequest'[t] = IF t = s THEN Meters!Idle ELSE meterRequest[t]
  BY DEF Meters!Continue, MeterInv
<1>6. ASSUME NEW t \in Session PROVE MeterClaim(meterRequest[t])'
  <2>1. CASE t = s
    BY <2>1, <1>5 DEF MeterClaim, Meters!Idle, Stamping
  <2>2. CASE t # s
    <3>1. PICK x : x = meterRequest[t]
      OBVIOUS
    <3>2. MeterClaim(x)
      BY <3>1 DEF MeterInv
    <3>3. x.op \in Stamping => \A r \in reading' : r.at # StampOf(x)
      <4>1. x.op \in Stamping => \A r \in rows : r.at # StampOf(x)
        BY <2>2, <3>1 DEF MeterInv
      <4> QED
        BY <3>2, <4>1 DEF MeterClaim
    <3>4. MeterClaim(x)'
      BY <1>3, <3>2, <3>3 DEF MeterClaim, StampOf
    <3> QED
      BY <1>5, <2>2, <3>1, <3>4
  <2> QED
    BY <2>1, <2>2
<1>7. \A t, u \in Session :
          (/\ meterRequest'[t].op \in Stamping /\ meterRequest'[u].op \in Stamping
           /\ StampOf(meterRequest'[t]) = StampOf(meterRequest'[u]))
          => t = u
  BY <1>5, IdleMeter DEF MeterInv
<1>8. DOMAIN meterRequest' = Session
  BY DEF Meters!Continue, MeterInv
<1> QED
  BY <1>2, <1>4, <1>6, <1>7, <1>8 DEF MeterInv, StampOf

LEMMA InsertReadingKeeps ==
    ASSUME MeterInv, NEW s \in Session, Meters!InsertReading(s)
    PROVE  MeterInv'
<1>1. PICK x : x = meterRequest[s]
  OBVIOUS
<1>2. PICK rows : rows = {x.row}
  OBVIOUS
<1>3. /\ x.op = "record" /\ reading' = reading \cup rows /\ Meters!Continue(s, Meters!Idle)
      /\ UNCHANGED <<meter, event, beginning>>
  BY <1>1, <1>2 DEF Meters!InsertReading
<1>4. MeterClaim(x) /\ x.op \in Stamping /\ StampOf(x) = x.row.at
  BY <1>1, <1>3 DEF MeterInv, Stamping, StampOf
<1>5. \A r \in rows :
          /\ r \in Meters!Reading /\ r.meter \in meter'
          /\ meterRequest[s].op \in Stamping /\ r.at = StampOf(meterRequest[s])
          /\ r.corrects # 0 => r.corrects < r.at /\ ReadingAt(r.meter, r.day, r.corrects)
  BY <1>1, <1>2, <1>3, <1>4 DEF MeterClaim
<1>6. /\ meter \subseteq meter' /\ meter' \subseteq Meter
      /\ \A e \in event' : e \in Meters!Event /\ e.meter \in meter'
  BY <1>3, MeterTables DEF MeterInv, Meters!TypeOK
<1>7. \A r, q \in rows : r = q
  BY <1>2
<1>8. beginning' = beginning
  BY <1>3
<1> QED
  BY <1>3, <1>5, <1>6, <1>7, <1>8, InsertRowsKeeps

LEMMA InsertEventKeeps ==
    ASSUME MeterInv, NEW s \in Session, Meters!InsertEvent(s)
    PROVE  MeterInv'
<1>1. PICK x : x = meterRequest[s]
  OBVIOUS
<1>2. /\ x.op = "end" /\ event' = event \cup {x.event} /\ Meters!Continue(s, Meters!Idle)
      /\ UNCHANGED <<meter, reading, beginning>>
  BY <1>1 DEF Meters!InsertEvent
<1>3. x.event \in Meters!Event /\ x.event.meter \in meter
  BY <1>1, <1>2 DEF MeterInv, MeterClaim
<1>4. /\ meter \subseteq meter' /\ meter' \subseteq Meter
      /\ \A e \in event' : e \in Meters!Event /\ e.meter \in meter'
  BY <1>2, <1>3, MeterTables DEF MeterInv, Meters!TypeOK
<1>5. PICK rows : rows = {}
  OBVIOUS
<1>6. (\A r \in rows : FALSE) /\ reading' = reading \cup rows /\ beginning' = beginning
  BY <1>2, <1>5
<1> QED
  BY <1>2, <1>4, <1>6, InsertRowsKeeps

\* The two readings of a device change are of two meters.
LEMMA InsertReplacementKeeps ==
    ASSUME MeterInv, NEW s \in Session, Meters!InsertReplacement(s)
    PROVE  MeterInv'
<1>1. PICK x : x = meterRequest[s]
  OBVIOUS
<1>2. PICK rows : rows = Meters!DeviceChange(x)
  OBVIOUS
<1>3. PICK e : e = [meter |-> x.old, type |-> "REPLACED", day |-> x.day, at |-> x.at]
  OBVIOUS
<1>4. /\ x.op = "replace" /\ meter' = meter \cup {x.new} /\ event' = event \cup {e}
      /\ reading' = reading \cup rows /\ Meters!Continue(s, Meters!Idle)
      /\ beginning' = beginning
  BY <1>1, <1>2, <1>3 DEF Meters!InsertReplacement
<1>5. /\ x.op \in Stamping /\ StampOf(x) = x.at /\ x.at \in 1 .. beginning
      /\ x.old \in meter /\ x.new \in Meter /\ x.day \in MeterDay
  BY <1>1, <1>4 DEF MeterInv, MeterClaim, Stamping, StampOf
<1>6. x.at \in 1 .. MaxMeterRequest
  BY <1>5, MeterTables DEF MeterInv
<1>7. meter \subseteq meter' /\ meter' \subseteq Meter
  BY <1>4, <1>5 DEF MeterInv, Meters!TypeOK
<1>8. \A f \in event' : f \in Meters!Event /\ f.meter \in meter'
  <2>1. e \in Meters!Event /\ e.meter \in meter'
    BY <1>3, <1>5, <1>6, <1>7 DEF Meters!Event
  <2> QED
    BY <1>4, <1>7, <2>1, MeterTables DEF MeterInv, Meters!TypeOK
<1>9. \A r \in rows : \E m \in {x.old, x.new} :
          r = [meter |-> m, day |-> x.day, at |-> x.at, corrects |-> 0]
  BY <1>2 DEF Meters!DeviceChange
<1>10. \A r \in rows : /\ r.meter \in {x.old, x.new} /\ r.at = x.at /\ r.corrects = 0
                       /\ r \in Meters!Reading
  <2>1. 0 \in 0 .. MaxMeterRequest /\ x.old \in Meter
    BY <1>4, <1>5, <1>7, RecordsAssumption
  <2> QED
    BY <1>5, <1>6, <1>9, <2>1 DEF Meters!Reading
<1>11. \A r, q \in rows : r.meter = q.meter => r = q
  BY <1>9
<1>12. \A r \in rows :
          /\ r \in Meters!Reading /\ r.meter \in meter'
          /\ meterRequest[s].op \in Stamping /\ r.at = StampOf(meterRequest[s])
          /\ r.corrects # 0 => r.corrects < r.at /\ ReadingAt(r.meter, r.day, r.corrects)
  BY <1>1, <1>4, <1>5, <1>10
<1> QED
  BY <1>4, <1>7, <1>8, <1>11, <1>12, InsertRowsKeeps

LEMMA InstallMeterKeeps ==
    ASSUME MeterInv, NEW s \in Session, NEW m \in Meter, Meters!InstallMeter(s, m)
    PROVE  MeterInv'
<1>1. meter' = meter \cup {m} /\ UNCHANGED <<reading, event, beginning, meterRequest>>
  BY DEF Meters!InstallMeter
<1>2. Meters!TypeOK'
  <2>1. {r.meter : r \in reading} \cup {e.meter : e \in event} \subseteq meter'
    BY <1>1, MeterTables DEF MeterInv
  <2> QED
    BY <1>1, <2>1 DEF MeterInv, Meters!TypeOK
<1> QED
  BY <1>1, <1>2 DEF MeterInv, MeterRows, MeterClaim, StampOf, ReadingAt

LEMMA MeterStep == MeterInv /\ [Meters!Next]_metersVars => MeterInv'
<1> SUFFICES ASSUME MeterInv, [Meters!Next]_metersVars PROVE MeterInv'
  OBVIOUS
<1>1. ASSUME NEW s \in Session, NEW m \in Meter, NEW d \in MeterDay,
             NEW c \in 0 .. MaxMeterRequest, NEW confirmed \in BOOLEAN,
             Meters!BeginReading(s, m, d, c, confirmed)
      PROVE  MeterInv'
  BY <1>1, BeginReadingKeeps
<1>2. ASSUME NEW s \in Session, NEW m \in Meter, NEW d \in MeterDay,
             NEW type \in {"REMOVED", "VOID"}, Meters!BeginEnd(s, m, type, d)
      PROVE  MeterInv'
  BY <1>2, BeginEndKeeps
<1>3. ASSUME NEW s \in Session, NEW m \in Meter, Meters!InstallMeter(s, m)
      PROVE  MeterInv'
  BY <1>3, InstallMeterKeeps
<1>4. ASSUME NEW s \in Session, NEW old \in Meter, NEW new \in Meter, NEW d \in MeterDay,
             Meters!BeginReplacement(s, old, new, d)
      PROVE  MeterInv'
  BY <1>4, BeginReplacementKeeps
<1>5. ASSUME NEW s \in Session,
             \/ Meters!CheckReading(s) \/ Meters!InsertReading(s)
             \/ Meters!InsertEvent(s) \/ Meters!InsertReplacement(s)
      PROVE  MeterInv'
  BY <1>5, CheckReadingKeeps, InsertReadingKeeps, InsertEventKeeps, InsertReplacementKeeps
<1>6. ASSUME NEW s \in Session, Meters!GiveUp(s) PROVE MeterInv'
  <2>1. /\ Meters!Continue(s, Meters!Idle)
        /\ UNCHANGED <<meter, reading, event, beginning>>
    BY <1>6 DEF Meters!GiveUp
  <2>2. MeterClaim(Meters!Idle)'
    BY DEF MeterClaim, Meters!Idle, Stamping
  <2>3. beginning' \in beginning .. MaxMeterRequest
    BY <2>1, MeterTables DEF MeterInv
  <2> QED
    BY <2>1, <2>2, <2>3, IdleMeter, MeterRequestStep
<1>7. CASE UNCHANGED metersVars
  <2>1. UNCHANGED <<meter, reading, event, beginning, meterRequest>>
    BY <1>7 DEF metersVars
  <2> QED
    BY <2>1 DEF MeterInv, Meters!TypeOK, MeterRows, MeterClaim, StampOf, ReadingAt
<1> QED
  BY <1>1, <1>2, <1>3, <1>4, <1>5, <1>6, <1>7 DEF Meters!Next

\* The workspace and the bill take the same one reading of a day: the row
\* recorded last, which no other row corrects (meters.py, meter_gateway.py).
THEOREM OneReadingCounts == RecordsSpec => []OneEffectiveReading
<1>1. RecordsInit => MeterInv
  BY InitMeters DEF RecordsInit
<1>2. MeterInv /\ [RecordsNext]_RecordsVars => MeterInv'
  <2>1. [RecordsNext]_RecordsVars => [Meters!Next]_metersVars
    BY DEF RecordsNext, RecordsVars
  <2> QED
    BY <2>1, MeterStep
<1>3. MeterInv => OneEffectiveReading
  <2> SUFFICES ASSUME MeterInv, NEW r \in reading
               PROVE  /\ {e \in Meters!Effective(r.meter) : e.day = r.day}
                            = Meters!Billed(r.meter, r.day)
                      /\ Meters!Cardinality(Meters!Billed(r.meter, r.day)) = 1
    BY DEF OneEffectiveReading, Meters!OneEffectiveReading
  <2>1. PICK m, d : m = r.meter /\ d = r.day
    OBVIOUS
  <2>2. PICK rows : rows = {q \in reading : q.meter = m /\ q.day = d}
    OBVIOUS
  <2>3. rows # {} /\ \A q \in rows : q.at \in 1 .. MaxMeterRequest
    BY <2>1, <2>2, MeterTables DEF MeterInv
  <2>4. PICK last \in rows : \A q \in rows : q.at <= last.at
    BY <2>3, LatestIsOne, RecordsAssumption
  <2>5. \A q \in rows : last.at <= q.at => q = last
    BY <2>2, <2>3, <2>4 DEF MeterInv, MeterRows
  <2>6. Meters!LastOnDay(m, d) = {last}
    BY <2>2, <2>4, <2>5 DEF Meters!LastOnDay, Meters!ReadingsOf
  <2>7. ~Meters!Corrected(last)
    <3>1. SUFFICES ASSUME NEW c \in reading, c.meter = m, c.corrects = last.at
                   PROVE  FALSE
      BY <2>2, <2>4 DEF Meters!Corrected, Meters!ReadingsOf
    <3>2. c.corrects < c.at /\ ReadingAt(c.meter, c.day, c.corrects)
      BY <2>3, <2>4, <3>1 DEF MeterInv, MeterRows
    <3>3. PICK q \in reading : q.meter = m /\ q.day = c.day /\ q.at = last.at
      BY <3>1, <3>2 DEF ReadingAt
    <3>4. q = last /\ c \in rows
      BY <2>2, <2>4, <3>1, <3>3 DEF MeterInv, MeterRows
    <3> QED
      BY <2>3, <2>4, <3>1, <3>2, <3>4
  <2>8. {e \in Meters!Effective(m) : e.day = d} = {last}
    BY <2>2, <2>4, <2>6, <2>7 DEF Meters!Effective, Meters!ReadingsOf
  <2>9. Meters!Cardinality({last}) = 1
    BY FS_Singleton DEF Meters!Cardinality, Cardinality
  <2> QED
    BY <2>1, <2>6, <2>8, <2>9 DEF Meters!Billed
<1> QED
  BY <1>1, <1>2, <1>3, PTL DEF RecordsSpec

-----------------------------------------------------------------------------
(* VersionStreams: whatever requests race, a stream is one chain, for any  *)
(* set of requests, any contents and any bound.                            *)

\* What a request that is about to append has read, and what is still so: the
\* row it follows is there and does not change.  Under the advisory lock it is
\* also still the last.
StreamClaim(s) ==
    /\ streamRequest[s].op = "locked" => kind \in Locked /\ streamLock = HeldBy(s)
    /\ streamRequest[s].op = "append" =>
          LET row == streamRequest[s].row
          IN  /\ row.supersedes \in 0 .. Len(stream)
              /\ row.version = row.supersedes + 1
              /\ kind \in Locked => streamLock = HeldBy(s) /\ row.supersedes = Len(stream)
              /\ kind = "heating_mode" /\ row.supersedes # 0 =>
                    stream[row.supersedes].content \notin Adopted
              /\ kind = "layout" /\ row.supersedes # 0 =>
                    stream[row.supersedes].content # row.content

StreamClaims == \A s \in Session : StreamClaim(s)

\* AdoptedIsLast and LayoutsDiffer, between neighbours of the chain.
Neighbours ==
    \A i \in 1 .. Len(stream) - 1 :
        /\ kind = "heating_mode" => stream[i].content \notin Adopted
        /\ kind = "layout" => stream[i + 1].content # stream[i].content

ChainInv == TypeOK /\ IsChain /\ Neighbours /\ StreamClaims

-----------------------------------------------------------------------------
LEMMA KindsApart ==
    /\ \A k \in Locked : k \notin Named /\ k # "heating_mode"
    /\ "layout" \in Locked /\ "heating_mode" \notin Locked \cup Named
  BY DEF Locked, Named

\* A request that says what it is about to do is not idle.
LEMMA StreamRequestsApart ==
    /\ Idle.op = "idle"
    /\ \A x \in Request : x.op = "append" => x.row \in Row
    /\ \A x \in Request : x.op = "locked" => x.content \in Content
  BY DEF Request, Idle, Row

\* The streams start empty.
LEMMA InitChain == Init => ChainInv
<1> SUFFICES ASSUME Init PROVE ChainInv
  OBVIOUS
<1>1. TypeOK
  <2>1. Idle \in Request
    BY DEF Request
  <2>2. streamRequest \in [Session -> Request]
    BY <2>1 DEF Init
  <2>3. stream \in Seq(Row) /\ kind \in Kind
    BY DEF Init
  <2>4. streamLock \in {NoLock} \cup {HeldBy(s) : s \in Session}
    BY DEF Init
  <2> QED
    BY <2>2, <2>3, <2>4 DEF TypeOK
<1>2. IsChain /\ Neighbours
  BY DEF Init, IsChain, Neighbours
<1>3. StreamClaims
  BY DEF Init, StreamClaims, StreamClaim, Idle
<1> QED
  BY <1>1, <1>2, <1>3 DEF ChainInv

\* A step that leaves the rows alone needs to look at the requests only.
LEMMA RowsUnchanged ==
    ASSUME ChainInv, UNCHANGED <<kind, stream>>,
           streamLock' = streamLock \/ streamLock' = NoLock
              \/ (\E s \in Session : streamLock' = HeldBy(s)),
           streamRequest' \in [Session -> Request], StreamClaims'
    PROVE  ChainInv'
  BY DEF ChainInv, TypeOK, IsChain, Neighbours

\* The row that follows row i of a chain.
LEMMA SuccessorOf ==
    ASSUME ChainInv, NEW i \in 0 .. Len(stream), i < MaxVersion, NEW content \in Content
    PROVE  /\ Successor(i, content) \in Row
           /\ Successor(i, content).version = i + 1
           /\ Successor(i, content).supersedes = i
           /\ Successor(i, content).content = content
<1>1. i # 0 => i \in DOMAIN stream /\ stream[i].version = i
  BY DEF ChainInv, TypeOK, IsChain
<1> QED
  BY <1>1, VersionsAssumption DEF Successor, Row

\* Follow() keeps the chain, if the request holds the lock where there is one
\* and has looked at the content where that matters.
LEMMA FollowKeeps ==
    ASSUME ChainInv, NEW s \in Session, NEW content \in Content,
           NEW i \in 0 .. Len(stream), Follow(s, i, content),
           kind \in Locked => streamLock = HeldBy(s) /\ i = Len(stream),
           kind = "heating_mode" /\ i # 0 => stream[i].content \notin Adopted,
           kind = "layout" /\ i # 0 => stream[i].content # content
    PROVE  ChainInv'
<1> DEFINE row == Successor(i, content)
<1>1. /\ row \in Row /\ row.version = i + 1 /\ row.supersedes = i /\ row.content = content
  BY SuccessorOf DEF Follow
<1> HIDE DEF row
<1>2. /\ streamRequest' = [streamRequest EXCEPT ![s] = [op |-> "append", row |-> row]]
      /\ UNCHANGED <<kind, stream, streamLock>>
  BY DEF Follow, Continue, row
<1>3. streamRequest \in [Session -> Request]
  BY DEF ChainInv, TypeOK
<1>4. [op |-> "append", row |-> row] \in Request
  BY <1>1 DEF Request
<1>5. streamRequest' \in [Session -> Request]
  BY <1>2, <1>3, <1>4
<1>6. StreamClaim(s)'
  BY <1>1, <1>2, <1>3 DEF StreamClaim
<1>7. \A t \in Session \ {s} : StreamClaim(t)'
  BY <1>2, <1>3 DEF ChainInv, StreamClaims, StreamClaim
<1> QED
  BY <1>2, <1>5, <1>6, <1>7, RowsUnchanged DEF StreamClaims

\* pg_advisory_xact_lock on a free lock.
LEMMA TakeLockKeeps ==
    ASSUME ChainInv, NEW s \in Session, NEW content \in Content, kind \in Locked,
           TakeLock(s, content)
    PROVE  ChainInv'
<1>1. /\ streamRequest' = [streamRequest EXCEPT ![s] = [op |-> "locked", content |-> content]]
      /\ streamLock = NoLock /\ streamLock' = HeldBy(s)
      /\ UNCHANGED <<kind, stream>>
  BY DEF TakeLock, Continue, Free
<1>2. streamRequest \in [Session -> Request]
  BY DEF ChainInv, TypeOK
<1>3. [op |-> "locked", content |-> content] \in Request
  BY DEF Request
<1>4. streamRequest' \in [Session -> Request]
  BY <1>1, <1>2, <1>3
<1>5. StreamClaim(s)'
  BY <1>1, <1>2 DEF StreamClaim
\* Nobody else holds a lock that is free.
<1>6. ASSUME NEW t \in Session \ {s} PROVE StreamClaim(t)'
  <2>1. NoLock # HeldBy(t)
    BY DEF NoLock, HeldBy
  <2>2. streamRequest[t].op \notin {"locked", "append"}
    BY <1>1, <2>1 DEF ChainInv, StreamClaims, StreamClaim
  <2>3. streamRequest'[t] = streamRequest[t]
    BY <1>1, <1>2
  <2> QED
    BY <2>2, <2>3 DEF StreamClaim
<1> QED
  BY <1>1, <1>4, <1>5, <1>6, RowsUnchanged DEF StreamClaims

\* A request that begins.
LEMMA BeginStreamKeeps ==
    ASSUME ChainInv, NEW s \in Session, NEW content \in Content, Begin(s, content)
    PROVE  ChainInv'
<1>0. Latest \in 0 .. Len(stream) /\ (Latest # 0 => Latest \in DOMAIN stream)
  BY DEF Latest, ChainInv, TypeOK
<1>1. CASE AppendEntitlement(s, content) \/ EnsureLayout(s, content)
  BY <1>1, TakeLockKeeps DEF AppendEntitlement, EnsureLayout, Locked
<1>2. CASE \/ CreateAfa(s, content) \/ CreateAdviserProfile(s, content)
           \/ CreateMapping(s, content) \/ ArchiveExport(s, content)
           \/ CreateDeliveryAddress(s, content) \/ CreatePaymentInstruction(s, content)
           \/ CreateHeatingMode(s, content) \/ MaterializeComponent(s, content)
  <2>1. /\ Follow(s, Latest, content)
        /\ kind \notin Locked
        /\ kind = "heating_mode" /\ Latest # 0 => stream[Latest].content \notin Adopted
    BY <1>2 DEF CreateAfa, CreateAdviserProfile, CreateMapping, ArchiveExport,
                CreateDeliveryAddress, CreatePaymentInstruction, CreateHeatingMode,
                MaterializeComponent, ReadLatest, Locked
  <2>2. kind # "layout"
    BY <2>1, KindsApart
  <2> QED
    BY <1>0, <2>1, <2>2, FollowKeeps
<1>3. CASE \E i \in DOMAIN stream : CorrectEvent(s, i, content)
  <2>1. PICK i \in DOMAIN stream : CorrectEvent(s, i, content)
    BY <1>3
  <2>2. /\ i \in 0 .. Len(stream) /\ Follow(s, i, content)
        /\ kind \notin Locked /\ kind \notin {"layout", "heating_mode"}
    BY <2>1, KindsApart DEF CorrectEvent, ChainInv, TypeOK
  <2> QED
    BY <2>2, FollowKeeps
<1>4. CASE CreateEvent(s, content)
  <2> DEFINE row == Successor(0, content)
  <2>1. /\ row \in Row /\ row.version = 1 /\ row.supersedes = 0
    <3>1. 0 \in 0 .. Len(stream) /\ 0 < MaxVersion
      BY VersionsAssumption DEF ChainInv, TypeOK
    <3> QED
      BY <3>1, SuccessorOf
  <2> HIDE DEF row
  <2>2. /\ kind = "manual_event" /\ stream = <<>> /\ stream' = <<row>>
        /\ UNCHANGED <<kind, streamLock, streamRequest>>
    BY <1>4 DEF CreateEvent, row
  <2>3. TypeOK' /\ IsChain' /\ Neighbours'
    BY <2>1, <2>2 DEF ChainInv, TypeOK, IsChain, Neighbours
  <2>4. StreamClaims'
    BY <2>2 DEF ChainInv, StreamClaims, StreamClaim, Locked
  <2> QED
    BY <2>3, <2>4 DEF ChainInv
<1> QED
  BY <1>1, <1>2, <1>3, <1>4 DEF Begin

\* Reading the latest row while holding the lock.
LEMMA LockedReadKeeps ==
    ASSUME ChainInv, NEW s \in Session, ReadEntitlement(s) \/ ReadLayout(s)
    PROVE  ChainInv'
<1> DEFINE content == streamRequest[s].content
<1>1. /\ streamRequest[s].op = "locked" /\ Follow(s, Latest, content)
      /\ kind = "layout" /\ Latest # 0 => stream[Latest].content # content
  BY DEF ReadEntitlement, ReadLayout
<1>2. content \in Content
  BY <1>1, StreamRequestsApart DEF ChainInv, TypeOK
<1>3. kind \in Locked /\ streamLock = HeldBy(s)
  BY <1>1 DEF ChainInv, StreamClaims, StreamClaim
<1>4. Latest \in 0 .. Len(stream) /\ Latest = Len(stream)
  BY DEF Latest, ChainInv, TypeOK
<1> HIDE DEF content
<1> QED
  BY <1>1, <1>2, <1>3, <1>4, KindsApart, FollowKeeps

\* What the unique keys leave: only the row after the last one.
LEMMA AppendsLast ==
    ASSUME ChainInv, NEW s \in Session, streamRequest[s].op = "append",
           ~Taken(streamRequest[s].row)
    PROVE  streamRequest[s].row.supersedes = Len(stream)
<1> DEFINE row == streamRequest[s].row
<1>1. row.supersedes \in 0 .. Len(stream) /\ row.version = row.supersedes + 1
  BY DEF ChainInv, StreamClaims, StreamClaim
<1>2. Len(stream) \in Nat /\ DOMAIN stream = 1 .. Len(stream)
  BY DEF ChainInv, TypeOK
<1>3. \A i \in DOMAIN stream : stream[i].version = i /\ stream[i].supersedes = i - 1
  BY DEF ChainInv, IsChain
<1>4. SUFFICES ASSUME row.supersedes < Len(stream) PROVE FALSE
  BY <1>1, <1>2
<1>5. row.version \in DOMAIN stream
  BY <1>1, <1>2, <1>4
<1>6. stream[row.version].version = row.version
      /\ stream[row.version].supersedes = row.supersedes
  BY <1>1, <1>2, <1>3, <1>5
<1> QED
  BY <1>5, <1>6 DEF Taken

\* The insert and the commit.
LEMMA AppendKeeps ==
    ASSUME ChainInv, NEW s \in Session, AppendRow(s)
    PROVE  ChainInv'
<1> DEFINE row == streamRequest[s].row
<1>1. /\ streamRequest[s].op = "append" /\ stream' = Append(stream, row)
      /\ streamLock' = IF kind \in Locked THEN NoLock ELSE streamLock
      /\ streamRequest' = [streamRequest EXCEPT ![s] = Idle] /\ kind' = kind
  BY DEF AppendRow, Continue
<1>2. /\ kind \in Kind /\ stream \in Seq(Row) /\ streamRequest \in [Session -> Request]
  BY DEF ChainInv, TypeOK
<1>3. row \in Row
  BY <1>1, <1>2, StreamRequestsApart
<1>4. row.supersedes = Len(stream) /\ row.version = Len(stream) + 1
  BY <1>1, AppendsLast DEF AppendRow, ChainInv, StreamClaims, StreamClaim
<1>5. /\ Len(stream) \in Nat /\ DOMAIN stream = 1 .. Len(stream)
      /\ stream' \in Seq(Row) /\ Len(stream') = Len(stream) + 1
      /\ DOMAIN stream' = 1 .. Len(stream) + 1
      /\ stream'[Len(stream) + 1] = row
      /\ \A i \in 1 .. Len(stream) : stream'[i] = stream[i]
  BY <1>1, <1>2, <1>3
<1>6. TypeOK'
  <2>1. Idle \in Request
    BY DEF Request
  <2>2. streamRequest' \in [Session -> Request]
    BY <1>1, <1>2, <2>1
  <2>3. streamLock' \in {NoLock} \cup {HeldBy(t) : t \in Session}
    BY <1>1 DEF ChainInv, TypeOK
  <2> QED
    BY <1>1, <1>2, <1>5, <2>2, <2>3 DEF TypeOK
<1>7. IsChain'
  <2>1. \A i \in 1 .. Len(stream) : stream[i].version = i /\ stream[i].supersedes = i - 1
    BY <1>5 DEF ChainInv, IsChain
  <2> QED
    BY <1>4, <1>5, <2>1 DEF IsChain
<1>8. Neighbours'
  <2> SUFFICES ASSUME NEW i \in 1 .. Len(stream)
               PROVE  /\ kind = "heating_mode" => stream'[i].content \notin Adopted
                      /\ kind = "layout" => stream'[i + 1].content # stream'[i].content
    BY <1>1, <1>5 DEF Neighbours
  <2>1. CASE i = Len(stream)
    BY <1>1, <1>4, <1>5, <2>1 DEF ChainInv, StreamClaims, StreamClaim
  <2>2. CASE i # Len(stream)
    <3>1. i \in 1 .. Len(stream) - 1 /\ i + 1 \in 1 .. Len(stream)
      <4>1. Len(stream) \in Nat
        BY <1>5
      <4> QED
        BY <2>2, <4>1
    <3> QED
      BY <1>5, <3>1 DEF ChainInv, Neighbours
  <2> QED
    BY <2>1, <2>2
<1>9. StreamClaim(s)'
  BY <1>1, <1>2, StreamRequestsApart DEF StreamClaim
<1>10. ASSUME NEW t \in Session \ {s} PROVE StreamClaim(t)'
  <2>1. streamRequest'[t] = streamRequest[t]
    BY <1>1, <1>2
  <2>2. CASE kind \in Locked
    \* Two requests never hold the lock together.
    <3>1. streamLock = HeldBy(s) /\ HeldBy(s) # HeldBy(t)
      BY <1>1, <2>2 DEF ChainInv, StreamClaims, StreamClaim, HeldBy
    <3>2. streamRequest[t].op \notin {"locked", "append"}
      BY <2>2, <3>1 DEF ChainInv, StreamClaims, StreamClaim
    <3> QED
      BY <2>1, <3>2 DEF StreamClaim
  <2>3. CASE kind \notin Locked
    <3>1. kind # "layout"
      BY <2>3, KindsApart
    <3>2. streamRequest[t].op # "locked"
      BY <2>3 DEF ChainInv, StreamClaims, StreamClaim
    <3>3. SUFFICES ASSUME streamRequest[t].op = "append"
                   PROVE  LET other == streamRequest[t].row
                          IN  /\ other.supersedes \in 0 .. Len(stream) + 1
                              /\ other.version = other.supersedes + 1
                              /\ kind = "heating_mode" /\ other.supersedes # 0 =>
                                    stream'[other.supersedes].content \notin Adopted
      BY <1>1, <1>5, <2>1, <2>3, <3>1, <3>2 DEF StreamClaim
    <3>4. LET other == streamRequest[t].row
          IN  /\ other.supersedes \in 0 .. Len(stream)
              /\ other.version = other.supersedes + 1
              /\ kind = "heating_mode" /\ other.supersedes # 0 =>
                    stream[other.supersedes].content \notin Adopted
      BY <3>3 DEF ChainInv, StreamClaims, StreamClaim
    <3> QED
      BY <1>5, <3>4
  <2> QED
    BY <2>2, <2>3
<1> QED
  BY <1>6, <1>7, <1>8, <1>9, <1>10 DEF ChainInv, StreamClaims

\* Refused, answered without a row, or abandoned.
LEMMA GiveUpStreamKeeps ==
    ASSUME ChainInv, NEW s \in Session, GiveUp(s)
    PROVE  ChainInv'
<1>1. /\ streamRequest[s] # Idle
      /\ streamLock' = IF kind \in Locked THEN NoLock ELSE streamLock
      /\ streamRequest' = [streamRequest EXCEPT ![s] = Idle]
      /\ UNCHANGED <<kind, stream>>
  BY DEF GiveUp, Continue
<1>2. streamRequest \in [Session -> Request] /\ Idle \in Request
  BY DEF ChainInv, TypeOK, Request
<1>3. streamRequest' \in [Session -> Request]
  BY <1>1, <1>2
<1>4. StreamClaim(s)'
  BY <1>1, <1>2, StreamRequestsApart DEF StreamClaim
<1>5. ASSUME NEW t \in Session \ {s} PROVE StreamClaim(t)'
  <2>1. streamRequest'[t] = streamRequest[t]
    BY <1>1, <1>2
  <2>2. CASE kind \in Locked
    <3>1. streamRequest[s].op \in {"locked", "append"}
      BY <1>1, <1>2 DEF Request
    <3>2. streamLock = HeldBy(s) /\ HeldBy(s) # HeldBy(t)
      BY <2>2, <3>1 DEF ChainInv, StreamClaims, StreamClaim, HeldBy
    <3>3. streamRequest[t].op \notin {"locked", "append"}
      BY <2>2, <3>2 DEF ChainInv, StreamClaims, StreamClaim
    <3> QED
      BY <2>1, <3>3 DEF StreamClaim
  <2>3. CASE kind \notin Locked
    BY <1>1, <2>1, <2>3 DEF ChainInv, StreamClaims, StreamClaim
  <2> QED
    BY <2>2, <2>3
<1> QED
  BY <1>1, <1>3, <1>4, <1>5, RowsUnchanged DEF StreamClaims

LEMMA StreamStep == ChainInv /\ [Next]_vars => ChainInv'
<1> SUFFICES ASSUME ChainInv, [Next]_vars PROVE ChainInv'
  OBVIOUS
<1>1. ASSUME NEW s \in Session, NEW content \in Content, Begin(s, content) PROVE ChainInv'
  BY <1>1, BeginStreamKeeps
<1>2. ASSUME NEW s \in Session, ReadEntitlement(s) \/ ReadLayout(s) PROVE ChainInv'
  BY <1>2, LockedReadKeeps
<1>3. ASSUME NEW s \in Session, AppendRow(s) PROVE ChainInv'
  BY <1>3, AppendKeeps
<1>4. ASSUME NEW s \in Session, GiveUp(s) PROVE ChainInv'
  BY <1>4, GiveUpStreamKeeps
<1>5. CASE UNCHANGED vars
  BY <1>5 DEF vars, ChainInv, TypeOK, IsChain, Neighbours, StreamClaims, StreamClaim
<1> QED
  BY <1>1, <1>2, <1>3, <1>4, <1>5 DEF Next

\* Between neighbours is everywhere; and a request that holds the lock carries
\* the one number that no row has.
LEMMA ChainIsSafe == ChainInv => StreamsAreChains
<1> SUFFICES ASSUME ChainInv PROVE StreamsAreChains
  OBVIOUS
<1>1. /\ Len(stream) \in Nat /\ DOMAIN stream = 1 .. Len(stream) /\ IsChain
  BY DEF ChainInv, TypeOK
<1>2. AdoptedIsLast
  BY <1>1 DEF ChainInv, Neighbours, AdoptedIsLast
<1>3. LayoutsDiffer
  <2> SUFFICES ASSUME kind = "layout", NEW i \in 2 .. Len(stream)
               PROVE  stream[i].content # stream[i - 1].content
    BY DEF LayoutsDiffer
  <2>1. i - 1 \in 1 .. Len(stream) - 1 /\ (i - 1) + 1 = i
    BY <1>1
  <2> QED
    BY <2>1 DEF ChainInv, Neighbours
<1>4. LockedNeverRefused
  <2> SUFFICES ASSUME kind \in Locked, NEW s \in Session, streamRequest[s].op = "append"
               PROVE  ~Taken(streamRequest[s].row)
    BY DEF LockedNeverRefused
  <2>1. streamRequest[s].row.version = Len(stream) + 1
    BY DEF ChainInv, StreamClaims, StreamClaim
  <2>2. kind \notin Named
    BY KindsApart
  <2> QED
    BY <1>1, <2>1, <2>2 DEF Taken, IsChain
<1> QED
  BY <1>1, <1>2, <1>3, <1>4 DEF StreamsAreChains

(***************************************************************************)
(* Every stream of versions is one chain, for any number of requests: no   *)
(* version is missing, doubled or followed twice, nothing follows a        *)
(* heating result that was taken over, no layout repeats the one before,   *)
(* and a request under the advisory lock is never refused.                 *)
(***************************************************************************)
THEOREM AlwaysChains == Spec => []StreamsAreChains
<1>1. Init => ChainInv
  BY InitChain
<1>2. ChainInv /\ [Next]_vars => ChainInv'
  BY StreamStep
<1>3. ChainInv => StreamsAreChains
  BY ChainIsSafe
<1> QED
  BY <1>1, <1>2, <1>3, PTL DEF Spec

-----------------------------------------------------------------------------
(* BankImport: what is stored stays stored, and a pull inserts everything  *)
(* it was offered and did not find stored.                                 *)

\* A transaction in progress.
Pull ==
    [op : {"import"}, number : 1 .. MaxPull, accounts : SUBSET BankAccount, matching : BOOLEAN,
     new : SUBSET Bank!Movement, listed : SUBSET Bank!Movement,
     matched : SUBSET Bank!Movement, refused : SUBSET Bank!Movement]

ImportShape ==
    /\ today \in Today /\ consent \in [BankAccount -> BOOLEAN]
    /\ pulls \in 0 .. MaxPull
    /\ imported \in [Bank!Movement -> SUBSET (1 .. MaxPull)]
    /\ outcome \in [Bank!Movement -> Bank!Outcome]
    /\ pull \in [Session -> {Bank!Idle} \cup Pull]

\* A pull inserts everything it was offered that it did not find stored, and
\* matches nothing but what it inserts.  What is stored stays stored, so that
\* this is still so when it commits.
Offered(w) ==
    pull[w] # Bank!Idle =>
        /\ pull[w].listed \subseteq pull[w].new \cup Bank!Stored
        /\ pull[w].matched \cup pull[w].refused \subseteq pull[w].new

\* Each movement was inserted by at most one pull.
OneInsert ==
    \A m \in Bank!Movement : imported[m] = {} \/ \E n \in 1 .. MaxPull : imported[m] = {n}

ImportInv ==
    /\ ImportShape /\ OneInsert
    /\ \A w \in Session : Offered(w)
    /\ promised \subseteq Bank!Stored
    /\ \A m \in Bank!Movement : outcome[m] # "none" => m \in Bank!Stored

-----------------------------------------------------------------------------
LEMMA IdleIsNoPull == Bank!Idle \notin Pull
  BY DEF Bank!Idle, Pull

LEMMA InitImport == Bank!Init => ImportInv
  BY RecordsAssumption DEF Bank!Init, ImportInv, ImportShape, OneInsert, Offered, Bank!Stored, Bank!Outcome

\* A step of one pull that changes no table.
LEMMA PullStep ==
    ASSUME ImportInv, NEW w \in Session, NEW next \in {Bank!Idle} \cup Pull,
           Bank!Continue(w, next), pulls' \in 0 .. MaxPull,
           UNCHANGED <<today, consent, imported, outcome, promised>>,
           next # Bank!Idle => /\ next.listed \subseteq next.new \cup Bank!Stored
                          /\ next.matched \cup next.refused \subseteq next.new
    PROVE  ImportInv'
<1>1. pull' = [pull EXCEPT ![w] = next] /\ pull \in [Session -> {Bank!Idle} \cup Pull]
  BY DEF Bank!Continue, ImportInv, ImportShape
<1>2. pull' \in [Session -> {Bank!Idle} \cup Pull]
  BY <1>1
<1>3. Bank!Stored' = Bank!Stored
  BY DEF Bank!Stored
<1>4. \A v \in Session : Offered(v)'
  BY <1>1, <1>3 DEF ImportInv, Offered
<1> QED
  BY <1>2, <1>3, <1>4 DEF ImportInv, ImportShape, OneInsert

LEMMA StartKeeps ==
    ASSUME ImportInv, NEW w \in Session, NEW accounts \in SUBSET BankAccount,
           NEW matching \in BOOLEAN, Bank!Start(w, accounts, matching)
    PROVE  ImportInv'
<1> DEFINE next == [op |-> "import", number |-> pulls + 1, accounts |-> accounts,
                    matching |-> matching, new |-> {}, listed |-> {},
                    matched |-> {}, refused |-> {}]
<1>1. pulls + 1 \in 1 .. MaxPull
  BY RecordsAssumption DEF Bank!Start, ImportInv, ImportShape
<1>2. next \in Pull
  BY <1>1 DEF Pull
<1> QED
  BY <1>1, <1>2, PullStep DEF Bank!Start, ImportInv, ImportShape

LEMMA ImportAccountKeeps ==
    ASSUME ImportInv, NEW w \in Session, Bank!ImportAccount(w)
    PROVE  ImportInv'
<1> DEFINE p == pull[w]
           a == Bank!FirstOf(p.accounts)
           listed == IF consent[a] THEN Bank!ListTransactions(a) ELSE {}
           next == [p EXCEPT !.accounts = @ \ {a}, !.new = @ \cup (listed \ Bank!Known(a)),
                             !.listed = @ \cup listed]
<1>1. p \in Pull /\ p # Bank!Idle
  BY IdleIsNoPull DEF Bank!ImportAccount, ImportInv, ImportShape, Bank!Idle
<1>2. listed \subseteq Bank!Movement /\ Bank!Known(a) \subseteq Bank!Stored
  BY DEF Bank!ListTransactions, Bank!Known
<1>3. Bank!Continue(w, next) /\ UNCHANGED <<today, consent, imported, outcome, pulls, promised>>
  BY DEF Bank!ImportAccount
<1> HIDE DEF a, listed
<1>4. next \in Pull
  BY <1>1, <1>2 DEF Pull
<1>5. p.listed \subseteq p.new \cup Bank!Stored /\ p.matched \cup p.refused \subseteq p.new
  BY <1>1 DEF ImportInv, Offered
<1>6. /\ next.new = p.new \cup (listed \ Bank!Known(a)) /\ next.listed = p.listed \cup listed
      /\ next.matched = p.matched /\ next.refused = p.refused
  BY <1>1 DEF Pull
<1>7. /\ next.listed \subseteq next.new \cup Bank!Stored
      /\ next.matched \cup next.refused \subseteq next.new
  BY <1>2, <1>5, <1>6
<1> HIDE DEF next
<1> QED
  BY <1>3, <1>4, <1>7, PullStep DEF ImportInv, ImportShape

LEMMA MatchOneKeeps ==
    ASSUME ImportInv, NEW w \in Session, Bank!MatchOne(w)
    PROVE  ImportInv'
<1> DEFINE p == pull[w]
<1>1. p \in Pull /\ p # Bank!Idle
  BY IdleIsNoPull DEF Bank!MatchOne, ImportInv, ImportShape, Bank!Idle
<1>2. p.listed \subseteq p.new \cup Bank!Stored /\ p.matched \cup p.refused \subseteq p.new
  BY <1>1 DEF ImportInv, Offered
<1>3. PICK m \in p.new : \/ Bank!Continue(w, [p EXCEPT !.matched = @ \cup {m}])
                         \/ Bank!Continue(w, [p EXCEPT !.refused = @ \cup {m}])
  BY DEF Bank!MatchOne, Bank!Unmatched
<1>4. UNCHANGED <<today, consent, imported, outcome, pulls, promised>>
  BY DEF Bank!MatchOne
<1>5. m \in Bank!Movement
  BY <1>1, <1>3 DEF Pull
<1>6. CASE Bank!Continue(w, [p EXCEPT !.matched = @ \cup {m}])
  <2> DEFINE next == [p EXCEPT !.matched = @ \cup {m}]
  <2>1. /\ next \in Pull /\ next.listed = p.listed /\ next.new = p.new
        /\ next.matched = p.matched \cup {m} /\ next.refused = p.refused
    BY <1>1, <1>5 DEF Pull
  <2> HIDE DEF next
  <2>2. Bank!Continue(w, next)
    BY <1>6 DEF next
  <2> QED
    BY <1>2, <1>3, <1>4, <2>1, <2>2, PullStep DEF ImportInv, ImportShape
<1>7. CASE Bank!Continue(w, [p EXCEPT !.refused = @ \cup {m}])
  <2> DEFINE next == [p EXCEPT !.refused = @ \cup {m}]
  <2>1. /\ next \in Pull /\ next.listed = p.listed /\ next.new = p.new
        /\ next.matched = p.matched /\ next.refused = p.refused \cup {m}
    BY <1>1, <1>5 DEF Pull
  <2> HIDE DEF next
  <2>2. Bank!Continue(w, next)
    BY <1>7 DEF next
  <2> QED
    BY <1>2, <1>3, <1>4, <2>1, <2>2, PullStep DEF ImportInv, ImportShape
<1> QED
  BY <1>3, <1>6, <1>7

\* The unique index is what keeps a movement two pulls were offered from being
\* inserted by both: the second read its rows before the first committed.
LEMMA CommitKeeps ==
    ASSUME ImportInv, NEW w \in Session, Bank!Commit(w)
    PROVE  ImportInv'
<1> DEFINE p == pull[w]
<1>1. p \in Pull /\ p # Bank!Idle
  BY IdleIsNoPull DEF Bank!Commit, ImportInv, ImportShape, Bank!Idle
<1>2. p.listed \subseteq p.new \cup Bank!Stored /\ p.matched \cup p.refused \subseteq p.new
  BY <1>1 DEF ImportInv, Offered
<1>3. p.number \in 1 .. MaxPull /\ p.new \subseteq Bank!Movement
  BY <1>1 DEF Pull
<1>4. /\ imported' = [m \in Bank!Movement |->
              IF m \in p.new THEN imported[m] \cup {p.number} ELSE imported[m]]
      /\ outcome' = [m \in Bank!Movement |-> IF m \in p.matched THEN "matched"
                                        ELSE IF m \in p.refused THEN "refused"
                                        ELSE outcome[m]]
      /\ promised' = promised \cup p.listed
      /\ pull' = [pull EXCEPT ![w] = Bank!Idle]
      /\ UNCHANGED <<today, consent, pulls>>
      /\ p.new \cap Bank!Stored = {}
  BY DEF Bank!Commit, Bank!Continue, Bank!Collides
<1> HIDE DEF p
<1>5. Bank!Stored' = Bank!Stored \cup p.new
  BY <1>3, <1>4 DEF Bank!Stored
<1>6. ImportShape'
  <2>1. imported' \in [Bank!Movement -> SUBSET (1 .. MaxPull)]
    <3>1. ASSUME NEW m \in Bank!Movement
          PROVE  (IF m \in p.new THEN imported[m] \cup {p.number} ELSE imported[m])
                    \in SUBSET (1 .. MaxPull)
      BY <1>3 DEF ImportInv, ImportShape
    <3> QED
      BY <1>4, <3>1
  <2>2. outcome' \in [Bank!Movement -> Bank!Outcome]
    BY <1>4 DEF ImportInv, ImportShape, Bank!Outcome
  <2> QED
    BY <1>4, <2>1, <2>2 DEF ImportInv, ImportShape
<1>7. OneInsert'
  <2> SUFFICES ASSUME NEW m \in Bank!Movement
               PROVE  imported'[m] = {} \/ \E n \in 1 .. MaxPull : imported'[m] = {n}
    BY DEF OneInsert
  <2>1. CASE m \in p.new
    <3>1. imported[m] = {}
      BY <1>4, <2>1 DEF Bank!Stored
    <3> QED
      BY <1>3, <1>4, <2>1, <3>1
  <2>2. CASE m \notin p.new
    BY <1>4, <2>2 DEF ImportInv, OneInsert
  <2> QED
    BY <2>1, <2>2
<1>8. ASSUME NEW v \in Session PROVE Offered(v)'
  <2>1. pull'[v] = IF v = w THEN Bank!Idle ELSE pull[v]
    BY <1>4 DEF ImportInv, ImportShape
  <2> QED
    BY <1>5, <2>1 DEF ImportInv, Offered
<1>9. promised' \subseteq Bank!Stored'
  BY <1>2, <1>4, <1>5 DEF ImportInv
<1>10. \A m \in Bank!Movement : outcome'[m] # "none" => m \in Bank!Stored'
  BY <1>2, <1>4, <1>5 DEF ImportInv
<1> QED
  BY <1>6, <1>7, <1>8, <1>9, <1>10 DEF ImportInv

\* The next day of the calendar is one of its days.
LEMMA NextDayIsOne ==
    ASSUME Bank!NextDay, today \in Today
    PROVE  today' \in Today
<1> DEFINE D == {d \in Today : d > today}
<1>1. D \subseteq Nat /\ D # {}
  BY RecordsAssumption DEF Bank!NextDay
<1>2. PICK d \in D : \A e \in D : d <= e
  BY <1>1, LeastOf
<1>3. d \in Today /\ d > today /\ \A e \in Today : e > today => d <= e
  BY <1>2
<1> QED
  BY <1>3 DEF Bank!NextDay

LEMMA ImportStep == ImportInv /\ [Bank!Next]_bankVars => ImportInv'
<1> SUFFICES ASSUME ImportInv, [Bank!Next]_bankVars PROVE ImportInv'
  OBVIOUS
<1>0. ASSUME Bank!NextDay PROVE ImportInv'
  <2>1. today' \in Today
    BY <1>0, NextDayIsOne DEF ImportInv, ImportShape
  <2> QED
    BY <1>0, <2>1 DEF Bank!NextDay, ImportInv, ImportShape, OneInsert, Offered, Bank!Stored
<1>1. ASSUME (\E a \in BankAccount : Bank!ConsentChanges(a)) \/ UNCHANGED bankVars
      PROVE  ImportInv'
  BY <1>1 DEF Bank!ConsentChanges, bankVars, ImportInv, ImportShape, OneInsert, Offered, Bank!Stored
<1>2. ASSUME NEW m \in Bank!Movement, Bank!MatchByHand(m) PROVE ImportInv'
  BY <1>2 DEF Bank!MatchByHand, ImportInv, ImportShape, OneInsert, Offered, Bank!Stored, Bank!Outcome
<1>3. ASSUME NEW w \in Session, Bank!StartJob(w) \/ \E a \in BankAccount : Bank!StartOwner(w, a)
      PROVE  ImportInv'
  <2>1. PICK accounts \in SUBSET BankAccount, matching \in BOOLEAN :
            Bank!Start(w, accounts, matching)
    BY <1>3 DEF Bank!StartJob, Bank!StartOwner
  <2> QED
    BY <2>1, StartKeeps
<1>4. ASSUME NEW w \in Session, Bank!ImportAccount(w) PROVE ImportInv'
  BY <1>4, ImportAccountKeeps
<1>5. ASSUME NEW w \in Session, Bank!MatchOne(w) PROVE ImportInv'
  BY <1>5, MatchOneKeeps
<1>6. ASSUME NEW w \in Session, Bank!Commit(w) PROVE ImportInv'
  BY <1>6, CommitKeeps
<1>7. ASSUME NEW w \in Session, Bank!Abort(w) PROVE ImportInv'
  BY <1>7, PullStep DEF Bank!Abort, ImportInv, ImportShape
<1> QED
  BY <1>0, <1>1, <1>2, <1>3, <1>4, <1>5, <1>6, <1>7 DEF Bank!Next

LEMMA ImportIsSafe == ImportInv => Bank!MovementsImportedOnce
<1> SUFFICES ASSUME ImportInv, NEW m \in Bank!Movement PROVE Cardinality(imported[m]) <= 1
  BY DEF ImportInv, Bank!MovementsImportedOnce, Bank!Cardinality, Cardinality
<1>1. CASE imported[m] = {}
  BY <1>1, FS_EmptySet
<1>2. CASE \E n \in 1 .. MaxPull : imported[m] = {n}
  <2>1. PICK n \in 1 .. MaxPull : imported[m] = {n}
    BY <1>2
  <2>2. Cardinality({n}) = 1
    BY FS_Singleton
  <2> QED
    BY <2>1, <2>2
<1> QED
  BY <1>1, <1>2 DEF ImportInv, OneInsert

\* A step of the records is one of the pulls, or leaves their tables alone.
LEMMA ImportRecordsStep == ImportInv /\ [RecordsNext]_RecordsVars => ImportInv'
<1>1. [RecordsNext]_RecordsVars => [Bank!Next]_bankVars
  BY DEF RecordsNext, RecordsVars
<1> QED
  BY <1>1, ImportStep

(***************************************************************************)
(* Nothing that was offered to a committed pull is missing, no movement is *)
(* inserted by two pulls, and only stored movements are matched or refused,*)
(* however the pulls of the job and of owners overlap, fail and repeat.    *)
(***************************************************************************)
THEOREM AlwaysImportedOnce == RecordsSpec => []MovementsImportedOnce
<1>1. RecordsInit => ImportInv
  BY InitImport DEF RecordsInit
<1>2. ImportInv => MovementsImportedOnce
  BY ImportIsSafe DEF MovementsImportedOnce
<1> QED
  BY <1>1, <1>2, ImportRecordsStep, PTL DEF RecordsSpec

-----------------------------------------------------------------------------
(* AdvanceLedger: what was read of a payment stays true, because payments  *)
(* are only appended, and a total is the sum of its signed payments.       *)

SignedIn(p, i) == IF p[i].reverses # 0 THEN -p[i].amount ELSE p[i].amount

SignsIn(p, S) == Advances!MapThenSumSet(LAMBDA i : SignedIn(p, i), S)

AmountsIn(p, S) == Advances!MapThenSumSet(LAMBDA i : p[i].amount, S)

\* A reversal names a payment that is none, and no two name the same.
PaymentRows ==
    /\ \A i \in DOMAIN payment : payment[i].reverses # 0 =>
          /\ payment[i].reverses \in DOMAIN payment
          /\ payment[payment[i].reverses].reverses = 0
          /\ payment[payment[i].reverses].amount = payment[i].amount
    /\ \A i, j \in DOMAIN payment :
          payment[i].reverses # 0 /\ payment[i].reverses = payment[j].reverses => i = j

\* A row to confirm, or confirmed.
Confirms(row) ==
    /\ row \in Advances!Reconciliation
    /\ row.selected \subseteq DOMAIN payment
    /\ row.total = SignsIn(payment, row.selected)

AdvanceClaim(x) ==
    /\ x.op = "reverse" => x.original \in DOMAIN payment /\ payment[x.original].reverses = 0
    /\ x.op \in {"sum", "version"} => x.period \in Period /\ x.selected \subseteq DOMAIN payment
    /\ x.op = "version" => x.total = SignsIn(payment, x.selected)
    /\ x.op = "confirm" => Confirms(x.row)
    /\ x.op = "succeed" => x.row.start \in {0} \cup AdvanceStart /\ x.row.predecessor < x.row.start

AdvanceInv ==
    /\ Advances!TypeOK /\ PaymentRows /\ Advances!FirstAdvance \in schedule
    /\ \A row \in reconciliation : Confirms(row)
    /\ DOMAIN advanceRequest = Session
    /\ \A s \in Session : AdvanceClaim(advanceRequest[s])

LEMMA PaymentTable ==
    ASSUME Advances!TypeOK
    PROVE  /\ payment \in Seq(Advances!Payment) /\ Len(payment) \in Nat
           /\ Len(payment) <= MaxPayment /\ DOMAIN payment = 1 .. Len(payment)
           /\ \A i \in DOMAIN payment :
                 /\ payment[i] \in Advances!Payment
                 /\ payment[i].period \in Period /\ payment[i].amount \in Int
                 /\ payment[i].reverses \in 0 .. MaxPayment
<1>1. payment \in Seq(Advances!Payment) /\ Len(payment) <= MaxPayment
  BY DEF Advances!TypeOK
<1>2. \A i \in DOMAIN payment : payment[i] \in Advances!Payment
  BY <1>1, ElementOfSeq
<1>3. \A a \in Amount : a \in Int
  BY RecordsAssumption
<1>4. \A i \in DOMAIN payment :
          /\ payment[i].period \in Period /\ payment[i].amount \in Int
          /\ payment[i].reverses \in 0 .. MaxPayment
  BY <1>2, <1>3 DEF Advances!Payment
<1> QED
  BY <1>1, <1>2, <1>4, LenProperties

LEMMA FiniteSelection ==
    ASSUME Advances!TypeOK, NEW S, S \subseteq DOMAIN payment
    PROVE  IsFiniteSet(S) /\ 0 \notin S
<1>1. IsFiniteSet(1 .. Len(payment))
  BY PaymentTable, FS_Interval
<1> QED
  BY <1>1, PaymentTable, FS_Subset

LEMMA SignsAre ==
    ASSUME NEW p, NEW S, IsFiniteSet(S), NEW h, \A i \in S : h[i] = SignedIn(p, i)
    PROVE  SignsIn(p, S) = Sum(h, S)
<1>1. PICK g : IsSum(g, h, S)
  BY SumExists
<1>2. g = [s \in SUBSET S |-> IF s = {} THEN 0 ELSE SignedIn(p, One(s)) + g[Rest(s)]]
  <2>1. \A s \in SUBSET S : s # {} => h[One(s)] = SignedIn(p, One(s))
    BY OneOf
  <2> QED
    BY <1>1, <2>1 DEF IsSum
<1>3. PICK f : /\ f = [s \in SUBSET S |-> IF s = {} THEN 0 ELSE SignedIn(p, One(s)) + f[Rest(s)]]
               /\ SignsIn(p, S) = f[S]
  BY <1>2 DEF One, Rest, SignsIn, Advances!MapThenSumSet, Advances!MapThenFoldSet
<1>4. IsSum(f, h, S)
  <2>1. \A s \in SUBSET S : s # {} => h[One(s)] = SignedIn(p, One(s))
    BY OneOf
  <2> QED
    BY <1>3, <2>1 DEF IsSum
<1> QED
  BY <1>3, <1>4, SumIs

LEMMA AmountsAre ==
    ASSUME NEW p, NEW S, IsFiniteSet(S), NEW h, \A i \in S : h[i] = p[i].amount
    PROVE  AmountsIn(p, S) = Sum(h, S)
<1>1. PICK g : IsSum(g, h, S)
  BY SumExists
<1>0. \A s \in SUBSET S : s # {} => h[One(s)] = p[One(s)].amount
  BY OneOf
<1>2. g = [s \in SUBSET S |-> IF s = {} THEN 0 ELSE p[One(s)].amount + g[Rest(s)]]
  BY <1>0, <1>1 DEF IsSum
<1>3. PICK f : /\ f = [s \in SUBSET S |-> IF s = {} THEN 0 ELSE p[One(s)].amount + f[Rest(s)]]
               /\ AmountsIn(p, S) = f[S]
  BY <1>2 DEF One, Rest, AmountsIn, Advances!MapThenSumSet, Advances!MapThenFoldSet
<1>4. IsSum(f, h, S)
  BY <1>0, <1>3 DEF IsSum
<1> QED
  BY <1>3, <1>4, SumIs

\* What is selected adds up to the same whatever is appended.
LEMMA SignsKept ==
    ASSUME NEW p, NEW q, NEW S, IsFiniteSet(S), \A i \in S : q[i] = p[i]
    PROVE  SignsIn(q, S) = SignsIn(p, S)
<1> DEFINE h == [i \in S |-> SignedIn(p, i)]
<1>1. \A i \in S : h[i] = SignedIn(p, i) /\ h[i] = SignedIn(q, i)
  BY DEF SignedIn
<1> HIDE DEF h
<1> QED
  BY <1>1, SignsAre

LEMMA SignsType ==
    ASSUME Advances!TypeOK, NEW S, S \subseteq DOMAIN payment
    PROVE  SignsIn(payment, S) \in Int
<1> DEFINE h == [i \in S |-> SignedIn(payment, i)]
<1>1. IsFiniteSet(S)
  BY FiniteSelection
<1>2. \A i \in S : h[i] = SignedIn(payment, i) /\ h[i] \in Int
  BY PaymentTable DEF SignedIn
<1> HIDE DEF h
<1> QED
  BY <1>1, <1>2, SignsAre, SumType

LEMMA IdleAdvance == AdvanceClaim(Advances!Idle)
  BY DEF AdvanceClaim, Advances!Idle

LEMMA InitAdvances == Advances!Init => AdvanceInv
<1> SUFFICES ASSUME Advances!Init PROVE AdvanceInv
  OBVIOUS
<1>1. Advances!TypeOK
  <2>1. payment \in Seq(Advances!Payment) /\ Len(payment) = 0
    BY EmptySeq DEF Advances!Init
  <2> QED
    BY <2>1, RecordsAssumption DEF Advances!Init, Advances!TypeOK, Advances!FirstAdvance
<1>2. DOMAIN payment = {}
  BY DEF Advances!Init
<1> QED
  BY <1>1, <1>2, IdleAdvance DEF Advances!Init, AdvanceInv, PaymentRows

\* What is claimed of a request stays true while payments are appended.
PaymentsGrow ==
    /\ DOMAIN payment \subseteq DOMAIN payment'
    /\ \A i \in DOMAIN payment : payment'[i] = payment[i]

LEMMA ConfirmsKept ==
    ASSUME Advances!TypeOK, PaymentsGrow, NEW row, Confirms(row)
    PROVE  Confirms(row)'
<1>1. row.selected \subseteq DOMAIN payment
  BY DEF Confirms
<1>2. \A i \in row.selected : payment'[i] = payment[i]
  BY <1>1 DEF PaymentsGrow
<1>3. SignsIn(payment', row.selected) = SignsIn(payment, row.selected)
  BY <1>1, <1>2, FiniteSelection, SignsKept
<1> QED
  BY <1>1, <1>3 DEF Confirms, PaymentsGrow

LEMMA AdvanceClaimKept ==
    ASSUME Advances!TypeOK, PaymentsGrow, NEW x, AdvanceClaim(x)
    PROVE  AdvanceClaim(x)'
<1>1. x.op = "reverse" =>
          x.original \in DOMAIN payment' /\ payment'[x.original].reverses = 0
  BY DEF AdvanceClaim, PaymentsGrow
<1>2. x.op \in {"sum", "version"} => x.period \in Period /\ x.selected \subseteq DOMAIN payment'
  BY DEF AdvanceClaim, PaymentsGrow
<1>3. x.op = "version" => x.total = SignsIn(payment', x.selected)
  <2> SUFFICES ASSUME x.op = "version" PROVE x.total = SignsIn(payment', x.selected)
    OBVIOUS
  <2>1. x.selected \subseteq DOMAIN payment /\ x.total = SignsIn(payment, x.selected)
    BY DEF AdvanceClaim
  <2>2. \A i \in x.selected : payment'[i] = payment[i]
    BY <2>1 DEF PaymentsGrow
  <2> QED
    BY <2>1, <2>2, FiniteSelection, SignsKept
<1>4. x.op = "confirm" => Confirms(x.row)'
  BY ConfirmsKept DEF AdvanceClaim
<1> QED
  BY <1>1, <1>2, <1>3, <1>4 DEF AdvanceClaim

\* A step of one request that appends at most a payment.
LEMMA AdvanceRequestStep ==
    ASSUME AdvanceInv, NEW s \in Session, NEW y, Advances!Continue(s, y),
           AdvanceClaim(y)', PaymentsGrow, Advances!TypeOK', PaymentRows',
           schedule \subseteq schedule',
           \A row \in reconciliation' \ reconciliation : Confirms(row)'
    PROVE  AdvanceInv'
<1>1. Advances!TypeOK
  BY DEF AdvanceInv
<1>2. \A row \in reconciliation' : Confirms(row)'
  BY <1>1, ConfirmsKept DEF AdvanceInv
<1>3. ASSUME NEW t \in Session PROVE AdvanceClaim(advanceRequest[t])'
  <2>1. PICK x : x = advanceRequest[t]
    OBVIOUS
  <2>2. AdvanceClaim(x)'
    BY <1>1, <2>1, AdvanceClaimKept DEF AdvanceInv
  <2>3. advanceRequest'[t] = IF t = s THEN y ELSE x
    BY <2>1 DEF Advances!Continue, AdvanceInv
  <2> QED
    BY <2>2, <2>3
<1>4. DOMAIN advanceRequest' = Session /\ Advances!FirstAdvance \in schedule'
  BY DEF Advances!Continue, AdvanceInv
<1> QED
  BY <1>2, <1>3, <1>4 DEF AdvanceInv, Advances!FirstAdvance

\* A step of one request that leaves the tables alone.
LEMMA AdvanceReadStep ==
    ASSUME AdvanceInv, NEW s \in Session, NEW y, Advances!Continue(s, y), AdvanceClaim(y),
           UNCHANGED <<payment, reconciliation, schedule>>
    PROVE  AdvanceInv'
<1>1. PaymentsGrow /\ Advances!TypeOK' /\ PaymentRows' /\ Advances!TypeOK
  BY DEF PaymentsGrow, AdvanceInv, Advances!TypeOK, PaymentRows
<1>2. AdvanceClaim(y)'
  BY <1>1, AdvanceClaimKept
<1> QED
  BY <1>1, <1>2, AdvanceRequestStep

LEMMA GiveUpAdvanceKeeps ==
    ASSUME AdvanceInv, NEW s \in Session, Advances!GiveUp(s)
    PROVE  AdvanceInv'
  BY IdleAdvance, AdvanceReadStep DEF Advances!GiveUp

LEMMA ReadOriginalKeeps ==
    ASSUME AdvanceInv, NEW s \in Session, NEW i \in DOMAIN payment, Advances!ReadOriginal(s, i)
    PROVE  AdvanceInv'
<1>1. AdvanceClaim([op |-> "reverse", original |-> i])
  BY DEF Advances!ReadOriginal, AdvanceClaim
<1> QED
  BY <1>1, AdvanceReadStep DEF Advances!ReadOriginal

LEMMA SelectAllocationsKeeps ==
    ASSUME AdvanceInv, NEW s \in Session, NEW p \in Period,
           NEW S \in SUBSET Advances!AllocationsOf(p), Advances!SelectAllocations(s, p, S)
    PROVE  AdvanceInv'
<1>1. AdvanceClaim([op |-> "sum", period |-> p, selected |-> S])
  BY DEF AdvanceClaim, Advances!AllocationsOf
<1> QED
  BY <1>1, AdvanceReadStep DEF Advances!SelectAllocations

LEMMA AddUpKeeps ==
    ASSUME AdvanceInv, NEW s \in Session, Advances!AddUp(s)
    PROVE  AdvanceInv'
<1>1. PICK r : r = advanceRequest[s]
  OBVIOUS
<1>2. r.op = "sum" /\ AdvanceClaim(r)
  BY <1>1 DEF Advances!AddUp, AdvanceInv
<1> DEFINE y == [op |-> "version", period |-> r.period, selected |-> r.selected,
                 total |-> SignsIn(payment, r.selected)]
<1>3. Advances!Continue(s, y)
  BY <1>1 DEF Advances!AddUp, Advances!Signed, SignsIn, SignedIn
<1>4. AdvanceClaim(y)
  BY <1>2 DEF AdvanceClaim
<1>5. UNCHANGED <<payment, reconciliation, schedule>>
  BY DEF Advances!AddUp
<1> HIDE DEF y
<1> QED
  BY <1>3, <1>4, <1>5, AdvanceReadStep

\* The greatest of some numbers up to a bound is one of them.
LEMMA MaxIs ==
    ASSUME NEW D, D \subseteq Int, D # {}, NEW n \in Int, \A d \in D : d <= n
    PROVE  /\ Advances!Max(D) \in D /\ Advances!Max(D) <= n
           /\ \A d \in D : d <= Advances!Max(D)
<1>1. PICK last \in D : \A d \in D : d <= last
  BY GreatestOf
<1>2. \E m \in D : \A d \in D : m >= d
  BY <1>1
<1>3. Advances!Max(D) \in D /\ \A d \in D : Advances!Max(D) >= d
  BY <1>2 DEF Advances!Max
<1> QED
  BY <1>3

LEMMA ReadLatestKeeps ==
    ASSUME AdvanceInv, NEW s \in Session, Advances!ReadLatest(s)
    PROVE  AdvanceInv'
<1>1. PICK r : r = advanceRequest[s]
  OBVIOUS
<1>2. r.op = "version" /\ AdvanceClaim(r)
  BY <1>1 DEF Advances!ReadLatest, AdvanceInv
<1> DEFINE D == {0} \cup Advances!VersionsOf(r.period)
           latest == Advances!Max(D)
<1>3. latest \in D /\ latest < MaxReconciliation
  <2>1. \A x \in reconciliation : x.version \in 1 .. MaxReconciliation
    BY DEF AdvanceInv, Advances!TypeOK, Advances!Reconciliation
  <2>2. D # {} /\ D \subseteq Int /\ \A d \in D : d <= MaxReconciliation
    BY <2>1, RecordsAssumption DEF Advances!VersionsOf
  <2>3. MaxReconciliation \in Int
    BY RecordsAssumption
  <2> HIDE DEF D
  <2>4. latest \in D
    BY <2>2, <2>3, MaxIs
  <2> QED
    BY <1>1, <2>4 DEF Advances!ReadLatest, D
<1>4. latest \in Nat /\ latest + 1 \in 1 .. MaxReconciliation /\ latest \in 0 .. MaxReconciliation
  <2>1. \A x \in reconciliation : x.version \in 1 .. MaxReconciliation
    BY DEF AdvanceInv, Advances!TypeOK, Advances!Reconciliation
  <2>2. D \subseteq Nat
    BY <2>1, RecordsAssumption DEF Advances!VersionsOf
  <2> HIDE DEF latest, D
  <2> QED
    BY <1>3, <2>2, RecordsAssumption
<1> DEFINE row == [period |-> r.period, version |-> latest + 1, total |-> r.total,
                   selected |-> r.selected, supersedes |-> latest]
<1>5. Advances!Continue(s, [op |-> "confirm", row |-> row])
  BY <1>1 DEF Advances!ReadLatest
<1> HIDE DEF latest
<1>6. Confirms(row)
  <2>1. r.period \in Period /\ r.selected \subseteq DOMAIN payment
        /\ r.total = SignsIn(payment, r.selected)
    BY <1>2 DEF AdvanceClaim
  <2>2. r.total \in Int
    BY <2>1, SignsType DEF AdvanceInv
  <2>3. DOMAIN payment \subseteq 1 .. MaxPayment
    BY PaymentTable, RecordsAssumption DEF AdvanceInv
  <2>4. row \in Advances!Reconciliation
    BY <1>4, <2>1, <2>2, <2>3 DEF Advances!Reconciliation
  <2> QED
    BY <2>1, <2>4 DEF Confirms
<1>7. AdvanceClaim([op |-> "confirm", row |-> row])
  BY <1>6 DEF AdvanceClaim
<1>8. UNCHANGED <<payment, reconciliation, schedule>>
  BY DEF Advances!ReadLatest
<1> HIDE DEF row
<1> QED
  BY <1>5, <1>7, <1>8, AdvanceReadStep

LEMMA InsertReconciliationKeeps ==
    ASSUME AdvanceInv, NEW s \in Session, Advances!InsertReconciliation(s)
    PROVE  AdvanceInv'
<1>1. PICK row : row = advanceRequest[s].row
  OBVIOUS
<1>2. Confirms(row)
  BY <1>1 DEF AdvanceInv, AdvanceClaim, Advances!InsertReconciliation
<1>3. /\ reconciliation' = reconciliation \cup {row} /\ UNCHANGED <<payment, schedule>>
      /\ Advances!Continue(s, Advances!Idle)
  BY <1>1 DEF Advances!InsertReconciliation
<1>4. PaymentsGrow /\ Advances!TypeOK' /\ PaymentRows' /\ Confirms(row)'
  BY <1>2, <1>3 DEF PaymentsGrow, AdvanceInv, Advances!TypeOK, PaymentRows, Confirms
<1>5. AdvanceClaim(Advances!Idle)'
  BY DEF AdvanceClaim, Advances!Idle
<1> QED
  BY <1>3, <1>4, <1>5, AdvanceRequestStep

LEMMA ReadPredecessorKeeps ==
    ASSUME AdvanceInv, NEW s \in Session, NEW day \in AdvanceStart, Advances!ReadPredecessor(s, day)
    PROVE  AdvanceInv'
<1> DEFINE D == {d \in Advances!Starts : d < day}
           row == [start |-> day, predecessor |-> Advances!Max(D)]
<1>1. \A a \in AdvanceStart : a \in Nat /\ 0 < a
  BY RecordsAssumption
<1>2. Advances!Starts \subseteq Nat /\ 0 \in Advances!Starts
  BY <1>1 DEF Advances!Starts, AdvanceInv, Advances!TypeOK, Advances!FirstAdvance
<1>3. Advances!Max(D) < day
  <2>1. day \in Int /\ 0 \in D
    BY <1>1, <1>2
  <2>2. \A d \in D : d \in Int /\ d < day
    BY <1>2
  <2> HIDE DEF D
  <2>3. D \subseteq Int /\ \A d \in D : d <= day
    BY <2>1, <2>2
  <2> QED
    BY <2>1, <2>2, <2>3, MaxIs
<1>4. AdvanceClaim([op |-> "succeed", row |-> row])
  BY <1>3 DEF AdvanceClaim
<1>5. /\ Advances!Continue(s, [op |-> "succeed", row |-> row])
      /\ UNCHANGED <<payment, reconciliation, schedule>>
  BY DEF Advances!ReadPredecessor
<1> HIDE DEF row
<1> QED
  BY <1>4, <1>5, AdvanceReadStep

LEMMA InsertSuccessorKeeps ==
    ASSUME AdvanceInv, NEW s \in Session, Advances!InsertSuccessor(s)
    PROVE  AdvanceInv'
<1>1. PICK row : row = advanceRequest[s].row
  OBVIOUS
<1>2. row.start \in {0} \cup AdvanceStart /\ row.predecessor < row.start
  BY <1>1 DEF AdvanceInv, AdvanceClaim, Advances!InsertSuccessor
<1>3. /\ schedule' = schedule \cup {row} /\ UNCHANGED <<payment, reconciliation>>
      /\ Advances!Continue(s, Advances!Idle)
  BY <1>1 DEF Advances!InsertSuccessor
<1>4. PaymentsGrow /\ Advances!TypeOK' /\ PaymentRows'
  BY <1>2, <1>3 DEF PaymentsGrow, AdvanceInv, Advances!TypeOK, PaymentRows
<1>5. AdvanceClaim(Advances!Idle)'
  BY DEF AdvanceClaim, Advances!Idle
<1> QED
  BY <1>3, <1>4, <1>5, AdvanceRequestStep

\* A payment is appended: one of its own, or the first reversal of another.
LEMMA AppendPayment ==
    ASSUME AdvanceInv, Len(payment) < MaxPayment, NEW row \in Advances!Payment,
           payment' = Append(payment, row), UNCHANGED <<reconciliation, schedule>>,
           row.reverses # 0 =>
               /\ row.reverses \in DOMAIN payment
               /\ payment[row.reverses].reverses = 0
               /\ payment[row.reverses].amount = row.amount
               /\ \A j \in DOMAIN payment : payment[j].reverses # row.reverses
    PROVE  PaymentsGrow /\ Advances!TypeOK' /\ PaymentRows'
<1>1. /\ payment' \in Seq(Advances!Payment) /\ Len(payment') = Len(payment) + 1
      /\ DOMAIN payment' = DOMAIN payment \cup {Len(payment) + 1}
      /\ Len(payment) + 1 \notin DOMAIN payment
      /\ \A i \in DOMAIN payment : payment'[i] = payment[i]
      /\ payment'[Len(payment) + 1] = row
  BY PaymentTable, AppendProperties DEF AdvanceInv
<1>2. PaymentsGrow
  BY <1>1 DEF PaymentsGrow
<1>3. Advances!TypeOK'
  <2>1. Len(payment') <= MaxPayment
    BY <1>1, PaymentTable, RecordsAssumption DEF AdvanceInv
  <2> QED
    BY <1>1, <2>1 DEF AdvanceInv, Advances!TypeOK
<1>4. PaymentRows'
  <2> DEFINE n == Len(payment) + 1
  <2> HIDE DEF n
  <2>1. DOMAIN payment' = DOMAIN payment \cup {n} /\ payment'[n] = row
    BY <1>1 DEF n
  <2>2. ASSUME NEW i \in DOMAIN payment', payment'[i].reverses # 0
        PROVE  /\ payment'[i].reverses \in DOMAIN payment'
               /\ payment'[payment'[i].reverses].reverses = 0
               /\ payment'[payment'[i].reverses].amount = payment'[i].amount
    BY <1>1, <2>1, <2>2 DEF AdvanceInv, PaymentRows
  <2>3. ASSUME NEW i \in DOMAIN payment', NEW j \in DOMAIN payment',
               payment'[i].reverses # 0, payment'[i].reverses = payment'[j].reverses
        PROVE  i = j
    BY <1>1, <2>1, <2>3 DEF AdvanceInv, PaymentRows
  <2> QED
    BY <2>2, <2>3 DEF PaymentRows
<1> QED
  BY <1>2, <1>3, <1>4

LEMMA CreatePaymentKeeps ==
    ASSUME AdvanceInv, NEW s \in Session, NEW p \in Period, NEW a \in Amount,
           Advances!CreatePayment(s, p, a)
    PROVE  AdvanceInv'
<1> DEFINE row == [period |-> p, amount |-> a, reverses |-> 0]
<1>1. row \in Advances!Payment /\ row.reverses = 0
  BY RecordsAssumption DEF Advances!Payment
<1>2. /\ payment' = Append(payment, row) /\ Len(payment) < MaxPayment
      /\ UNCHANGED <<reconciliation, schedule, advanceRequest>>
  BY DEF Advances!CreatePayment
<1> HIDE DEF row
<1>3. PaymentsGrow /\ Advances!TypeOK' /\ PaymentRows'
  BY <1>1, <1>2, AppendPayment
<1>4. Advances!TypeOK
  BY DEF AdvanceInv
<1>5. \A x : AdvanceClaim(x) => AdvanceClaim(x)'
  BY <1>3, <1>4, AdvanceClaimKept
<1>6. \A r : Confirms(r) => Confirms(r)'
  BY <1>3, <1>4, ConfirmsKept
<1> QED
  BY <1>2, <1>3, <1>5, <1>6 DEF AdvanceInv, Advances!FirstAdvance

LEMMA InsertReversalKeeps ==
    ASSUME AdvanceInv, NEW s \in Session, Advances!InsertReversal(s)
    PROVE  AdvanceInv'
<1>1. PICK i : i = advanceRequest[s].original
  OBVIOUS
<1>2. i \in DOMAIN payment /\ payment[i].reverses = 0
  BY <1>1 DEF AdvanceInv, AdvanceClaim, Advances!InsertReversal
<1> DEFINE row == [payment[i] EXCEPT !.reverses = i]
<1>3. /\ Len(payment) < MaxPayment /\ payment' = Append(payment, row)
      /\ \A j \in DOMAIN payment : payment[j].reverses # i
      /\ Advances!Continue(s, Advances!Idle) /\ UNCHANGED <<reconciliation, schedule>>
  BY <1>1 DEF Advances!InsertReversal, Advances!NotYetReversed
<1>4. row \in Advances!Payment /\ row.reverses = i /\ row.amount = payment[i].amount
  <2>1. payment[i] \in Advances!Payment /\ i \in 0 .. MaxPayment
    BY <1>2, PaymentTable, RecordsAssumption DEF AdvanceInv
  <2> QED
    BY <2>1 DEF Advances!Payment
<1> HIDE DEF row
<1>5. PaymentsGrow /\ Advances!TypeOK' /\ PaymentRows'
  BY <1>2, <1>3, <1>4, AppendPayment
<1>6. AdvanceClaim(Advances!Idle)'
  BY DEF AdvanceClaim, Advances!Idle
<1> QED
  BY <1>3, <1>5, <1>6, AdvanceRequestStep

LEMMA AdvanceStep == AdvanceInv /\ [Advances!Next]_advancesVars => AdvanceInv'
<1> SUFFICES ASSUME AdvanceInv, [Advances!Next]_advancesVars PROVE AdvanceInv'
  OBVIOUS
<1>1. ASSUME NEW s \in Session, NEW p \in Period, NEW a \in Amount, Advances!CreatePayment(s, p, a)
      PROVE  AdvanceInv'
  BY <1>1, CreatePaymentKeeps
<1>2. ASSUME NEW s \in Session, NEW i \in DOMAIN payment, Advances!ReadOriginal(s, i)
      PROVE  AdvanceInv'
  BY <1>2, ReadOriginalKeeps
<1>3. ASSUME NEW s \in Session, Advances!InsertReversal(s)
      PROVE  AdvanceInv'
  BY <1>3, InsertReversalKeeps
<1>4. ASSUME NEW s \in Session, NEW p \in Period, NEW S \in SUBSET Advances!AllocationsOf(p),
             Advances!SelectAllocations(s, p, S)
      PROVE  AdvanceInv'
  BY <1>4, SelectAllocationsKeeps
<1>5. ASSUME NEW s \in Session,
             Advances!AddUp(s) \/ Advances!ReadLatest(s) \/ Advances!InsertReconciliation(s)
      PROVE  AdvanceInv'
  BY <1>5, AddUpKeeps, ReadLatestKeeps, InsertReconciliationKeeps
<1>6. ASSUME NEW s \in Session, NEW day \in AdvanceStart, Advances!ReadPredecessor(s, day)
      PROVE  AdvanceInv'
  BY <1>6, ReadPredecessorKeeps
<1>7. ASSUME NEW s \in Session, Advances!InsertSuccessor(s) \/ Advances!GiveUp(s)
      PROVE  AdvanceInv'
  BY <1>7, InsertSuccessorKeeps, GiveUpAdvanceKeeps
<1>8. CASE UNCHANGED advancesVars
  <2>1. UNCHANGED <<payment, reconciliation, schedule, advanceRequest>>
    BY <1>8 DEF advancesVars
  <2> QED
    BY <2>1 DEF AdvanceInv, Advances!TypeOK, PaymentRows, Confirms, AdvanceClaim, Advances!FirstAdvance
<1> QED
  BY <1>1, <1>2, <1>3, <1>4, <1>5, <1>6, <1>7, <1>8 DEF Advances!Next

\* Whichever requests ran at the same time, the total of a reconciliation is
\* the sum of the selected payments that no selected reversal takes back
\* (advances.py, and the single-reversal trigger of migration 0015).
THEOREM AdvancesAlwaysAddUp == RecordsSpec => []AdvancesAddUp
<1>1. RecordsInit => AdvanceInv
  BY InitAdvances DEF RecordsInit
<1>2. AdvanceInv /\ [RecordsNext]_RecordsVars => AdvanceInv'
  <2>1. [RecordsNext]_RecordsVars => [Advances!Next]_advancesVars
    BY DEF RecordsNext, RecordsVars
  <2> QED
    BY <2>1, AdvanceStep
<1>3. AdvanceInv => AdvancesAddUp
  <2> SUFFICES ASSUME AdvanceInv, NEW r \in reconciliation,
                      \A i \in r.selected : payment[i].reverses \in {0} \cup r.selected
               PROVE  r.total = Advances!MapThenSumSet(LAMBDA i : payment[i].amount,
                                                       Advances!Standing(r.selected))
    BY DEF AdvancesAddUp, Advances!AdvancesAddUp
  <2>1. PICK S : S = r.selected
    OBVIOUS
  <2> DEFINE h == [i \in S |-> SignedIn(payment, i)]
             a == [i \in S |-> payment[i].amount]
             back == [i \in S |-> payment[i].reverses]
             standing == {i \in S : back[i] = 0 /\ \A j \in S : back[j] # i}
  <2>2. S \subseteq DOMAIN payment /\ IsFiniteSet(S) /\ 0 \notin S
    BY <2>1, FiniteSelection DEF AdvanceInv, Confirms
  <2>3. \A i \in S : a[i] \in Int /\ h[i] = IF back[i] # 0 THEN -a[i] ELSE a[i]
    BY <2>2, PaymentTable DEF AdvanceInv, SignedIn
  <2>4. \A i \in S : back[i] # 0 => back[i] \in S /\ back[back[i]] = 0 /\ a[back[i]] = a[i]
    BY <2>1, <2>2 DEF AdvanceInv, PaymentRows
  <2>5. \A i, j \in S : back[i] # 0 /\ back[i] = back[j] => i = j
    BY <2>2 DEF AdvanceInv, PaymentRows
  <2>6. standing = Advances!Standing(S) /\ standing \subseteq S
    BY DEF Advances!Standing
  <2>7. /\ \A i \in S : h[i] = SignedIn(payment, i)
        /\ \A i \in standing : a[i] = payment[i].amount
    OBVIOUS
  <2>8. Sum(h, S) = Sum(a, standing)
    <3> HIDE DEF h, a, back
    <3> QED
      BY <2>2, <2>3, <2>4, <2>5, PairsCancel
  <2>9. SignsIn(payment, S) = Sum(h, S)
    <3> HIDE DEF h
    <3> QED
      BY <2>2, <2>7, SignsAre
  <2>10. AmountsIn(payment, standing) = Sum(a, standing)
    <3>1. IsFiniteSet(standing)
      BY <2>2, <2>6, FS_Subset
    <3> HIDE DEF a, standing
    <3> QED
      BY <2>7, <3>1, AmountsAre
  <2>11. r.total = SignsIn(payment, S)
    BY <2>1 DEF AdvanceInv, Confirms
  <2> HIDE DEF h, a, back, standing
  <2> QED
    BY <2>1, <2>6, <2>8, <2>9, <2>10, <2>11 DEF AmountsIn
<1> QED
  BY <1>1, <1>2, <1>3, PTL DEF RecordsSpec

-----------------------------------------------------------------------------
(* GuardRuns: what a request has added and not committed is apart from     *)
(* what is committed and from what the others have added.                  *)

RunOps == {"evaluate", "insert", "remind", "notify"}

\* An occurrence: only W8 finds a unit empty.
OccurrenceRow == {o \in Guards!EvaluationRow : o.stage = "vacancy" => o.guard = "W8"}

ReminderOf(key) == [guard |-> "W8", key |-> key]

OneEvaluationEach(q) ==
    \A i, j \in DOMAIN q : Guards!SameOccurrence(q[i], q[j]) => i = j

OneReminderEach(q) == \A i, j \in DOMAIN q : q[i].key = q[j].key => i = j

\* No row of q is in p.
NewEvaluations(p, q) == \A i \in DOMAIN q : ~Guards!HasEvaluation(p, q[i])

NewReminders(p, q) == \A i \in DOMAIN q : ~Guards!HasReminder(p, q[i].key)

Run ==
    [op : RunOps, todo : Seq(OccurrenceRow),
     evaluations : Seq(Guards!EvaluationRow), reminders : Seq(Guards!ReminderRow)]

\* What a run has added, and what it has read of its next occurrence.
RunShape(x) ==
    /\ x \in Run /\ (x.op # "evaluate" => x.todo # <<>>)
    /\ OneEvaluationEach(x.evaluations) /\ OneReminderEach(x.reminders)
    /\ x.op = "insert" => ~Guards!HasEvaluation(x.evaluations, Head(x.todo))
    /\ x.op = "notify" => /\ ~Guards!HasReminder(x.reminders, Head(x.todo).key)
                          /\ Head(x.todo).stage = "vacancy"

\* The same beside what is committed: e are evaluations, r reminders.
RunBeside(x, e, r) ==
    /\ NewEvaluations(e, x.evaluations) /\ NewReminders(r, x.reminders)
    /\ x.op \in {"remind", "notify"} =>
          Guards!HasEvaluation(e, Head(x.todo)) \/ Guards!HasEvaluation(x.evaluations, Head(x.todo))
    /\ \A i \in DOMAIN x.evaluations : x.evaluations[i].stage = "vacancy" =>
          \/ Guards!HasReminder(r, x.evaluations[i].key)
          \/ Guards!HasReminder(x.reminders, x.evaluations[i].key)
          \/ x.op \in {"remind", "notify"} /\ Head(x.todo) = x.evaluations[i]
    /\ \A j \in DOMAIN x.reminders :
          \/ Guards!HasEvaluation(e, ReminderOf(x.reminders[j].key))
          \/ Guards!HasEvaluation(x.evaluations, ReminderOf(x.reminders[j].key))

\* Two requests that run at once.
Apart(x, y) ==
    x.op \in RunOps /\ y.op \in RunOps =>
        /\ NewEvaluations(x.evaluations, y.evaluations)
        /\ NewReminders(x.reminders, y.reminders)

GuardClaim(x) ==
    /\ x.op \in RunOps => RunShape(x) /\ RunBeside(x, evaluation, reminder)
    /\ x.op = "complete" => x.row \in Guards!ItemEventRow

\* What is committed.
Committed(e, r) ==
    /\ e \in Seq(Guards!EvaluationRow) /\ r \in Seq(Guards!ReminderRow)
    /\ OneEvaluationEach(e) /\ OneReminderEach(r)
    /\ \A i \in DOMAIN e : e[i].stage = "vacancy" => Guards!HasReminder(r, e[i].key)
    /\ \A j \in DOMAIN r : Guards!HasEvaluation(e, ReminderOf(r[j].key))

ItemRows ==
    /\ itemEvent \in Seq(Guards!ItemEventRow)
    /\ \A i, j \in DOMAIN itemEvent : itemEvent[i].key = itemEvent[j].key => i = j
    /\ shown \subseteq [entry : Entry, key : ItemKey, event : DOMAIN itemEvent]
    /\ \A a \in shown : itemEvent[a.event] = [entry |-> a.entry, key |-> a.key]

GuardInv ==
    /\ situation \in [Guards!Unit -> Guards!Situation]
    /\ Committed(evaluation, reminder) /\ ItemRows
    /\ DOMAIN guardRequest = Session
    /\ \A s \in Session : GuardClaim(guardRequest[s])
    /\ \A s, t \in Session : s # t => Apart(guardRequest[s], guardRequest[t])

-----------------------------------------------------------------------------
(* Sequences put together.                                                 *)

LEMMA ConcatElements ==
    ASSUME NEW T, NEW p \in Seq(T), NEW q \in Seq(T)
    PROVE  /\ p \o q \in Seq(T) /\ Len(p) \in Nat /\ Len(q) \in Nat
           /\ DOMAIN p = 1 .. Len(p) /\ DOMAIN q = 1 .. Len(q)
           /\ DOMAIN (p \o q) = 1 .. Len(p) + Len(q)
           /\ \A i \in DOMAIN p : i \in DOMAIN (p \o q) /\ (p \o q)[i] = p[i]
           /\ \A j \in DOMAIN q : /\ Len(p) + j \in DOMAIN (p \o q)
                                  /\ (p \o q)[Len(p) + j] = q[j]
           /\ \A i \in DOMAIN (p \o q) :
                 \/ i \in DOMAIN p /\ (p \o q)[i] = p[i]
                 \/ i - Len(p) \in DOMAIN q /\ (p \o q)[i] = q[i - Len(p)]
<1>1. /\ p \o q \in Seq(T) /\ Len(p) \in Nat /\ Len(q) \in Nat
      /\ DOMAIN p = 1 .. Len(p) /\ DOMAIN q = 1 .. Len(q)
      /\ Len(p \o q) = Len(p) + Len(q)
      /\ \A i \in 1 .. Len(p) + Len(q) :
            (p \o q)[i] = IF i <= Len(p) THEN p[i] ELSE q[i - Len(p)]
  BY ConcatProperties, LenProperties
<1>2. DOMAIN (p \o q) = 1 .. Len(p) + Len(q)
  BY <1>1, LenProperties
<1> QED
  BY <1>1, <1>2

IsFlat(f, q, n) == f = [i \in 1 .. n |-> IF i = 1 THEN q[i] ELSE f[i - 1] \o q[i]]

LEMMA FlatExists ==
    ASSUME NEW q, NEW n \in Nat
    PROVE  \E f : IsFlat(f, q, n)
<1> DEFINE D == {k \in 0 .. n : ~ \E f : IsFlat(f, q, k)}
<1>1. SUFFICES ASSUME D # {} PROVE FALSE
  <2>1. n \in 0 .. n
    OBVIOUS
  <2> QED
    BY <1>1, <2>1
<1>2. PICK k \in D : \A e \in D : k <= e
  <2>1. D \subseteq Nat
    OBVIOUS
  <2> HIDE DEF D
  <2> QED
    BY <1>1, <2>1, LeastOf
<1>3. k \in 0 .. n /\ ~ \E f : IsFlat(f, q, k)
  OBVIOUS
<1>4. CASE k = 0
  <2> DEFINE none == [i \in 1 .. 0 |-> q[i]]
  <2>1. IsFlat(none, q, 0)
    BY DEF IsFlat
  <2> QED
    BY <1>3, <1>4, <2>1
<1>5. CASE k # 0
  <2>1. k - 1 \in 0 .. n /\ ~(k <= k - 1)
    BY <1>3, <1>5
  <2>2. k - 1 \notin D
    <3> HIDE DEF D
    <3> QED
      BY <1>2, <2>1
  <2>3. PICK f : IsFlat(f, q, k - 1)
    BY <2>1, <2>2
  <2> HIDE DEF D
  <2> DEFINE g == [i \in 1 .. k |-> IF i = 1 THEN q[i] ELSE f[i - 1] \o q[i]]
  <2>4. \A i \in 1 .. k : i # 1 => i - 1 \in 1 .. k - 1 /\ i - 1 \in 1 .. k
    BY <1>3
  <2>5. \A i \in 1 .. k - 1 : f[i] = IF i = 1 THEN q[i] ELSE f[i - 1] \o q[i]
    <3> HIDE DEF g
    <3> QED
      BY <2>3 DEF IsFlat
  <2>6. \A i \in 1 .. k - 1 : g[i] = f[i]
    <3>1. \A i \in 1 .. k - 1 : i \in 1 .. k
      BY <1>3
    <3> QED
      BY <2>5, <3>1
  <2>7. \A i \in 1 .. k : i # 1 => g[i - 1] = f[i - 1]
    BY <2>4, <2>6
  <2>8. IsFlat(g, q, k)
    <3>1. \A i \in 1 .. k : g[i] = IF i = 1 THEN q[i] ELSE g[i - 1] \o q[i]
      BY <2>7
    <3>2. g = [i \in 1 .. k |-> g[i]]
      OBVIOUS
    <3> HIDE DEF g
    <3> QED
      BY <3>1, <3>2 DEF IsFlat
  <2> QED
    BY <1>3, <2>8
<1> QED
  BY <1>4, <1>5

\* A flattened sequence has elements of what it was flattened from.
LEMMA FlattenType ==
    ASSUME NEW T, NEW n \in Nat, NEW q \in [1 .. n -> Seq(T)]
    PROVE  Guards!FlattenSeq(q) \in Seq(T)
<1>1. q \in Seq(Seq(T)) /\ Len(q) = n
  BY SeqDef, LenProperties
<1>2. CASE n = 0
  <2>1. q = <<>>
    BY <1>1, <1>2, EmptySeq
  <2> QED
    BY <1>1, <1>2, <2>1, EmptySeq DEF Guards!FlattenSeq
<1>3. CASE n # 0
  <2>1. \E f : IsFlat(f, q, n)
    BY FlatExists
  <2>2. PICK f : IsFlat(f, q, n) /\ Guards!FlattenSeq(q) = f[n]
    BY <1>1, <1>3, <2>1 DEF IsFlat, Guards!FlattenSeq
  <2> DEFINE E == {m \in 1 .. n : f[m] \notin Seq(T)}
  <2>3. SUFFICES ASSUME E # {} PROVE FALSE
    <3>1. n \in 1 .. n
      BY <1>3
    <3> QED
      BY <2>2, <2>3, <3>1
  <2>4. PICK m \in E : \A e \in E : m <= e
    <3>1. E \subseteq Nat
      OBVIOUS
    <3> HIDE DEF E
    <3> QED
      BY <2>3, <3>1, LeastOf
  <2>5. m \in 1 .. n /\ f[m] \notin Seq(T) /\ q[m] \in Seq(T)
    OBVIOUS
  <2>6. f[m] = IF m = 1 THEN q[m] ELSE f[m - 1] \o q[m]
    BY <2>2, <2>5 DEF IsFlat
  <2>7. m # 1
    BY <2>5, <2>6
  <2>8. m - 1 \in 1 .. n /\ ~(m <= m - 1)
    BY <2>5, <2>7
  <2>9. m - 1 \notin E
    <3> HIDE DEF E
    <3> QED
      BY <2>4, <2>8
  <2>10. f[m - 1] \in Seq(T)
    BY <2>8, <2>9
  <2> HIDE DEF E
  <2> QED
    BY <2>5, <2>6, <2>7, <2>10, ConcatProperties
<1> QED
  BY <1>2, <1>3

-----------------------------------------------------------------------------
(* The rows of a run.                                                      *)

LEMMA HasInBoth ==
    ASSUME NEW T, NEW p \in Seq(T), NEW q \in Seq(T)
    PROVE  /\ \A o : Guards!HasEvaluation(p \o q, o)
                        <=> Guards!HasEvaluation(p, o) \/ Guards!HasEvaluation(q, o)
           /\ \A key : Guards!HasReminder(p \o q, key)
                        <=> Guards!HasReminder(p, key) \/ Guards!HasReminder(q, key)
<1>1. /\ \A i \in DOMAIN p : i \in DOMAIN (p \o q) /\ (p \o q)[i] = p[i]
      /\ \A j \in DOMAIN q : Len(p) + j \in DOMAIN (p \o q) /\ (p \o q)[Len(p) + j] = q[j]
      /\ \A i \in DOMAIN (p \o q) :
            \/ i \in DOMAIN p /\ (p \o q)[i] = p[i]
            \/ i - Len(p) \in DOMAIN q /\ (p \o q)[i] = q[i - Len(p)]
  BY ConcatElements
<1>2. ASSUME NEW o
      PROVE  Guards!HasEvaluation(p \o q, o)
                <=> Guards!HasEvaluation(p, o) \/ Guards!HasEvaluation(q, o)
  BY <1>1, Zenon DEF Guards!HasEvaluation
<1>3. ASSUME NEW key
      PROVE  Guards!HasReminder(p \o q, key)
                <=> Guards!HasReminder(p, key) \/ Guards!HasReminder(q, key)
  BY <1>1, Zenon DEF Guards!HasReminder
<1> QED
  BY <1>2, <1>3

\* What is apart may be put together.
LEMMA OneEachInBoth ==
    ASSUME NEW T, NEW p \in Seq(T), NEW q \in Seq(T)
    PROVE  /\ OneEvaluationEach(p) /\ OneEvaluationEach(q) /\ NewEvaluations(p, q)
                 => OneEvaluationEach(p \o q)
           /\ OneReminderEach(p) /\ OneReminderEach(q) /\ NewReminders(p, q)
                 => OneReminderEach(p \o q)
<1> DEFINE r == p \o q
<1>1. /\ Len(p) \in Nat /\ DOMAIN r \subseteq Int
      /\ \A i \in DOMAIN r : \/ i \in DOMAIN p /\ r[i] = p[i]
                             \/ i - Len(p) \in DOMAIN q /\ r[i] = q[i - Len(p)]
  BY ConcatElements
<1> HIDE DEF r
<1>2. ASSUME OneEvaluationEach(p), OneEvaluationEach(q), NewEvaluations(p, q),
             NEW i \in DOMAIN r, NEW j \in DOMAIN r, Guards!SameOccurrence(r[i], r[j])
      PROVE  i = j
  <2>1. CASE i \in DOMAIN p /\ r[i] = p[i] /\ j \in DOMAIN p /\ r[j] = p[j]
    BY <1>2, <2>1 DEF OneEvaluationEach
  <2>2. CASE i - Len(p) \in DOMAIN q /\ r[i] = q[i - Len(p)]
             /\ j - Len(p) \in DOMAIN q /\ r[j] = q[j - Len(p)]
    <3>1. i - Len(p) = j - Len(p)
      BY <1>2, <2>2 DEF OneEvaluationEach
    <3> QED
      BY <1>1, <3>1
  <2>3. CASE i \in DOMAIN p /\ r[i] = p[i] /\ j - Len(p) \in DOMAIN q /\ r[j] = q[j - Len(p)]
    BY <1>2, <2>3 DEF NewEvaluations, Guards!HasEvaluation, Guards!SameOccurrence
  <2>4. CASE j \in DOMAIN p /\ r[j] = p[j] /\ i - Len(p) \in DOMAIN q /\ r[i] = q[i - Len(p)]
    BY <1>2, <2>4 DEF NewEvaluations, Guards!HasEvaluation, Guards!SameOccurrence
  <2> QED
    BY <1>1, <2>1, <2>2, <2>3, <2>4
<1>3. ASSUME OneReminderEach(p), OneReminderEach(q), NewReminders(p, q),
             NEW i \in DOMAIN r, NEW j \in DOMAIN r, r[i].key = r[j].key
      PROVE  i = j
  <2>1. CASE i \in DOMAIN p /\ r[i] = p[i] /\ j \in DOMAIN p /\ r[j] = p[j]
    BY <1>3, <2>1 DEF OneReminderEach
  <2>2. CASE i - Len(p) \in DOMAIN q /\ r[i] = q[i - Len(p)]
             /\ j - Len(p) \in DOMAIN q /\ r[j] = q[j - Len(p)]
    <3>1. i - Len(p) = j - Len(p)
      BY <1>3, <2>2 DEF OneReminderEach
    <3> QED
      BY <1>1, <3>1
  <2>3. CASE i \in DOMAIN p /\ r[i] = p[i] /\ j - Len(p) \in DOMAIN q /\ r[j] = q[j - Len(p)]
    BY <1>3, <2>3 DEF NewReminders, Guards!HasReminder
  <2>4. CASE j \in DOMAIN p /\ r[j] = p[j] /\ i - Len(p) \in DOMAIN q /\ r[i] = q[i - Len(p)]
    BY <1>3, <2>4 DEF NewReminders, Guards!HasReminder
  <2> QED
    BY <1>1, <2>1, <2>2, <2>3, <2>4
<1> QED
  BY <1>2, <1>3 DEF OneEvaluationEach, OneReminderEach, r

LEMMA IdleGuard == GuardClaim(Guards!Idle) /\ Guards!Idle.op \notin RunOps
  BY DEF GuardClaim, Guards!Idle, RunOps

LEMMA InitGuards == Guards!Init => GuardInv
<1> SUFFICES ASSUME Guards!Init PROVE GuardInv
  OBVIOUS
<1>1. /\ evaluation = <<>> /\ reminder = <<>> /\ itemEvent = <<>> /\ shown = {}
      /\ \A T : <<>> \in Seq(T)
      /\ DOMAIN evaluation = {} /\ DOMAIN reminder = {} /\ DOMAIN itemEvent = {}
  BY EmptySeq DEF Guards!Init
<1>2. Committed(evaluation, reminder)
  BY <1>1, Zenon DEF Committed, OneEvaluationEach, OneReminderEach
<1>3. ItemRows
  BY <1>1, Zenon DEF ItemRows
<1>4. \A s \in Session : guardRequest[s] = Guards!Idle
  BY DEF Guards!Init
<1> QED
  BY <1>2, <1>3, <1>4, IdleGuard DEF Guards!Init, GuardInv, Apart

\* A step of one request that leaves the tables alone.
LEMMA GuardRequestStep ==
    ASSUME GuardInv, NEW s \in Session, NEW y, Guards!Continue(s, y), GuardClaim(y),
           \A t \in Session \ {s} : Apart(y, guardRequest[t]) /\ Apart(guardRequest[t], y),
           UNCHANGED <<situation, evaluation, reminder, itemEvent>>,
           ItemRows'
    PROVE  GuardInv'
<1>1. \A t \in Session : guardRequest'[t] = IF t = s THEN y ELSE guardRequest[t]
  BY DEF Guards!Continue, GuardInv
<1>2. DOMAIN guardRequest' = Session
  BY DEF Guards!Continue, GuardInv
<1>3. \A x : GuardClaim(x)' <=> GuardClaim(x)
  BY DEF GuardClaim
<1>4. \A t \in Session : GuardClaim(guardRequest'[t])
  BY <1>1 DEF GuardInv
<1>5. \A t, u \in Session : t # u => Apart(guardRequest'[t], guardRequest'[u])
  BY <1>1 DEF GuardInv
<1>6. \A t \in Session : GuardClaim(guardRequest[t])'
  BY <1>3, <1>4
<1> QED
  BY <1>2, <1>5, <1>6 DEF GuardInv

LEMMA FailKeeps ==
    ASSUME GuardInv, NEW s \in Session, Guards!Fail(s)
    PROVE  GuardInv'
<1>1. ItemRows'
  BY DEF GuardInv, ItemRows, Guards!Fail
<1>2. \A x : Apart(Guards!Idle, x) /\ Apart(x, Guards!Idle)
  BY IdleGuard DEF Apart
<1> QED
  BY <1>1, <1>2, IdleGuard, GuardRequestStep DEF Guards!Fail

LEMMA ChangeTenanciesKeeps ==
    ASSUME GuardInv, NEW u \in Guards!Unit, Guards!ChangeTenancies(u)
    PROVE  GuardInv'
<1>1. situation' \in [Guards!Unit -> Guards!Situation]
  BY DEF GuardInv, Guards!ChangeTenancies
<1>2. UNCHANGED <<evaluation, reminder, itemEvent, shown, guardRequest>>
  BY DEF Guards!ChangeTenancies
<1> QED
  BY <1>1, <1>2 DEF GuardInv, ItemRows, GuardClaim

LEMMA OccurrencesType ==
    ASSUME GuardInv, NEW x \in Source, NEW day \in GuardDay
    PROVE  Guards!Occurrences(x, day) \in Seq(OccurrenceRow)
<1>1. <<x, day>> \in Guards!OccurrenceKey /\ <<x, 0>> \in Guards!OccurrenceKey
  BY DEF Guards!OccurrenceKey
<1>2. \A g \in Guards!Guard, key \in Guards!OccurrenceKey :
          Guards!Blocked(g, key) \in OccurrenceRow
  BY DEF Guards!Blocked, OccurrenceRow, Guards!EvaluationRow, Guards!Stage
<1>3. CASE KindOf[x] = "unit"
  <2>1. Guards!VacancyStage(x) \in Guards!Stage
    <3>1. situation[x] \in Guards!Situation
      BY <1>3 DEF GuardInv, Guards!Unit
    <3> QED
      BY <3>1 DEF Guards!VacancyStage, Guards!Stage, Guards!Situation
  <2>2. [guard |-> "W8", key |-> <<x, day>>, stage |-> Guards!VacancyStage(x)] \in OccurrenceRow
    BY <1>1, <2>1 DEF OccurrenceRow, Guards!EvaluationRow, Guards!Guard
  <2> QED
    BY <1>3, <2>2 DEF Guards!Occurrences
<1>4. CASE KindOf[x] # "unit"
  <2>1. {"W1", "W2", "W3", "W4", "W5", "W6", "W7"} \subseteq Guards!Guard
    BY DEF Guards!Guard
  <2>2. \A g \in {"W1", "W2", "W3", "W4", "W5", "W6", "W7"} :
           /\ Guards!Blocked(g, <<x, day>>) \in OccurrenceRow
           /\ Guards!Blocked(g, <<x, 0>>) \in OccurrenceRow
    BY <1>1, <1>2, <2>1
  <2>3. CASE KindOf[x] \in {"annual_artifact", "uvi_artifact", "statement", "meter"}
    BY <2>2, <2>3 DEF Guards!Occurrences
  <2>4. CASE KindOf[x] = "tenancy"
    BY <2>2, <2>4 DEF Guards!Occurrences
  <2>5. CASE KindOf[x] \notin {"unit", "annual_artifact", "uvi_artifact", "statement",
                               "meter", "tenancy"}
    BY <2>5, EmptySeq DEF Guards!Occurrences
  <2> QED
    BY <1>4, <2>3, <2>4, <2>5
<1> QED
  BY <1>3, <1>4

LEMMA ResolveSourcesKeeps ==
    ASSUME GuardInv, NEW s \in Session, NEW q \in Guards!Requests, NEW day \in GuardDay,
           Guards!ResolveSources(s, q, day)
    PROVE  GuardInv'
<1> DEFINE parts == [i \in DOMAIN q |-> Guards!Occurrences(q[i], day)]
           y == [op |-> "evaluate", evaluations |-> <<>>, reminders |-> <<>>,
                 todo |-> Guards!FlattenSeq(parts)]
<1>1. PICK n \in Nat : q \in [1 .. n -> Source]
  <2>1. q \in UNION {[1 .. m -> Source] : m \in 0 .. Asked}
    BY DEF Guards!Requests, Guards!BoundedSeq, Guards!SeqOf
  <2>2. \A m \in 0 .. Asked : m \in Nat
    OBVIOUS
  <2> QED
    BY <2>1, <2>2
<1>2. parts \in [1 .. n -> Seq(OccurrenceRow)]
  <2>1. \A i \in 1 .. n : Guards!Occurrences(q[i], day) \in Seq(OccurrenceRow)
    BY <1>1, OccurrencesType
  <2> QED
    BY <1>1, <2>1
<1>3. Guards!FlattenSeq(parts) \in Seq(OccurrenceRow)
  <2> HIDE DEF parts
  <2> QED
    BY <1>2, FlattenType
<1>4. /\ Guards!Continue(s, y)
      /\ UNCHANGED <<situation, evaluation, reminder, itemEvent, shown>>
  BY DEF Guards!ResolveSources
<1> HIDE DEF parts
<1>5. \A T : <<>> \in Seq(T) /\ DOMAIN <<>> = {}
  BY EmptySeq
<1>6. y \in Run /\ y.op = "evaluate" /\ y.evaluations = <<>> /\ y.reminders = <<>>
  BY <1>3, <1>5 DEF Run, RunOps
<1>7. RunShape(y) /\ RunBeside(y, evaluation, reminder)
  <2> HIDE DEF y
  <2> QED
    BY <1>5, <1>6 DEF RunShape, RunBeside, OneEvaluationEach, OneReminderEach,
                      NewEvaluations, NewReminders
<1> HIDE DEF y
<1>8. GuardClaim(y)
  BY <1>6, <1>7 DEF GuardClaim
<1>9. \A x : Apart(y, x) /\ Apart(x, y)
  BY <1>5, <1>6 DEF Apart, NewEvaluations, NewReminders, Guards!HasEvaluation, Guards!HasReminder
<1>10. ItemRows'
  BY <1>4 DEF GuardInv, ItemRows
<1> QED
  BY <1>4, <1>8, <1>9, <1>10, GuardRequestStep

\* A run goes on with the rows it has added.
LEMMA RunStep ==
    ASSUME GuardInv, NEW s \in Session, NEW r, r = guardRequest[s], r.op \in RunOps,
           NEW y, Guards!Continue(s, y), y.op \in RunOps,
           y.evaluations = r.evaluations, y.reminders = r.reminders,
           RunShape(y), RunBeside(y, evaluation, reminder),
           UNCHANGED <<situation, evaluation, reminder, itemEvent, shown>>
    PROVE  GuardInv'
<1>1. \A t \in Session \ {s} : Apart(r, guardRequest[t]) /\ Apart(guardRequest[t], r)
  BY DEF GuardInv
<1>2. \A x : Apart(r, x) /\ Apart(x, r) => Apart(y, x) /\ Apart(x, y)
  BY DEF Apart
<1>3. GuardClaim(y)
  BY DEF GuardClaim, RunOps
<1>4. ItemRows'
  BY DEF GuardInv, ItemRows
<1> QED
  BY <1>1, <1>2, <1>3, <1>4, GuardRequestStep

LEMMA ReadEvaluationKeeps ==
    ASSUME GuardInv, NEW s \in Session, Guards!ReadEvaluation(s)
    PROVE  GuardInv'
<1>1. PICK r : r = guardRequest[s]
  OBVIOUS
<1>2. PICK o : o = Head(r.todo)
  OBVIOUS
<1>3. /\ r.op = "evaluate" /\ r.todo # <<>>
      /\ UNCHANGED <<situation, evaluation, reminder, itemEvent, shown>>
  BY <1>1 DEF Guards!ReadEvaluation
<1>4. RunShape(r) /\ RunBeside(r, evaluation, reminder)
  BY <1>1, <1>3 DEF GuardInv, GuardClaim, RunOps
<1>5. r \in Run
  BY <1>4 DEF RunShape
<1> DEFINE found == Guards!HasEvaluation(evaluation \o r.evaluations, o)
           y == [r EXCEPT !.op = IF found THEN "remind" ELSE "insert"]
<1>6. Guards!Continue(s, y)
  BY <1>1, <1>2 DEF Guards!ReadEvaluation, Guards!Occurrence
<1>7. found <=> Guards!HasEvaluation(evaluation, o) \/ Guards!HasEvaluation(r.evaluations, o)
  BY <1>5, HasInBoth DEF GuardInv, Committed, Run
<1> HIDE DEF found
<1>8. /\ y \in Run /\ y.op = (IF found THEN "remind" ELSE "insert") /\ y.todo = r.todo
      /\ y.evaluations = r.evaluations /\ y.reminders = r.reminders
  BY <1>5 DEF Run, RunOps
<1> HIDE DEF y
<1>9. RunShape(y)
  BY <1>2, <1>3, <1>4, <1>7, <1>8 DEF RunShape
<1>10. RunBeside(y, evaluation, reminder)
  BY <1>2, <1>3, <1>4, <1>7, <1>8 DEF RunBeside
<1>11. r.op \in RunOps /\ y.op \in RunOps
  BY <1>3, <1>8 DEF RunOps
<1> QED
  BY <1>1, <1>3, <1>6, <1>8, <1>9, <1>10, <1>11, RunStep

LEMMA AppendElements ==
    ASSUME NEW T, NEW p \in Seq(T), NEW o \in T
    PROVE  LET q == Append(p, o) IN
           /\ q \in Seq(T) /\ Len(p) + 1 \notin DOMAIN p
           /\ DOMAIN q = DOMAIN p \cup {Len(p) + 1} /\ q[Len(p) + 1] = o
           /\ \A i \in DOMAIN p : q[i] = p[i]
<1>1. /\ Append(p, o) \in Seq(T) /\ Len(Append(p, o)) = Len(p) + 1
      /\ \A i \in 1 .. Len(p) : Append(p, o)[i] = p[i]
      /\ Append(p, o)[Len(p) + 1] = o
  BY AppendProperties
<1>2. /\ Len(p) \in Nat /\ DOMAIN p = 1 .. Len(p)
      /\ DOMAIN Append(p, o) = 1 .. Len(Append(p, o))
  BY <1>1, LenProperties
<1> QED
  BY <1>1, <1>2

\* What adding a row does to the comparisons.
EvaluationAdded(p, o, q) ==
    /\ \A e : NewEvaluations(e, p) /\ ~Guards!HasEvaluation(e, o) => NewEvaluations(e, q)
    /\ \A e : NewEvaluations(p, e) /\ ~Guards!HasEvaluation(e, o) => NewEvaluations(q, e)
    /\ OneEvaluationEach(p) /\ ~Guards!HasEvaluation(p, o) => OneEvaluationEach(q)
    /\ \A x : Guards!HasEvaluation(p, x) => Guards!HasEvaluation(q, x)
    /\ Guards!HasEvaluation(q, o)
    /\ \A i \in DOMAIN q : q[i] = o \/ (i \in DOMAIN p /\ q[i] = p[i])

ReminderAdded(p, o, q) ==
    /\ \A r : NewReminders(r, p) /\ ~Guards!HasReminder(r, o.key) => NewReminders(r, q)
    /\ \A r : NewReminders(p, r) /\ ~Guards!HasReminder(r, o.key) => NewReminders(q, r)
    /\ OneReminderEach(p) /\ ~Guards!HasReminder(p, o.key) => OneReminderEach(q)
    /\ \A key : Guards!HasReminder(p, key) => Guards!HasReminder(q, key)
    /\ Guards!HasReminder(q, o.key)
    /\ \A i \in DOMAIN q : q[i] = o \/ (i \in DOMAIN p /\ q[i] = p[i])

LEMMA AppendedEvaluation ==
    ASSUME NEW T, NEW p \in Seq(T), NEW o \in T
    PROVE  EvaluationAdded(p, o, Append(p, o)) /\ Append(p, o) \in Seq(T)
<1>1. PICK q : q = Append(p, o)
  OBVIOUS
<1>2. PICK n : /\ q \in Seq(T) /\ n \notin DOMAIN p /\ DOMAIN q = DOMAIN p \cup {n} /\ q[n] = o
               /\ \A i \in DOMAIN p : q[i] = p[i]
  BY <1>1, AppendElements
<1>3. ASSUME NEW e, NewEvaluations(p, e), ~Guards!HasEvaluation(e, o)
      PROVE  NewEvaluations(q, e)
  BY <1>2, <1>3 DEF NewEvaluations, Guards!HasEvaluation, Guards!SameOccurrence
<1>4. ASSUME OneEvaluationEach(p), ~Guards!HasEvaluation(p, o)
      PROVE  OneEvaluationEach(q)
  BY <1>2, <1>4 DEF OneEvaluationEach, Guards!HasEvaluation, Guards!SameOccurrence
<1>5. EvaluationAdded(p, o, q)
  BY <1>2, <1>3, <1>4 DEF EvaluationAdded, NewEvaluations, Guards!HasEvaluation, Guards!SameOccurrence
<1> QED
  BY <1>1, <1>2, <1>5

LEMMA AppendedReminder ==
    ASSUME NEW T, NEW p \in Seq(T), NEW o \in T
    PROVE  ReminderAdded(p, o, Append(p, o)) /\ Append(p, o) \in Seq(T)
<1>1. PICK q : q = Append(p, o)
  OBVIOUS
<1>2. PICK n : /\ q \in Seq(T) /\ n \notin DOMAIN p /\ DOMAIN q = DOMAIN p \cup {n} /\ q[n] = o
               /\ \A i \in DOMAIN p : q[i] = p[i]
  BY <1>1, AppendElements
<1>3. ASSUME NEW r, NewReminders(p, r), ~Guards!HasReminder(r, o.key)
      PROVE  NewReminders(q, r)
  BY <1>2, <1>3 DEF NewReminders, Guards!HasReminder
<1>4. ASSUME OneReminderEach(p), ~Guards!HasReminder(p, o.key)
      PROVE  OneReminderEach(q)
  BY <1>2, <1>4 DEF OneReminderEach, Guards!HasReminder
<1>5. ReminderAdded(p, o, q)
  BY <1>2, <1>3, <1>4 DEF ReminderAdded, NewReminders, Guards!HasReminder
<1> QED
  BY <1>1, <1>2, <1>5

\* A row that no other run has leaves the runs apart.
LEMMA InsertEvaluationKeeps ==
    ASSUME GuardInv, NEW s \in Session, Guards!InsertEvaluation(s)
    PROVE  GuardInv'
<1>1. PICK r : r = guardRequest[s]
  OBVIOUS
<1>2. PICK o : o = Head(r.todo)
  OBVIOUS
<1>3. /\ r.op = "insert" /\ ~Guards!EvaluationTaken(s, o)
      /\ UNCHANGED <<situation, evaluation, reminder, itemEvent, shown>>
  BY <1>1, <1>2 DEF Guards!InsertEvaluation, Guards!Occurrence
<1>4. RunShape(r) /\ RunBeside(r, evaluation, reminder)
  BY <1>1, <1>3 DEF GuardInv, GuardClaim, RunOps
<1>5. r \in Run /\ r.todo # <<>> /\ o \in Guards!EvaluationRow
  BY <1>2, <1>3, <1>4, HeadTailProperties DEF RunShape, Run, OccurrenceRow
<1> DEFINE y == [r EXCEPT !.op = "remind", !.evaluations = Append(@, o)]
<1>6. Guards!Continue(s, y)
  BY <1>1, <1>2 DEF Guards!InsertEvaluation, Guards!Occurrence
<1>7. PICK q : q = Append(r.evaluations, o)
  OBVIOUS
<1>8. /\ r.evaluations \in Seq(Guards!EvaluationRow)
      /\ ~Guards!HasEvaluation(r.evaluations, o) /\ ~Guards!HasEvaluation(evaluation, o)
  BY <1>2, <1>3, <1>4, <1>5 DEF RunShape, Run, Guards!EvaluationTaken
<1>9. q \in Seq(Guards!EvaluationRow) /\ EvaluationAdded(r.evaluations, o, q)
  BY <1>5, <1>7, <1>8, AppendedEvaluation
<1>10. /\ y \in Run /\ y.op = "remind" /\ y.todo = r.todo /\ y.reminders = r.reminders
       /\ y.evaluations = q
  BY <1>5, <1>7, <1>9 DEF Run, RunOps
<1> HIDE DEF y
<1>11. OneEvaluationEach(q) /\ NewEvaluations(evaluation, q)
  BY <1>4, <1>8, <1>9 DEF EvaluationAdded, RunShape, RunBeside
<1>12. RunShape(y)
  BY <1>4, <1>5, <1>10, <1>11 DEF RunShape
<1>13. RunBeside(y, evaluation, reminder)
  BY <1>2, <1>3, <1>4, <1>9, <1>10, <1>11 DEF EvaluationAdded, RunBeside
<1>14. ASSUME NEW t \in Session \ {s}
       PROVE  Apart(y, guardRequest[t]) /\ Apart(guardRequest[t], y)
  <2>1. PICK x : x = guardRequest[t]
    OBVIOUS
  <2>2. Apart(r, x) /\ Apart(x, r)
    BY <1>1, <2>1 DEF GuardInv
  <2>3. CASE x.op \in RunOps
    <3>1. ~Guards!HasEvaluation(x.evaluations, o)
      BY <1>3, <1>14, <2>1, <2>3 DEF Guards!EvaluationTaken, Guards!OthersInRun, Guards!InRun, RunOps
    <3>2. /\ NewEvaluations(r.evaluations, x.evaluations) /\ NewEvaluations(x.evaluations, r.evaluations)
          /\ NewReminders(r.reminders, x.reminders) /\ NewReminders(x.reminders, r.reminders)
      BY <1>3, <2>2, <2>3 DEF Apart, RunOps
    <3>3. NewEvaluations(q, x.evaluations) /\ NewEvaluations(x.evaluations, q)
      BY <1>9, <3>1, <3>2 DEF EvaluationAdded
    <3> QED
      BY <1>10, <2>1, <3>2, <3>3 DEF Apart
  <2>4. CASE x.op \notin RunOps
    BY <2>1, <2>4 DEF Apart
  <2> QED
    BY <2>3, <2>4
<1>15. GuardClaim(y)
  BY <1>10, <1>12, <1>13 DEF GuardClaim
<1>16. ItemRows'
  BY <1>3 DEF GuardInv, ItemRows
<1> QED
  BY <1>3, <1>6, <1>14, <1>15, <1>16, GuardRequestStep

LEMMA ReadReminderKeeps ==
    ASSUME GuardInv, NEW s \in Session, Guards!ReadReminder(s)
    PROVE  GuardInv'
<1>1. PICK r : r = guardRequest[s]
  OBVIOUS
<1>2. PICK o : o = Head(r.todo)
  OBVIOUS
<1>3. r.op = "remind" /\ UNCHANGED <<situation, evaluation, reminder, itemEvent, shown>>
  BY <1>1 DEF Guards!ReadReminder
<1>4. RunShape(r) /\ RunBeside(r, evaluation, reminder)
  BY <1>1, <1>3 DEF GuardInv, GuardClaim, RunOps
<1>5. r \in Run /\ r.todo # <<>> /\ Tail(r.todo) \in Seq(OccurrenceRow)
  BY <1>3, <1>4, HeadTailProperties DEF RunShape, Run
<1> DEFINE had == Guards!HasReminder(reminder \o r.reminders, o.key)
           due == o.stage = "vacancy" /\ ~had
           y == IF due THEN [r EXCEPT !.op = "notify"]
                ELSE [r EXCEPT !.op = "evaluate", !.todo = Tail(@)]
<1>6. Guards!Continue(s, y)
  BY <1>1, <1>2 DEF Guards!ReadReminder, Guards!Occurrence, Guards!ToRemind
<1>7. had <=> Guards!HasReminder(reminder, o.key) \/ Guards!HasReminder(r.reminders, o.key)
  BY <1>5, HasInBoth DEF GuardInv, Committed, Run
<1> HIDE DEF had
<1>8. /\ y \in Run /\ y.evaluations = r.evaluations /\ y.reminders = r.reminders
      /\ due => y.op = "notify" /\ y.todo = r.todo
      /\ ~due => y.op = "evaluate"
  BY <1>5 DEF Run, RunOps
<1> HIDE DEF y
<1>9. RunShape(y)
  BY <1>2, <1>4, <1>5, <1>7, <1>8 DEF RunShape
<1>10. RunBeside(y, evaluation, reminder)
  <2>1. CASE due
    BY <1>2, <1>3, <1>4, <1>8, <2>1 DEF RunBeside
  <2>2. CASE ~due
    <3>1. \A i \in DOMAIN r.evaluations : r.evaluations[i].stage = "vacancy" =>
             \/ Guards!HasReminder(reminder, r.evaluations[i].key)
             \/ Guards!HasReminder(r.reminders, r.evaluations[i].key)
      <4>1. ASSUME NEW i \in DOMAIN r.evaluations, r.evaluations[i].stage = "vacancy",
                   o = r.evaluations[i]
            PROVE  \/ Guards!HasReminder(reminder, r.evaluations[i].key)
                   \/ Guards!HasReminder(r.reminders, r.evaluations[i].key)
        BY <1>7, <2>2, <4>1
      <4> QED
        BY <1>2, <1>4, <4>1 DEF RunBeside
    <3> QED
      BY <1>4, <1>8, <2>2, <3>1 DEF RunBeside
  <2> QED
    BY <2>1, <2>2
<1>11. r.op \in RunOps /\ y.op \in RunOps
  BY <1>3, <1>8 DEF RunOps
<1> QED
  BY <1>1, <1>3, <1>6, <1>8, <1>9, <1>10, <1>11, RunStep

LEMMA InsertReminderKeeps ==
    ASSUME GuardInv, NEW s \in Session, Guards!InsertReminder(s)
    PROVE  GuardInv'
<1>1. PICK r : r = guardRequest[s]
  OBVIOUS
<1>2. PICK o : o = Head(r.todo)
  OBVIOUS
<1> DEFINE row == [key |-> o.key, channel |-> "IN_APP"]
           y == [r EXCEPT !.op = "evaluate", !.todo = Tail(@), !.reminders = Append(@, row)]
<1>3. /\ r.op = "notify" /\ ~Guards!HasReminder(reminder, o.key)
      /\ \A t \in Guards!OthersInRun(s) : ~Guards!HasReminder(guardRequest[t].reminders, o.key)
      /\ Guards!Continue(s, y)
      /\ UNCHANGED <<situation, evaluation, reminder, itemEvent, shown>>
  BY <1>1, <1>2 DEF Guards!InsertReminder, Guards!Occurrence
<1>4. RunShape(r) /\ RunBeside(r, evaluation, reminder)
  BY <1>1, <1>3 DEF GuardInv, GuardClaim, RunOps
<1>5. /\ r \in Run /\ r.todo # <<>> /\ Tail(r.todo) \in Seq(OccurrenceRow)
      /\ o \in OccurrenceRow
  BY <1>2, <1>3, <1>4, HeadTailProperties DEF RunShape, Run
<1>6. row \in Guards!ReminderRow /\ row.key = o.key
  BY <1>5 DEF OccurrenceRow, Guards!EvaluationRow, Guards!ReminderRow
<1> HIDE DEF row
<1>7. PICK q : q = Append(r.reminders, row)
  OBVIOUS
<1>8. q \in Seq(Guards!ReminderRow) /\ ReminderAdded(r.reminders, row, q)
  BY <1>5, <1>6, <1>7, AppendedReminder DEF Run
<1>9. /\ y \in Run /\ y.op = "evaluate" /\ y.evaluations = r.evaluations /\ y.reminders = q
  BY <1>5, <1>7, <1>8 DEF Run, RunOps
<1>10. Guards!Continue(s, y)
  BY <1>3
<1> HIDE DEF y
<1>11. ~Guards!HasReminder(r.reminders, o.key) /\ o.stage = "vacancy" /\ o.guard = "W8"
  BY <1>2, <1>3, <1>4, <1>5 DEF RunShape, OccurrenceRow
<1>12. OneReminderEach(q) /\ NewReminders(reminder, q)
  BY <1>3, <1>4, <1>6, <1>8, <1>11 DEF ReminderAdded, RunShape, RunBeside
<1>13. RunShape(y)
  BY <1>4, <1>9, <1>12 DEF RunShape
<1>14. RunBeside(y, evaluation, reminder)
  <2>1. /\ NewEvaluations(evaluation, r.evaluations)
        /\ y.op \notin {"remind", "notify"}
    BY <1>4, <1>9 DEF RunBeside
  <2>2. ASSUME NEW i \in DOMAIN r.evaluations, r.evaluations[i].stage = "vacancy"
        PROVE  \/ Guards!HasReminder(reminder, r.evaluations[i].key)
               \/ Guards!HasReminder(q, r.evaluations[i].key)
    <3>1. \/ Guards!HasReminder(reminder, r.evaluations[i].key)
          \/ Guards!HasReminder(r.reminders, r.evaluations[i].key)
          \/ o = r.evaluations[i]
      BY <1>2, <1>4, <2>2 DEF RunBeside
    <3> QED
      BY <1>6, <1>8, <3>1 DEF ReminderAdded
  <2>3. ASSUME NEW j \in DOMAIN q
        PROVE  \/ Guards!HasEvaluation(evaluation, ReminderOf(q[j].key))
               \/ Guards!HasEvaluation(r.evaluations, ReminderOf(q[j].key))
    <3>1. CASE j \in DOMAIN r.reminders /\ q[j] = r.reminders[j]
      BY <1>4, <3>1 DEF RunBeside
    <3>2. CASE q[j] = row
      <4>1. \A e : Guards!HasEvaluation(e, o) => Guards!HasEvaluation(e, ReminderOf(o.key))
        BY <1>11 DEF Guards!HasEvaluation, Guards!SameOccurrence, ReminderOf
      <4>2. Guards!HasEvaluation(evaluation, o) \/ Guards!HasEvaluation(r.evaluations, o)
        BY <1>2, <1>3, <1>4 DEF RunBeside
      <4> QED
        BY <1>6, <3>2, <4>1, <4>2
    <3> QED
      BY <1>8, <3>1, <3>2 DEF ReminderAdded
  <2> QED
    BY <1>9, <1>12, <2>1, <2>2, <2>3 DEF RunBeside
<1>15. ASSUME NEW t \in Session \ {s}
       PROVE  Apart(y, guardRequest[t]) /\ Apart(guardRequest[t], y)
  <2>1. PICK x : x = guardRequest[t]
    OBVIOUS
  <2>2. Apart(r, x) /\ Apart(x, r)
    BY <1>1, <2>1 DEF GuardInv
  <2>3. CASE x.op \in RunOps
    <3>1. ~Guards!HasReminder(x.reminders, o.key)
      BY <1>3, <1>15, <2>1, <2>3 DEF Guards!OthersInRun, Guards!InRun, RunOps
    <3>2. /\ NewEvaluations(r.evaluations, x.evaluations) /\ NewEvaluations(x.evaluations, r.evaluations)
          /\ NewReminders(r.reminders, x.reminders) /\ NewReminders(x.reminders, r.reminders)
      BY <1>3, <2>2, <2>3 DEF Apart, RunOps
    <3>3. NewReminders(q, x.reminders) /\ NewReminders(x.reminders, q)
      BY <1>6, <1>8, <3>1, <3>2 DEF ReminderAdded
    <3> QED
      BY <1>9, <2>1, <3>2, <3>3 DEF Apart
  <2>4. CASE x.op \notin RunOps
    BY <2>1, <2>4 DEF Apart
  <2> QED
    BY <2>3, <2>4
<1>16. GuardClaim(y)
  BY <1>9, <1>13, <1>14 DEF GuardClaim
<1>17. ItemRows'
  BY <1>3 DEF GuardInv, ItemRows
<1> QED
  BY <1>3, <1>10, <1>15, <1>16, <1>17, GuardRequestStep

\* What a run has added joins what is committed.
LEMMA CommitRunKeeps ==
    ASSUME GuardInv, NEW s \in Session, Guards!CommitRun(s)
    PROVE  GuardInv'
<1>1. PICK r : r = guardRequest[s]
  OBVIOUS
<1>2. /\ r.op = "evaluate" /\ evaluation' = evaluation \o r.evaluations
      /\ reminder' = reminder \o r.reminders
      /\ Guards!Continue(s, Guards!Idle) /\ UNCHANGED <<situation, itemEvent, shown>>
  BY <1>1 DEF Guards!CommitRun
<1>3. RunShape(r) /\ RunBeside(r, evaluation, reminder)
  BY <1>1, <1>2 DEF GuardInv, GuardClaim, RunOps
<1>4. Committed(evaluation, reminder)
  BY DEF GuardInv
<1>5. /\ evaluation \in Seq(Guards!EvaluationRow) /\ r.evaluations \in Seq(Guards!EvaluationRow)
      /\ reminder \in Seq(Guards!ReminderRow) /\ r.reminders \in Seq(Guards!ReminderRow)
  BY <1>3, <1>4 DEF Committed, RunShape, Run
<1>6. \A o : Guards!HasEvaluation(evaluation', o)
                <=> Guards!HasEvaluation(evaluation, o) \/ Guards!HasEvaluation(r.evaluations, o)
  BY <1>2, <1>5, HasInBoth
<1>7. \A key : Guards!HasReminder(reminder', key)
                <=> Guards!HasReminder(reminder, key) \/ Guards!HasReminder(r.reminders, key)
  BY <1>2, <1>5, HasInBoth
<1>8. /\ evaluation' \in Seq(Guards!EvaluationRow)
      /\ \A i \in DOMAIN evaluation' :
            \/ i \in DOMAIN evaluation /\ evaluation'[i] = evaluation[i]
            \/ \E j \in DOMAIN r.evaluations : evaluation'[i] = r.evaluations[j]
  BY <1>2, <1>5, ConcatElements
<1>9. /\ reminder' \in Seq(Guards!ReminderRow)
      /\ \A i \in DOMAIN reminder' :
            \/ i \in DOMAIN reminder /\ reminder'[i] = reminder[i]
            \/ \E j \in DOMAIN r.reminders : reminder'[i] = r.reminders[j]
  BY <1>2, <1>5, ConcatElements
<1>10. Committed(evaluation', reminder')
  <2>1. OneEvaluationEach(evaluation') /\ OneReminderEach(reminder')
    BY <1>2, <1>3, <1>4, <1>5, OneEachInBoth DEF Committed, RunShape, RunBeside
  <2>2. ASSUME NEW i \in DOMAIN evaluation', evaluation'[i].stage = "vacancy"
        PROVE  Guards!HasReminder(reminder', evaluation'[i].key)
    <3>1. CASE i \in DOMAIN evaluation /\ evaluation'[i] = evaluation[i]
      BY <1>4, <1>7, <2>2, <3>1 DEF Committed
    <3>2. ASSUME NEW j \in DOMAIN r.evaluations, evaluation'[i] = r.evaluations[j]
          PROVE  Guards!HasReminder(reminder', evaluation'[i].key)
      BY <1>2, <1>3, <1>7, <2>2, <3>2 DEF RunBeside
    <3> QED
      BY <1>8, <3>1, <3>2
  <2>3. ASSUME NEW i \in DOMAIN reminder'
        PROVE  Guards!HasEvaluation(evaluation', ReminderOf(reminder'[i].key))
    <3>1. CASE i \in DOMAIN reminder /\ reminder'[i] = reminder[i]
      BY <1>4, <1>6, <3>1 DEF Committed
    <3>2. ASSUME NEW j \in DOMAIN r.reminders, reminder'[i] = r.reminders[j]
          PROVE  Guards!HasEvaluation(evaluation', ReminderOf(reminder'[i].key))
      BY <1>3, <1>6, <3>2 DEF RunBeside
    <3> QED
      BY <1>9, <3>1, <3>2
  <2> QED
    BY <1>8, <1>9, <2>1, <2>2, <2>3 DEF Committed
<1>11. \A t \in Session : guardRequest'[t] = IF t = s THEN Guards!Idle ELSE guardRequest[t]
  BY <1>2 DEF Guards!Continue, GuardInv
<1>12. ASSUME NEW t \in Session
       PROVE  GuardClaim(guardRequest[t])'
  <2>1. CASE t = s
    <3>1. guardRequest'[t] = Guards!Idle
      BY <1>11, <2>1
    <3> QED
      BY <3>1 DEF GuardClaim, Guards!Idle, RunOps
  <2>2. CASE t # s
    <3>1. PICK x : x = guardRequest[t]
      OBVIOUS
    <3>2. Apart(r, x) /\ GuardClaim(x) /\ guardRequest'[t] = x
      BY <1>1, <1>11, <2>2, <3>1 DEF GuardInv
    <3>3. x.op \in RunOps => RunBeside(x, evaluation', reminder')
      <4> SUFFICES ASSUME x.op \in RunOps PROVE RunBeside(x, evaluation', reminder')
        OBVIOUS
      <4>1. RunBeside(x, evaluation, reminder)
        BY <3>2 DEF GuardClaim
      <4>2. NewEvaluations(r.evaluations, x.evaluations) /\ NewReminders(r.reminders, x.reminders)
        BY <1>2, <3>2 DEF Apart, RunOps
      <4>3. NewEvaluations(evaluation', x.evaluations) /\ NewReminders(reminder', x.reminders)
        BY <1>6, <1>7, <4>1, <4>2 DEF RunBeside, NewEvaluations, NewReminders
      <4> QED
        BY <1>6, <1>7, <4>1, <4>3 DEF RunBeside
    <3> QED
      BY <3>2, <3>3 DEF GuardClaim
  <2> QED
    BY <2>1, <2>2
<1>13. \A t, u \in Session : t # u => Apart(guardRequest'[t], guardRequest'[u])
  <2>1. \A x : Apart(Guards!Idle, x) /\ Apart(x, Guards!Idle)
    BY IdleGuard DEF Apart
  <2> QED
    BY <1>11, <2>1 DEF GuardInv
<1>14. ItemRows' /\ DOMAIN guardRequest' = Session
  BY <1>2 DEF GuardInv, ItemRows, Guards!Continue
<1> QED
  BY <1>2, <1>10, <1>12, <1>13, <1>14 DEF GuardInv

LEMMA ReadItemEventKeeps ==
    ASSUME GuardInv, NEW s \in Session, NEW entry \in Entry, NEW key \in ItemKey,
           Guards!ReadItemEvent(s, entry, key)
    PROVE  GuardInv'
<1> DEFINE y == [op |-> "complete", row |-> [entry |-> entry, key |-> key]]
<1>1. UNCHANGED <<situation, evaluation, reminder, itemEvent>>
  BY DEF Guards!ReadItemEvent
<1>2. CASE Guards!Continue(s, y) /\ UNCHANGED shown
  <2>1. y.op \notin RunOps /\ GuardClaim(y)
    BY DEF RunOps, GuardClaim, Guards!ItemEventRow
  <2>2. \A x : Apart(y, x) /\ Apart(x, y)
    BY <2>1 DEF Apart
  <2>3. ItemRows'
    BY <1>1, <1>2 DEF GuardInv, ItemRows
  <2> HIDE DEF y
  <2> QED
    BY <1>1, <1>2, <2>1, <2>2, <2>3, GuardRequestStep
<1>3. ASSUME NEW i \in Guards!WithKey(key), itemEvent[i].entry = entry,
             Guards!Show(entry, key, i), UNCHANGED guardRequest
      PROVE  GuardInv'
  <2>1. i \in DOMAIN itemEvent /\ itemEvent[i] = [entry |-> entry, key |-> key]
    <3>1. i \in DOMAIN itemEvent /\ itemEvent[i].key = key
      BY DEF Guards!WithKey
    <3>2. itemEvent[i] \in Guards!ItemEventRow
      BY <3>1, ElementOfSeq, LenProperties DEF GuardInv, ItemRows
    <3> QED
      BY <1>3, <3>1, <3>2 DEF Guards!ItemEventRow
  <2>2. shown' = shown \cup {[entry |-> entry, key |-> key, event |-> i]}
    BY <1>3 DEF Guards!Show
  <2>3. ItemRows'
    BY <1>1, <2>1, <2>2 DEF GuardInv, ItemRows
  <2> QED
    BY <1>1, <1>3, <2>3 DEF GuardInv, GuardClaim
<1> QED
  BY <1>2, <1>3 DEF Guards!ReadItemEvent

LEMMA InsertItemEventKeeps ==
    ASSUME GuardInv, NEW s \in Session, Guards!InsertItemEvent(s)
    PROVE  GuardInv'
<1>1. PICK row : row = guardRequest[s].row
  OBVIOUS
<1>2. /\ guardRequest[s].op = "complete" /\ Guards!WithKey(row.key) = {}
      /\ itemEvent' = Append(itemEvent, row)
      /\ Guards!Show(row.entry, row.key, Len(itemEvent) + 1)
      /\ Guards!Continue(s, Guards!Idle) /\ UNCHANGED <<situation, evaluation, reminder>>
  BY <1>1 DEF Guards!InsertItemEvent
<1>3. row \in Guards!ItemEventRow /\ itemEvent \in Seq(Guards!ItemEventRow)
  BY <1>1, <1>2 DEF GuardInv, GuardClaim, ItemRows
<1>4. PICK n : n = Len(itemEvent) + 1
  OBVIOUS
<1>5. /\ itemEvent' \in Seq(Guards!ItemEventRow) /\ n \notin DOMAIN itemEvent
      /\ DOMAIN itemEvent' = DOMAIN itemEvent \cup {n} /\ itemEvent'[n] = row
      /\ \A i \in DOMAIN itemEvent : itemEvent'[i] = itemEvent[i]
  BY <1>2, <1>3, <1>4, AppendElements
<1>6. \A i \in DOMAIN itemEvent : itemEvent[i].key # row.key
  BY <1>2 DEF Guards!WithKey
<1>7. shown' = shown \cup {[entry |-> row.entry, key |-> row.key, event |-> n]}
  BY <1>2, <1>4 DEF Guards!Show
<1>8. row = [entry |-> row.entry, key |-> row.key] /\ row.entry \in Entry /\ row.key \in ItemKey
  BY <1>3 DEF Guards!ItemEventRow
<1>9. ItemRows'
  <2>1. \A i, j \in DOMAIN itemEvent' : itemEvent'[i].key = itemEvent'[j].key => i = j
    BY <1>5, <1>6 DEF GuardInv, ItemRows
  <2>2. shown' \subseteq [entry : Entry, key : ItemKey, event : DOMAIN itemEvent']
    BY <1>5, <1>7, <1>8 DEF GuardInv, ItemRows
  <2>3. ASSUME NEW a \in shown'
        PROVE  itemEvent'[a.event] = [entry |-> a.entry, key |-> a.key]
    <3>1. CASE a \in shown
      BY <1>5, <3>1 DEF GuardInv, ItemRows
    <3>2. CASE a = [entry |-> row.entry, key |-> row.key, event |-> n]
      BY <1>5, <1>8, <3>2
    <3> QED
      BY <1>7, <3>1, <3>2
  <2> QED
    BY <1>5, <2>1, <2>2, <2>3 DEF ItemRows
<1>10. \A t \in Session : guardRequest'[t] = IF t = s THEN Guards!Idle ELSE guardRequest[t]
  BY <1>2 DEF Guards!Continue, GuardInv
<1>11. \A x : Apart(Guards!Idle, x) /\ Apart(x, Guards!Idle)
  BY IdleGuard DEF Apart
<1>12. \A x : GuardClaim(x) => GuardClaim(x)'
  BY <1>2 DEF GuardClaim
<1>13. ASSUME NEW t \in Session PROVE GuardClaim(guardRequest[t])'
  <2>1. PICK x : x = guardRequest'[t]
    OBVIOUS
  <2>2. GuardClaim(x)
    BY <1>10, <2>1, IdleGuard DEF GuardInv
  <2> QED
    BY <1>12, <2>1, <2>2
<1>14. \A t, u \in Session : t # u => Apart(guardRequest'[t], guardRequest'[u])
  BY <1>10, <1>11 DEF GuardInv
<1>15. DOMAIN guardRequest' = Session
  BY <1>2 DEF GuardInv, Guards!Continue
<1> QED
  BY <1>2, <1>9, <1>13, <1>14, <1>15 DEF GuardInv

LEMMA GuardStep == GuardInv /\ [Guards!Next]_guardsVars => GuardInv'
<1> SUFFICES ASSUME GuardInv, [Guards!Next]_guardsVars PROVE GuardInv'
  OBVIOUS
<1>1. ASSUME NEW u \in Guards!Unit, Guards!ChangeTenancies(u)
      PROVE  GuardInv'
  BY <1>1, ChangeTenanciesKeeps
<1>2. ASSUME NEW s \in Session, NEW q \in Guards!Requests, NEW day \in GuardDay,
             Guards!ResolveSources(s, q, day)
      PROVE  GuardInv'
  BY <1>2, ResolveSourcesKeeps
<1>3. ASSUME NEW s \in Session, Guards!ReadEvaluation(s) \/ Guards!InsertEvaluation(s)
      PROVE  GuardInv'
  BY <1>3, ReadEvaluationKeeps, InsertEvaluationKeeps
<1>4. ASSUME NEW s \in Session, Guards!ReadReminder(s) \/ Guards!InsertReminder(s)
      PROVE  GuardInv'
  BY <1>4, ReadReminderKeeps, InsertReminderKeeps
<1>5. ASSUME NEW s \in Session, Guards!CommitRun(s) \/ Guards!Fail(s)
      PROVE  GuardInv'
  BY <1>5, CommitRunKeeps, FailKeeps
<1>6. ASSUME NEW s \in Session, NEW entry \in Entry, NEW key \in ItemKey,
             Guards!ReadItemEvent(s, entry, key)
      PROVE  GuardInv'
  BY <1>6, ReadItemEventKeeps
<1>7. ASSUME NEW s \in Session, Guards!InsertItemEvent(s)
      PROVE  GuardInv'
  BY <1>7, InsertItemEventKeeps
<1>8. CASE UNCHANGED guardsVars
  <2>1. UNCHANGED <<situation, evaluation, reminder, itemEvent, shown, guardRequest>>
    BY <1>8 DEF guardsVars
  <2> QED
    BY <2>1 DEF GuardInv, ItemRows, GuardClaim
<1> QED
  BY <1>1, <1>2, <1>3, <1>4, <1>5, <1>6, <1>7, <1>8
     DEF Guards!Next, Guards!RunNext, Guards!ChecklistNext

\* Two runs at once leave one evaluation and one reminder of an occurrence,
\* committed together, and a checklist key names one event (jobs.py
\* run_daily_guard_evaluations, guards_delivery.py create_checklist_item_event).
THEOREM GuardRecordsAlwaysAgree == RecordsSpec => []GuardRecordsAgree
<1>1. RecordsInit => GuardInv
  BY InitGuards DEF RecordsInit
<1>2. GuardInv /\ [RecordsNext]_RecordsVars => GuardInv'
  <2>1. [RecordsNext]_RecordsVars => [Guards!Next]_guardsVars
    BY DEF RecordsNext, RecordsVars, Guards!Next
  <2> QED
    BY <2>1, GuardStep
<1>3. GuardInv => GuardRecordsAgree
  <2> SUFFICES ASSUME GuardInv PROVE Guards!GuardRecordsAgree
    BY DEF GuardRecordsAgree
  <2>1. Committed(evaluation, reminder) /\ ItemRows
    BY DEF GuardInv
  <2>2. \A i \in DOMAIN evaluation : evaluation[i].stage = "vacancy"
           => \E j \in DOMAIN reminder : reminder[j].key = evaluation[i].key
    BY <2>1 DEF Committed, Guards!HasReminder
  <2>3. \A j \in DOMAIN reminder :
           Guards!HasEvaluation(evaluation, [guard |-> "W8", key |-> reminder[j].key])
    BY <2>1 DEF Committed, ReminderOf
  <2> QED
    BY <2>1, <2>2, <2>3
       DEF Guards!GuardRecordsAgree, Committed, ItemRows, OneEvaluationEach, OneReminderEach
<1> QED
  BY <1>1, <1>2, <1>3, PTL DEF RecordsSpec

-----------------------------------------------------------------------------
(* All components together.                                                *)

RecordsInv ==
    /\ AdvanceInv /\ MeterInv /\ ChainInv /\ CostInv
    /\ ImportInv /\ UviInv /\ GuardInv

LEMMA InitRecords == RecordsInit => RecordsInv
  BY InitAdvances, InitMeters, InitChain, InitCost, InitImport, InitUvi, InitGuards
  DEF RecordsInit, RecordsInv

\* The component that is active takes its step, the others rest.
LEMMA RecordsStep == RecordsInv /\ [RecordsNext]_RecordsVars => RecordsInv'
<1> SUFFICES ASSUME RecordsInv, [RecordsNext]_RecordsVars PROVE RecordsInv'
  OBVIOUS
<1>1. [Advances!Next]_advancesVars /\ [Meters!Next]_metersVars /\ [Next]_vars
  BY DEF RecordsNext, RecordsVars
<1>2. [Costs!Next]_costsVars /\ [Bank!Next]_bankVars /\ [Uvi!Next]_uviVars
  BY DEF RecordsNext, RecordsVars
<1>3. [Guards!Next]_guardsVars
  BY DEF RecordsNext, RecordsVars, Guards!Next
<1> QED
  BY <1>1, <1>2, <1>3, AdvanceStep, MeterStep, StreamStep, CostStep, ImportStep, UviStep,
     GuardStep DEF RecordsInv

LEMMA GuardTypes == GuardInv => Guards!TypeOK
  BY DEF GuardInv, Committed, ItemRows, Guards!TypeOK

LEMMA ImportTypes == ImportInv => Bank!TypeOK
  BY DEF ImportInv, ImportShape, Bank!TypeOK, Bank!Stored

(***************************************************************************)
(* Whatever requests race, every table holds rows of its type only, and    *)
(* what a row refers to is there: the meter of a reading, the period of a  *)
(* run, the run that answered a request, the event a checklist shows.      *)
(***************************************************************************)
THEOREM RecordsAreWellTyped == RecordsSpec => []TypesOK
<1>1. RecordsInv => TypesOK
  BY GuardTypes, ImportTypes
  DEF RecordsInv, TypesOK, AdvanceInv, MeterInv, ChainInv, CostInv, UviInv
<1> QED
  BY <1>1, InitRecords, RecordsStep, PTL DEF RecordsSpec
=============================================================================
