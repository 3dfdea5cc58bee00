------------------------------ MODULE Records ------------------------------
(***************************************************************************)
(* The small components, which share no table that a handler of two of     *)
(* them writes. One component is active in a behaviour and the others stay *)
(* as they began, so that their state spaces add up instead of             *)
(* multiplying. The version streams are the module this one extends.       *)
(***************************************************************************)
EXTENDS VersionStreams

CONSTANTS
    Parts, \* the components of a behaviour
    \* AdvanceLedger
    Period, Amount, AdvanceStart, MaxPayment, MaxReconciliation,
    \* MeterBook
    Meter, InstalledMeter, MeterDay, MaxMeterRequest,
    \* CostBook
    Cost, Key, NoKey, CostDay, MaxCostRequest, MaxAgreement,
    \* BankImport
    BankAccount, BankSequence, ProviderId, BookedOn, Reach, Today, MaxPull,
    \* UviRuns
    Tenancy, Month, ValidFrom, ValidTo, NoEnd, MaxConfiguration, MaxReading, MaxRun,
    \* GuardRuns
    Source, KindOf, Asked, GuardDay, Entry, ItemKey

\* Times are numbers, and what a catalogue without a key says is no key.
ASSUME RecordsAssumption ==
    /\ MaxPayment \in Nat /\ MaxReconciliation \in Nat
    /\ Amount \subseteq Nat \ {0} /\ AdvanceStart \subseteq Nat \ {0}
    /\ MaxMeterRequest \in Nat /\ MeterDay \subseteq Int
    /\ InstalledMeter \subseteq Meter
    /\ MaxCostRequest \in Nat /\ NoKey \notin Key
    /\ Month \subseteq Nat \ {0}
    /\ ValidFrom \cup ValidTo \cup {NoEnd} \subseteq Int
    /\ MaxConfiguration \in Nat /\ MaxReading \in Nat /\ Asked \in Nat
    /\ Today \subseteq Nat /\ MaxPull \in Nat

VARIABLES
    active,
    payment, reconciliation, schedule, advanceRequest,
    meter, reading, event, beginning, meterRequest,
    cost, assignment, classification, agreement, begun, costRequest,
    today, consent, imported, outcome, pull, pulls, promised,
    configuration, monthlyReading, uviRun, answered, uviRequest,
    situation, evaluation, reminder, itemEvent, shown, guardRequest

Advances == INSTANCE AdvanceLedger WITH Start <- AdvanceStart

Meters == INSTANCE MeterBook WITH
    Installed <- InstalledMeter, Day <- MeterDay, MaxBegin <- MaxMeterRequest

Costs == INSTANCE CostBook WITH Day <- CostDay, MaxBegin <- MaxCostRequest

Bank == INSTANCE BankImport WITH Worker <- Session, Sequence <- BankSequence

Uvi == INSTANCE UviRuns

Guards == INSTANCE GuardRuns WITH Day <- GuardDay, Key <- ItemKey

advancesVars == <<payment, reconciliation, schedule, advanceRequest>>
metersVars == <<meter, reading, event, beginning, meterRequest>>
costsVars == <<cost, assignment, classification, agreement, begun, costRequest>>
bankVars == <<today, consent, imported, outcome, pull, pulls, promised>>
uviVars == <<configuration, monthlyReading, uviRun, answered, uviRequest>>
guardsVars == <<situation, evaluation, reminder, itemEvent, shown, guardRequest>>

RecordsVars ==
    <<active, advancesVars, metersVars, vars, costsVars,
      bankVars, uviVars, guardsVars>>

\* What is not active is in one fixed state.
RecordsInit ==
    /\ active \in Parts
    /\ Advances!Init /\ Meters!Init /\ Costs!Init /\ Uvi!Init
    /\ Init /\ (active # "streams" => kind = "layout")
    /\ Guards!Init /\ (active # "guards" => \A u \in DOMAIN situation : situation[u] = "let")
    /\ Bank!Init /\ (active # "bank" => \A a \in DOMAIN consent : consent[a])

RecordsNext ==
    /\ UNCHANGED active
    /\ \/ /\ active = "advances" /\ Advances!Next
          /\ UNCHANGED <<metersVars, vars, costsVars, bankVars, uviVars, guardsVars>>
       \/ /\ active = "meters" /\ Meters!Next
          /\ UNCHANGED <<advancesVars, vars, costsVars, bankVars, uviVars, guardsVars>>
       \/ /\ active = "streams" /\ Next
          /\ UNCHANGED <<advancesVars, metersVars, costsVars, bankVars, uviVars, guardsVars>>
       \/ /\ active = "costs" /\ Costs!Next
          /\ UNCHANGED <<advancesVars, metersVars, vars, bankVars, uviVars, guardsVars>>
       \/ /\ active = "bank" /\ Bank!Next
          /\ UNCHANGED <<advancesVars, metersVars, vars, costsVars, uviVars, guardsVars>>
       \/ /\ active = "uvi" /\ Uvi!Next
          /\ UNCHANGED <<advancesVars, metersVars, vars, costsVars, bankVars, guardsVars>>
       \/ /\ \/ active = "guards" /\ Guards!RunNext
             \/ active = "checklists" /\ Guards!ChecklistNext
          /\ UNCHANGED <<advancesVars, metersVars, vars, costsVars, bankVars, uviVars>>

RecordsSpec == RecordsInit /\ [][RecordsNext]_RecordsVars

-----------------------------------------------------------------------------
\* Every component stays inside its types.
TypesOK ==
    /\ Advances!TypeOK /\ Meters!TypeOK /\ TypeOK /\ Costs!TypeOK
    /\ Bank!TypeOK /\ Uvi!TypeOK /\ Guards!TypeOK

\* A confirmed total is the money that stands (advances.py 161-169).
AdvancesAddUp == Advances!AdvancesAddUp

\* Workspace and bill agree on the reading that counts (meters.py 252-265,
\* meter_gateway.py 63-80).
OneEffectiveReading == Meters!OneEffectiveReading

\* The latest key and the latest classification belong together (costs.py).
KeyMatchesClassification == Costs!KeyMatchesClassification

\* Overlapping pulls lose and double no movement (bank_sync.py, jobs.py).
MovementsImportedOnce == Bank!MovementsImportedOnce

\* Racing requests make one run of a month, with the version that holds for
\* all of it (uvi_runs.py).
OneRunPerMonth == Uvi!OneRunPerMonth

\* Racing runs of the guards keep evaluations and reminders together, and a
\* checklist key names one event (jobs.py, guards_delivery.py).
GuardRecordsAgree == Guards!GuardRecordsAgree
=============================================================================
