------------------------------ MODULE CostBook ------------------------------
(***************************************************************************)
(* Entered costs, their allocation keys and the operating-cost agreements  *)
(* of one tenancy (apps/api: routers/costs.py, read by _nk_costs of        *)
(* statement_service.py). Keys, classifications and agreements are         *)
(* append-only. The row whose transaction began last is the current one:   *)
(* created_at and confirmed_at default to now(), the start of the          *)
(* transaction. No handler takes a lock, and no unique key or exclusion    *)
(* constraint guards these tables.                                         *)
(***************************************************************************)
EXTENDS Integers, FiniteSets, FiniteSetsExt

CONSTANTS
    Session,      \* concurrent requests
    Cost,         \* ids of cost entries
    Key,          \* allocation keys
    NoKey,        \* the catalogue says that the position is not allocable
    Day,          \* days agreements begin and end on, consecutive
    MaxBegin,     \* bound: requests begun
    MaxAgreement  \* bound: agreements

VARIABLES
    cost,           \* cost_entry: absent, current or voided
    assignment,     \* allocation_key_assignment rows
    classification, \* confirmed_cost_classification rows
    agreement,      \* operating_cost_agreement rows, by begun request
    begun,          \* requests begun so far, the clock of now()
    costRequest     \* what each request has read

vars == <<cost, assignment, classification, agreement, begun, costRequest>>

Time == 1 .. MaxBegin

\* An assignment is known by its cost and its created_at.
Assignment == [cost: Cost, key: Key, at: Time]

\* of is the created_at of the assignment it names, 0 for a cost without key.
Classification == [cost: Cost, key: Key \cup {NoKey}, at: Time, of: 0 .. MaxBegin]

\* Valid from the first day up to, but not on, the day to. revises is the
\* created_at of the agreement it replaces, 0 when it replaces none.
Agreement == [from: Day, to: Day, at: Time, revises: 0 .. MaxBegin]

Idle == [op |-> "idle"]

Init ==
    /\ cost = [c \in Cost |-> "ABSENT"]
    /\ assignment = {} /\ classification = {} /\ agreement = {}
    /\ begun = 0
    /\ costRequest = [s \in Session |-> Idle]

Continue(s, state) == costRequest' = [costRequest EXCEPT ![s] = state]

Begin(s, request) ==
    /\ costRequest[s] = Idle /\ begun < MaxBegin
    /\ begun' = begun + 1
    /\ Continue(s, request)
    /\ UNCHANGED <<cost, assignment, classification, agreement>>

GiveUp(s) ==
    /\ costRequest[s] # Idle
    /\ Continue(s, Idle)
    /\ UNCHANGED <<cost, assignment, classification, agreement, begun>>

LatestOf(rows) == CHOOSE r \in rows : \A o \in rows : o.at <= r.at

AssignmentsOf(c) == {a \in assignment : a.cost = c}

ClassificationsOf(c) == {x \in classification : x.cost = c}

----------------------------------------------------------------------------
(* create_cost, void_cost, reassign_key.                                   *)

\* A replacement names a voided cost; nothing keeps a second one from naming
\* the same.
CreateCost(s, c, key, replaces) ==
    /\ cost[c] = "ABSENT"
    /\ replaces # {} => \A r \in replaces : cost[r] = "VOIDED"
    /\ Begin(s, [op |-> "create", cost |-> c, key |-> key, at |-> begun + 1])

\* Mutant: the classification is stamped when it is written, not when its
\* transaction began.
StampOfWriting(at) == begun

\* confirmed_at of a classification.
Stamp(at) == at

Classify(c, key, at) ==
    classification' = classification \cup
        {[cost |-> c, key |-> key, at |-> Stamp(at), of |-> IF key = NoKey THEN 0 ELSE at]}

\* Cost, key and classification are inserted by one flush.
InsertCost(s) ==
    LET r == costRequest[s] IN
    /\ r.op = "create" /\ cost[r.cost] = "ABSENT"
    /\ cost' = [cost EXCEPT ![r.cost] = "CURRENT"]
    /\ assignment' = assignment \cup
          (IF r.key = NoKey THEN {} ELSE {[cost |-> r.cost, key |-> r.key, at |-> r.at]})
    /\ Classify(r.cost, r.key, r.at)
    /\ Continue(s, Idle)
    /\ UNCHANGED <<agreement, begun>>

\* Two requests may both have read the cost before either voids it; the
\* second overwrites time and reason of the first.
ReadToVoid(s, c) ==
    /\ cost[c] = "CURRENT"
    /\ Begin(s, [op |-> "void", cost |-> c])

VoidCost(s) ==
    /\ costRequest[s].op = "void"
    /\ cost' = [cost EXCEPT ![costRequest[s].cost] = "VOIDED"]
    /\ Continue(s, Idle)
    /\ UNCHANGED <<assignment, classification, agreement, begun>>

\* A voided cost can be re-keyed, a cost without key cannot.
ReadToRekey(s, c, key) ==
    /\ cost[c] # "ABSENT"
    /\ LatestOf(ClassificationsOf(c)).key # NoKey
    /\ Begin(s, [op |-> "rekey", cost |-> c, key |-> key, at |-> begun + 1])

ReassignKey(s) ==
    LET r == costRequest[s] IN
    /\ r.op = "rekey"
    /\ assignment' = assignment \cup {[cost |-> r.cost, key |-> r.key, at |-> r.at]}
    /\ Classify(r.cost, r.key, r.at)
    /\ Continue(s, Idle)
    /\ UNCHANGED <<cost, agreement, begun>>

----------------------------------------------------------------------------
(* create_operating_cost_agreement.                                        *)

\* A row that a later one revises is history.
Active(rows) == {a \in rows : \A o \in rows : o.revises # a.at}

Overlap(a, b) == a.from < b.to /\ b.from < a.to

\* The candidate is compared with the agreements read here, which no lock
\* protects.
ReadAgreements(s, from, to, revises) ==
    LET new == [from |-> from, to |-> to, at |-> begun + 1, revises |-> revises] IN
    /\ from < to /\ Cardinality(agreement) < MaxAgreement
    /\ revises # 0 => \E a \in agreement : a.at = revises
    /\ \A a \in Active(agreement \cup {new}) \ {new} : ~Overlap(a, new)
    /\ Begin(s, [op |-> "agree", row |-> new])

InsertAgreement(s) ==
    /\ costRequest[s].op = "agree" /\ Cardinality(agreement) < MaxAgreement
    /\ agreement' = agreement \cup {costRequest[s].row}
    /\ Continue(s, Idle)
    /\ UNCHANGED <<cost, assignment, classification, begun>>

----------------------------------------------------------------------------

Next ==
    \E s \in Session :
        \/ \E c \in Cost, key \in Key \cup {NoKey}, replaces \in {{}} \cup {{r} : r \in Cost} :
              CreateCost(s, c, key, replaces)
        \/ InsertCost(s)
        \/ \E c \in Cost : ReadToVoid(s, c)
        \/ VoidCost(s)
        \/ \E c \in Cost, key \in Key : ReadToRekey(s, c, key)
        \/ ReassignKey(s)
        \/ \E from, to \in Day, revises \in 0 .. MaxBegin : ReadAgreements(s, from, to, revises)
        \/ InsertAgreement(s)
        \/ GiveUp(s)

Spec == Init /\ [][Next]_vars

----------------------------------------------------------------------------

TypeOK ==
    /\ cost \in [Cost -> {"ABSENT", "CURRENT", "VOIDED"}]
    /\ assignment \subseteq Assignment
    /\ classification \subseteq Classification
    /\ agreement \subseteq Agreement
    /\ begun \in 0 .. MaxBegin

\* current_assignment and the latest classification, as the statement reads them.
CurrentKey(c) == LatestOf(AssignmentsOf(c))

CurrentClassification(c) == LatestOf(ClassificationsOf(c))

(***************************************************************************)
(* The statement takes the key from the latest assignment and the amounts  *)
(* from the latest classification, two tables it sorts on their own. They  *)
(* always belong together: the latest classification of a cost names its   *)
(* latest assignment and repeats its key, and a cost without key never     *)
(* gets an assignment, even when two clerks re-key it at once and commit   *)
(* in the other order. (Code: costs.py 67-79, 282-325 and                  *)
(* statement_service.py 430-464.)                                          *)
(***************************************************************************)
KeyMatchesClassification ==
    \A c \in Cost : cost[c] # "ABSENT" =>
        LET x == CurrentClassification(c) IN
        IF x.key = NoKey THEN AssignmentsOf(c) = {}
                         ELSE CurrentKey(c).at = x.of /\ CurrentKey(c).key = x.key
=============================================================================
