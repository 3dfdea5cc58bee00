----------------------------- MODULE BankImport -----------------------------
(***************************************************************************)
(* The pull of bank movements (apps/api: bank_sync.py) by the scheduled    *)
(* job sync_bank_transactions (jobs.py), which also matches what it has    *)
(* imported, and by the owner's import endpoint, which does not. One pull  *)
(* is one database transaction: all of it is committed or nothing. Runs    *)
(* overlap when the job is started twice or an owner imports meanwhile.    *)
(*                                                                         *)
(* What matching one movement does is the subject of BankMatching; here it *)
(* succeeds or is refused.                                                 *)
(***************************************************************************)
EXTENDS Integers, Sequences, FiniteSets

CONSTANTS
    Worker,      \* concurrent pulls
    BankAccount, \* connected bank accounts of one Lokara account
    Sequence,    \* BankAccount -> the order of its id
    ProviderId,  \* provider_transaction_id, which two banks may both use
    BookedOn,    \* ProviderId -> booking day
    Reach,       \* how far the provider's list reaches back from today
    Today,       \* days the model runs through
    MaxPull      \* bound: pulls started

VARIABLES
    today,    \* the day
    consent,  \* per bank account: whether a valid consent stands
    imported, \* bank_transaction rows: the pulls that inserted each movement
    outcome,  \* what matching said of a row: none, matched, refused
    pull,     \* the transaction of each worker
    pulls,    \* pulls started so far
    promised  \* history: what the provider listed to a pull that committed

vars == <<today, consent, imported, outcome, pull, pulls, promised>>

\* A movement is identified by the bank account and the provider's id.
Movement == [account: BankAccount, id: ProviderId]

Outcome == {"none", "matched", "refused"}

Idle == [op |-> "idle"]

Init ==
    /\ today \in Today /\ \A d \in Today : today <= d
    /\ consent \in [BankAccount -> BOOLEAN]
    /\ imported = [m \in Movement |-> {}] /\ promised = {} /\ pulls = 0
    /\ outcome = [m \in Movement |-> "none"]
    /\ pull = [w \in Worker |-> Idle]

Stored == {m \in Movement : imported[m] # {}}

Continue(w, state) == pull' = [pull EXCEPT ![w] = state]

----------------------------------------------------------------------------
(* The world: days pass, a consent expires or is renewed.                  *)

NextDay ==
    /\ \E d \in Today : d > today
    /\ today' = CHOOSE d \in Today : d > today /\ \A e \in Today : e > today => d <= e
    /\ UNCHANGED <<consent, imported, outcome, pull, pulls, promised>>

ConsentChanges(a) ==
    /\ consent' = [consent EXCEPT ![a] = ~@]
    /\ UNCHANGED <<today, imported, outcome, pull, pulls, promised>>

----------------------------------------------------------------------------
(* import_transactions.                                                    *)

\* The job pulls every bank account of the account, the owner names one.
Start(w, accounts, matching) ==
    /\ pull[w] = Idle /\ pulls < MaxPull
    /\ pulls' = pulls + 1
    /\ Continue(w, [op |-> "import", number |-> pulls + 1, accounts |-> accounts,
                    matching |-> matching, new |-> {}, listed |-> {},
                    matched |-> {}, refused |-> {}])
    /\ UNCHANGED <<today, consent, imported, outcome, promised>>

StartJob(w) == Start(w, BankAccount, TRUE)

StartOwner(w, a) == Start(w, {a}, FALSE)

\* What the provider lists for the window that ends today.
ListTransactions(a) ==
    {m \in Movement : m.account = a /\ BookedOn[m.id] <= today
                                    /\ BookedOn[m.id] + Reach >= today}

\* Mutant: the known ids are those of all bank accounts.
KnownOfAnyBank(a) == {m \in Movement : \E k \in Stored : k.id = m.id}

\* Only committed rows are seen: a row of another pull is not known yet.
Known(a) == {m \in Stored : m.account = a}

FirstOf(accounts) ==
    CHOOSE a \in accounts : \A b \in accounts : Sequence[a] <= Sequence[b]

\* One bank account after the other, by id. Without consent nothing is pulled:
\* the job skips the account, the owner is refused.
ImportAccount(w) ==
    LET p == pull[w]
        a == FirstOf(p.accounts)
        listed == IF consent[a] THEN ListTransactions(a) ELSE {}
    IN  /\ p.op = "import" /\ p.accounts # {} /\ (consent[a] \/ p.matching)
        /\ Continue(w, [p EXCEPT !.accounts = @ \ {a},
                                 !.new = @ \cup (listed \ Known(a)),
                                 !.listed = @ \cup listed])
        /\ UNCHANGED <<today, consent, imported, outcome, pulls, promised>>

----------------------------------------------------------------------------
(* sync_bank_transactions: matching begins when every account is pulled,   *)
(* by booking day across accounts; a refusal is contained in a savepoint.  *)

Unmatched(p) == p.new \ (p.matched \cup p.refused)

NotAfter(m, n) ==
    BookedOn[m.id] < BookedOn[n.id] \/ (BookedOn[m.id] = BookedOn[n.id] /\ m.id <= n.id)

MatchOne(w) ==
    LET p == pull[w] IN
    /\ p.op = "import" /\ p.accounts = {} /\ p.matching
    /\ \E m \in Unmatched(p) :
          /\ \A n \in Unmatched(p) : NotAfter(m, n)
          /\ \/ Continue(w, [p EXCEPT !.matched = @ \cup {m}])
             \/ Continue(w, [p EXCEPT !.refused = @ \cup {m}])
    /\ UNCHANGED <<today, consent, imported, outcome, pulls, promised>>

\* The unique index on account, bank account and provider id.
Collides(new) == new \cap Stored # {}

Commit(w) ==
    LET p == pull[w] IN
    /\ p.op = "import" /\ p.accounts = {} /\ (p.matching => Unmatched(p) = {})
    /\ ~Collides(p.new)
    /\ imported' = [m \in Movement |->
          IF m \in p.new THEN imported[m] \cup {p.number} ELSE imported[m]]
    /\ outcome' = [m \in Movement |-> IF m \in p.matched THEN "matched"
                                      ELSE IF m \in p.refused THEN "refused"
                                      ELSE outcome[m]]
    /\ promised' = promised \cup p.listed
    /\ Continue(w, Idle)
    /\ UNCHANGED <<today, consent, pulls>>

\* A collision, an error that no savepoint contains, or a crash: nothing of
\* the pull remains.
Abort(w) ==
    /\ pull[w] # Idle
    /\ Continue(w, Idle)
    /\ UNCHANGED <<today, consent, imported, outcome, pulls, promised>>

\* The owner runs the match of a stored movement by hand.
MatchByHand(m) ==
    /\ m \in Stored /\ outcome[m] # "matched"
    /\ outcome' = [outcome EXCEPT ![m] = "matched"]
    /\ UNCHANGED <<today, consent, imported, pull, pulls, promised>>

----------------------------------------------------------------------------

Next ==
    \/ NextDay
    \/ \E a \in BankAccount : ConsentChanges(a)
    \/ \E m \in Movement : MatchByHand(m)
    \/ \E w \in Worker :
          \/ StartJob(w)
          \/ \E a \in BankAccount : StartOwner(w, a)
          \/ ImportAccount(w)
          \/ MatchOne(w)
          \/ Commit(w)
          \/ Abort(w)

Spec == Init /\ [][Next]_vars

----------------------------------------------------------------------------

TypeOK ==
    /\ today \in Today /\ consent \in [BankAccount -> BOOLEAN]
    /\ imported \in [Movement -> SUBSET (1 .. MaxPull)] /\ promised \subseteq Movement
    /\ outcome \in [Movement -> Outcome]

(***************************************************************************)
(* No movement is lost, taken twice or matched before it is stored. What   *)
(* the provider listed to a pull that committed is stored, also when two   *)
(* banks use the same ids, a consent lapsed half way or another pull       *)
(* failed; however pulls overlap, one of them inserted it; a movement that *)
(* was matched or refused is a stored one. (Code: bank_sync.py 84-134 and  *)
(* jobs.py 273-316.)                                                       *)
(***************************************************************************)
MovementsImportedOnce ==
    /\ promised \subseteq Stored
    /\ \A m \in Movement : Cardinality(imported[m]) <= 1
    /\ \A m \in Movement : outcome[m] # "none" => m \in Stored
=============================================================================
