---------------------------- MODULE RenterPortal ----------------------------
(***************************************************************************)
(* The renter portal of one account: activation codes and their redemption *)
(* (apps/api: renter_activation_service.py, routers/renter_activation.py,  *)
(* migration 0041) and the publication of archived statements              *)
(* (routers/renter_publications.py, migrations 0043 and 0044).             *)
(*                                                                         *)
(* A redemption locks the code row, then the renter row, and commits both  *)
(* the spend evidence and the link. A refusal ends that transaction and is *)
(* recorded in a second one. A publication locks nothing: the unique index *)
(* on its source decides between two publishers.                           *)
(***************************************************************************)
EXTENDS Integers, FiniteSets

CONSTANTS
    Session,      \* concurrent requests
    Code,         \* activation codes that may be issued
    Renter,
    Tenancy,
    Person,       \* verified subjects of the bearer tokens
    KnownPerson,  \* the subjects app_bootstrap_contexts finds
    Party,        \* tenancy_party rows <<tenancy, renter>>
    Source,       \* statement_document_archive rows
    Archive,      \* each row's [tenancy, type, publishable]
    MaxAttempt,   \* bound: refusals recorded or still possible at once
    None

Outcome == {"CODE_UNKNOWN", "CODE_SPENT", "CODE_EXPIRED", "TENANCY_MISMATCH",
            "PERSON_UNKNOWN", "RENTER_ALREADY_LINKED"}

ASSUME PortalAssumption ==
    /\ KnownPerson \subseteq Person
    /\ Party \subseteq Tenancy \X Renter
    /\ \A d \in Source : /\ Archive[d].tenancy \in Tenancy
                         /\ Archive[d].publishable \in BOOLEAN
    /\ MaxAttempt \in Nat
    /\ None \notin Person \cup Code \cup Source \cup Outcome

VARIABLES
    code,         \* renter_activation_code rows
    expired,      \* codes whose seven days are over
    redemption,   \* renter_activation_redemption rows
    link,         \* renter.person_id
    attempt,      \* renter_activation_attempt rows
    publication,  \* renter_portal_publication rows, by their source
    txn           \* what each request has read and still has to do

vars == <<code, expired, redemption, link, attempt, publication, txn>>

Absent == [tenancy |-> None]

Idle == [pc |-> "idle"]

CodeRow == [tenancy: Tenancy, renter: Renter]

RedemptionRow ==
    [code: Code, renter: Renter, tenancy: Tenancy, person: Person]

AttemptRow == [code: Code \cup {None}, outcome: Outcome]

PublicationRow == [tenancy: Tenancy, supersedes: Source \cup {None}]

Init ==
    /\ code = [c \in Code |-> Absent]
    /\ expired = {}
    /\ redemption = {}
    /\ link = [r \in Renter |-> None]
    /\ attempt = {}
    /\ publication = [d \in Source |-> Absent]
    /\ txn = [s \in Session |-> Idle]

----------------------------------------------------------------------------
(* Activation codes.                                                       *)

\* An owner may issue any number of codes for one renter of a tenancy.
IssueCode(c, t, r) ==
    /\ code[c] = Absent
    /\ <<t, r>> \in Party
    /\ code' = [code EXCEPT ![c] = [tenancy |-> t, renter |-> r]]
    /\ UNCHANGED <<expired, redemption, link, attempt, publication, txn>>

\* Seven days pass.
Expire(c) ==
    /\ code[c] # Absent /\ c \notin expired
    /\ expired' = expired \cup {c}
    /\ UNCHANGED <<code, redemption, link, attempt, publication, txn>>

Spent(c) == \E e \in redemption : e.code = c

\* Mutant: the link lapses with the code that made it.
UnlinkedAfterExpiry(r) ==
    \A e \in redemption : e.renter = r => e.code \in expired

Unlinked(r) == link[r] = None

\* Mutant: the refusal is recorded before the refused transaction has ended.
HoldsCodeUntilRecorded(c) ==
    {s \in Session : txn[s].pc \in {"renter", "write", "refused"} /\ txn[s].code = c}

\* The requests whose open transaction has code c, or renter r, FOR UPDATE.
HoldsCode(c) ==
    {s \in Session : txn[s].pc \in {"renter", "write"} /\ txn[s].code = c}

HoldsRenter(r) ==
    {s \in Session : txn[s].pc = "write" /\ code[txn[s].code].renter = r}

\* The requests that request s has to wait for before its next statement.
WaitsFor(s) ==
    LET x == txn[s] IN
    CASE x.pc = "code" -> HoldsCode(x.code)
      [] x.pc = "renter" -> HoldsRenter(code[x.code].renter)
      [] x.pc = "refused" -> IF x.code = None THEN {} ELSE HoldsCode(x.code)
      [] OTHER -> {}

Redeeming ==
    {s \in Session : txn[s].pc \in {"code", "renter", "write", "refused"}}

\* The clock is read before the code row is locked.
BeginRedeem(s, p, t, c) ==
    /\ txn[s] = Idle
    /\ Cardinality(attempt) + Cardinality(Redeeming) < MaxAttempt
    /\ txn' = [txn EXCEPT ![s] =
                  [pc |-> "code", person |-> p, tenancy |-> t, code |-> c,
                   expired |-> c \in expired]]
    /\ UNCHANGED <<code, expired, redemption, link, attempt, publication>>

\* Mutant: an outcome the evidence table does not know.
CodeRefusalAccount(x) ==
    LET row == code[x.code] IN
    IF row = Absent THEN "CODE_UNKNOWN"
    ELSE IF Spent(x.code) THEN "CODE_SPENT"
    ELSE IF x.expired THEN "CODE_EXPIRED"
    ELSE IF row.tenancy # x.tenancy \/ <<x.tenancy, row.renter>> \notin Party
         THEN "ACCOUNT_MISMATCH"
    ELSE None

\* Why the code alone refuses the request, None when it does not.
CodeRefusal(x) ==
    LET row == code[x.code] IN
    IF row = Absent THEN "CODE_UNKNOWN"
    ELSE IF Spent(x.code) THEN "CODE_SPENT"
    ELSE IF x.expired THEN "CODE_EXPIRED"
    ELSE IF row.tenancy # x.tenancy \/ <<x.tenancy, row.renter>> \notin Party
         THEN "TENANCY_MISMATCH"
    ELSE None

RenterRefusal(x) ==
    IF x.person \notin KnownPerson THEN "PERSON_UNKNOWN"
    ELSE IF ~Unlinked(code[x.code].renter) THEN "RENTER_ALREADY_LINKED"
    ELSE None

\* The refused transaction ends, which releases its row locks.
Refuse(s, c, outcome) ==
    txn' = [txn EXCEPT ![s] = [pc |-> "refused", code |-> c, outcome |-> outcome]]

LockCode(s) ==
    LET x == txn[s] IN
    /\ x.pc = "code"
    /\ WaitsFor(s) = {}
    /\ IF CodeRefusal(x) = None
       THEN txn' = [txn EXCEPT ![s].pc = "renter"]
       ELSE Refuse(s, IF code[x.code] = Absent THEN None ELSE x.code,
                   CodeRefusal(x))
    /\ UNCHANGED <<code, expired, redemption, link, attempt, publication>>

LockRenter(s) ==
    LET x == txn[s] IN
    /\ x.pc = "renter"
    /\ WaitsFor(s) = {}
    /\ IF RenterRefusal(x) = None
       THEN txn' = [txn EXCEPT ![s].pc = "write"]
       ELSE Refuse(s, x.code, RenterRefusal(x))
    /\ UNCHANGED <<code, expired, redemption, link, attempt, publication>>

\* The evidence, then the link, then the commit. The unique index and the
\* trigger of migration 0047 abort a second spend, a second link and the spend
\* of a code that has expired since; the handler records each as a spent code.
Link(s) ==
    LET x == txn[s]
        r == code[x.code].renter
    IN  /\ x.pc = "write"
        /\ IF ~Spent(x.code) /\ Unlinked(r) /\ x.code \notin expired
           THEN /\ redemption' = redemption \cup
                       {[code |-> x.code, renter |-> r, tenancy |-> x.tenancy,
                         person |-> x.person]}
                /\ link' = [link EXCEPT ![r] = x.person]
                /\ txn' = [txn EXCEPT ![s] = Idle]
           ELSE /\ Refuse(s, None, "CODE_SPENT")
                /\ UNCHANGED <<redemption, link>>
        /\ UNCHANGED <<code, expired, attempt, publication>>

\* The evidence refers to the code row, so its insert waits for a request
\* that still has the row locked.
PersistRefusal(s) ==
    LET x == txn[s] IN
    /\ x.pc = "refused"
    /\ WaitsFor(s) = {}
    /\ attempt' = attempt \cup {[code |-> x.code, outcome |-> x.outcome]}
    /\ txn' = [txn EXCEPT ![s] = Idle]
    /\ UNCHANGED <<code, expired, redemption, link, publication>>

\* The process dies: its transaction is rolled back, nothing is recorded.
Crash(s) ==
    /\ s \in Redeeming
    /\ txn' = [txn EXCEPT ![s] = Idle]
    /\ UNCHANGED <<code, expired, redemption, link, attempt, publication>>

----------------------------------------------------------------------------
(* Publications. The code stores no UVI artifact yet                       *)
(* (freeze_renter_delivery_artifact refuses the kind), so a source is an   *)
(* archived statement document.                                            *)

Published(d) == publication[d] # Absent

\* Mutant: any archived document of the account can be published.
OwnSourceAny(d, t) == TRUE

\* The archived document belongs to the tenancy the caller names: checked by
\* the handler and again by the foreign key of the publication.
OwnSource(d, t) == Archive[d].tenancy = t

\* A repeated request is answered with the existing row only when it asks
\* for the same publication.
SamePublication(d, t, p) == publication[d] = [tenancy |-> t, supersedes |-> p]

\* Success names the publication; every other answer leaves no trace.
Answer(s, d, t, p, ok) ==
    txn' = [txn EXCEPT ![s] =
               IF ok THEN [pc |-> "answered", source |-> d, tenancy |-> t,
                           supersedes |-> p]
               ELSE Idle]

Publish(s, d, t, p) ==
    /\ txn[s] = Idle
    /\ IF Published(d)
       THEN Answer(s, d, t, p, SamePublication(d, t, p))
       ELSE IF OwnSource(d, t) /\ Archive[d].publishable
       THEN txn' = [txn EXCEPT ![s] =
                       [pc |-> "predecessor", source |-> d, tenancy |-> t,
                        supersedes |-> p]]
       ELSE Answer(s, d, t, p, FALSE)
    /\ UNCHANGED <<code, expired, redemption, link, attempt, publication>>

\* The predecessor is a publication of the same tenancy and type.
VerifyPredecessor(s) ==
    LET x == txn[s]
        p == x.supersedes
    IN  /\ x.pc = "predecessor"
        /\ IF \/ p = None
              \/ /\ Published(p) /\ publication[p].tenancy = x.tenancy
                 /\ Archive[p].type = Archive[x.source].type
           THEN txn' = [txn EXCEPT ![s].pc = "insert"]
           ELSE Answer(s, x.source, x.tenancy, p, FALSE)
        /\ UNCHANGED <<code, expired, redemption, link, attempt, publication>>

\* Mutant: no unique index on the successor of a publication.
SucceededNever(p) == FALSE

\* A publication has one successor, by a unique index.
Succeeded(p) == p # None /\ \E d \in Source : Published(d) /\ publication[d].supersedes = p

\* A unique violation rolls the savepoint back and reads the row that won; when
\* there is none, the predecessor has been superseded by another document.
InsertPublication(s) ==
    LET x == txn[s]
        d == x.source
    IN  /\ x.pc = "insert"
        /\ IF Published(d)
           THEN /\ Answer(s, d, x.tenancy, x.supersedes,
                          SamePublication(d, x.tenancy, x.supersedes))
                /\ UNCHANGED publication
           ELSE IF Succeeded(x.supersedes)
           THEN /\ Answer(s, d, x.tenancy, x.supersedes, FALSE)
                /\ UNCHANGED publication
           ELSE /\ publication' = [publication EXCEPT ![d] =
                       [tenancy |-> x.tenancy, supersedes |-> x.supersedes]]
                /\ Answer(s, d, x.tenancy, x.supersedes, TRUE)
        /\ UNCHANGED <<code, expired, redemption, link, attempt>>

\* The caller takes the answer.
Deliver(s) ==
    /\ txn[s].pc = "answered"
    /\ txn' = [txn EXCEPT ![s] = Idle]
    /\ UNCHANGED <<code, expired, redemption, link, attempt, publication>>

\* app_bootstrap_contexts and the renter policies: what a person may list
\* and download.
TenanciesOf(p) == {t \in Tenancy :
                      \E r \in Renter : link[r] = p /\ <<t, r>> \in Party}

DocumentsOf(p) == {d \in Source :
                      Published(d) /\ publication[d].tenancy \in TenanciesOf(p)}

----------------------------------------------------------------------------

Step(s) ==
    \/ LockCode(s) \/ LockRenter(s) \/ Link(s) \/ PersistRefusal(s)
    \/ VerifyPredecessor(s) \/ InsertPublication(s) \/ Deliver(s)

Next ==
    \/ \E c \in Code : \/ \E t \in Tenancy, r \in Renter : IssueCode(c, t, r)
                       \/ Expire(c)
    \/ \E s \in Session :
          \/ \E p \in Person, t \in Tenancy, c \in Code : BeginRedeem(s, p, t, c)
          \/ \E d \in Source, t \in Tenancy, p \in Source \cup {None} :
                Publish(s, d, t, p)
          \/ Step(s)
          \/ Crash(s)

Spec == Init /\ [][Next]_vars

----------------------------------------------------------------------------

RedeemPc == {"code", "renter", "write"}

Request ==
    {Idle}
    \cup [pc: RedeemPc, person: Person, tenancy: Tenancy, code: Code,
          expired: BOOLEAN]
    \cup [pc: {"refused"}, code: Code \cup {None}, outcome: Outcome]
    \cup [pc: {"predecessor", "insert", "answered"}, source: Source, tenancy: Tenancy,
          supersedes: Source \cup {None}]

\* Every table holds rows of its type, and every request is one the handlers
\* can have in progress.
TypeOK ==
    /\ code \in [Code -> CodeRow \cup {Absent}]
    /\ expired \subseteq Code
    /\ redemption \subseteq RedemptionRow
    /\ link \in [Renter -> Person \cup {None}]
    /\ attempt \subseteq AttemptRow
    /\ publication \in [Source -> PublicationRow \cup {Absent}]
    /\ txn \in [Session -> Request]

\* However the redemptions interleave, a renter has one redemption, a code is
\* spent once, and renter.person_id is exactly the person of that redemption
\* ("one positive writer: successful single-use activation redemption"); and
\* the evidence of a refusal is about the code it names: what is recorded as
\* spent has been redeemed, and "already linked" lost to another code of its
\* renter.
LinkedByRedemption ==
    /\ \A e, f \in redemption : e.renter = f.renter \/ e.code = f.code => e = f
    /\ \A r \in Renter :
          link[r] # None <=> \E e \in redemption : e.renter = r
    /\ \A e \in redemption : /\ link[e.renter] = e.person
                             /\ code[e.code] = [tenancy |-> e.tenancy,
                                                renter |-> e.renter]
    /\ \A a \in attempt :
          /\ a.outcome = "CODE_SPENT" /\ a.code # None => Spent(a.code)
          /\ a.outcome = "RENTER_ALREADY_LINKED" =>
                 \E e \in redemption :
                     e.renter = code[a.code].renter /\ e.code # a.code

\* A person sees a document only after redeeming a code for a party of the
\* tenancy the archived document was made for.
DocumentsOfOwnTenancy ==
    \A p \in Person : \A d \in DocumentsOf(p) :
        \E e \in redemption : /\ e.person = p
                              /\ <<Archive[d].tenancy, e.renter>> \in Party

\* However publications interleave, whoever is answered with success got the
\* publication asked for, its predecessor included, and the versions of a
\* document form chains within their tenancy and type: no fork, no gap, no
\* publication that precedes itself.
PublicationsAreChains ==
    /\ \A s \in Session : txn[s].pc = "answered" =>
          publication[txn[s].source] =
              [tenancy |-> txn[s].tenancy, supersedes |-> txn[s].supersedes]
    /\ \A d \in Source : LET p == publication[d].supersedes IN
          Published(d) /\ p # None =>
              /\ Published(p) /\ publication[p].tenancy = publication[d].tenancy
              /\ Archive[p].type = Archive[d].type
              /\ p # d /\ publication[p].supersedes # d
              /\ \A e \in Source \ {d} :
                    Published(e) => publication[e].supersedes # p

\* No request waits for itself, or for one that waits for it: the refusal is
\* recorded after the transaction with the code's row lock has ended, and the
\* code is always locked before the renter.
NoCircularWait ==
    \A s, t \in Session : t \in WaitsFor(s) => s # t /\ s \notin WaitsFor(t)
=============================================================================
