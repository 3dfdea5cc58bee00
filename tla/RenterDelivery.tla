--------------------------- MODULE RenterDelivery ---------------------------
(***************************************************************************)
(* Delivery of annual statements to renters by e-mail, and the owner's     *)
(* confirmation that a renter received one (apps/api: jobs.py,             *)
(* routers/guards_delivery.py, migration 0025), for one building.          *)
(*                                                                         *)
(* The scheduled job freezes and mails for all renters of a tenancy in one *)
(* transaction. It hands each mail to the provider before it commits, so a *)
(* crash leaves a mail without a row; the provider replays the receipt of  *)
(* a known idempotency key.                                                *)
(***************************************************************************)
EXTENDS Integers, Sequences, FiniteSets

CONSTANTS
    Session,     \* job runs and owner requests in progress
    Archive,     \* tenant statements in the archive, one occurrence each
    Renter,
    Parties,     \* the renters of each archived statement's tenancy
    Email,       \* the address of each renter, None when it is missing
    Blocked,     \* archives with production blockers in their snapshot
    Gateway,     \* configured e-mail gateways, "enforcing" keeps its promise
    Day,         \* delivery dates an owner can state
    Boundary,    \* statutory last days the guards can compute
    MaxEvent,    \* bound: confirmations recorded
    None

ASSUME DeliveryAssumption ==
    /\ IsFiniteSet(Session)
    /\ Parties \in [Archive -> SUBSET Renter]
    /\ DOMAIN Email = Renter
    /\ Blocked \subseteq Archive
    /\ Day \subseteq Int /\ Boundary \subseteq Int
    /\ None \notin Boundary \cup Renter
    /\ MaxEvent \in Nat

VARIABLES
    final,       \* archives whose statement is FINALIZED, not superseded
    schedule,    \* the highest delivery_schedule_version in force
    artifact,    \* renter_delivery_artifact rows
    attempt,     \* email_attempt rows with their status event
    suppressed,  \* recipients of recipient_suppression_event
    evaluation,  \* W1 guard_evaluation rows, by occurrence
    event,       \* guard_resolution_event rows of W1
    mail,        \* what the provider has accepted
    txn          \* open transactions

vars == <<final, schedule, artifact, attempt, suppressed, evaluation, event,
          mail, txn>>

Address == {Email[r] : r \in Renter} \ {None}

Version == [enabled: BOOLEAN, archive: Archive]

ArtifactRow == [archive: Archive, renter: Renter]

Status == {"QUEUED", "BOUNCED"}

AttemptRow == [archive: Archive, renter: Renter, status: Status]

Mail == [archive: Archive, renter: Renter, to: Address, status: Status]

\* A run through the API knows no deadline and stores no boundary date.
EvaluationRow == [renter: Renter, boundary: Boundary \cup {None}]

Absent == [renter |-> None]

EventRow == [archive: Archive, renter: Renter, day: Day, late: BOOLEAN,
             corrects: 0 .. MaxEvent]

Idle == [pc |-> "idle"]

Init ==
    /\ final = Archive
    /\ schedule = None
    /\ artifact = {}
    /\ attempt = {}
    /\ suppressed = {}
    /\ evaluation = [a \in Archive |-> Absent]
    /\ event = <<>>
    /\ mail = <<>>
    /\ txn = [s \in Session |-> Idle]

----------------------------------------------------------------------------
(* Schedules and statements.                                               *)

\* Mutant: the plan is stored without the archive it is for.
CreateScheduleUnbound(e, a) ==
    /\ schedule' = [enabled |-> e, archive |-> None]
    /\ UNCHANGED <<final, artifact, attempt, suppressed, evaluation, event, mail,
                   txn>>

\* A correction supersedes the archived statement.
Supersede(a) ==
    /\ a \in final
    /\ final' = final \ {a}
    /\ UNCHANGED <<schedule, artifact, attempt, suppressed, evaluation, event,
                   mail, txn>>

\* create_delivery_schedule adds the next version. Its number and predecessor
\* are unique, so of two requests that read one version the slower one fails.
CreateSchedule(e, a) ==
    /\ schedule' = [enabled |-> e, archive |-> a]
    /\ UNCHANGED <<final, artifact, attempt, suppressed, evaluation, event, mail,
                   txn>>

----------------------------------------------------------------------------
(* Freezing and dispatching.                                               *)

Row(x) == [archive |-> x.archive, renter |-> x.renter]

\* Rows a transaction sees: the committed ones and its own.
Artifacts(x) == artifact \cup x.artifacts

Attempts(x) == attempt \cup x.attempts

Delivering == {"next", "insert", "check", "claim", "send"}

\* Whether another open transaction has inserted the same unique key.
ArtifactInDoubt(s, row) ==
    \E t \in Session \ {s} :
        txn[t].pc \in Delivering /\ row \in txn[t].artifacts

\* The claim of a transaction that has not sent its mail yet counts too.
ClaimInDoubt(s, row) ==
    \E t \in Session \ {s} :
        /\ txn[t].pc \in Delivering
        /\ \/ \E m \in txn[t].attempts : Row(m) = row
           \/ txn[t].pc = "send" /\ Row(txn[t]) = row

Begin(s, a, todo, g) ==
    txn' = [txn EXCEPT ![s] =
               [pc |-> "next", archive |-> a, todo |-> todo, renter |-> None,
                gateway |-> g, artifacts |-> {}, attempts |-> {},
                bounces |-> {}, known |-> suppressed]]

\* schedule_renter_deliveries takes the highest version; a disabled one ends
\* the run.
StartJob(s, g) ==
    /\ txn[s] = Idle
    /\ schedule # None /\ schedule.enabled
    /\ Begin(s, schedule.archive, Parties[schedule.archive], g)
    /\ UNCHANGED <<final, schedule, artifact, attempt, suppressed, evaluation,
                   event, mail>>

\* create_delivery: the owner sends one frozen artifact.
StartDelivery(s, row, g) ==
    /\ txn[s] = Idle
    /\ row \in artifact
    /\ Begin(s, row.archive, {row.renter}, g)
    /\ UNCHANGED <<final, schedule, artifact, attempt, suppressed, evaluation,
                   event, mail>>

\* An existing artifact is used whatever became of its statement; a new one
\* is frozen from a FINALIZED statement only.
Freeze(s, r) ==
    LET x == txn[s]
        row == [archive |-> x.archive, renter |-> r]
        y == [x EXCEPT !.todo = x.todo \ {r}, !.renter = r]
    IN  /\ x.pc = "next" /\ r \in x.todo
        /\ txn' = [txn EXCEPT ![s] =
               IF row \in Artifacts(x) THEN [y EXCEPT !.pc = "check"]
               ELSE IF x.archive \in final THEN [y EXCEPT !.pc = "insert"]
               ELSE y]
        /\ UNCHANGED <<final, schedule, artifact, attempt, suppressed,
                       evaluation, event, mail>>

\* The insert waits for an open transaction with the same key, and fails the
\* whole run when that one committed.
InsertArtifact(s) ==
    LET x == txn[s] IN
    /\ x.pc = "insert"
    /\ ~ArtifactInDoubt(s, Row(x))
    /\ txn' = [txn EXCEPT ![s] =
           IF Row(x) \in artifact THEN Idle
           ELSE [x EXCEPT !.pc = "check", !.artifacts = @ \cup {Row(x)}]]
    /\ UNCHANGED <<final, schedule, artifact, attempt, suppressed, evaluation,
                   event, mail>>

\* Mutant: the transaction does not see its own status events.
SuppressedBefore(x) == suppressed

\* The suppression rows, derived from the status events by a trigger, those
\* of this transaction included.
Suppressed(x) == suppressed \cup x.bounces

\* Mutant: any configured gateway will do.
GatewayAny(x) == TRUE

\* A provider that replays the receipt of a known key is required.
GatewayReady(x) == x.gateway = "enforcing"

Dispatchable(x) ==
    /\ Email[x.renter] # None
    /\ Email[x.renter] \notin Suppressed(x)
    /\ x.archive \notin Blocked
    /\ GatewayReady(x)

Claimed(x) == \E m \in Attempts(x) : Row(m) = Row(x)

\* Every refusal, and a key that has been claimed, ends this renter's turn.
Check(s) ==
    LET x == txn[s] IN
    /\ x.pc = "check"
    /\ txn' = [txn EXCEPT ![s].pc =
                  IF Dispatchable(x) /\ ~Claimed(x) THEN "claim" ELSE "next"]
    /\ UNCHANGED <<final, schedule, artifact, attempt, suppressed, evaluation,
                   event, mail>>

\* The attempt is flushed before the provider is called.
Claim(s) ==
    LET x == txn[s] IN
    /\ x.pc = "claim"
    /\ ~ClaimInDoubt(s, Row(x))
    /\ txn' = [txn EXCEPT ![s] =
                  IF Claimed(x) THEN Idle ELSE [x EXCEPT !.pc = "send"]]
    /\ UNCHANGED <<final, schedule, artifact, attempt, suppressed, evaluation,
                   event, mail>>

\* The provider's accepted mails under the idempotency key of x.
Accepted(x) == {i \in DOMAIN mail : Row(mail[i]) = Row(x)}

\* An enforcing provider answers a known key with its first receipt.
Replays(x) == x.gateway = "enforcing" /\ Accepted(x) # {}

Send(s) ==
    LET x == txn[s] IN
    /\ x.pc = "send"
    /\ \E status \in IF Replays(x) THEN {mail[i].status : i \in Accepted(x)}
                     ELSE Status :
          /\ mail' = IF Replays(x) THEN mail
                     ELSE Append(mail, [archive |-> x.archive,
                                        renter |-> x.renter,
                                        to |-> Email[x.renter],
                                        status |-> status])
          /\ txn' = [txn EXCEPT ![s] =
                 [x EXCEPT !.pc = "next",
                           !.attempts = @ \cup {[archive |-> x.archive,
                                                 renter |-> x.renter,
                                                 status |-> status]},
                           !.bounces = IF status = "BOUNCED"
                                       THEN @ \cup {Email[x.renter]} ELSE @]]
    /\ UNCHANGED <<final, schedule, artifact, attempt, suppressed, evaluation,
                   event>>

Commit(s) ==
    LET x == txn[s] IN
    /\ x.pc = "next" /\ x.todo = {}
    /\ artifact' = artifact \cup x.artifacts
    /\ attempt' = attempt \cup x.attempts
    /\ suppressed' = suppressed \cup x.bounces
    /\ txn' = [txn EXCEPT ![s] = Idle]
    /\ UNCHANGED <<final, schedule, evaluation, event, mail>>

\* The worker dies, or PostgreSQL resolves a deadlock of two runs: the rows
\* are rolled back, the mails are out.
Crash(s) ==
    /\ txn[s] # Idle
    /\ txn' = [txn EXCEPT ![s] = Idle]
    /\ UNCHANGED <<final, schedule, artifact, attempt, suppressed, evaluation,
                   event, mail>>

----------------------------------------------------------------------------
(* The W1 guard and the owner's confirmation.                              *)

\* Mutant: a later run that knows the boundary replaces the evaluation.
RunGuardsAgain(row, b) ==
    /\ row.renter \in Parties[row.archive]
    /\ b = None => row \in artifact /\ evaluation[row.archive] = Absent
    /\ evaluation' = [evaluation EXCEPT ![row.archive] =
                         [renter |-> row.renter, boundary |-> b]]
    /\ UNCHANGED <<final, schedule, artifact, attempt, suppressed, event, mail,
                   txn>>

\* One evaluation per occurrence; a later run finds it and keeps it. The
\* occurrence names the archive, not the renter. The scheduler that resolves
\* W1 with a boundary is outside the repository; the API's run starts from a
\* frozen artifact.
RunGuards(row, b) ==
    /\ row.renter \in Parties[row.archive]
    /\ b = None => row \in artifact
    /\ evaluation[row.archive] = Absent
    /\ evaluation' = [evaluation EXCEPT ![row.archive] =
                         [renter |-> row.renter, boundary |-> b]]
    /\ UNCHANGED <<final, schedule, artifact, attempt, suppressed, event, mail,
                   txn>>

EventsOf(row) == {i \in DOMAIN event : Row(event[i]) = row}

LastOf(S) == IF S = {} THEN 0 ELSE CHOOSE i \in S : \A j \in S : j <= i

\* The idempotency key of an assertion: the artifact, the date, the evidence.
Asserted(row, d) == \E i \in EventsOf(row) : event[i].day = d

Confirmable(row) ==
    /\ evaluation[row.archive].renter = row.renter
    /\ evaluation[row.archive].boundary # None

Confirming == {s \in Session : txn[s].pc = "confirm"}

\* confirm_delivery: a known assertion changes nothing, any other one after
\* the first is a correction of the latest event it read.
ReadConfirmation(s, row, d) ==
    /\ txn[s] = Idle
    /\ row \in artifact /\ Confirmable(row)
    /\ ~Asserted(row, d)
    /\ Len(event) + Cardinality(Confirming) < MaxEvent
    /\ txn' = [txn EXCEPT ![s] =
                  [pc |-> "confirm", archive |-> row.archive,
                   renter |-> row.renter, day |-> d,
                   corrects |-> LastOf(EventsOf(row))]]
    /\ UNCHANGED <<final, schedule, artifact, attempt, suppressed, evaluation,
                   event, mail>>

\* The key is unique: the same assertion from two requests is stored once.
InsertConfirmation(s) ==
    LET x == txn[s] IN
    /\ x.pc = "confirm"
    /\ event' = IF Asserted(Row(x), x.day) THEN event
                ELSE Append(event,
                        [archive |-> x.archive, renter |-> x.renter,
                         day |-> x.day, corrects |-> x.corrects,
                         late |-> x.day > evaluation[x.archive].boundary])
    /\ txn' = [txn EXCEPT ![s] = Idle]
    /\ UNCHANGED <<final, schedule, artifact, attempt, suppressed, evaluation,
                   mail>>

----------------------------------------------------------------------------

Next ==
    \/ \E a \in Archive : Supersede(a) \/ \E e \in BOOLEAN : CreateSchedule(e, a)
    \/ \E row \in ArtifactRow, b \in Boundary \cup {None} : RunGuards(row, b)
    \/ \E s \in Session :
          \/ \E g \in Gateway : StartJob(s, g)
          \/ \E row \in ArtifactRow, g \in Gateway : StartDelivery(s, row, g)
          \/ \E r \in Renter : Freeze(s, r)
          \/ \E row \in ArtifactRow, d \in Day : ReadConfirmation(s, row, d)
          \/ InsertArtifact(s) \/ Check(s) \/ Claim(s) \/ Send(s) \/ Commit(s)
          \/ InsertConfirmation(s)
          \/ Crash(s)

Spec == Init /\ [][Next]_vars

----------------------------------------------------------------------------

Delivery ==
    [pc: Delivering, archive: Archive, todo: SUBSET Renter,
     renter: Renter \cup {None}, gateway: Gateway,
     artifacts: SUBSET ArtifactRow, attempts: SUBSET AttemptRow,
     bounces: SUBSET Address, known: SUBSET Address]

Request ==
    {Idle} \cup Delivery
    \cup [pc: {"confirm"}, archive: Archive, renter: Renter, day: Day,
          corrects: 0 .. MaxEvent]

\* Every table holds rows of its type, events within their bound.
TypeOK ==
    /\ final \subseteq Archive
    /\ schedule \in Version \cup {None}
    /\ artifact \subseteq ArtifactRow
    /\ attempt \subseteq AttemptRow
    /\ suppressed \subseteq Address
    /\ evaluation \in [Archive -> EvaluationRow \cup {Absent}]
    /\ event \in Seq(EventRow) /\ Len(event) <= MaxEvent
    /\ mail \in Seq(Mail)
    /\ txn \in [Session -> Request]

\* No renter gets a statement twice, whatever crashes after the provider has
\* accepted a mail and however many runs repeat it ("safety across a
\* provider-success/local-rollback window"), and a committed attempt is the
\* record of such a mail: it has the status of the receipt, and after a bounce
\* the address is suppressed.
MailedOnce ==
    /\ \A i, j \in DOMAIN mail : Row(mail[i]) = Row(mail[j]) => i = j
    /\ \A m \in attempt :
          /\ \E i \in DOMAIN mail : /\ Row(mail[i]) = Row(m)
                                    /\ mail[i].status = m.status
          /\ m.status = "BOUNCED" => Email[m.renter] \in suppressed

\* No run mails an address that was suppressed when the run began, or that
\* bounced earlier in the same run: two renters can share an address.
NoMailToSuppressed ==
    [][\A s \in Session :
          (txn[s].pc = "send" /\ mail' # mail /\ txn'[s] # txn[s]) =>
              Email[txn[s].renter] \notin txn[s].known \cup txn[s].bounces]_vars

\* Whether a confirmed delivery is late was decided against the boundary of
\* the W1 evaluation as it still stands, in that renter's own context; and a
\* confirmation corrects an earlier one of the same delivery, two assertions
\* of one date being stored once, retried or concurrent.
ConfirmationsAgree ==
    \A i \in DOMAIN event :
        LET e == evaluation[event[i].archive] IN
        /\ e.renter = event[i].renter /\ e.boundary # None
        /\ event[i].late <=> event[i].day > e.boundary
        /\ event[i].corrects \in {0} \cup (EventsOf(Row(event[i])) \cap 1 .. i - 1)
        /\ \A j \in EventsOf(Row(event[i])) : event[i].day = event[j].day => i = j
=============================================================================
