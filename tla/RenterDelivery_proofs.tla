----------------------- MODULE RenterDelivery_proofs -----------------------
(***************************************************************************)
(* One statement per renter, and confirmations that stay true, for any     *)
(* number of runs, archives, renters and gateways: the properties of       *)
(* RenterDelivery.                                                         *)
(***************************************************************************)
EXTENDS RenterDelivery, SequenceTheorems, FiniteSetTheorems, WellFoundedInduction, TLAPS

Confirmation ==
    [pc: {"confirm"}, archive: Archive, renter: Renter, day: Day,
     corrects: 0 .. MaxEvent]

\* The provider accepted a mail for the row, with the status recorded for it.
Receipted(m) ==
    \E i \in DOMAIN mail : Row(mail[i]) = Row(m) /\ mail[i].status = m.status

\* What a run that delivers knows: its attempts have receipts, and once a
\* renter is dispatchable neither the address nor the gateway changes.
DeliveryClaim(x) ==
    x.pc \in Delivering =>
        /\ x \in Delivery
        /\ x.known \subseteq suppressed
        /\ \A m \in x.attempts :
              Receipted(m) /\ (m.status = "BOUNCED" => Email[m.renter] \in x.bounces)
        /\ x.pc # "next" => x.renter \in Renter
        /\ x.pc \in {"claim", "send"} =>
              /\ Email[x.renter] \in Address \ (x.known \cup x.bounces)
              /\ x.gateway = "enforcing"

\* What a confirmation has read: the evaluation stands, as does the event it
\* corrects.
ConfirmationClaim(x) ==
    x.pc = "confirm" =>
        /\ x \in Confirmation
        /\ evaluation[x.archive].renter = x.renter
        /\ evaluation[x.archive].boundary # None
        /\ x.corrects \in {0} \cup EventsOf(Row(x))

RequestClaim(x) == DeliveryClaim(x) /\ ConfirmationClaim(x)

\* Every confirmation in progress still has room.
EventsBounded == Len(event) + Cardinality(Confirming) <= MaxEvent

DeliveryInv ==
    /\ TypeOK /\ EventsBounded /\ MailedOnce /\ ConfirmationsAgree
    /\ \A s \in Session : RequestClaim(txn[s])

-----------------------------------------------------------------------------
(* Rows and requests.                                                      *)

LEMMA RequestKinds ==
    ASSUME NEW x \in Request
    PROVE  /\ x.pc \in Delivering <=> x \in Delivery
           /\ x.pc = "confirm" <=> x \in Confirmation
           /\ x.pc = "idle" <=> x = Idle
           /\ x.pc \in Delivering \cup {"confirm", "idle"}
  BY DEF Request, Delivery, Delivering, Confirmation, Idle

LEMMA IdleClaim == Idle \in Request /\ Idle.pc = "idle" /\ RequestClaim(Idle)
  BY DEF Idle, Request, RequestClaim, DeliveryClaim, ConfirmationClaim, Delivering

LEMMA EvaluationOf ==
    ASSUME TypeOK, NEW a \in Archive, evaluation[a].renter \in Renter
    PROVE  evaluation[a] \in EvaluationRow /\ evaluation[a] # Absent
  BY DeliveryAssumption DEF TypeOK, Absent, EvaluationRow

LEMMA EventTypes ==
    ASSUME TypeOK
    PROVE  /\ Len(event) \in Nat /\ DOMAIN event = 1 .. Len(event)
           /\ \A i \in DOMAIN event : event[i] \in EventRow
           /\ \A i \in DOMAIN event : /\ event[i].archive \in Archive
                                      /\ event[i].renter \in Renter
                                      /\ event[i].day \in Int
<1>1. event \in Seq(EventRow)
  BY DEF TypeOK
<1>2. \A i \in DOMAIN event : event[i] \in EventRow
  BY <1>1, ElementOfSeq
<1> QED
  BY <1>1, <1>2, LenProperties, DeliveryAssumption DEF EventRow

\* An event was decided against this evaluation.
Decided(v, e) ==
    v.renter = e.renter /\ v.boundary # None /\ (e.late <=> e.day > v.boundary)

EventsIn(ev, row) == {i \in DOMAIN ev : Row(ev[i]) = row}

\* ConfirmationsAgree of any events and evaluations.
Agree(ev, v) ==
    \A i \in DOMAIN ev :
        /\ Decided(v[ev[i].archive], ev[i])
        /\ ev[i].corrects \in {0} \cup (EventsIn(ev, Row(ev[i])) \cap 1 .. i - 1)
        /\ \A j \in EventsIn(ev, Row(ev[i])) : ev[i].day = ev[j].day => i = j

LEMMA AgreeParts == ConfirmationsAgree <=> Agree(event, evaluation)
  BY DEF ConfirmationsAgree, Agree, Decided, EventsOf, EventsIn

\* The latest of some events is one of them.
LEMMA LastIsOne ==
    ASSUME NEW n \in Nat, NEW S \in SUBSET (1 .. n), S # {}
    PROVE  LastOf(S) \in S
<1> DEFINE D == {n - i : i \in S}
<1>0. \A i \in S : i \in Int /\ n - i \in Nat
  OBVIOUS
<1>1. D \subseteq Nat /\ D # {}
  <2>1. D \subseteq Nat
    BY <1>0
  <2>2. PICK i : i \in S
    OBVIOUS
  <2>3. n - i \in D
    BY <2>2
  <2> QED
    BY <2>1, <2>3
<1>2. PICK d \in D : \A e \in D : ~(<<e, d>> \in OpToRel(<, Nat))
  BY <1>1, WFMin, NatLessThanWellFounded, Zenon
<1>3. \A e \in D : ~(e < d)
  BY <1>1, <1>2 DEF OpToRel
<1>4. PICK i \in S : d = n - i
  OBVIOUS
<1>5. \A j \in S : j <= i
  BY <1>3, <1>4
<1> QED
  BY <1>5 DEF LastOf

\* Nobody is confirming who was not, except the request that moved.
LEMMA ConfirmingMoves ==
    ASSUME DeliveryAssumption, NEW s \in Session, NEW y,
           txn \in [Session -> Request], txn' = [txn EXCEPT ![s] = y]
    PROVE  /\ Confirming' = (Confirming \ {s}) \cup (IF y.pc = "confirm" THEN {s} ELSE {})
           /\ Cardinality(Confirming) \in Nat /\ Cardinality(Confirming') \in Nat
           /\ Cardinality(Confirming') <= Cardinality(Confirming) + 1
           /\ y.pc # "confirm" => Cardinality(Confirming') <= Cardinality(Confirming)
           /\ y.pc # "confirm" /\ txn[s].pc = "confirm" =>
                 Cardinality(Confirming') = Cardinality(Confirming) - 1
<1>1. Confirming' = (Confirming \ {s}) \cup (IF y.pc = "confirm" THEN {s} ELSE {})
  BY DEF Confirming
<1>2. IsFiniteSet(Confirming)
  BY FS_Subset DEF Confirming, DeliveryAssumption
<1>3. /\ IsFiniteSet(Confirming \ {s})
      /\ Cardinality(Confirming \ {s}) = IF s \in Confirming THEN Cardinality(Confirming) - 1
                                         ELSE Cardinality(Confirming)
  BY <1>2, FS_RemoveElement
<1>4. /\ IsFiniteSet((Confirming \ {s}) \cup {s})
      /\ Cardinality((Confirming \ {s}) \cup {s}) = Cardinality(Confirming \ {s}) + 1
  BY <1>3, FS_AddElement
<1>5. Cardinality(Confirming) \in Nat /\ Cardinality(Confirming \ {s}) \in Nat
  BY <1>2, <1>3, FS_CardinalityType
<1>6. CASE y.pc = "confirm"
  <2>1. Confirming' = (Confirming \ {s}) \cup {s}
    BY <1>1, <1>6
  <2> QED
    BY <1>1, <1>3, <1>4, <1>5, <1>6, <2>1
<1>7. CASE y.pc # "confirm"
  <2>1. Confirming' = Confirming \ {s}
    BY <1>1, <1>7
  <2>2. txn[s].pc = "confirm" => s \in Confirming
    BY DEF Confirming
  <2> QED
    BY <1>1, <1>3, <1>5, <1>7, <2>1, <2>2
<1> QED
  BY <1>6, <1>7

-----------------------------------------------------------------------------
(* What a request has read stays true while the tables grow.               *)

Grows ==
    /\ suppressed \subseteq suppressed'
    /\ \A i \in DOMAIN mail : i \in DOMAIN mail' /\ mail'[i] = mail[i]
    /\ \A i \in DOMAIN event : i \in DOMAIN event' /\ event'[i] = event[i]
    /\ \A a \in Archive : evaluation[a] # Absent => evaluation'[a] = evaluation[a]

LEMMA ClaimKept ==
    ASSUME TypeOK, Grows, NEW x, RequestClaim(x)
    PROVE  RequestClaim(x)'
<1>1. ASSUME x.pc \in Delivering PROVE DeliveryClaim(x)'
  <2>1. /\ x \in Delivery /\ x.known \subseteq suppressed'
        /\ x.pc # "next" => x.renter \in Renter
        /\ x.pc \in {"claim", "send"} =>
              /\ Email[x.renter] \in Address \ (x.known \cup x.bounces)
              /\ x.gateway = "enforcing"
        /\ \A m \in x.attempts :
              Receipted(m) /\ (m.status = "BOUNCED" => Email[m.renter] \in x.bounces)
    BY <1>1 DEF RequestClaim, DeliveryClaim, Grows
  <2>2. \A m : Receipted(m) => Receipted(m)'
    BY DEF Grows, Receipted, Row
  <2> QED
    BY <2>1, <2>2 DEF DeliveryClaim
<1>2. ASSUME x.pc = "confirm" PROVE ConfirmationClaim(x)'
  <2>1. /\ x \in Confirmation
        /\ evaluation[x.archive].renter = x.renter
        /\ evaluation[x.archive].boundary # None
        /\ x.corrects \in {0} \cup EventsOf(Row(x))
    BY <1>2 DEF RequestClaim, ConfirmationClaim
  <2>2. x.archive \in Archive /\ x.renter \in Renter
    BY <2>1 DEF Confirmation
  <2>3. evaluation'[x.archive] = evaluation[x.archive]
    BY <2>1, <2>2, EvaluationOf DEF Grows
  <2>4. EventsOf(Row(x)) \subseteq EventsOf(Row(x))'
    BY DEF Grows, EventsOf, Row
  <2> QED
    BY <2>1, <2>3, <2>4 DEF ConfirmationClaim
<1> QED
  BY <1>1, <1>2 DEF RequestClaim, DeliveryClaim, ConfirmationClaim

\* The rows that are there keep what the invariant says of them.
LEMMA RowsKept ==
    ASSUME DeliveryInv, TypeOK', Grows, UNCHANGED <<attempt, event, mail>>
    PROVE  MailedOnce' /\ ConfirmationsAgree'
<1>1. MailedOnce'
  BY DEF DeliveryInv, MailedOnce, Grows, Row
<1>2. ConfirmationsAgree'
  <2>1. \A i \in DOMAIN event : event[i].archive \in Archive /\ event[i].renter \in Renter
    BY EventTypes DEF DeliveryInv
  <2>2. \A i \in DOMAIN event : evaluation[event[i].archive].renter = event[i].renter
    BY DEF DeliveryInv, ConfirmationsAgree
  <2>3. \A i \in DOMAIN event : evaluation'[event[i].archive] = evaluation[event[i].archive]
    BY <2>1, <2>2, EvaluationOf DEF DeliveryInv, Grows
  <2>4. \A row : EventsOf(row)' = EventsOf(row)
    BY DEF EventsOf, Row
  <2> QED
    BY <2>3, <2>4 DEF DeliveryInv, ConfirmationsAgree, Row
<1> QED
  BY <1>1, <1>2

\* A step of one request that leaves events and mails alone.
LEMMA RequestStep ==
    ASSUME DeliveryInv, Grows, NEW s \in Session, NEW y \in Request,
           txn' = [txn EXCEPT ![s] = y], y.pc # "confirm", RequestClaim(y),
           UNCHANGED <<final, schedule, artifact, attempt, suppressed, evaluation,
                       event, mail>>
    PROVE  DeliveryInv'
<1>1. TypeOK'
  BY DEF DeliveryInv, TypeOK
<1>2. MailedOnce' /\ ConfirmationsAgree'
  BY <1>1, RowsKept
<1>3. EventsBounded'
  <2>1. Cardinality(Confirming') <= Cardinality(Confirming)
        /\ Cardinality(Confirming) \in Nat /\ Cardinality(Confirming') \in Nat
    BY ConfirmingMoves, DeliveryAssumption DEF DeliveryInv, TypeOK
  <2> QED
    BY <2>1, EventTypes, DeliveryAssumption DEF DeliveryInv, EventsBounded
<1>4. ASSUME NEW t \in Session PROVE RequestClaim(txn[t])'
  <2>1. CASE t = s
    <3>1. txn'[t] = y
      BY <2>1 DEF DeliveryInv, TypeOK
    <3>2. RequestClaim(y)'
      BY ClaimKept DEF DeliveryInv
    <3> QED
      BY <3>1, <3>2
  <2>2. CASE t # s
    <3>1. PICK x : x = txn[t]
      OBVIOUS
    <3>2. RequestClaim(x)'
      BY <3>1, ClaimKept DEF DeliveryInv
    <3>3. txn'[t] = x
      BY <2>2, <3>1 DEF DeliveryInv, TypeOK
    <3> QED
      BY <3>2, <3>3
  <2> QED
    BY <2>1, <2>2
<1> QED
  BY <1>1, <1>2, <1>3, <1>4 DEF DeliveryInv

-----------------------------------------------------------------------------
(* The steps that start, freeze, insert, check and claim.                  *)

LEMMA InitDelivery == Init => DeliveryInv
<1> SUFFICES ASSUME Init PROVE DeliveryInv
  OBVIOUS
<1>1. TypeOK
  BY IdleClaim, DeliveryAssumption DEF Init, TypeOK
<1>2. EventsBounded
  <2>1. Confirming = {}
    BY IdleClaim DEF Init, Confirming
  <2>2. Cardinality(Confirming) = 0
    BY <2>1, FS_EmptySet
  <2> QED
    BY <2>2, DeliveryAssumption DEF Init, EventsBounded
<1>3. MailedOnce /\ ConfirmationsAgree
  BY DEF Init, MailedOnce, ConfirmationsAgree
<1>4. \A s \in Session : RequestClaim(txn[s])
  BY IdleClaim DEF Init
<1> QED
  BY <1>1, <1>2, <1>3, <1>4 DEF DeliveryInv

\* Nothing but the transactions changes: all that was there is still there.
LEMMA TablesStand ==
    ASSUME UNCHANGED <<suppressed, evaluation, event, mail>> PROVE Grows
  BY DEF Grows

LEMMA BeginKeeps ==
    ASSUME DeliveryInv, NEW s \in Session, NEW a \in Archive, NEW todo \in SUBSET Renter,
           NEW g \in Gateway, Begin(s, a, todo, g),
           UNCHANGED <<final, schedule, artifact, attempt, suppressed, evaluation,
                       event, mail>>
    PROVE  DeliveryInv'
<1>1. PICK y : y = [pc |-> "next", archive |-> a, todo |-> todo, renter |-> None,
                    gateway |-> g, artifacts |-> {}, attempts |-> {},
                    bounces |-> {}, known |-> suppressed]
  OBVIOUS
<1>2. y \in Delivery
  BY <1>1 DEF Delivery, Delivering, DeliveryInv, TypeOK
<1>3. RequestClaim(y)
  BY <1>1, <1>2 DEF RequestClaim, DeliveryClaim, ConfirmationClaim
<1>4. y \in Request /\ y.pc # "confirm"
  BY <1>1, <1>2 DEF Request
<1>5. txn' = [txn EXCEPT ![s] = y]
  BY <1>1 DEF Begin
<1> QED
  BY <1>3, <1>4, <1>5, TablesStand, RequestStep

LEMMA StartJobKeeps ==
    ASSUME DeliveryInv, NEW s \in Session, NEW g \in Gateway, StartJob(s, g)
    PROVE  DeliveryInv'
<1>1. schedule.archive \in Archive
  BY DEF StartJob, DeliveryInv, TypeOK, Version
<1>2. Parties[schedule.archive] \in SUBSET Renter
  BY <1>1, DeliveryAssumption
<1> QED
  BY <1>1, <1>2, BeginKeeps DEF StartJob

LEMMA StartDeliveryKeeps ==
    ASSUME DeliveryInv, NEW s \in Session, NEW g \in Gateway, NEW row \in ArtifactRow,
           StartDelivery(s, row, g)
    PROVE  DeliveryInv'
<1>1. row.archive \in Archive /\ {row.renter} \in SUBSET Renter
  BY DEF ArtifactRow
<1> QED
  BY <1>1, BeginKeeps DEF StartDelivery

LEMMA IdleKeeps ==
    ASSUME DeliveryInv, NEW s \in Session, txn' = [txn EXCEPT ![s] = Idle],
           UNCHANGED <<final, schedule, artifact, attempt, suppressed, evaluation,
                       event, mail>>
    PROVE  DeliveryInv'
  BY IdleClaim, TablesStand, RequestStep

\* A delivery that goes on with the same attempts and bounces.
LEMMA SameAttempts ==
    ASSUME NEW x, NEW y, RequestClaim(x), x.pc \in Delivering, y \in Delivery,
           y.known = x.known, y.attempts = x.attempts, y.bounces = x.bounces,
           y.pc # "next" => y.renter \in Renter,
           y.pc \in {"claim", "send"} =>
              /\ Email[y.renter] \in Address \ (y.known \cup y.bounces)
              /\ y.gateway = "enforcing"
    PROVE  RequestClaim(y) /\ y \in Request /\ y.pc # "confirm"
<1>1. y.pc \in Delivering /\ y.pc # "confirm" /\ y \in Request
  BY DEF Delivery, Delivering, Request
<1>2. DeliveryClaim(y)
  BY DEF RequestClaim, DeliveryClaim
<1> QED
  BY <1>1, <1>2 DEF RequestClaim, ConfirmationClaim

LEMMA FreezeKeeps ==
    ASSUME DeliveryInv, NEW s \in Session, NEW r \in Renter, Freeze(s, r)
    PROVE  DeliveryInv'
<1>1. PICK x : x = txn[s]
  OBVIOUS
<1>2. x.pc = "next" /\ RequestClaim(x) /\ x \in Delivery
  BY <1>1 DEF Freeze, DeliveryInv, RequestClaim, DeliveryClaim, Delivering
<1>3. PICK y : y = [x EXCEPT !.todo = x.todo \ {r}, !.renter = r]
  OBVIOUS
<1>4. PICK z : z = IF [archive |-> x.archive, renter |-> r] \in Artifacts(x)
                   THEN [y EXCEPT !.pc = "check"]
                   ELSE IF x.archive \in final THEN [y EXCEPT !.pc = "insert"] ELSE y
  OBVIOUS
<1>5. /\ y \in Delivery /\ y.pc = "next" /\ y.renter = r /\ y.known = x.known
      /\ y.attempts = x.attempts /\ y.bounces = x.bounces
  BY <1>2, <1>3 DEF Delivery
<1>6. /\ z \in Delivery /\ z.pc \in {"next", "check", "insert"} /\ z.renter = r
      /\ z.known = x.known /\ z.attempts = x.attempts /\ z.bounces = x.bounces
  BY <1>4, <1>5 DEF Delivery, Delivering
<1>7. RequestClaim(z) /\ z \in Request /\ z.pc # "confirm"
  BY <1>2, <1>6, SameAttempts DEF Delivering
<1>8. /\ txn' = [txn EXCEPT ![s] = z]
      /\ UNCHANGED <<final, schedule, artifact, attempt, suppressed, evaluation, event, mail>>
  BY <1>1, <1>3, <1>4 DEF Freeze
<1> QED
  BY <1>7, <1>8, TablesStand, RequestStep

LEMMA InsertArtifactKeeps ==
    ASSUME DeliveryInv, NEW s \in Session, InsertArtifact(s)
    PROVE  DeliveryInv'
<1>1. PICK x : x = txn[s]
  OBVIOUS
<1>2. x.pc = "insert" /\ RequestClaim(x) /\ x \in Delivery /\ x.renter \in Renter
  BY <1>1 DEF InsertArtifact, DeliveryInv, RequestClaim, DeliveryClaim, Delivering
<1>3. CASE Row(x) \in artifact
  BY <1>1, <1>3, IdleKeeps DEF InsertArtifact
<1>4. CASE Row(x) \notin artifact
  <2>1. PICK y : y = [x EXCEPT !.pc = "check", !.artifacts = x.artifacts \cup {Row(x)}]
    OBVIOUS
  <2>2. Row(x) \in ArtifactRow
    BY <1>2 DEF Row, ArtifactRow, Delivery
  <2>3. /\ y \in Delivery /\ y.pc = "check" /\ y.renter = x.renter /\ y.known = x.known
        /\ y.attempts = x.attempts /\ y.bounces = x.bounces
    BY <1>2, <2>1, <2>2 DEF Delivery, Delivering
  <2>4. RequestClaim(y) /\ y \in Request /\ y.pc # "confirm"
    BY <1>2, <2>3, SameAttempts DEF Delivering
  <2>5. /\ txn' = [txn EXCEPT ![s] = y]
        /\ UNCHANGED <<final, schedule, artifact, attempt, suppressed, evaluation, event, mail>>
    BY <1>1, <1>4, <2>1 DEF InsertArtifact
  <2> QED
    BY <2>4, <2>5, TablesStand, RequestStep
<1> QED
  BY <1>3, <1>4

LEMMA CheckKeeps ==
    ASSUME DeliveryInv, NEW s \in Session, Check(s)
    PROVE  DeliveryInv'
<1>1. PICK x : x = txn[s]
  OBVIOUS
<1>2. x.pc = "check" /\ RequestClaim(x) /\ x \in Delivery /\ x.renter \in Renter
  BY <1>1 DEF Check, DeliveryInv, RequestClaim, DeliveryClaim, Delivering
<1>3. PICK y : y = [x EXCEPT !.pc = IF Dispatchable(x) /\ ~Claimed(x) THEN "claim" ELSE "next"]
  OBVIOUS
<1>4. /\ y \in Delivery /\ y.pc \in {"claim", "next"} /\ y.renter = x.renter
      /\ y.known = x.known /\ y.attempts = x.attempts /\ y.bounces = x.bounces
      /\ y.gateway = x.gateway
      /\ y.pc = "claim" => Dispatchable(x)
  BY <1>2, <1>3 DEF Delivery, Delivering
<1>5. x.known \subseteq suppressed
  BY <1>2 DEF RequestClaim, DeliveryClaim, Delivering
<1>6. Dispatchable(x) => /\ Email[x.renter] \in Address \ (x.known \cup x.bounces)
                         /\ x.gateway = "enforcing"
  BY <1>2, <1>5 DEF Dispatchable, Suppressed, GatewayReady, Address
<1>7. RequestClaim(y) /\ y \in Request /\ y.pc # "confirm"
  BY <1>2, <1>4, <1>6, SameAttempts DEF Delivering
<1>8. /\ txn' = [txn EXCEPT ![s] = y]
      /\ UNCHANGED <<final, schedule, artifact, attempt, suppressed, evaluation, event, mail>>
  BY <1>1, <1>3 DEF Check, DeliveryInv, TypeOK
<1> QED
  BY <1>7, <1>8, TablesStand, RequestStep

LEMMA ClaimKeeps ==
    ASSUME DeliveryInv, NEW s \in Session, Claim(s)
    PROVE  DeliveryInv'
<1>1. PICK x : x = txn[s]
  OBVIOUS
<1>2. /\ x.pc = "claim" /\ RequestClaim(x) /\ x \in Delivery /\ x.renter \in Renter
      /\ Email[x.renter] \in Address \ (x.known \cup x.bounces)
      /\ x.gateway = "enforcing"
  BY <1>1 DEF Claim, DeliveryInv, RequestClaim, DeliveryClaim, Delivering
<1>3. CASE Claimed(x)
  BY <1>1, <1>3, IdleKeeps DEF Claim
<1>4. CASE ~Claimed(x)
  <2>1. PICK y : y = [x EXCEPT !.pc = "send"]
    OBVIOUS
  <2>2. /\ y \in Delivery /\ y.pc = "send" /\ y.renter = x.renter
        /\ y.known = x.known /\ y.attempts = x.attempts /\ y.bounces = x.bounces
        /\ y.gateway = x.gateway
    BY <1>2, <2>1 DEF Delivery, Delivering
  <2>3. RequestClaim(y) /\ y \in Request /\ y.pc # "confirm"
    BY <1>2, <2>2, SameAttempts DEF Delivering
  <2>4. /\ txn' = [txn EXCEPT ![s] = y]
        /\ UNCHANGED <<final, schedule, artifact, attempt, suppressed, evaluation, event, mail>>
    BY <1>1, <1>4, <2>1 DEF Claim
  <2> QED
    BY <2>3, <2>4, TablesStand, RequestStep
<1> QED
  BY <1>3, <1>4

-----------------------------------------------------------------------------
(* The steps that change the tables.                                       *)

\* A step of no request that leaves events and mails alone.
LEMMA TableStep ==
    ASSUME DeliveryInv, TypeOK', Grows, UNCHANGED <<attempt, event, mail, txn>>
    PROVE  DeliveryInv'
<1>1. MailedOnce' /\ ConfirmationsAgree'
  BY RowsKept
<1>2. EventsBounded'
  <2>1. Confirming' = Confirming
    BY DEF Confirming
  <2> QED
    BY <2>1 DEF DeliveryInv, EventsBounded
<1>3. ASSUME NEW t \in Session PROVE RequestClaim(txn[t])'
  <2>1. PICK x : x = txn[t]
    OBVIOUS
  <2>2. RequestClaim(x)'
    BY <2>1, ClaimKept DEF DeliveryInv
  <2> QED
    BY <2>1, <2>2
<1> QED
  BY <1>1, <1>2, <1>3 DEF DeliveryInv

LEMMA OwnerKeeps ==
    ASSUME DeliveryInv, NEW a \in Archive, NEW e \in BOOLEAN,
           Supersede(a) \/ CreateSchedule(e, a)
    PROVE  DeliveryInv'
<1>1. TypeOK'
  BY DEF DeliveryInv, TypeOK, Supersede, CreateSchedule, Version
<1>2. UNCHANGED <<attempt, suppressed, evaluation, event, mail, txn>>
  BY DEF Supersede, CreateSchedule
<1> QED
  BY <1>1, <1>2, TablesStand, TableStep

LEMMA RunGuardsKeeps ==
    ASSUME DeliveryInv, NEW row \in ArtifactRow, NEW b \in Boundary \cup {None},
           RunGuards(row, b)
    PROVE  DeliveryInv'
<1>1. /\ evaluation[row.archive] = Absent
      /\ evaluation' = [evaluation EXCEPT ![row.archive] =
                           [renter |-> row.renter, boundary |-> b]]
      /\ UNCHANGED <<final, schedule, artifact, attempt, suppressed, event, mail, txn>>
  BY DEF RunGuards
<1>2. row.archive \in Archive /\ [renter |-> row.renter, boundary |-> b] \in EvaluationRow
  BY DEF ArtifactRow, EvaluationRow
<1>3. TypeOK'
  BY <1>1, <1>2 DEF DeliveryInv, TypeOK
<1>4. Grows
  BY <1>1, <1>2 DEF Grows, DeliveryInv, TypeOK
<1> QED
  BY <1>1, <1>3, <1>4, TableStep

\* The provider enforces the key: either it has no mail for the row yet, or it
\* answers with the receipt of the one it has.
LEMMA SendKeeps ==
    ASSUME DeliveryInv, NEW s \in Session, Send(s)
    PROVE  DeliveryInv'
<1>1. PICK x : x = txn[s]
  OBVIOUS
<1>2. /\ x.pc = "send" /\ RequestClaim(x) /\ x \in Delivery /\ x.renter \in Renter
      /\ Email[x.renter] \in Address /\ x.gateway = "enforcing"
  BY <1>1 DEF Send, DeliveryInv, RequestClaim, DeliveryClaim, Delivering
<1>3. mail \in Seq(Mail) /\ \A i \in DOMAIN mail : mail[i] \in Mail
  BY ElementOfSeq DEF DeliveryInv, TypeOK
<1>4. PICK status \in IF Replays(x) THEN {mail[i].status : i \in Accepted(x)} ELSE Status :
         /\ mail' = IF Replays(x) THEN mail
                    ELSE Append(mail, [archive |-> x.archive, renter |-> x.renter,
                                       to |-> Email[x.renter], status |-> status])
         /\ txn' = [txn EXCEPT ![s] =
                [x EXCEPT !.pc = "next",
                          !.attempts = @ \cup {[archive |-> x.archive,
                                                renter |-> x.renter,
                                                status |-> status]},
                          !.bounces = IF status = "BOUNCED"
                                      THEN @ \cup {Email[x.renter]} ELSE @]]
  BY <1>1 DEF Send
<1>5. UNCHANGED <<final, schedule, artifact, attempt, suppressed, evaluation, event>>
  BY DEF Send
<1>6. status \in Status
  BY <1>3, <1>4 DEF Accepted, Mail
<1>7. PICK m : m = [archive |-> x.archive, renter |-> x.renter, status |-> status]
  OBVIOUS
<1>8. PICK y : y = [x EXCEPT !.pc = "next", !.attempts = x.attempts \cup {m},
                             !.bounces = IF status = "BOUNCED"
                                         THEN x.bounces \cup {Email[x.renter]}
                                         ELSE x.bounces]
  OBVIOUS
<1>9. txn' = [txn EXCEPT ![s] = y]
  BY <1>4, <1>7, <1>8
<1>10. /\ m \in AttemptRow /\ Row(m) = Row(x)
       /\ m.status = status /\ m.renter = x.renter
  BY <1>2, <1>6, <1>7 DEF AttemptRow, Delivery, Row
<1>11. /\ y \in Delivery /\ y.pc = "next" /\ y.known = x.known
       /\ y.attempts = x.attempts \cup {m}
       /\ x.bounces \subseteq y.bounces
       /\ status = "BOUNCED" => Email[x.renter] \in y.bounces
  BY <1>2, <1>8, <1>10 DEF Delivery, Delivering
<1>12. /\ mail' \in Seq(Mail)
       /\ \A i \in DOMAIN mail : i \in DOMAIN mail' /\ mail'[i] = mail[i]
       /\ \E i \in DOMAIN mail' : Row(mail'[i]) = Row(x) /\ mail'[i].status = status
       /\ \A i, j \in DOMAIN mail' : Row(mail'[i]) = Row(mail'[j]) => i = j
  <2>1. CASE Replays(x)
    BY <1>3, <1>4, <2>1 DEF Accepted, DeliveryInv, MailedOnce
  <2>2. CASE ~Replays(x)
    <3>1. PICK e : e = [archive |-> x.archive, renter |-> x.renter,
                        to |-> Email[x.renter], status |-> status]
      OBVIOUS
    <3>2. e \in Mail /\ Row(e) = Row(x) /\ e.status = status
      BY <1>2, <1>6, <3>1 DEF Mail, Delivery, Row
    <3>3. mail' = Append(mail, e)
      BY <1>4, <2>2, <3>1
    <3>4. \A i \in DOMAIN mail : Row(mail[i]) # Row(x)
      BY <1>2, <2>2 DEF Replays, Accepted
    <3>5. /\ mail' \in Seq(Mail)
          /\ DOMAIN mail' = DOMAIN mail \cup {Len(mail) + 1}
          /\ \A i \in DOMAIN mail : mail'[i] = mail[i]
          /\ mail'[Len(mail) + 1] = e
      BY <1>3, <3>2, <3>3, AppendProperties
    <3>6. \A i, j \in DOMAIN mail' : Row(mail'[i]) = Row(mail'[j]) => i = j
      BY <3>2, <3>4, <3>5 DEF DeliveryInv, MailedOnce
    <3> QED
      BY <3>2, <3>5, <3>6
  <2> QED
    BY <2>1, <2>2
<1>13. Grows
  BY <1>5, <1>12 DEF Grows
<1>14. RequestClaim(y)'
  <2>1. \A n \in x.attempts :
           Receipted(n) /\ (n.status = "BOUNCED" => Email[n.renter] \in x.bounces)
    BY <1>2 DEF RequestClaim, DeliveryClaim, Delivering
  <2>2. \A n : Receipted(n) => Receipted(n)'
    BY <1>12 DEF Receipted, Row
  <2>3. Receipted(m)'
    BY <1>10, <1>12 DEF Receipted, Row
  <2>4. x.known \subseteq suppressed
    BY <1>2 DEF RequestClaim, DeliveryClaim, Delivering
  <2>5. DeliveryClaim(y)'
    BY <1>5, <1>10, <1>11, <2>1, <2>2, <2>3, <2>4 DEF DeliveryClaim
  <2> QED
    BY <1>11, <2>5 DEF RequestClaim, ConfirmationClaim
<1>15. TypeOK'
  BY <1>5, <1>9, <1>11, <1>12 DEF DeliveryInv, TypeOK, Request
<1>16. MailedOnce'
  <2>1. \A m1 \in attempt :
           Receipted(m1) /\ (m1.status = "BOUNCED" => Email[m1.renter] \in suppressed)
    BY DEF DeliveryInv, MailedOnce, Receipted
  <2>2. \A m1 : Receipted(m1) => Receipted(m1)'
    BY <1>12 DEF Receipted, Row
  <2> QED
    BY <1>5, <1>12, <2>1, <2>2 DEF MailedOnce, Receipted
<1>17. ConfirmationsAgree'
  BY <1>5 DEF DeliveryInv, ConfirmationsAgree, EventsOf, Row
<1>18. EventsBounded'
  <2>1. Cardinality(Confirming') <= Cardinality(Confirming)
        /\ Cardinality(Confirming) \in Nat /\ Cardinality(Confirming') \in Nat
    BY <1>9, <1>11, ConfirmingMoves, DeliveryAssumption DEF DeliveryInv, TypeOK
  <2> QED
    BY <1>5, <2>1, EventTypes, DeliveryAssumption DEF DeliveryInv, EventsBounded
<1>19. ASSUME NEW t \in Session PROVE RequestClaim(txn[t])'
  <2>1. CASE t = s
    BY <1>9, <1>14, <2>1 DEF DeliveryInv, TypeOK
  <2>2. CASE t # s
    <3>1. PICK z : z = txn[t]
      OBVIOUS
    <3>2. RequestClaim(z)'
      BY <1>13, <3>1, ClaimKept DEF DeliveryInv
    <3>3. txn'[t] = z
      BY <1>9, <2>2, <3>1 DEF DeliveryInv, TypeOK
    <3> QED
      BY <3>2, <3>3
  <2> QED
    BY <2>1, <2>2
<1> QED
  BY <1>15, <1>16, <1>17, <1>18, <1>19 DEF DeliveryInv

LEMMA CommitKeeps ==
    ASSUME DeliveryInv, NEW s \in Session, Commit(s)
    PROVE  DeliveryInv'
<1>1. PICK x : x = txn[s]
  OBVIOUS
<1>2. x.pc = "next" /\ RequestClaim(x) /\ x \in Delivery
  BY <1>1 DEF Commit, DeliveryInv, RequestClaim, DeliveryClaim, Delivering
<1>3. /\ artifact' = artifact \cup x.artifacts /\ attempt' = attempt \cup x.attempts
      /\ suppressed' = suppressed \cup x.bounces /\ txn' = [txn EXCEPT ![s] = Idle]
      /\ UNCHANGED <<final, schedule, evaluation, event, mail>>
  BY <1>1 DEF Commit
<1>4. /\ x.artifacts \subseteq ArtifactRow /\ x.attempts \subseteq AttemptRow
      /\ x.bounces \subseteq Address
  BY <1>2 DEF Delivery
<1>5. TypeOK'
  BY <1>3, <1>4, IdleClaim DEF DeliveryInv, TypeOK
<1>6. Grows
  BY <1>3 DEF Grows
<1>7. MailedOnce'
  <2>1. \A m \in x.attempts :
           Receipted(m) /\ (m.status = "BOUNCED" => Email[m.renter] \in x.bounces)
    BY <1>2 DEF RequestClaim, DeliveryClaim, Delivering
  <2>2. \A m \in attempt :
           Receipted(m) /\ (m.status = "BOUNCED" => Email[m.renter] \in suppressed)
    BY DEF DeliveryInv, MailedOnce, Receipted
  <2>3. \A m \in attempt' :
           Receipted(m) /\ (m.status = "BOUNCED" => Email[m.renter] \in suppressed')
    BY <1>3, <2>1, <2>2
  <2>4. \A m : Receipted(m)' <=> Receipted(m)
    BY <1>3 DEF Receipted, Row
  <2>5. \A m \in attempt' : Receipted(m)'
    BY <2>3, <2>4
  <2>6. \A i, j \in DOMAIN mail' : Row(mail'[i]) = Row(mail'[j]) => i = j
    BY <1>3 DEF DeliveryInv, MailedOnce
  <2> QED
    BY <2>3, <2>5, <2>6 DEF MailedOnce, Receipted
<1>8. ConfirmationsAgree'
  BY <1>3 DEF DeliveryInv, ConfirmationsAgree, EventsOf, Row
<1>9. EventsBounded'
  <2>1. Cardinality(Confirming') <= Cardinality(Confirming)
        /\ Cardinality(Confirming) \in Nat /\ Cardinality(Confirming') \in Nat
    BY <1>3, IdleClaim, ConfirmingMoves, DeliveryAssumption DEF DeliveryInv, TypeOK
  <2> QED
    BY <1>3, <2>1, EventTypes, DeliveryAssumption DEF DeliveryInv, EventsBounded
<1>10. ASSUME NEW t \in Session PROVE RequestClaim(txn[t])'
  <2>1. CASE t = s
    <3>1. RequestClaim(Idle)'
      BY IdleClaim DEF RequestClaim, DeliveryClaim, ConfirmationClaim, Delivering
    <3> QED
      BY <1>3, <2>1, <3>1 DEF DeliveryInv, TypeOK
  <2>2. CASE t # s
    <3>1. PICK z : z = txn[t]
      OBVIOUS
    <3>2. RequestClaim(z)'
      BY <1>6, <3>1, ClaimKept DEF DeliveryInv
    <3>3. txn'[t] = z
      BY <1>3, <2>2, <3>1 DEF DeliveryInv, TypeOK
    <3> QED
      BY <3>2, <3>3
  <2> QED
    BY <2>1, <2>2
<1> QED
  BY <1>5, <1>7, <1>8, <1>9, <1>10 DEF DeliveryInv

-----------------------------------------------------------------------------
(* Confirmations.                                                          *)

LEMMA ReadConfirmationKeeps ==
    ASSUME DeliveryInv, NEW s \in Session, NEW row \in ArtifactRow, NEW d \in Day,
           ReadConfirmation(s, row, d)
    PROVE  DeliveryInv'
<1>1. PICK y : y = [pc |-> "confirm", archive |-> row.archive, renter |-> row.renter,
                    day |-> d, corrects |-> LastOf(EventsOf(row))]
  OBVIOUS
<1>2. /\ Confirmable(row) /\ Len(event) + Cardinality(Confirming) < MaxEvent
      /\ txn[s] = Idle /\ txn' = [txn EXCEPT ![s] = y]
      /\ UNCHANGED <<final, schedule, artifact, attempt, suppressed, evaluation, event, mail>>
  BY <1>1 DEF ReadConfirmation
<1>3. EventsOf(row) \in SUBSET (1 .. Len(event)) /\ Len(event) \in Nat
  BY EventTypes DEF EventsOf, DeliveryInv
<1>4. LastOf(EventsOf(row)) \in {0} \cup EventsOf(row)
  <2>1. CASE EventsOf(row) = {}
    BY <2>1 DEF LastOf
  <2>2. CASE EventsOf(row) # {}
    BY <1>3, <2>2, LastIsOne
  <2> QED
    BY <2>1, <2>2
<1>5. Row(y) = row /\ row.archive \in Archive /\ row.renter \in Renter
  BY <1>1 DEF Row, ArtifactRow
<1>6. LastOf(EventsOf(row)) \in 0 .. MaxEvent
  BY <1>3, <1>4, DeliveryAssumption DEF DeliveryInv, TypeOK
<1>7. y \in Confirmation /\ y \in Request
  BY <1>1, <1>5, <1>6 DEF Confirmation, Request
<1>8. RequestClaim(y)
  <2>1. ConfirmationClaim(y)
    BY <1>1, <1>2, <1>4, <1>5, <1>7 DEF ConfirmationClaim, Confirmable
  <2> QED
    BY <1>1, <2>1 DEF RequestClaim, DeliveryClaim, Delivering
<1>9. TypeOK'
  BY <1>2, <1>7 DEF DeliveryInv, TypeOK
<1>10. Grows
  BY <1>2, TablesStand
<1>11. MailedOnce' /\ ConfirmationsAgree'
  BY <1>2, <1>9, <1>10, RowsKept
<1>12. EventsBounded'
  <2>1. Cardinality(Confirming') <= Cardinality(Confirming) + 1
        /\ Cardinality(Confirming) \in Nat /\ Cardinality(Confirming') \in Nat
    BY <1>2, ConfirmingMoves, DeliveryAssumption DEF DeliveryInv, TypeOK
  <2> QED
    BY <1>2, <1>3, <2>1, DeliveryAssumption DEF EventsBounded
<1>13. ASSUME NEW t \in Session PROVE RequestClaim(txn[t])'
  <2>1. PICK z : z = txn[t]
    OBVIOUS
  <2>2. RequestClaim(z)' /\ RequestClaim(y)'
    BY <1>8, <1>10, <2>1, ClaimKept DEF DeliveryInv
  <2>3. txn'[t] = IF t = s THEN y ELSE z
    BY <1>2, <2>1 DEF DeliveryInv, TypeOK
  <2> QED
    BY <2>2, <2>3
<1> QED
  BY <1>9, <1>11, <1>12, <1>13 DEF DeliveryInv

\* A new event that is no other assertion of its date, was decided against the
\* evaluation and corrects an event that is there.
LEMMA AppendAgrees ==
    ASSUME NEW v, NEW ev \in Seq(EventRow), Agree(ev, v), NEW e \in EventRow,
           Decided(v[e.archive], e),
           e.corrects \in {0} \cup EventsIn(ev, Row(e)),
           \A j \in EventsIn(ev, Row(e)) : ev[j].day # e.day
    PROVE  Agree(Append(ev, e), v)
<1> DEFINE n == Len(ev) + 1
           new == Append(ev, e)
<1>1. Len(ev) \in Nat /\ DOMAIN ev = 1 .. Len(ev)
  BY LenProperties
<1>2. /\ DOMAIN new = DOMAIN ev \cup {n} /\ new[n] = e
      /\ \A i \in DOMAIN ev : new[i] = ev[i]
  BY <1>1, AppendProperties
<1> HIDE DEF new
<1>3. \A row : /\ EventsIn(ev, row) \subseteq EventsIn(new, row)
               /\ EventsIn(new, row) \subseteq EventsIn(ev, row) \cup {n}
               /\ n \in EventsIn(new, row) => row = Row(e)
  BY <1>1, <1>2 DEF EventsIn
<1>4. ASSUME NEW i \in DOMAIN new
      PROVE  /\ Decided(v[new[i].archive], new[i])
             /\ new[i].corrects \in {0} \cup (EventsIn(new, Row(new[i])) \cap 1 .. i - 1)
             /\ \A j \in EventsIn(new, Row(new[i])) : new[i].day = new[j].day => i = j
  <2>1. CASE i \in DOMAIN ev
    <3>1. PICK row : row = Row(ev[i])
      OBVIOUS
    <3>2. /\ new[i] = ev[i] /\ Row(new[i]) = row
          /\ Decided(v[ev[i].archive], ev[i])
          /\ ev[i].corrects \in {0} \cup (EventsIn(ev, row) \cap 1 .. i - 1)
          /\ \A j \in EventsIn(ev, row) : ev[i].day = ev[j].day => i = j
      BY <1>2, <2>1, <3>1 DEF Agree
    <3>3. ASSUME NEW j \in EventsIn(new, row), new[i].day = new[j].day PROVE i = j
      <4>1. CASE j \in EventsIn(ev, row)
        BY <1>2, <3>2, <3>3, <4>1 DEF EventsIn
      <4>2. CASE j = n
        <5>1. i \in EventsIn(ev, Row(e))
          BY <1>3, <2>1, <3>1, <3>3, <4>2 DEF EventsIn
        <5> QED
          BY <1>2, <3>2, <3>3, <4>2, <5>1
      <4> QED
        BY <1>3, <3>3, <4>1, <4>2
    <3>4. ev[i].corrects \in {0} \cup (EventsIn(new, row) \cap 1 .. i - 1)
      BY <1>3, <3>2
    <3> QED
      BY <3>2, <3>3, <3>4
  <2>2. CASE i = n
    <3>1. EventsIn(ev, Row(e)) \subseteq EventsIn(new, Row(e)) \cap 1 .. i - 1
      <4>1. EventsIn(ev, Row(e)) \subseteq 1 .. Len(ev)
        BY <1>1 DEF EventsIn
      <4>2. 1 .. i - 1 = 1 .. Len(ev)
        BY <1>1, <2>2
      <4> QED
        BY <1>3, <4>1, <4>2
    <3>2. ASSUME NEW j \in EventsIn(new, Row(e)), e.day = new[j].day PROVE i = j
      <4>1. CASE j \in EventsIn(ev, Row(e))
        BY <1>2, <3>2, <4>1 DEF EventsIn
      <4> QED
        BY <1>3, <2>2, <3>2, <4>1
    <3> QED
      BY <1>2, <2>2, <3>1, <3>2
  <2> QED
    BY <1>2, <2>1, <2>2
<1> QED
  BY <1>4 DEF Agree, new

LEMMA AppendKeeps ==
    ASSUME DeliveryInv, NEW x \in Confirmation, RequestClaim(x),
           ~Asserted(Row(x), x.day), NEW e,
           e = [archive |-> x.archive, renter |-> x.renter, day |-> x.day,
                corrects |-> x.corrects,
                late |-> x.day > evaluation[x.archive].boundary],
           event' = Append(event, e), UNCHANGED evaluation
    PROVE  /\ event' \in Seq(EventRow) /\ Len(event') = Len(event) + 1
           /\ \A i \in DOMAIN event : i \in DOMAIN event' /\ event'[i] = event[i]
           /\ ConfirmationsAgree'
<1>1. /\ x.archive \in Archive /\ x.renter \in Renter /\ x.day \in Day
      /\ x.corrects \in 0 .. MaxEvent /\ x.pc = "confirm"
  BY DEF Confirmation
<1>2. /\ evaluation[x.archive].renter = x.renter
      /\ evaluation[x.archive].boundary # None
      /\ x.corrects \in {0} \cup EventsOf(Row(x))
  BY <1>1 DEF RequestClaim, ConfirmationClaim
<1>3. evaluation[x.archive].boundary \in Int /\ x.day \in Int
  BY <1>1, <1>2, EvaluationOf, DeliveryAssumption DEF DeliveryInv, EvaluationRow
<1>4. /\ e \in EventRow /\ Row(e) = Row(x) /\ e.archive = x.archive /\ e.renter = x.renter
      /\ e.day = x.day /\ e.corrects = x.corrects
  BY <1>1, <1>3 DEF EventRow, Row
<1>5. e.late <=> x.day > evaluation[x.archive].boundary
  BY <1>3
<1>6. Decided(evaluation[e.archive], e)
  BY <1>2, <1>4, <1>5 DEF Decided
<1>7. /\ e.corrects \in {0} \cup EventsIn(event, Row(e))
      /\ \A j \in EventsIn(event, Row(e)) : event[j].day # e.day
  BY <1>2, <1>4 DEF EventsIn, EventsOf, Asserted
<1>8. event \in Seq(EventRow) /\ Agree(event, evaluation)
  BY AgreeParts DEF DeliveryInv, TypeOK
<1>9. Agree(event, evaluation)'
  BY <1>4, <1>6, <1>7, <1>8, AppendAgrees
<1>10. ConfirmationsAgree'
  BY <1>9, AgreeParts, PTL
<1>11. /\ event' \in Seq(EventRow) /\ Len(event') = Len(event) + 1
       /\ \A i \in DOMAIN event : i \in DOMAIN event' /\ event'[i] = event[i]
  BY <1>4, <1>8, AppendProperties
<1> QED
  BY <1>10, <1>11

LEMMA InsertConfirmationKeeps ==
    ASSUME DeliveryInv, NEW s \in Session, InsertConfirmation(s)
    PROVE  DeliveryInv'
<1>1. PICK x : x = txn[s]
  OBVIOUS
<1>2. x.pc = "confirm" /\ RequestClaim(x) /\ x \in Confirmation
  BY <1>1 DEF InsertConfirmation, DeliveryInv, RequestClaim, ConfirmationClaim
<1>3. CASE Asserted(Row(x), x.day)
  BY <1>1, <1>3, IdleKeeps DEF InsertConfirmation
<1>4. CASE ~Asserted(Row(x), x.day)
  <2>1. PICK e : e = [archive |-> x.archive, renter |-> x.renter, day |-> x.day,
                      corrects |-> x.corrects,
                      late |-> x.day > evaluation[x.archive].boundary]
    OBVIOUS
  <2>2. /\ event' = Append(event, e) /\ txn' = [txn EXCEPT ![s] = Idle]
        /\ UNCHANGED <<final, schedule, artifact, attempt, suppressed, evaluation, mail>>
    BY <1>1, <1>4, <2>1 DEF InsertConfirmation
  <2>3. /\ event' \in Seq(EventRow) /\ Len(event') = Len(event) + 1
        /\ \A i \in DOMAIN event : i \in DOMAIN event' /\ event'[i] = event[i]
        /\ ConfirmationsAgree'
    BY <1>2, <1>4, <2>1, <2>2, AppendKeeps
  <2>4. EventsBounded'
    <3>1. /\ Cardinality(Confirming') = Cardinality(Confirming) - 1
          /\ Cardinality(Confirming) \in Nat
      BY <1>1, <1>2, <2>2, IdleClaim, ConfirmingMoves, DeliveryAssumption
         DEF DeliveryInv, TypeOK
    <3> QED
      BY <2>3, <3>1, EventTypes, DeliveryAssumption DEF DeliveryInv, EventsBounded
  <2>5. Len(event') <= MaxEvent
    <3>1. Cardinality(Confirming') \in Nat
      BY <2>2, IdleClaim, ConfirmingMoves, DeliveryAssumption DEF DeliveryInv, TypeOK
    <3> QED
      BY <2>3, <2>4, <3>1, EventTypes, DeliveryAssumption DEF DeliveryInv, EventsBounded
  <2>6. TypeOK'
    BY <2>2, <2>3, <2>5, IdleClaim DEF DeliveryInv, TypeOK
  <2>7. Grows
    BY <2>2, <2>3 DEF Grows
  <2>8. MailedOnce'
    BY <2>2 DEF DeliveryInv, MailedOnce, Row
  <2>9. ASSUME NEW t \in Session PROVE RequestClaim(txn[t])'
    <3>1. PICK z : z = txn[t]
      OBVIOUS
    <3>2. RequestClaim(z)' /\ RequestClaim(Idle)'
      BY <2>7, <3>1, IdleClaim, ClaimKept DEF DeliveryInv
    <3>3. txn'[t] = IF t = s THEN Idle ELSE z
      BY <2>2, <3>1 DEF DeliveryInv, TypeOK
    <3> QED
      BY <3>2, <3>3
  <2> QED
    BY <2>3, <2>4, <2>6, <2>8, <2>9 DEF DeliveryInv
<1> QED
  BY <1>3, <1>4

-----------------------------------------------------------------------------
(* The theorems.                                                           *)

LEMMA DeliveryStep == DeliveryInv /\ [Next]_vars => DeliveryInv'
<1> SUFFICES ASSUME DeliveryInv, [Next]_vars PROVE DeliveryInv'
  OBVIOUS
<1>1. CASE \E a \in Archive : Supersede(a) \/ \E e \in BOOLEAN : CreateSchedule(e, a)
  BY <1>1, OwnerKeeps
<1>2. CASE \E row \in ArtifactRow, b \in Boundary \cup {None} : RunGuards(row, b)
  BY <1>2, RunGuardsKeeps
<1>3. ASSUME NEW s \in Session,
             \/ \E g \in Gateway : StartJob(s, g)
             \/ \E row \in ArtifactRow, g \in Gateway : StartDelivery(s, row, g)
             \/ \E r \in Renter : Freeze(s, r)
             \/ \E row \in ArtifactRow, d \in Day : ReadConfirmation(s, row, d)
             \/ InsertArtifact(s) \/ Check(s) \/ Claim(s) \/ Send(s) \/ Commit(s)
             \/ InsertConfirmation(s)
             \/ Crash(s)
      PROVE  DeliveryInv'
  <2>1. CASE \E g \in Gateway : StartJob(s, g)
    BY <2>1, StartJobKeeps
  <2>2. CASE \E row \in ArtifactRow, g \in Gateway : StartDelivery(s, row, g)
    BY <2>2, StartDeliveryKeeps
  <2>3. CASE \E r \in Renter : Freeze(s, r)
    BY <2>3, FreezeKeeps
  <2>4. CASE \E row \in ArtifactRow, d \in Day : ReadConfirmation(s, row, d)
    BY <2>4, ReadConfirmationKeeps
  <2>5. CASE InsertArtifact(s) \/ Check(s) \/ Claim(s) \/ Send(s)
    BY <2>5, InsertArtifactKeeps, CheckKeeps, ClaimKeeps, SendKeeps
  <2>6. CASE Commit(s) \/ InsertConfirmation(s)
    BY <2>6, CommitKeeps, InsertConfirmationKeeps
  <2>7. CASE Crash(s)
    BY <2>7, IdleKeeps DEF Crash
  <2> QED
    BY <1>3, <2>1, <2>2, <2>3, <2>4, <2>5, <2>6, <2>7
<1>4. CASE UNCHANGED vars
  <2>1. UNCHANGED <<attempt, suppressed, evaluation, event, mail, txn>> /\ TypeOK'
    BY <1>4 DEF vars, DeliveryInv, TypeOK, Confirming
  <2> QED
    BY <2>1, TablesStand, TableStep
<1> QED
  BY <1>1, <1>2, <1>3, <1>4 DEF Next

LEMMA AlwaysDeliveryInv == Spec => []DeliveryInv
  BY InitDelivery, DeliveryStep, PTL DEF Spec

\* Every table holds rows of its type and no more confirmations than the bound.
THEOREM DeliveryTypes == Spec => []TypeOK
  BY AlwaysDeliveryInv, PTL DEF DeliveryInv

\* No renter is mailed a statement twice, and a committed attempt is the record
\* of the mail, whatever crashes after the provider has accepted it.
THEOREM AlwaysMailedOnce == Spec => []MailedOnce
  BY AlwaysDeliveryInv, PTL DEF DeliveryInv

\* A stored confirmation stays true of the evaluation it was decided against,
\* corrects an earlier one of its delivery and is stored once.
THEOREM ConfirmationsAlwaysAgree == Spec => []ConfirmationsAgree
  BY AlwaysDeliveryInv, PTL DEF DeliveryInv

\* The provider gets no mail for an address that was suppressed when the run
\* began or that bounced earlier in the run.
THEOREM SuppressedNeverMailed == Spec => NoMailToSuppressed
<1>1. DeliveryInv =>
         \A s \in Session : txn[s].pc = "send" =>
             Email[txn[s].renter] \notin txn[s].known \cup txn[s].bounces
  BY DEF DeliveryInv, RequestClaim, DeliveryClaim, Delivering
<1>2. DeliveryInv =>
         \A s \in Session :
             (txn[s].pc = "send" /\ mail' # mail /\ txn'[s] # txn[s]) =>
                 Email[txn[s].renter] \notin txn[s].known \cup txn[s].bounces
  BY <1>1
<1> QED
  BY <1>2, AlwaysDeliveryInv, PTL DEF NoMailToSuppressed
=============================================================================
