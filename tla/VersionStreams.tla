--------------------------- MODULE VersionStreams ---------------------------
(***************************************************************************)
(* The append-only version streams of the system, one per behaviour: each  *)
(* new row is numbered one above the latest row and, where its table says  *)
(* so, names it as superseded. Three disciplines keep a stream a chain:    *)
(*   - an advisory transaction lock, taken before the latest row is read;  *)
(*   - a plain read of the latest row and a unique key on the version;     *)
(*   - the predecessor named by the caller and a unique key on it.         *)
(***************************************************************************)
EXTENDS Integers, Sequences

CONSTANTS
    Session,   \* concurrent requests
    Content,   \* what a version says
    Adopted,   \* the contents of a heating mode that was taken over (UEBERNOMMEN)
    MaxVersion \* bound: rows of a stream

ASSUME VersionsAssumption == MaxVersion \in Nat \ {0}

VARIABLES
    kind,         \* which stream this behaviour is about
    stream,       \* its rows by insertion
    streamLock,   \* the session that holds the advisory lock, or none
    streamRequest \* what each request holds and has read

vars == <<kind, stream, streamLock, streamRequest>>

Locked == {"entitlement", "layout"}

Numbered ==
    {"afa_record", "adviser_profile", "tax_mapping", "export_archive",
     "delivery_address", "payment_instruction", "heating_mode"}

\* Corrections of one tax event, entered by hand or copied from a payment.
Named == {"manual_event", "payment_event"}

Kind == Locked \cup Numbered \cup Named

\* supersedes is the predecessor's position, 0 for the first row.
Row == [version: 1 .. MaxVersion, supersedes: 0 .. MaxVersion, content: Content]

Idle == [op |-> "idle"]

NoLock == [held |-> FALSE]

HeldBy(s) == [held |-> TRUE, by |-> s]

Init ==
    /\ kind \in Kind
    /\ stream = <<>>
    /\ streamLock = NoLock
    /\ streamRequest = [s \in Session |-> Idle]

Continue(s, state) == streamRequest' = [streamRequest EXCEPT ![s] = state]

Latest == Len(stream)

\* Mutant: a request that was refused has used up its number.
SuccessorSkipping(i, content) ==
    [version |-> (IF i = 0 THEN 0 ELSE stream[i].version) + 2,
     supersedes |-> i, content |-> content]

\* The row that follows row i.
Successor(i, content) ==
    [version |-> (IF i = 0 THEN 0 ELSE stream[i].version) + 1,
     supersedes |-> i, content |-> content]

\* The request has read row i as the one to follow.
Follow(s, i, content) ==
    /\ i < MaxVersion
    /\ Continue(s, [op |-> "append", row |-> Successor(i, content)])
    /\ UNCHANGED <<kind, stream, streamLock>>

----------------------------------------------------------------------------
(* append_entitlement, _default_layout_version.                            *)

Free == streamLock = NoLock

\* pg_advisory_xact_lock
TakeLock(s, content) ==
    /\ streamRequest[s] = Idle /\ Free
    /\ streamLock' = HeldBy(s)
    /\ Continue(s, [op |-> "locked", content |-> content])
    /\ UNCHANGED <<kind, stream>>

AppendEntitlement(s, content) == kind = "entitlement" /\ TakeLock(s, content)

ReadEntitlement(s) ==
    /\ kind = "entitlement" /\ streamRequest[s].op = "locked"
    /\ Follow(s, Latest, streamRequest[s].content)

EnsureLayout(s, content) == kind = "layout" /\ TakeLock(s, content)

\* A new layout version is inserted only when the built-in layout differs
\* from the latest one.
ReadLayout(s) ==
    /\ kind = "layout" /\ streamRequest[s].op = "locked"
    /\ Latest # 0 => stream[Latest].content # streamRequest[s].content
    /\ Follow(s, Latest, streamRequest[s].content)

----------------------------------------------------------------------------
(* The streams that read the latest row without a lock.                    *)

ReadLatest(s, content) ==
    /\ streamRequest[s] = Idle
    /\ Follow(s, Latest, content)

CreateAfa(s, content) == kind = "afa_record" /\ ReadLatest(s, content)

CreateAdviserProfile(s, content) == kind = "adviser_profile" /\ ReadLatest(s, content)

CreateMapping(s, content) == kind = "tax_mapping" /\ ReadLatest(s, content)

ArchiveExport(s, content) == kind = "export_archive" /\ ReadLatest(s, content)

CreateDeliveryAddress(s, content) == kind = "delivery_address" /\ ReadLatest(s, content)

CreatePaymentInstruction(s, content) ==
    kind = "payment_instruction" /\ ReadLatest(s, content)

\* A heating result that was taken over can no longer be followed.
CreateHeatingMode(s, content) ==
    /\ kind = "heating_mode"
    /\ Latest # 0 => stream[Latest].content \notin Adopted
    /\ ReadLatest(s, content)

----------------------------------------------------------------------------
(* Tax events.                                                             *)

\* Every event entered by hand is the first row of a stream of its own.
CreateEvent(s, content) ==
    /\ kind = "manual_event" /\ stream = <<>>
    /\ stream' = <<Successor(0, content)>>
    /\ UNCHANGED <<kind, streamLock, streamRequest>>

\* The component of an allocation is copied unless a plain read finds it.
MaterializeComponent(s, content) ==
    /\ kind = "payment_event" /\ stream = <<>>
    /\ ReadLatest(s, content)

\* The caller names the event it corrects, which need not be the latest.
CorrectEvent(s, i, content) ==
    /\ kind \in Named /\ streamRequest[s] = Idle
    /\ Follow(s, i, content)

----------------------------------------------------------------------------

\* Mutant: the table has no unique key on the version or the predecessor.
TakenNever(row) == FALSE

\* The unique keys: the version within a numbered stream, the predecessor, and
\* the first row. A delivery address, a payment instruction and a heating mode
\* have no column for the predecessor.
Taken(row) ==
    \E i \in DOMAIN stream :
        IF kind \in Named THEN stream[i].supersedes = row.supersedes
                          ELSE stream[i].version = row.version

\* The insert and the commit, which releases the lock.
AppendRow(s) ==
    /\ streamRequest[s].op = "append"
    /\ ~Taken(streamRequest[s].row)
    /\ stream' = Append(stream, streamRequest[s].row)
    /\ streamLock' = IF kind \in Locked THEN NoLock ELSE streamLock
    /\ Continue(s, Idle)
    /\ UNCHANGED kind

\* Refused by a unique key, answered without a new row, or abandoned.
GiveUp(s) ==
    /\ streamRequest[s] # Idle
    /\ streamLock' = IF kind \in Locked THEN NoLock ELSE streamLock
    /\ Continue(s, Idle)
    /\ UNCHANGED <<kind, stream>>

Begin(s, content) ==
    \/ AppendEntitlement(s, content)
    \/ EnsureLayout(s, content)
    \/ CreateAfa(s, content)
    \/ CreateAdviserProfile(s, content)
    \/ CreateMapping(s, content)
    \/ ArchiveExport(s, content)
    \/ CreateDeliveryAddress(s, content)
    \/ CreatePaymentInstruction(s, content)
    \/ CreateHeatingMode(s, content)
    \/ CreateEvent(s, content)
    \/ MaterializeComponent(s, content)
    \/ \E i \in DOMAIN stream : CorrectEvent(s, i, content)

Next ==
    \E s \in Session :
        \/ \E content \in Content : Begin(s, content)
        \/ ReadEntitlement(s)
        \/ ReadLayout(s)
        \/ AppendRow(s)
        \/ GiveUp(s)

Spec == Init /\ [][Next]_vars

----------------------------------------------------------------------------

Request ==
    {Idle} \cup [op: {"locked"}, content: Content] \cup [op: {"append"}, row: Row]

TypeOK ==
    /\ kind \in Kind
    /\ stream \in Seq(Row)
    /\ streamLock \in {NoLock} \cup {HeldBy(s) : s \in Session}
    /\ streamRequest \in [Session -> Request]

\* Versions count up without a gap and each row supersedes the one before it.
IsChain ==
    \A i \in DOMAIN stream : stream[i].version = i /\ stream[i].supersedes = i - 1

\* Nothing follows a heating result that was taken over.
AdoptedIsLast ==
    kind = "heating_mode" =>
        \A i \in DOMAIN stream : stream[i].content \in Adopted => i = Len(stream)

\* No layout version repeats the one before it.
LayoutsDiffer ==
    kind = "layout" =>
        \A i \in 2 .. Len(stream) : stream[i].content # stream[i - 1].content

\* A request that waited for the lock is never refused by a unique key.
LockedNeverRefused ==
    kind \in Locked =>
        \A s \in Session :
            streamRequest[s].op = "append" => ~Taken(streamRequest[s].row)

(***************************************************************************)
(* Whatever requests race, a stream is one chain: no version is missing,   *)
(* doubled or followed twice; an adopted heating result stays the last     *)
(* word; no layout version is a copy of its predecessor; and under the     *)
(* advisory lock no request fails. (Code: the create handlers of tax.py,   *)
(* investment.py, meters.py 1262-1314 and finalized_statements.py          *)
(* 1151-1272 with the unique keys of their tables.)                        *)
(***************************************************************************)
StreamsAreChains == IsChain /\ AdoptedIsLast /\ LayoutsDiffer /\ LockedNeverRefused
=============================================================================
