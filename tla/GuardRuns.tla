----------------------------- MODULE GuardRuns -----------------------------
(***************************************************************************)
(* A run of the guards over the sources that a client names (apps/api:     *)
(* routers/guards_delivery.py, jobs.py run_daily_guard_evaluations), and   *)
(* the entries of a checklist. A request keeps what it added until it      *)
(* commits; every row is looked for with a plain read before it is added,  *)
(* and a unique key stands behind the read.                                *)
(*                                                                         *)
(* The arithmetic of the guards is in GuardRules. The confirmation of a    *)
(* delivery, which resolves W1, is in RenterDelivery.                      *)
(***************************************************************************)
EXTENDS Integers, Sequences, SequencesExt

CONSTANTS
    Session,  \* concurrent requests
    Source,   \* ids that a client may name
    KindOf,   \* [Source -> the table that holds the id, or "none"]
    Asked,    \* bound: sources named in a request
    Day,      \* the dates that requests run for
    Entry,    \* entries of the frozen checklists
    Key       \* idempotency keys that clients choose

VARIABLES
    situation,     \* what the tenancies of each unit say
    evaluation,    \* guard_evaluation by insertion
    reminder,      \* guard_reminder by insertion
    itemEvent,     \* checklist_item_event by insertion
    shown,         \* history: the events that requests were answered with
    guardRequest   \* what each request has read and not yet committed

vars == <<situation, evaluation, reminder, itemEvent, shown, guardRequest>>

Unit == {x \in Source : KindOf[x] = "unit"}

\* No tenancy has ended; one did and another runs; the last one ended within
\* the threshold of W8, or before it.
Situation == {"none_ended", "let", "just_empty", "long_empty"}

Guard == {"W1", "W2", "W3", "W4", "W5", "W6", "W7", "W8"}

Stage == {"source_missing", "active_tenancy", "within_threshold", "vacancy"}

\* 0 in a key of an artifact, which has no date.
OccurrenceKey == Source \X (Day \cup {0})

EvaluationRow == [guard: Guard, key: OccurrenceKey, stage: Stage]

ReminderRow == [key: OccurrenceKey, channel: {"EMAIL", "IN_APP", "PUSH"}]

ItemEventRow == [entry: Entry, key: Key]

Idle == [op |-> "idle"]

Init ==
    /\ situation \in [Unit -> Situation]
    /\ evaluation = <<>> /\ reminder = <<>> /\ itemEvent = <<>> /\ shown = {}
    /\ guardRequest = [s \in Session |-> Idle]

----------------------------------------------------------------------------
(* _resolve_guard_sources: what the rows of a source say today.            *)

VacancyStage(u) ==
    CASE situation[u] = "none_ended" -> "source_missing"
      [] situation[u] = "let" -> "active_tenancy"
      [] situation[u] = "just_empty" -> "within_threshold"
      [] situation[u] = "long_empty" -> "vacancy"

\* _blocked_guard_occurrence: nothing but W8 has its inputs.
Blocked(guard, key) == [guard |-> guard, key |-> key, stage |-> "source_missing"]

\* The key of an artifact is its own and has no day.
Occurrences(x, day) ==
    CASE KindOf[x] = "unit" -> <<[guard |-> "W8", key |-> <<x, day>>, stage |-> VacancyStage(x)]>>
      [] KindOf[x] = "annual_artifact" -> <<Blocked("W1", <<x, 0>>)>>
      [] KindOf[x] = "uvi_artifact" -> <<Blocked("W4", <<x, 0>>)>>
      [] KindOf[x] = "statement" -> <<Blocked("W1", <<x, day>>)>>
      [] KindOf[x] = "tenancy" -> <<Blocked("W3", <<x, day>>), Blocked("W5", <<x, day>>),
                                    Blocked("W6", <<x, day>>), Blocked("W7", <<x, day>>)>>
      [] KindOf[x] = "meter" -> <<Blocked("W2", <<x, day>>)>>
      [] OTHER -> <<>>

\* dict.fromkeys: a source is asked for once. The discovery token stands for
\* all of them.
Requests == {q \in BoundedSeq(Source, Asked) : q # <<>> /\ IsInjective(q)}

Continue(s, state) == guardRequest' = [guardRequest EXCEPT ![s] = state]

\* Refused (403, 404, 422), failed on a unique key, on a deadlock or by a crash:
\* nothing that the request added stays.
Fail(s) ==
    /\ guardRequest[s] # Idle
    /\ Continue(s, Idle)
    /\ UNCHANGED <<situation, evaluation, reminder, itemEvent, shown>>

\* The unit is let, or a tenancy ends, or time passes since it ended.
ChangeTenancies(u) ==
    /\ \E now \in Situation \ {"none_ended", situation[u]} :
          situation' = [situation EXCEPT ![u] = now]
    /\ UNCHANGED <<evaluation, reminder, itemEvent, shown, guardRequest>>

\* create_guard_run: all sources are resolved before anything is stored.
ResolveSources(s, q, day) ==
    /\ guardRequest[s] = Idle
    /\ Continue(s, [op |-> "evaluate", evaluations |-> <<>>, reminders |-> <<>>,
                    todo |-> FlattenSeq([i \in DOMAIN q |-> Occurrences(q[i], day)])])
    /\ UNCHANGED <<situation, evaluation, reminder, itemEvent, shown>>

----------------------------------------------------------------------------
(* run_daily_guard_evaluations, one occurrence after the other.            *)

InRun(s) == guardRequest[s].op \in {"evaluate", "insert", "remind", "notify"}

Occurrence(s) == Head(guardRequest[s].todo)

SameOccurrence(row, o) == row.guard = o.guard /\ row.key = o.key

HasEvaluation(rows, o) == \E i \in DOMAIN rows : SameOccurrence(rows[i], o)

\* f"guard:{occurrence_key}:{channel}", and IN_APP is the only channel of W8.
HasReminder(rows, key) == \E i \in DOMAIN rows : rows[i].key = key

\* A unique key makes the request wait for a row that is not yet committed.
OthersInRun(s) == {t \in Session \ {s} : InRun(t)}

\* Mutant: no unique key on the guard and the occurrence.
EvaluationTakenNever(s, o) == FALSE

\* uq_guard_evaluation_occurrence
EvaluationTaken(s, o) ==
    \/ HasEvaluation(evaluation, o)
    \/ \E t \in OthersInRun(s) : HasEvaluation(guardRequest[t].evaluations, o)

ReadEvaluation(s) ==
    LET r == guardRequest[s]
        found == HasEvaluation(evaluation \o r.evaluations, Occurrence(s))
    IN  /\ r.op = "evaluate" /\ r.todo # <<>>
        /\ Continue(s, [r EXCEPT !.op = IF found THEN "remind" ELSE "insert"])
        /\ UNCHANGED <<situation, evaluation, reminder, itemEvent, shown>>

InsertEvaluation(s) ==
    LET r == guardRequest[s] IN
    /\ r.op = "insert"
    /\ ~EvaluationTaken(s, Occurrence(s))
    /\ Continue(s, [r EXCEPT !.op = "remind", !.evaluations = Append(@, Occurrence(s))])
    /\ UNCHANGED <<situation, evaluation, reminder, itemEvent, shown>>

\* What counts is the occurrence of this run, not the evaluation that is stored.
ToRemind(o) == o.stage = "vacancy"

ReadReminder(s) ==
    LET r == guardRequest[s]
        o == Occurrence(s)
        due == ToRemind(o) /\ ~HasReminder(reminder \o r.reminders, o.key)
    IN  /\ r.op = "remind"
        /\ Continue(s, IF due THEN [r EXCEPT !.op = "notify"]
                       ELSE [r EXCEPT !.op = "evaluate", !.todo = Tail(@)])
        /\ UNCHANGED <<situation, evaluation, reminder, itemEvent, shown>>

\* uq_guard_reminder_idempotency
InsertReminder(s) ==
    LET r == guardRequest[s]
        key == Occurrence(s).key
    IN  /\ r.op = "notify"
        /\ ~HasReminder(reminder, key)
        /\ \A t \in OthersInRun(s) : ~HasReminder(guardRequest[t].reminders, key)
        /\ Continue(s, [r EXCEPT !.op = "evaluate", !.todo = Tail(@),
                        !.reminders = Append(@, [key |-> key, channel |-> "IN_APP"])])
        /\ UNCHANGED <<situation, evaluation, reminder, itemEvent, shown>>

CommitRun(s) ==
    LET r == guardRequest[s] IN
    /\ r.op = "evaluate" /\ r.todo = <<>>
    /\ evaluation' = evaluation \o r.evaluations
    /\ reminder' = reminder \o r.reminders
    /\ Continue(s, Idle)
    /\ UNCHANGED <<situation, itemEvent, shown>>

----------------------------------------------------------------------------
(* create_checklist_item_event. The key is unique in the account, whatever *)
(* the entry.                                                              *)

WithKey(key) == {i \in DOMAIN itemEvent : itemEvent[i].key = key}

Show(entry, key, i) == shown' = shown \cup {[entry |-> entry, key |-> key, event |-> i]}

\* A known key is answered with its event, but only for the same entry.
ReadItemEvent(s, entry, key) ==
    /\ guardRequest[s] = Idle
    /\ \/ /\ WithKey(key) = {}
          /\ Continue(s, [op |-> "complete", row |-> [entry |-> entry, key |-> key]])
          /\ UNCHANGED shown
       \/ /\ \E i \in WithKey(key) : itemEvent[i].entry = entry /\ Show(entry, key, i)
          /\ UNCHANGED guardRequest
    /\ UNCHANGED <<situation, evaluation, reminder, itemEvent>>

\* uq_checklist_item_event_idempotency
InsertItemEvent(s) ==
    LET row == guardRequest[s].row IN
    /\ guardRequest[s].op = "complete"
    /\ WithKey(row.key) = {}
    /\ itemEvent' = Append(itemEvent, row)
    /\ Show(row.entry, row.key, Len(itemEvent) + 1)
    /\ Continue(s, Idle)
    /\ UNCHANGED <<situation, evaluation, reminder>>

----------------------------------------------------------------------------

RunNext ==
    \/ \E u \in Unit : ChangeTenancies(u)
    \/ \E s \in Session :
          \/ \E q \in Requests, day \in Day : ResolveSources(s, q, day)
          \/ ReadEvaluation(s) \/ InsertEvaluation(s)
          \/ ReadReminder(s) \/ InsertReminder(s) \/ CommitRun(s)
          \/ Fail(s)

ChecklistNext ==
    \E s \in Session :
        \/ \E entry \in Entry, key \in Key : ReadItemEvent(s, entry, key)
        \/ InsertItemEvent(s)
        \/ Fail(s)

Next == RunNext \/ ChecklistNext

Spec == Init /\ [][Next]_vars

----------------------------------------------------------------------------

TypeOK ==
    /\ situation \in [Unit -> Situation]
    /\ evaluation \in Seq(EvaluationRow) /\ reminder \in Seq(ReminderRow)
    /\ itemEvent \in Seq(ItemEventRow)
    /\ shown \subseteq [entry: Entry, key: Key, event: DOMAIN itemEvent]

(***************************************************************************)
(* Two runs at once leave one evaluation of an occurrence, and one         *)
(* reminder of it. An evaluation that says a unit stands empty never stays *)
(* without its reminder, and no reminder without an evaluation: they are   *)
(* committed together. A checklist key names one event, and everybody who  *)
(* uses it is shown an event of the entry they asked for. (Code: jobs.py   *)
(* run_daily_guard_evaluations, guards_delivery.py                         *)
(* create_checklist_item_event.)                                           *)
(***************************************************************************)
GuardRecordsAgree ==
    /\ \A i, j \in DOMAIN evaluation : SameOccurrence(evaluation[i], evaluation[j]) => i = j
    /\ \A i, j \in DOMAIN reminder : reminder[i].key = reminder[j].key => i = j
    /\ \A i \in DOMAIN evaluation : evaluation[i].stage = "vacancy"
          => \E j \in DOMAIN reminder : reminder[j].key = evaluation[i].key
    /\ \A j \in DOMAIN reminder :
          HasEvaluation(evaluation, [guard |-> "W8", key |-> reminder[j].key])
    /\ \A a \in shown : itemEvent[a.event] = [entry |-> a.entry, key |-> a.key]
    /\ \A i, j \in DOMAIN itemEvent : itemEvent[i].key = itemEvent[j].key => i = j
=============================================================================
