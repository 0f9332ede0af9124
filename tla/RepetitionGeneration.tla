-------------------------- MODULE RepetitionGeneration --------------------------
(***************************************************************************)
(* How a repetition gets its occurrences (services/repetition.py,          *)
(* services/repetition_projection.py, domain/repetitions.py): previews     *)
(* that a user confirms later, a client that sends its confirmation again  *)
(* when no answer comes, direct generation, later refreshes and deletions, *)
(* and the master horizon that ends an open range                          *)
(* (services/master_horizon.py).                                           *)
(*                                                                         *)
(* Generation and commit take the write lock with their first statement,   *)
(* so each is one step.  A settings update and a refresh read first and    *)
(* write later, with nothing held in between: each is two steps of a slot. *)
(***************************************************************************)
EXTENDS Integers

CONSTANTS
    Keys,         \* generation keys: one per preview
    Slots,        \* requests that may be between their reads and their writes
    Settings,     \* settings a user may store
    Templates,    \* what the template says
    Durations,    \* master_horizon_duration, with the time zone it is counted in
    Omissions,    \* sets of indices a user may leave out
    MaxTime,      \* bound on the clock
    MaxEdits,     \* bound on the edits of users
    Direct,       \* the origin of instances made by generate_instances
    None          \* SQL NULL

Modes == {"MANUAL_COUNT", "DATE_RANGE"}

SettingsRecord ==
    [mode : Modes, start : Nat, interval : Nat \ {0}, count : Nat \cup {None}, end : Nat \cup {None}]

\* _validate_repetition_settings_fields
Valid(s) ==
    /\ s.mode = "MANUAL_COUNT" => s.count # None /\ s.count > 0 /\ s.end = None
    /\ s.mode = "DATE_RANGE"   => s.count = None
    /\ s.end # None => s.end > s.start

ValidSettings == {s \in SettingsRecord : Valid(s)}

ASSUME SettingsAssumption ==
    /\ Settings \subseteq ValidSettings
    /\ None \notin Nat /\ None \notin [settings : ValidSettings, generated : BOOLEAN]
ASSUME HorizonAssumption  == Durations \subseteq Nat /\ Durations # {} /\ Templates # {}
ASSUME BoundsAssumption   == MaxTime \in Nat /\ MaxEdits \in Nat
ASSUME OmissionAssumption == \A o \in Omissions : o \subseteq Nat

Origins == Keys \cup Slots \cup {Direct}

ASSUME OriginAssumption ==
    None \notin Origins /\ Direct \notin Keys \cup Slots /\ Keys \cap Slots = {}

VARIABLES
    rep,        \* the repetition: its settings and whether it is generated, or None
    template,   \* what its template says
    rows,       \* the instances: origin and index; the clones' ids follow from both
    skipped,    \* the repetition_skipped_occurrence table
    receipts,   \* the repetition_generation_receipt table
    horizon,    \* the end of the stored master horizon
    duration,   \* the setting it comes from
    now,        \* the clock, in the unit of intervals
    entry,      \* per key: what the client asks to be generated, and the answer
    sent,       \* requests on their way
    answers,    \* answers on their way
    slot,       \* per slot: what a request has read
    edits       \* how many edits users have made

stored == <<rep, template, rows, skipped, receipts, horizon, duration>>
client == <<entry, sent, answers>>
vars == <<stored, now, client, slot, edits>>

-----------------------------------------------------------------------------
(* Occurrences.                                                            *)

Open(s) == s.mode = "DATE_RANGE" /\ s.end = None

Starting(s, end) == {i \in 0 .. end : s.start + i * s.interval < end}

\* compute_instance_indices; horizonEnd is used for an open range only.
Indices(s, horizonEnd) ==
    CASE s.mode = "MANUAL_COUNT" -> 0 .. s.count - 1
      [] Open(s)                 -> Starting(s, horizonEnd)
      [] OTHER                   -> Starting(s, s.end)

Existing(table) == {r[2] : r \in table}

Batch(origin, indices) == {origin} \X indices

RowsOf(key) == {r \in rows : r[1] = key}

\* An open range is previewed up to a horizon.
Request ==
    {r \in [settings : ValidSettings, template : Templates, run : Nat,
            horizon : Nat \cup {None}, omitted : SUBSET Nat] :
        Open(r.settings) => r.horizon # None}

\* The instances a preview lists, and those a confirmation asks for.
Previewed(req) == Indices(req.settings, req.horizon)
Refs(key, req) == Batch(key, Previewed(req) \ req.omitted)

-----------------------------------------------------------------------------
(* The client of previews (outside src/; the requests it may send).        *)

\* preview_generation, on the settings and the template the client has read.
Preview(k, o) ==
    /\ entry[k] = None /\ rep # None
    /\ entry' = [entry EXCEPT ![k] =
          [request |-> [settings |-> rep.settings, template |-> template, run |-> now,
                        horizon |-> IF Open(rep.settings) THEN now + duration ELSE None,
                        omitted |-> o],
           answer |-> None]]
    /\ UNCHANGED <<stored, now, sent, answers, slot, edits>>

Waiting(k) == entry[k] # None /\ entry[k].answer = None

\* A first or another attempt; the connection of an earlier one is given up.
Send(k) ==
    /\ Waiting(k)
    /\ sent' = sent \cup {[key |-> k, request |-> entry[k].request]}
    /\ answers' = {a \in answers : a.key # k}
    /\ UNCHANGED <<stored, now, entry, slot, edits>>

Receive(k) ==
    /\ Waiting(k)
    /\ \E a \in answers :
          /\ a.key = k /\ a.request = entry[k].request
          /\ entry' = [entry EXCEPT ![k].answer = a.result]
          /\ answers' = answers \ {a}
    /\ UNCHANGED <<stored, now, sent, slot, edits>>

\* A request or an answer is lost.
Lose ==
    /\ \/ \E r \in sent : sent' = sent \ {r} /\ UNCHANGED answers
       \/ \E a \in answers : answers' = answers \ {a} /\ UNCHANGED sent
    /\ UNCHANGED <<stored, now, entry, slot, edits>>

\* The user leaves out other occurrences while no answer has come.
Rethink(k, o) ==
    /\ Waiting(k) /\ edits < MaxEdits
    /\ entry' = [entry EXCEPT ![k].request.omitted = o]
    /\ answers' = {a \in answers : a.key # k}
    /\ edits' = edits + 1
    /\ UNCHANGED <<stored, now, sent, slot>>

-----------------------------------------------------------------------------
(* commit_generation                                                       *)

Success(refs) == [code |-> "OK", refs |-> refs]
Refusal(code) == [code |-> code, refs |-> {}]

Answer(r, result) ==
    /\ sent' = sent \ {r}
    /\ answers' = {a \in answers : a.key # r.key}
                      \cup {[key |-> r.key, request |-> r.request, result |-> result]}
    /\ UNCHANGED <<now, entry, slot, edits>>

\* Mutant of SameRequest: the fingerprint is not compared.
SameKey(r) == TRUE

SameRequest(r) == receipts[r.key].request = r.request

\* Mutant of AlreadyGenerated: the receipt is looked up too late.
Generated(r) == rep.generated

AlreadyGenerated(r) == receipts[r.key] = None /\ rep.generated

\* Mutant of SameHorizon: a horizon setting that changed meanwhile is not noticed.
AnyHorizon(req) == TRUE

SameHorizon(req) == req.horizon # None => req.horizon = req.run + duration

\* What the preview was made from is what is stored.
Current(req) ==
    /\ req.settings = rep.settings /\ req.template = template
    /\ SameHorizon(req)
    /\ req.omitted \subseteq Previewed(req)

NotFound(r) ==
    /\ rep = None
    /\ Answer(r, Refusal("PLAN_NOT_FOUND"))
    /\ UNCHANGED stored

Repeat(r) ==
    /\ rep # None /\ receipts[r.key] # None
    /\ Answer(r, IF SameRequest(r) THEN Success(receipts[r.key].refs)
                                   ELSE Refusal("REPETITION_GENERATION_CONFLICT"))
    /\ UNCHANGED stored

TooLate(r) ==
    /\ rep # None /\ AlreadyGenerated(r)
    /\ Answer(r, Refusal("REPETITION_ALREADY_GENERATED"))
    /\ UNCHANGED stored

Stale(r) ==
    /\ rep # None /\ receipts[r.key] = None /\ ~rep.generated
    /\ ~Current(r.request)
    /\ Answer(r, Refusal("REPETITION_PREVIEW_STALE"))
    /\ UNCHANGED stored

\* Mutant of SkippedBy: omissions leave no trace.
SkippedNothing(req) == {}

SkippedBy(req) == req.omitted

Done == [rep EXCEPT !.generated = TRUE]

Commit(r) ==
    /\ rep # None /\ receipts[r.key] = None /\ ~rep.generated
    /\ Current(r.request)
    /\ rows' = rows \cup Refs(r.key, r.request)
    /\ skipped' = skipped \cup SkippedBy(r.request)
    /\ rep' = Done
    /\ receipts' = [receipts EXCEPT ![r.key] =
                       [request |-> r.request, refs |-> Refs(r.key, r.request)]]
    /\ Answer(r, Success(Refs(r.key, r.request)))
    /\ UNCHANGED <<template, horizon, duration>>

Handle(k) ==
    \E r \in sent :
        /\ r.key = k
        /\ NotFound(r) \/ Repeat(r) \/ TooLate(r) \/ Stale(r) \/ Commit(r)

-----------------------------------------------------------------------------
(* Other requests.                                                         *)

\* generate_instances; an open range refreshes the stored horizon first.
GenerateInstances ==
    /\ rep # None /\ ~rep.generated
    /\ horizon' = IF Open(rep.settings) THEN now + duration ELSE horizon
    /\ rows' = rows \cup Batch(Direct, Indices(rep.settings, horizon'))
    /\ rep' = Done
    /\ UNCHANGED <<template, skipped, receipts, duration, now, client, slot, edits>>

\* refresh_master_horizon, by a refresh of the schedule
RefreshHorizon ==
    /\ horizon' = now + duration
    /\ UNCHANGED <<rep, template, rows, skipped, receipts, duration, now, client, slot, edits>>

\* validate_repetition_settings_update: what a generated repetition may still change.
Unlocked(old, new) ==
    /\ new.mode = old.mode /\ new.start = old.start /\ new.interval = old.interval
    /\ old.count # None /\ new.count # None => new.count >= old.count
    /\ old.mode = "DATE_RANGE" =>
          \/ old.end = None /\ new.end = None
          \/ old.end # None /\ new.end # None /\ new.end >= old.end

\* update_settings up to its write
ReadSettings(p, s) ==
    /\ slot[p] = None /\ rep # None /\ edits < MaxEdits
    /\ rep.generated => Unlocked(rep.settings, s)
    /\ s # rep.settings
    /\ slot' = [slot EXCEPT ![p] = [kind |-> "SETTINGS", old |-> rep.settings, new |-> s]]
    /\ edits' = edits + 1
    /\ UNCHANGED <<stored, now, client>>

\* Only the columns that change are written.
Merged(s) == [f \in DOMAIN s.old |-> IF s.new[f] # s.old[f] THEN s.new[f] ELSE rep.settings[f]]

\* The write of update_settings; it fails when the repetition is gone or a check
\* constraint does not hold.
WriteSettings(p) ==
    /\ slot[p] # None /\ slot[p].kind = "SETTINGS"
    /\ rep' = IF rep = None \/ Merged(slot[p]) \notin ValidSettings THEN rep
              ELSE [rep EXCEPT !.settings = Merged(slot[p])]
    /\ slot' = [slot EXCEPT ![p] = None]
    /\ UNCHANGED <<template, rows, skipped, receipts, horizon, duration, now, client, edits>>

ChangeTemplate(t) ==
    /\ rep # None /\ edits < MaxEdits /\ t # template
    /\ template' = t
    /\ edits' = edits + 1
    /\ UNCHANGED <<rep, rows, skipped, receipts, horizon, duration, now, client, slot>>

\* update of the master horizon setting
SetDuration(d) ==
    /\ edits < MaxEdits /\ d # duration
    /\ duration' = d
    /\ edits' = edits + 1
    /\ UNCHANGED <<rep, template, rows, skipped, receipts, horizon, now, client, slot>>

\* delete_plan of an instance's root
DeleteOccurrence(r) ==
    /\ edits < MaxEdits
    /\ rows' = rows \ {r}
    /\ skipped' = skipped \cup {r[2]}
    /\ edits' = edits + 1
    /\ UNCHANGED <<rep, template, receipts, horizon, duration, now, client, slot>>

\* delete_plan of the repetition: receipts and omissions go with it.
DeleteRepetition ==
    /\ rep # None /\ edits < MaxEdits
    /\ rep' = None /\ rows' = {} /\ skipped' = {}
    /\ receipts' = [k \in Keys |-> None]
    /\ edits' = edits + 1
    /\ UNCHANGED <<template, horizon, duration, now, client, slot>>

\* _refresh_repetition_in_txn up to its first write
ReadInstances(p) ==
    /\ slot[p] = None /\ rep # None /\ rep.generated
    /\ slot' = [slot EXCEPT ![p] = [kind |-> "REFRESH", settings |-> rep.settings,
                                    existing |-> Existing(rows), skipped |-> skipped]]
    /\ UNCHANGED <<stored, now, client, edits>>

\* Without the end it needs a refresh fails and writes nothing.
Desired(s) == IF Open(s) /\ horizon = None THEN {} ELSE Indices(s, horizon)

\* The writes.  Where no clone follows the template nothing is written before the
\* omissions are read, which are then as old as the instances.
AddInstances(p) ==
    /\ slot[p] # None /\ slot[p].kind = "REFRESH"
    /\ \E omitted \in {skipped, slot[p].skipped} :
          rows' = IF rep = None THEN {}
                  ELSE rows \cup Batch(p, Desired(slot[p].settings)
                                            \ (slot[p].existing \cup omitted))
    /\ slot' = [slot EXCEPT ![p] = None]
    /\ UNCHANGED <<rep, template, skipped, receipts, horizon, duration, now, client, edits>>

Tick ==
    /\ now < MaxTime
    /\ now' = now + 1
    /\ UNCHANGED <<stored, client, slot, edits>>

-----------------------------------------------------------------------------
Init ==
    /\ rep \in [settings : Settings, generated : {FALSE}]
    /\ template \in Templates
    /\ rows = {} /\ skipped = {}
    /\ receipts = [k \in Keys |-> None]
    /\ horizon = None
    /\ duration \in Durations
    /\ now = 0
    /\ entry = [k \in Keys |-> None]
    /\ sent = {} /\ answers = {}
    /\ slot = [p \in Slots |-> None]
    /\ edits = 0

Next ==
    \/ \E k \in Keys :
          \/ Send(k) \/ Receive(k) \/ Handle(k)
          \/ \E o \in Omissions : Preview(k, o) \/ Rethink(k, o)
    \/ Lose
    \/ \E p \in Slots :
          \/ WriteSettings(p) \/ ReadInstances(p) \/ AddInstances(p)
          \/ \E s \in Settings : ReadSettings(p, s)
    \/ GenerateInstances \/ RefreshHorizon \/ DeleteRepetition \/ Tick
    \/ \E t \in Templates : ChangeTemplate(t)
    \/ \E d \in Durations : SetDuration(d)
    \/ \E r \in rows : DeleteOccurrence(r)

\* Clients keep sending, and what is sent again and again gets through in the end.
Fairness ==
    \A k \in Keys : WF_vars(Send(k)) /\ SF_vars(Handle(k)) /\ SF_vars(Receive(k))

Spec == Init /\ [][Next]_vars /\ Fairness

-----------------------------------------------------------------------------
(* Properties.                                                             *)

\* Every table holds well-formed rows, and only a generated repetition has instances,
\* omissions or a receipt.
TypeOK ==
    /\ rep \in [settings : ValidSettings, generated : BOOLEAN] \cup {None}
    /\ template \in Templates
    /\ rows \subseteq Origins \X Nat
    /\ skipped \subseteq Nat
    /\ \A k \in Keys : receipts[k] # None =>
          receipts[k].request \in Request /\ receipts[k].refs \subseteq {k} \X Nat
    /\ horizon \in Nat \cup {None}
    /\ duration \in Durations
    /\ now \in 0 .. MaxTime /\ edits \in 0 .. MaxEdits
    /\ \A k \in Keys : entry[k] # None => entry[k].request \in Request
    /\ rep = None \/ ~rep.generated =>
          rows = {} /\ skipped = {} /\ \A k \in Keys : receipts[k] = None

\* Instances and omissions never meet, and together they are the first occurrences,
\* without a gap: what a user left out or deleted is not made again, however the range,
\* the count and the horizon move before the next refresh.
OccurrencesDense ==
    /\ Existing(rows) \cap skipped = {}
    /\ \A i \in Existing(rows) \cup skipped : 0 .. i \subseteq Existing(rows) \cup skipped

Told == answers \cup {[key |-> k, request |-> entry[k].request, result |-> entry[k].answer] :
                         k \in {j \in Keys : entry[j] # None /\ entry[j].answer # None}}

\* A client that is told its confirmation succeeded gets the ids of exactly the
\* instances it asked for, and as long as the repetition is there each of them is
\* stored or was deleted, and no other preview or direct generation made any.
AnswersTrue ==
    \A a \in Told : a.result.code = "OK" =>
        /\ a.result.refs = Refs(a.key, a.request)
        /\ rep # None =>
              /\ \A r \in a.result.refs : r \in rows \/ r[2] \in skipped
              /\ \A r \in rows : r[1] \in {a.key} \cup Slots

\* What is generated on a confirmation are the occurrences of the settings, the
\* template and the horizon setting that are stored then, from a moment up to now.
AsPreviewed ==
    [][\A k \in Keys : receipts[k] = None /\ receipts'[k] # None =>
          /\ receipts'[k].request.template = template
          /\ \E run \in 0 .. now :
                Existing(rows') \cup skipped' = Indices(rep.settings, run + duration)]_vars

\* A client whose confirmation took effect, and that keeps to it, learns that it did,
\* unless the repetition is deleted first.
TookEffect(k) == receipts[k] # None /\ Waiting(k) /\ entry[k].request = receipts[k].request

Learned(k) ==
    \/ rep = None
    \/ /\ entry[k] # None /\ receipts[k] # None
       /\ \/ entry[k].answer = Success(Refs(k, entry[k].request))
          \/ entry[k].request # receipts[k].request

SuccessTold == \A k \in Keys : TookEffect(k) ~> Learned(k)

\* No occurrence is generated twice (the validation's "dense starting at 0").
OneRowPerOccurrence == \A r, q \in rows : r[2] = q[2] => r = q
=============================================================================
