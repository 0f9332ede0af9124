---------------------- MODULE RepetitionGeneration_proofs ----------------------
(***************************************************************************)
(* What holds of previews, confirmations, generation and refreshes for any *)
(* number of keys, settings, templates and edits.                          *)
(*                                                                         *)
(* Typed describes the variables; Made is what a client may rely on once   *)
(* its confirmation took effect, and every step keeps it.                  *)
(***************************************************************************)
EXTENDS RepetitionGeneration, TLAPS

-----------------------------------------------------------------------------
(* Types.                                                                  *)

RepType     == [settings : ValidSettings, generated : BOOLEAN]
Codes == {"OK", "PLAN_NOT_FOUND", "REPETITION_GENERATION_CONFLICT",
          "REPETITION_ALREADY_GENERATED", "REPETITION_PREVIEW_STALE"}

ResultType  == [code : Codes, refs : SUBSET (Origins \X Nat)]
ReceiptType == [request : Request, refs : SUBSET (Origins \X Nat)]
EntryType   == [request : Request, answer : ResultType \cup {None}]
SentType    == [key : Keys, request : Request]
AnswerType  == [key : Keys, request : Request, result : ResultType]

RefreshSlot == [kind : {"REFRESH"}, settings : ValidSettings,
                existing : SUBSET Nat, skipped : SUBSET Nat]

Typed ==
    /\ rep \in RepType \cup {None}
    /\ template \in Templates
    /\ rows \subseteq Origins \X Nat
    /\ skipped \subseteq Nat
    /\ receipts \in [Keys -> ReceiptType \cup {None}]
    /\ horizon \in Nat \cup {None}
    /\ duration \in Durations
    /\ now \in 0 .. MaxTime /\ edits \in 0 .. MaxEdits
    /\ entry \in [Keys -> EntryType \cup {None}]
    /\ sent \subseteq SentType
    /\ answers \subseteq AnswerType
    /\ DOMAIN slot = Slots
    /\ \A p \in Slots : slot[p] # None =>
          slot[p].kind = "SETTINGS" \/ slot[p] \in RefreshSlot

\* Nothing is stored for a repetition that is not generated, or is gone, and only a
\* generated one is refreshed.
EmptyBefore ==
    /\ rep = None \/ ~rep.generated =>
          rows = {} /\ skipped = {} /\ \A k \in Keys : receipts[k] = None
    /\ \A p \in Slots : slot[p] # None /\ slot[p].kind = "REFRESH" =>
          rep = None \/ rep.generated

\* The occurrences of settings are numbers from 0 without a gap.
LEMMA IndicesType ==
    ASSUME NEW s \in ValidSettings, NEW h, Open(s) => h \in Nat
    PROVE  Indices(s, h) \subseteq Nat
  <1>0. None \notin Nat
    BY SettingsAssumption
  <1>1. CASE s.mode = "MANUAL_COUNT"
    <2>1. s.count \in Nat
      BY <1>1 DEF ValidSettings, SettingsRecord, Valid
    <2>2. Indices(s, h) = 0 .. s.count - 1
      BY <1>1 DEF Indices, Open
    <2>3. QED
      BY <2>1, <2>2
  <1>2. CASE Open(s)
    <2>1. Indices(s, h) = Starting(s, h)
      BY <1>2 DEF Indices, Open
    <2>2. QED
      BY <1>2, <2>1 DEF Starting
  <1>3. CASE s.mode # "MANUAL_COUNT" /\ ~Open(s)
    <2>1. s.end \in Nat
      BY <1>3 DEF ValidSettings, SettingsRecord, Modes, Open
    <2>2. Indices(s, h) = Starting(s, s.end)
      BY <1>3, Zenon DEF Indices
    <2>3. QED
      BY <2>1, <2>2 DEF Starting
  <1>4. QED
    BY <1>1, <1>2, <1>3

LEMMA IndicesDense ==
    ASSUME NEW s \in ValidSettings, NEW h, Open(s) => h \in Nat,
           NEW i \in Indices(s, h), NEW j \in 0 .. i
    PROVE  j \in Indices(s, h)
  <1>0. None \notin Nat
    BY SettingsAssumption
  <1>s. ASSUME NEW end \in Nat, i \in Starting(s, end) PROVE j \in Starting(s, end)
    <2>1. s.start \in Nat /\ s.interval \in Nat \ {0}
      BY DEF ValidSettings, SettingsRecord
    <2>2. i \in Nat /\ i <= end /\ s.start + i * s.interval < end
      BY <1>s DEF Starting
    <2>3. j * s.interval <= i * s.interval
      <3>1. i - j \in Nat /\ j \in Nat /\ i = j + (i - j)
        BY <2>2
      <3>2. (i - j) * s.interval \in Nat /\ j * s.interval \in Nat
        BY <2>1, <3>1
      <3>3. i * s.interval = j * s.interval + (i - j) * s.interval
        BY <2>1, <2>2, <3>1
      <3>4. QED
        BY <3>2, <3>3
    <2>4. j \in 0 .. end /\ j * s.interval \in Int /\ i * s.interval \in Int
      BY <2>1, <2>2
    <2>5. s.start + j * s.interval < end
      BY <2>1, <2>2, <2>3, <2>4
    <2>6. QED
      BY <2>4, <2>5 DEF Starting
  <1>1. CASE s.mode = "MANUAL_COUNT"
    <2>1. s.count \in Nat
      BY <1>1 DEF ValidSettings, SettingsRecord, Valid
    <2>2. Indices(s, h) = 0 .. s.count - 1
      BY <1>1 DEF Indices, Open
    <2>3. QED
      BY <2>1, <2>2
  <1>2. CASE Open(s)
    <2>1. Indices(s, h) = Starting(s, h)
      BY <1>2 DEF Indices, Open
    <2>2. QED
      BY <1>2, <2>1, <1>s
  <1>3. CASE s.mode # "MANUAL_COUNT" /\ ~Open(s)
    <2>1. s.end \in Nat
      BY <1>3 DEF ValidSettings, SettingsRecord, Modes, Open
    <2>2. Indices(s, h) = Starting(s, s.end)
      BY <1>3, Zenon DEF Indices
    <2>3. QED
      BY <2>1, <2>2, <1>s
  <1>4. QED
    BY <1>1, <1>2, <1>3

LEMMA PreviewedType ==
    ASSUME NEW r \in Request
    PROVE  Previewed(r) \subseteq Nat
  <1>1. r.settings \in ValidSettings /\ (Open(r.settings) => r.horizon \in Nat)
    BY DEF Request
  <1>2. QED
    BY <1>1, IndicesType DEF Previewed

LEMMA RefsType ==
    ASSUME NEW k \in Keys, NEW r \in Request
    PROVE  Refs(k, r) \subseteq {k} \X Nat /\ Refs(k, r) \subseteq Origins \X Nat
  BY PreviewedType DEF Refs, Batch, Origins

\* A batch has the indices it was made for.
LEMMA BatchIndices ==
    ASSUME NEW origin, NEW indices
    PROVE  Existing(Batch(origin, indices)) = indices
  <1>1. ASSUME NEW i, i \in Existing(Batch(origin, indices)) PROVE i \in indices
    BY <1>1 DEF Existing, Batch
  <1>2. ASSUME NEW i \in indices PROVE i \in Existing(Batch(origin, indices))
    <2>1. <<origin, i>> \in Batch(origin, indices) /\ <<origin, i>>[2] = i
      BY DEF Batch
    <2>2. QED
      BY <2>1 DEF Existing
  <1>3. QED
    BY <1>1, <1>2

LEMMA ExistingUnion ==
    ASSUME NEW R, NEW Q
    PROVE  Existing(R \cup Q) = Existing(R) \cup Existing(Q)
  BY DEF Existing

LEMMA TypedInit == Init => Typed /\ EmptyBefore
  <1> SUFFICES ASSUME Init PROVE Typed /\ EmptyBefore
    OBVIOUS
  <1>1. rep \in RepType
    BY SettingsAssumption DEF Init, RepType
  <1>2. 0 \in 0 .. MaxTime /\ 0 \in 0 .. MaxEdits
    BY BoundsAssumption
  <1>3. receipts \in [Keys -> ReceiptType \cup {None}] /\ entry \in [Keys -> EntryType \cup {None}]
    BY DEF Init
  <1>4. QED
    BY <1>1, <1>2, <1>3, SettingsAssumption DEF Init, Typed, EmptyBefore, RepType

\* An answer is well formed; answers to a key replace those that are on their way.
LEMMA AnswerTyped ==
    ASSUME Typed, NEW r \in sent, NEW res \in ResultType, Answer(r, res)
    PROVE  /\ sent' \subseteq SentType /\ answers' \subseteq AnswerType
           /\ now' = now /\ entry' = entry /\ slot' = slot /\ edits' = edits
  <1>1. r \in SentType
    BY DEF Typed
  <1>2. [key |-> r.key, request |-> r.request, result |-> res] \in AnswerType
    BY <1>1 DEF SentType, AnswerType
  <1>3. QED
    BY <1>2 DEF Answer, Typed

LEMMA RefusalCodes ==
    /\ Refusal("PLAN_NOT_FOUND") \in ResultType
    /\ Refusal("REPETITION_GENERATION_CONFLICT") \in ResultType
    /\ Refusal("REPETITION_ALREADY_GENERATED") \in ResultType
    /\ Refusal("REPETITION_PREVIEW_STALE") \in ResultType
  BY DEF Refusal, ResultType, Codes

LEMMA SuccessType ==
    ASSUME NEW made, made \subseteq Origins \X Nat PROVE Success(made) \in ResultType
  <1>1. made \in SUBSET (Origins \X Nat)
    OBVIOUS
  <1>2. QED
    BY <1>1 DEF Success, ResultType, Codes

\* A settled repetition is one, and not None.
LEMMA DoneType ==
    ASSUME Typed, rep # None
    PROVE  /\ Done \in RepType /\ Done # None /\ Done.generated /\ Done.settings = rep.settings
  BY SettingsAssumption DEF Typed, RepType, Done

LEMMA HandleTyped ==
    ASSUME Typed, EmptyBefore, NEW k \in Keys, Handle(k)
    PROVE  Typed' /\ EmptyBefore'
  <1>1. PICK r \in sent : /\ r.key = k
                          /\ NotFound(r) \/ Repeat(r) \/ TooLate(r) \/ Stale(r) \/ Commit(r)
    BY DEF Handle
  <1>2. r.key \in Keys /\ r.request \in Request
    BY DEF Typed, SentType
  <1>3. ASSUME NEW res \in ResultType, Answer(r, res), UNCHANGED stored
        PROVE  Typed' /\ EmptyBefore'
    BY <1>3, AnswerTyped DEF Typed, EmptyBefore, stored
  <1>4. CASE NotFound(r)
    BY <1>3, <1>4, RefusalCodes DEF NotFound
  <1>5. CASE Repeat(r)
    <2>1. receipts[r.key] \in ReceiptType
      BY <1>2, <1>5 DEF Repeat, Typed
    <2>2. Success(receipts[r.key].refs) \in ResultType
      BY <2>1, SuccessType DEF ReceiptType
    <2>3. QED
      BY <1>3, <1>5, <2>2, RefusalCodes DEF Repeat
  <1>6. CASE TooLate(r)
    BY <1>3, <1>6, RefusalCodes DEF TooLate
  <1>7. CASE Stale(r)
    BY <1>3, <1>7, RefusalCodes DEF Stale
  <1>8. CASE Commit(r)
    <2>1. Refs(r.key, r.request) \subseteq Origins \X Nat
      BY <1>2, RefsType
    <2>2. Success(Refs(r.key, r.request)) \in ResultType
      BY <2>1, SuccessType
    <2>3. sent' \subseteq SentType /\ answers' \subseteq AnswerType
          /\ UNCHANGED <<now, entry, slot, edits>>
      BY <1>8, <2>2, AnswerTyped DEF Commit
    <2>4. rep' \in RepType /\ rep' # None /\ rep'.generated
      BY <1>8, DoneType DEF Commit
    <2>5. receipts' \in [Keys -> ReceiptType \cup {None}]
      <3>1. [request |-> r.request, refs |-> Refs(r.key, r.request)] \in ReceiptType
        BY <1>2, <2>1 DEF ReceiptType
      <3>2. QED
        BY <1>8, <3>1 DEF Commit, Typed
    <2>6. skipped' \subseteq Nat
      BY <1>2, <1>8 DEF Commit, SkippedBy, Request, Typed
    <2>7. rows' \subseteq Origins \X Nat
      BY <1>8, <2>1 DEF Commit, Typed
    <2>8. QED
      BY <1>8, <2>3, <2>4, <2>5, <2>6, <2>7 DEF Commit, Typed, EmptyBefore
  <1>9. QED
    BY <1>1, <1>4, <1>5, <1>6, <1>7, <1>8

LEMMA ClientTyped ==
    ASSUME Typed, EmptyBefore, NEW k \in Keys,
           \/ Send(k) \/ Receive(k) \/ Lose
           \/ \E o \in Omissions : Preview(k, o) \/ Rethink(k, o)
    PROVE  Typed' /\ EmptyBefore'
  <1>1. EmptyBefore'
    BY DEF Send, Receive, Lose, Preview, Rethink, stored, EmptyBefore
  <1>2. CASE Send(k)
    <2>1. entry[k] \in EntryType
      BY <1>2 DEF Send, Waiting, Typed
    <2>2. [key |-> k, request |-> entry[k].request] \in SentType
      BY <2>1 DEF SentType, EntryType
    <2>3. QED
      BY <1>1, <1>2, <2>2 DEF Send, stored, Typed
  <1>3. CASE Receive(k)
    <2>1. PICK a \in answers : /\ entry' = [entry EXCEPT ![k].answer = a.result]
                               /\ answers' = answers \ {a}
      BY <1>3 DEF Receive
    <2>2. entry[k] \in EntryType /\ a.result \in ResultType
      BY <1>3 DEF Receive, Waiting, Typed, AnswerType
    <2>3. [entry[k] EXCEPT !.answer = a.result] \in EntryType
      BY <2>2 DEF EntryType
    <2>4. entry' \in [Keys -> EntryType \cup {None}]
      BY <2>1, <2>3 DEF Typed
    <2>5. QED
      BY <1>1, <1>3, <2>1, <2>4 DEF Receive, stored, Typed
  <1>4. CASE Lose
    BY <1>1, <1>4 DEF Lose, stored, Typed
  <1>5. ASSUME NEW o \in Omissions, Preview(k, o) PROVE Typed'
    <2>1. rep \in RepType /\ now \in Nat /\ duration \in Nat
      BY <1>5, BoundsAssumption, HorizonAssumption DEF Preview, Typed
    <2>2. o \in SUBSET Nat
      BY OmissionAssumption
    <2> DEFINE h == IF Open(rep.settings) THEN now + duration ELSE None
               req == [settings |-> rep.settings, template |-> template, run |-> now,
                       horizon |-> h, omitted |-> o]
    <2>3. h \in Nat \cup {None} /\ (Open(rep.settings) => h # None)
      BY <2>1, SettingsAssumption
    <2> HIDE DEF h
    <2>4. req \in Request
      BY <2>1, <2>2, <2>3 DEF RepType, Request, Typed
    <2>5. [request |-> req, answer |-> None] \in EntryType
      BY <2>4 DEF EntryType
    <2>6. entry' = [entry EXCEPT ![k] = [request |-> req, answer |-> None]]
      BY <1>5 DEF Preview, h
    <2> HIDE DEF req
    <2>7. entry' \in [Keys -> EntryType \cup {None}]
      BY <2>5, <2>6 DEF Typed
    <2>8. QED
      BY <1>5, <2>7 DEF Preview, stored, Typed
  <1>6. ASSUME NEW o \in Omissions, Rethink(k, o) PROVE Typed'
    <2>1. entry[k] \in EntryType
      BY <1>6 DEF Rethink, Waiting, Typed
    <2>2. [entry[k].request EXCEPT !.omitted = o] \in Request
      BY <2>1, OmissionAssumption DEF EntryType, Request
    <2>3. [entry[k] EXCEPT !.request = [entry[k].request EXCEPT !.omitted = o]] \in EntryType
      BY <2>1, <2>2 DEF EntryType
    <2>4. entry' = [entry EXCEPT ![k] =
                      [entry[k] EXCEPT !.request = [entry[k].request EXCEPT !.omitted = o]]]
      BY <1>6 DEF Rethink
    <2>5. entry' \in [Keys -> EntryType \cup {None}]
      BY <2>3, <2>4 DEF Typed
    <2>6. edits' \in 0 .. MaxEdits
      BY <1>6, BoundsAssumption DEF Rethink, Typed
    <2>7. QED
      BY <1>6, <2>5, <2>6 DEF Rethink, stored, Typed
  <1>7. QED
    BY <1>1, <1>2, <1>3, <1>4, <1>5, <1>6

\* What a refresh means to add are occurrences.
LEMMA DesiredType ==
    ASSUME Typed, NEW s \in ValidSettings
    PROVE  Desired(s) \subseteq Nat
  BY IndicesType DEF Typed, Desired

LEMMA SlotTyped ==
    ASSUME Typed, EmptyBefore, NEW p \in Slots,
           \/ WriteSettings(p) \/ ReadInstances(p) \/ AddInstances(p)
           \/ \E s \in Settings : ReadSettings(p, s)
    PROVE  Typed' /\ EmptyBefore'
  <1>1. CASE WriteSettings(p)
    <2>1. CASE rep = None \/ Merged(slot[p]) \notin ValidSettings
      <3>1. rep' = rep
        BY <1>1, <2>1 DEF WriteSettings
      <3>2. QED
        BY <1>1, <3>1 DEF WriteSettings, client, Typed, EmptyBefore
    <2>2. CASE rep # None /\ Merged(slot[p]) \in ValidSettings
      <3>1. rep' = [rep EXCEPT !.settings = Merged(slot[p])] /\ rep \in RepType
        BY <1>1, <2>2 DEF WriteSettings, Typed
      <3>2. rep' \in RepType /\ rep' # None /\ rep'.generated = rep.generated
        BY <2>2, <3>1, SettingsAssumption DEF RepType
      <3>3. QED
        BY <1>1, <2>2, <3>2 DEF WriteSettings, client, Typed, EmptyBefore
    <2>3. QED
      BY <2>1, <2>2
  <1>2. CASE ReadInstances(p)
    <2>1. rep.settings \in ValidSettings /\ Existing(rows) \in SUBSET Nat
      BY <1>2 DEF ReadInstances, Typed, RepType, Existing
    <2>2. slot' = [slot EXCEPT ![p] = [kind |-> "REFRESH", settings |-> rep.settings,
                                       existing |-> Existing(rows), skipped |-> skipped]]
      BY <1>2 DEF ReadInstances
    <2>3. slot'[p] \in RefreshSlot
      BY <2>1, <2>2 DEF RefreshSlot, Typed
    <2>4. QED
      BY <1>2, <2>2, <2>3 DEF ReadInstances, stored, client, Typed, EmptyBefore
  <1>3. CASE AddInstances(p)
    <2>1. slot[p] \in RefreshSlot
      BY <1>3 DEF AddInstances, Typed
    <2>2. Desired(slot[p].settings) \subseteq Nat
      BY <2>1, DesiredType DEF RefreshSlot
    <2>3. \A omitted : Batch(p, Desired(slot[p].settings) \ (slot[p].existing \cup omitted))
                          \subseteq Origins \X Nat
      BY <2>2 DEF Batch, Origins
    <2>4. rows' \subseteq Origins \X Nat /\ (rep = None => rows' = {})
      BY <1>3, <2>3 DEF AddInstances, Typed
    <2>5. rep = None \/ rep.generated
      BY <1>3 DEF AddInstances, EmptyBefore
    <2>6. QED
      BY <1>3, <2>4, <2>5 DEF AddInstances, client, Typed, EmptyBefore
  <1>4. ASSUME NEW s \in Settings, ReadSettings(p, s) PROVE Typed' /\ EmptyBefore'
    BY <1>4, BoundsAssumption DEF ReadSettings, stored, client, Typed, EmptyBefore
  <1>5. QED
    BY <1>1, <1>2, <1>3, <1>4

LEMMA GenerationTyped ==
    ASSUME Typed, EmptyBefore, GenerateInstances
    PROVE  Typed' /\ EmptyBefore'
  <1>1. rep \in RepType /\ now \in Nat /\ duration \in Nat
    BY BoundsAssumption, HorizonAssumption DEF GenerateInstances, Typed
  <1>2. horizon' \in Nat \cup {None} /\ (Open(rep.settings) => horizon' \in Nat)
    BY <1>1 DEF GenerateInstances, Typed
  <1>3. Indices(rep.settings, horizon') \subseteq Nat
    BY <1>1, <1>2, IndicesType DEF RepType
  <1>4. rows' \subseteq Origins \X Nat
    BY <1>3 DEF GenerateInstances, Batch, Origins, Typed
  <1>5. rep' \in RepType /\ rep' # None /\ rep'.generated
    BY DoneType DEF GenerateInstances
  <1>6. QED
    BY <1>2, <1>4, <1>5 DEF GenerateInstances, client, Typed, EmptyBefore

LEMMA EditTyped ==
    ASSUME Typed, EmptyBefore,
           \/ RefreshHorizon \/ DeleteRepetition \/ Tick
           \/ \E t \in Templates : ChangeTemplate(t)
           \/ \E d \in Durations : SetDuration(d)
           \/ \E r \in rows : DeleteOccurrence(r)
    PROVE  Typed' /\ EmptyBefore'
  <1>1. now \in Nat /\ duration \in Nat /\ MaxEdits \in Nat /\ MaxTime \in Nat
    BY BoundsAssumption, HorizonAssumption DEF Typed
  <1>2. CASE RefreshHorizon
    BY <1>1, <1>2 DEF RefreshHorizon, client, Typed, EmptyBefore
  <1>3. CASE DeleteRepetition
    BY <1>1, <1>3 DEF DeleteRepetition, client, Typed, EmptyBefore
  <1>4. CASE Tick
    BY <1>1, <1>4 DEF Tick, stored, client, Typed, EmptyBefore
  <1>5. CASE \E t \in Templates : ChangeTemplate(t)
    BY <1>1, <1>5 DEF ChangeTemplate, client, Typed, EmptyBefore
  <1>6. CASE \E d \in Durations : SetDuration(d)
    BY <1>1, <1>6 DEF SetDuration, client, Typed, EmptyBefore
  <1>7. ASSUME NEW r \in rows, DeleteOccurrence(r) PROVE Typed' /\ EmptyBefore'
    <2>1. r[2] \in Nat
      BY DEF Typed
    <2>2. ~(rep = None \/ ~rep.generated)
      BY DEF EmptyBefore
    <2>3. skipped' \subseteq Nat /\ edits' \in 0 .. MaxEdits
      <3>1. skipped' = skipped \cup {r[2]} /\ edits' = edits + 1 /\ edits < MaxEdits
        BY <1>7 DEF DeleteOccurrence
      <3>2. skipped \subseteq Nat /\ edits \in Nat
        BY DEF Typed
      <3>3. skipped' \subseteq Nat
        BY <2>1, <3>1, <3>2
      <3>4. edits' \in 0 .. MaxEdits
        BY <1>1, <3>1, <3>2
      <3>5. QED
        BY <3>3, <3>4
    <2>4. Typed'
      BY <1>7, <2>3 DEF DeleteOccurrence, client, Typed
    <2>5. EmptyBefore'
      BY <1>7, <2>2 DEF DeleteOccurrence, EmptyBefore
    <2>6. QED
      BY <2>4, <2>5
  <1>8. QED
    BY <1>2, <1>3, <1>4, <1>5, <1>6, <1>7

LEMMA TypedStep == Typed /\ EmptyBefore /\ [Next]_vars => Typed' /\ EmptyBefore'
  <1> SUFFICES ASSUME Typed, EmptyBefore, [Next]_vars PROVE Typed' /\ EmptyBefore'
    OBVIOUS
  <1>1. CASE UNCHANGED vars
    BY <1>1 DEF vars, stored, client, Typed, EmptyBefore
  <1>2. CASE Lose
    <2>1. EmptyBefore'
      BY <1>2 DEF Lose, stored, EmptyBefore
    <2>2. QED
      BY <1>2, <2>1 DEF Lose, stored, Typed
  <1>3. QED
    BY <1>1, <1>2, ClientTyped, HandleTyped, SlotTyped, GenerationTyped, EditTyped DEF Next

-----------------------------------------------------------------------------
(* What a confirmation that took effect leaves behind.                     *)

Made(k, refs) ==
    rep # None =>
        /\ rep.generated
        /\ \A r \in refs : r \in rows \/ r[2] \in skipped
        /\ \A r \in rows : r[1] \in {k} \cup Slots

\* Receipts tell what was made, and so does every answer, on its way or received.
True(k, request, result) ==
    result.code = "OK" => result.refs = Refs(k, request) /\ Made(k, result.refs)

ReceiptTrue(k) ==
    receipts[k] # None =>
        /\ receipts[k].refs = Refs(k, receipts[k].request)
        /\ Made(k, receipts[k].refs)

EntryTrue(k) ==
    entry[k] # None /\ entry[k].answer # None => True(k, entry[k].request, entry[k].answer)

Truthful ==
    /\ \A k \in Keys : ReceiptTrue(k) /\ EntryTrue(k)
    /\ \A a \in answers : True(a.key, a.request, a.result)

\* Once made, instances are there or deleted, whatever happens next.
LEMMA MadeStep ==
    ASSUME Typed, EmptyBefore, [Next]_vars, NEW k, NEW refs, Made(k, refs)
    PROVE  Made(k, refs)'
  <1>1. CASE UNCHANGED <<rep, rows, skipped>>
    BY <1>1 DEF Made
  <1>2. ASSUME NEW j \in Keys, Handle(j) PROVE Made(k, refs)'
    <2>1. PICK r \in sent : NotFound(r) \/ Repeat(r) \/ TooLate(r) \/ Stale(r) \/ Commit(r)
      BY <1>2 DEF Handle
    <2>2. CASE Commit(r)
      BY <2>2 DEF Commit, Made
    <2>3. QED
      BY <1>1, <2>1, <2>2 DEF NotFound, Repeat, TooLate, Stale, stored
  <1>3. CASE GenerateInstances
    BY <1>3 DEF GenerateInstances, Made
  <1>4. ASSUME NEW p \in Slots, WriteSettings(p) PROVE Made(k, refs)'
    <2>1. rep # None => rep \in RepType
      BY DEF Typed
    <2>2. rep' # None => rep # None /\ rep'.generated = rep.generated
      BY <1>4, <2>1 DEF WriteSettings, RepType
    <2>3. QED
      BY <1>4, <2>2 DEF WriteSettings, Made
  <1>5. ASSUME NEW p \in Slots, AddInstances(p) PROVE Made(k, refs)'
    <2>1. CASE rep = None
      BY <1>5, <2>1 DEF AddInstances, Made
    <2>2. CASE rep # None
      <3>1. rows \subseteq rows' /\ \A r \in rows' : r \in rows \/ r[1] = p
        BY <1>5, <2>2 DEF AddInstances, Batch
      <3>2. QED
        BY <1>5, <2>2, <3>1 DEF AddInstances, Made
    <2>3. QED
      BY <2>1, <2>2
  <1>6. CASE DeleteRepetition
    BY <1>6 DEF DeleteRepetition, Made
  <1>7. ASSUME NEW r \in rows, DeleteOccurrence(r) PROVE Made(k, refs)'
    BY <1>7 DEF DeleteOccurrence, Made
  <1>8. QED
    BY <1>1, <1>2, <1>3, <1>4, <1>5, <1>6, <1>7
       DEF Next, Send, Receive, Preview, Rethink, Lose, ReadInstances, ReadSettings,
           RefreshHorizon, Tick, ChangeTemplate, SetDuration, stored, vars

LEMMA TrueStep ==
    ASSUME Typed, EmptyBefore, [Next]_vars, NEW k, NEW request, NEW result,
           True(k, request, result)
    PROVE  True(k, request, result)'
  BY MadeStep DEF True, Refs, Batch, Previewed, Indices, Open, Starting

LEMMA ReceiptStep ==
    ASSUME Typed, EmptyBefore, [Next]_vars, NEW k \in Keys, ReceiptTrue(k)
    PROVE  ReceiptTrue(k)'
  <1>1. CASE receipts'[k] = receipts[k]
    <2> DEFINE made == receipts[k].refs
    <2>1. ASSUME receipts[k] # None PROVE Made(k, receipts[k].refs)
      BY <2>1 DEF ReceiptTrue
    <2>2. \A refs : Made(k, refs) => Made(k, refs)'
      BY MadeStep
    <2>3. ASSUME NEW refs, refs = receipts[k].refs, receipts[k] # None
          PROVE  Made(k, refs)'
      BY <2>1, <2>2, <2>3
    <2>4. QED
      BY <1>1, <2>3 DEF ReceiptTrue, Made, Refs, Batch, Previewed, Indices, Open, Starting
  <1>2. ASSUME NEW j \in Keys, Handle(j), receipts'[k] # receipts[k]
        PROVE  ReceiptTrue(k)'
    <2>1. PICK r \in sent : /\ r.key = j
                            /\ NotFound(r) \/ Repeat(r) \/ TooLate(r) \/ Stale(r) \/ Commit(r)
      BY <1>2 DEF Handle
    <2>2. Commit(r)
      BY <1>2, <2>1 DEF NotFound, Repeat, TooLate, Stale, stored
    <2>3. receipts'[k] = [request |-> r.request, refs |-> Refs(k, r.request)] /\ j = k
      BY <1>2, <2>1, <2>2 DEF Commit, Typed
    <2>4. rows' = Refs(k, r.request) /\ rep'.generated
      BY <2>1, <2>2, <2>3, DoneType DEF Commit, EmptyBefore
    <2>5. \A q \in Refs(k, r.request) : q[1] = k
      BY DEF Refs, Batch
    <2>6. QED
      BY <2>3, <2>4, <2>5 DEF ReceiptTrue, Made
  <1>3. CASE DeleteRepetition
    BY <1>3 DEF DeleteRepetition, ReceiptTrue
  <1>4. QED
    BY <1>1, <1>2, <1>3
       DEF Next, Send, Receive, Preview, Rethink, Lose, WriteSettings, ReadInstances,
           AddInstances, ReadSettings, GenerateInstances, RefreshHorizon, Tick,
           ChangeTemplate, SetDuration, DeleteOccurrence, stored, vars

LEMMA EntryStep ==
    ASSUME Typed, EmptyBefore, [Next]_vars, Truthful, NEW k \in Keys
    PROVE  EntryTrue(k)'
  <1>1. CASE entry'[k] = entry[k]
    <2>1. ASSUME NEW request, NEW result, True(k, request, result)
          PROVE  True(k, request, result)'
      BY <2>1, TrueStep
    <2>2. ASSUME NEW request, NEW result, True(k, request, result)',
                 request = entry[k].request, result = entry[k].answer
          PROVE  EntryTrue(k)'
      BY <1>1, <2>2 DEF EntryTrue, True, Made, Refs, Batch, Previewed, Indices, Open, Starting
    <2>3. EntryTrue(k)
      BY DEF Truthful
    <2>4. CASE entry[k] # None /\ entry[k].answer # None
      BY <2>1, <2>2, <2>3, <2>4 DEF EntryTrue
    <2>5. QED
      BY <1>1, <2>4 DEF EntryTrue
  <1>2. CASE Receive(k)
    <2>1. PICK a \in answers : /\ a.key = k /\ a.request = entry[k].request
                               /\ entry' = [entry EXCEPT ![k].answer = a.result]
      BY <1>2 DEF Receive
    <2>2. entry[k] \in EntryType
      BY <1>2 DEF Receive, Waiting, Typed
    <2>3. entry'[k].request = a.request /\ entry'[k].answer = a.result
      BY <2>1, <2>2 DEF Typed, EntryType
    <2>4. True(a.key, a.request, a.result)'
      BY TrueStep DEF Truthful
    <2>5. /\ a.result.code = "OK" => a.result.refs = Refs(k, a.request) /\ Made(k, a.result.refs)'
          /\ Refs(k, a.request)' = Refs(k, a.request)
      BY <2>1, <2>4 DEF True, Refs, Batch, Previewed, Indices, Open, Starting
    <2>6. QED
      BY <2>3, <2>5 DEF EntryTrue, True, Made, Refs, Batch, Previewed, Indices, Open, Starting
  <1>3. ASSUME NEW j \in Keys, NEW o \in Omissions, Preview(j, o), entry'[k] # entry[k]
        PROVE  entry'[k].answer = None
    BY <1>3 DEF Preview, Typed
  <1>4. ASSUME NEW j \in Keys, NEW o \in Omissions, Rethink(j, o), entry'[k] # entry[k]
        PROVE  entry'[k].answer = None
    <2>1. entry[k] \in EntryType /\ j = k /\ entry[k].answer = None
      BY <1>4 DEF Rethink, Waiting, Typed
    <2>2. QED
      BY <1>4, <2>1 DEF Rethink, Typed, EntryType
  <1>5. CASE entry'[k].answer = None
    BY <1>5 DEF EntryTrue
  <1>6. \A j \in Keys : Receive(j) /\ j # k => entry'[k] = entry[k]
    BY DEF Receive, Typed
  <1>7. \A j \in Keys : Handle(j) => entry'[k] = entry[k]
    BY DEF Handle, NotFound, Repeat, TooLate, Stale, Commit, Answer
  <1>8. QED
    BY <1>1, <1>2, <1>3, <1>4, <1>5, <1>6, <1>7
       DEF Next, Send, Lose, WriteSettings, ReadInstances,
           AddInstances, ReadSettings, GenerateInstances, RefreshHorizon, Tick, DeleteRepetition,
           ChangeTemplate, SetDuration, DeleteOccurrence, client, vars

LEMMA AnswerStep ==
    ASSUME Typed, EmptyBefore, [Next]_vars, Truthful, NEW a \in answers'
    PROVE  True(a.key, a.request, a.result)'
  <1>1. CASE a \in answers
    BY <1>1, TrueStep DEF Truthful
  <1>2. ASSUME NEW k \in Keys, Handle(k), a \notin answers
        PROVE  True(a.key, a.request, a.result)'
    <2>1. PICK r \in sent : /\ r.key = k
                            /\ NotFound(r) \/ Repeat(r) \/ TooLate(r) \/ Stale(r) \/ Commit(r)
      BY <1>2 DEF Handle
    <2>2. ASSUME NEW res, Answer(r, res)
          PROVE  a.key = k /\ a.request = r.request /\ a.result = res
      BY <1>2, <2>1, <2>2 DEF Answer
    <2>3. ASSUME NEW c, Answer(r, Refusal(c)), c # "OK" PROVE a.result.code # "OK"
      BY <2>2, <2>3 DEF Refusal
    <2>4. CASE a.result.code # "OK"
      BY <2>4 DEF True
    <2>5. CASE NotFound(r)
      BY <2>3, <2>4, <2>5 DEF NotFound
    <2>6. CASE TooLate(r)
      BY <2>3, <2>4, <2>6 DEF TooLate
    <2>7. CASE Stale(r)
      BY <2>3, <2>4, <2>7 DEF Stale
    <2>8. CASE Repeat(r)
      <3>1. CASE ~SameRequest(r)
        BY <2>3, <2>4, <2>8, <3>1 DEF Repeat
      <3>2. CASE SameRequest(r)
        <4>1. a.key = k /\ a.request = r.request /\ a.result = Success(receipts[k].refs)
          BY <2>1, <2>2, <2>8, <3>2 DEF Repeat
        <4>2. receipts[k].request = a.request /\ receipts[k] # None
          BY <2>1, <2>8, <3>2, <4>1 DEF Repeat, SameRequest
        <4>3. True(a.key, a.request, a.result)
          BY <4>1, <4>2 DEF Truthful, ReceiptTrue, True, Success
        <4>4. QED
          BY <4>3, TrueStep
      <3>3. QED
        BY <3>1, <3>2
    <2>9. CASE Commit(r)
      <3>1. a.key = k /\ a.request = r.request /\ a.result = Success(Refs(k, r.request))
        BY <2>1, <2>2, <2>9 DEF Commit
      <3>2. rows' = Refs(k, r.request) /\ rep'.generated
        BY <2>1, <2>9, DoneType DEF Commit, EmptyBefore
      <3>3. \A q \in Refs(k, r.request) : q[1] = k
        BY DEF Refs, Batch
      <3>4. a.result.refs = Refs(k, r.request)
        BY <3>1 DEF Success
      <3>5. Made(k, Refs(k, r.request))'
        BY <3>2, <3>3 DEF Made, Refs, Batch, Previewed, Indices, Open, Starting
      <3>6. Refs(k, r.request)' = Refs(k, r.request)
        BY DEF Refs, Batch, Previewed, Indices, Open, Starting
      <3>7. QED
        BY <3>1, <3>4, <3>5, <3>6 DEF True
    <2>10. QED
      BY <2>1, <2>5, <2>6, <2>7, <2>8, <2>9
  <1>3. QED
    BY <1>1, <1>2
       DEF Next, Send, Receive, Preview, Rethink, Lose, WriteSettings, ReadInstances,
           AddInstances, ReadSettings, GenerateInstances, RefreshHorizon, Tick, DeleteRepetition,
           ChangeTemplate, SetDuration, DeleteOccurrence, client, vars

\* Every table, request and answer keeps its form, for any number of previews and
\* requests, and only a generated repetition has instances.
THEOREM TypeCorrect == Spec => []TypeOK
  <1>1. Typed /\ EmptyBefore /\ Truthful => TypeOK
    <2> SUFFICES ASSUME Typed, EmptyBefore, Truthful PROVE TypeOK
      OBVIOUS
    <2>1. \A k \in Keys : receipts[k] # None =>
            receipts[k].request \in Request /\ receipts[k].refs \subseteq {k} \X Nat
      <3> SUFFICES ASSUME NEW k \in Keys, receipts[k] # None
                   PROVE  receipts[k].request \in Request /\ receipts[k].refs \subseteq {k} \X Nat
        OBVIOUS
      <3>1. receipts[k].request \in Request
        BY DEF Typed, ReceiptType
      <3>2. receipts[k].refs = Refs(k, receipts[k].request)
        BY DEF Truthful, ReceiptTrue
      <3>3. QED
        BY <3>1, <3>2, RefsType
    <2>2. \A k \in Keys : entry[k] # None => entry[k].request \in Request
      BY DEF Typed, EntryType
    <2>3. QED
      BY <2>1, <2>2 DEF Typed, EmptyBefore, TypeOK, RepType
  <1>2. Init => Truthful
    BY DEF Init, Truthful, ReceiptTrue, EntryTrue
  <1>3. Typed /\ EmptyBefore /\ Truthful /\ [Next]_vars => Truthful'
    BY ReceiptStep, EntryStep, AnswerStep DEF Truthful
  <1>4. QED
    BY <1>1, <1>2, <1>3, TypedInit, TypedStep, PTL DEF Spec

\* Whatever is lost, repeated, changed or refreshed, a client that is told OK has
\* exactly the instances it asked for.
THEOREM AnswersCorrect == Spec => []AnswersTrue
  <1>1. Truthful => AnswersTrue
    <2> SUFFICES ASSUME Truthful, NEW a \in Told, a.result.code = "OK"
                 PROVE  a.result.refs = Refs(a.key, a.request) /\ Made(a.key, a.result.refs)
      BY DEF AnswersTrue, Made
    <2>1. CASE a \in answers
      BY <2>1 DEF Truthful, True
    <2>2. CASE a \notin answers
      <3>1. PICK k \in Keys : /\ entry[k] # None /\ entry[k].answer # None
                              /\ a = [key |-> k, request |-> entry[k].request,
                                      result |-> entry[k].answer]
        BY <2>2 DEF Told
      <3>2. QED
        BY <3>1 DEF Truthful, EntryTrue, True
    <2>3. QED
      BY <2>1, <2>2
  <1>2. Init => Truthful
    BY DEF Init, Truthful, ReceiptTrue, EntryTrue
  <1>3. Typed /\ EmptyBefore /\ Truthful /\ [Next]_vars => Truthful'
    BY ReceiptStep, EntryStep, AnswerStep DEF Truthful
  <1>4. QED
    BY <1>1, <1>2, <1>3, TypedInit, TypedStep, PTL DEF Spec

-----------------------------------------------------------------------------
(* What is generated on a confirmation.                                    *)

RunsPast ==
    /\ \A k \in Keys : entry[k] # None => entry[k].request.run <= now
    /\ \A r \in sent : r.request.run <= now

LEMMA RunsStep ==
    Typed /\ EmptyBefore /\ RunsPast /\ [Next]_vars => RunsPast'
  <1> SUFFICES ASSUME Typed, EmptyBefore, RunsPast, [Next]_vars PROVE RunsPast'
    OBVIOUS
  <1>0. now \in Nat /\ (\A r \in sent : r.request.run \in Nat)
        /\ \A k \in Keys : entry[k] # None => entry[k] \in EntryType /\ entry[k].request.run \in Nat
    BY BoundsAssumption DEF Typed, SentType, EntryType, Request
  <1>1. CASE entry' = entry /\ sent' \subseteq sent /\ now' = now
    BY <1>1 DEF RunsPast
  <1>2. CASE Tick
    BY <1>0, <1>2 DEF Tick, client, RunsPast
  <1>3. ASSUME NEW k \in Keys, Send(k) PROVE RunsPast'
    BY <1>3 DEF Send, Waiting, stored, RunsPast
  <1>4. ASSUME NEW k \in Keys, Receive(k) PROVE RunsPast'
    <2>1. \A j \in Keys : entry'[j] # None => entry[j] # None /\ entry'[j].request = entry[j].request
      BY <1>0, <1>4 DEF Receive, Waiting, Typed, EntryType
    <2>2. QED
      BY <1>4, <2>1 DEF Receive, RunsPast
  <1>5. ASSUME NEW k \in Keys, NEW o \in Omissions, Preview(k, o) PROVE RunsPast'
    <2>1. \A j \in Keys : entry'[j] = entry[j] \/ entry'[j].request.run = now
      BY <1>5 DEF Preview, Typed
    <2>2. QED
      BY <1>0, <1>5, <2>1 DEF Preview, RunsPast
  <1>6. ASSUME NEW k \in Keys, NEW o \in Omissions, Rethink(k, o) PROVE RunsPast'
    <2>1. \A j \in Keys : entry'[j] # None =>
             entry[j] # None /\ entry'[j].request.run = entry[j].request.run
      BY <1>0, <1>6 DEF Rethink, Waiting, Typed, EntryType, Request
    <2>2. QED
      BY <1>6, <2>1 DEF Rethink, RunsPast
  <1>7. ASSUME NEW k \in Keys, Handle(k) PROVE RunsPast'
    BY <1>1, <1>7 DEF Handle, NotFound, Repeat, TooLate, Stale, Commit, Answer
  <1>8. QED
    BY <1>1, <1>2, <1>3, <1>4, <1>5, <1>6, <1>7
       DEF Next, Lose, WriteSettings, ReadInstances, AddInstances, ReadSettings,
           GenerateInstances, RefreshHorizon, DeleteRepetition, ChangeTemplate, SetDuration,
           DeleteOccurrence, client, vars

\* However old a preview is, what its confirmation generates are the occurrences of
\* the settings, template and horizon setting that are stored when it takes effect.
THEOREM PreviewsCorrect == Spec => AsPreviewed
  <1> DEFINE A == \A k \in Keys : receipts[k] = None /\ receipts'[k] # None =>
                /\ receipts'[k].request.template = template
                /\ \E run \in 0 .. now :
                     Existing(rows') \cup skipped' = Indices(rep.settings, run + duration)
  <1>1. Init => RunsPast
    BY DEF Init, RunsPast
  <1>2. Typed /\ EmptyBefore /\ RunsPast /\ [Next]_vars => [A]_vars
    <2> SUFFICES ASSUME Typed, EmptyBefore, RunsPast, [Next]_vars,
                        NEW k \in Keys, receipts[k] = None, receipts'[k] # None
                 PROVE  /\ receipts'[k].request.template = template
                        /\ \E run \in 0 .. now :
                              Existing(rows') \cup skipped' = Indices(rep.settings, run + duration)
      OBVIOUS
    <2>1. PICK j \in Keys : Handle(j)
      BY DEF Next, Send, Receive, Preview, Rethink, Lose, WriteSettings, ReadInstances,
             AddInstances, ReadSettings, GenerateInstances, RefreshHorizon, Tick,
             DeleteRepetition, ChangeTemplate, SetDuration, DeleteOccurrence, stored, vars
    <2>2. PICK r \in sent : r.key = j /\ Commit(r)
      BY <2>1 DEF Handle, NotFound, Repeat, TooLate, Stale, stored
    <2> DEFINE req == r.request
    <2>3. req \in Request /\ req.run \in 0 .. now
      <3>1. req \in Request
        BY DEF Typed, SentType
      <3>2. now \in Nat /\ req.run \in Nat /\ req.run <= now
        BY <3>1, BoundsAssumption DEF Request, Typed, RunsPast
      <3>3. QED
        BY <3>1, <3>2
    <2>4. receipts'[k] = [request |-> req, refs |-> Refs(k, req)]
      BY <2>2 DEF Commit, Typed
    <2>5. req.template = template /\ req.settings = rep.settings
          /\ req.omitted \subseteq Previewed(req)
          /\ (req.horizon # None => req.horizon = req.run + duration)
      BY <2>2 DEF Commit, Current, SameHorizon
    <2>6. Indices(rep.settings, req.horizon) = Indices(rep.settings, req.run + duration)
      <3>1. CASE Open(rep.settings)
        BY <2>3, <2>5, <3>1 DEF Request
      <3>2. CASE ~Open(rep.settings)
        BY <3>2, Zenon DEF Indices
      <3>3. QED
        BY <3>1, <3>2
    <2>7. rows' = Refs(r.key, req) /\ skipped' = req.omitted
      BY <2>2 DEF Commit, SkippedBy, EmptyBefore
    <2>8. Existing(rows') = Previewed(req) \ req.omitted
      BY <2>7, BatchIndices DEF Refs
    <2>9. Existing(rows') \cup skipped' = Indices(rep.settings, req.horizon)
      BY <2>5, <2>7, <2>8 DEF Previewed
    <2>10. QED
      BY <2>3, <2>4, <2>5, <2>6, <2>9
  <1>3. QED
    BY <1>1, <1>2, RunsStep, TypedInit, TypedStep, PTL DEF Spec, AsPreviewed

-----------------------------------------------------------------------------
(* One refresh at a time.                                                  *)

\* What a refresh has read is what there is: instances may have become omissions.
SlotSees ==
    \A p \in Slots : rep # None /\ slot[p] # None /\ slot[p].kind = "REFRESH" =>
        /\ slot[p].existing \cup slot[p].skipped = Existing(rows) \cup skipped
        /\ slot[p].skipped \subseteq skipped

Occurrences == OccurrencesDense /\ OneRowPerOccurrence /\ SlotSees

\* A dense batch that is made with its omissions at once is all there is.
LEMMA DenseBatch ==
    ASSUME NEW origin, NEW all, NEW omitted \in SUBSET all,
           \A i \in all : 0 .. i \subseteq all,
           rows' = Batch(origin, all \ omitted), skipped' = omitted
    PROVE  OccurrencesDense' /\ OneRowPerOccurrence'
  <1>1. Existing(rows') = all \ omitted
    BY BatchIndices
  <1>2. Existing(rows') \cup skipped' = all /\ Existing(rows') \cap skipped' = {}
    BY <1>1
  <1>3. OccurrencesDense'
    BY <1>2 DEF OccurrencesDense, Existing
  <1>4. OneRowPerOccurrence'
    BY DEF OneRowPerOccurrence, Batch
  <1>5. QED
    BY <1>3, <1>4

LEMMA IndicesAllDense ==
    ASSUME NEW s \in ValidSettings, NEW h, Open(s) => h \in Nat
    PROVE  \A i \in Indices(s, h) : 0 .. i \subseteq Indices(s, h)
  BY IndicesDense

\* The occurrences after a refresh: those there were, and those that are due.
LEMMA DenseUnion ==
    ASSUME NEW all \in SUBSET Nat, NEW due \in SUBSET Nat,
           \A i \in all : 0 .. i \subseteq all, \A i \in due : 0 .. i \subseteq due
    PROVE  \A i \in all \cup due : 0 .. i \subseteq all \cup due
  OBVIOUS

LEMMA AddKeepsOccurrences ==
    ASSUME Typed, EmptyBefore, Occurrences, NEW p \in Slots, AddInstances(p)
    PROVE  OccurrencesDense' /\ OneRowPerOccurrence'
  <1>1. CASE rep = None
    BY <1>1 DEF AddInstances, EmptyBefore, OccurrencesDense, OneRowPerOccurrence, Existing
  <1>2. CASE rep # None
    <2>1. slot[p] \in RefreshSlot /\ skipped' = skipped
      BY DEF AddInstances, Typed
    <2> DEFINE due == Desired(slot[p].settings)
               all == Existing(rows) \cup skipped
    <2>2. PICK omitted \in {skipped, slot[p].skipped} :
             rows' = rows \cup Batch(p, due \ (slot[p].existing \cup omitted))
      BY <1>2 DEF AddInstances
    <2> DEFINE added == due \ (slot[p].existing \cup omitted)
    <2>3. slot[p].existing \cup slot[p].skipped = all /\ slot[p].skipped \subseteq skipped
      BY <1>2 DEF AddInstances, Occurrences, SlotSees
    <2>4. all \subseteq Nat /\ due \subseteq Nat /\ \A i \in due : 0 .. i \subseteq due
      <3>1. slot[p].settings \in ValidSettings
        BY <2>1 DEF RefreshSlot
      <3>2. due \subseteq Nat
        BY <3>1, DesiredType
      <3>3. \A i \in due : 0 .. i \subseteq due
        BY <3>1, IndicesAllDense DEF Desired, Typed
      <3>4. all \subseteq Nat
        BY DEF Typed, Existing
      <3>5. QED
        BY <3>2, <3>3, <3>4
    <2>5. Existing(rows) \cap skipped = {} /\ \A i \in all : 0 .. i \subseteq all
      BY DEF Occurrences, OccurrencesDense
    <2> HIDE DEF due
    <2>6. Existing(rows') = Existing(rows) \cup added
      BY <2>2, ExistingUnion, BatchIndices
    <2>7. added \cap all = {} /\ all \cup added = all \cup due
      BY <2>2, <2>3, <2>5
    <2>8. OccurrencesDense'
      <3>1. Existing(rows') \cup skipped' = all \cup due
        BY <2>1, <2>6, <2>7
      <3>2. Existing(rows') \cap skipped' = {}
        BY <2>1, <2>5, <2>6, <2>7
      <3>3. \A i \in all \cup due : 0 .. i \subseteq all \cup due
        BY <2>4, <2>5, DenseUnion
      <3>4. QED
        BY <3>1, <3>2, <3>3 DEF OccurrencesDense, Existing
    <2>9. OneRowPerOccurrence'
      <3>1. \A r \in rows : r[2] \in all
        BY DEF Existing
      <3>2. \A r \in Batch(p, added) : r[2] \in added /\ r = <<p, r[2]>>
        BY DEF Batch
      <3>3. \A r, q \in rows : r[2] = q[2] => r = q
        BY DEF Occurrences, OneRowPerOccurrence
      <3>4. \A r, q \in rows \cup Batch(p, added) : r[2] = q[2] => r = q
        BY <2>7, <3>1, <3>2, <3>3
      <3>5. QED
        BY <2>2, <3>4 DEF OneRowPerOccurrence
    <2>10. QED
      BY <2>8, <2>9
  <1>3. QED
    BY <1>1, <1>2

LEMMA OccurrencesStep ==
    ASSUME \A p, q \in Slots : p = q
    PROVE  Typed /\ EmptyBefore /\ Occurrences /\ [Next]_vars => Occurrences'
  <1> SUFFICES ASSUME Typed, EmptyBefore, Occurrences, [Next]_vars PROVE Occurrences'
    OBVIOUS
  <1>1. CASE /\ UNCHANGED <<rows, skipped>>
             /\ \A p \in Slots : slot'[p] = slot[p] \/ slot'[p] = None
                                 \/ slot'[p].kind # "REFRESH"
             /\ rep' # None => rep # None
    BY <1>1 DEF Occurrences, OccurrencesDense, OneRowPerOccurrence, SlotSees, Existing
  <1>2. ASSUME NEW k \in Keys, Handle(k) PROVE Occurrences'
    <2>1. PICK r \in sent : NotFound(r) \/ Repeat(r) \/ TooLate(r) \/ Stale(r) \/ Commit(r)
      BY <1>2 DEF Handle
    <2>2. CASE Commit(r)
      <3> DEFINE all == Previewed(r.request)
      <3>1. r.request \in Request
        BY DEF Typed, SentType
      <3>2. r.request.omitted \in SUBSET all
        BY <2>2 DEF Commit, Current
      <3>3. \A i \in all : 0 .. i \subseteq all
        BY <3>1, IndicesAllDense DEF Request, Previewed
      <3>4. rows' = Batch(r.key, all \ r.request.omitted) /\ skipped' = r.request.omitted
        BY <2>2 DEF Commit, SkippedBy, EmptyBefore, Refs
      <3> HIDE DEF all
      <3>5. OccurrencesDense' /\ OneRowPerOccurrence'
        BY <3>2, <3>3, <3>4, DenseBatch
      <3>6. SlotSees'
        BY <2>2 DEF Commit, Answer, EmptyBefore, SlotSees
      <3>7. QED
        BY <3>5, <3>6 DEF Occurrences
    <2>3. QED
      BY <1>1, <2>1, <2>2 DEF NotFound, Repeat, TooLate, Stale, Answer, stored
  <1>3. CASE GenerateInstances
    <2> DEFINE all == Indices(rep.settings, horizon')
    <2>1. rep \in RepType /\ now \in Nat /\ duration \in Nat
      BY <1>3, BoundsAssumption, HorizonAssumption DEF GenerateInstances, Typed
    <2>2. \A i \in all : 0 .. i \subseteq all
      BY <1>3, <2>1, IndicesAllDense DEF RepType, GenerateInstances
    <2>3. rows' = Batch(Direct, all \ {}) /\ skipped' = {}
      BY <1>3 DEF GenerateInstances, EmptyBefore
    <2> HIDE DEF all
    <2>4. OccurrencesDense' /\ OneRowPerOccurrence'
      BY <2>2, <2>3, DenseBatch
    <2>5. SlotSees'
      BY <1>3 DEF GenerateInstances, EmptyBefore, SlotSees
    <2>6. QED
      BY <2>4, <2>5 DEF Occurrences
  <1>4. ASSUME NEW p \in Slots, WriteSettings(p) PROVE Occurrences'
    BY <1>1, <1>4 DEF WriteSettings, Typed
  <1>5. ASSUME NEW p \in Slots, ReadInstances(p) PROVE Occurrences'
    <2>1. UNCHANGED <<rows, skipped, rep>>
      BY <1>5 DEF ReadInstances, stored
    <2>2. \A q \in Slots : slot'[q].existing = Existing(rows) /\ slot'[q].skipped = skipped
      BY <1>5 DEF ReadInstances, Typed
    <2>3. QED
      BY <2>1, <2>2 DEF Occurrences, OccurrencesDense, OneRowPerOccurrence, SlotSees, Existing
  <1>6. ASSUME NEW p \in Slots, AddInstances(p) PROVE Occurrences'
    <2>1. \A q \in Slots : slot'[q] = None
      BY <1>6 DEF AddInstances, Typed
    <2>2. QED
      BY <1>6, <2>1, AddKeepsOccurrences DEF Occurrences, SlotSees
  <1>7. ASSUME NEW p \in Slots, NEW s \in Settings, ReadSettings(p, s) PROVE Occurrences'
    <2>1. \A q \in Slots : slot'[q].kind = "SETTINGS"
      BY <1>7 DEF ReadSettings, Typed
    <2>2. QED
      BY <1>1, <1>7, <2>1 DEF ReadSettings, stored
  <1>8. CASE DeleteRepetition
    BY <1>8 DEF DeleteRepetition, Occurrences, OccurrencesDense, OneRowPerOccurrence, SlotSees,
                Existing
  <1>9. ASSUME NEW r \in rows, DeleteOccurrence(r) PROVE Occurrences'
    <2>1. rows' = rows \ {r} /\ skipped' = skipped \cup {r[2]} /\ UNCHANGED <<rep, slot>>
      BY <1>9 DEF DeleteOccurrence
    <2>2. Existing(rows') = Existing(rows) \ {r[2]} /\ r[2] \in Existing(rows)
      BY <2>1 DEF Existing, Occurrences, OneRowPerOccurrence
    <2>3. Existing(rows') \cup skipped' = Existing(rows) \cup skipped
      BY <2>1, <2>2
    <2>4. Existing(rows') \cap skipped' = {}
      BY <2>1, <2>2 DEF Occurrences, OccurrencesDense
    <2>5. OccurrencesDense'
      BY <2>3, <2>4 DEF Occurrences, OccurrencesDense, Existing
    <2>6. OneRowPerOccurrence'
      BY <2>1 DEF Occurrences, OneRowPerOccurrence
    <2>7. SlotSees'
      BY <2>1, <2>3 DEF Occurrences, SlotSees, Existing
    <2>8. QED
      BY <2>5, <2>6, <2>7 DEF Occurrences
  <1>10. QED
    BY <1>1, <1>2, <1>3, <1>4, <1>5, <1>6, <1>7, <1>8, <1>9
       DEF Next, Send, Receive, Preview, Rethink, Lose, RefreshHorizon, Tick,
           ChangeTemplate, SetDuration, stored, client, vars

\* With one request between its reads and its writes, occurrences stay without a gap,
\* an omission is never made again and none is made twice.
THEOREM DenseOneAtATime ==
    ASSUME \A p, q \in Slots : p = q
    PROVE  Spec => [](OccurrencesDense /\ OneRowPerOccurrence)
  <1>1. Init => Occurrences
    BY DEF Init, Occurrences, OccurrencesDense, OneRowPerOccurrence, SlotSees, Existing
  <1>2. Typed /\ EmptyBefore /\ Occurrences /\ [Next]_vars => Occurrences'
    BY OccurrencesStep
  <1>3. Occurrences => OccurrencesDense /\ OneRowPerOccurrence
    BY DEF Occurrences
  <1>4. QED
    BY <1>1, <1>2, <1>3, TypedInit, TypedStep, PTL DEF Spec
=============================================================================
