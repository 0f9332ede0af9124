--------------------- MODULE TimerNotifications_proofs ---------------------
(***************************************************************************)
(* Theorems of TimerNotifications for any calendar, any number of plans    *)
(* and refreshes, and, where nothing else is said, any number of           *)
(* concurrent completions.                                                 *)
(***************************************************************************)
EXTENDS TimerNotifications, TLAPS

\* What a completion remembers between its steps had started when it was found,
\* and is not free time.
TimerInv ==
    \A c \in Clients : client[c].pc # "idle" =>
        /\ client[c].timer \in Row
        /\ client[c].timer.start <= now
        /\ PlanOf[client[c].timer.entry] \in Plans

\* A completion about to insert has found nothing, and with no other completion
\* nothing has been inserted since.
InsertInv == \A c \in Clients : client[c].pc = "insert" => Existing(client[c].timer) = {}

-----------------------------------------------------------------------------
\* The bounds of the clock are naturals, and so is every time in a row.
LEMMA TimeNat == Time \subseteq Nat
  BY BoundsAssumption DEF Time

\* The variables start in their domains.
LEMMA TypeInit == Init => TypeOK
  BY BoundsAssumption DEF Init, TypeOK, Idle

\* Every step keeps the variables in their domains: an insert only of a timer
\* whose plan exists, a placement only of windows that are not empty.
LEMMA TypeStep == TypeOK /\ TimerInv /\ [Next]_vars => TypeOK'
  <1> SUFFICES ASSUME TypeOK, TimerInv, [Next]_vars PROVE TypeOK'
    OBVIOUS
  <1> USE BoundsAssumption
  <1>1. ASSUME NEW c \in Clients, FindTimer(c) PROVE TypeOK'
    BY <1>1 DEF FindTimer, TypeOK
  <1>2. ASSUME NEW c \in Clients, CheckExisting(c) PROVE TypeOK'
    BY <1>2 DEF CheckExisting, TypeOK, Idle
  <1>3. ASSUME NEW c \in Clients, Insert(c) PROVE TypeOK'
    <2>1. client' \in [Clients -> [pc : {"idle", "check", "insert"}, timer : Row \cup {None}]]
      BY <1>3 DEF Insert, TypeOK, Idle
    <2>2. notices' \in SUBSET Notice
      <3>1. CASE ~ReferencesExist(client[c].timer)
        BY <1>3, <3>1 DEF Insert, TypeOK
      <3>2. CASE ReferencesExist(client[c].timer)
        <4>1. PICK i \in NewIds :
                notices' = notices \cup
                  {[id |-> i, entry |-> client[c].timer.entry,
                    plan |-> PlanOf[client[c].timer.entry],
                    end |-> client[c].timer.end, dismissed |-> FALSE]}
          BY <1>3, <3>2 DEF Insert
        <4>2. client[c].timer \in Row /\ PlanOf[client[c].timer.entry] \in Plans
          BY <3>2 DEF ReferencesExist, TypeOK
        <4>3. QED
          <5>1. client[c].timer.entry \in Entries /\ client[c].timer.end \in Time
            BY <4>2 DEF Row
          <5>2. i \in 1 .. MaxNotices
            BY DEF NewIds
          <5>3. [id |-> i, entry |-> client[c].timer.entry,
                 plan |-> PlanOf[client[c].timer.entry],
                 end |-> client[c].timer.end, dismissed |-> FALSE] \in Notice
            BY <4>2, <5>1, <5>2 DEF Notice
          <5>4. QED
            BY <4>1, <5>3 DEF TypeOK
      <3>3. QED
        BY <3>1, <3>2
    <2>3. QED
      BY <1>3, <2>1, <2>2 DEF Insert, TypeOK
  <1>4. ASSUME NEW n \in notices, Dismiss(n) PROVE TypeOK'
    <2>1. n \in Notice
      BY DEF TypeOK
    <2>2. [n EXCEPT !.dismissed = TRUE] \in Notice
      BY <2>1 DEF Notice
    <2>3. QED
      BY <1>4, <2>2 DEF Dismiss, TypeOK
  <1>5. ASSUME NEW run \in 0 .. now, Publish(run) PROVE TypeOK'
    <2>1. PICK placed \in SUBSET {e \in unused : PlanOf[e] \in plans \cup {None}} :
            \E window \in [placed -> Windows(run)] :
              /\ unused' = unused \ placed
              /\ rows' = {row \in rows : row.start < run} \cup
                    {[entry |-> e, start |-> window[e].start, end |-> window[e].end,
                      run |-> active + 1] : e \in placed}
      BY <1>5 DEF Publish
    <2>2. PICK window \in [placed -> Windows(run)] :
              /\ unused' = unused \ placed
              /\ rows' = {row \in rows : row.start < run} \cup
                    {[entry |-> e, start |-> window[e].start, end |-> window[e].end,
                      run |-> active + 1] : e \in placed}
      BY <2>1
    <2>3. active + 1 \in 1 .. MaxRuns /\ active' = active + 1
      BY <1>5 DEF Publish, TypeOK
    <2>4. ASSUME NEW e \in placed
          PROVE  [entry |-> e, start |-> window[e].start, end |-> window[e].end,
                  run |-> active + 1] \in Row
      <3>1. /\ window[e] \in [start : run .. MaxTime + 1, end : run .. MaxTime + 1]
            /\ window[e].start < window[e].end
        BY DEF Windows
      <3>2. window[e].start \in Time /\ window[e].end \in Time
        BY <3>1 DEF Time
      <3>3. e \in Entries
        BY DEF TypeOK
      <3>4. QED
        BY <2>3, <3>1, <3>2, <3>3 DEF Row
    <2>5. rows' \in SUBSET Row /\ unused' \in SUBSET Entries
      BY <2>2, <2>4 DEF TypeOK
    <2>6. QED
      BY <1>5, <2>3, <2>5 DEF Publish, TypeOK
  <1>6. ASSUME NEW p \in Plans, DeletePlan(p) PROVE TypeOK'
    BY <1>6 DEF DeletePlan, TypeOK
  <1>7. CASE Tick
    BY <1>7 DEF Tick, TypeOK
  <1>8. CASE UNCHANGED vars
    BY <1>8 DEF vars, TypeOK
  <1>9. QED
    BY <1>1, <1>2, <1>3, <1>4, <1>5, <1>6, <1>7, <1>8 DEF Next, Complete

\* A timer is only found of a row that has started, and the clock only advances.
LEMMA TimerStep == TypeOK /\ TimerInv /\ [Next]_vars => TimerInv'
  <1> SUFFICES ASSUME TypeOK, TimerInv, [Next]_vars PROVE TimerInv'
    OBVIOUS
  <1>1. ASSUME NEW c \in Clients, FindTimer(c) PROVE TimerInv'
    <2>1. PICK row \in rows :
            /\ HasTimer(row) /\ KindOf[row.entry] # "FREE_TIME"
            /\ client' = [client EXCEPT ![c] = [pc |-> "check", timer |-> row]]
      BY <1>1 DEF FindTimer
    <2>2. row \in Row /\ row.start <= now /\ PlanOf[row.entry] \in Plans
      BY <2>1, EntriesAssumption DEF TypeOK, HasTimer, Row
    <2>3. QED
      BY <1>1, <2>1, <2>2 DEF FindTimer, TimerInv, TypeOK
  <1>2. ASSUME NEW c \in Clients, CheckExisting(c) PROVE TimerInv'
    BY <1>2 DEF CheckExisting, TimerInv, TypeOK, Idle
  <1>3. ASSUME NEW c \in Clients, Insert(c) PROVE TimerInv'
    BY <1>3 DEF Insert, TimerInv, TypeOK, Idle
  <1>4. ASSUME UNCHANGED <<client, now>> PROVE TimerInv'
    BY <1>4 DEF TimerInv
  <1>5. CASE Tick
    <2>1. \A row \in Row : row.start \in Nat
      BY TimeNat DEF Row
    <2>2. now \in Nat
      BY BoundsAssumption DEF TypeOK
    <2>3. QED
      BY <1>5, <2>1, <2>2 DEF Tick, TimerInv
  <1>6. QED
    BY <1>1, <1>2, <1>3, <1>4, <1>5 DEF Next, Complete, Dismiss, Publish, DeletePlan, vars

\* A refresh spares the rows notifications refer to, a deletion their plans, and
\* an insert checks both.
LEMMA NoticesLeadStep == TypeOK /\ TimerInv /\ NoticesLead /\ [Next]_vars => NoticesLead'
  <1> SUFFICES ASSUME TypeOK, TimerInv, NoticesLead, [Next]_vars PROVE NoticesLead'
    OBVIOUS
  <1>n. now \in Nat /\ \A row \in rows : row.start \in Nat
    <2>1. now \in Nat
      BY BoundsAssumption DEF TypeOK
    <2>2. \A row \in Row : row.start \in Time
      BY DEF Row
    <2>3. QED
      BY <2>1, <2>2, TimeNat DEF TypeOK
  <1>1. ASSUME UNCHANGED <<now, plans, rows, notices>> PROVE NoticesLead'
    BY <1>1 DEF NoticesLead
  <1>2. ASSUME NEW c \in Clients, Insert(c) PROVE NoticesLead'
    <2>1. CASE ~ReferencesExist(client[c].timer)
      BY <1>1, <1>2, <2>1 DEF Insert
    <2>2. CASE ReferencesExist(client[c].timer)
      <3>1. PICK i \in NewIds :
              notices' = notices \cup
                {[id |-> i, entry |-> client[c].timer.entry,
                  plan |-> PlanOf[client[c].timer.entry],
                  end |-> client[c].timer.end, dismissed |-> FALSE]}
        BY <1>2, <2>2 DEF Insert
      <3>2. client[c].timer.start <= now
        BY <1>2 DEF Insert, TimerInv
      <3>3. UNCHANGED <<now, plans, rows>>
        BY <1>2 DEF Insert
      <3>4. QED
        BY <2>2, <3>1, <3>2, <3>3 DEF ReferencesExist, NoticesLead
    <2>3. QED
      BY <2>1, <2>2
  <1>3. ASSUME NEW n \in notices, Dismiss(n) PROVE NoticesLead'
    <2>1. n \in Notice
      BY DEF TypeOK
    <2>2. /\ [n EXCEPT !.dismissed = TRUE].entry = n.entry
          /\ [n EXCEPT !.dismissed = TRUE].end = n.end
          /\ [n EXCEPT !.dismissed = TRUE].plan = n.plan
      BY <2>1 DEF Notice
    <2>3. UNCHANGED <<now, plans, rows>> /\ notices' = (notices \ {n}) \cup {[n EXCEPT !.dismissed = TRUE]}
      BY <1>3 DEF Dismiss
    <2>4. QED
      BY <2>2, <2>3 DEF NoticesLead
  <1>4. ASSUME NEW run \in 0 .. now, Publish(run) PROVE NoticesLead'
    <2>1. \A row \in rows : row.entry \in Referenced => row \in rows'
      BY <1>4, <1>n DEF Publish
    <2>2. UNCHANGED <<now, plans, notices>>
      BY <1>4 DEF Publish
    <2>3. QED
      BY <2>1, <2>2 DEF NoticesLead, Referenced
  <1>5. ASSUME NEW p \in Plans, DeletePlan(p) PROVE NoticesLead'
    <2>1. CASE \E n \in notices : n.plan = p
      BY <1>1, <1>5, <2>1 DEF DeletePlan
    <2>2. CASE ~\E n \in notices : n.plan = p
      BY <1>5, <2>2 DEF DeletePlan, NoticesLead
    <2>3. QED
      BY <2>1, <2>2
  <1>6. CASE Tick
    <2>1. now' = now + 1 /\ UNCHANGED <<plans, rows, notices>>
      BY <1>6 DEF Tick
    <2>2. \A row \in rows : row.start <= now => row.start <= now'
      BY <1>n, <2>1
    <2>3. QED
      BY <2>1, <2>2 DEF NoticesLead
  <1>7. QED
    BY <1>1, <1>2, <1>3, <1>4, <1>5, <1>6 DEF Next, Complete, FindTimer, CheckExisting, vars

-----------------------------------------------------------------------------
\* Every reachable state is typed, and no notification leads nowhere, however
\* completions, refreshes and deletions interleave.
THEOREM NoticesCorrect == Spec => [](TypeOK /\ NoticesLead)
  <1> DEFINE IInv == TypeOK /\ TimerInv /\ NoticesLead
  <1>1. Init => IInv
    <2>1. Init => TypeOK
      BY TypeInit
    <2>2. Init => TimerInv
      BY DEF Init, TimerInv, Idle
    <2>3. Init => NoticesLead
      BY DEF Init, NoticesLead
    <2>4. QED
      BY <2>1, <2>2, <2>3
  <1>2. IInv /\ [Next]_vars => IInv'
    BY TypeStep, TimerStep, NoticesLeadStep
  <1>3. QED
    BY <1>1, <1>2, PTL DEF Spec

\* With completions one at a time, nothing is inserted between the look-up of
\* an earlier notification and the insert, and no completion is queued twice.
LEMMA IdempotentStep ==
    ASSUME \A c, d \in Clients : c = d
    PROVE  TypeOK /\ InsertInv /\ CompletionIdempotent /\ [Next]_vars
              => InsertInv' /\ CompletionIdempotent'
  <1> SUFFICES ASSUME TypeOK, InsertInv, CompletionIdempotent, [Next]_vars
               PROVE  InsertInv' /\ CompletionIdempotent'
    OBVIOUS
  <1>1. ASSUME NEW c \in Clients, FindTimer(c) PROVE InsertInv' /\ CompletionIdempotent'
    BY <1>1 DEF FindTimer, TypeOK, InsertInv, CompletionIdempotent
  <1>2. ASSUME NEW c \in Clients, CheckExisting(c) PROVE InsertInv' /\ CompletionIdempotent'
    <2>1. notices' = notices
      BY <1>2 DEF CheckExisting
    <2>2. client'[c].pc = "insert" =>
              client'[c].timer = client[c].timer /\ Existing(client[c].timer) = {}
      BY <1>2 DEF CheckExisting, TypeOK, Idle
    <2>3. QED
      BY <2>1, <2>2 DEF InsertInv, CompletionIdempotent, Existing
  <1>3. ASSUME NEW c \in Clients, Insert(c) PROVE InsertInv' /\ CompletionIdempotent'
    <2>1. client'[c].pc = "idle" /\ Existing(client[c].timer) = {}
      BY <1>3 DEF Insert, InsertInv, TypeOK, Idle
    <2>2. InsertInv'
      BY <2>1 DEF InsertInv
    <2>3. \A n \in notices' : \/ n \in notices
                              \/ n.entry = client[c].timer.entry /\ n.end = client[c].timer.end
      BY <1>3 DEF Insert
    <2>4. CompletionIdempotent'
      <3>1. CASE notices' = notices
        BY <3>1 DEF CompletionIdempotent
      <3>2. ASSUME NEW new, notices' = notices \cup {new},
                   new.entry = client[c].timer.entry, new.end = client[c].timer.end
            PROVE  CompletionIdempotent'
        BY <2>1, <3>2 DEF CompletionIdempotent, Existing
      <3>3. QED
        BY <1>3, <3>1, <3>2 DEF Insert
    <2>5. QED
      BY <2>2, <2>4
  <1>4. ASSUME NEW n \in notices, Dismiss(n) PROVE InsertInv' /\ CompletionIdempotent'
    <2>1. n \in Notice
      BY DEF TypeOK
    <2> DEFINE new == [n EXCEPT !.dismissed = TRUE]
    <2>2. notices' = (notices \ {n}) \cup {new} /\ new.entry = n.entry /\ new.end = n.end
      BY <1>4, <2>1 DEF Dismiss, Notice
    <2> HIDE DEF new
    <2>3. CompletionIdempotent'
      BY <2>2 DEF CompletionIdempotent
    <2>4. InsertInv'
      BY <1>4, <2>2 DEF Dismiss, InsertInv, Existing
    <2>5. QED
      BY <2>3, <2>4
  <1>5. ASSUME UNCHANGED <<client, notices>> PROVE InsertInv' /\ CompletionIdempotent'
    BY <1>5 DEF InsertInv, CompletionIdempotent, Existing
  <1>6. QED
    BY <1>1, <1>2, <1>3, <1>4, <1>5 DEF Next, Complete, Publish, DeletePlan, Tick, vars

\* Completion is idempotent as long as completions come one at a time.
THEOREM IdempotentOneAtATime ==
    ASSUME \A c, d \in Clients : c = d
    PROVE  Spec => []CompletionIdempotent
  <1> DEFINE IInv == TypeOK /\ NoticesLead /\ InsertInv /\ CompletionIdempotent
  <1>1. Init => InsertInv /\ CompletionIdempotent
    BY DEF Init, InsertInv, CompletionIdempotent, Idle
  <1>2. TypeOK /\ InsertInv /\ CompletionIdempotent /\ [Next]_vars
          => InsertInv' /\ CompletionIdempotent'
    BY IdempotentStep
  <1>3. QED
    BY <1>1, <1>2, NoticesCorrect, PTL DEF Spec

\* Nor does a dismissed completion come back.
THEOREM DismissedOneAtATime ==
    ASSUME \A c, d \in Clients : c = d
    PROVE  Spec => DismissedForGood
  <1> DEFINE A == \A n \in notices : n.dismissed =>
                    \A m \in notices' : ~m.dismissed /\ m.entry = n.entry /\ m.end = n.end
                        => m \in notices
  <1>1. Init => InsertInv /\ CompletionIdempotent
    BY DEF Init, InsertInv, CompletionIdempotent, Idle
  <1>2. TypeOK /\ InsertInv /\ CompletionIdempotent /\ [Next]_vars
          => InsertInv' /\ CompletionIdempotent'
    BY IdempotentStep
  <1>3. TypeOK /\ InsertInv /\ [Next]_vars => [A]_vars
    <2> SUFFICES ASSUME TypeOK, InsertInv, [Next]_vars PROVE A
      OBVIOUS
    <2>1. CASE notices' = notices
      BY <2>1
    <2>2. ASSUME NEW c \in Clients, Insert(c) PROVE A
      <3>1. Existing(client[c].timer) = {}
        BY <2>2 DEF Insert, InsertInv
      <3>2. \A m \in notices' : \/ m \in notices
                                \/ m.entry = client[c].timer.entry /\ m.end = client[c].timer.end
        BY <2>2 DEF Insert
      <3>3. QED
        BY <3>1, <3>2 DEF Existing
    <2>3. ASSUME NEW k \in notices, Dismiss(k) PROVE A
      <3>1. k \in Notice
        BY DEF TypeOK
      <3>2. [k EXCEPT !.dismissed = TRUE].dismissed
        BY <3>1 DEF Notice
      <3>3. QED
        BY <2>3, <3>2 DEF Dismiss
    <2>4. QED
      BY <2>1, <2>2, <2>3 DEF Next, Complete, FindTimer, CheckExisting, Publish, DeletePlan,
                              Tick, vars
  <1>4. QED
    BY <1>1, <1>2, <1>3, NoticesCorrect, PTL DEF Spec, DismissedForGood
=============================================================================
