---------------------- MODULE PlanPrerequisites_proofs ----------------------
(***************************************************************************)
(* Type correctness and matching traces for any number of requests at      *)
(* once; what the read-then-write requests need one another not to do, for *)
(* one request at a time.                                                  *)
(***************************************************************************)
EXTENDS PlanPrerequisites, TLAPS

\* What a request has read stays true of the tables, which only grow.
SessionInv ==
    \A s \in Sessions :
        /\ session[s].pc = "add" =>
              /\ session[s].link \in Kinds \X plans \X plans
              /\ Trace[session[s].link[2]] = Trace[session[s].link[3]]
        /\ session[s].pc = "refresh" =>
              /\ session[s].clones \subseteq plans \cap Clones
              /\ session[s].template \subseteq plans \cap Template
              /\ RootClone \in plans

IInv == TypeOK /\ SessionInv /\ TracesMatch

-----------------------------------------------------------------------------
(* The image of a prerequisite in an instance.                             *)

LEMMA ImageOf ==
    ASSUME NEW ks, NEW template, NEW p
    PROVE  /\ Image(ks, template, p) \in ks \cup {p}
           /\ p \in template \cap Cloned(ks) =>
                /\ Image(ks, template, p) \in ks
                /\ CloneOf[Image(ks, template, p)] = p
           /\ p \notin template \cap Cloned(ks) => Image(ks, template, p) = p
<1>1. CASE p \in template \cap Cloned(ks)
  <2>1. \E k \in ks : CloneOf[k] = p
    BY <1>1 DEF Cloned
  <2>2. Image(ks, template, p) = CHOOSE k \in ks : CloneOf[k] = p
    BY <1>1 DEF Image
  <2> QED
    BY <1>1, <2>1, <2>2
<1>2. CASE p \notin template \cap Cloned(ks)
  BY <1>2 DEF Image
<1> QED
  BY <1>1, <1>2

LEMMA ImageTrace ==
    ASSUME NEW ks \in SUBSET Clones, NEW template, NEW p
    PROVE  Trace[Image(ks, template, p)] = Trace[p]
BY ImageOf, TraceAssumption

\* A copy of a prerequisite is the clone's, and comes from the template's.
LEMMA CopyOf ==
    ASSUME NEW wired, NEW ks, NEW template, NEW c \in Copies(wired, ks, template)
    PROVE  \E k \in wired : \E l \in links :
              /\ l[2] = CloneOf[k]
              /\ c = <<l[1], k, Image(ks, template, l[3])>>
BY DEF Copies, Source

LEMMA RewireType ==
    ASSUME TypeOK, NEW new \in SUBSET Clones, NEW ks \in SUBSET (plans \cup new),
           NEW wired \in SUBSET ks, NEW template
    PROVE  Rewire(wired, ks, template)
              \subseteq Kinds \X (plans \cup new) \X (plans \cup new)
<1>1. SUFFICES ASSUME NEW c \in Copies(wired, ks, template)
               PROVE  c \in Kinds \X (plans \cup new) \X (plans \cup new)
  BY DEF Rewire, TypeOK
<1>2. PICK k \in wired, l \in links :
        l[2] = CloneOf[k] /\ c = <<l[1], k, Image(ks, template, l[3])>>
  BY CopyOf
<1>3. l[1] \in Kinds /\ l[3] \in plans
  BY DEF TypeOK
<1>4. Image(ks, template, l[3]) \in ks \cup {l[3]}
  BY ImageOf
<1> QED
  BY <1>2, <1>3, <1>4

LEMMA RewireTraces ==
    ASSUME TypeOK, TracesMatch, NEW ks \in SUBSET Clones,
           NEW wired \in SUBSET ks, NEW template,
           NEW c \in Rewire(wired, ks, template)
    PROVE  Trace[c[2]] = Trace[c[3]]
<1>1. CASE c \in links
  BY <1>1 DEF TracesMatch
<1>2. CASE c \in Copies(wired, ks, template)
  <2>1. PICK k \in wired, l \in links :
          l[2] = CloneOf[k] /\ c = <<l[1], k, Image(ks, template, l[3])>>
    BY <1>2, CopyOf
  <2>2. Trace[k] = Trace[l[2]]
    BY <2>1, TraceAssumption
  <2>3. Trace[Image(ks, template, l[3])] = Trace[l[3]]
    BY ImageTrace
  <2> QED
    BY <2>1, <2>2, <2>3 DEF TracesMatch
<1> QED
  BY <1>1, <1>2 DEF Rewire

-----------------------------------------------------------------------------
(* Any number of requests.                                                 *)

LEMMA InitIInv == Init => IInv
BY TreeAssumption, CloneAssumption
   DEF Init, IInv, TypeOK, SessionInv, TracesMatch, Session, Idle

LEMMA CutType ==
    ASSUME TypeOK, NEW p
    PROVE  Cut(p) \subseteq plans \cap Clones
BY DEF Cut, Below, TypeOK

\* A request that goes back to idle, or is not s, keeps what SessionInv says.
LEMMA SessionKept ==
    ASSUME TypeOK, SessionInv, NEW s \in Sessions,
           plans \subseteq plans', session' = [session EXCEPT ![s] = Idle]
    PROVE  SessionInv' /\ session' \in [Sessions -> Session]
BY DEF TypeOK, SessionInv, Session, Idle

LEMMA SessionUnchanged ==
    ASSUME TypeOK, SessionInv, plans \subseteq plans', session' = session
    PROVE  SessionInv' /\ session' \in [Sessions -> Session]
BY DEF TypeOK, SessionInv

LEMMA NextIInv == IInv /\ [Next]_vars => IInv'
<1> SUFFICES ASSUME IInv, [Next]_vars PROVE IInv'
  OBVIOUS
<1> USE DEF IInv
<1>1. ASSUME NEW s \in Sessions, NEW kind \in Kinds, NEW d \in Plans, NEW p \in Plans,
             ValidateLink(s, kind, d, p)
      PROVE  IInv'
  <2>1. /\ UNCHANGED <<plans, detached, links>> /\ {d, p} \subseteq plans
        /\ session' = [session EXCEPT ![s] = [pc |-> "add", link |-> <<kind, d, p>>]]
    BY <1>1 DEF ValidateLink, Exist
  <2>2. Trace[d] = Trace[p]
    BY <1>1 DEF ValidateLink, PlanLinkAllowed, ImmediateLinkAllowed, TracesAgree
  <2>3. [pc |-> "add", link |-> <<kind, d, p>>] \in Session
    BY DEF Session, Link
  <2>4. TypeOK'
    BY <2>1, <2>3 DEF TypeOK
  <2>5. SessionInv'
    BY <2>1, <2>2 DEF SessionInv, TypeOK
  <2> QED
    BY <2>1, <2>4, <2>5 DEF TracesMatch
<1>2. ASSUME NEW s \in Sessions, InsertLink(s) PROVE IInv'
  <2>1. UNCHANGED plans /\ session' = [session EXCEPT ![s] = Idle]
    BY <1>2 DEF InsertLink
  <2> DEFINE link == session[s].link
  <2>2. link \in Kinds \X plans \X plans /\ Trace[link[2]] = Trace[link[3]]
    BY <1>2 DEF InsertLink, SessionInv
  <2>3. links' \subseteq links \cup {link}
    BY <1>2 DEF InsertLink
  <2>4. detached' \subseteq plans \cap Clones
    BY <1>2, CutType DEF InsertLink, TypeOK
  <2>5. SessionInv' /\ session' \in [Sessions -> Session]
    BY <2>1, SessionKept
  <2>6. links' \subseteq Kinds \X plans \X plans /\ TracesMatch'
    BY <2>2, <2>3 DEF TypeOK, TracesMatch
  <2> QED
    BY <2>1, <2>4, <2>5, <2>6 DEF TypeOK
<1>3. ASSUME NEW s \in Sessions, NEW link \in links, RemoveLink(s, link) PROVE IInv'
  <2>1. UNCHANGED <<plans, session>> /\ links' \subseteq links
    BY <1>3 DEF RemoveLink
  <2>2. detached' \subseteq plans \cap Clones
    BY <1>3, CutType DEF RemoveLink, TypeOK
  <2>3. SessionInv' /\ session' \in [Sessions -> Session]
    BY <2>1, SessionUnchanged
  <2> QED
    BY <2>1, <2>2, <2>3 DEF TypeOK, TracesMatch
<1>4. ASSUME NEW s \in Sessions, NEW k \in Clones, EditClone(s, k) PROVE IInv'
  <2>1. UNCHANGED <<plans, links, session>>
    BY <1>4 DEF EditClone
  <2>2. detached' \subseteq plans \cap Clones
    BY <1>4, CutType DEF EditClone, TypeOK
  <2>3. SessionInv' /\ session' \in [Sessions -> Session]
    BY <2>1, SessionUnchanged
  <2> QED
    BY <2>1, <2>2, <2>3 DEF TypeOK, TracesMatch
<1>5. ASSUME NEW s \in Sessions, NEW p \in Later, CreateChild(s, p) PROVE IInv'
  <2>1. UNCHANGED <<links, session>> /\ plans' = plans \cup {p}
    BY <1>5 DEF CreateChild
  <2>2. detached' \subseteq plans' \cap Clones
    BY <1>5, <2>1, CutType DEF CreateChild, TypeOK
  <2>3. SessionInv' /\ session' \in [Sessions -> Session]
    BY <2>1, SessionUnchanged
  <2>4. plans' \subseteq Plans /\ links' \subseteq Kinds \X plans' \X plans'
    BY <2>1, TreeAssumption DEF TypeOK
  <2> QED
    BY <2>1, <2>2, <2>3, <2>4 DEF TypeOK, TracesMatch
<1>6. ASSUME NEW s \in Sessions, Generate(s) PROVE IInv'
  <2>1. PICK new \in SUBSET Clones :
          /\ plans' = plans \cup new
          /\ links' = Rewire(new, new, plans \cap Template)
    BY <1>6 DEF Generate
  <2>2. UNCHANGED <<detached, session>>
    BY <1>6 DEF Generate
  <2>3. SessionInv' /\ session' \in [Sessions -> Session]
    BY <2>1, <2>2, SessionUnchanged
  <2>4. links' \subseteq Kinds \X plans' \X plans'
    BY <2>1, RewireType
  <2>5. TracesMatch'
    BY <2>1, RewireTraces DEF TracesMatch
  <2>6. plans' \subseteq Plans /\ detached' \subseteq plans' \cap Clones
    BY <2>1, <2>2, CloneAssumption DEF TypeOK
  <2> QED
    BY <2>3, <2>4, <2>5, <2>6 DEF TypeOK
<1>7. ASSUME NEW s \in Sessions, ReadInstance(s) PROVE IInv'
  <2>1. PICK ks \in SUBSET (plans \cap Clones) :
          session' = [session EXCEPT ![s] =
             [pc |-> "refresh", clones |-> ks, template |-> plans \cap Template]]
    BY <1>7 DEF ReadInstance, InstancePlans
  <2>2. UNCHANGED <<plans, detached, links>> /\ RootClone \in plans
    BY <1>7 DEF ReadInstance
  <2>3. [pc |-> "refresh", clones |-> ks, template |-> plans \cap Template] \in Session
    BY DEF Session
  <2>4. TypeOK'
    BY <2>1, <2>2, <2>3 DEF TypeOK
  <2>5. SessionInv'
    BY <2>1, <2>2 DEF SessionInv, TypeOK
  <2> QED
    BY <2>2, <2>4, <2>5 DEF TracesMatch
<1>8. ASSUME NEW s \in Sessions, RefreshInstance(s) PROVE IInv'
  <2>1. UNCHANGED detached /\ session' = [session EXCEPT ![s] = Idle]
    BY <1>8 DEF RefreshInstance
  <2>2. CASE UNCHANGED <<plans, links>>
    <3>1. SessionInv' /\ session' \in [Sessions -> Session]
      BY <2>1, <2>2, SessionKept
    <3> QED
      BY <2>1, <2>2, <3>1 DEF TypeOK, TracesMatch
  <2>3. ASSUME NEW new \in SUBSET (Clones \ plans),
               NEW ks, ks = session[s].clones \cup new,
               NEW wired \in SUBSET ks,
               plans' = plans \cup new,
               links' = Rewire(wired, ks, session[s].template)
        PROVE  IInv'
    <3>1. ks \subseteq Clones /\ ks \subseteq plans \cup new
      BY <1>8, <2>3 DEF RefreshInstance, SessionInv
    <3>2. SessionInv' /\ session' \in [Sessions -> Session]
      BY <2>1, <2>3, SessionKept
    <3>3. links' \subseteq Kinds \X plans' \X plans'
      BY <2>3, <3>1, RewireType
    <3>4. TracesMatch'
      BY <2>3, <3>1, RewireTraces DEF TracesMatch
    <3>5. plans' \subseteq Plans /\ detached' \subseteq plans' \cap Clones
      BY <2>1, <2>3, CloneAssumption DEF TypeOK
    <3> QED
      BY <3>2, <3>3, <3>4, <3>5 DEF TypeOK
  <2>4. ASSUME ~UNCHANGED <<plans, links>> PROVE IInv'
    <3>1. PICK new \in SUBSET (Clones \ plans) :
            LET ks == session[s].clones \cup new
            IN /\ plans' = plans \cup new
               /\ links' = Rewire({k \in ks : Linked(k)}, ks, session[s].template)
      BY <1>8, <2>4 DEF RefreshInstance
    <3> DEFINE ks == session[s].clones \cup new
               wired == {k \in ks : Linked(k)}
    <3>2. wired \in SUBSET ks
      OBVIOUS
    <3>3. links' = Rewire(wired, ks, session[s].template)
      BY <3>1
    <3>4. ks = session[s].clones \cup new
      OBVIOUS
    <3> HIDE DEF wired, ks
    <3> QED
      BY <2>3, <3>1, <3>2, <3>3, <3>4
  <2> QED
    BY <2>2, <2>4
<1>9. CASE UNCHANGED vars
  BY <1>9 DEF vars, TypeOK, SessionInv, TracesMatch
<1> QED
  BY <1>1, <1>2, <1>3, <1>4, <1>5, <1>6, <1>7, <1>8, <1>9 DEF Next

\* Prerequisites join existing plans, however requests interleave.
THEOREM TypeCorrect == Spec => []TypeOK
<1>1. IInv => TypeOK
  BY DEF IInv
<1> QED
  BY <1>1, InitIInv, NextIInv, PTL DEF Spec

\* INV-PRQ-2 and INV-PRQ-3 hold however requests interleave: traces are fixed, so a
\* validation cannot be out of date, and the wiring maps plans to plans of equal trace.
THEOREM TracesCorrect == Spec => []TracesMatch
<1>1. IInv => TracesMatch
  BY DEF IInv
<1> QED
  BY <1>1, InitIInv, NextIInv, PTL DEF Spec

-----------------------------------------------------------------------------
(* One request at a time.                                                  *)

OneAtATime == \A s, t \in Sessions : s = t

\* What the request at work has read is still how things are.
ReadsCurrent ==
    \A s \in Sessions :
        /\ session[s].pc = "add" /\ session[s].link[1] = "plan" =>
              ~ClosesCycle(session[s].link[2], session[s].link[3])
        /\ session[s].pc = "refresh" =>
              /\ Cloned(session[s].clones) = Cloned(plans \cap Clones)
              /\ session[s].template = plans \cap Template
              /\ RootClone \notin detached

\* No clone is older than the root of its instance.
RootFirst == RootClone \in plans \/ plans \cap Clones = {}

AloneInv == IInv /\ ReadsCurrent /\ RootFirst /\ OneClonePerNode

LEMMA InitAlone == Init => AloneInv
<1> SUFFICES ASSUME Init PROVE AloneInv
  OBVIOUS
<1>1. ReadsCurrent
  BY DEF Init, ReadsCurrent, Idle
<1>2. plans \cap Clones = {}
  BY DEF Init
<1> QED
  BY <1>1, <1>2, InitIInv DEF AloneInv, RootFirst, OneClonePerNode, OneEach

LEMMA IdleReadsCurrent ==
    ASSUME OneAtATime, NEW s \in Sessions, session'[s] = Idle
    PROVE  ReadsCurrent'
BY DEF OneAtATime, ReadsCurrent, Idle

LEMMA NextAlone ==
    ASSUME OneAtATime, AloneInv, [Next]_vars
    PROVE  AloneInv'
<1> USE DEF AloneInv
<1>0. IInv'
  BY NextIInv
<1>1. ASSUME NEW s \in Sessions, NEW kind \in Kinds, NEW d \in Plans, NEW p \in Plans,
             ValidateLink(s, kind, d, p)
      PROVE  AloneInv'
  <2>1. /\ UNCHANGED <<plans, links>>
        /\ session' = [session EXCEPT ![s] = [pc |-> "add", link |-> <<kind, d, p>>]]
        /\ kind = "plan" => ~ClosesCycle(d, p)
    BY <1>1 DEF ValidateLink, PlanLinkAllowed
  <2>2. \A t \in Sessions : session'[t] = [pc |-> "add", link |-> <<kind, d, p>>]
    BY <2>1 DEF OneAtATime, IInv, TypeOK
  <2>3. \A t \in Sessions : session'[t].pc = "add" /\ session'[t].link = <<kind, d, p>>
    BY <2>2
  <2>4. kind = "plan" => ~ClosesCycle(d, p)'
    BY <2>1 DEF ClosesCycle
  <2>5. ReadsCurrent'
    BY <2>3, <2>4 DEF ReadsCurrent
  <2> QED
    BY <1>0, <2>1, <2>5 DEF RootFirst, OneClonePerNode
<1>2. ASSUME NEW s \in Sessions, UNCHANGED plans, session'[s] = Idle PROVE AloneInv'
  BY <1>0, <1>2, IdleReadsCurrent DEF RootFirst, OneClonePerNode
<1>3. ASSUME NEW s \in Sessions, NEW p \in Later, CreateChild(s, p) PROVE AloneInv'
  <2>1. plans' = plans \cup {p} /\ session'[s] = Idle
    BY <1>3 DEF CreateChild
  <2>2. plans' \cap Clones = plans \cap Clones
    BY <2>1, TreeAssumption
  <2> QED
    BY <1>0, <2>1, <2>2, IdleReadsCurrent DEF RootFirst, OneClonePerNode
<1>4. ASSUME NEW s \in Sessions, Generate(s) PROVE AloneInv'
  <2>1. PICK new \in SUBSET Clones :
          plans' = plans \cup new /\ OneEach(new) /\ RootClone \in new
    BY <1>4 DEF Generate
  <2>2. session'[s] = Idle /\ RootClone \notin plans
    BY <1>4 DEF Generate
  <2>3. plans' \cap Clones = new
    BY <2>1, <2>2 DEF RootFirst
  <2> QED
    BY <1>0, <2>1, <2>2, <2>3, IdleReadsCurrent DEF RootFirst, OneClonePerNode
<1>5. ASSUME NEW s \in Sessions, ReadInstance(s) PROVE AloneInv'
  <2>1. PICK ks \in SUBSET (plans \cap Clones) :
          /\ Cloned(ks) = Cloned(plans \cap Clones)
          /\ session' = [session EXCEPT ![s] =
                [pc |-> "refresh", clones |-> ks, template |-> plans \cap Template]]
    BY <1>5 DEF ReadInstance, InstancePlans
  <2>2. UNCHANGED <<plans, detached>> /\ RootClone \notin detached
    BY <1>5 DEF ReadInstance
  <2>3. \A t \in Sessions :
          session'[t] = [pc |-> "refresh", clones |-> ks, template |-> plans \cap Template]
    BY <2>1 DEF OneAtATime, IInv, TypeOK
  <2>4. ReadsCurrent'
    BY <2>1, <2>2, <2>3 DEF ReadsCurrent
  <2> QED
    BY <1>0, <2>2, <2>4 DEF RootFirst, OneClonePerNode
<1>6. ASSUME NEW s \in Sessions, RefreshInstance(s) PROVE AloneInv'
  <2>1. session'[s] = Idle
    BY <1>6 DEF RefreshInstance, IInv, TypeOK
  <2>2. ASSUME ~UNCHANGED plans PROVE AloneInv'
    <3>1. PICK new \in SUBSET (Clones \ plans) :
            /\ OneEach(new) /\ plans' = plans \cup new
            /\ Cloned(new) = Missing(session[s].clones, session[s].template)
      BY <1>6, <2>2 DEF RefreshInstance
    <3>2. Cloned(session[s].clones) = Cloned(plans \cap Clones)
      BY <1>6 DEF RefreshInstance, ReadsCurrent
    <3>3. Cloned(new) \cap Cloned(plans \cap Clones) = {}
      BY <3>1, <3>2 DEF Missing
    <3>4. plans' \cap Clones = (plans \cap Clones) \cup new
      BY <3>1
    <3>5. OneEach((plans \cap Clones) \cup new)
      BY <3>1, <3>3 DEF OneEach, OneClonePerNode, Cloned
    <3>6. RootClone \in plans'
      BY <1>6, <3>1 DEF RefreshInstance, IInv, SessionInv
    <3> QED
      BY <1>0, <2>1, <3>4, <3>5, <3>6, IdleReadsCurrent DEF RootFirst, OneClonePerNode
  <2> QED
    BY <1>2, <2>1, <2>2
<1>7. ASSUME NEW s \in Sessions,
             \/ InsertLink(s)
             \/ \E link \in links : RemoveLink(s, link)
             \/ \E k \in Clones : EditClone(s, k)
      PROVE  UNCHANGED plans /\ session'[s] = Idle
  BY <1>7 DEF InsertLink, RemoveLink, EditClone, IInv, TypeOK
<1>8. CASE UNCHANGED vars
  BY <1>0, <1>8 DEF vars, ReadsCurrent, RootFirst, OneClonePerNode, ClosesCycle
<1> QED
  BY <1>1, <1>2, <1>3, <1>4, <1>5, <1>6, <1>7, <1>8 DEF Next

\* With one request at a time the instance has one clone of a template plan: a refresh
\* makes only those that are missing, and what it found missing still is.
THEOREM OneCloneOneAtATime ==
    ASSUME OneAtATime
    PROVE  Spec => []OneClonePerNode
<1>1. AloneInv /\ [Next]_vars => AloneInv'
  BY NextAlone
<1>2. AloneInv => OneClonePerNode
  BY DEF AloneInv
<1> QED
  BY <1>1, <1>2, InitAlone, PTL DEF Spec

-----------------------------------------------------------------------------
(* Which steps can close a cycle.                                          *)

\* Fewer plan prerequisites close no more cycles.
LEMMA AcyclicSubset ==
    ASSUME NEW ls, NEW fewer, Acyclic(ls),
           \A x, y : DependsOn(fewer, x, y) => DependsOn(ls, x, y)
    PROVE  Acyclic(fewer)
<1> SUFFICES ASSUME NEW trap \in SUBSET Dependents(fewer), Trapped(fewer, trap)
             PROVE  trap = {}
  BY DEF Acyclic
<1>1. Trapped(ls, trap)
  BY DEF Trapped
<1>2. ASSUME NEW x \in trap PROVE x \in Dependents(ls)
  <2>1. PICK y \in trap : <<"plan", x, y>> \in ls
    BY <1>1 DEF Trapped, DependsOn
  <2>2. <<"plan", x, y>>[2] = x
    OBVIOUS
  <2> QED
    BY <2>1, <2>2 DEF Dependents
<1> QED
  BY <1>1, <1>2 DEF Acyclic

\* The cycle check looks only from the dependent: a cycle that avoids it is not new.
LEMMA AcyclicInsert ==
    ASSUME Acyclic(links), NEW d, NEW p, ~ClosesCycle(d, p)
    PROVE  Acyclic(links \cup {<<"plan", d, p>>})
<1> DEFINE ls == links \cup {<<"plan", d, p>>}
<1> SUFFICES ASSUME NEW trap \in SUBSET Dependents(ls), Trapped(ls, trap)
             PROVE  trap = {}
  BY DEF Acyclic
<1>1. d \notin trap
  BY DEF ClosesCycle, NeverEnds
<1>2. Trapped(links, trap)
  <2> SUFFICES ASSUME NEW x \in trap PROVE \E y \in trap : DependsOn(links, x, y)
    BY DEF Trapped
  <2>1. PICK y \in trap : <<"plan", x, y>> \in ls
    BY DEF Trapped, DependsOn
  <2>2. <<"plan", x, y>> # <<"plan", d, p>>
    BY <1>1
  <2> QED
    BY <2>1, <2>2 DEF DependsOn
<1>3. trap \subseteq Dependents(links)
  <2> SUFFICES ASSUME NEW x \in trap PROVE x \in Dependents(links)
    OBVIOUS
  <2>1. PICK y \in trap : <<"plan", x, y>> \in links
    BY <1>2 DEF Trapped, DependsOn
  <2>2. <<"plan", x, y>>[2] = x
    OBVIOUS
  <2> QED
    BY <2>1, <2>2 DEF Dependents
<1> QED
  BY <1>2, <1>3 DEF Acyclic

\* A cycle through new clones maps to one of the template: nobody waits for them yet.
LEMMA AcyclicGenerate ==
    ASSUME TypeOK, Acyclic(links), NEW new \in SUBSET Clones, NEW template,
           plans \cap new = {}
    PROVE  Acyclic(Rewire(new, new, template))
<1> DEFINE ls == Rewire(new, new, template)
           f(x) == IF x \in new THEN CloneOf[x] ELSE x
<1> SUFFICES ASSUME NEW trap \in SUBSET Dependents(ls), Trapped(ls, trap), trap # {}
             PROVE  FALSE
  BY DEF Acyclic
<1> DEFINE old == {f(x) : x \in trap}
<1>1. ASSUME NEW x \in trap PROVE \E y \in trap : DependsOn(links, f(x), f(y))
  <2>1. PICK y \in trap : <<"plan", x, y>> \in ls
    BY DEF Trapped, DependsOn
  <2>2. CASE x \notin new
    <3>1. <<"plan", x, y>> \in links
      <4>1. <<"plan", x, y>> \notin Copies(new, new, template)
        <5> SUFFICES ASSUME <<"plan", x, y>> \in Copies(new, new, template) PROVE FALSE
          OBVIOUS
        <5>1. PICK k \in new, l \in links :
                <<"plan", x, y>> = <<l[1], k, Image(new, template, l[3])>>
          BY CopyOf
        <5> QED
          BY <2>2, <5>1
      <4> QED
        BY <2>1, <4>1 DEF Rewire
    <3>2. y \in plans
      BY <3>1 DEF TypeOK
    <3> QED
      BY <2>2, <3>1, <3>2 DEF DependsOn
  <2>3. CASE x \in new
    <3>1. <<"plan", x, y>> \in Copies(new, new, template)
      BY <2>1, <2>3 DEF Rewire
    <3>2. PICK k \in new, l \in links :
            /\ l[2] = CloneOf[k]
            /\ <<"plan", x, y>> = <<l[1], k, Image(new, template, l[3])>>
      BY <3>1, CopyOf
    <3>3. l \in Kinds \X plans \X plans
      BY DEF TypeOK
    <3>4. l = <<"plan", f(x), l[3]>> /\ y = Image(new, template, l[3])
      BY <2>3, <3>2, <3>3
    <3>5. f(y) = l[3]
      BY <3>3, <3>4, ImageOf
    <3> QED
      BY <3>4, <3>5 DEF DependsOn
  <2> QED
    BY <2>2, <2>3
<1>2. Trapped(links, old)
  BY <1>1 DEF Trapped
<1>3. ASSUME NEW z \in old PROVE z \in Dependents(links)
  <2>1. PICK y \in old : <<"plan", z, y>> \in links
    BY <1>2 DEF Trapped, DependsOn
  <2>2. <<"plan", z, y>>[2] = z
    OBVIOUS
  <2> QED
    BY <2>1, <2>2 DEF Dependents
<1>4. old # {}
  OBVIOUS
<1> QED
  BY <1>2, <1>3, <1>4 DEF Acyclic

LEMMA StepAcyclic ==
    ASSUME AloneInv, [Next]_vars, Acyclic(links),
           \A s \in Sessions : session[s].pc # "refresh"
    PROVE  Acyclic(links')
<1> USE DEF AloneInv
<1>1. ASSUME NEW s \in Sessions, InsertLink(s) PROVE Acyclic(links')
  <2> DEFINE link == session[s].link
  <2>1. link \in Kinds \X plans \X plans
    BY <1>1 DEF InsertLink, IInv, SessionInv
  <2>2. CASE links' = links
    BY <2>2
  <2>3. CASE links' # links /\ link[1] = "plan"
    <3>1. links' = links \cup {link}
      BY <1>1, <2>3 DEF InsertLink, Replaced
    <3>2. link = <<"plan", link[2], link[3]>>
      BY <2>1, <2>3
    <3>3. ~ClosesCycle(link[2], link[3])
      BY <1>1, <2>3 DEF InsertLink, ReadsCurrent
    <3>4. Acyclic(links \cup {<<"plan", link[2], link[3]>>})
      BY <3>3, AcyclicInsert
    <3> QED
      BY <3>1, <3>2, <3>4
  <2>4. CASE links' # links /\ link[1] # "plan"
    <3>1. links' \subseteq links \cup {link}
      BY <1>1 DEF InsertLink
    <3>2. \A x, y : DependsOn(links', x, y) => DependsOn(links, x, y)
      BY <2>4, <3>1 DEF DependsOn
    <3> QED
      BY <3>2, AcyclicSubset
  <2> QED
    BY <2>2, <2>3, <2>4
<1>2. ASSUME NEW s \in Sessions, NEW link \in links, RemoveLink(s, link) PROVE Acyclic(links')
  <2>1. \A x, y : DependsOn(links', x, y) => DependsOn(links, x, y)
    BY <1>2 DEF RemoveLink, DependsOn
  <2> QED
    BY <2>1, AcyclicSubset
<1>3. ASSUME NEW s \in Sessions, Generate(s) PROVE Acyclic(links')
  <2>1. PICK new \in SUBSET Clones : links' = Rewire(new, new, plans \cap Template)
    BY <1>3 DEF Generate
  <2>2. plans \cap new = {}
    BY <1>3 DEF Generate, RootFirst
  <2> QED
    BY <2>1, <2>2, AcyclicGenerate DEF IInv
<1>4. ASSUME NEW s \in Sessions,
             \/ \E kind \in Kinds, d, p \in Plans : ValidateLink(s, kind, d, p)
             \/ \E k \in Clones : EditClone(s, k)
             \/ \E p \in Later : CreateChild(s, p)
             \/ ReadInstance(s)
      PROVE  links' = links
  BY <1>4 DEF ValidateLink, EditClone, CreateChild, ReadInstance
<1>5. CASE UNCHANGED vars
  BY <1>5 DEF vars
<1>6. ASSUME NEW s \in Sessions, RefreshInstance(s) PROVE FALSE
  BY <1>6 DEF RefreshInstance
<1> QED
  BY <1>1, <1>2, <1>3, <1>4, <1>5, <1>6 DEF Next

\* INV-PRQ-1 with one request at a time: neither a user's request nor the generation of
\* an instance closes a cycle of plan prerequisites.
THEOREM DagOneAtATime ==
    ASSUME OneAtATime
    PROVE  Spec => OnlyRefreshClosesCycles
<1>1. AloneInv /\ [Next]_vars => AloneInv'
  BY NextAlone
<1>2. AloneInv /\ [Next]_vars =>
        [Acyclic(links) => Acyclic(links') \/ \E s \in Sessions : session[s].pc = "refresh"]_vars
  BY StepAcyclic
<1> QED
  BY <1>1, <1>2, InitAlone, PTL DEF Spec, OnlyRefreshClosesCycles

LEMMA StepStandsAlone ==
    ASSUME AloneInv, NEW s \in Sessions, RefreshInstance(s),
           NEW l \in links' \ links
    PROVE  l[3] \notin Template
<1> USE DEF AloneInv
<1> DEFINE template == session[s].template
<1>1. PICK new \in SUBSET (Clones \ plans) :
        LET ks == session[s].clones \cup new
            wired == {k \in ks : Linked(k)}
        IN ~CloneMissing(wired, ks, template) /\ links' = Rewire(wired, ks, template)
  BY DEF RefreshInstance
<1> DEFINE ks == session[s].clones \cup new
           wired == {k \in ks : Linked(k)}
<1>2. l \in Copies(wired, ks, template)
  BY <1>1 DEF Rewire
<1>3. PICK k \in wired, m \in links :
        m[2] = CloneOf[k] /\ l = <<m[1], k, Image(ks, template, m[3])>>
  BY <1>2, CopyOf
<1>4. m[3] \in plans
  BY DEF IInv, TypeOK
<1>5. template = plans \cap Template /\ ks \subseteq Clones
  BY DEF RefreshInstance, ReadsCurrent, IInv, SessionInv
<1>6. CASE m[3] \in Template
  <2>1. m[3] \in template \cap Cloned(ks)
    BY <1>1, <1>3, <1>4, <1>5, <1>6 DEF CloneMissing, Source
  <2>2. l[3] \in Clones
    BY <1>3, <1>5, <2>1, ImageOf
  <2> QED
    BY <2>2 DEF Template
<1>7. CASE m[3] \notin Template
  <2>1. l[3] = m[3]
    BY <1>3, <1>5, <1>7, ImageOf
  <2> QED
    BY <1>7, <2>1
<1> QED
  BY <1>6, <1>7

\* With one request at a time, what ends while a refresh is at work is the refresh.
LEMMA RefreshStep ==
    ASSUME OneAtATime, [Next]_vars, Refreshes
    PROVE  \E s \in Sessions : RefreshInstance(s)
<1>1. PICK s \in Sessions : session[s].pc = "refresh" /\ session'[s] = Idle
  BY DEF Refreshes
<1>2. \A t \in Sessions : t = s
  BY DEF OneAtATime
<1>3. session[s] # Idle /\ session[s].pc # "add"
  BY <1>1 DEF Idle
<1> QED
  BY <1>1, <1>2, <1>3
     DEF Next, vars, ValidateLink, InsertLink, RemoveLink, EditClone, CreateChild,
         Generate, ReadInstance

\* With one request at a time no refresh makes a clone wait for the template.
THEOREM StandAloneOneAtATime ==
    ASSUME OneAtATime
    PROVE  Spec => InstancesStandAlone
<1>1. AloneInv /\ [Next]_vars => AloneInv'
  BY NextAlone
<1>2. ASSUME AloneInv, [Next]_vars
      PROVE  [Refreshes => \A l \in links' \ links : l[2] \in Clones => l[3] \notin Template]_vars
  <2> SUFFICES ASSUME Refreshes, [Next]_vars, NEW l \in links' \ links
               PROVE  l[3] \notin Template
    BY <1>2
  <2>1. PICK s \in Sessions : RefreshInstance(s)
    BY <1>2, RefreshStep
  <2> QED
    BY <1>2, <2>1, StepStandsAlone
<1> QED
  BY <1>1, <1>2, InitAlone, PTL DEF Spec, InstancesStandAlone

-----------------------------------------------------------------------------
(* What users detached.                                                    *)

\* The plans above a plan are its parent and the plans above that.
LEMMA AncestorsOf ==
    ASSUME NEW p \in Plans, NEW q \in Plans, Parent[p] = q
    PROVE  Ancestors[p] = {p} \cup Ancestors[q] /\ q \in Ancestors[q]
BY ForestAssumption, NoneAssumption

\* A refresh of a linked root makes no clone below a detached plan.  Otherwise take the
\* new clones that have one above them: the parent of each is new too, because an old
\* parent is linked, and so has one above it as well; but no set of plans holds the
\* parents of all of its members.
LEMMA NewBelowLinked ==
    ASSUME TypeOK, RootClone \in plans \ detached,
           NEW old \in SUBSET Clones, NEW template \in SUBSET Plans,
           NEW new \in SUBSET (Clones \ plans), InPlace(new, old \cup new),
           Cloned(new) = Missing(old, template)
    PROVE  \A k \in new : Ancestors[k] \cap detached = {}
<1> DEFINE B == {k \in new : Ancestors[k] \cap detached # {}}
<1>1. ASSUME NEW k \in B PROVE Parent[k] \in B
  <2>1. k \in new /\ k # RootClone /\ k \in Plans /\ k \notin detached
    BY CloneAssumption DEF TypeOK
  <2>2. PICK j \in old \cup new : Parent[k] = j /\ Parent[CloneOf[k]] = CloneOf[j]
    BY <2>1 DEF InPlace
  <2>3. j \in Plans /\ CloneOf[j] \in Plans /\ CloneOf[k] \in Plans
    BY <2>1, CloneAssumption DEF Template
  <2>4. Ancestors[j] \cap detached # {}
    BY <2>1, <2>2, <2>3, AncestorsOf
  <2>5. j \notin old
    <3>1. SUFFICES ASSUME j \in old PROVE FALSE
      OBVIOUS
    <3>2. CloneOf[j] \in Ancestors[CloneOf[k]]
      BY <2>2, <2>3, AncestorsOf
    <3>3. CloneOf[k] \in Missing(old, template)
      BY <2>1 DEF Cloned
    <3>4. Linked(j)
      BY <3>1, <3>2, <3>3 DEF Missing
    <3> QED
      BY <2>4, <3>4 DEF Linked
  <2> QED
    BY <2>2, <2>4, <2>5
<1>2. B \in SUBSET Plans
  BY CloneAssumption
<1>3. B = {}
  BY <1>1, <1>2, ForestAssumption
<1> QED
  BY <1>3

LEMMA StepKeepsDetached ==
    ASSUME AloneInv, NEW s \in Sessions, RefreshInstance(s),
           NEW k \in Clones, Ancestors[k] \cap detached # {}
    PROVE  /\ k \in plans' => k \in plans
           /\ {l \in links : l[2] = k} = {l \in links' : l[2] = k}
<1> USE DEF AloneInv
<1> DEFINE old == session[s].clones
           template == session[s].template
<1>1. PICK new \in SUBSET (Clones \ plans) :
        LET ks == old \cup new
            wired == {j \in ks : Linked(j)}
        IN /\ InPlace(new, ks) /\ Cloned(new) = Missing(old, template)
           /\ \/ UNCHANGED <<plans, links>>
              \/ plans' = plans \cup new /\ links' = Rewire(wired, ks, template)
  BY DEF RefreshInstance
<1> DEFINE ks == old \cup new
           wired == {j \in ks : Linked(j)}
<1>2. /\ RootClone \in plans \ detached
      /\ old \in SUBSET Clones /\ template \in SUBSET Plans
  BY DEF RefreshInstance, ReadsCurrent, IInv, SessionInv, Template
<1>3. k \notin new
  BY <1>1, <1>2, NewBelowLinked DEF IInv
<1>4. k \notin wired
  BY <1>2 DEF Linked
<1>5. \A l \in Copies(wired, ks, template) : l[2] \in wired
  BY CopyOf
<1>6. {l \in Rewire(wired, ks, template) : l[2] = k} = {l \in links : l[2] = k}
  BY <1>4, <1>5 DEF Rewire
<1> QED
  BY <1>1, <1>3, <1>6

\* With one request at a time a refresh leaves alone what a user detached.
THEOREM DetachedOneAtATime ==
    ASSUME OneAtATime
    PROVE  Spec => DetachedKept
<1>1. AloneInv /\ [Next]_vars => AloneInv'
  BY NextAlone
<1>2. ASSUME AloneInv, [Next]_vars
      PROVE  [Refreshes =>
                \A k \in Clones :
                   Ancestors[k] \cap detached # {} =>
                       /\ k \in plans' => k \in plans
                       /\ {l \in links : l[2] = k} = {l \in links' : l[2] = k}]_vars
  <2> SUFFICES ASSUME Refreshes, NEW k \in Clones, Ancestors[k] \cap detached # {}
               PROVE  /\ k \in plans' => k \in plans
                      /\ {l \in links : l[2] = k} = {l \in links' : l[2] = k}
    OBVIOUS
  <2>1. PICK s \in Sessions : RefreshInstance(s)
    BY <1>2, RefreshStep
  <2> QED
    BY <1>2, <2>1, StepKeepsDetached
<1> QED
  BY <1>1, <1>2, InitAlone, PTL DEF Spec, DetachedKept
=============================================================================
