------------------------- MODULE PlanPrerequisites -------------------------
(***************************************************************************)
(* The prerequisites of plans (domain/prerequisites.py, services/          *)
(* plan_tree.py, task.py, block.py), and the wiring of a repetition's      *)
(* clones (services/repetition.py), which writes prerequisites nobody      *)
(* asked for one by one.                                                   *)
(*                                                                         *)
(* Adding a prerequisite reads and validates outside any transaction and   *)
(* then inserts.  A repetition refresh reads its template, its clones and  *)
(* whether the instance is still linked before its first write, and        *)
(* everything else under the write lock.  Other requests come between.     *)
(*                                                                         *)
(* One repetition with one instance; its template holds no repetition, and *)
(* nothing is deleted.                                                     *)
(***************************************************************************)
EXTENDS Naturals, FiniteSets, Sequences

CONSTANTS
    Sessions,      \* requests at work at the same time
    Plans,         \* plan ids that can be handed out
    Parent,        \* the parent of each plan, None for the master plan
    Master,        \* the master plan
    Shell,         \* the REPETITION plan
    TemplateRoot,  \* the root of its template
    Leaves,        \* TASK and BLOCK plans
    Clones,        \* the ids of clones
    RootClone,     \* the root of the instance
    CloneOf,       \* the template plan each clone is made from: cloned_from_id
    Later,         \* plans a user creates while the system runs
    MaxLinks,      \* bound on the prerequisites when a user adds one
    None           \* SQL NULL

\* A plan and the plans above it.
Ancestors[p \in Plans] ==
    IF Parent[p] = None THEN {p} ELSE {p} \cup Ancestors[Parent[p]]

\* The repetitions a plan sits in.  A template root continues at its shell, which
\* is then not counted a second time.
Trace[p \in Plans] ==
    LET above(q) == IF Parent[q] = None THEN << >> ELSE Trace[Parent[q]] IN
    CASE p = Master       -> << >>
      [] p = TemplateRoot -> <<Shell>> \o above(Shell)
      [] p = Shell        -> <<Shell>> \o above(Shell)
      [] OTHER            -> above(p)

Template == {p \in Plans \ Clones : TemplateRoot \in Ancestors[p]}

ASSUME NoneAssumption == None \notin Plans
ASSUME MaxLinksAssumption == MaxLinks \in Nat
ASSUME TreeAssumption ==
    /\ Parent \in [Plans -> Plans \cup {None}]
    /\ {Master, Shell, TemplateRoot} \subseteq Plans \ (Clones \cup Later)
    /\ Leaves \subseteq Plans /\ Later \subseteq Plans \ Clones
    /\ Parent[Master] = None /\ Parent[TemplateRoot] = Shell
\* Parents form a tree, so the recursion of Ancestors ends.
ASSUME ForestAssumption ==
    /\ \A p \in Plans :
          Ancestors[p] = {p} \cup (IF Parent[p] = None THEN {} ELSE Ancestors[Parent[p]])
    /\ \A S \in SUBSET Plans : S # {} => \E p \in S : Parent[p] \notin S
ASSUME CloneAssumption ==
    /\ Clones \subseteq Plans /\ RootClone \in Clones
    /\ CloneOf \in [Clones -> Template]
    /\ CloneOf[RootClone] = TemplateRoot /\ Parent[RootClone] = Shell
    /\ \A k \in Clones : k \in Leaves <=> CloneOf[k] \in Leaves
\* A clone stands in the repetitions its template plan stands in: true of every
\* clone while templates hold no repetition.
ASSUME TraceAssumption == \A k \in Clones : Trace[k] = Trace[CloneOf[k]]

VARIABLES
    plans,      \* the plan table
    detached,   \* the clones whose clone_status is DETACHED; the others are LINKED
    links,      \* plan_prerequisite rows and immediate_prerequisite_plan_id columns
    session     \* what each request has read and is about to write

vars == <<plans, detached, links, session>>

Kinds == {"plan", "immediate"}

\* <<kind, dependent, prerequisite>>
Link == Kinds \X Plans \X Plans

Idle == [pc |-> "idle"]

\* A validated link, or what a refresh has read.
Session ==
    {Idle} \cup [pc : {"add"}, link : Link]
           \cup [pc : {"refresh"}, clones : SUBSET Clones, template : SUBSET Template]

Init ==
    /\ plans = Plans \ (Clones \cup Later)
    /\ detached = {}
    /\ links = {}
    /\ session = [s \in Sessions |-> Idle]

-----------------------------------------------------------------------------
(* Editing.                                                                *)

Below(k) == {q \in plans \cap Clones : k \in Ancestors[q]}

\* Editing a linked clone takes it and what is below it out of the template's hands.
Cut(p) == IF p \in Clones \ detached THEN Below(p) ELSE {}

DependsOn(ls, x, y) == <<"plan", x, y>> \in ls

Dependents(ls) == {l[2] : l \in ls}

\* Some set of plans cannot be left: each of them waits for another one of the set.
Trapped(ls, trap) == \A x \in trap : \E y \in trap : DependsOn(ls, x, y)

\* Following prerequisites from d never ends.
NeverEnds(ls, d) ==
    \E trap \in SUBSET Dependents(ls) : d \in trap /\ Trapped(ls, trap)

\* Mutant of ClosesCycle: only the reverse link is looked for.
ReverseExists(d, p) == DependsOn(links, p, d)

ClosesCycle(d, p) == NeverEnds(links \cup {<<"plan", d, p>>}, d)

\* Mutant of TracesAgree: the trace of a plan with itself.
AnyTraces(d, p) == TRUE

TracesAgree(d, p) == Trace[d] = Trace[p]

PlanLinkAllowed(d, p) ==
    /\ d # p /\ d # Master
    /\ TracesAgree(d, p)
    /\ ~ClosesCycle(d, p)

\* An immediate prerequisite joins two leaves; cycles are not looked for.
ImmediateLinkAllowed(d, p) ==
    /\ d # p /\ {d, p} \subseteq Leaves
    /\ TracesAgree(d, p)

Exist(d, p) == {d, p} \subseteq plans

\* A request that fails validation returns an error and changes nothing.
ValidateLink(s, kind, d, p) ==
    /\ session[s] = Idle
    /\ Cardinality(links) < MaxLinks
    /\ Exist(d, p) /\ <<kind, d, p>> \notin links
    /\ \/ kind = "plan" /\ PlanLinkAllowed(d, p)
       \/ kind = "immediate" /\ ImmediateLinkAllowed(d, p)
    /\ session' = [session EXCEPT ![s] = [pc |-> "add", link |-> <<kind, d, p>>]]
    /\ UNCHANGED <<plans, detached, links>>

\* A plan has one immediate prerequisite.
Replaced(link) ==
    {l \in links : link[1] = "immediate" /\ l[1] = "immediate" /\ l[2] = link[2]}

\* The primary key refuses a plan prerequisite inserted meanwhile: the request raises.
InsertLink(s) ==
    /\ session[s].pc = "add"
    /\ LET link == session[s].link IN
          IF link[1] = "plan" /\ link \in links
            THEN UNCHANGED <<links, detached>>
            ELSE /\ links' = (links \ Replaced(link)) \cup {link}
                 /\ detached' = detached \cup Cut(link[2])
    /\ session' = [session EXCEPT ![s] = Idle]
    /\ UNCHANGED plans

RemoveLink(s, link) ==
    /\ session[s] = Idle
    /\ link \in links
    /\ links' = links \ {link}
    /\ detached' = detached \cup Cut(link[2])
    /\ UNCHANGED <<plans, session>>

\* Renaming, completing or rescheduling a linked clone.
EditClone(s, k) ==
    /\ session[s] = Idle
    /\ k \in plans \cap Clones /\ k \notin detached
    /\ detached' = detached \cup Cut(k)
    /\ UNCHANGED <<plans, links, session>>

CreateChild(s, p) ==
    /\ session[s] = Idle
    /\ p \in Later \ plans /\ Parent[p] \in plans
    /\ plans' = plans \cup {p}
    /\ detached' = detached \cup Cut(Parent[p])
    /\ UNCHANGED <<links, session>>

-----------------------------------------------------------------------------
(* Wiring clones.                                                          *)

Cloned(ks) == {CloneOf[k] : k \in ks}

OneEach(ks) == \A j, k \in ks : CloneOf[j] = CloneOf[k] => j = k

\* What a template's prerequisite p becomes in the instance ks.
Image(ks, template, p) ==
    IF p \in template \cap Cloned(ks) THEN CHOOSE k \in ks : CloneOf[k] = p ELSE p

Source(k) == {l \in links : l[2] = CloneOf[k]}

Copies(wired, ks, template) ==
    UNION {{<<l[1], k, Image(ks, template, l[3])>> : l \in Source(k)} : k \in wired}

\* Their own prerequisites go, the template's come.
Rewire(wired, ks, template) ==
    {l \in links : l[2] \notin wired} \cup Copies(wired, ks, template)

\* Children's parents are each other's clones.
InPlace(new, ks) ==
    \A k \in new \ {RootClone} : \E j \in ks : Parent[k] = j /\ Parent[CloneOf[k]] = CloneOf[j]

\* The no-op UPDATE takes the write lock first: one step.
Generate(s) ==
    /\ session[s] = Idle
    /\ RootClone \notin plans
    /\ \E new \in SUBSET Clones :
          /\ OneEach(new) /\ Cloned(new) = plans \cap Template
          /\ RootClone \in new /\ InPlace(new, new)
          /\ plans' = plans \cup new
          /\ links' = Rewire(new, new, plans \cap Template)
    /\ UNCHANGED <<detached, session>>

\* Mutant of InstancePlans: the walk stops below the root.
RootAndChildren == {k \in plans \cap Clones : k = RootClone \/ Parent[k] = RootClone}

InstancePlans == plans \cap Clones

\* The last clone of a template plan that is read stands for it.
ReadInstance(s) ==
    /\ session[s] = Idle
    /\ RootClone \in plans \ detached
    /\ \E ks \in SUBSET InstancePlans :
          /\ OneEach(ks) /\ Cloned(ks) = Cloned(InstancePlans)
          /\ session' = [session EXCEPT ![s] =
                [pc |-> "refresh", clones |-> ks, template |-> plans \cap Template]]
    /\ UNCHANGED <<plans, detached, links>>

\* Mutant of Linked: the root was linked, so everything is.
AllLinked(k) == TRUE

\* The root's status is the one that was read; the others are read here.
Linked(k) == Ancestors[k] \cap (detached \ {RootClone}) = {}

\* Template plans to clone: nothing above them was detached in the instance.
Missing(ks, template) ==
    {n \in template \ Cloned(ks) :
        \A k \in ks : CloneOf[k] \in Ancestors[n] => Linked(k)}

\* Mutant of CloneMissing: nobody looks.
NoneMissing(wired, ks, template) == FALSE

\* A template prerequisite without a clone in the instance is an error.
CloneMissing(wired, ks, template) ==
    \E k \in wired : \E l \in Source(k) : l[3] \in template \ Cloned(ks)

\* The table refuses a plan prerequisite on itself and one that comes twice.
ConstraintBroken(wired, ks, template) ==
    \E k \in wired :
        LET targets == {l \in Source(k) : l[1] = "plan"} IN
        \E l \in targets :
            \/ Image(ks, template, l[3]) = k
            \/ \E m \in targets \ {l} : Image(ks, template, m[3]) = Image(ks, template, l[3])

\* A failure rolls everything back.
RefreshInstance(s) ==
    /\ session[s].pc = "refresh"
    /\ LET template == session[s].template IN
       \E new \in SUBSET (Clones \ plans) :
          LET ks == session[s].clones \cup new
              wired == {k \in ks : Linked(k)}
          IN /\ OneEach(new) /\ InPlace(new, ks)
             /\ Cloned(new) = Missing(session[s].clones, template)
             /\ IF CloneMissing(wired, ks, template) \/ ConstraintBroken(wired, ks, template)
                  THEN UNCHANGED <<plans, links>>
                  ELSE /\ plans' = plans \cup new
                       /\ links' = Rewire(wired, ks, template)
    /\ session' = [session EXCEPT ![s] = Idle]
    /\ UNCHANGED detached

-----------------------------------------------------------------------------

Next ==
    \E s \in Sessions :
        \/ \E kind \in Kinds, d, p \in Plans : ValidateLink(s, kind, d, p)
        \/ InsertLink(s)
        \/ \E link \in links : RemoveLink(s, link)
        \/ \E k \in Clones : EditClone(s, k)
        \/ \E p \in Later : CreateChild(s, p)
        \/ Generate(s)
        \/ ReadInstance(s)
        \/ RefreshInstance(s)

Spec == Init /\ [][Next]_vars

-----------------------------------------------------------------------------
(* Properties.                                                             *)

\* Prerequisites join plans that exist, and only existing clones are detached.
TypeOK ==
    /\ plans \subseteq Plans
    /\ detached \subseteq plans \cap Clones
    /\ links \subseteq Kinds \X plans \X plans
    /\ session \in [Sessions -> Session]

\* INV-PRQ-2 and INV-PRQ-3: a prerequisite, whether a user made it or the wiring of
\* clones did, joins plans of the same repetitions.
TracesMatch == \A l \in links : Trace[l[2]] = Trace[l[3]]

\* INV-PRQ-1: no plan waits for itself through plan prerequisites.
Acyclic(ls) == \A trap \in SUBSET Dependents(ls) : Trapped(ls, trap) => trap = {}

\* No request of a user makes the prerequisites cyclic, nor does the generation of
\* the instance; only a refresh of it ever does.
OnlyRefreshClosesCycles ==
    [][Acyclic(links) => Acyclic(links') \/ \E s \in Sessions : session[s].pc = "refresh"]_vars

\* However many refreshes there were, the instance has one clone of a template plan.
OneClonePerNode == OneEach(plans \cap Clones)

Refreshes == \E s \in Sessions : session[s].pc = "refresh" /\ session'[s] = Idle

\* A refresh leaves alone what a user detached: the plan, what is below it, and
\* the prerequisites of both.
DetachedKept ==
    [][Refreshes =>
         \A k \in Clones :
            Ancestors[k] \cap detached # {} =>
                /\ k \in plans' => k \in plans
                /\ {l \in links : l[2] = k} = {l \in links' : l[2] = k}]_vars

\* A refresh never makes a clone wait for a plan of the template, which is never
\* scheduled; the next preflight of a schedule refresh would refuse it.
InstancesStandAlone ==
    [][Refreshes => \A l \in links' \ links : l[2] \in Clones => l[3] \notin Template]_vars
=============================================================================
