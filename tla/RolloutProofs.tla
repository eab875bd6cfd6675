---------------------------- MODULE RolloutProofs ----------------------------
(***************************************************************************)
(* What rolling out does to the pods, and who asked for it.                *)
(*                                                                         *)
(* Validate compares the Instance with the CRs, long before the operator   *)
(* gets to the pods, so what it promises has to be carried along: from the *)
(* Instance a reconcile was handed, to the CR, to what the operator picked *)
(* up, to the pod.  Then two results without TLS on Keeper, where what a   *)
(* reconcile renders follows from the release and the Instance: Ready      *)
(* means rolled out, and no restart comes without consent.                 *)
(***************************************************************************)
EXTENDS KeeperSwitchProofs

USE DEF CRs

\* What an Instance asks for, and whether it asks for the CR at all.
Wanted(x, in) == Settings[x][IF x = "chk" THEN in.keeper ELSE in.engine]
Uses(x, in) == x = "chk" => Replicated(in)

\* The settings of a component.
SettingsOf(x) == {Settings[x][c] : c \in DOMAIN Settings[x]}

\* Every image tag is a version, of up to four segments, and those of one
\* component are of one precision: only then is "not older" an order.
ComparableVersions ==
  \A x \in CRs : \A c, d \in SettingsOf(x) :
    Len(c.image) \in 1 .. 4 /\ Precision(c.image) = Precision(d.image)

\* A component that does not step back from another.
NotBack(was, is) ==
  /\ is.size >= was.size /\ is.class = was.class
  /\ AtLeast(is.image, was.image)

-----------------------------------------------------------------------------
(* Versions. *)

LEMMA SegmentType ==
  ASSUME NEW s \in Seq(Nat), NEW i \in Nat \ {0}
  PROVE  Segment(s, i) \in Nat
  BY DEF Segment

\* The order, segment by segment.
Lexicographic(a, b) ==
  \/ Segment(a, 1) > Segment(b, 1)
  \/ /\ Segment(a, 1) = Segment(b, 1)
     /\ \/ Segment(a, 2) > Segment(b, 2)
        \/ /\ Segment(a, 2) = Segment(b, 2)
           /\ \/ Segment(a, 3) > Segment(b, 3)
              \/ /\ Segment(a, 3) = Segment(b, 3)
                 /\ Segment(a, 4) >= Segment(b, 4)

LEMMA AtLeastSegments ==
  ASSUME NEW a \in Seq(Nat), NEW b \in Seq(Nat)
  PROVE  AtLeast(a, b) <=> Lexicographic(a, b)
  <1>1. \A i \in 1 .. 4 : Segment(a, i) \in Nat /\ Segment(b, i) \in Nat
    BY DEF Segment
  <1>2. AtLeast(a, b) <=>
          /\ Segment(a, 1) >= Segment(b, 1)
          /\ Segment(a, 2) >= Segment(b, 2) \/ Segment(a, 1) > Segment(b, 1)
          /\ \/ Segment(a, 3) >= Segment(b, 3)
             \/ Segment(a, 1) > Segment(b, 1) \/ Segment(a, 2) > Segment(b, 2)
          /\ \/ Segment(a, 4) >= Segment(b, 4)
             \/ Segment(a, 1) > Segment(b, 1) \/ Segment(a, 2) > Segment(b, 2)
             \/ Segment(a, 3) > Segment(b, 3)
    <2>1. /\ 1 .. 4 = {1, 2, 3, 4} /\ 1 .. (1 - 1) = {} /\ 1 .. (2 - 1) = {1}
          /\ 1 .. (3 - 1) = {1, 2} /\ 1 .. (4 - 1) = {1, 2, 3}
      OBVIOUS
    <2> QED BY <2>1 DEF AtLeast
  <1> QED BY <1>1, <1>2 DEF Lexicographic

\* compareSegments decides in that order, between versions of one precision.
LEMMA OlderIsOrder ==
  ASSUME NEW a \in Seq(Nat), NEW b \in Seq(Nat),
         Len(a) \in 1 .. 4, Len(b) \in 1 .. 4, Precision(a) = Precision(b)
  PROVE  ~Older(a, b) <=> AtLeast(a, b)
  <1>1. \A i \in 1 .. 4 : Segment(a, i) \in Nat /\ Segment(b, i) \in Nat
    BY DEF Segment
  <1> DEFINE la == Len(a)
             lb == Len(b)
  <1>2. /\ la \in {1, 2, 3, 4} /\ lb \in {1, 2, 3, 4}
        /\ (IF la < 3 THEN 3 ELSE la) = (IF lb < 3 THEN 3 ELSE lb)
        /\ Precision(a) = IF la < 3 THEN 3 ELSE la
        /\ Segment(a, 4) = IF 4 <= la THEN a[4] ELSE 0
        /\ Segment(b, 4) = IF 4 <= lb THEN b[4] ELSE 0
    BY DEF Precision, Segment
  <1> HIDE DEF la, lb
  <1>3. /\ Precision(a) \in {3, 4}
        /\ Precision(a) = 3 => Segment(a, 4) = 0 /\ Segment(b, 4) = 0
    BY <1>2
  <1>4. Older(a, b) <=>
          \/ Segment(a, 1) < Segment(b, 1)
          \/ Segment(a, 1) = Segment(b, 1) /\ Segment(a, 2) < Segment(b, 2)
          \/ /\ Segment(a, 1) = Segment(b, 1) /\ Segment(a, 2) = Segment(b, 2)
             /\ Segment(a, 3) < Segment(b, 3)
          \/ /\ Segment(a, 1) = Segment(b, 1) /\ Segment(a, 2) = Segment(b, 2)
             /\ Segment(a, 3) = Segment(b, 3) /\ Segment(a, 4) < Segment(b, 4)
    <2>1. /\ 1 .. 4 = {1, 2, 3, 4} /\ 1 .. 3 = {1, 2, 3}
          /\ 1 .. (1 - 1) = {} /\ 1 .. (2 - 1) = {1}
          /\ 1 .. (3 - 1) = {1, 2} /\ 1 .. (4 - 1) = {1, 2, 3}
      OBVIOUS
    <2>2. CASE Precision(a) = 4
      BY <2>1, <2>2 DEF Older
    <2>3. CASE Precision(a) = 3
      BY <1>3, <2>1, <2>3 DEF Older
    <2> QED BY <1>3, <2>2, <2>3
  <1> QED BY <1>1, <1>4, AtLeastSegments DEF Lexicographic

\* So it goes along with the transitions Validate allows.
LEMMA TransitionIsNotBack ==
  ASSUME ComparableVersions, NEW x \in CRs,
         NEW was \in SettingsOf(x), NEW is \in SettingsOf(x)
  PROVE  /\ \A e : Transition(was, is, e) => NotBack(was, is)
         /\ NotBack(was, is) => Transition(was, is, TRUE)
  <1>1. /\ was.image \in Seq(Nat) /\ is.image \in Seq(Nat)
        /\ Len(was.image) \in 1 .. 4 /\ Len(is.image) \in 1 .. 4
        /\ Precision(is.image) = Precision(was.image)
    BY SettingsAssumption DEF ComparableVersions, SettingsOf
  <1>2. was.image # <<>> /\ is.image # <<>>
    <2>1. Len(<<>>) = 0
      OBVIOUS
    <2>2. \A n \in 1 .. 4 : n # 0
      OBVIOUS
    <2> QED BY <1>1, <2>1, <2>2, Zenon
  <1>3. ~Older(is.image, was.image) <=> AtLeast(is.image, was.image)
    BY <1>1, OlderIsOrder
  <1> QED BY <1>2, <1>3 DEF Transition, StorageTransition, VersionTransition, NotBack

LEMMA NotBackIsOrder ==
  ASSUME NEW x \in CRs, NEW c \in SettingsOf(x), NEW d \in SettingsOf(x),
         NEW e \in SettingsOf(x)
  PROVE  /\ NotBack(c, c)
         /\ NotBack(c, d) /\ NotBack(d, e) => NotBack(c, e)
  <1>1. /\ c.image \in Seq(Nat) /\ c.size \in Nat
        /\ d.image \in Seq(Nat) /\ d.size \in Nat
        /\ e.image \in Seq(Nat) /\ e.size \in Nat
    BY SettingsAssumption DEF SettingsOf
  <1> DEFINE u == c.image
             v == d.image
             w == e.image
  <1> HIDE DEF u, v, w
  <1>2. u \in Seq(Nat) /\ v \in Seq(Nat) /\ w \in Seq(Nat)
    BY <1>1 DEF u, v, w
  <1>3. \A s \in {u, v, w} : /\ Segment(s, 1) \in Nat /\ Segment(s, 2) \in Nat
                             /\ Segment(s, 3) \in Nat /\ Segment(s, 4) \in Nat
    BY <1>2, SegmentType
  <1>4. AtLeast(u, u)
    BY <1>2, <1>3, AtLeastSegments DEF Lexicographic
  <1>5. AtLeast(v, u) /\ AtLeast(w, v) => AtLeast(w, u)
    <2>1. /\ AtLeast(v, u) <=> Lexicographic(v, u)
          /\ AtLeast(w, v) <=> Lexicographic(w, v)
          /\ AtLeast(w, u) <=> Lexicographic(w, u)
      BY <1>2, AtLeastSegments
    <2> QED BY <1>3, <2>1 DEF Lexicographic
  <1> QED BY <1>1, <1>4, <1>5 DEF NotBack, u, v, w

-----------------------------------------------------------------------------
(* Pods do not step back. *)

\* A rendering asks for a setting there is, and a reconcile renders what the
\* Instance it was handed asks for.
LEMMA ComponentIsSetting ==
  ASSUME NEW x \in CRs
  PROVE  /\ \A spec \in Specs(x) : Component(x, spec) \in SettingsOf(x)
         /\ \A in \in Inputs : Wanted(x, in) \in SettingsOf(x)
         /\ Component(x, Desired(x)) = Wanted(x, copy.inst)
  <1>1. CASE x = "chk"
    BY <1>1, SettingsAssumption DEF SettingsOf, Specs, CHKSpecs, Component, Wanted, Inputs,
       Desired, RenderCHK
  <1>2. CASE x = "chi"
    BY <1>2, SettingsAssumption DEF SettingsOf, Specs, CHISpecs, Component, Wanted, Inputs,
       Desired, RenderCHI
  <1> QED BY <1>1, <1>2

\* Each of these is no step back from the one before: what a pod has, what the
\* operator picked up, what the CR says, what the reconcile was handed.
CarriedInv ==
  /\ \A x \in CRs :
       /\ \A p \in PodsOf(x) : pods[p] # None =>
            work[x] # None /\ NotBack(Component(x, pods[p]), Component(x, work[x].spec))
       /\ work[x] # None =>
            cr[x] # None /\ NotBack(Component(x, work[x].spec), Component(x, cr[x].spec))
       /\ cr[x] # None /\ copy # None /\ Uses(x, copy.inst) =>
            NotBack(Component(x, cr[x].spec), Wanted(x, copy.inst))
  /\ pc = "applyCHK" => Replicated(copy.inst)

LEMMA CarriedInit == Init => CarriedInv
  <1> SUFFICES ASSUME Init PROVE CarriedInv
    OBVIOUS
  <1>0. TypeOK /\ pc = "idle" /\ copy = None /\ inst \in Inputs
    BY TypeInit DEF Init, Fresh
  <1>1. CASE New
    BY <1>0, <1>1 DEF New, CarriedInv, PodsOf, Pods
  <1>2. ASSUME NEW spec \in SpecPairs, NEW stamped \in BOOLEAN, Running(spec, stamped)
        PROVE  CarriedInv
    <2>1. \A x \in CRs : /\ \A p \in PodsOf(x) : pods[p] = spec[x]
                         /\ spec[x] = None => cr[x] = None /\ work[x] = None
                         /\ spec[x] # None =>
                              /\ cr[x] # None /\ cr[x].spec = spec[x]
                              /\ work[x] # None /\ work[x].spec = spec[x]
      BY <1>2, RunningCluster
    <2>2. \A x \in CRs : spec[x] # None =>
            NotBack(Component(x, spec[x]), Component(x, spec[x]))
      BY ComponentIsSetting, NotBackIsOrder DEF SpecPairs
    <2> QED BY <1>0, <2>1, <2>2 DEF CarriedInv
  <1>3. ASSUME NEW r \in Releases, Steady(r) PROVE CarriedInv
    <2>1. Settled(inst) \in Wirings
      BY <1>0 DEF Settled, Wirings, Inputs, Ports, KeeperPort, KeeperSecurePort,
         KeeperReference, NoKeeper
    <2> QED BY <1>0, <1>2, <1>3, <2>1, RendersTypes DEF Steady
  <1>4. ASSUME NEW recorded \in BOOLEAN, TakenOver(recorded) PROVE CarriedInv
    <2>1. 1 \in Releases /\ PlaintextKeeper \in Wirings
      BY <1>4, LayoutAssumption DEF TakenOver, Releases, PlaintextKeeper, Wirings,
         Ports, KeeperPort, KeeperSecurePort, KeeperReference, NoKeeper
    <2> QED BY <1>0, <1>2, <1>4, <2>1, RendersTypes DEF TakenOver
  <1>5. 1 \in Releases /\ LastRelease \in Releases
    BY LayoutAssumption DEF Releases
  <1> QED BY <1>1, <1>3, <1>4, <1>5 DEF Init

\* Validate has compared what a reconcile is handed with the CRs.
LEMMA ValidIsNotBack ==
  ASSUME ComparableVersions, TypeOK, NEW in \in Inputs, Valid(in)
  PROVE  \A x \in CRs : cr[x] # None /\ Uses(x, in) =>
           NotBack(Component(x, cr[x].spec), Wanted(x, in))
  <1> SUFFICES ASSUME NEW x \in CRs, cr[x] # None, Uses(x, in)
               PROVE  NotBack(Component(x, cr[x].spec), Wanted(x, in))
    OBVIOUS
  <1>1. Transition(Component(x, cr[x].spec), Wanted(x, in), VolumesExpand(x))
    BY DEF Valid, Takes, Uses, Wanted
  <1>2. Component(x, cr[x].spec) \in SettingsOf(x) /\ Wanted(x, in) \in SettingsOf(x)
    BY ComponentIsSetting DEF TypeOK, ClusterOK, Installations
  <1> QED BY <1>1, <1>2, TransitionIsNotBack

\* Every step carries on.
LEMMA CarriedNext ==
  ASSUME ComparableVersions, TypeOK, CarriedInv, [Next]_vars
  PROVE  CarriedInv'
  <1>0. \A x \in CRs :
          /\ cr[x] # None => Component(x, cr[x].spec) \in SettingsOf(x)
          /\ work[x] # None => Component(x, work[x].spec) \in SettingsOf(x)
          /\ \A p \in PodsOf(x) :
               pods[p] # None => Component(x, pods[p]) \in SettingsOf(x)
    BY ComponentIsSetting DEF TypeOK, ClusterOK, Installations, Renderings
  <1>1. ASSUME UNCHANGED <<cluster, copy>>, pc' = "applyCHK" => Replicated(copy.inst)
        PROVE  CarriedInv'
    BY <1>1 DEF CarriedInv, cluster
  <1>2. CASE StartSync
    <2>1. /\ UNCHANGED cluster /\ Valid(inst) /\ copy'.inst = inst
          /\ pc' # "applyCHK" /\ inst \in Inputs
      BY <1>2 DEF StartSync, TypeOK, InstanceOK
    <2>2. \A x \in CRs : cr[x] # None /\ Uses(x, inst) =>
            NotBack(Component(x, cr[x].spec), Wanted(x, inst))
      BY <2>1, ValidIsNotBack
    <2> QED BY <2>1, <2>2 DEF CarriedInv, cluster
  <1>3. CASE Plan
    BY <1>1, <1>3 DEF Plan
  <1>4. CASE Edit
    BY <1>1, <1>4 DEF Edit, CarriedInv
  <1>5. ASSUME NEW x \in CRs, Apply(x) PROVE CarriedInv'
    <2>1. /\ UNCHANGED <<work, pods, copy>> /\ copy # None
          /\ pc = At(x, "applyCHK", "applyCHI")
          /\ pc' \in {At(x, "saveCHK", "saveCHI"), At(x, "checkCHK", "checkCHI")}
          /\ cr'[x] # None /\ cr'[x].spec = Desired(x)
          /\ \A y \in CRs \ {x} : cr'[y] = cr[y]
      BY <1>5, ApplyEffect
    <2>2. Uses(x, copy.inst) /\ pc' # "applyCHK"
      BY <2>1 DEF CarriedInv, Uses, At
    <2>3. /\ Component(x, cr'[x].spec) = Wanted(x, copy.inst)
          /\ Wanted(x, copy.inst) \in SettingsOf(x)
      BY <2>1, ComponentIsSetting DEF TypeOK, SyncOK, Copies
    <2>4. work[x] # None => NotBack(Component(x, work[x].spec), Component(x, cr'[x].spec))
      <3> SUFFICES ASSUME work[x] # None
                   PROVE  NotBack(Component(x, work[x].spec), Component(x, cr'[x].spec))
        OBVIOUS
      <3>1. /\ cr[x] # None
            /\ NotBack(Component(x, work[x].spec), Component(x, cr[x].spec))
            /\ NotBack(Component(x, cr[x].spec), Wanted(x, copy.inst))
        BY <2>1, <2>2 DEF CarriedInv
      <3> QED BY <1>0, <2>3, <3>1, NotBackIsOrder
    <2>5. NotBack(Component(x, cr'[x].spec), Wanted(x, copy.inst))
      BY <2>3, NotBackIsOrder
    <2> QED BY <2>1, <2>2, <2>4, <2>5 DEF CarriedInv
  <1>6. ASSUME NEW x \in CRs, PickUp(x) PROVE CarriedInv'
    <2>1. /\ UNCHANGED <<pods, pc, copy>>
          /\ cr[x] # None /\ cr'[x] # None /\ cr'[x].spec = cr[x].spec
          /\ work'[x] # None /\ work'[x].spec = cr[x].spec
          /\ \A y \in CRs \ {x} : cr'[y] = cr[y] /\ work'[y] = work[y]
      BY <1>6, PickUpEffect DEF sync
    <2>2. NotBack(Component(x, cr[x].spec), Component(x, cr[x].spec))
      BY <1>0, <2>1, NotBackIsOrder
    <2>3. ASSUME NEW p \in PodsOf(x), pods[p] # None
          PROVE  NotBack(Component(x, pods[p]), Component(x, cr[x].spec))
      <3>1. /\ work[x] # None
            /\ NotBack(Component(x, pods[p]), Component(x, work[x].spec))
            /\ NotBack(Component(x, work[x].spec), Component(x, cr[x].spec))
        BY <2>3 DEF CarriedInv
      <3> QED BY <1>0, <2>1, <2>3, <3>1, NotBackIsOrder
    <2> QED BY <2>1, <2>2, <2>3 DEF CarriedInv
  <1>7. ASSUME NEW x \in CRs, NEW p \in PodsOf(x), Roll(x, p) PROVE CarriedInv'
    <2>1. /\ UNCHANGED <<cr, work, pc, copy>>
          /\ work[x] # None /\ pods'[p] = work[x].spec
          /\ \A q \in PodsOf(x) : q # p => pods'[q] = pods[q]
          /\ \A y \in CRs \ {x} : \A q \in PodsOf(y) : pods'[q] = pods[q]
      BY <1>7, RollEffect DEF sync
    <2>2. NotBack(Component(x, work[x].spec), Component(x, work[x].spec))
      BY <1>0, <2>1, NotBackIsOrder
    <2>3. ASSUME NEW y \in CRs, NEW q \in PodsOf(y), pods'[q] # None
          PROVE  /\ work[y] # None
                 /\ NotBack(Component(y, pods'[q]), Component(y, work[y].spec))
      <3>1. CASE y = x
        BY <2>1, <2>2, <2>3, <3>1 DEF CarriedInv
      <3>2. CASE y # x
        BY <2>1, <2>3, <3>2 DEF CarriedInv
      <3> QED BY <3>1, <3>2
    <2> QED BY <2>1, <2>3 DEF CarriedInv
  <1>8. ASSUME NEW x \in CRs, Finish(x) \/ Abort(x) \/ Resync(x) PROVE CarriedInv'
    <2>1. /\ UNCHANGED <<work, pods, pc, copy>>
          /\ cr[x] # None /\ cr'[x] # None /\ cr'[x].spec = cr[x].spec
          /\ \A y \in CRs \ {x} : cr'[y] = cr[y]
      BY <1>8, ReportEffect DEF sync
    <2>2. \A y \in CRs : /\ cr'[y] # None <=> cr[y] # None
                         /\ cr[y] # None => cr'[y].spec = cr[y].spec
      BY <2>1
    <2> QED BY <2>1, <2>2 DEF CarriedInv
  <1>9. CASE AfterPlan
    <2>1. UNCHANGED <<cluster, copy>> /\ pc' # "applyCHK"
      BY <1>9, AfterPlanEffect DEF Applying
    <2> QED BY <1>1, <2>1
  <1>10. CASE Ends
    <2>1. UNCHANGED cluster /\ pc' = "idle" /\ copy' = None
      BY <1>10, EndsEffect DEF EndSync
    <2> QED BY <2>1 DEF CarriedInv, cluster
  <1>11. CASE Aside \/ UNCHANGED vars
    <2>1. UNCHANGED <<cluster, pc, copy>>
      BY <1>11, AsideEffect DEF vars, sync
    <2> QED BY <1>1, <2>1 DEF CarriedInv
  <1> QED BY <1>2, <1>3, <1>4, <1>5, <1>6, <1>7, <1>8, <1>9, <1>10, <1>11, StepCases

LEMMA CarriedInvariant ==
  ASSUME ComparableVersions
  PROVE  Spec => []CarriedInv
  <1>1. TypeOK /\ CarriedInv /\ [Next]_vars => CarriedInv'
    BY CarriedNext
  <1> QED BY <1>1, CarriedInit, TypeCorrect, PTL DEF Spec

\* Through any series of edits, each accepted on its own, of upgrades, faults
\* and rollouts in progress: no pod's volume shrinks or moves, and no pod's
\* version falls.
THEOREM PodsDoNotStepBack ==
  ASSUME ComparableVersions
  PROVE  Spec => PodsNeverStepBack
  <1> DEFINE Kept == \A x \in CRs : \A p \in PodsOf(x) : pods[p] # None =>
               /\ pods'[p] # None
               /\ LET was == Component(x, pods[p]) is == Component(x, pods'[p])
                  IN /\ is.size >= was.size /\ is.class = was.class
                     /\ AtLeast(is.image, was.image)
  <1>1. ASSUME TypeOK, CarriedInv, [Next]_vars PROVE Kept
    <2> SUFFICES ASSUME NEW x \in CRs, NEW p \in PodsOf(x), pods[p] # None
                 PROVE  pods'[p] # None /\ NotBack(Component(x, pods[p]),
                                                   Component(x, pods'[p]))
      BY DEF NotBack
    <2>1. Component(x, pods[p]) \in SettingsOf(x)
      BY <1>1, ComponentIsSetting DEF TypeOK, ClusterOK
    <2>2. CASE pods'[p] = pods[p]
      BY <2>1, <2>2, NotBackIsOrder
    <2>3. ASSUME NEW y \in CRs, NEW q \in PodsOf(y), Roll(y, q), pods'[p] # pods[p]
          PROVE  pods'[p] # None /\ NotBack(Component(x, pods[p]),
                                            Component(x, pods'[p]))
      <3>1. /\ work[y].spec # None /\ pods'[q] = work[y].spec
            /\ \A z \in CRs : \A r \in PodsOf(z) : r # q => pods'[r] = pods[r]
            /\ \A z \in CRs \ {y} : \A r \in PodsOf(z) : pods'[r] = pods[r]
        BY <1>1, <2>3, RollEffect
      <3>2. x = y /\ p = q
        BY <2>3, <3>1
      <3> QED BY <1>1, <3>1, <3>2 DEF CarriedInv
    <2>4. CASE ~\E y \in CRs : \E q \in PodsOf(y) : Roll(y, q)
      <3>1. UNCHANGED pods
        BY <1>1, <2>4, StepCases, AfterPlanEffect, EndsEffect, AsideEffect
           DEF StartSync, Plan, Edit, Apply, PickUp, Finish, Abort, Resync, vars, cluster
      <3> QED BY <2>2, <3>1
    <2> QED BY <2>2, <2>3, <2>4
  <1>2. TypeOK /\ CarriedInv /\ [Next]_vars => [Kept]_vars
    BY <1>1
  <1> QED BY <1>2, TypeCorrect, CarriedInvariant, PTL DEF Spec, PodsNeverStepBack

-----------------------------------------------------------------------------
(* Validate does not refuse what it accepted. *)

\* From one setting to another without stepping back, growing only volumes
\* that can.
MayBecome(was, is) ==
  NotBack(was, is) /\ (is.size > was.size => was.class \in Expandable)

\* Each edit asks for something its Instance may become.
LegalEdits ==
  \A e \in Edits : \A x \in CRs :
    Uses(x, e[1]) => MayBecome(Wanted(x, e[1]), Wanted(x, e[2]))

LEMMA MayBecomeIsOrder ==
  ASSUME NEW x \in CRs, NEW c \in SettingsOf(x), NEW d \in SettingsOf(x),
         NEW e \in SettingsOf(x)
  PROVE  /\ MayBecome(c, c)
         /\ MayBecome(c, d) /\ MayBecome(d, e) => MayBecome(c, e)
  <1>1. c.size \in Nat /\ d.size \in Nat /\ e.size \in Nat
    BY SettingsAssumption DEF SettingsOf
  <1>2. /\ NotBack(c, c)
        /\ NotBack(c, d) /\ NotBack(d, e) => NotBack(c, e)
    BY NotBackIsOrder
  <1> QED BY <1>1, <1>2 DEF MayBecome, NotBack

\* The deployed CRs may become what the reconcile was handed, that may become
\* what is stored, and a standalone ClickHouse has no Keeper.
AcceptedInv ==
  /\ \A x \in CRs :
       /\ cr[x] # None => MayBecome(Component(x, cr[x].spec), Wanted(x, inst))
       /\ copy # None /\ Uses(x, copy.inst) =>
            MayBecome(Wanted(x, copy.inst), Wanted(x, inst))
  /\ ~Replicated(inst) /\ cr["chi"] # None => cr["chi"].spec.port = NoKeeper

\* What is deployed and what a pod has are of one StorageClass, so Validate
\* accepts the Instance.
LEMMA AcceptedIsValid ==
  ASSUME ComparableVersions, TypeOK, TopologyInv, CarriedInv, AcceptedInv
  PROVE  Valid(inst)
  <1>1. ~Replicated(inst) /\ cr["chi"] # None =>
          cr["chi"].spec.port = NoKeeper /\ cr["chk"] = None
    BY DEF AcceptedInv, TopologyInv
  <1>2. ASSUME NEW x \in CRs, cr[x] # None
        PROVE  Transition(Component(x, cr[x].spec), Wanted(x, inst), VolumesExpand(x))
    <2> DEFINE was == Component(x, cr[x].spec)
               is == Wanted(x, inst)
    <2>1. was \in SettingsOf(x) /\ is \in SettingsOf(x)
      BY <1>2, ComponentIsSetting DEF TypeOK, InstanceOK, ClusterOK, Installations
    <2>2. MayBecome(was, is)
      BY <1>2 DEF AcceptedInv
    <2>3. \A p \in PodsOf(x) : pods[p] # None => Component(x, pods[p]).class = was.class
      BY DEF CarriedInv, NotBack
    <2>4. is.size > was.size => VolumesExpand(x)
      BY <2>2, <2>3 DEF MayBecome, VolumesExpand
    <2> HIDE DEF was, is
    <2>5. Transition(was, is, TRUE)
      BY <2>1, <2>2, TransitionIsNotBack DEF MayBecome
    <2>6. Transition(was, is, VolumesExpand(x))
      BY <2>4, <2>5 DEF Transition, StorageTransition
    <2> QED BY <2>6 DEF was, is
  <1>3. \A x \in CRs : Takes(x, inst)
    BY <1>2 DEF Takes, Wanted
  <1> QED BY <1>1, <1>3 DEF Valid

LEMMA AcceptedInit == Init => AcceptedInv
  <1> SUFFICES ASSUME Init PROVE AcceptedInv
    OBVIOUS
  <1>0. TypeOK /\ copy = None /\ inst \in Inputs
    BY TypeInit DEF Init, Fresh
  <1>1. CASE New
    BY <1>0, <1>1 DEF New, AcceptedInv
  <1>2. ASSUME NEW spec \in SpecPairs, NEW stamped \in BOOLEAN, Running(spec, stamped),
               \A x \in CRs : spec[x] # None => Component(x, spec[x]) = Wanted(x, inst),
               ~Replicated(inst) => spec["chi"].port = NoKeeper
        PROVE  AcceptedInv
    <2>1. \A x \in CRs : /\ spec[x] = None => cr[x] = None
                         /\ spec[x] # None => cr[x].spec = spec[x]
      BY <1>2, RunningCluster
    <2>2. \A x \in CRs : MayBecome(Wanted(x, inst), Wanted(x, inst))
      BY <1>0, ComponentIsSetting, MayBecomeIsOrder
    <2> QED BY <1>0, <1>2, <2>1, <2>2 DEF AcceptedInv
  <1>3. ASSUME NEW r \in Releases, NEW w \in Wirings
        PROVE  /\ \A x \in CRs : Renders(r, w)[x] # None =>
                    Component(x, Renders(r, w)[x]) = Wanted(x, inst)
               /\ ~Replicated(inst) => Renders(r, w)["chi"].port = NoKeeper
    BY DEF Renders, RenderCHK, RenderCHI, Component, Wanted
  <1>4. ASSUME NEW r \in Releases, Steady(r) PROVE AcceptedInv
    <2>1. Settled(inst) \in Wirings
      BY <1>0 DEF Settled, Wirings, Inputs, Ports, KeeperPort, KeeperSecurePort,
         KeeperReference, NoKeeper
    <2> QED BY <1>0, <1>2, <1>3, <1>4, <2>1, RendersTypes DEF Steady
  <1>5. ASSUME NEW recorded \in BOOLEAN, TakenOver(recorded) PROVE AcceptedInv
    <2>1. 1 \in Releases /\ PlaintextKeeper \in Wirings
      BY <1>5, LayoutAssumption DEF TakenOver, Releases, PlaintextKeeper, Wirings,
         Ports, KeeperPort, KeeperSecurePort, KeeperReference, NoKeeper
    <2> DEFINE s == Renders(1, PlaintextKeeper)
    <2>2. /\ RenderedBefore = [s EXCEPT !["chi"] = [s["chi"] EXCEPT !.required = FALSE]]
          /\ DOMAIN s = CRs /\ s["chi"] = RenderCHI(1, inst, PlaintextKeeper)
      BY DEF RenderedBefore, Renders
    <2>3. s["chi"] \in CHISpecs /\ s["chi"] # None
      BY <1>0, <2>1, <2>2, RenderTypes, NoneAssumption
    <2>4. /\ \A x \in CRs : s[x] # None => Component(x, s[x]) = Wanted(x, inst)
          /\ ~Replicated(inst) => s["chi"].port = NoKeeper
      BY <1>3, <2>1
    <2> HIDE DEF s
    <2>5. /\ RenderedBefore["chk"] = s["chk"]
          /\ RenderedBefore["chi"].engine = s["chi"].engine
          /\ RenderedBefore["chi"].port = s["chi"].port
      BY <2>2, <2>3 DEF CHISpecs
    <2>6. \A x \in CRs : RenderedBefore[x] # None =>
            Component(x, RenderedBefore[x]) = Wanted(x, inst)
      BY <2>3, <2>4, <2>5 DEF Component
    <2>7. RenderedBefore \in SpecPairs /\ Running(RenderedBefore, FALSE)
      BY <1>0, <1>5, <2>1, RendersTypes DEF TakenOver
    <2> QED BY <1>2, <2>4, <2>5, <2>6, <2>7
  <1>6. 1 \in Releases /\ LastRelease \in Releases
    BY LayoutAssumption DEF Releases
  <1> QED BY <1>1, <1>4, <1>5, <1>6 DEF Init

LEMMA AcceptedNext ==
  ASSUME LegalEdits, KeepsReplicated, TypeOK, TopologyInv, CarriedInv, AcceptedInv,
         [Next]_vars
  PROVE  AcceptedInv'
  <1>0. \A x \in CRs : Wanted(x, inst) \in SettingsOf(x)
    BY ComponentIsSetting DEF TypeOK, InstanceOK
  <1>1. ASSUME UNCHANGED inst, copy' = None \/ UNCHANGED copy,
               \A x \in CRs : /\ cr'[x] # None <=> cr[x] # None
                              /\ cr[x] # None => cr'[x].spec = cr[x].spec
        PROVE  AcceptedInv'
    BY <1>1 DEF AcceptedInv
  <1>2. CASE StartSync
    <2>1. UNCHANGED <<inst, cr>> /\ copy'.inst = inst
      BY <1>2 DEF StartSync, instance, cluster
    <2>2. \A x \in CRs : MayBecome(Wanted(x, inst), Wanted(x, inst))
      BY <1>0, MayBecomeIsOrder
    <2> QED BY <2>1, <2>2 DEF AcceptedInv
  <1>3. CASE Edit
    <2>1. Replicated(inst) => Replicated(inst')
      BY <1>3 DEF Edit, KeepsReplicated
    <2>2. UNCHANGED <<cr, copy>> /\ inst' \in Inputs
      BY <1>3, InputsAssumption DEF Edit, cluster
    <2>3. \A x \in CRs : Uses(x, inst) => MayBecome(Wanted(x, inst), Wanted(x, inst'))
      BY <1>3 DEF Edit, LegalEdits
    <2>4. \A x \in CRs : /\ cr[x] # None => Uses(x, inst)
                         /\ copy # None /\ Uses(x, copy.inst) => Uses(x, inst)
      BY DEF TopologyInv, Uses
    <2>5. \A x \in CRs :
            /\ Wanted(x, inst') \in SettingsOf(x)
            /\ cr[x] # None => Component(x, cr[x].spec) \in SettingsOf(x)
            /\ copy # None => Wanted(x, copy.inst) \in SettingsOf(x)
      BY <2>2, ComponentIsSetting
         DEF TypeOK, SyncOK, Copies, ClusterOK, Installations
    <2>6. \A x \in CRs :
            /\ cr[x] # None => MayBecome(Component(x, cr[x].spec), Wanted(x, inst'))
            /\ copy # None /\ Uses(x, copy.inst) =>
                 MayBecome(Wanted(x, copy.inst), Wanted(x, inst'))
      BY <1>0, <2>3, <2>4, <2>5, MayBecomeIsOrder DEF AcceptedInv
    <2> QED BY <2>1, <2>2, <2>6 DEF AcceptedInv
  <1>4. ASSUME NEW x \in CRs, Apply(x) PROVE AcceptedInv'
    <2>1. /\ UNCHANGED <<inst, copy>> /\ copy # None
          /\ pc = At(x, "applyCHK", "applyCHI")
          /\ cr'[x].spec = Desired(x)
          /\ \A y \in CRs \ {x} : cr'[y] = cr[y]
      BY <1>4, ApplyEffect
    <2>2. Uses(x, copy.inst)
      BY <2>1 DEF CarriedInv, Uses, At
    <2>3. Component(x, cr'[x].spec) = Wanted(x, copy.inst)
      BY <2>1, ComponentIsSetting
    <2>4. ~Replicated(inst) /\ x = "chi" => cr'["chi"].spec.port = NoKeeper
      BY <2>1 DEF TopologyInv, Desired, RenderCHI
    <2>5. \A y \in CRs : cr'[y] # None =>
            MayBecome(Component(y, cr'[y].spec), Wanted(y, inst))
      BY <2>1, <2>2, <2>3 DEF AcceptedInv
    <2>6. ~Replicated(inst) /\ cr'["chi"] # None => cr'["chi"].spec.port = NoKeeper
      BY <2>1, <2>4 DEF AcceptedInv
    <2> QED BY <2>1, <2>5, <2>6 DEF AcceptedInv
  <1>5. ASSUME NEW x \in CRs, PickUp(x) \/ Finish(x) \/ Abort(x) \/ Resync(x)
        PROVE  AcceptedInv'
    BY <1>1, <1>5, PickUpEffect, ReportEffect DEF instance, sync
  <1>6. CASE \E x \in CRs : \E p \in PodsOf(x) : Roll(x, p)
    BY <1>1, <1>6 DEF Roll, instance, sync
  <1>7. CASE Plan \/ AfterPlan \/ Ends \/ Aside \/ UNCHANGED vars
    BY <1>1, <1>7, AfterPlanEffect, EndsEffect, AsideEffect
       DEF Plan, EndSync, vars, instance, sync, cluster
  <1> QED BY <1>2, <1>3, <1>4, <1>5, <1>6, <1>7, StepCases

\* An Instance edited step by step, each step legal by itself, is accepted at
\* every moment: rollouts in progress, changes held for an approval, faults and
\* edits in the middle of a reconcile make Validate refuse none of it.
THEOREM LegalEditsAreAccepted ==
  ASSUME ComparableVersions, KeepsReplicated, LegalEdits
  PROVE  Spec => []Valid(inst)
  <1>1. TypeOK /\ CertificateInv /\ CarriedInv /\ AcceptedInv => Valid(inst)
    BY AcceptedIsValid DEF CertificateInv
  <1>2. TypeOK /\ CertificateInv /\ CarriedInv /\ AcceptedInv /\ [Next]_vars
          => AcceptedInv'
    BY AcceptedNext DEF CertificateInv
  <1> QED BY <1>1, <1>2, AcceptedInit, TypeCorrect, CertificateInvariant,
     CarriedInvariant, PTL DEF Spec

\* So nothing accepted is refused later.
THEOREM AcceptedIsNotRefused ==
  ASSUME ComparableVersions, KeepsReplicated, LegalEdits
  PROVE  Spec => AcceptedStaysAccepted
  <1>1. Valid(inst)' => [Valid(inst) /\ inst' = inst => Valid(inst)']_vars
    OBVIOUS
  <1>2. Spec => []Valid(inst)
    BY LegalEditsAreAccepted
  <1> QED BY <1>1, <1>2, PTL DEF AcceptedStaysAccepted

\* A reconcile does not make the Instance it was handed one that Validate
\* refuses, nor does the operator meanwhile or between reconciles.
SyncedStaysAccepted ==
  [][Valid(inst) /\ inst' = inst /\ (copy # None => copy.inst = inst)
       => Valid(inst)']_vars

\* Every StorageClass in use allows expansion.
VolumesCanGrow == \A x \in CRs : \A c \in SettingsOf(x) : c.class \in Expandable

\* That is so for edits in any direction, also those Validate refuses, unless
\* a volume appears that cannot grow as the Instance asks.
THEOREM SyncingKeepsAccepted ==
  ASSUME VolumesCanGrow, KeepsReplicated
  PROVE  Spec => SyncedStaysAccepted
  <1>1. ASSUME TypeOK PROVE \A x \in CRs : VolumesExpand(x)
    <2>1. \A x \in CRs : \A p \in PodsOf(x) :
            pods[p] # None => Component(x, pods[p]) \in SettingsOf(x)
      BY <1>1, ComponentIsSetting DEF TypeOK, ClusterOK
    <2> QED BY <2>1 DEF VolumesExpand, VolumesCanGrow
  <1>2. ASSUME TypeOK' PROVE \A x \in CRs : VolumesExpand(x)'
    <2>1. \A x \in CRs : \A p \in PodsOf(x) :
            pods'[p] # None => Component(x, pods'[p]) \in SettingsOf(x)
      BY <1>2, ComponentIsSetting DEF TypeOK, ClusterOK
    <2> QED BY <2>1 DEF VolumesExpand, VolumesCanGrow
  <1>3. ASSUME TypeOK, TypeOK', TopologyInv, [Next]_vars,
               Valid(inst), inst' = inst, copy # None => copy.inst = inst
        PROVE  Valid(inst)'
    <2>1. \A x \in CRs : Uses(x, inst) /\ cr[x] # None =>
            Transition(Component(x, cr[x].spec), Wanted(x, inst), TRUE)
      BY <1>1, <1>3 DEF Valid, Takes, Uses, Wanted, Transition, StorageTransition
    <2>2. ASSUME \A x \in CRs : Uses(x, inst) /\ cr'[x] # None =>
                   Transition(Component(x, cr'[x].spec), Wanted(x, inst), TRUE),
                 ~Replicated(inst) /\ cr'["chi"] # None =>
                   cr'["chi"].spec.port = NoKeeper /\ cr'["chk"] = None
          PROVE  Valid(inst)'
      <3>1. \A x \in CRs : Uses(x, inst) => Takes(x, inst)'
        BY <1>2, <1>3, <2>2 DEF Takes, Wanted, Transition, StorageTransition
      <3> QED BY <1>3, <2>2, <3>1 DEF Valid, Uses
    <2>3. ASSUME \A x \in CRs : /\ cr'[x] # None <=> cr[x] # None
                                /\ cr[x] # None => cr'[x].spec = cr[x].spec
          PROVE  Valid(inst)'
      BY <1>3, <2>1, <2>2, <2>3 DEF Valid
    <2>4. ASSUME NEW x \in CRs, Apply(x) PROVE Valid(inst)'
      <3>1. /\ copy # None /\ copy.inst = inst
            /\ pc = At(x, "applyCHK", "applyCHI")
            /\ cr'[x] # None /\ cr'[x].spec = Desired(x)
            /\ \A y \in CRs \ {x} : cr'[y] = cr[y]
        BY <1>3, <2>4, ApplyEffect
      <3>2. Component(x, cr'[x].spec) = Wanted(x, inst)
        BY <3>1, ComponentIsSetting
      <3>3. Transition(Wanted(x, inst), Wanted(x, inst), TRUE)
        <4>1. Wanted(x, inst) \in SettingsOf(x)
          BY <1>3, ComponentIsSetting DEF TypeOK, InstanceOK
        <4>2. /\ Wanted(x, inst).size \in Nat /\ Wanted(x, inst).image \in Seq(Nat)
          BY <4>1, SettingsAssumption DEF SettingsOf
        <4>3. ~Older(Wanted(x, inst).image, Wanted(x, inst).image)
          <5>1. \A i \in 1 .. Precision(Wanted(x, inst).image) :
                  Segment(Wanted(x, inst).image, i) \in Nat
            BY <4>2 DEF Segment, Precision
          <5> QED BY <5>1 DEF Older
        <4> QED BY <4>2, <4>3 DEF Transition, StorageTransition, VersionTransition
      <3>4. ~Replicated(inst) =>
              x = "chi" /\ cr'["chi"].spec.port = NoKeeper /\ cr'["chk"] = None
        BY <1>3, <3>1 DEF TopologyInv, At, Desired, RenderCHI
      <3> QED BY <2>1, <2>2, <3>1, <3>2, <3>3, <3>4
    <2>5. CASE \E x \in CRs : PickUp(x) \/ Finish(x) \/ Abort(x) \/ Resync(x)
      BY <1>3, <2>3, <2>5, PickUpEffect, ReportEffect
    <2>6. CASE ~\E x \in CRs : \/ Apply(x) \/ PickUp(x)
                               \/ Finish(x) \/ Abort(x) \/ Resync(x)
      <3>1. UNCHANGED cr
        BY <1>3, <2>6, StepCases, AfterPlanEffect, EndsEffect, AsideEffect
           DEF StartSync, Plan, Edit, Roll, vars, cluster
      <3> QED BY <2>3, <3>1
    <2> QED BY <2>4, <2>5, <2>6
  <1>4. TypeOK /\ TypeOK' /\ CertificateInv /\ [Next]_vars =>
          [Valid(inst) /\ inst' = inst /\ (copy # None => copy.inst = inst)
             => Valid(inst)']_vars
    BY <1>3 DEF CertificateInv
  <1> QED BY <1>4, TypeCorrect, CertificateInvariant, PTL DEF Spec, SyncedStaysAccepted
-----------------------------------------------------------------------------
(***************************************************************************)
(* Without TLS between ClickHouse and Keeper, whose ports then never       *)
(* change, a reconcile renders nothing but the release and the Instance.   *)
(***************************************************************************)
\* A Keeper is not secured: TLS is for standalone Instances.
KeeperIsPlain ==
  /\ \A s \in Starts : Replicated(s[2]) => ~s[2].tls
  /\ \A e \in Edits : Replicated(e[2]) => ~e[2].tls

RenderPlain(x, r, in) ==
  IF x = "chk" THEN RenderCHK(r, in, PlaintextKeeper) ELSE RenderCHI(r, in, PlaintextKeeper)

\* Its fields, one by one.
LEMMA RenderPlainFields ==
  ASSUME NEW r, NEW in \in Inputs
  PROVE  /\ RenderPlain("chk", r, in).layout = Layout[r]["chk"]
         /\ RenderPlain("chk", r, in).keeper = in.keeper
         /\ ~RenderPlain("chk", r, in).secure /\ RenderPlain("chk", r, in).plaintext
         /\ RenderPlain("chi", r, in).layout = Layout[r]["chi"]
         /\ RenderPlain("chi", r, in).engine = in.engine
         /\ RenderPlain("chi", r, in).tls = in.tls
         /\ RenderPlain("chi", r, in).port
              = IF Replicated(in) THEN KeeperReference ELSE NoKeeper
         /\ RenderPlain("chi", r, in).required <=>
              in.tls /\ Settings["chi"][in.engine].mode = "required"
         /\ r \in Releases =>
              \A x \in CRs : RenderPlain(x, r, in) \in Specs(x)
  <1>1. /\ PlaintextKeeper \in Wirings
        /\ ~PlaintextKeeper.secure /\ PlaintextKeeper.plaintext
        /\ PlaintextKeeper.port = KeeperReference
    BY DEF PlaintextKeeper, Wirings, Ports, KeeperPort, KeeperSecurePort,
       KeeperReference, NoKeeper
  <1>2. /\ RenderPlain("chk", r, in).layout = Layout[r]["chk"]
        /\ RenderPlain("chk", r, in).keeper = in.keeper
        /\ RenderPlain("chk", r, in).secure = PlaintextKeeper.secure
        /\ RenderPlain("chk", r, in).plaintext = PlaintextKeeper.plaintext
    BY DEF RenderPlain, RenderCHK
  <1>3. /\ RenderPlain("chi", r, in).layout = Layout[r]["chi"]
        /\ RenderPlain("chi", r, in).engine = in.engine
        /\ RenderPlain("chi", r, in).tls = in.tls
        /\ RenderPlain("chi", r, in).required = TLSRequired(in)
        /\ RenderPlain("chi", r, in).port
             = IF Replicated(in) THEN PlaintextKeeper.port ELSE NoKeeper
    BY DEF RenderPlain, RenderCHI
  <1>4. TLSRequired(in) <=> in.tls /\ Settings["chi"][in.engine].mode = "required"
    BY Zenon DEF TLSRequired
  <1>5. r \in Releases => \A x \in CRs : RenderPlain(x, r, in) \in Specs(x)
    BY <1>1, RenderTypes DEF RenderPlain, Specs
  <1> QED BY <1>1, <1>2, <1>3, <1>4, <1>5

\* What a running cluster starts with, of this provider or of an earlier one.
LEMMA PlainStart ==
  ASSUME KeeperIsPlain, Init
  PROVE  /\ Replicated(inst) => ~inst.tls
         /\ \A r \in Releases : Steady(r) =>
              /\ Running(Renders(r, PlaintextKeeper), TRUE)
              /\ record.spec = Renders(r, PlaintextKeeper)
              /\ record.target = Token(r, inst, PlaintextKeeper)
         /\ \A r \in Releases :
              /\ Renders(r, PlaintextKeeper) \in SpecPairs
              /\ \A x \in CRs : Renders(r, PlaintextKeeper)[x]
                   = IF Uses(x, inst) THEN RenderPlain(x, r, inst) ELSE None
         /\ \A recorded \in BOOLEAN : TakenOver(recorded) =>
              /\ RenderedBefore \in SpecPairs /\ Running(RenderedBefore, FALSE)
              /\ recorded => record.spec = RenderedBefore
              /\ 1 \in Releases /\ 2 \in Releases /\ release = 2
              /\ RenderedBefore["chk"] = Renders(1, PlaintextKeeper)["chk"]
              /\ RenderedBefore["chi"]
                   = [RenderPlain("chi", 1, inst) EXCEPT !.required = FALSE]
  <1>0. inst \in Inputs /\ inst.tls \in BOOLEAN /\ PlaintextKeeper \in Wirings
    BY DEF Init, Inputs, PlaintextKeeper, Wirings, Ports, KeeperPort, KeeperSecurePort,
       KeeperReference, NoKeeper
  <1>1. Replicated(inst) => ~inst.tls
    BY DEF Init, KeeperIsPlain
  <1>2. Replicated(inst) => Settled(inst) = PlaintextKeeper
    BY <1>0, <1>1 DEF Settled, PlaintextKeeper
  <1>3. ASSUME NEW r \in Releases
        PROVE  /\ Renders(r, Settled(inst)) = Renders(r, PlaintextKeeper)
               /\ Token(r, inst, Settled(inst)) = Token(r, inst, PlaintextKeeper)
    <2>1. CASE Replicated(inst)
      BY <1>2, <2>1
    <2>2. CASE ~Replicated(inst)
      BY <2>2 DEF Renders, Token, RenderCHI
    <2> QED BY <2>1, <2>2
  <1>4. \A r \in Releases :
          /\ Renders(r, PlaintextKeeper) \in SpecPairs
          /\ \A x \in CRs : Renders(r, PlaintextKeeper)[x]
               = IF Uses(x, inst) THEN RenderPlain(x, r, inst) ELSE None
    BY <1>0, RendersTypes DEF Renders, Uses, RenderPlain
  <1>5. ASSUME NEW r \in Releases, Steady(r)
        PROVE  /\ Running(Renders(r, PlaintextKeeper), TRUE)
               /\ record.spec = Renders(r, PlaintextKeeper)
               /\ record.target = Token(r, inst, PlaintextKeeper)
    BY <1>3, <1>5 DEF Steady
  <1>6. ASSUME NEW recorded \in BOOLEAN, TakenOver(recorded)
        PROVE  /\ RenderedBefore \in SpecPairs /\ Running(RenderedBefore, FALSE)
               /\ recorded => record.spec = RenderedBefore
               /\ 1 \in Releases /\ 2 \in Releases /\ release = 2
               /\ RenderedBefore["chk"] = Renders(1, PlaintextKeeper)["chk"]
               /\ RenderedBefore["chi"]
                    = [RenderPlain("chi", 1, inst) EXCEPT !.required = FALSE]
    <2>1. 1 \in Releases /\ 2 \in Releases /\ release = 2
      BY <1>6, LayoutAssumption DEF TakenOver, Releases
    <2>2. RenderedBefore \in SpecPairs
      BY <1>0, <2>1, RendersTypes
    <2>3. /\ RenderedBefore["chk"] = Renders(1, PlaintextKeeper)["chk"]
          /\ RenderedBefore["chi"]
               = [RenderPlain("chi", 1, inst) EXCEPT !.required = FALSE]
      BY DEF RenderedBefore, Renders, RenderPlain
    <2> QED BY <1>6, <2>1, <2>2, <2>3 DEF TakenOver, EmptyRecord
  <1> QED BY <1>1, <1>4, <1>5, <1>6

\* Keeper's only port is the plaintext one, now and in what is planned.
PlainInv ==
  /\ Replicated(inst) => ~inst.tls
  /\ copy # None /\ Replicated(copy.inst) => ~copy.inst.tls
  /\ cr["chk"] # None => ~cr["chk"].spec.secure /\ cr["chk"].spec.plaintext
  /\ cr["chi"] # None => cr["chi"].spec.port \in {NoKeeper, KeeperReference}
  /\ plan # None =>
       /\ copy # None
       /\ Replicated(copy.inst) => plan.step = PlaintextKeeper
       /\ plan.token = Token(release, copy.inst, PlaintextKeeper)
  /\ pc = "applyCHK" => Replicated(copy.inst)

LEMMA PlainInit ==
  ASSUME KeeperIsPlain, Init
  PROVE  PlainInv
  <1>0. /\ TypeOK /\ pc = "idle" /\ copy = None /\ plan = None
        /\ inst \in Inputs /\ inst.tls \in BOOLEAN
        /\ Replicated(inst) => ~inst.tls
    BY TypeInit, PlainStart DEF Init, Fresh, Inputs
  <1>1. CASE New
    BY <1>0, <1>1 DEF New, PlainInv
  <1>2. ASSUME NEW spec \in SpecPairs, NEW stamped \in BOOLEAN, Running(spec, stamped),
               spec["chk"] # None => ~spec["chk"].secure /\ spec["chk"].plaintext,
               spec["chi"].port \in {NoKeeper, KeeperReference}
        PROVE  PlainInv
    BY <1>0, <1>2, RunningCluster DEF PlainInv
  <1>3. \A r \in Releases :
          /\ Renders(r, PlaintextKeeper)["chk"] # None =>
               /\ ~Renders(r, PlaintextKeeper)["chk"].secure
               /\ Renders(r, PlaintextKeeper)["chk"].plaintext
          /\ Renders(r, PlaintextKeeper)["chi"].port \in {NoKeeper, KeeperReference}
    BY <1>0, PlainStart, RenderPlainFields DEF Uses
  <1>4. ASSUME NEW r \in Releases, Steady(r) PROVE PlainInv
    BY <1>2, <1>3, <1>4, PlainStart
  <1>5. ASSUME NEW recorded \in BOOLEAN, TakenOver(recorded) PROVE PlainInv
    <2>1. /\ RenderedBefore \in SpecPairs /\ Running(RenderedBefore, FALSE)
          /\ 1 \in Releases
          /\ RenderedBefore["chk"] = Renders(1, PlaintextKeeper)["chk"]
          /\ RenderedBefore["chi"] = [RenderPlain("chi", 1, inst) EXCEPT !.required = FALSE]
      BY <1>5, PlainStart
    <2>2. RenderPlain("chi", 1, inst) \in CHISpecs
      BY <1>0, <2>1, RenderPlainFields DEF Specs
    <2>3. RenderedBefore["chi"].port = RenderPlain("chi", 1, inst).port
      BY <2>1, <2>2 DEF CHISpecs
    <2>4. RenderedBefore["chi"].port \in {NoKeeper, KeeperReference}
      BY <1>0, <2>3, RenderPlainFields
    <2>5. RenderedBefore["chk"] # None =>
            ~RenderedBefore["chk"].secure /\ RenderedBefore["chk"].plaintext
      BY <1>3, <2>1
    <2> QED BY <1>2, <2>1, <2>4, <2>5
  <1>6. 1 \in Releases /\ LastRelease \in Releases
    BY LayoutAssumption DEF Releases
  <1> QED BY <1>1, <1>4, <1>5, <1>6 DEF Init

\* Without TLS a plan leaves Keeper as it is.
LEMMA PlainStep ==
  ASSUME TypeOK, PlainInv, copy # None
  PROVE  /\ Replicated(copy.inst) =>
              /\ StepWiring(copy.inst.tls, LiveKeeperState) = PlaintextKeeper
              /\ TargetWiring(copy.inst.tls, LiveKeeperState) = PlaintextKeeper
         /\ Token(release, copy.inst, TargetWiring(copy.inst.tls, LiveKeeperState))
              = Token(release, copy.inst, PlaintextKeeper)
  <1> DEFINE s == LiveKeeperState
  <1>1. copy.inst.tls \in BOOLEAN /\ s \in KeeperStates
    BY LiveKeeperStateType DEF TypeOK, SyncOK, Copies, Inputs
  <1>2. /\ s.chiPort = IF cr["chi"] # None THEN cr["chi"].spec.port ELSE NoKeeper
        /\ s.chkSecure <=> cr["chk"] # None /\ cr["chk"].spec.secure
    BY Zenon DEF LiveKeeperState
  <1>3. s.chiPort \in {NoKeeper, KeeperReference} /\ ~s.chkSecure
    BY <1>2 DEF PlainInv
  <1> HIDE DEF s
  <1>4. ~UsesSecure(FALSE, s)
    <2>1. s.chiPort # KeeperSecurePort
      BY <1>3 DEF NoKeeper, KeeperReference, KeeperSecurePort
    <2> QED BY <1>3, <2>1, Zenon DEF UsesSecure
  <1>5. /\ StepPort(FALSE, s) = KeeperReference
        /\ TargetWiring(FALSE, s) = PlaintextKeeper
    <2>1. (IF s.chiPort > 0 \/ s.chkSecure THEN KeeperPort ELSE KeeperReference)
            = KeeperReference
      BY <1>3 DEF NoKeeper, KeeperReference
    <2>2. TargetWiring(FALSE, s)
            = [secure |-> FALSE, plaintext |-> TRUE, port |-> KeeperReference]
      BY <2>1 DEF TargetWiring
    <2>3. TargetWiring(FALSE, s).port = KeeperReference
      BY <2>1 DEF TargetWiring
    <2>4. ~MovesPort(FALSE, s) => s.chiPort = KeeperReference
      BY <1>3 DEF MovesPort, NoKeeper, KeeperReference
    <2> QED BY <2>2, <2>3, <2>4 DEF StepPort, PlaintextKeeper
  <1>6. StepWiring(FALSE, s) = PlaintextKeeper
    <2>1. (FALSE \/ UsesSecure(FALSE, s)) = FALSE
      BY <1>4
    <2> QED BY <1>5, <2>1 DEF StepWiring, PlaintextKeeper
  <1>7. CASE Replicated(copy.inst)
    <2>1. copy.inst.tls = FALSE
      BY <1>1, <1>7 DEF PlainInv
    <2> QED BY <1>5, <1>6, <2>1 DEF s
  <1>8. CASE ~Replicated(copy.inst)
    BY <1>8 DEF Token, RenderCHI
  <1> QED BY <1>7, <1>8

\* So what a reconcile applies is RenderPlain.
LEMMA DesiredIsPlain ==
  ASSUME PlainInv, plan # None, NEW x \in CRs, Uses(x, copy.inst)
  PROVE  Desired(x) = RenderPlain(x, release, copy.inst)
  <1>1. CASE x = "chk"
    BY <1>1 DEF PlainInv, Uses, Desired, RenderPlain
  <1>2. CASE x = "chi"
    BY <1>2 DEF PlainInv, Desired, RenderPlain, RenderCHI
  <1> QED BY <1>1, <1>2

LEMMA PlainInvariant ==
  ASSUME KeeperIsPlain
  PROVE  Spec => []PlainInv
  <1>1. ASSUME TypeOK, PlainInv, [Next]_vars PROVE PlainInv'
    <2>1. ASSUME UNCHANGED inst, copy' = None \/ UNCHANGED copy,
                 \A x \in CRs : /\ cr'[x] # None <=> cr[x] # None
                                /\ cr[x] # None => cr'[x].spec = cr[x].spec,
                 plan' # None => /\ plan # None /\ UNCHANGED <<release, copy>>
                                 /\ plan'.step = plan.step /\ plan'.token = plan.token,
                 pc' = "applyCHK" => pc = "applyCHK" /\ UNCHANGED copy
          PROVE  PlainInv'
      BY <1>1, <2>1 DEF PlainInv
    <2>2. CASE StartSync
      <3>1. /\ UNCHANGED <<inst, cr, plan>> /\ copy'.inst = inst
            /\ pc = "idle" /\ pc' # "applyCHK"
        BY <2>2 DEF StartSync, instance, cluster
      <3>2. plan = None
        BY <1>1, <3>1 DEF TypeOK, SyncOK, PlainInv
      <3> QED BY <1>1, <3>1, <3>2 DEF PlainInv
    <2>3. CASE Plan
      <3>1. /\ UNCHANGED <<inst, release, cr, copy>> /\ pc = "plan"
            /\ plan'.step = StepWiring(copy.inst.tls, LiveKeeperState)
            /\ plan'.token
                 = Token(release, copy.inst, TargetWiring(copy.inst.tls, LiveKeeperState))
            /\ pc' = "applyCHK" => Replicated(copy.inst)
        BY <2>3 DEF Plan, instance, cluster
      <3>2. copy # None
        BY <1>1, <3>1 DEF TypeOK, SyncOK
      <3>3. /\ Replicated(copy.inst) => plan'.step = PlaintextKeeper
            /\ plan'.token = Token(release, copy.inst, PlaintextKeeper)
        BY <1>1, <3>1, <3>2, PlainStep
      <3> QED BY <1>1, <3>1, <3>2, <3>3 DEF PlainInv
    <2>4. CASE Edit
      <3>1. UNCHANGED <<release, cr, pc, copy, plan>>
        BY <2>4 DEF Edit, cluster
      <3>2. Replicated(inst') => ~inst'.tls
        BY <2>4 DEF Edit, KeeperIsPlain
      <3> QED BY <1>1, <3>1, <3>2 DEF PlainInv
    <2>5. ASSUME NEW x \in CRs, Apply(x) PROVE PlainInv'
      <3>1. /\ UNCHANGED <<inst, release, copy>> /\ copy # None /\ plan # None
            /\ plan'.step = plan.step /\ plan'.token = plan.token
            /\ pc = At(x, "applyCHK", "applyCHI") /\ pc' # "applyCHK"
            /\ cr'[x].spec = Desired(x)
            /\ \A y \in CRs \ {x} : cr'[y] = cr[y]
        BY <1>1, <2>5, ApplyEffect DEF At
      <3>2. Uses(x, copy.inst)
        BY <1>1, <3>1 DEF PlainInv, Uses, At
      <3>3. cr'[x].spec = RenderPlain(x, release, copy.inst) /\ copy.inst \in Inputs
        BY <1>1, <3>1, <3>2, DesiredIsPlain DEF TypeOK, SyncOK, Copies
      <3>4. /\ x = "chk" => ~cr'[x].spec.secure /\ cr'[x].spec.plaintext
            /\ x = "chi" => cr'[x].spec.port \in {NoKeeper, KeeperReference}
        BY <3>3, RenderPlainFields
      <3> QED BY <1>1, <3>1, <3>4 DEF PlainInv
    <2>6. CASE \E x \in CRs : PickUp(x) \/ Finish(x) \/ Abort(x) \/ Resync(x)
      BY <1>1, <2>1, <2>6, PickUpEffect, ReportEffect DEF instance, sync
    <2>7. CASE \E x \in CRs : \E p \in PodsOf(x) : Roll(x, p)
      BY <2>1, <2>7 DEF Roll, instance, sync
    <2>8. CASE AfterPlan
      <3>1. /\ UNCHANGED <<inst, release, cr, copy>> /\ plan # None
            /\ plan'.step = plan.step /\ plan'.token = plan.token /\ pc' # "applyCHK"
        BY <1>1, <2>8, AfterPlanEffect DEF instance, cluster, Applying
      <3> QED BY <2>1, <3>1
    <2>9. CASE Ends
      BY <2>1, <2>9, EndsEffect DEF EndSync, cluster
    <2>10. CASE Aside \/ UNCHANGED vars
      <3>1. UNCHANGED <<inst, release, cr, pc, copy, plan>>
        BY <2>10, AsideEffect DEF vars, instance, sync, cluster
      <3> QED BY <2>1, <3>1
    <2> QED BY <1>1, <2>2, <2>3, <2>4, <2>5, <2>6, <2>7, <2>8, <2>9, <2>10, StepCases
  <1>2. TypeOK /\ PlainInv /\ [Next]_vars => PlainInv'
    BY <1>1
  <1> QED BY <1>2, PlainInit, TypeCorrect, PTL DEF Spec

-----------------------------------------------------------------------------
(***************************************************************************)
(* Ready means rolled out.  The operator's list of completed tasks only    *)
(* grows and a task ID is derived from the rendering, so the report of a   *)
(* CR is to be trusted as long as no rendering recurs: as long as users    *)
(* and releases do not return to what they left, and Keeper's ports do not *)
(* come and go (ReusedTask).  Then what was completed, what the operator   *)
(* picked up and what the CR says come in this order.                      *)
(***************************************************************************)
\* The setting of a component an Instance chooses.
Chosen(x, in) == IF x = "chk" THEN in.keeper ELSE in.engine

\* A value comes no later than another.
NoLater(rank, a, b) == a = b \/ rank[a] < rank[b]

\* Ranks by which later releases render, and later edits choose, later values.
LayoutRanks(x) ==
  {rank \in [Layouts -> Nat] : \A r, s \in Releases :
     r <= s => NoLater(rank, Layout[r][x], Layout[s][x])}
ChoiceRanks(x) ==
  {rank \in [DOMAIN Settings[x] -> Nat] : \A e \in Edits :
     NoLater(rank, Chosen(x, e[1]), Chosen(x, e[2]))}

\* No release, and no series of edits, returns to what was left before.
LayoutsAdvance == \A x \in CRs : LayoutRanks(x) # {}
NothingReturns == LayoutsAdvance /\ \A x \in CRs : ChoiceRanks(x) # {}

LayoutRank(x) == CHOOSE rank \in LayoutRanks(x) : TRUE
ChoiceRank(x) == CHOOSE rank \in ChoiceRanks(x) : TRUE

\* The order of renderings.
Earlier(x, a, b) ==
  /\ NoLater(LayoutRank(x), a.layout, b.layout)
  /\ NoLater(ChoiceRank(x), Chosen(x, a), Chosen(x, b))
  /\ x = "chk" => a.secure = b.secure /\ a.plaintext = b.plaintext
  /\ x = "chi" => /\ a.tls => b.tls
                  /\ a.port <= b.port
                  /\ a.engine = b.engine /\ a.required => b.required

LEMMA NoLaterIsOrder ==
  ASSUME NEW S, NEW rank \in [S -> Nat], NEW u \in S, NEW v \in S, NEW w \in S
  PROVE  /\ NoLater(rank, u, u)
         /\ NoLater(rank, u, v) /\ NoLater(rank, v, w) => NoLater(rank, u, w)
         /\ NoLater(rank, u, v) /\ NoLater(rank, v, u) => u = v
  <1>1. rank[u] \in Nat /\ rank[v] \in Nat /\ rank[w] \in Nat
    OBVIOUS
  <1> QED BY <1>1 DEF NoLater

LEMMA EarlierIsOrder ==
  ASSUME NothingReturns, NEW x \in CRs,
         NEW a \in Specs(x), NEW b \in Specs(x), NEW c \in Specs(x)
  PROVE  /\ Earlier(x, a, a)
         /\ Earlier(x, a, b) /\ Earlier(x, b, c) => Earlier(x, a, c)
         /\ Earlier(x, a, b) /\ Earlier(x, b, a) => a = b
  <1>1. LayoutRank(x) \in [Layouts -> Nat] /\ ChoiceRank(x) \in [DOMAIN Settings[x] -> Nat]
    BY DEF NothingReturns, LayoutsAdvance, LayoutRank, ChoiceRank, LayoutRanks, ChoiceRanks
  <1>3. \A s \in {a, b, c} : s.layout \in Layouts /\ Chosen(x, s) \in DOMAIN Settings[x]
    BY SettingsAssumption DEF Specs, CHKSpecs, CHISpecs, Chosen
  <1> DEFINE L(s, t) == NoLater(LayoutRank(x), s.layout, t.layout)
             C(s, t) == NoLater(ChoiceRank(x), Chosen(x, s), Chosen(x, t))
  <1>4. /\ L(a, a) /\ C(a, a)
        /\ L(a, b) /\ L(b, c) => L(a, c)
        /\ C(a, b) /\ C(b, c) => C(a, c)
        /\ L(a, b) /\ L(b, a) => a.layout = b.layout
        /\ \A s, t \in {a, b, c} : C(s, t) /\ C(t, s) => Chosen(x, s) = Chosen(x, t)
    BY <1>1, <1>3, NoLaterIsOrder
  <1>5. \A s, t : Earlier(x, s, t) <=>
          /\ L(s, t) /\ C(s, t)
          /\ x = "chk" => s.secure = t.secure /\ s.plaintext = t.plaintext
          /\ x = "chi" => /\ s.tls => t.tls
                          /\ s.port <= t.port
                          /\ s.engine = t.engine /\ s.required => t.required
    BY DEF Earlier
  <1> HIDE DEF L, C
  <1>6. CASE x = "chk"
    <2>1. \A s, t \in CHKSpecs : s.layout = t.layout /\ s.keeper = t.keeper
            /\ s.secure = t.secure /\ s.plaintext = t.plaintext => s = t
      BY DEF CHKSpecs
    <2> QED BY <1>4, <1>5, <1>6, <2>1 DEF Specs, Chosen
  <1>7. CASE x = "chi"
    <2>1. \A s \in CHISpecs : /\ s.port \in Int
                              /\ s.tls \in BOOLEAN /\ s.required \in BOOLEAN
      BY DEF CHISpecs, Ports, NoKeeper, KeeperReference, KeeperPort, KeeperSecurePort
    <2>2. \A s, t \in CHISpecs : s.layout = t.layout /\ s.engine = t.engine
            /\ s.tls = t.tls /\ s.required = t.required /\ s.port = t.port => s = t
      BY DEF CHISpecs
    <2>3. a \in CHISpecs /\ b \in CHISpecs /\ c \in CHISpecs
      BY <1>7 DEF Specs
    <2>4. Earlier(x, a, a)
      BY <1>4, <1>5, <1>7, <2>1, <2>3
    <2>5. Earlier(x, a, b) /\ Earlier(x, b, c) => Earlier(x, a, c)
      <3> SUFFICES ASSUME Earlier(x, a, b), Earlier(x, b, c) PROVE Earlier(x, a, c)
        OBVIOUS
      <3>1. L(a, c) /\ C(a, c) /\ C(a, b) /\ C(b, c)
        BY <1>4, <1>5
      <3>2. (a.tls => c.tls) /\ a.port <= c.port
        BY <1>5, <1>7, <2>1, <2>3
      <3>3. ASSUME a.engine = c.engine, a.required PROVE c.required
        <4>1. Chosen(x, a) = Chosen(x, b)
          BY <1>4, <1>7, <3>1, <3>3 DEF C, Chosen
        <4> QED BY <1>5, <1>7, <3>3, <4>1 DEF Chosen
      <3> QED BY <1>5, <1>7, <3>1, <3>2, <3>3
    <2>6. Earlier(x, a, b) /\ Earlier(x, b, a) => a = b
      <3> SUFFICES ASSUME Earlier(x, a, b), Earlier(x, b, a) PROVE a = b
        OBVIOUS
      <3>1. a.layout = b.layout /\ a.engine = b.engine
        BY <1>4, <1>5, <1>7 DEF Chosen
      <3>2. a.port = b.port /\ a.tls = b.tls
        BY <1>5, <1>7, <2>1, <2>3
      <3>3. a.required = b.required
        BY <1>5, <1>7, <2>1, <2>3, <3>1
      <3> QED BY <2>2, <2>3, <3>1, <3>2, <3>3
    <2> QED BY <2>4, <2>5, <2>6
  <1> QED BY <1>6, <1>7

\* An Instance comes before another, and a rendering before what an Instance
\* is rendered to.
Precedes(a, b) ==
  /\ \A x \in CRs : NoLater(ChoiceRank(x), Chosen(x, a), Chosen(x, b))
  /\ a.tls => b.tls
  /\ Replicated(a) => Replicated(b)

Follows(x, spec, in) ==
  /\ NoLater(ChoiceRank(x), Chosen(x, spec), Chosen(x, in))
  /\ x = "chk" => Replicated(in)
  /\ x = "chi" =>
       /\ spec.tls => in.tls
       /\ spec.port # NoKeeper => Replicated(in)
       /\ spec.required => spec.tls /\ Settings["chi"][spec.engine].mode = "required"

\* Nothing in the CRs is later than what the next step renders.
AdvancedInv ==
  /\ copy # None => Precedes(copy.inst, inst)
  /\ \A x \in CRs : cr[x] # None =>
       /\ NoLater(LayoutRank(x), cr[x].spec.layout, Layout[release][x])
       /\ Follows(x, cr[x].spec, inst)
       /\ copy # None => Follows(x, cr[x].spec, copy.inst)

\* Tasks were completed before what the operator picked up last, and that
\* comes before what the CR says.  A CR without a task ID says what was
\* recorded and picked up.
TaskOrderInv ==
  \A x \in CRs :
    /\ cr[x] = None => work[x] = None
    /\ cr[x] # None =>
         /\ work[x] # None => Earlier(x, work[x].spec, cr[x].spec)
         /\ \A d \in cr[x].done \ {None} :
              work[x] # None /\ Earlier(x, d, work[x].spec)
         /\ ~cr[x].stamped => /\ record.spec[x] = cr[x].spec
                              /\ work[x] # None /\ work[x].spec = cr[x].spec
    /\ pc = At(x, "saveCHK", "saveCHI") => cr[x] # None /\ cr[x].spec = Desired(x)

\* So what is reported as rolled out is what the operator picked up last.
LEMMA TasksAreOrdered ==
  ASSUME NothingReturns, TypeOK, TaskOrderInv, NEW x \in CRs, Complete(cr[x])
  PROVE  work[x] # None /\ work[x].spec = cr[x].spec
  <1>1. /\ cr[x] # None /\ cr[x].spec \in Specs(x) /\ cr[x].spec # None
        /\ work[x] # None => work[x].spec \in Specs(x)
    BY NoneAssumption DEF Complete, TypeOK, ClusterOK, Installations, Renderings, Specs
  <1>2. CASE cr[x].stamped
    <2>1. cr[x].spec \in cr[x].done \ {None}
      BY <1>1, <1>2 DEF Complete, RolledOut
    <2>2. /\ work[x] # None
          /\ Earlier(x, cr[x].spec, work[x].spec) /\ Earlier(x, work[x].spec, cr[x].spec)
      BY <1>1, <2>1 DEF TaskOrderInv
    <2> QED BY <1>1, <2>2, EarlierIsOrder
  <1>3. CASE ~cr[x].stamped
    BY <1>1, <1>3 DEF TaskOrderInv
  <1> QED BY <1>2, <1>3

LEMMA PrecedesIsOrder ==
  ASSUME NothingReturns, NEW a \in Inputs, NEW b \in Inputs, NEW c \in Inputs
  PROVE  /\ Precedes(a, a)
         /\ Precedes(a, b) /\ Precedes(b, c) => Precedes(a, c)
         /\ \A x \in CRs : \A spec \in Specs(x) :
              Follows(x, spec, a) /\ Precedes(a, b) => Follows(x, spec, b)
  <1>1. \A x \in CRs : ChoiceRank(x) \in [DOMAIN Settings[x] -> Nat]
    BY DEF NothingReturns, ChoiceRank, ChoiceRanks
  <1>2. \A x \in CRs : /\ \A in \in Inputs : Chosen(x, in) \in DOMAIN Settings[x]
                       /\ \A spec \in Specs(x) : Chosen(x, spec) \in DOMAIN Settings[x]
    BY SettingsAssumption DEF Chosen, Inputs, Specs, CHKSpecs, CHISpecs
  <1>3. ASSUME NEW x \in CRs
        PROVE  /\ NoLater(ChoiceRank(x), Chosen(x, a), Chosen(x, a))
               /\ NoLater(ChoiceRank(x), Chosen(x, a), Chosen(x, b))
                    /\ NoLater(ChoiceRank(x), Chosen(x, b), Chosen(x, c))
                    => NoLater(ChoiceRank(x), Chosen(x, a), Chosen(x, c))
    BY <1>1, <1>2, NoLaterIsOrder
  <1>4. ASSUME NEW x \in CRs, NEW spec \in Specs(x), Follows(x, spec, a), Precedes(a, b)
        PROVE  Follows(x, spec, b)
    <2>1. NoLater(ChoiceRank(x), Chosen(x, spec), Chosen(x, b))
      BY <1>1, <1>2, <1>4, NoLaterIsOrder DEF Follows, Precedes
    <2> QED BY <1>4, <2>1 DEF Follows, Precedes
  <1> QED BY <1>3, <1>4 DEF Precedes

\* The Instance a rendering is made from, and an earlier rendering.
LEMMA RenderPlainIsLater ==
  ASSUME NothingReturns, NEW r \in Releases, NEW in \in Inputs, NEW x \in CRs, Uses(x, in)
  PROVE  /\ Follows(x, RenderPlain(x, r, in), in)
         /\ RenderPlain(x, r, in).layout = Layout[r][x]
         /\ \A spec \in Specs(x) :
              /\ NoLater(LayoutRank(x), spec.layout, Layout[r][x])
              /\ Follows(x, spec, in)
              /\ x = "chk" => ~spec.secure /\ spec.plaintext
              /\ x = "chi" => spec.port \in {NoKeeper, KeeperReference}
              => Earlier(x, spec, RenderPlain(x, r, in))
  <1> DEFINE new == RenderPlain(x, r, in)
  <1>1. /\ new.layout = Layout[r][x] /\ Chosen(x, new) = Chosen(x, in)
        /\ new \in Specs(x)
    BY RenderPlainFields DEF Chosen
  <1>2. CASE x = "chk"
    <2>1. ~new.secure /\ new.plaintext /\ new \in CHKSpecs
      BY <1>1, <1>2, RenderPlainFields DEF Specs
    <2> HIDE DEF new
    <2>2. Follows(x, new, in)
      BY <1>1, <1>2 DEF Follows, NoLater, Uses
    <2>3. ASSUME NEW spec \in CHKSpecs, ~spec.secure, spec.plaintext
          PROVE  spec.secure = new.secure /\ spec.plaintext = new.plaintext
      BY <2>1, <2>3 DEF CHKSpecs
    <2> QED BY <1>1, <1>2, <2>2, <2>3 DEF new, Follows, Earlier, Specs
  <1>3. CASE x = "chi"
    <2>1. /\ new.engine = in.engine /\ new.tls = in.tls
          /\ new.port = IF Replicated(in) THEN KeeperReference ELSE NoKeeper
          /\ new.required <=> in.tls /\ Settings["chi"][in.engine].mode = "required"
      BY <1>3, RenderPlainFields
    <2> HIDE DEF new
    <2>2. Follows(x, new, in)
      BY <1>1, <1>3, <2>1 DEF Follows, NoLater
    <2>3. ASSUME NEW spec \in CHISpecs, Follows(x, spec, in),
                 spec.port \in {NoKeeper, KeeperReference}
          PROVE  /\ spec.tls => new.tls
                 /\ spec.port <= new.port
                 /\ spec.engine = new.engine /\ spec.required => new.required
      BY <1>3, <2>1, <2>3 DEF Follows, NoKeeper, KeeperReference
    <2> QED BY <1>1, <1>3, <2>2, <2>3 DEF new, Follows, Earlier, Specs
  <1> QED BY <1>2, <1>3

LEMMA OrderedInit ==
  ASSUME NothingReturns, StartsRecorded, KeeperIsPlain, Init
  PROVE  AdvancedInv /\ TaskOrderInv
  <1>0. /\ TypeOK /\ pc = "idle" /\ copy = None /\ inst \in Inputs
    BY TypeInit DEF Init, Fresh
  <1>1. New \/ Steady(1) \/ Steady(LastRelease) \/ TakenOver(TRUE)
    BY DEF Init, StartsRecorded
  <1>2. CASE New
    BY <1>0, <1>2 DEF New, AdvancedInv, TaskOrderInv, At
  <1>3. ASSUME NEW spec \in SpecPairs, NEW stamped \in BOOLEAN, Running(spec, stamped),
               record.spec = spec,
               \A x \in CRs : spec[x] # None =>
                 /\ NoLater(LayoutRank(x), spec[x].layout, Layout[release][x])
                 /\ Follows(x, spec[x], inst)
        PROVE  AdvancedInv /\ TaskOrderInv
    <2>1. \A x \in CRs : /\ spec[x] = None => cr[x] = None /\ work[x] = None
                         /\ spec[x] # None =>
                              /\ cr[x] # None /\ cr[x].spec = spec[x]
                              /\ work[x] # None /\ work[x].spec = spec[x]
      BY <1>3, RunningCluster
    <2>2. \A x \in CRs : spec[x] # None => cr[x].done \subseteq {spec[x], None}
      BY <1>3 DEF Running
    <2>3. \A x \in CRs : spec[x] # None => Earlier(x, spec[x], spec[x])
      BY EarlierIsOrder DEF SpecPairs
    <2>4. AdvancedInv
      BY <1>0, <1>3, <2>1 DEF AdvancedInv
    <2>5. TaskOrderInv
      BY <1>0, <1>3, <2>1, <2>2, <2>3 DEF TaskOrderInv, At
    <2> QED BY <2>4, <2>5
  <1>4. \A r \in Releases : \A x \in CRs : Renders(r, PlaintextKeeper)[x] # None =>
          /\ Renders(r, PlaintextKeeper)[x].layout = Layout[r][x]
          /\ Follows(x, Renders(r, PlaintextKeeper)[x], inst)
    BY <1>0, PlainStart, RenderPlainIsLater
  <1>5. ASSUME NEW r \in Releases, Steady(r) PROVE AdvancedInv /\ TaskOrderInv
    <2>1. release = r
      BY <1>5 DEF Steady
    <2> QED BY <1>3, <1>4, <1>5, <2>1, PlainStart DEF NoLater
  <1>6. CASE TakenOver(TRUE)
    <2>1. /\ RenderedBefore \in SpecPairs /\ Running(RenderedBefore, FALSE)
          /\ record.spec = RenderedBefore
          /\ 1 \in Releases /\ 2 \in Releases /\ release = 2
          /\ RenderedBefore["chk"] = Renders(1, PlaintextKeeper)["chk"]
          /\ RenderedBefore["chi"] = [RenderPlain("chi", 1, inst) EXCEPT !.required = FALSE]
      BY <1>6, PlainStart
    <2> DEFINE old == RenderPlain("chi", 1, inst)
    <2>2. old \in CHISpecs /\ old.layout = Layout[1]["chi"] /\ Follows("chi", old, inst)
      BY <1>0, <2>1, RenderPlainFields, RenderPlainIsLater DEF Specs, Uses
    <2> HIDE DEF old
    <2>3. /\ RenderedBefore["chi"].layout = old.layout
          /\ RenderedBefore["chi"].engine = old.engine
          /\ RenderedBefore["chi"].tls = old.tls
          /\ RenderedBefore["chi"].port = old.port
          /\ ~RenderedBefore["chi"].required
      BY <2>1, <2>2 DEF CHISpecs, old
    <2>4. \A x \in CRs : RenderedBefore[x] # None =>
            RenderedBefore[x].layout = Layout[1][x] /\ Follows(x, RenderedBefore[x], inst)
      <3>1. Follows("chi", RenderedBefore["chi"], inst)
        BY <2>2, <2>3 DEF Follows, Chosen
      <3>2. RenderedBefore["chk"] # None =>
              /\ RenderedBefore["chk"].layout = Layout[1]["chk"]
              /\ Follows("chk", RenderedBefore["chk"], inst)
        BY <1>4, <2>1
      <3>3. RenderedBefore["chi"].layout = Layout[1]["chi"]
        BY <2>2, <2>3
      <3> QED BY <3>1, <3>2, <3>3
    <2>5. \A x \in CRs : NoLater(LayoutRank(x), Layout[1][x], Layout[2][x])
      BY <2>1 DEF NothingReturns, LayoutsAdvance, LayoutRank, LayoutRanks
    <2> QED BY <1>3, <2>1, <2>4, <2>5
  <1>7. 1 \in Releases /\ LastRelease \in Releases
    BY LayoutAssumption DEF Releases
  <1> QED BY <1>1, <1>2, <1>5, <1>6, <1>7

\* Every step keeps the order.
LEMMA OrderedNext ==
  ASSUME NothingReturns, KeepsReplicated, OnlyTurnsOn,
         TypeOK, PlainInv, AdvancedInv, TaskOrderInv, [Next]_vars
  PROVE  AdvancedInv' /\ TaskOrderInv'
  <1>0. /\ inst \in Inputs /\ release \in Releases
        /\ copy # None => copy.inst \in Inputs
        /\ \A x \in CRs : /\ cr[x] # None => cr[x].spec \in Specs(x)
                          /\ work[x] # None => work[x].spec \in Specs(x)
                          /\ cr[x] # None => cr[x].done \ {None} \subseteq Specs(x)
    BY DEF TypeOK, InstanceOK, SyncOK, Copies, ClusterOK, Installations, Renderings
  <1>1. ASSUME UNCHANGED <<cluster, record>>,
               \A x \in CRs : pc' = At(x, "saveCHK", "saveCHI") =>
                 pc = pc' /\ UNCHANGED <<release, copy, plan>>
        PROVE  TaskOrderInv'
    BY <1>1 DEF TaskOrderInv, cluster, Desired
  <1>2. ASSUME UNCHANGED <<inst, release, cluster>>, copy' = None \/ UNCHANGED copy
        PROVE  AdvancedInv'
    BY <1>2 DEF AdvancedInv, cluster
  <1>3. CASE StartSync
    <2>1. /\ UNCHANGED <<inst, release, cluster, record>> /\ copy'.inst = inst
          /\ pc' \in {"plan", "wait"}
      BY <1>3 DEF StartSync, instance
    <2>2. Precedes(inst, inst)
      BY <1>0, PrecedesIsOrder
    <2>3. AdvancedInv'
      BY <2>1, <2>2 DEF AdvancedInv, cluster, Applying
    <2> QED BY <1>1, <2>1, <2>3 DEF At
  <1>4. CASE Plan
    <2>1. /\ UNCHANGED <<inst, release, cluster, record, copy>>
          /\ pc' \in {"applyCHK", "applyCHI"}
      BY <1>4 DEF Plan, instance
    <2> QED BY <1>1, <1>2, <2>1 DEF At
  <1>5. CASE Edit
    <2>1. UNCHANGED <<release, cluster, record, pc, copy, plan>>
      BY <1>5 DEF Edit
    <2>2. PICK e \in Edits : e[1] = inst /\ e[2] = inst'
      BY <1>5 DEF Edit
    <2>3. inst' \in Inputs
      BY <2>2, InputsAssumption
    <2>4. \A x \in CRs : NoLater(ChoiceRank(x), Chosen(x, inst), Chosen(x, inst'))
      <3>1. \A x \in CRs : ChoiceRank(x) \in ChoiceRanks(x)
        BY DEF NothingReturns, ChoiceRank
      <3> QED BY <2>2, <3>1 DEF ChoiceRanks
    <2>5. Precedes(inst, inst')
      BY <2>2, <2>4 DEF Precedes, KeepsReplicated, OnlyTurnsOn
    <2>6. copy # None => Precedes(copy.inst, inst')
      BY <1>0, <2>3, <2>5, PrecedesIsOrder DEF AdvancedInv
    <2>7. \A x \in CRs : cr[x] # None => Follows(x, cr[x].spec, inst')
      BY <1>0, <2>3, <2>5, PrecedesIsOrder DEF AdvancedInv
    <2>8. AdvancedInv'
      BY <2>1, <2>5, <2>6, <2>7 DEF AdvancedInv, cluster
    <2> QED BY <1>1, <2>1, <2>8
  <1>6. ASSUME NEW x \in CRs, Apply(x) PROVE AdvancedInv' /\ TaskOrderInv'
    <2>1. /\ UNCHANGED <<inst, release, work, record, copy>>
          /\ copy # None /\ plan'.step = plan.step
          /\ pc = At(x, "applyCHK", "applyCHI")
          /\ pc' \in {At(x, "saveCHK", "saveCHI"), At(x, "checkCHK", "checkCHI")}
          /\ cr'[x] # None /\ cr'[x].spec = Desired(x)
          /\ cr'[x].stamped = Stamps(record, x, cr[x] # None,
                                     cr[x] # None /\ cr[x].stamped, Desired(x))
          /\ cr[x] = None => cr'[x].done = {}
          /\ cr[x] # None => cr'[x].done = cr[x].done
          /\ \A y \in CRs \ {x} : cr'[y] = cr[y]
      BY <1>6, ApplyEffect
    <2>2. /\ Follows(x, Desired(x), copy.inst)
          /\ Desired(x).layout = Layout[release][x]
          /\ cr[x] # None => Earlier(x, cr[x].spec, Desired(x))
          /\ Desired(x) \in Specs(x)
      <3>1. plan # None /\ Uses(x, copy.inst)
        BY <1>6, <2>1, ApplyEffect DEF PlainInv, Uses, At
      <3>2. Desired(x) = RenderPlain(x, release, copy.inst) /\ Desired(x) \in Specs(x)
        BY <2>1, <3>1, DesiredIsPlain, DesiredTypes
      <3>3. /\ Follows(x, Desired(x), copy.inst)
            /\ Desired(x).layout = Layout[release][x]
        BY <1>0, <2>1, <3>1, <3>2, RenderPlainIsLater
      <3>4. ASSUME cr[x] # None PROVE Earlier(x, cr[x].spec, Desired(x))
        <4>1. /\ NoLater(LayoutRank(x), cr[x].spec.layout, Layout[release][x])
              /\ Follows(x, cr[x].spec, copy.inst)
              /\ x = "chk" => ~cr[x].spec.secure /\ cr[x].spec.plaintext
              /\ x = "chi" => cr[x].spec.port \in {NoKeeper, KeeperReference}
          BY <2>1, <3>4 DEF AdvancedInv, PlainInv
        <4> QED BY <1>0, <2>1, <3>1, <3>2, <3>4, <4>1, RenderPlainIsLater
      <3> QED BY <3>2, <3>3, <3>4
    <2>3. Follows(x, Desired(x), inst)
      BY <1>0, <2>1, <2>2, PrecedesIsOrder DEF AdvancedInv
    <2>4. /\ Desired(x)' = Desired(x)
          /\ \A y \in CRs \ {x} : pc' # At(y, "saveCHK", "saveCHI")
      BY <2>1 DEF Desired, At
    <2>5. ASSUME NEW y \in CRs, cr'[y] # None
          PROVE  /\ NoLater(LayoutRank(y), cr'[y].spec.layout, Layout[release][y])
                 /\ Follows(y, cr'[y].spec, inst)
                 /\ Follows(y, cr'[y].spec, copy.inst)
      <3>1. CASE y = x
        BY <2>1, <2>2, <2>3, <3>1 DEF NoLater
      <3>2. CASE y # x
        BY <2>1, <2>5, <3>2 DEF AdvancedInv
      <3> QED BY <3>1, <3>2
    <2>6. AdvancedInv'
      BY <2>1, <2>4, <2>5 DEF AdvancedInv
    <2>7. ~cr'[x].stamped => /\ cr[x] # None /\ record.spec[x] = Desired(x)
                             /\ work[x] # None /\ work[x].spec = Desired(x)
      <3>1. cr[x] # None => cr[x].spec # None
        BY <1>0, NoneAssumption DEF Specs
      <3> QED BY <2>1, <3>1 DEF Stamps, Unchanged, TaskOrderInv
    <2>8. work[x] # None => Earlier(x, work[x].spec, Desired(x))
      BY <1>0, <2>2, EarlierIsOrder DEF TaskOrderInv
    <2>9. ASSUME NEW y \in CRs
          PROVE  /\ cr'[y] = None => work[y] = None
                 /\ cr'[y] # None =>
                      /\ work[y] # None => Earlier(y, work[y].spec, cr'[y].spec)
                      /\ \A d \in cr'[y].done \ {None} :
                           work[y] # None /\ Earlier(y, d, work[y].spec)
                      /\ ~cr'[y].stamped => /\ record.spec[y] = cr'[y].spec
                                            /\ work[y] # None /\ work[y].spec = cr'[y].spec
                 /\ pc' = At(y, "saveCHK", "saveCHI") =>
                      cr'[y] # None /\ cr'[y].spec = Desired(y)'
      <3>1. CASE y = x
        BY <2>1, <2>4, <2>7, <2>8, <3>1 DEF TaskOrderInv
      <3>2. CASE y # x
        BY <2>1, <2>4, <3>2 DEF TaskOrderInv
      <3> QED BY <3>1, <3>2
    <2>10. TaskOrderInv'
      BY <2>1, <2>9 DEF TaskOrderInv
    <2> QED BY <2>6, <2>10
  <1>7. ASSUME NEW x \in CRs, PickUp(x) PROVE AdvancedInv' /\ TaskOrderInv'
    <2>1. /\ UNCHANGED <<inst, release, record, pc, copy, plan>>
          /\ cr[x] # None /\ cr'[x] # None
          /\ cr'[x].spec = cr[x].spec /\ cr'[x].stamped = cr[x].stamped
          /\ cr'[x].done = cr[x].done
          /\ work'[x] # None /\ work'[x].spec = cr[x].spec
          /\ \A y \in CRs \ {x} : cr'[y] = cr[y] /\ work'[y] = work[y]
      BY <1>7, PickUpEffect DEF instance, sync
    <2>2. \A y \in CRs : /\ cr'[y] # None <=> cr[y] # None
                         /\ cr[y] # None => cr'[y].spec = cr[y].spec
                         /\ Desired(y)' = Desired(y)
      BY <2>1 DEF Desired
    <2>3. AdvancedInv'
      BY <2>1, <2>2 DEF AdvancedInv
    <2>4. /\ Earlier(x, cr[x].spec, cr[x].spec)
          /\ \A d \in cr[x].done \ {None} : Earlier(x, d, cr[x].spec)
      BY <1>0, <2>1, EarlierIsOrder DEF TaskOrderInv
    <2>5. ASSUME NEW y \in CRs
          PROVE  /\ cr'[y] = None => work'[y] = None
                 /\ cr'[y] # None =>
                      /\ work'[y] # None => Earlier(y, work'[y].spec, cr'[y].spec)
                      /\ \A d \in cr'[y].done \ {None} :
                           work'[y] # None /\ Earlier(y, d, work'[y].spec)
                      /\ ~cr'[y].stamped =>
                           /\ record.spec[y] = cr'[y].spec
                           /\ work'[y] # None /\ work'[y].spec = cr'[y].spec
                 /\ pc = At(y, "saveCHK", "saveCHI") =>
                      cr'[y] # None /\ cr'[y].spec = Desired(y)
      <3>1. CASE y = x
        BY <2>1, <2>4, <3>1 DEF TaskOrderInv
      <3>2. CASE y # x
        BY <2>1, <3>2 DEF TaskOrderInv
      <3> QED BY <3>1, <3>2
    <2>6. TaskOrderInv'
      BY <2>1, <2>2, <2>5 DEF TaskOrderInv
    <2> QED BY <2>3, <2>6
  <1>8. ASSUME NEW x \in CRs, NEW p \in PodsOf(x), Roll(x, p)
        PROVE  AdvancedInv' /\ TaskOrderInv'
    <2>1. UNCHANGED <<inst, release, cr, work, record, pc, copy, plan>>
      BY <1>8 DEF Roll, instance, sync
    <2> QED BY <2>1 DEF AdvancedInv, TaskOrderInv, Desired
  <1>9. ASSUME NEW x \in CRs, Finish(x) \/ Abort(x) \/ Resync(x)
        PROVE  AdvancedInv' /\ TaskOrderInv'
    <2>1. /\ UNCHANGED <<inst, release, work, record, pc, copy, plan>>
          /\ cr[x] # None /\ cr'[x] # None
          /\ cr'[x].spec = cr[x].spec /\ cr'[x].stamped = cr[x].stamped
          /\ cr'[x].done \subseteq cr[x].done \cup {work[x].spec, None}
          /\ \A y \in CRs \ {x} : cr'[y] = cr[y]
      BY <1>9, ReportEffect DEF instance, sync
    <2>2. \A y \in CRs : /\ cr'[y] # None <=> cr[y] # None
                         /\ cr[y] # None => /\ cr'[y].spec = cr[y].spec
                                            /\ cr'[y].stamped = cr[y].stamped
                         /\ Desired(y)' = Desired(y)
      BY <2>1 DEF Desired
    <2>3. AdvancedInv'
      BY <2>1, <2>2 DEF AdvancedInv
    <2>4. work[x] # None
      BY <1>9 DEF Finish, Abort, Resync, TypeOK, ClusterOK
    <2>5. Earlier(x, work[x].spec, work[x].spec)
      BY <1>0, <2>4, EarlierIsOrder
    <2>6. \A y \in CRs : cr'[y] # None => \A d \in cr'[y].done \ {None} :
            work[y] # None /\ Earlier(y, d, work[y].spec)
      BY <2>1, <2>4, <2>5 DEF TaskOrderInv
    <2>7. TaskOrderInv'
      BY <2>1, <2>2, <2>6 DEF TaskOrderInv
    <2> QED BY <2>3, <2>7
  <1>10. CASE AfterPlan
    <2>1. /\ UNCHANGED <<inst, release, cluster, copy>>
          /\ pc' \notin {"saveCHK", "saveCHI"}
      BY <1>10, AfterPlanEffect DEF instance
    <2>2. \A x \in CRs : record'.spec[x] = record.spec[x] \/ record'.spec[x] = cr[x].spec
      BY <1>10, AfterPlanRecord DEF TaskOrderInv
    <2>3. TaskOrderInv'
      BY <2>1, <2>2 DEF TaskOrderInv, At, cluster
    <2> QED BY <1>2, <2>1, <2>3
  <1>11. CASE Ends
    <2>1. UNCHANGED <<inst, cluster, record>> /\ pc' = "idle" /\ copy' = None
      BY <1>11, EndsEffect DEF EndSync
    <2>2. \A x \in CRs : NoLater(LayoutRank(x), Layout[release][x], Layout[release'][x])
      <3>1. release' \in Releases /\ release <= release'
        BY <1>0, <1>11, LayoutAssumption
           DEF Ends, PublishWait, PublishDone, Fail, Upgrade, instance, Releases
      <3>2. \A x \in CRs : LayoutRank(x) \in LayoutRanks(x)
        BY DEF NothingReturns, LayoutsAdvance, LayoutRank
      <3> QED BY <1>0, <3>1, <3>2 DEF LayoutRanks
    <2>3. ASSUME NEW x \in CRs, cr[x] # None
          PROVE  NoLater(LayoutRank(x), cr[x].spec.layout, Layout[release'][x])
      <3>1. NoLater(LayoutRank(x), cr[x].spec.layout, Layout[release][x])
        BY <2>3 DEF AdvancedInv
      <3>2. LayoutRank(x) \in [Layouts -> Nat]
        BY DEF NothingReturns, LayoutsAdvance, LayoutRank, LayoutRanks
      <3>3. /\ cr[x].spec.layout \in Layouts
            /\ Layout[release][x] \in Layouts /\ Layout[release'][x] \in Layouts
        <4>1. release' \in Releases
          BY <1>0, <1>11, LayoutAssumption
             DEF Ends, PublishWait, PublishDone, Fail, Upgrade, instance, Releases
        <4> QED BY <1>0, <2>3, <4>1 DEF Layouts, Specs, CHKSpecs, CHISpecs
      <3> QED BY <2>2, <3>1, <3>2, <3>3, NoLaterIsOrder
    <2>4. AdvancedInv'
      BY <2>1, <2>3 DEF AdvancedInv, cluster, Applying
    <2> QED BY <1>1, <2>1, <2>4 DEF At
  <1>12. CASE Aside \/ UNCHANGED vars
    <2>1. UNCHANGED <<inst, release, cluster, record, pc, copy, plan>>
      BY <1>12, AsideEffect DEF vars, instance, sync
    <2> QED BY <1>1, <1>2, <2>1
  <1> QED BY <1>3, <1>4, <1>5, <1>6, <1>7, <1>8, <1>9, <1>10, <1>11, <1>12, StepCases

\* Ready is reported only when every pod runs what its CR says: for new and
\* running clusters, whatever is edited, upgraded or aborted while pods are
\* rolled, if nothing returns to what it left and TLS stays away from Keeper.
THEOREM ReadyMeansRolledOut ==
  ASSUME NothingReturns, StartsRecorded, KeeperIsPlain, KeepsReplicated, OnlyTurnsOn
  PROVE  Spec => ReadyIsRolledOut
  <1> DEFINE Ordered == AdvancedInv /\ TaskOrderInv
             Reports == Publishes /\ phase' = "Ready" =>
                          \A x \in CRs : cr[x] # None =>
                            \A p \in PodsOf(x) : pods[p] = cr[x].spec
  <1>1. Init => Ordered
    BY OrderedInit
  <1>2. TypeOK /\ PlainInv /\ Ordered /\ [Next]_vars => Ordered'
    BY OrderedNext
  <1>3. ASSUME TypeOK, CertificateInv, Ordered PROVE Reports
    <2> SUFFICES ASSUME Publishes, phase' = "Ready", NEW x \in CRs, cr[x] # None,
                        NEW p \in PodsOf(x)
                 PROVE  pods[p] = cr[x].spec
      OBVIOUS
    <2>1. copy # None /\ StatusPhase = "Ready"
      BY <1>3 DEF Publishes, PublishDone, PublishWait, TypeOK, SyncOK
    <2>2. /\ Replicated(copy.inst) => Complete(cr["chk"])
          /\ Complete(cr["chi"])
      BY <2>1 DEF StatusPhase
    <2>3. x = "chk" => Replicated(copy.inst)
      BY <1>3, <2>1 DEF CertificateInv, TopologyInv
    <2>4. Complete(cr[x])
      BY <2>2, <2>3
    <2>5. work[x].spec = cr[x].spec
      BY <1>3, <2>4, TasksAreOrdered
    <2> QED BY <1>3, <2>4, <2>5 DEF CertificateInv, OperatorInv, Complete
  <1>4. TypeOK /\ CertificateInv /\ Ordered => [Reports]_vars
    BY <1>3
  <1> QED BY <1>1, <1>2, <1>4, TypeCorrect, PlainInvariant, CertificateInvariant, PTL
          DEF Spec, ReadyIsRolledOut

-----------------------------------------------------------------------------
(***************************************************************************)
(* No restart without consent.  The gate decides by its record, which is   *)
(* written after the CR and may be behind it; what it lets through without *)
(* asking has to be something the user asked for, whoever was interrupted  *)
(* in between.  Edits may take any direction here, and fall anywhere.      *)
(***************************************************************************)
\* The token of what this release renders for the stored Instance, and a
\* maintenance decision in favour of it.
Current == Token(release, inst, PlaintextKeeper)
Approves(m) == m.auto \/ m.approved = Current

\* Nobody holds a token of a later release.
TokensInv ==
  /\ maint.approved # None => maint.approved.release <= release
  /\ pending # None => pending.release <= release
  /\ record.target # None => record.target.release <= release

\* A reconcile whose Instance was not written meanwhile acts on what is
\* stored, and decides on the maintenance it was handed.
HandInv ==
  /\ copy # None /\ (~stale \/ ~edited) =>
       copy.inst = inst /\ (plan # None => plan.inputs = inst)
  /\ plan # None =>
       (plan.approved <=> copy.maint.auto \/ copy.maint.approved = plan.token)

\* The steps that come after a CR was applied.
AppliedAt(x) ==
  {"saveCHI", "checkCHI", "deleteTLS", "done"}
    \cup (IF x = "chk" THEN {"saveCHK", "checkCHK", "applyCHI"} ELSE {})

HeldBack == plan.asked /\ ~plan.approved

\* A reconcile that holds nothing back has applied, and then recorded, what it
\* has passed.
PassedInv ==
  /\ \A x \in CRs : pc = At(x, "saveCHK", "saveCHI") =>
       cr[x] # None /\ cr[x].spec = Desired(x)
  /\ plan # None /\ ~HeldBack =>
       \A x \in CRs : Uses(x, copy.inst) /\ pc \in AppliedAt(x) =>
         /\ cr[x] # None /\ cr[x].spec = Desired(x)
         /\ pc # At(x, "saveCHK", "saveCHI") =>
              record.spec[x] = Desired(x) /\ record.inputs[x] = plan.inputs

\* Two renderings of one Instance, the second by this or a later release.
LaterRelease(x, a, b) ==
  /\ NoLater(LayoutRank(x), a.layout, b.layout)
  /\ x = "chk" => a.keeper = b.keeper /\ a.secure = b.secure /\ a.plaintext = b.plaintext
  /\ x = "chi" => /\ a.engine = b.engine /\ a.tls = b.tls /\ a.port = b.port
                  /\ a.required => b.required

LEMMA LaterReleaseIsOrder ==
  ASSUME LayoutsAdvance, NEW x \in CRs,
         NEW a \in Specs(x), NEW b \in Specs(x), NEW c \in Specs(x)
  PROVE  /\ LaterRelease(x, a, a)
         /\ LaterRelease(x, a, b) /\ LaterRelease(x, b, c) => LaterRelease(x, a, c)
         /\ LaterRelease(x, a, b) /\ LaterRelease(x, b, a) => a = b
  <1>1. LayoutRank(x) \in [Layouts -> Nat]
    BY DEF LayoutsAdvance, LayoutRank, LayoutRanks
  <1>2. \A s \in {a, b, c} : s.layout \in Layouts
    BY DEF Specs, CHKSpecs, CHISpecs
  <1> DEFINE L(s, t) == NoLater(LayoutRank(x), s.layout, t.layout)
  <1>3. /\ L(a, a)
        /\ L(a, b) /\ L(b, c) => L(a, c)
        /\ L(a, b) /\ L(b, a) => a.layout = b.layout
    BY <1>1, <1>2, NoLaterIsOrder
  <1>4. \A s, t : LaterRelease(x, s, t) <=>
          /\ L(s, t)
          /\ x = "chk" => /\ s.keeper = t.keeper
                          /\ s.secure = t.secure /\ s.plaintext = t.plaintext
          /\ x = "chi" => /\ s.engine = t.engine /\ s.tls = t.tls /\ s.port = t.port
                          /\ s.required => t.required
    BY DEF LaterRelease
  <1> HIDE DEF L
  <1>5. CASE x = "chk"
    <2>1. \A s, t \in CHKSpecs : s.layout = t.layout /\ s.keeper = t.keeper
            /\ s.secure = t.secure /\ s.plaintext = t.plaintext => s = t
      BY DEF CHKSpecs
    <2> QED BY <1>3, <1>4, <1>5, <2>1 DEF Specs
  <1>6. CASE x = "chi"
    <2>1. \A s, t \in CHISpecs : s.layout = t.layout /\ s.engine = t.engine
            /\ s.tls = t.tls /\ s.required = t.required /\ s.port = t.port => s = t
      BY DEF CHISpecs
    <2>2. \A s \in CHISpecs : s.required \in BOOLEAN
      BY DEF CHISpecs
    <2> QED BY <1>3, <1>4, <1>6, <2>1, <2>2 DEF Specs
  <1> QED BY <1>5, <1>6

\* While no edit is on its way, the record, the CR and what this release
\* renders differ by releases only, in this order.
QuietInv ==
  ~edited => \A x \in CRs :
    /\ Uses(x, inst) => cr[x] # None
    /\ cr[x] # None =>
         /\ record.spec[x] # None /\ record.inputs[x] \in {None, inst}
         /\ LaterRelease(x, record.spec[x], cr[x].spec)
         /\ LaterRelease(x, cr[x].spec, RenderPlain(x, release, inst))

AllCurrent == \A x \in CRs : cr[x] # None => cr[x].spec = RenderPlain(x, release, inst)

\* And a change is recorded as under way only if it was approved, unless it
\* has been applied to the end.  The approval lasts: only the current change
\* can be asked for.
AskedInv ==
  ~edited =>
    /\ maint.approved = Current => pending \in {None, Current}
    /\ copy # None => /\ copy.maint.auto => maint.auto
                      /\ copy.maint.approved = Current => maint.approved = Current
    /\ record.target = Current =>
         AllCurrent \/ (Approves(maint) /\ (copy # None => Approves(copy.maint)))
    /\ \A x \in CRs : pc = At(x, "saveCHK", "saveCHI") =>
         record.spec[x] = Desired(x) \/ record.target = Current \/ Approves(copy.maint)

ConsentInv ==
  /\ TokensInv
  /\ HandInv
  /\ PassedInv
  /\ QuietInv
  /\ AskedInv

LEMMA ConsentInit ==
  ASSUME KeeperIsPlain, LayoutsAdvance, Init
  PROVE  ConsentInv
  <1>0. /\ TypeOK /\ pc = "idle" /\ copy = None /\ plan = None /\ pending = None
        /\ inst \in Inputs /\ maint.approved = None
    BY TypeInit DEF Init, Fresh
  <1>1. HandInv /\ PassedInv
    BY <1>0 DEF HandInv, PassedInv, At
  <1>2. Current # None
    <2>1. release \in Releases /\ PlaintextKeeper \in Wirings
      BY <1>0 DEF TypeOK, InstanceOK, PlaintextKeeper, Wirings, Ports, KeeperPort,
         KeeperSecurePort, KeeperReference, NoKeeper
    <2> QED BY <1>0, <2>1, RenderTypes, NoneAssumption DEF Current
  <1>3. CASE New
    BY <1>0, <1>1, <1>3 DEF New, EmptyRecord, ConsentInv, TokensInv, QuietInv, AskedInv
  <1>4. ASSUME NEW r \in Releases, Steady(r) PROVE ConsentInv
    <2> DEFINE spec == Renders(r, PlaintextKeeper)
    <2>1. /\ Running(spec, TRUE) /\ spec \in SpecPairs
          /\ record.spec = spec /\ record.target = Token(r, inst, PlaintextKeeper)
          /\ release = r /\ r \in Int
          /\ \A x \in CRs : spec[x] = IF Uses(x, inst) THEN RenderPlain(x, r, inst) ELSE None
      <3>1. release = r /\ r \in Int
        BY <1>4, LayoutAssumption DEF Steady, Releases
      <3> QED BY <1>4, <3>1, PlainStart
    <2>2. \A x \in CRs : Uses(x, inst) => record.inputs[x] = inst
      BY <1>4 DEF Steady, Uses
    <2> HIDE DEF spec
    <2>3. \A x \in CRs : /\ spec[x] = None => cr[x] = None
                         /\ spec[x] # None => cr[x] # None /\ cr[x].spec = spec[x]
      BY <2>1, RunningCluster
    <2>4. \A x \in CRs : RenderPlain(x, r, inst) \in Specs(x) /\ RenderPlain(x, r, inst) # None
      BY <1>0, RenderPlainFields, NoneAssumption DEF Specs
    <2>5. \A x \in CRs : LaterRelease(x, RenderPlain(x, r, inst), RenderPlain(x, r, inst))
      BY <2>4, LaterReleaseIsOrder
    <2>6. QuietInv
      BY <2>1, <2>2, <2>3, <2>4, <2>5 DEF QuietInv
    <2>7. AllCurrent
      BY <2>1, <2>3 DEF AllCurrent
    <2>8. record.target.release = release
      BY <2>1 DEF Token
    <2> QED BY <1>0, <1>1, <1>2, <2>1, <2>6, <2>7, <2>8
            DEF ConsentInv, TokensInv, AskedInv, At
  <1>5. CASE TakenOver(TRUE)
    <2>1. /\ RenderedBefore \in SpecPairs /\ Running(RenderedBefore, FALSE)
          /\ record.spec = RenderedBefore
          /\ 1 \in Releases /\ 2 \in Releases /\ release = 2
          /\ RenderedBefore["chk"] = Renders(1, PlaintextKeeper)["chk"]
          /\ RenderedBefore["chi"] = [RenderPlain("chi", 1, inst) EXCEPT !.required = FALSE]
          /\ Renders(1, PlaintextKeeper)["chk"]
               = IF Uses("chk", inst) THEN RenderPlain("chk", 1, inst) ELSE None
      BY <1>5, PlainStart
    <2>2. /\ record.target = None /\ \A x \in CRs : record.inputs[x] = None
      BY <1>5 DEF TakenOver, EmptyRecord
    <2> DEFINE old(x) == RenderPlain(x, 1, inst)
               new(x) == RenderPlain(x, 2, inst)
    <2>3. \A x \in CRs : /\ old(x) \in Specs(x) /\ old(x) # None
                         /\ new(x) \in Specs(x) /\ new(x) # None
      BY <1>0, <2>1, RenderPlainFields, NoneAssumption DEF Specs
    <2>4. \A x \in CRs : NoLater(LayoutRank(x), Layout[1][x], Layout[2][x])
      BY <2>1 DEF LayoutsAdvance, LayoutRank, LayoutRanks
    <2>5. LaterRelease("chk", old("chk"), new("chk"))
      <3>1. /\ old("chk").layout = Layout[1]["chk"] /\ new("chk").layout = Layout[2]["chk"]
            /\ old("chk").keeper = new("chk").keeper
            /\ ~old("chk").secure /\ old("chk").plaintext
            /\ ~new("chk").secure /\ new("chk").plaintext
        BY <1>0, RenderPlainFields
      <3>2. old("chk") \in CHKSpecs /\ new("chk") \in CHKSpecs
        BY <2>3 DEF Specs
      <3> HIDE DEF old, new
      <3>3. old("chk").secure = new("chk").secure /\ old("chk").plaintext = new("chk").plaintext
        BY <3>1, <3>2 DEF CHKSpecs
      <3> QED BY <2>4, <3>1, <3>3 DEF LaterRelease
    <2>6. /\ RenderedBefore["chi"] \in CHISpecs /\ RenderedBefore["chi"] # None
          /\ LaterRelease("chi", RenderedBefore["chi"], new("chi"))
      <3>1. /\ old("chi").layout = Layout[1]["chi"] /\ new("chi").layout = Layout[2]["chi"]
            /\ old("chi").engine = new("chi").engine /\ old("chi").tls = new("chi").tls
            /\ old("chi").port = new("chi").port
        BY <1>0, RenderPlainFields
      <3>2. old("chi") \in CHISpecs
        BY <2>3 DEF Specs
      <3> HIDE DEF old, new
      <3>3. /\ RenderedBefore["chi"] \in CHISpecs
            /\ RenderedBefore["chi"].layout = old("chi").layout
            /\ RenderedBefore["chi"].engine = old("chi").engine
            /\ RenderedBefore["chi"].tls = old("chi").tls
            /\ RenderedBefore["chi"].port = old("chi").port
            /\ ~RenderedBefore["chi"].required
        BY <2>1, <3>2 DEF CHISpecs, old
      <3>4. RenderedBefore["chi"] # None
        BY <3>3, NoneAssumption
      <3> QED BY <2>4, <3>1, <3>3, <3>4 DEF LaterRelease
    <2>7. \A x \in CRs : /\ RenderedBefore[x] = None => cr[x] = None
                         /\ RenderedBefore[x] # None =>
                              cr[x] # None /\ cr[x].spec = RenderedBefore[x]
      BY <2>1, RunningCluster
    <2>8. \A x \in CRs : RenderedBefore[x] # None =>
            /\ LaterRelease(x, RenderedBefore[x], RenderedBefore[x])
            /\ LaterRelease(x, RenderedBefore[x], new(x))
      <3>1. \A x \in CRs : RenderedBefore[x] # None =>
              LaterRelease(x, RenderedBefore[x], RenderedBefore[x])
        BY <2>1, LaterReleaseIsOrder DEF SpecPairs
      <3>2. RenderedBefore["chk"] # None => RenderedBefore["chk"] = old("chk")
        BY <2>1
      <3> HIDE DEF old, new
      <3> QED BY <2>5, <2>6, <3>1, <3>2
    <2>9. \A x \in CRs : Uses(x, inst) => RenderedBefore[x] # None
      <3>1. Uses("chk", inst) => RenderedBefore["chk"] # None
        BY <2>1, <2>3
      <3> QED BY <2>6, <3>1
    <2>10. QuietInv
      BY <2>1, <2>2, <2>7, <2>8, <2>9 DEF QuietInv
    <2> QED BY <1>0, <1>1, <1>2, <2>2, <2>10 DEF ConsentInv, TokensInv, AskedInv, At
  <1>6. CASE TakenOver(FALSE)
    BY <1>0, <1>1, <1>6 DEF TakenOver, EmptyRecord, ConsentInv, TokensInv, QuietInv, AskedInv
  <1>7. 1 \in Releases /\ LastRelease \in Releases
    BY LayoutAssumption DEF Releases
  <1> QED BY <1>3, <1>4, <1>5, <1>6, <1>7 DEF Init

\* What a reconcile has got through stays so, and belongs to what is stored.
LEMMA ReconcileNext ==
  ASSUME TypeOK, PlainInv, TokensInv, HandInv, PassedInv, [Next]_vars
  PROVE  TokensInv' /\ HandInv' /\ PassedInv'
  <1>0. /\ release \in Nat
        /\ \A t \in Tokens : t.release \in Nat
        /\ plan # None => copy # None /\ plan.token # None /\ plan.token.release = release
    <2>1. plan # None => copy # None /\ plan.token.release = release
      BY DEF PlainInv, Token
    <2>2. plan # None => plan.token # None
      BY NoneAssumption DEF TypeOK, SyncOK, Plans
    <2> QED BY <2>1, <2>2, LayoutAssumption DEF TypeOK, InstanceOK, Tokens, Releases
  <1>1. ASSUME UNCHANGED <<maint, pending, record, release>> PROVE TokensInv'
    BY <1>1 DEF TokensInv
  <1>2. ASSUME UNCHANGED <<inst, copy>>, edited' = edited, stale' = stale \/ stale' = TRUE,
               plan' # None => /\ plan # None /\ plan'.inputs = plan.inputs
                               /\ plan'.token = plan.token /\ plan'.approved = plan.approved
        PROVE  HandInv'
    BY <1>2 DEF HandInv
  <1>3. ASSUME UNCHANGED <<release, record, copy, plan, pc>>,
               \A x \in CRs : /\ cr'[x] # None <=> cr[x] # None
                              /\ cr[x] # None => cr'[x].spec = cr[x].spec
        PROVE  PassedInv'
    <2>1. \A x \in CRs : Desired(x)' = Desired(x)
      BY <1>3 DEF Desired
    <2> QED BY <1>3, <2>1 DEF PassedInv, HeldBack
  <1>4. CASE StartSync
    <2>1. /\ UNCHANGED <<inst, maint, release, edited, pending, record, plan>>
          /\ copy'.inst = inst /\ pc = "idle" /\ pc' \in {"plan", "wait"}
      BY <1>4 DEF StartSync, instance, status
    <2>2. plan = None
      BY <1>0, <2>1 DEF TypeOK, SyncOK
    <2>3. HandInv' /\ PassedInv'
      BY <2>1, <2>2 DEF HandInv, PassedInv, At
    <2> QED BY <1>1, <2>1, <2>3
  <1>5. CASE Plan
    <2>1. /\ UNCHANGED <<inst, maint, release, edited, pending, record, copy, stale>>
          /\ pc' = IF Replicated(copy.inst) THEN "applyCHK" ELSE "applyCHI"
          /\ plan'.inputs = inst
          /\ plan'.approved <=> copy.maint.auto \/ copy.maint.approved = plan'.token
      BY <1>5, Zenon DEF Plan, instance, status
    <2>2. HandInv'
      BY <2>1 DEF HandInv
    <2>3. PassedInv'
      BY <2>1 DEF PassedInv, AppliedAt, At, Uses
    <2> QED BY <1>1, <2>1, <2>2, <2>3
  <1>6. CASE Edit
    <2>1. /\ UNCHANGED <<maint, release, cr, pending, record, pc, copy, plan>>
          /\ edited' = TRUE /\ stale' = (pc # "idle")
      BY <1>6 DEF Edit, cluster, status
    <2>2. copy # None => stale'
      BY <2>1 DEF TypeOK, SyncOK
    <2>3. HandInv'
      BY <2>1, <2>2 DEF HandInv
    <2> QED BY <1>1, <1>3, <2>1, <2>3
  <1>7. ASSUME NEW x \in CRs, Apply(x) PROVE TokensInv' /\ HandInv' /\ PassedInv'
    <2>1. /\ UNCHANGED <<inst, maint, release, edited, record, copy, stale, pending>>
          /\ copy # None /\ plan # None /\ plan'.step = plan.step
          /\ plan'.inputs = plan.inputs /\ plan'.token = plan.token
          /\ plan'.approved = plan.approved
          /\ pc = At(x, "applyCHK", "applyCHI")
          /\ cr'[x] # None /\ cr'[x].spec = Desired(x)
          /\ \A y \in CRs \ {x} : cr'[y] = cr[y]
      BY <1>7, ApplyEffect DEF status
    <2>2. pc' = IF UpToDate(record, x, Desired(x), plan.inputs)
                THEN At(x, "checkCHK", "checkCHI") ELSE At(x, "saveCHK", "saveCHI")
      BY <1>7 DEF Apply
    <2>3. ~HeldBack' => ~HeldBack
      <3>1. plan'.asked <=> plan.asked \/ ~MayApplyUnasked(x)
        <4>1. plan' = [plan EXCEPT !.asked = @ \/ ~MayApplyUnasked(x)] /\ plan \in Plans
          BY <1>7, <2>1 DEF Apply, TypeOK, SyncOK
        <4>2. plan'.asked = (plan.asked \/ ~MayApplyUnasked(x))
          BY <4>1 DEF Plans
        <4> QED BY <4>2, Zenon
      <3> QED BY <2>1, <3>1 DEF HeldBack
    <2>4. \A y \in CRs : Desired(y)' = Desired(y)
      BY <2>1 DEF Desired
    <2>5. pc' = At(x, "checkCHK", "checkCHI") =>
            record.spec[x] = Desired(x) /\ record.inputs[x] = plan.inputs
      BY <2>2 DEF UpToDate, Unchanged, At
    <2>6. ASSUME NEW y \in CRs \ {x}
          PROVE  /\ pc' # At(y, "saveCHK", "saveCHI")
                 /\ pc' \in AppliedAt(y) =>
                      pc \in AppliedAt(y) /\ pc # At(y, "saveCHK", "saveCHI")
      BY <2>1, <2>2, <2>6 DEF At, AppliedAt
    <2>7. PassedInv'
      <3>1. ASSUME NEW y \in CRs, pc' = At(y, "saveCHK", "saveCHI")
            PROVE  cr'[y] # None /\ cr'[y].spec = Desired(y)'
        BY <2>1, <2>4, <2>6, <3>1
      <3>2. ASSUME NEW y \in CRs, ~HeldBack', Uses(y, copy.inst), pc' \in AppliedAt(y)
            PROVE  /\ cr'[y] # None /\ cr'[y].spec = Desired(y)
                   /\ pc' # At(y, "saveCHK", "saveCHI") =>
                        record.spec[y] = Desired(y) /\ record.inputs[y] = plan.inputs
        <4>1. CASE y = x
          BY <2>1, <2>2, <2>5, <4>1
        <4>2. CASE y # x
          BY <2>1, <2>3, <2>6, <3>2, <4>2 DEF PassedInv
        <4> QED BY <4>1, <4>2
      <3> QED BY <2>1, <2>4, <3>1, <3>2 DEF PassedInv
    <2> QED BY <1>1, <1>2, <2>1, <2>7
  <1>8. CASE \E x \in CRs : PickUp(x) \/ Finish(x) \/ Abort(x) \/ Resync(x)
    <2>1. /\ UNCHANGED <<inst, maint, release, edited, record, pending, pc, copy, plan, stale>>
          /\ \A x \in CRs : /\ cr'[x] # None <=> cr[x] # None
                            /\ cr[x] # None => cr'[x].spec = cr[x].spec
      BY <1>8, PickUpEffect, ReportEffect DEF instance, sync, status
    <2> QED BY <1>1, <1>2, <1>3, <2>1
  <1>9. CASE \E x \in CRs : \E p \in PodsOf(x) : Roll(x, p)
    <2>1. UNCHANGED <<inst, maint, release, edited, cr, record, pending, pc, copy, plan, stale>>
      BY <1>9 DEF Roll, instance, sync, status
    <2> QED BY <1>1, <1>2, <1>3, <2>1
  <1>10. CASE AfterPlan
    <2>1. /\ UNCHANGED <<inst, maint, release, edited, cr, pending, copy, stale>>
          /\ copy # None /\ plan # None /\ plan' # None /\ plan'.step = plan.step
          /\ plan'.inputs = plan.inputs /\ plan'.token = plan.token
          /\ plan'.approved = plan.approved
          /\ pc' \notin {"saveCHK", "saveCHI"}
      BY <1>10, AfterPlanEffect DEF instance, cluster, status
    <2>2. HandInv'
      BY <1>2, <2>1
    <2>3. \A x \in CRs : Desired(x)' = Desired(x) /\ pc' # At(x, "saveCHK", "saveCHI")
      BY <2>1 DEF Desired, At
    <2>4. ASSUME ~HeldBack' => ~HeldBack,
                 \A x \in CRs : ~HeldBack' /\ Uses(x, copy.inst) /\ pc' \in AppliedAt(x) =>
                   /\ pc \in AppliedAt(x)
                   /\ record'.spec[x] = Desired(x) /\ record'.inputs[x] = plan.inputs
          PROVE  PassedInv'
      BY <2>1, <2>3, <2>4 DEF PassedInv
    <2>5. ASSUME NEW x \in CRs, Hold(x) PROVE TokensInv' /\ PassedInv'
      <3>1. /\ UNCHANGED record /\ ~plan.approved
            /\ plan' = [plan EXCEPT !.asked = TRUE] /\ plan \in Plans
        BY <2>1, <2>5 DEF Hold, TypeOK, SyncOK
      <3>2. HeldBack'
        BY <2>1, <3>1 DEF HeldBack, Plans
      <3> QED BY <1>1, <2>1, <2>4, <3>1, <3>2
    <2>6. ASSUME NEW x \in CRs, Save(x) PROVE TokensInv' /\ PassedInv'
      <3>1. /\ record' = Recorded(record, x, Desired(x), plan.inputs, plan.token)
            /\ UNCHANGED plan /\ record \in Records
            /\ pc = At(x, "saveCHK", "saveCHI") /\ pc' = At(x, "checkCHK", "checkCHI")
        BY <2>6 DEF Save, TypeOK, RecordOK
      <3>2. /\ record'.spec[x] = Desired(x) /\ record'.inputs[x] = plan.inputs
            /\ record'.target \in {record.target, plan.token}
            /\ \A y \in CRs \ {x} : /\ record'.spec[y] = record.spec[y]
                                    /\ record'.inputs[y] = record.inputs[y]
        BY <3>1 DEF Recorded, Records
      <3>3. TokensInv'
        BY <1>0, <2>1, <3>2 DEF TokensInv
      <3>4. ~HeldBack' => ~HeldBack
        BY <3>1 DEF HeldBack
      <3>5. ASSUME NEW y \in CRs, ~HeldBack, Uses(y, copy.inst), pc' \in AppliedAt(y)
            PROVE  /\ pc \in AppliedAt(y)
                   /\ record'.spec[y] = Desired(y) /\ record'.inputs[y] = plan.inputs
        <4>1. pc \in AppliedAt(y) /\ (y # x => pc # At(y, "saveCHK", "saveCHI"))
          BY <3>1, <3>5 DEF AppliedAt, At
        <4> QED BY <2>1, <3>2, <3>5, <4>1 DEF PassedInv
      <3> QED BY <2>4, <3>3, <3>4, <3>5
    <2>7. CASE CheckCHK \/ CheckCHI \/ DeleteTLS
      <3>1. /\ UNCHANGED <<record, plan>>
            /\ \/ pc = "checkCHK" /\ pc' \in {"applyCHI", "wait"}
               \/ pc = "checkCHI" /\ pc' \in {"wait", "done", "deleteTLS"}
               \/ pc = "deleteTLS" /\ pc' \in {"wait", "done"}
        BY <2>7 DEF CheckCHK, CheckCHI, DeleteTLS, AfterCHI, CleanupTLS
      <3>2. ASSUME NEW x \in CRs, pc' \in AppliedAt(x)
            PROVE  pc \in AppliedAt(x) /\ pc # At(x, "saveCHK", "saveCHI")
        BY <3>1, <3>2 DEF AppliedAt, At
      <3>3. HeldBack' <=> HeldBack
        BY <3>1 DEF HeldBack
      <3>4. TokensInv'
        BY <1>1, <2>1, <3>1
      <3>5. \A x \in CRs : ~HeldBack /\ Uses(x, copy.inst) /\ pc' \in AppliedAt(x) =>
              /\ pc \in AppliedAt(x)
              /\ record.spec[x] = Desired(x) /\ record.inputs[x] = plan.inputs
        BY <2>1, <3>2 DEF PassedInv
      <3>6. PassedInv'
        BY <2>4, <3>1, <3>3, <3>5
      <3> QED BY <2>2, <3>4, <3>6
    <2> QED BY <1>10, <2>2, <2>5, <2>6, <2>7 DEF AfterPlan
  <1>11. CASE Ends
    <2>1. /\ copy' = None /\ plan' = None /\ pc' = "idle"
          /\ UNCHANGED <<maint, record>>
          /\ release' \in {release, release + 1}
          /\ \/ pending' \in {pending, None}
             \/ plan # None /\ pending' = plan.token
      <3>1. /\ copy' = None /\ plan' = None /\ pc' = "idle"
            /\ UNCHANGED <<maint, record>>
        BY <1>11, EndsEffect DEF EndSync
      <3>2. CASE PublishWait
        BY <3>1, <3>2 DEF PublishWait, HeldToken, instance
      <3>3. CASE PublishDone
        BY <3>1, <3>3 DEF PublishDone, HeldToken
      <3>4. CASE Fail \/ Upgrade
        BY <3>1, <3>4 DEF Fail, Upgrade, instance, status
      <3> QED BY <1>11, <3>2, <3>3, <3>4 DEF Ends
    <2>2. HandInv' /\ PassedInv'
      BY <2>1 DEF HandInv, PassedInv, At
    <2>3. /\ maint.approved # None => maint.approved \in Tokens
          /\ pending # None => pending \in Tokens
          /\ record.target # None => record.target \in Tokens
      BY DEF TypeOK, InstanceOK, Maintenances, StatusOK, RecordOK, Records
    <2>4. release <= release' /\ release' \in Nat
      BY <1>0, <2>1
    <2>5. /\ maint.approved # None => maint.approved.release <= release'
          /\ record.target # None => record.target.release <= release'
          /\ pending # None => pending.release <= release'
      BY <1>0, <2>3, <2>4 DEF TokensInv
    <2>6. plan # None => plan.token.release <= release'
      BY <1>0, <2>4
    <2>7. TokensInv'
      BY <2>1, <2>5, <2>6 DEF TokensInv
    <2> QED BY <2>2, <2>7
  <1>12. CASE Aside \/ UNCHANGED vars
    <2>1. /\ UNCHANGED <<inst, release, edited, cr, record, pending, pc, copy, plan>>
          /\ maint'.approved \in {maint.approved, pending}
          /\ stale' = stale \/ stale' = (pc # "idle")
      <3>1. UNCHANGED <<inst, release, edited, cr, record, pending, pc, copy, plan>>
        BY <1>12, AsideEffect DEF vars, instance, sync, cluster, status
      <3>2. maint \in Maintenances
        BY DEF TypeOK, InstanceOK
      <3>3. maint'.approved \in {maint.approved, pending}
        BY <1>12, <3>2 DEF Aside, Approve, AllowRestarts, Reject, Issue, vars, instance,
           Maintenances
      <3>4. stale' = stale \/ stale' = (pc # "idle")
        BY <1>12 DEF Aside, Approve, AllowRestarts, Reject, Issue, vars, sync
      <3> QED BY <3>1, <3>3, <3>4
    <2>2. copy # None => stale' = stale \/ stale' = TRUE
      BY <2>1 DEF TypeOK, SyncOK
    <2>3. HandInv'
      BY <2>1, <2>2 DEF HandInv
    <2>4. TokensInv'
      BY <2>1 DEF TokensInv
    <2> QED BY <1>3, <2>1, <2>3, <2>4
  <1> QED BY <1>4, <1>5, <1>6, <1>7, <1>8, <1>9, <1>10, <1>11, <1>12, StepCases

\* A later release renders the same Instance later.
LEMMA UpgradeIsLater ==
  ASSUME LayoutsAdvance, NEW x \in CRs, NEW r \in Releases, NEW s \in Releases, r <= s,
         NEW in \in Inputs
  PROVE  LaterRelease(x, RenderPlain(x, r, in), RenderPlain(x, s, in))
  <1>1. NoLater(LayoutRank(x), Layout[r][x], Layout[s][x])
    BY DEF LayoutsAdvance, LayoutRank, LayoutRanks
  <1> DEFINE a == RenderPlain(x, r, in)
             b == RenderPlain(x, s, in)
  <1>2. a \in Specs(x) /\ b \in Specs(x)
    BY RenderPlainFields
  <1>3. CASE x = "chk"
    <2>1. /\ a.layout = Layout[r][x] /\ b.layout = Layout[s][x] /\ a.keeper = b.keeper
          /\ ~a.secure /\ a.plaintext /\ ~b.secure /\ b.plaintext
      BY <1>3, RenderPlainFields
    <2> HIDE DEF a, b
    <2>2. a.secure = b.secure /\ a.plaintext = b.plaintext
      BY <1>2, <1>3, <2>1 DEF Specs, CHKSpecs
    <2>3. LaterRelease(x, a, b)
      BY <1>1, <1>3, <2>1, <2>2 DEF LaterRelease
    <2> QED BY <2>3 DEF a, b
  <1>4. CASE x = "chi"
    <2>1. /\ a.layout = Layout[r][x] /\ b.layout = Layout[s][x]
          /\ a.engine = b.engine /\ a.tls = b.tls /\ a.port = b.port
          /\ a.required => b.required
      BY <1>4, RenderPlainFields
    <2> HIDE DEF a, b
    <2>3. LaterRelease(x, a, b)
      BY <1>1, <1>4, <2>1 DEF LaterRelease
    <2> QED BY <2>3 DEF a, b
  <1> QED BY <1>3, <1>4

\* What a reconcile plans while no edit is on its way.
LEMMA QuietPlan ==
  ASSUME TypeOK, PlainInv, HandInv, plan # None, ~edited
  PROVE  /\ copy # None /\ copy.inst = inst /\ plan.inputs = inst /\ plan.token = Current
         /\ \A x \in CRs : Uses(x, inst) => Desired(x) = RenderPlain(x, release, inst)
         /\ plan.approved => Approves(copy.maint)
  <1>1. /\ copy # None /\ copy.inst = inst /\ plan.inputs = inst
        /\ plan.token = Token(release, copy.inst, PlaintextKeeper)
    BY DEF PlainInv, HandInv
  <1>2. plan.token = Current
    BY <1>1 DEF Current
  <1>3. \A x \in CRs : Uses(x, inst) => Desired(x) = RenderPlain(x, release, inst)
    BY <1>1, DesiredIsPlain
  <1>4. plan.approved => copy.maint.auto \/ copy.maint.approved = plan.token
    BY Zenon DEF HandInv
  <1>5. plan.approved => Approves(copy.maint)
    BY <1>2, <1>4, Zenon DEF Approves
  <1> QED BY <1>1, <1>2, <1>3, <1>5

\* The steps of a reconcile on a CR find its component in use.
LEMMA StepUses ==
  ASSUME TopologyInv, NEW x \in CRs,
         pc \in {At(x, "applyCHK", "applyCHI"), At(x, "saveCHK", "saveCHI")}
  PROVE  Uses(x, copy.inst)
  BY DEF TopologyInv, At, Uses

\* A reconcile that reports the edits as done has applied and recorded what
\* this release renders for the stored Instance, and holds nothing.
LEMMA ReportedDone ==
  ASSUME TypeOK, PlainInv, TopologyInv, HandInv, PassedInv,
         PublishDone, edited, ~edited'
  PROVE  /\ pending' = None
         /\ \A x \in CRs : cr[x] # None => Uses(x, inst)
         /\ \A x \in CRs : Uses(x, inst) =>
              /\ cr[x] # None /\ cr[x].spec = RenderPlain(x, release, inst)
              /\ record.spec[x] = RenderPlain(x, release, inst)
              /\ record.inputs[x] = inst
  <1>1. /\ ~stale /\ HeldToken = None /\ pending' = HeldToken
        /\ pc = "done" /\ plan # None
    BY DEF PublishDone, TypeOK, SyncOK
  <1>2. ~HeldBack
    BY <1>1, NoneAssumption DEF HeldToken, HeldBack, TypeOK, SyncOK, Plans
  <1>3. copy # None /\ copy.inst = inst /\ plan.inputs = inst
    BY <1>1 DEF PlainInv, HandInv
  <1>4. ASSUME NEW x \in CRs, Uses(x, inst)
        PROVE  /\ cr[x] # None /\ cr[x].spec = RenderPlain(x, release, inst)
               /\ record.spec[x] = RenderPlain(x, release, inst)
               /\ record.inputs[x] = inst
    <2>1. pc \in AppliedAt(x) /\ pc # At(x, "saveCHK", "saveCHI")
      BY <1>1 DEF AppliedAt, At
    <2> QED BY <1>1, <1>2, <1>3, <1>4, <2>1, DesiredIsPlain DEF PassedInv
  <1>5. \A x \in CRs : cr[x] # None => Uses(x, inst)
    BY DEF TopologyInv, Uses
  <1> QED BY <1>1, <1>4, <1>5

\* The types of what the invariant compares.
LEMMA ConsentTypes ==
  ASSUME TypeOK
  PROVE  /\ release \in Releases /\ release \in Nat /\ inst \in Inputs
         /\ Current \in Tokens /\ Current # None /\ Current.release = release
         /\ \A x \in CRs : /\ RenderPlain(x, release, inst) \in Specs(x)
                           /\ record.spec[x] # None => record.spec[x] \in Specs(x)
                           /\ cr[x] # None => cr[x].spec \in Specs(x)
  <1>1. release \in Releases /\ inst \in Inputs
    BY DEF TypeOK, InstanceOK
  <1>2. release \in Nat
    BY <1>1, LayoutAssumption DEF Releases
  <1>3. PlaintextKeeper \in Wirings
    BY DEF PlaintextKeeper, Wirings, Ports, KeeperPort, KeeperSecurePort,
       KeeperReference, NoKeeper
  <1>4. Current \in Tokens
    BY <1>1, <1>3, RenderTypes DEF Current
  <1>5. Current.release = release
    BY DEF Current, Token
  <1>6. \A x \in CRs : RenderPlain(x, release, inst) \in Specs(x)
    BY <1>1, RenderPlainFields
  <1>7. \A x \in CRs : /\ record.spec[x] # None => record.spec[x] \in Specs(x)
                       /\ cr[x] # None => cr[x].spec \in Specs(x)
    BY DEF TypeOK, RecordOK, ClusterOK, Installations
  <1> QED BY <1>1, <1>2, <1>4, <1>5, <1>6, <1>7, NoneAssumption

\* The record, the CR and the rendering stay in order.
LEMMA QuietNext ==
  ASSUME LayoutsAdvance, TypeOK, TypeOK', PlainInv, TopologyInv, ConsentInv, [Next]_vars
  PROVE  QuietInv'
  <1>0. TokensInv /\ HandInv /\ PassedInv /\ QuietInv
    BY DEF ConsentInv
  <1>t. \A x \in CRs : /\ RenderPlain(x, release, inst) \in Specs(x)
                       /\ RenderPlain(x, release, inst) # None
                       /\ record.spec[x] # None => record.spec[x] \in Specs(x)
                       /\ cr[x] # None => cr[x].spec \in Specs(x)
    BY ConsentTypes, NoneAssumption DEF Specs
  <1>o. \A x \in CRs : \A a, b, c \in Specs(x) :
          /\ LaterRelease(x, a, a)
          /\ LaterRelease(x, a, b) /\ LaterRelease(x, b, c) => LaterRelease(x, a, c)
    BY LaterReleaseIsOrder
  <1>1. ASSUME UNCHANGED <<inst, release, record>>, edited' = edited,
               \A x \in CRs : /\ cr'[x] # None <=> cr[x] # None
                              /\ cr[x] # None => cr'[x].spec = cr[x].spec
        PROVE  QuietInv'
    BY <1>0, <1>1 DEF QuietInv
  <1>2. CASE StartSync \/ Plan
    <2>1. UNCHANGED <<inst, release, record, cr, edited>>
      BY <1>2 DEF StartSync, Plan, instance, cluster
    <2> QED BY <1>1, <2>1
  <1>3. CASE Edit
    BY <1>3 DEF Edit, QuietInv
  <1>4. ASSUME NEW x \in CRs, Apply(x) PROVE QuietInv'
    <2>1. /\ UNCHANGED <<inst, release, edited, record>>
          /\ copy # None /\ plan # None
          /\ pc = At(x, "applyCHK", "applyCHI")
          /\ cr'[x] # None /\ cr'[x].spec = Desired(x)
          /\ \A y \in CRs \ {x} : cr'[y] = cr[y]
      BY <1>4, ApplyEffect
    <2>2. CASE ~edited
      <3>1. Uses(x, inst) /\ Desired(x) = RenderPlain(x, release, inst)
        BY <1>0, <2>1, <2>2, QuietPlan, StepUses
      <3>2. /\ cr[x] # None
            /\ record.spec[x] # None /\ record.inputs[x] \in {None, inst}
            /\ LaterRelease(x, record.spec[x], cr[x].spec)
            /\ LaterRelease(x, cr[x].spec, RenderPlain(x, release, inst))
        BY <1>0, <2>2, <3>1 DEF QuietInv
      <3>3. /\ LaterRelease(x, record.spec[x], RenderPlain(x, release, inst))
            /\ LaterRelease(x, RenderPlain(x, release, inst), RenderPlain(x, release, inst))
        <4>1. /\ record.spec[x] \in Specs(x) /\ cr[x].spec \in Specs(x)
              /\ RenderPlain(x, release, inst) \in Specs(x)
          BY <1>t, <3>2
        <4> QED BY <1>o, <3>2, <4>1
      <3> QED BY <1>0, <2>1, <2>2, <3>1, <3>2, <3>3 DEF QuietInv
    <2> QED BY <2>1, <2>2 DEF QuietInv
  <1>5. CASE \E x \in CRs : PickUp(x) \/ Finish(x) \/ Abort(x) \/ Resync(x)
    BY <1>1, <1>5, PickUpEffect, ReportEffect DEF instance
  <1>6. CASE \E x \in CRs : \E p \in PodsOf(x) : Roll(x, p)
    BY <1>1, <1>6 DEF Roll, instance
  <1>7. CASE AfterPlan
    <2>1. /\ UNCHANGED <<inst, release, edited, cr>> /\ copy # None /\ plan # None
      BY <1>7, AfterPlanEffect DEF instance, cluster
    <2>2. CASE UNCHANGED record
      BY <1>1, <2>1, <2>2
    <2>3. ASSUME NEW x \in CRs, Save(x) PROVE QuietInv'
      <3>1. /\ record' = Recorded(record, x, Desired(x), plan.inputs, plan.token)
            /\ record \in Records /\ pc = At(x, "saveCHK", "saveCHI")
        BY <2>3 DEF Save, TypeOK, RecordOK
      <3>2. /\ record'.spec[x] = Desired(x) /\ record'.inputs[x] = plan.inputs
            /\ \A y \in CRs \ {x} : /\ record'.spec[y] = record.spec[y]
                                    /\ record'.inputs[y] = record.inputs[y]
        BY <3>1 DEF Recorded, Records
      <3>3. cr[x] # None /\ cr[x].spec = Desired(x)
        BY <1>0, <3>1 DEF PassedInv
      <3>4. LaterRelease(x, Desired(x), Desired(x)) /\ Desired(x) # None
        <4>1. Desired(x) \in Specs(x)
          BY <1>t, <3>3
        <4> QED BY <1>o, <4>1, NoneAssumption DEF Specs
      <3>5. ~edited => plan.inputs = inst
        BY <1>0, <2>1, QuietPlan
      <3> QED BY <1>0, <2>1, <3>2, <3>3, <3>4, <3>5 DEF QuietInv
    <2> QED BY <1>7, <2>2, <2>3 DEF AfterPlan, Hold, CheckCHK, CheckCHI, DeleteTLS
  <1>8. CASE Ends
    <2>1. UNCHANGED <<inst, cr, record>>
      BY <1>8, EndsEffect DEF cluster
    <2>2. CASE PublishWait \/ Fail
      BY <1>1, <2>1, <2>2 DEF PublishWait, Fail, instance
    <2>3. CASE PublishDone
      <3>1. UNCHANGED release /\ pc = "done" /\ plan # None
        BY <2>3 DEF PublishDone, TypeOK, SyncOK
      <3>2. CASE ~edited
        <4>1. edited' = edited
          BY <2>3, <3>2 DEF PublishDone, TypeOK, InstanceOK
        <4> QED BY <1>1, <2>1, <3>1, <4>1
      <3>3. CASE edited /\ ~edited'
        <4>1. \A x \in CRs :
                /\ RenderPlain(x, release, inst) # None
                /\ LaterRelease(x, RenderPlain(x, release, inst),
                                RenderPlain(x, release, inst))
          BY <1>t, <1>o
        <4> QED BY <1>0, <2>1, <2>3, <3>1, <3>3, <4>1, ReportedDone DEF QuietInv
      <3> QED BY <3>2, <3>3 DEF QuietInv
    <2>4. CASE Upgrade
      <3>1. release' = release + 1 /\ edited' = edited
        BY <2>4 DEF Upgrade
      <3>2. release' \in Releases /\ release <= release'
        BY <3>1, ConsentTypes DEF TypeOK, InstanceOK
      <3>3. \A x \in CRs :
              /\ LaterRelease(x, RenderPlain(x, release, inst), RenderPlain(x, release', inst))
              /\ RenderPlain(x, release', inst) \in Specs(x)
        BY <3>2, ConsentTypes, UpgradeIsLater, RenderPlainFields
      <3>4. ASSUME NEW x \in CRs, cr[x] # None,
                   LaterRelease(x, cr[x].spec, RenderPlain(x, release, inst))
            PROVE  LaterRelease(x, cr[x].spec, RenderPlain(x, release', inst))
        <4> DEFINE next == RenderPlain(x, release', inst)
        <4>1. /\ cr[x].spec \in Specs(x) /\ next \in Specs(x)
              /\ RenderPlain(x, release, inst) \in Specs(x)
              /\ LaterRelease(x, RenderPlain(x, release, inst), next)
          BY <1>t, <3>3, <3>4
        <4> HIDE DEF next
        <4>2. LaterRelease(x, cr[x].spec, next)
          BY <1>o, <3>4, <4>1
        <4> QED BY <4>2 DEF next
      <3> QED BY <1>0, <2>1, <3>1, <3>4 DEF QuietInv
    <2> QED BY <1>8, <2>2, <2>3, <2>4 DEF Ends
  <1>9. CASE Aside \/ UNCHANGED vars
    <2>1. UNCHANGED <<inst, release, edited, cr, record>>
      BY <1>9, AsideEffect DEF vars, instance, cluster
    <2> QED BY <1>1, <2>1
  <1> QED BY <1>2, <1>3, <1>4, <1>5, <1>6, <1>7, <1>8, <1>9, StepCases

\* A change under way stays one that was approved.
LEMMA AskedNext ==
  ASSUME TypeOK, TypeOK', PlainInv, TopologyInv, ConsentInv, [Next]_vars
  PROVE  AskedInv'
  <1>0. TokensInv /\ HandInv /\ PassedInv /\ QuietInv /\ AskedInv
    BY DEF ConsentInv
  <1>1. ASSUME UNCHANGED <<inst, release>>
        PROVE  /\ Current' = Current
               /\ \A m : Approves(m)' <=> Approves(m)
    <2>1. Current' = Current
      BY <1>1 DEF Current
    <2> QED BY <2>1, Zenon DEF Approves
  \* What is to be shown for the cases that keep the Instance and the release.
  <1>2. ASSUME UNCHANGED <<inst, release>>,
               ~edited' =>
                 /\ maint'.approved = Current => pending' \in {None, Current}
                 /\ copy' # None => /\ copy'.maint.auto => maint'.auto
                                    /\ copy'.maint.approved = Current =>
                                         maint'.approved = Current
                 /\ record'.target = Current =>
                      AllCurrent' \/ (/\ Approves(maint')
                                      /\ copy' # None => Approves(copy'.maint))
                 /\ \A x \in CRs : pc' = At(x, "saveCHK", "saveCHI") =>
                      \/ record'.spec[x] = Desired(x)' \/ record'.target = Current
                      \/ Approves(copy'.maint)
        PROVE  AskedInv'
    <2>1. Current' = Current /\ \A m : Approves(m)' <=> Approves(m)
      BY <1>1, <1>2
    <2>2. Approves(maint)' <=> Approves(maint')
      BY <2>1, Zenon DEF Approves
    <2>3. Approves(copy.maint)' <=> Approves(copy'.maint)
      BY <2>1, Zenon DEF Approves
    <2> QED BY <1>2, <2>1, <2>2, <2>3, Zenon DEF AskedInv
  <1>3. ASSUME UNCHANGED <<inst, release, edited, maint, record>>,
               pending' \in {pending, None} \/ (~edited => pending' = Current),
               copy' = copy \/ copy' = None,
               AllCurrent => AllCurrent',
               \A x \in CRs : pc' # At(x, "saveCHK", "saveCHI")
        PROVE  AskedInv'
    <2>1. CASE ~edited
      <3>1. /\ maint.approved = Current => pending \in {None, Current}
            /\ copy # None => /\ copy.maint.auto => maint.auto
                              /\ copy.maint.approved = Current => maint.approved = Current
            /\ record.target = Current =>
                 AllCurrent \/ (Approves(maint) /\ (copy # None => Approves(copy.maint)))
        BY <1>0, <2>1, Zenon DEF AskedInv
      <3>2. maint.approved = Current => pending' \in {None, Current}
        BY <1>3, <2>1, <3>1
      <3>3. CASE copy' = copy
        BY <1>2, <1>3, <3>1, <3>2, <3>3
      <3>4. CASE copy' = None
        BY <1>2, <1>3, <3>1, <3>2, <3>4
      <3> QED BY <1>3, <3>3, <3>4
    <2>2. CASE edited
      BY <1>3, <2>2 DEF AskedInv
    <2> QED BY <2>1, <2>2
  <1>4. ASSUME UNCHANGED <<inst, release>>,
               \A x \in CRs : /\ cr'[x] # None <=> cr[x] # None
                              /\ cr[x] # None => cr'[x].spec = cr[x].spec
        PROVE  AllCurrent => AllCurrent'
    BY <1>4 DEF AllCurrent
  <1>5. CASE StartSync
    <2>1. /\ UNCHANGED <<inst, release, edited, maint, cr, record, pending>>
          /\ copy'.maint = maint /\ pc' \in {"plan", "wait"}
      BY <1>5 DEF StartSync, instance, cluster, status
    <2>2. ~edited =>
            /\ maint.approved = Current => pending \in {None, Current}
            /\ record.target = Current => AllCurrent \/ Approves(maint)
      BY <1>0, Zenon DEF AskedInv
    <2>3. AllCurrent => AllCurrent'
      BY <1>4, <2>1
    <2>4. \A x \in CRs : pc' # At(x, "saveCHK", "saveCHI")
      BY <2>1 DEF At
    <2> QED BY <1>2, <2>1, <2>2, <2>3, <2>4
  <1>6. CASE Plan
    <2>1. /\ UNCHANGED <<inst, release, edited, maint, cr, record, pending, copy>>
          /\ pc' \in {"applyCHK", "applyCHI"}
      BY <1>6 DEF Plan, instance, cluster, status
    <2>2. \A x \in CRs : pc' # At(x, "saveCHK", "saveCHI")
      BY <2>1 DEF At
    <2> QED BY <1>3, <1>4, <2>1, <2>2
  <1>7. CASE Edit
    BY <1>7 DEF Edit, AskedInv
  <1>8. ASSUME UNCHANGED <<inst, release, edited, maint, record, pending, copy, plan, pc>>,
               \A x \in CRs : /\ cr'[x] # None <=> cr[x] # None
                              /\ cr[x] # None => cr'[x].spec = cr[x].spec
        PROVE  AskedInv'
    <2>1. AllCurrent => AllCurrent'
      BY <1>4, <1>8
    <2>2. \A x \in CRs : Desired(x)' = Desired(x)
      BY <1>8 DEF Desired
    <2>3. ~edited =>
            /\ maint.approved = Current => pending \in {None, Current}
            /\ copy # None => /\ copy.maint.auto => maint.auto
                              /\ copy.maint.approved = Current => maint.approved = Current
            /\ record.target = Current =>
                 AllCurrent \/ (Approves(maint) /\ (copy # None => Approves(copy.maint)))
            /\ \A x \in CRs : pc = At(x, "saveCHK", "saveCHI") =>
                 record.spec[x] = Desired(x) \/ record.target = Current \/ Approves(copy.maint)
      BY <1>0, Zenon DEF AskedInv
    <2> QED BY <1>2, <1>8, <2>1, <2>2, <2>3
  <1>9. CASE \E x \in CRs : PickUp(x) \/ Finish(x) \/ Abort(x) \/ Resync(x)
    BY <1>8, <1>9, PickUpEffect, ReportEffect DEF instance, sync, status
  <1>10. CASE \E x \in CRs : \E p \in PodsOf(x) : Roll(x, p)
    BY <1>8, <1>10 DEF Roll, instance, sync, status
  <1>11. ASSUME NEW x \in CRs, Apply(x) PROVE AskedInv'
    <2>1. /\ UNCHANGED <<inst, release, edited, maint, record, pending, copy>>
          /\ copy # None /\ plan # None /\ plan'.step = plan.step
          /\ pc = At(x, "applyCHK", "applyCHI")
          /\ pc' \in {At(x, "saveCHK", "saveCHI"), At(x, "checkCHK", "checkCHI")}
          /\ cr'[x] # None /\ cr'[x].spec = Desired(x)
          /\ \A y \in CRs \ {x} : cr'[y] = cr[y]
      BY <1>11, ApplyEffect DEF status
    <2>2. CASE edited
      BY <2>1, <2>2 DEF AskedInv
    <2>3. CASE ~edited
      <3>1. /\ plan.inputs = inst /\ plan.token = Current
            /\ Uses(x, inst) /\ Desired(x) = RenderPlain(x, release, inst)
            /\ plan.approved => Approves(copy.maint)
        BY <1>0, <2>1, <2>3, QuietPlan, StepUses
      <3>2. /\ cr[x] # None
            /\ record.spec[x] # None /\ record.inputs[x] \in {None, inst}
        BY <1>0, <2>3, <3>1 DEF QuietInv
      <3>3. \/ record.spec[x] = Desired(x) \/ record.target = Current
            \/ Approves(copy.maint)
        <4>1. MayApplyUnasked(x) \/ plan.approved
          BY <1>11 DEF Apply
        <4>2. MayApplyUnasked(x) => record.spec[x] = Desired(x) \/ record.target = Current
          BY <3>1, <3>2 DEF MayApplyUnasked, Unasked, Unchanged, UserChanged
        <4> QED BY <3>1, <4>1, <4>2
      <3>4. \A y \in CRs : pc' = At(y, "saveCHK", "saveCHI") => y = x
        BY <2>1 DEF At
      <3>5. Desired(x)' = Desired(x)
        BY <2>1 DEF Desired
      <3>6. AllCurrent => AllCurrent'
        BY <2>1, <3>1 DEF AllCurrent
      <3>7. /\ maint.approved = Current => pending \in {None, Current}
            /\ copy # None => /\ copy.maint.auto => maint.auto
                              /\ copy.maint.approved = Current => maint.approved = Current
            /\ record.target = Current =>
                 AllCurrent \/ (Approves(maint) /\ (copy # None => Approves(copy.maint)))
        BY <1>0, <2>3, Zenon DEF AskedInv
      <3> QED BY <1>2, <2>1, <3>3, <3>4, <3>5, <3>6, <3>7
    <2> QED BY <2>2, <2>3
  <1>12. CASE AfterPlan
    <2>1. /\ UNCHANGED <<inst, release, edited, maint, cr, pending, copy>>
          /\ copy # None /\ plan # None
          /\ pc' \notin {"saveCHK", "saveCHI"}
      BY <1>12, AfterPlanEffect DEF instance, cluster, status
    <2>2. /\ \A x \in CRs : pc' # At(x, "saveCHK", "saveCHI")
          /\ AllCurrent => AllCurrent'
      BY <1>4, <2>1 DEF At
    <2>3. CASE UNCHANGED record
      BY <1>3, <2>1, <2>2, <2>3
    <2>4. ASSUME NEW x \in CRs, Save(x), ~edited PROVE AskedInv'
      <3>1. /\ record' = Recorded(record, x, Desired(x), plan.inputs, plan.token)
            /\ pc = At(x, "saveCHK", "saveCHI")
        BY <2>4 DEF Save
      <3>2. record'.target = IF record.spec[x] = Desired(x) THEN record.target
                             ELSE plan.token
        BY <3>1 DEF Recorded, Unchanged
      <3>3. plan.token = Current
        BY <1>0, <2>1, <2>4, QuietPlan
      <3>4. /\ maint.approved = Current => pending \in {None, Current}
            /\ copy # None => /\ copy.maint.auto => maint.auto
                              /\ copy.maint.approved = Current => maint.approved = Current
            /\ record.target = Current =>
                 AllCurrent \/ (Approves(maint) /\ (copy # None => Approves(copy.maint)))
            /\ record.spec[x] = Desired(x) \/ record.target = Current \/ Approves(copy.maint)
        BY <1>0, <2>4, <3>1, Zenon DEF AskedInv
      <3>5. Approves(copy.maint) => Approves(maint)
        BY <2>1, <3>4, Zenon DEF Approves
      <3>6. record'.target = Current => AllCurrent \/ (Approves(maint) /\ Approves(copy.maint))
        BY <2>1, <3>2, <3>3, <3>4, <3>5
      <3> QED BY <1>2, <2>1, <2>2, <3>4, <3>6
    <2>5. ASSUME edited PROVE AskedInv'
      BY <2>1, <2>5 DEF AskedInv
    <2> QED BY <1>12, <2>3, <2>4, <2>5 DEF AfterPlan, Hold, CheckCHK, CheckCHI, DeleteTLS
  <1>13. CASE Ends
    <2>1. /\ UNCHANGED <<inst, maint, cr, record>>
          /\ copy' = None /\ pc' = "idle"
      BY <1>13, EndsEffect DEF EndSync, cluster
    <2>2. \A x \in CRs : pc' # At(x, "saveCHK", "saveCHI")
      BY <2>1 DEF At
    <2>3. UNCHANGED release => (AllCurrent => AllCurrent')
      BY <1>4, <2>1
    <2>4. ASSUME UNCHANGED <<release, edited>>,
                 pending' \in {pending, None} \/ (plan # None /\ pending' = plan.token)
          PROVE  AskedInv'
      <3>1. pending' \in {pending, None} \/ (~edited => pending' = Current)
        BY <1>0, <2>4, QuietPlan
      <3> QED BY <1>3, <2>1, <2>2, <2>3, <2>4, <3>1
    <2>5. CASE PublishWait
      BY <2>4, <2>5 DEF PublishWait, HeldToken, instance
    <2>6. CASE Fail
      BY <2>4, <2>6 DEF Fail, instance, status
    <2>7. CASE PublishDone
      <3>1. /\ UNCHANGED release /\ pc = "done" /\ plan # None
            /\ pending' = HeldToken
        BY <2>7 DEF PublishDone, TypeOK, SyncOK
      <3>2. pending' = None \/ pending' = plan.token
        BY <3>1 DEF HeldToken
      <3>3. CASE edited' = edited
        BY <2>4, <3>1, <3>2, <3>3
      <3>4. CASE edited /\ ~edited'
        <4>1. pending' = None /\ \A x \in CRs :
                cr[x] # None => cr[x].spec = RenderPlain(x, release, inst)
          BY <1>0, <2>7, <3>4, ReportedDone
        <4>2. AllCurrent'
          BY <2>1, <3>1, <4>1 DEF AllCurrent
        <4> QED BY <1>2, <2>1, <2>2, <3>1, <4>1, <4>2
      <3>5. edited' = edited \/ (edited /\ ~edited')
        BY <2>7 DEF PublishDone, TypeOK, InstanceOK
      <3> QED BY <3>3, <3>4, <3>5
    <2>8. CASE Upgrade
      <3>1. release' = release + 1
        BY <2>8 DEF Upgrade
      <3>2. release \in Nat /\ Current'.release = release'
        <4>1. Current'.release = release'
          BY DEF Current, Token
        <4> QED BY <4>1, ConsentTypes
      <3>3. /\ Current' # None
            /\ \A t \in Tokens : t.release <= release => t # Current'
        <4>1. \A t \in Tokens : t.release \in Nat
          BY LayoutAssumption DEF Tokens, Releases
        <4>2. \A t \in Tokens : t.release <= release => t # Current'
          BY <3>1, <3>2, <4>1
        <4>3. PlaintextKeeper \in Wirings /\ release' \in Releases /\ inst \in Inputs
          BY DEF PlaintextKeeper, Wirings, Ports, KeeperPort, KeeperSecurePort,
             KeeperReference, NoKeeper, TypeOK, InstanceOK
        <4>4. Current' \in Tokens
          BY <2>1, <4>3, RenderTypes DEF Current
        <4> QED BY <4>2, <4>4, NoneAssumption
      <3>4. maint.approved # Current' /\ record.target # Current'
        <4>1. /\ maint.approved # None => maint.approved \in Tokens
              /\ record.target # None => record.target \in Tokens
          BY DEF TypeOK, InstanceOK, Maintenances, RecordOK, Records
        <4> QED BY <1>0, <3>3, <4>1 DEF TokensInv
      <3> QED BY <2>1, <2>2, <3>4 DEF AskedInv
    <2> QED BY <1>13, <2>5, <2>6, <2>7, <2>8 DEF Ends
  <1>14. CASE Approve \/ AllowRestarts
    <2>1. /\ UNCHANGED <<inst, release, edited, cr, record, pending, copy, plan, pc>>
          /\ maint \in Maintenances
          /\ \/ pending # None /\ maint' = [maint EXCEPT !.approved = pending]
             \/ maint' = [maint EXCEPT !.auto = TRUE]
      BY <1>14 DEF Approve, AllowRestarts, cluster, status, TypeOK, InstanceOK
    <2>2. /\ maint'.auto = maint.auto \/ maint'.auto = TRUE
          /\ maint'.approved = maint.approved
               \/ (pending # None /\ maint'.approved = pending)
      BY <2>1 DEF Maintenances
    <2>3. /\ AllCurrent => AllCurrent'
          /\ \A x \in CRs : Desired(x)' = Desired(x)
      BY <1>4, <2>1 DEF Desired
    <2>4. CASE ~edited
      <3>1. /\ maint.approved = Current => pending \in {None, Current}
            /\ copy # None => /\ copy.maint.auto => maint.auto
                              /\ copy.maint.approved = Current => maint.approved = Current
            /\ record.target = Current =>
                 AllCurrent \/ (Approves(maint) /\ (copy # None => Approves(copy.maint)))
            /\ \A x \in CRs : pc = At(x, "saveCHK", "saveCHI") =>
                 record.spec[x] = Desired(x) \/ record.target = Current \/ Approves(copy.maint)
        BY <1>0, <2>4, Zenon DEF AskedInv
      <3>2. /\ maint.approved = Current => maint'.approved = Current
            /\ maint'.approved = Current => pending \in {None, Current}
        BY <2>2, <3>1
      <3>3. maint.auto => maint'.auto
        BY <2>2, Zenon
      <3>4. Approves(maint) => Approves(maint')
        BY <3>2, <3>3, Zenon DEF Approves
      <3> QED BY <1>2, <2>1, <2>3, <3>1, <3>2, <3>3, <3>4
    <2>5. CASE edited
      BY <2>1, <2>5 DEF AskedInv
    <2> QED BY <2>4, <2>5
  <1>15. CASE Reject \/ Issue \/ UNCHANGED vars
    BY <1>8, <1>15 DEF Reject, Issue, vars, instance, cluster, sync, status
  <1> QED BY <1>5, <1>6, <1>7, <1>9, <1>10, <1>11, <1>12, <1>13, <1>14, <1>15, StepCases
          DEF Aside

LEMMA ConsentInvariant ==
  ASSUME KeeperIsPlain, KeepsReplicated, LayoutsAdvance
  PROVE  Spec => []ConsentInv
  <1>1. TypeOK /\ TypeOK' /\ PlainInv /\ CertificateInv /\ ConsentInv /\ [Next]_vars
          => ConsentInv'
    BY ReconcileNext, QuietNext, AskedNext DEF ConsentInv, CertificateInv
  <1>2. Init => ConsentInv
    BY ConsentInit
  <1> QED BY <1>1, <1>2, TypeCorrect, PlainInvariant, CertificateInvariant, PTL DEF Spec

\* Wherever the provider fails, restarts or is upgraded, between a CR and its
\* record too, and whatever the user edits meanwhile, what the gate lets
\* through unasked is what the user edited: a CR is changed on behalf of a
\* release only with the user's approval of that very change, or allowance.
THEOREM RestartsAreConsented ==
  ASSUME KeeperIsPlain, KeepsReplicated, LayoutsAdvance
  PROVE  Spec => ChangesAreConsented
  <1> DEFINE Agreed == \A x \in CRs :
               cr[x] # None /\ cr'[x] # None /\ cr'[x].spec # cr[x].spec => Consented
  <1>1. ASSUME TypeOK, PlainInv, TopologyInv, ConsentInv, NEW x \in CRs, Apply(x),
               cr[x] # None, Desired(x) # cr[x].spec, ~edited
        PROVE  Approves(copy.maint) /\ plan.token = Current
    <2>0. HandInv /\ QuietInv /\ AskedInv
      BY <1>1 DEF ConsentInv
    <2>1. /\ plan # None /\ copy # None
          /\ pc = At(x, "applyCHK", "applyCHI")
          /\ MayApplyUnasked(x) \/ plan.approved
      BY <1>1, ApplyEffect DEF Apply
    <2>2. /\ plan.inputs = inst /\ plan.token = Current
          /\ Uses(x, inst) /\ Desired(x) = RenderPlain(x, release, inst)
          /\ plan.approved => Approves(copy.maint)
      BY <1>1, <2>0, <2>1, QuietPlan, StepUses
    <2>3. /\ record.spec[x] # None /\ record.inputs[x] \in {None, inst}
          /\ LaterRelease(x, record.spec[x], cr[x].spec)
          /\ LaterRelease(x, cr[x].spec, Desired(x))
      BY <1>1, <2>0, <2>2 DEF QuietInv
    <2>4. record.spec[x] # Desired(x)
      <3>1. Desired(x) \in Specs(x) /\ cr[x].spec \in Specs(x)
        BY <1>1, <2>2, ConsentTypes
      <3>2. \A a, b \in Specs(x) : LaterRelease(x, a, b) /\ LaterRelease(x, b, a) => a = b
        BY LaterReleaseIsOrder
      <3> QED BY <1>1, <2>3, <3>1, <3>2
    <2>5. record.target = Current => Approves(copy.maint)
      <3>1. ~AllCurrent
        BY <1>1, <2>2 DEF AllCurrent
      <3> QED BY <1>1, <2>0, <2>1, <3>1 DEF AskedInv
    <2>6. MayApplyUnasked(x) => record.target = Current
      BY <1>1, <2>2, <2>3, <2>4 DEF MayApplyUnasked, Unasked, Unchanged, UserChanged
    <2> QED BY <2>1, <2>2, <2>5, <2>6
  <1>2. ASSUME TypeOK, PlainInv, TopologyInv, ConsentInv, [Next]_vars PROVE Agreed
    <2>1. ASSUME NEW x \in CRs, Apply(x) PROVE Agreed
      <3>1. /\ cr'[x].spec = Desired(x) /\ \A y \in CRs \ {x} : cr'[y] = cr[y]
        BY <1>2, <2>1, ApplyEffect
      <3>2. cr[x] # None /\ Desired(x) # cr[x].spec /\ ~edited =>
              copy.maint.auto \/ copy.maint.approved = plan.token
        <4>1. cr[x] # None /\ Desired(x) # cr[x].spec /\ ~edited =>
                Approves(copy.maint) /\ plan.token = Current
          BY <1>1, <1>2, <2>1
        <4> QED BY <4>1, Zenon DEF Approves
      <3>3. cr[x] # None /\ Desired(x) # cr[x].spec => Consented
        BY <3>2, Zenon DEF Consented
      <3> QED BY <3>1, <3>3
    <2>2. CASE \E x \in CRs : PickUp(x) \/ Finish(x) \/ Abort(x) \/ Resync(x)
      <3>1. \A x \in CRs : cr[x] # None => cr'[x].spec = cr[x].spec
        BY <1>2, <2>2, PickUpEffect, ReportEffect
      <3> QED BY <3>1
    <2>3. CASE ~\E x \in CRs : \/ Apply(x) \/ PickUp(x)
                               \/ Finish(x) \/ Abort(x) \/ Resync(x)
      <3>1. UNCHANGED cr
        BY <1>2, <2>3, StepCases, AfterPlanEffect, EndsEffect, AsideEffect
           DEF StartSync, Plan, Edit, Roll, vars, cluster
      <3> QED BY <3>1
    <2> QED BY <2>1, <2>2, <2>3
  <1>3. TypeOK /\ PlainInv /\ CertificateInv /\ ConsentInv /\ [Next]_vars => [Agreed]_vars
    BY <1>2 DEF CertificateInv
  <1> QED BY <1>3, TypeCorrect, PlainInvariant, CertificateInvariant, ConsentInvariant, PTL
          DEF Spec, ChangesAreConsented
=============================================================================
