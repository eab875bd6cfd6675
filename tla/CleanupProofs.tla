---------------------------- MODULE CleanupProofs ----------------------------
(* Theorems about the deletion of an Instance, for any number of volumes,  *)
(* policy edits and failures.                                              *)
EXTENDS Cleanup, TLAPS

USE DEF CRs

\* The PVCs a list returns are volumes of the Instance.
LEMMA ListedVolumes == \A x \in CRs : ToLabel(x) \subseteq Volumes /\ Left(x) \subseteq Volumes
  BY DEF ToLabel, Left, VolumesOf, Volumes

\* The variables have their types initially, and every step keeps them, so a
\* label is a policy as the operator spells it (labelPVCs).
THEOREM CleanupTypes == Spec => []TypeOK
  <1>1. Init => TypeOK
    <2> SUFFICES ASSUME Init PROVE TypeOK
      OBVIOUS
    <2>1. cr \in [CRs -> {"live", "deleting", "gone"}] /\ pods \in [CRs -> BOOLEAN]
      BY DEF Init
    <2>2. Objects \in Seq(ObjectKinds)
      BY DEF Objects, ObjectKinds
    <2> QED BY <2>1, <2>2 DEF Init, TypeOK, Steps
  <1>2. TypeOK /\ [Next]_vars => TypeOK'
    <2> SUFFICES ASSUME TypeOK, [Next]_vars PROVE TypeOK'
      OBVIOUS
    <2> USE DEF TypeOK, provider, cluster
    <2>1. CASE Start
      BY <2>1 DEF Start, Steps
    <2>2. ASSUME NEW x \in CRs, NEW here, NEW next \in Steps, Patch(x, here, next)
          PROVE  TypeOK'
      BY <2>2 DEF Patch, Instances
    <2>3. ASSUME NEW here, NEW next \in Steps, Label(here, next)
          PROVE  TypeOK'
      <3>1. "idle" \in Steps
        BY DEF Steps
      <3>2. copy.policy \in Policies
        BY DEF Instances
      <3> QED BY <2>3, <3>1, <3>2 DEF Label, Relabelled
    <2>4. ASSUME NEW x \in CRs, NEW here, NEW next \in Steps, Delete(x, here, next)
          PROVE  TypeOK'
      BY <2>4 DEF Delete
    <2>5. CASE DeleteObject
      <3>1. pc' \in Steps /\ objects' \in Seq(ObjectKinds)
        BY <2>5 DEF DeleteObject, Steps
      <3> QED BY <2>5, <3>1 DEF DeleteObject
    <2>6. ASSUME NEW x \in CRs, NEW here, NEW next \in Steps, Await(x, here, next)
          PROVE  TypeOK'
      BY <2>6 DEF Await, Steps
    <2>7. ASSUME NEW here, NEW next \in Steps,
                 DeletePVC(here, next) \/ (\E w \in SUBSET Volumes : List(w, here, next))
          PROVE  TypeOK'
      <3>1. CASE DeletePVC(here, next)
        BY <2>7, <3>1 DEF DeletePVC
      <3>2. ASSUME NEW w \in SUBSET Volumes, List(w, here, next) PROVE TypeOK'
        BY <2>7, <3>2 DEF List
      <3> QED BY <2>7, <3>1, <3>2
    <2>8. CASE Finish \/ Fail
      <3>1. CASE Finish
        BY <2>8, <3>1 DEF Finish, Steps
      <3>2. CASE Fail
        BY <2>8, <3>2 DEF Fail, Steps
      <3> QED BY <2>8, <3>1, <3>2
    <2>9. CASE EditPolicy
      <3>1. inst' \in Instances
        BY <2>9 DEF EditPolicy, Instances
      <3> QED BY <2>9, <3>1 DEF EditPolicy
    <2>10. ASSUME NEW x \in CRs, OperatorStep(x) PROVE TypeOK'
      BY <2>10 DEF OperatorStep, EndReconcile, StopPods, Forget
    <2>11. ASSUME NEW x \in CRs, NEW v \in VolumesOf(x), Provision(x, v)
           PROVE  TypeOK'
      BY <2>11 DEF Provision, VolumesOf, Volumes
    <2>12. ASSUME NEW v \in Volumes, Purge(v) PROVE TypeOK'
      BY <2>12 DEF Purge
    <2>13. CASE Over \/ UNCHANGED vars
      BY <2>13 DEF Over, vars
    <2>14. Steps \ {"idle"} = {"patchCHI", "patchCHK", "listCHI", "labelCHI", "listCHK",
             "labelCHK", "deleteCHI", "deleteObjects", "awaitCHI", "deleteCHK",
             "awaitCHK", "leftCHI", "purgeCHI", "leftCHK", "purgeCHK", "finish"}
      BY DEF Steps
    <2>15. CASE CleanupStep
      <3>1. AfterCRs \in Steps
        BY <2>14 DEF AfterCRs
      <3>2. CASE AwaitCHI \/ Await("chk", "awaitCHK", AfterCRs)
        BY <3>1, <3>2, <2>6, <2>14 DEF AwaitCHI
      <3>3. CASE \/ List(ToLabel("chi"), "listCHI", "labelCHI")
                 \/ List(ToLabel("chk"), "listCHK", "labelCHK")
                 \/ List(Left("chi"), "leftCHI", "purgeCHI")
                 \/ List(Left("chk"), "leftCHK", "purgeCHK")
        BY <3>3, <2>7, <2>14, ListedVolumes
      <3> QED BY <2>1, <2>2, <2>3, <2>4, <2>5, <2>7, <2>8, <2>14, <2>15, <3>2, <3>3
         DEF CleanupStep
    <2> QED BY <2>8, <2>9, <2>10, <2>11, <2>12, <2>13, <2>15 DEF Next
  <1> QED BY <1>1, <1>2, PTL DEF Spec

\* Data is kept unless Delete was asked for.  RetainInv is needed because the
\* operator decides by what the CR and the PVCs say, not the Instance.
THEOREM CleanupKeepsData == Spec => []RetainKeepsData
  <1>1. Init => RetainInv
    BY DEF Init, RetainInv, Instances, Policies, Steps
  <1>2. TypeOK /\ RetainInv /\ [Next]_vars => RetainInv'
    <2> SUFFICES ASSUME TypeOK, RetainInv, [Next]_vars, ~asked' PROVE RetainInv'
      BY DEF RetainInv
    <2>0. ~asked /\ data' = data
      <3>1. CASE EditPolicy
        BY <3>1 DEF EditPolicy
      <3>2. CASE CleanupStep
        BY <3>2 DEF CleanupStep, Start, Patch, List, Label, Delete, DeleteObject,
           AwaitCHI, Await, DeletePVC, Finish
      <3>3. CASE Fail \/ Over \/ UNCHANGED vars
        BY <3>3 DEF Fail, Over, vars
      <3>4. ASSUME NEW x \in CRs, OperatorStep(x) PROVE ~asked /\ data' = data
        BY <3>4 DEF OperatorStep, EndReconcile, StopPods, Forget
      <3>5. ASSUME NEW x, NEW v, Provision(x, v) \/ Purge(v)
            PROVE  ~asked /\ data' = data
        BY <3>5 DEF Provision, Purge
      <3> QED BY <3>1, <3>2, <3>3, <3>4, <3>5 DEF Next
    <2> USE <2>0 DEF RetainInv, provider, cluster
    <2>1. CASE Start
      BY <2>1 DEF Start, Steps
    <2>2. CASE Patch("chi", "patchCHI", "patchCHK") \/ Patch("chk", "patchCHK", "listCHI")
      <3>1. CASE Patch("chi", "patchCHI", "patchCHK")
        BY <3>1 DEF Patch, Steps, TypeOK
      <3>2. CASE Patch("chk", "patchCHK", "listCHI")
        BY <3>2 DEF Patch, Steps, TypeOK
      <3> QED BY <2>2, <3>1, <3>2
    <2>3. CASE Label("labelCHI", "listCHK") \/ Label("labelCHK", "deleteCHI")
      BY <2>3, VolumesAssumption DEF Label, Relabelled, Steps, TypeOK, Volumes
    <2>31. CASE List(ToLabel("chi"), "listCHI", "labelCHI")
      BY <2>31 DEF List, ToLabel, VolumesOf, Steps, TypeOK
    <2>32. CASE List(ToLabel("chk"), "listCHK", "labelCHK")
      BY <2>32 DEF List, Steps, TypeOK
    <2>4. CASE Delete("chi", "deleteCHI", "deleteObjects")
               \/ Delete("chk", "deleteCHK", "awaitCHK")
      BY <2>4 DEF Delete, Steps, TypeOK
    <2>5. CASE DeleteObject
      BY <2>5 DEF DeleteObject, Steps
    <2>6. CASE AwaitCHI \/ Await("chk", "awaitCHK", AfterCRs)
      BY <2>6 DEF AwaitCHI, Await, AfterCRs, Steps
    <2>7. CASE \/ List(Left("chi"), "leftCHI", "purgeCHI")
               \/ List(Left("chk"), "leftCHK", "purgeCHK")
               \/ DeletePVC("purgeCHI", "leftCHK")
               \/ DeletePVC("purgeCHK", "finish")
      BY <2>7 DEF List, DeletePVC
    <2>8. CASE Finish \/ Fail
      BY <2>8 DEF Finish, Fail, Steps
    <2>9. CASE EditPolicy
      <3>1. inst'.policy = "Delete"
        BY <2>9 DEF EditPolicy, TypeOK, Instances, Policies
      <3> QED BY <2>9, <3>1 DEF EditPolicy
    <2>10. ASSUME NEW x \in CRs, OperatorStep(x) PROVE RetainInv'
      BY <2>10 DEF OperatorStep, EndReconcile, StopPods, Forget, TypeOK
    <2>11. ASSUME NEW x \in CRs, NEW v \in VolumesOf(x), Provision(x, v)
           PROVE  RetainInv'
      BY <2>11 DEF Provision, TypeOK
    <2>12. ASSUME NEW v \in Volumes, Purge(v) PROVE RetainInv'
      BY <2>12 DEF Purge, TypeOK
    <2>13. CASE Over \/ UNCHANGED vars
      BY <2>13 DEF Over, vars
    <2> QED BY <2>1, <2>2, <2>3, <2>31, <2>32, <2>4, <2>5, <2>6, <2>7, <2>8, <2>9,
       <2>10, <2>11, <2>12, <2>13 DEF Next, CleanupStep
  <1>3. RetainInv => RetainKeepsData
    BY DEF RetainInv, RetainKeepsData
  <1> QED BY <1>1, <1>2, <1>3, CleanupTypes, PTL DEF Spec

\* Keeper's pods run until ClickHouse's have stopped, whatever fails and is
\* called again in between.
THEOREM CleanupKeepsKeeper == Spec => []KeeperOutlivesClickHouse
  <1>1. Init => OrderInv
    BY DEF Init, OrderInv
  <1>2. TypeOK /\ OrderInv /\ [Next]_vars => OrderInv'
    <2> SUFFICES ASSUME TypeOK, OrderInv, [Next]_vars PROVE OrderInv'
      OBVIOUS
    <2> USE DEF OrderInv, provider, cluster, TypeOK
    <2>1. CASE Start \/ DeleteObject \/ Finish \/ Fail
      BY <2>1 DEF Start, DeleteObject, Finish, Fail
    <2>2. ASSUME NEW x \in CRs, NEW here, NEW next \in Steps \ {"deleteCHK"},
                 Patch(x, here, next) \/ Label(here, next) \/ DeletePVC(here, next)
          PROVE  OrderInv'
      BY <2>2 DEF Patch, Label, DeletePVC
    <2>21. ASSUME NEW w, NEW here, NEW next \in Steps \ {"deleteCHK"},
                  List(w, here, next)
           PROVE  OrderInv'
      BY <2>21 DEF List
    <2>3. CASE Delete("chi", "deleteCHI", "deleteObjects")
      BY <2>3 DEF Delete
    <2>4. CASE Delete("chk", "deleteCHK", "awaitCHK")
      BY <2>4 DEF Delete
    <2>5. CASE AwaitCHI \/ Await("chk", "awaitCHK", AfterCRs)
      BY <2>5 DEF AwaitCHI, Await, AfterCRs
    <2>6. CASE EditPolicy
      <3>1. inst'.replicated = inst.replicated
        BY <2>6 DEF EditPolicy, Instances
      <3> QED BY <2>6, <3>1 DEF EditPolicy
    <2>7. ASSUME NEW x \in CRs, OperatorStep(x) PROVE OrderInv'
      BY <2>7 DEF OperatorStep, EndReconcile, StopPods, Forget
    <2>8. ASSUME NEW x \in CRs, NEW v \in VolumesOf(x), Provision(x, v)
          PROVE  OrderInv'
      BY <2>8 DEF Provision
    <2>9. ASSUME NEW v \in Volumes, Purge(v) PROVE OrderInv'
      BY <2>9 DEF Purge
    <2>10. CASE Over \/ UNCHANGED vars
      BY <2>10 DEF Over, vars
    <2>11. CASE CleanupStep
      BY <2>1, <2>2, <2>21, <2>3, <2>4, <2>5, <2>11 DEF CleanupStep, Steps
    <2> QED BY <2>1, <2>6, <2>7, <2>8, <2>9, <2>10, <2>11 DEF Next
  <1>3. OrderInv => KeeperOutlivesClickHouse
    BY DEF OrderInv, KeeperOutlivesClickHouse
  <1> QED BY <1>1, <1>2, <1>3, CleanupTypes, PTL DEF Spec

\* When the Instance goes, no CR, no object and, under Delete, no PVC of it is
\* left, whatever failed and was called again (the CHK of an Instance edited to
\* standalone excepted).  LeftInv says what each call finds done by the
\* earlier ones: PVCs are listed only once nothing can create one.
THEOREM CleanupLeavesNothing == Spec => []NothingLeftBehind
  <1>1. Init => LeftInv
    BY DEF Init, LeftInv, AfterCHI, AfterCHK
  <1>2. TypeOK /\ LeftInv /\ [Next]_vars => LeftInv'
    <2> SUFFICES ASSUME TypeOK, LeftInv, [Next]_vars PROVE LeftInv'
      OBVIOUS
    <2> USE DEF LeftInv, Orphaned, AfterCHI, AfterCHK, provider, cluster, TypeOK
    <2>1. CASE Start
      BY <2>1 DEF Start
    <2>2. CASE Patch("chi", "patchCHI", "patchCHK") \/ Patch("chk", "patchCHK", "listCHI")
      BY <2>2 DEF Patch
    <2>3. CASE Label("labelCHI", "listCHK") \/ Label("labelCHK", "deleteCHI")
      BY <2>3 DEF Label
    <2>4. CASE \/ List(ToLabel("chi"), "listCHI", "labelCHI")
               \/ List(ToLabel("chk"), "listCHK", "labelCHK")
      BY <2>4 DEF List
    <2>5. CASE \/ List(Left("chi"), "leftCHI", "purgeCHI")
               \/ List(Left("chk"), "leftCHK", "purgeCHK")
      BY <2>5 DEF List, Left, VolumesOf
    <2>6. CASE Delete("chi", "deleteCHI", "deleteObjects")
      BY <2>6 DEF Delete
    <2>7. CASE Delete("chk", "deleteCHK", "awaitCHK")
      BY <2>7 DEF Delete
    <2>8. CASE DeleteObject
      BY <2>8 DEF DeleteObject
    <2>9. CASE AwaitCHI \/ Await("chk", "awaitCHK", AfterCRs)
      BY <2>9 DEF AwaitCHI, Await, AfterCRs, Instances
    <2>10. CASE DeletePVC("purgeCHI", "leftCHK") \/ DeletePVC("purgeCHK", "finish")
      BY <2>10, VolumesAssumption DEF DeletePVC, Volumes
    <2>11. CASE Finish \/ Fail
      BY <2>11 DEF Finish, Fail
    <2>12. CASE EditPolicy
      <3>1. inst'.replicated = inst.replicated
        BY <2>12 DEF EditPolicy, Instances
      <3> QED BY <2>12, <3>1 DEF EditPolicy
    <2>13. ASSUME NEW x \in CRs, OperatorStep(x) PROVE LeftInv'
      BY <2>13 DEF OperatorStep, EndReconcile, StopPods, Forget
    <2>14. ASSUME NEW x \in CRs, NEW v \in VolumesOf(x), Provision(x, v)
           PROVE  LeftInv'
      BY <2>14, VolumesAssumption DEF Provision, VolumesOf, Volumes
    <2>15. ASSUME NEW v \in Volumes, Purge(v) PROVE LeftInv'
      BY <2>15 DEF Purge, Volumes
    <2>16. CASE Over \/ UNCHANGED vars
      BY <2>16 DEF Over, vars
    <2> QED BY <2>1, <2>2, <2>3, <2>4, <2>5, <2>6, <2>7, <2>8, <2>9, <2>10, <2>11,
       <2>12, <2>13, <2>14, <2>15, <2>16 DEF Next, CleanupStep
  <1>3. LeftInv => NothingLeftBehind
    BY DEF LeftInv, NothingLeftBehind, Volumes
  <1> QED BY <1>1, <1>2, <1>3, CleanupTypes, PTL DEF Spec
=============================================================================
