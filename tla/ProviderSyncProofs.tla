------------------------- MODULE ProviderSyncProofs -------------------------
(* Theorems about the reconciliation of an Instance. *)
EXTENDS ProviderSync, KeeperWiringProofs

USE DEF CRs

(* What the model's operators return. *)

\* buildCHKWired and buildCHIWired render specs, from any Instance and wiring,
\* and newRolloutGate's token is one.
LEMMA RenderTypes ==
  ASSUME NEW r \in Releases, NEW in \in Inputs, NEW w \in Wirings
  PROVE  /\ RenderCHK(r, in, w) \in CHKSpecs
         /\ RenderCHI(r, in, w) \in CHISpecs
         /\ Token(r, in, w) \in Tokens
  <1>1. Layout[r]["chk"] \in Layouts /\ Layout[r]["chi"] \in Layouts
    BY DEF Layouts
  <1>2. NoKeeper \in Ports /\ w.port \in Ports
    BY DEF Ports, Wirings
  <1>3. RenderCHK(r, in, w) \in CHKSpecs
    BY <1>1 DEF RenderCHK, CHKSpecs, Inputs, Wirings
  <1>4. RenderCHI(r, in, w) \in CHISpecs
    BY <1>1, <1>2 DEF RenderCHI, TLSRequired, CHISpecs, Inputs
  <1>5. Token(r, in, w) \in Tokens
    BY <1>3, <1>4 DEF Token, Tokens
  <1> QED BY <1>3, <1>4, <1>5

\* liveKeeperState reads a keeperState, whether the CRs exist or not.
LEMMA LiveKeeperStateType == TypeOK => LiveKeeperState \in KeeperStates
  <1> SUFFICES ASSUME TypeOK PROVE LiveKeeperState \in KeeperStates
    OBVIOUS
  <1> DEFINE chk == cr["chk"]
             chi == cr["chi"]
  <1>1. chk # None => chk \in Installations("chk") /\ chk.spec \in CHKSpecs
    BY DEF TypeOK, ClusterOK, Installations, Specs
  <1>2. chi # None => chi \in Installations("chi") /\ chi.spec \in CHISpecs
    BY DEF TypeOK, ClusterOK, Installations, Specs
  <1>3. Complete(chk) \in BOOLEAN /\ Complete(chi) \in BOOLEAN
    BY DEF Complete
  <1>4. /\ (chk # None /\ chk.spec.secure) \in BOOLEAN
        /\ (chk # None /\ chk.spec.plaintext) \in BOOLEAN
    OBVIOUS
  <1>5. (IF chi # None THEN chi.spec.port ELSE NoKeeper) \in Ports
    BY <1>2 DEF CHISpecs, Ports
  <1> QED BY <1>3, <1>4, <1>5 DEF LiveKeeperState, KeeperStates

\* Status reports one of its four phases.
LEMMA StatusPhaseType ==
  StatusPhase \in {"Provisioning", "Updating", "Failed", "Ready"}
  BY DEF StatusPhase

\* What a reconcile with a plan applies is a spec of the CR it is applied to.
LEMMA DesiredTypes ==
  ASSUME TypeOK, plan # None, copy # None, NEW x \in CRs
  PROVE  Desired(x) \in Specs(x)
  <1>1. release \in Releases /\ copy.inst \in Inputs /\ plan.step \in Wirings
    BY DEF TypeOK, InstanceOK, SyncOK, Copies, Plans
  <1> QED BY <1>1, RenderTypes DEF Desired, Specs

\* A CR after a server-side apply is well formed.
LEMMA AppliedTypes ==
  ASSUME TypeOK, plan # None, copy # None, NEW x \in CRs
  PROVE  /\ Applied(x) \in Installations(x)
         /\ Applied(x).spec = Desired(x)
         /\ cr[x] # None => /\ Applied(x).state = cr[x].state
                            /\ Applied(x).done = cr[x].done
         /\ cr[x] = None => Applied(x).state = "New"
  <1> DEFINE stamp == Stamps(record, x, cr[x] # None,
                             cr[x] # None /\ cr[x].stamped, Desired(x))
  <1>1. Desired(x) \in Specs(x)
    BY DesiredTypes
  <1>2. stamp \in BOOLEAN
    BY DEF Stamps
  <1>3. CASE cr[x] = None
    BY <1>1, <1>2, <1>3 DEF Applied, Installations, States
  <1>4. CASE cr[x] # None
    <2>1. cr[x] \in Installations(x)
      BY <1>4 DEF TypeOK, ClusterOK
    <2>2. Applied(x) = [cr[x] EXCEPT !.spec = Desired(x), !.stamped = stamp]
      BY <1>4 DEF Applied
    <2> QED BY <1>1, <1>2, <1>4, <2>1, <2>2 DEF Installations
  <1> QED BY <1>3, <1>4

(***************************************************************************)
(* Type correctness.                                                       *)
(***************************************************************************)
\* A step that leaves a group of variables alone leaves it well typed.
LEMMA TypeFrame ==
  ASSUME TypeOK
  PROVE  /\ UNCHANGED <<inst, maint, release, edited>> => InstanceOK'
         /\ UNCHANGED cluster => ClusterOK'
         /\ UNCHANGED record => RecordOK'
         /\ UNCHANGED status => StatusOK'
         /\ UNCHANGED sync => SyncOK'
         /\ EndSync => SyncOK'
         /\ UNCHANGED protection => ProtectionOK'
         /\ UNCHANGED counters
              => (edits \in Nat /\ faults \in Nat /\ hiccups \in Nat)'
  BY DEF TypeOK, InstanceOK, ClusterOK, RecordOK, StatusOK, SyncOK, ProtectionOK,
     cluster, status, sync, protection, counters, EndSync, Steps

\* Specs for both CRs, or for the CHI alone.
SpecPairs == {s \in [CRs -> CHKSpecs \cup CHISpecs \cup {None}] :
                \A x \in CRs : s[x] \in Specs(x) \cup {None}}

\* A release renders such a pair, and so did the earlier provider.
LEMMA RendersTypes ==
  ASSUME inst \in Inputs
  PROVE  /\ \A r \in Releases, w \in Wirings : Renders(r, w) \in SpecPairs
         /\ 1 \in Releases /\ PlaintextKeeper \in Wirings
              => RenderedBefore \in SpecPairs
  <1>1. ASSUME NEW r \in Releases, NEW w \in Wirings
        PROVE  /\ Renders(r, w) \in SpecPairs
               /\ Renders(r, w)["chi"] \in CHISpecs
    <2>1. Renders(r, w)["chi"] \in CHISpecs
      BY RenderTypes DEF Renders
    <2>2. Renders(r, w)["chk"] \in CHKSpecs \cup {None}
      BY RenderTypes DEF Renders
    <2>3. Renders(r, w) \in [CRs -> CHKSpecs \cup CHISpecs \cup {None}]
      BY RenderTypes DEF Renders
    <2> QED BY <2>1, <2>2, <2>3 DEF SpecPairs, Specs
  <1>2. ASSUME 1 \in Releases, PlaintextKeeper \in Wirings
        PROVE  RenderedBefore \in SpecPairs
    <2> DEFINE s == Renders(1, PlaintextKeeper)
    <2>1. s \in SpecPairs /\ s["chi"] \in CHISpecs
      BY <1>1, <1>2
    <2>2. RenderedBefore = [s EXCEPT !["chi"] = [s["chi"] EXCEPT !.required = FALSE]]
      BY DEF RenderedBefore
    <2> HIDE DEF s
    <2>3. [s["chi"] EXCEPT !.required = FALSE] \in CHISpecs
      BY <2>1 DEF CHISpecs
    <2> QED BY <2>1, <2>2, <2>3 DEF SpecPairs, Specs
  <1> QED BY <1>1, <1>2

\* A cluster that runs such a pair, as Init has it.
LEMMA RunningCluster ==
  ASSUME NEW spec \in SpecPairs, NEW stamped \in BOOLEAN, Running(spec, stamped)
  PROVE  /\ ClusterOK
         /\ phase = "Ready"
         /\ ProtectionOK
         /\ \A x \in CRs : \A p \in PodsOf(x) : pods[p] = spec[x]
         /\ \A x \in CRs : spec[x] = None => cr[x] = None /\ work[x] = None
         /\ \A x \in CRs : spec[x] # None
              => /\ cr[x] # None /\ cr[x].spec = spec[x]
                 /\ work[x] # None /\ work[x].spec = spec[x]
  <1>1. \A x \in CRs : spec[x] \in Specs(x) \cup {None}
    BY DEF SpecPairs
  <1>3. \A x \in CRs : spec[x] = None => cr[x] = None /\ work[x] = None
    BY DEF Running
  <1>4. ASSUME NEW x \in CRs, spec[x] # None
        PROVE  /\ cr[x] \in Installations(x) /\ cr[x].spec = spec[x]
               /\ work[x] \in Renderings(x) /\ work[x].spec = spec[x]
    <2>1. cr[x] = [spec |-> spec[x], stamped |-> stamped, state |-> "Completed",
                   done |-> {IF stamped THEN spec[x] ELSE None}]
      BY <1>4 DEF Running
    <2>2. cr[x] \in Installations(x) /\ cr[x].spec = spec[x]
      BY <1>1, <1>4, <2>1 DEF Installations, States
    <2>3. work[x] = [spec |-> spec[x], stamped |-> stamped]
      BY <1>4 DEF Running
    <2>4. work[x] \in Renderings(x) /\ work[x].spec = spec[x]
      BY <1>1, <1>4, <2>3 DEF Renderings
    <2> QED BY <2>2, <2>4
  <1>5. \A x \in CRs : \A p \in PodsOf(x) : pods[p] = spec[x]
    BY PodsAssumption DEF Running, PodsOf, Pods
  <1>6. DOMAIN cr = CRs /\ DOMAIN work = CRs /\ DOMAIN pods = Pods
    BY DEF Running
  <1>7. \A x \in CRs : spec[x] # None => cr[x] # None /\ work[x] # None
    BY <1>4, NoneAssumption
  <1>8. ClusterOK
    BY <1>1, <1>3, <1>4, <1>5, <1>6, <1>7 DEF ClusterOK
  <1>9. phase = "Ready" /\ ProtectionOK
    BY DEF Running, PoliciesFor, ProtectionOK
  <1> QED BY <1>3, <1>4, <1>5, <1>7, <1>8, <1>9

\* Every initial situation is well typed.
LEMMA TypeInit == Init => TypeOK
  <1> SUFFICES ASSUME Init PROVE TypeOK
    OBVIOUS
  <1>1. inst \in Inputs
    BY DEF Init
  <1>2. /\ SyncOK
        /\ edits \in Nat /\ faults \in Nat /\ hiccups \in Nat
        /\ maint \in Maintenances
        /\ pending \in Tokens \cup {None}
    BY DEF Init, Fresh, SyncOK, Steps, Maintenances
  <1>3. ASSUME New PROVE TypeOK
    <2>1. InstanceOK /\ StatusOK
      BY <1>1, <1>2, <1>3, LayoutAssumption DEF New, InstanceOK, StatusOK, Releases
    <2>2. ClusterOK
      BY <1>3 DEF New, ClusterOK, PodsOf, Pods
    <2>3. RecordOK
      BY <1>3 DEF New, RecordOK, Records, EmptyRecord
    <2> QED BY <1>2, <1>3, <2>1, <2>2, <2>3 DEF New, TypeOK, ProtectionOK
  <1>4. 1 \in Releases /\ LastRelease \in Releases
    BY LayoutAssumption DEF Releases
  <1>5. ASSUME NEW r \in Releases, Steady(r) PROVE TypeOK
    <2>1. Settled(inst) \in Wirings
      BY <1>1 DEF Settled, Wirings, Inputs, Ports, KeeperPort, KeeperSecurePort,
         KeeperReference, NoKeeper
    <2>2. Renders(r, Settled(inst)) \in SpecPairs
      BY <1>1, <2>1, RendersTypes
    <2>3. ClusterOK /\ phase = "Ready" /\ ProtectionOK
      BY <1>5, <2>2, RunningCluster DEF Steady
    <2>4. Token(r, inst, Settled(inst)) \in Tokens
      BY <1>1, <2>1, RenderTypes
    <2>5. RecordOK
      BY <1>1, <1>5, <2>2, <2>4 DEF Steady, RecordOK, Records, SpecPairs
    <2>6. InstanceOK /\ StatusOK
      BY <1>1, <1>2, <1>5, <2>3 DEF Steady, InstanceOK, StatusOK
    <2> QED BY <1>2, <2>3, <2>5, <2>6 DEF TypeOK
  <1>6. ASSUME NEW recorded \in BOOLEAN, TakenOver(recorded) PROVE TypeOK
    <2>1. 2 \in Releases /\ PlaintextKeeper \in Wirings
      BY <1>6, LayoutAssumption DEF TakenOver, Releases, PlaintextKeeper, Wirings, Ports,
         KeeperPort, KeeperSecurePort, KeeperReference, NoKeeper
    <2>2. RenderedBefore \in SpecPairs
      BY <1>1, <1>4, <2>1, RendersTypes
    <2>3. ClusterOK /\ phase = "Ready" /\ ProtectionOK
      BY <1>6, <2>2, RunningCluster DEF TakenOver
    <2>4. RecordOK
      BY <1>6, <2>2 DEF TakenOver, RecordOK, Records, EmptyRecord, SpecPairs
    <2>5. InstanceOK /\ StatusOK
      BY <1>1, <1>2, <1>6, <2>1, <2>3 DEF TakenOver, InstanceOK, StatusOK
    <2> QED BY <1>2, <2>3, <2>4, <2>5 DEF TypeOK
  <1> QED BY <1>3, <1>4, <1>5, <1>6 DEF Init

\* Every step keeps the types, one case per action.
LEMMA TypeNext == TypeOK /\ [Next]_vars => TypeOK'
  <1> SUFFICES ASSUME TypeOK, [Next]_vars PROVE TypeOK'
    OBVIOUS
  <1>1. CASE StartSync
    <2>1. copy' \in Copies
      BY <1>1 DEF StartSync, EnsureTLS, TypeOK, InstanceOK, Copies
    <2>2. SyncOK'
      BY <1>1, <2>1, NoneAssumption DEF StartSync, EnsureTLS, TypeOK, SyncOK, Steps
    <2>3. ProtectionOK'
      BY <1>1 DEF StartSync, EnsureTLS, TypeOK, ProtectionOK
    <2> QED BY <1>1, <2>2, <2>3, TypeFrame DEF StartSync, TypeOK, instance
  <1>2. CASE Plan
    <2>1. copy \in Copies /\ copy.inst \in Inputs /\ copy.inst.tls \in BOOLEAN
      BY <1>2 DEF Plan, TypeOK, SyncOK, Copies, Inputs
    <2>2. /\ plan'.step = StepWiring(copy.inst.tls, LiveKeeperState)
          /\ plan' \in Plans
      <3> DEFINE target == TargetWiring(copy.inst.tls, LiveKeeperState)
      <3>1. target \in Wirings /\ StepWiring(copy.inst.tls, LiveKeeperState) \in Wirings
        BY <2>1, LiveKeeperStateType, WiringTypes
      <3>2. Token(release, copy.inst, target) \in Tokens
        BY <2>1, <3>1, RenderTypes DEF TypeOK, InstanceOK
      <3>3. (copy.maint.auto \/ copy.maint.approved
               = Token(release, copy.inst, target)) \in BOOLEAN
        OBVIOUS
      <3>4. inst \in Inputs
        BY DEF TypeOK, InstanceOK
      <3> HIDE DEF target
      <3>5. plan' = [step |-> StepWiring(copy.inst.tls, LiveKeeperState),
                     target |-> target, inputs |-> inst,
                     token |-> Token(release, copy.inst, target),
                     approved |-> copy.maint.auto \/ copy.maint.approved
                                    = Token(release, copy.inst, target),
                     asked |-> FALSE]
        BY <1>2 DEF Plan, target
      <3> QED BY <3>1, <3>2, <3>3, <3>4, <3>5 DEF Plans
    <2>3. SyncOK'
      BY <1>2, <2>1, <2>2, NoneAssumption DEF Plan, TypeOK, SyncOK, Steps
    <2> QED BY <1>2, <2>3, TypeFrame DEF Plan, TypeOK, instance
  <1>3. ASSUME NEW x \in CRs, Apply(x) PROVE TypeOK'
    <2>1. plan \in Plans /\ copy # None
      BY <1>3 DEF Apply, At, TypeOK, SyncOK
    <2>2. ClusterOK'
      BY <1>3, <2>1, AppliedTypes, NoneAssumption DEF Apply, TypeOK, ClusterOK
    <2>3. plan' \in Plans
      BY <1>3, <2>1 DEF Apply, Plans
    <2>4. SyncOK'
      BY <1>3, <2>1, <2>3, NoneAssumption DEF Apply, At, TypeOK, SyncOK, Steps
    <2> QED BY <1>3, <2>2, <2>4, TypeFrame DEF Apply, TypeOK, instance
  <1>4. ASSUME NEW x \in CRs, Hold(x) PROVE TypeOK'
    <2>1. plan \in Plans /\ copy # None
      BY <1>4 DEF Hold, At, TypeOK, SyncOK
    <2>2. plan' \in Plans
      BY <1>4, <2>1 DEF Hold, Plans
    <2>3. SyncOK'
      BY <1>4, <2>1, <2>2, NoneAssumption DEF Hold, At, TypeOK, SyncOK, Steps
    <2> QED BY <1>4, <2>3, TypeFrame DEF Hold, TypeOK, instance
  <1>5. ASSUME NEW x \in CRs, Save(x) PROVE TypeOK'
    <2>1. plan \in Plans /\ copy # None
      BY <1>5 DEF Save, At, TypeOK, SyncOK
    <2>2. Desired(x) \in Specs(x) /\ Specs(x) \subseteq CHKSpecs \cup CHISpecs
      BY <2>1, DesiredTypes, NoneAssumption DEF Specs
    <2>3. plan.inputs \in Inputs /\ plan.token \in Tokens
      BY <2>1 DEF Plans
    <2>4. RecordOK'
      BY <1>5, <2>2, <2>3 DEF Save, Recorded, TypeOK, RecordOK, Records
    <2>5. SyncOK'
      BY <1>5, <2>1, NoneAssumption DEF Save, At, TypeOK, SyncOK, Steps
    <2> QED BY <1>5, <2>4, <2>5, TypeFrame DEF Save, TypeOK, instance
  <1>6. CASE CheckCHK
    <2>1. SyncOK'
      BY <1>6 DEF CheckCHK, TypeOK, SyncOK, Steps
    <2> QED BY <1>6, <2>1, TypeFrame DEF CheckCHK, TypeOK, instance
  <1>7. CASE CheckCHI \/ DeleteTLS
    <2>1. AfterCHI \in {"wait", "done"}
      BY DEF AfterCHI
    <2>2. pc' \in {"wait", "done", "deleteTLS"} /\ UNCHANGED <<copy, plan, stale>>
      BY <1>7, <2>1 DEF CheckCHI, CleanupTLS, DeleteTLS
    <2>3. SyncOK'
      BY <1>7, <2>2 DEF CheckCHI, DeleteTLS, TypeOK, SyncOK, Steps
    <2>4. ProtectionOK'
      BY <1>7 DEF CheckCHI, DeleteTLS, AppliedPolicies, TypeOK, ProtectionOK
    <2>5. UNCHANGED <<instance, cluster, record, status, counters>>
      BY <1>7 DEF CheckCHI, DeleteTLS
    <2> QED BY <2>3, <2>4, <2>5, TypeFrame DEF TypeOK, instance
  <1>8. CASE PublishWait
    <2>1. StatusOK'
      BY <1>8, StatusPhaseType DEF PublishWait, HeldToken, TypeOK, StatusOK, SyncOK, Plans
    <2> QED BY <1>8, <2>1, TypeFrame DEF PublishWait, TypeOK, instance
  <1>9. CASE PublishDone
    <2>1. StatusOK'
      BY <1>9, StatusPhaseType DEF PublishDone, HeldToken, TypeOK, StatusOK, SyncOK, Plans
    <2>2. InstanceOK'
      BY <1>9 DEF PublishDone, TypeOK, InstanceOK
    <2> QED BY <1>9, <2>1, <2>2, TypeFrame DEF PublishDone, TypeOK
  <1>10. CASE Reject \/ UNCHANGED vars
    BY <1>10, TypeFrame DEF Reject, vars, instance, TypeOK
  <1>11. CASE Fail
    BY <1>11, TypeFrame DEF Fail, TypeOK, instance
  <1>12. CASE Edit
    <2>1. InstanceOK'
      BY <1>12, InputsAssumption DEF Edit, TypeOK, InstanceOK
    <2>2. SyncOK'
      BY <1>12 DEF Edit, TypeOK, SyncOK
    <2> QED BY <1>12, <2>1, <2>2, TypeFrame DEF Edit, TypeOK
  <1>13. CASE Approve
    <2>1. InstanceOK'
      BY <1>13 DEF Approve, TypeOK, InstanceOK, StatusOK, Maintenances
    <2>2. SyncOK'
      BY <1>13 DEF Approve, TypeOK, SyncOK
    <2> QED BY <1>13, <2>1, <2>2, TypeFrame DEF Approve, TypeOK
  <1>14. CASE AllowRestarts
    <2>1. InstanceOK'
      BY <1>14 DEF AllowRestarts, TypeOK, InstanceOK, Maintenances
    <2>2. SyncOK'
      BY <1>14 DEF AllowRestarts, TypeOK, SyncOK
    <2> QED BY <1>14, <2>1, <2>2, TypeFrame DEF AllowRestarts, TypeOK
  <1>15. CASE Upgrade
    <2>1. InstanceOK'
      BY <1>15, LayoutAssumption DEF Upgrade, TypeOK, InstanceOK, Releases
    <2> QED BY <1>15, <2>1, TypeFrame DEF Upgrade, TypeOK
  <1>16. ASSUME NEW x \in CRs, PickUp(x) PROVE TypeOK'
    <2>1. cr[x] \in Installations(x)
      BY <1>16 DEF PickUp, TypeOK, ClusterOK
    <2>2. Rendering(cr[x]) \in Renderings(x)
      BY <2>1 DEF Rendering, Installations, Renderings
    <2>3. [cr[x] EXCEPT !.state = "InProgress"] \in Installations(x)
      BY <2>1 DEF Installations, States
    <2>4. ClusterOK'
      BY <1>16, <2>2, <2>3, NoneAssumption DEF PickUp, TypeOK, ClusterOK
    <2> QED BY <1>16, <2>4, TypeFrame DEF PickUp, TypeOK, instance
  <1>17. ASSUME NEW x \in CRs, NEW p \in PodsOf(x), Roll(x, p) PROVE TypeOK'
    <2>1. work[x] \in Renderings(x)
      BY <1>17 DEF Roll, TypeOK, ClusterOK
    <2>2. ClusterOK'
      BY <1>17, <2>1, PodsAssumption DEF Roll, TypeOK, ClusterOK, Renderings, PodsOf
    <2> QED BY <1>17, <2>2, TypeFrame DEF Roll, TypeOK, instance
  <1>18. ASSUME NEW x \in CRs, Finish(x) PROVE TypeOK'
    <2>1. work[x] \in Renderings(x) /\ cr[x] \in Installations(x)
      BY <1>18 DEF Finish, TypeOK, ClusterOK
    <2>2. cr'[x] \in Installations(x)
      BY <1>18, <2>1 DEF Finish, TypeOK, ClusterOK, Installations, Renderings, States
    <2>3. ClusterOK'
      BY <1>18, <2>1, <2>2 DEF Finish, TypeOK, ClusterOK
    <2> QED BY <1>18, <2>3, TypeFrame DEF Finish, TypeOK, instance
  <1>19. ASSUME NEW x \in CRs, Abort(x) PROVE TypeOK'
    <2>1. ClusterOK'
      BY <1>19, NoneAssumption DEF Abort, TypeOK, ClusterOK, Installations, States
    <2> QED BY <1>19, <2>1, TypeFrame DEF Abort, TypeOK, instance
  <1>20. ASSUME NEW x \in CRs, Resync(x) PROVE TypeOK'
    <2>1. ClusterOK'
      BY <1>20 DEF Resync, TypeOK, ClusterOK, Installations, States
    <2> QED BY <1>20, <2>1, TypeFrame DEF Resync, TypeOK, instance
  <1>21. CASE Issue
    <2>1. ProtectionOK'
      BY <1>21 DEF Issue, TypeOK, ProtectionOK
    <2> QED BY <1>21, <2>1, TypeFrame DEF Issue, TypeOK, instance
  <1> QED BY <1>1, <1>2, <1>3, <1>4, <1>5, <1>6, <1>7, <1>8, <1>9, <1>10, <1>11,
     <1>12, <1>13, <1>14, <1>15, <1>16, <1>17, <1>18, <1>19, <1>20, <1>21
     DEF Next, SyncStep, OperatorStep

\* The variables keep their types, the reconcile's plan and copy are there
\* whenever a step uses them, and the operator works on something it read:
\* for every set of pods, settings, releases and edits.
THEOREM TypeCorrect == Spec => []TypeOK
  BY TypeInit, TypeNext, PTL DEF Spec

(***************************************************************************)
(* What a step does to the cluster, stated once for the proofs about it.   *)
(***************************************************************************)
\* rolloutGate.apply writes one CR and leaves the operator's report alone.
LEMMA ApplyEffect ==
  ASSUME TypeOK, NEW x \in CRs, Apply(x)
  PROVE  /\ UNCHANGED <<inst, maint, release, edited, work, pods, record, cert,
                        status, copy, stale>>
         /\ copy # None /\ plan # None /\ plan' # None
         /\ plan'.step = plan.step /\ plan'.target = plan.target
         /\ plan'.inputs = plan.inputs /\ plan'.token = plan.token
         /\ plan'.approved = plan.approved
         /\ pc = At(x, "applyCHK", "applyCHI")
         /\ pc' \in {At(x, "saveCHK", "saveCHI"), At(x, "checkCHK", "checkCHI")}
         /\ cr'[x] # None /\ cr'[x].spec = Desired(x)
         /\ cr'[x].stamped = Stamps(record, x, cr[x] # None,
                                    cr[x] # None /\ cr[x].stamped, Desired(x))
         /\ cr[x] = None => cr'[x].state = "New" /\ cr'[x].done = {}
         /\ cr[x] # None => cr'[x].state = cr[x].state /\ cr'[x].done = cr[x].done
         /\ \A y \in CRs \ {x} : cr'[y] = cr[y]
  <1>1. /\ pc = At(x, "applyCHK", "applyCHI")
        /\ pc' \in {At(x, "saveCHK", "saveCHI"), At(x, "checkCHK", "checkCHI")}
        /\ cr' = [cr EXCEPT ![x] = Applied(x)]
        /\ plan' = [plan EXCEPT !.asked = @ \/ ~MayApplyUnasked(x)]
        /\ UNCHANGED <<inst, maint, release, edited, work, pods, record, cert,
                       status, copy, stale>>
    BY DEF Apply, instance, protection
  <1>2. copy # None /\ plan # None /\ plan \in Plans /\ DOMAIN cr = CRs
    BY <1>1 DEF At, TypeOK, SyncOK, ClusterOK
  <1>3. /\ plan' \in Plans
        /\ plan'.step = plan.step /\ plan'.target = plan.target
        /\ plan'.inputs = plan.inputs /\ plan'.token = plan.token
        /\ plan'.approved = plan.approved
    <2>1. (plan.asked \/ ~MayApplyUnasked(x)) \in BOOLEAN
      BY <1>2 DEF Plans, MayApplyUnasked, Unasked
    <2> QED BY <1>1, <1>2, <2>1 DEF Plans
  <1>4. cr'[x] = Applied(x) /\ \A y \in CRs \ {x} : cr'[y] = cr[y]
    BY <1>1, <1>2
  <1>5. Applied(x).stamped = Stamps(record, x, cr[x] # None,
                                    cr[x] # None /\ cr[x].stamped, Desired(x))
    <2>1. CASE cr[x] = None
      BY <2>1 DEF Applied
    <2>2. CASE cr[x] # None
      <3>1. cr[x] \in Installations(x)
        BY <2>2 DEF TypeOK, ClusterOK
      <3> QED BY <2>2, <3>1 DEF Applied, Installations
    <2> QED BY <2>1, <2>2
  <1>6. cr[x] = None => Applied(x).done = {}
    BY DEF Applied
  <1> QED BY <1>1, <1>2, <1>3, <1>4, <1>5, <1>6, AppliedTypes, NoneAssumption

\* The operator starts on what the CR says.
LEMMA PickUpEffect ==
  ASSUME TypeOK, NEW x \in CRs, PickUp(x)
  PROVE  /\ UNCHANGED <<instance, pods, record, protection, status, sync>>
         /\ cr[x] # None /\ cr'[x] # None
         /\ cr'[x].spec = cr[x].spec /\ cr'[x].stamped = cr[x].stamped
         /\ cr'[x].done = cr[x].done /\ cr'[x].state = "InProgress"
         /\ work'[x] # None /\ work'[x] = Rendering(cr[x])
         /\ work'[x].spec = cr[x].spec /\ work'[x].stamped = cr[x].stamped
         /\ \A y \in CRs \ {x} : cr'[y] = cr[y] /\ work'[y] = work[y]
  <1>1. cr[x] # None /\ cr[x] \in Installations(x) /\ DOMAIN cr = CRs /\ DOMAIN work = CRs
    BY DEF PickUp, TypeOK, ClusterOK
  <1> DEFINE c == [cr[x] EXCEPT !.state = "InProgress"]
  <1>2. /\ c \in Installations(x) /\ c.spec = cr[x].spec /\ c.stamped = cr[x].stamped
        /\ c.done = cr[x].done /\ c.state = "InProgress"
    BY <1>1 DEF Installations, States
  <1>3. Rendering(cr[x]) \in Renderings(x)
    BY <1>1 DEF Rendering, Installations, Renderings
  <1>4. cr'[x] = c /\ work'[x] = Rendering(cr[x])
    BY <1>1 DEF PickUp
  <1>5. \A y \in CRs \ {x} : cr'[y] = cr[y] /\ work'[y] = work[y]
    BY <1>1 DEF PickUp
  <1> HIDE DEF c
  <1> QED BY <1>1, <1>2, <1>3, <1>4, <1>5, NoneAssumption DEF PickUp, Rendering

\* One pod comes to run what the operator works on.
LEMMA RollEffect ==
  ASSUME TypeOK, NEW x \in CRs, NEW p \in PodsOf(x), Roll(x, p)
  PROVE  /\ UNCHANGED <<instance, cr, work, record, protection, status, sync>>
         /\ cr[x] # None /\ cr[x].state = "InProgress"
         /\ work[x] # None /\ work[x].spec # None
         /\ pods'[p] = work[x].spec
         /\ \A y \in CRs : \A q \in PodsOf(y) : q # p => pods'[q] = pods[q]
         /\ \A y \in CRs \ {x} : \A q \in PodsOf(y) : pods'[q] = pods[q]
  <1>1. work[x] # None /\ work[x] \in Renderings(x)
    BY DEF Roll, TypeOK, ClusterOK
  <1>2. DOMAIN pods = Pods /\ p \in Pods /\ \A y \in CRs : PodsOf(y) \subseteq Pods
    BY DEF TypeOK, ClusterOK, PodsOf, Pods
  <1>3. work[x].spec # None
    BY <1>1, NoneAssumption DEF Renderings, Specs
  <1>4. \A y \in CRs \ {x} : p \notin PodsOf(y)
    BY PodsAssumption DEF PodsOf
  <1> QED BY <1>1, <1>2, <1>3, <1>4 DEF Roll

\* The operator's report changes; Completed is reported for what the pods run.
LEMMA ReportEffect ==
  ASSUME TypeOK, NEW x \in CRs, Finish(x) \/ Abort(x) \/ Resync(x)
  PROVE  /\ UNCHANGED <<instance, work, pods, record, protection, status, sync>>
         /\ cr[x] # None /\ cr'[x] # None
         /\ cr'[x].spec = cr[x].spec /\ cr'[x].stamped = cr[x].stamped
         /\ \/ cr'[x].done = cr[x].done
            \/ cr'[x].done = cr[x].done \cup
                 {IF work[x].stamped THEN work[x].spec ELSE None}
         /\ cr'[x].state = "Completed" => \A p \in PodsOf(x) : pods[p] = work[x].spec
         /\ \A y \in CRs \ {x} : cr'[y] = cr[y]
  <1>1. cr[x] # None /\ cr[x] \in Installations(x) /\ DOMAIN cr = CRs
    BY DEF Finish, Abort, Resync, TypeOK, ClusterOK
  <1>2. CASE Finish(x)
    <2> DEFINE task == IF work[x].stamped THEN work[x].spec ELSE None
               c == [cr[x] EXCEPT !.state = "Completed", !.done = @ \cup {task}]
    <2>1. work[x] # None /\ work[x] \in Renderings(x)
      BY <1>2 DEF Finish, TypeOK, ClusterOK
    <2>2. /\ c \in Installations(x) /\ c.spec = cr[x].spec /\ c.stamped = cr[x].stamped
          /\ c.done = cr[x].done \cup {task}
      BY <1>1, <2>1 DEF Installations, States, Renderings
    <2>3. cr'[x] = c /\ \A y \in CRs \ {x} : cr'[y] = cr[y]
      BY <1>1, <1>2 DEF Finish
    <2> HIDE DEF c
    <2> QED BY <1>1, <1>2, <2>2, <2>3, NoneAssumption DEF Finish
  <1>3. CASE Abort(x) \/ Resync(x)
    <2>1. PICK state \in {"Aborted", "InProgress"} : cr' = [cr EXCEPT ![x].state = state]
      BY <1>3 DEF Abort, Resync
    <2> DEFINE c == [cr[x] EXCEPT !.state = state]
    <2>2. /\ c \in Installations(x) /\ c.spec = cr[x].spec /\ c.stamped = cr[x].stamped
          /\ c.done = cr[x].done /\ c.state # "Completed"
      BY <1>1 DEF Installations, States
    <2>3. cr'[x] = c /\ \A y \in CRs \ {x} : cr'[y] = cr[y]
      BY <1>1, <2>1
    <2> HIDE DEF c
    <2> QED BY <1>1, <1>3, <2>2, <2>3, NoneAssumption DEF Abort, Resync
  <1> QED BY <1>2, <1>3

\* The steps of a reconcile after its plan that write no CR.
AfterPlan ==
  (\E x \in CRs : Hold(x) \/ Save(x)) \/ CheckCHK \/ CheckCHI \/ DeleteTLS

\* They change neither the Instance in hand nor the step that is planned.
LEMMA AfterPlanEffect ==
  ASSUME TypeOK, AfterPlan
  PROVE  /\ UNCHANGED <<instance, cluster, status, copy, stale>>
         /\ copy # None /\ plan # None /\ plan' # None
         /\ plan'.step = plan.step /\ plan'.target = plan.target
         /\ plan'.inputs = plan.inputs /\ plan'.token = plan.token
         /\ plan'.approved = plan.approved
         /\ pc \in Applying \cup {"deleteTLS"}
         /\ pc' \in (Applying \ {"applyCHK"}) \cup {"deleteTLS", "wait", "done"}
         /\ pc' = "applyCHI" => pc = "checkCHK" /\ Complete(cr["chk"])
         /\ pc' \in Applying => pc \in Applying
         /\ pc' \notin {"saveCHK", "saveCHI"}
  <1>1. pc \in Applying \cup {"deleteTLS"} /\ plan # None /\ plan \in Plans /\ copy # None
    BY DEF AfterPlan, Hold, Save, CheckCHK, CheckCHI, DeleteTLS, At, Applying, TypeOK,
       SyncOK
  <1>2. ASSUME NEW x \in CRs, Hold(x)
        PROVE  /\ plan' \in Plans
               /\ plan'.step = plan.step /\ plan'.target = plan.target
               /\ plan'.inputs = plan.inputs /\ plan'.token = plan.token
               /\ plan'.approved = plan.approved
    BY <1>1, <1>2 DEF Hold, Plans
  <1>3. CASE \E x \in CRs : Hold(x)
    BY <1>1, <1>2, <1>3, NoneAssumption DEF Hold, At, Applying
  <1>4. CASE \E x \in CRs : Save(x)
    BY <1>1, <1>4 DEF Save, At, Applying
  <1>5. CASE CheckCHK
    BY <1>1, <1>5 DEF CheckCHK, Applying
  <1>6. CASE CheckCHI
    <2>1. AfterCHI \in {"wait", "done"}
      BY DEF AfterCHI
    <2> QED BY <1>1, <1>6, <2>1 DEF CheckCHI, CleanupTLS, Applying
  <1>7. CASE DeleteTLS
    BY <1>1, <1>7 DEF DeleteTLS, AfterCHI, Applying
  <1> QED BY <1>3, <1>4, <1>5, <1>6, <1>7 DEF AfterPlan

\* Steps that abandon or end the reconcile.
Ends == PublishWait \/ PublishDone \/ Fail \/ Upgrade

LEMMA EndsEffect ==
  ASSUME Ends
  PROVE  EndSync /\ UNCHANGED <<inst, maint, cluster, record, protection>>
  BY DEF Ends, PublishWait, PublishDone, Fail, Upgrade, instance

\* Steps of the user and of cert-manager that the cluster does not notice.
Aside == Approve \/ AllowRestarts \/ Reject \/ Issue

LEMMA AsideEffect ==
  ASSUME Aside
  PROVE  UNCHANGED <<inst, release, edited, cluster, record, policies, status, pc, copy,
                     plan>>
  BY DEF Aside, Approve, AllowRestarts, Reject, Issue, vars, instance, sync, protection

\* Every step is one of these.
LEMMA StepCases ==
  ASSUME [Next]_vars
  PROVE  \/ StartSync \/ Plan \/ Edit
         \/ \E x \in CRs : Apply(x) \/ PickUp(x)
         \/ \E x \in CRs : \E p \in PodsOf(x) : Roll(x, p)
         \/ \E x \in CRs : Finish(x) \/ Abort(x) \/ Resync(x)
         \/ AfterPlan \/ Ends \/ Aside
         \/ UNCHANGED vars
  BY Zenon DEF Next, SyncStep, OperatorStep, AfterPlan, Ends, Aside
=============================================================================
