------------------------- MODULE CertificateProofs -------------------------
(***************************************************************************)
(* No pod mounts a certificate that is not there.  MountedCertificateExists *)
(* is not inductive: cleanupTLS looks at the CRs and at the pods, not at   *)
(* what the operator is about to roll out, nor at what the reconcile has   *)
(* still to apply.  CertificateInv closes these gaps one by one.           *)
(***************************************************************************)
EXTENDS ProviderSyncProofs

USE DEF CRs

(* Which renderings mount the Secret, in terms of what they are made from. *)

\* buildCHKWired mounts the Secret for the wiring's secure port only.
LEMMA MountsCHK ==
  ASSUME NEW r, NEW in, NEW w, Mounts("chk", RenderCHK(r, in, w))
  PROVE  w.secure
  BY DEF Mounts, RenderCHK

\* buildCHIWired mounts it for ClickHouse's own TLS or for a secure Keeper.
LEMMA MountsCHI ==
  ASSUME NEW r, NEW in, NEW w, Mounts("chi", RenderCHI(r, in, w))
  PROVE  in.tls \/ w.port = KeeperSecurePort
  <1>1. RenderCHI(r, in, w).tls \/ RenderCHI(r, in, w).port = KeeperSecurePort
    BY DEF Mounts
  <1> QED BY <1>1 DEF RenderCHI, NoKeeper, KeeperSecurePort

\* nextKeeperWiring opens or uses the secure port for TLS, or because a CR
\* that mounts the Secret does so already.
LEMMA SecureStep ==
  ASSUME NEW tls \in BOOLEAN,
         \/ StepWiring(tls, LiveKeeperState).secure
         \/ StepWiring(tls, LiveKeeperState).port = KeeperSecurePort
  PROVE  tls \/ \E x \in CRs : cr[x] # None /\ Mounts(x, cr[x].spec)
  <1> DEFINE s == LiveKeeperState
  <1>1. s.chiPort = KeeperSecurePort
          => cr["chi"] # None /\ Mounts("chi", cr["chi"].spec)
    BY DEF LiveKeeperState, Mounts, NoKeeper, KeeperSecurePort
  <1>2. s.chkSecure => cr["chk"] # None /\ Mounts("chk", cr["chk"].spec)
    BY DEF LiveKeeperState, Mounts
  <1>3. StepWiring(tls, s).secure => tls \/ UsesSecure(tls, s)
    BY DEF StepWiring
  <1>4. StepWiring(tls, s).port = KeeperSecurePort
          => tls \/ s.chiPort = KeeperSecurePort
    BY DEF StepWiring, StepPort, TargetWiring, KeeperSecurePort, KeeperPort,
       KeeperReference
  <1>5. UsesSecure(tls, s) => s.chiPort = KeeperSecurePort \/ s.chkSecure
    BY DEF UsesSecure
  <1>6. tls \/ s.chiPort = KeeperSecurePort \/ s.chkSecure
    BY <1>3, <1>4, <1>5
  <1> HIDE DEF s
  <1> QED BY <1>1, <1>2, <1>6

-----------------------------------------------------------------------------
(* The inductive argument. *)

\* A CR that is there was rendered for an Instance whose certificate exists.
LEMMA CertificateInit == Init => CertificateInv
  <1> SUFFICES ASSUME Init PROVE CertificateInv
    OBVIOUS
  <1>0. /\ TypeOK /\ pc = "idle" /\ copy = None /\ inst \in Inputs
        /\ inst.tls \in BOOLEAN
    BY TypeInit DEF Init, Fresh, TypeOK, InstanceOK, Inputs
  <1>1. PlannedInv /\ KeeperShownInv /\ DeletingInv
    BY <1>0 DEF PlannedInv, KeeperShownInv, DeletingInv, Applying
  <1>2. ASSUME New PROVE CertificateInv
    <2>1. MountedCertificateExists /\ OperatorInv /\ HandedOutInv /\ TopologyInv
      BY <1>0, <1>2 DEF New, MountedCertificateExists, OperatorInv, HandedOutInv,
         TopologyInv, PodsOf, Pods
    <2> QED BY <1>1, <2>1 DEF CertificateInv
  <1>3. ASSUME NEW spec \in SpecPairs, NEW stamped \in BOOLEAN, Running(spec, stamped),
               \A x \in CRs : spec[x] # None /\ Mounts(x, spec[x]) => inst.tls,
               spec["chk"] # None => Replicated(inst)
        PROVE  CertificateInv
    <2>1. /\ \A x \in CRs : \A p \in PodsOf(x) : pods[p] = spec[x]
          /\ \A x \in CRs : spec[x] = None => cr[x] = None /\ work[x] = None
          /\ \A x \in CRs : spec[x] # None => /\ cr[x] # None
                                              /\ cr[x].spec = spec[x]
                                              /\ work[x].spec = spec[x]
      BY <1>3, RunningCluster
    <2>2. inst.tls => cert = "issued"
      BY <1>3 DEF Running
    <2>3. MountedCertificateExists /\ HandedOutInv
      BY <1>3, <2>1, <2>2 DEF MountedCertificateExists, HandedOutInv
    <2>4. OperatorInv /\ TopologyInv
      BY <1>0, <1>3, <2>1 DEF OperatorInv, TopologyInv
    <2> QED BY <1>1, <2>3, <2>4 DEF CertificateInv
  <1>4. ASSUME NEW r \in Releases, Steady(r) PROVE CertificateInv
    <2>1. Settled(inst) \in Wirings
      BY <1>0 DEF Settled, Wirings, Ports, KeeperPort, KeeperSecurePort,
         KeeperReference, NoKeeper
    <2>2. /\ Settled(inst).secure => inst.tls
          /\ Settled(inst).port = KeeperSecurePort => inst.tls
      BY DEF Settled, KeeperSecurePort, KeeperReference
    <2> DEFINE spec == Renders(r, Settled(inst))
    <2>3. /\ spec["chk"] # None =>
               spec["chk"] = RenderCHK(r, inst, Settled(inst)) /\ Replicated(inst)
          /\ spec["chi"] = RenderCHI(r, inst, Settled(inst))
      BY DEF Renders
    <2>4. spec \in SpecPairs
      BY <1>0, <2>1, RendersTypes
    <2>5. Running(spec, TRUE)
      BY <1>4 DEF Steady
    <2> HIDE DEF spec
    <2>6. \A x \in CRs : spec[x] # None /\ Mounts(x, spec[x]) => inst.tls
      BY <2>2, <2>3, MountsCHK, MountsCHI
    <2> QED BY <1>3, <2>3, <2>4, <2>5, <2>6
  <1>5. ASSUME NEW recorded \in BOOLEAN, TakenOver(recorded) PROVE CertificateInv
    <2>1. 1 \in Releases /\ PlaintextKeeper \in Wirings
      BY <1>5, LayoutAssumption DEF TakenOver, Releases, PlaintextKeeper, Wirings,
         Ports, KeeperPort, KeeperSecurePort, KeeperReference, NoKeeper
    <2>2. RenderedBefore \in SpecPairs
      BY <1>0, <2>1, RendersTypes
    <2>3. Running(RenderedBefore, FALSE)
      BY <1>5 DEF TakenOver
    <2>4. RenderedBefore["chk"] # None => /\ ~Mounts("chk", RenderedBefore["chk"])
                                          /\ Replicated(inst)
      BY DEF RenderedBefore, Renders, Mounts, RenderCHK, PlaintextKeeper
    <2>5. Mounts("chi", RenderedBefore["chi"]) => inst.tls
      BY DEF RenderedBefore, Renders, Mounts, RenderCHI, PlaintextKeeper,
         KeeperSecurePort, KeeperReference, NoKeeper
    <2> QED BY <1>3, <2>2, <2>3, <2>4, <2>5
  <1>6. 1 \in Releases /\ LastRelease \in Releases
    BY LayoutAssumption DEF Releases
  <1> QED BY <1>2, <1>4, <1>5, <1>6 DEF Init

\* A step that leaves a part of the state alone, or abandons the reconcile,
\* keeps what is said of it.
LEMMA CertificateFrame ==
  ASSUME CertificateInv, UNCHANGED <<cluster, cert>>
  PROVE  /\ (MountedCertificateExists /\ OperatorInv /\ HandedOutInv)'
         /\ UNCHANGED <<inst, pc, copy, plan>> => CertificateInv'
         /\ UNCHANGED inst /\ EndSync => CertificateInv'
  <1>1. (MountedCertificateExists /\ OperatorInv /\ HandedOutInv)'
    BY DEF CertificateInv, MountedCertificateExists, OperatorInv, HandedOutInv, cluster
  <1>2. ASSUME UNCHANGED <<inst, pc, copy, plan>> PROVE CertificateInv'
    <2>1. (PlannedInv /\ KeeperShownInv /\ DeletingInv /\ TopologyInv)'
      BY <1>2 DEF CertificateInv, PlannedInv, KeeperShownInv, DeletingInv,
         TopologyInv, cluster
    <2> QED BY <1>1, <2>1 DEF CertificateInv
  <1>3. ASSUME UNCHANGED inst, EndSync PROVE CertificateInv'
    <2>1. (PlannedInv /\ KeeperShownInv /\ DeletingInv /\ TopologyInv)'
      BY <1>3 DEF CertificateInv, PlannedInv, KeeperShownInv, DeletingInv,
         TopologyInv, cluster,
         EndSync, Applying
    <2> QED BY <1>1, <2>1 DEF CertificateInv
  <1> QED BY <1>1, <1>2, <1>3

\* Edits that make no replicated Instance standalone.
KeepsReplicated == \A e \in Edits : Replicated(e[1]) => Replicated(e[2])

\* Every step keeps the invariant; the certificate goes only at DeleteTLS.
LEMMA CertificateNext ==
  ASSUME KeepsReplicated, TypeOK, CertificateInv, [Next]_vars
  PROVE  CertificateInv'
  <1> USE DEF CertificateInv
  <1>0. /\ cert \in {"absent", "requested", "issued"}
        /\ \A x \in CRs : cr[x] # None => cr[x] \in Installations(x)
        /\ \A x \in CRs : work[x] # None => work[x] \in Renderings(x)
    BY DEF TypeOK, ClusterOK, ProtectionOK
  <1>1. CASE StartSync
    <2>1. /\ UNCHANGED <<inst, cluster, plan>>
          /\ cert = "issued" => cert' = "issued"
      BY <1>1 DEF StartSync, EnsureTLS, instance
    <2>2. (MountedCertificateExists /\ OperatorInv /\ HandedOutInv)'
      BY <2>1 DEF MountedCertificateExists, OperatorInv, HandedOutInv, cluster
    <2>3. (PlannedInv /\ KeeperShownInv /\ DeletingInv)'
      BY <1>1 DEF StartSync, EnsureTLS, PlannedInv, KeeperShownInv, DeletingInv, Applying
    <2>4. copy'.inst = inst /\ pc' \in {"plan", "wait"}
      BY <1>1 DEF StartSync, EnsureTLS
    <2>5. TopologyInv'
      BY <2>1, <2>4 DEF TopologyInv, cluster
    <2> QED BY <2>2, <2>3, <2>5
  <1>2. CASE Plan
    <2>1. /\ UNCHANGED <<inst, cluster, cert, copy>>
          /\ plan'.step = StepWiring(copy.inst.tls, LiveKeeperState)
          /\ pc' = IF Replicated(copy.inst) THEN "applyCHK" ELSE "applyCHI"
          /\ pc = "plan"
      BY <1>2 DEF Plan, instance, protection
    <2>2. copy # None /\ copy.inst.tls \in BOOLEAN
      BY <2>1 DEF TypeOK, SyncOK, Copies, Inputs
    <2>3. copy.inst.tls => cert = "issued"
      BY <2>1 DEF PlannedInv
    <2>4. plan'.step.secure \/ plan'.step.port = KeeperSecurePort => cert = "issued"
      BY <2>1, <2>2, <2>3, SecureStep DEF HandedOutInv
    <2>5. PlannedInv'
      BY <2>1, <2>3, <2>4 DEF PlannedInv
    <2>6. pc' = "applyCHI" => cr["chk"] = None /\ work["chk"] = None
      BY <2>1, <2>2 DEF TopologyInv, OperatorInv
    <2>7. KeeperShownInv'
      BY <2>1, <2>6 DEF KeeperShownInv, cluster
    <2>8. TopologyInv'
      BY <2>1, <2>2 DEF TopologyInv, cluster
    <2>9. DeletingInv'
      BY <2>1 DEF DeletingInv
    <2> QED BY <2>1, <2>5, <2>7, <2>8, <2>9, CertificateFrame
  <1>3. ASSUME NEW x \in CRs, Apply(x) PROVE CertificateInv'
    <2>1. /\ UNCHANGED <<inst, work, pods, cert, copy>>
          /\ pc \in Applying /\ pc' \in Applying
          /\ pc' \in {"applyCHK", "saveCHK", "checkCHK"} <=> x = "chk"
          /\ pc \in {"applyCHK", "saveCHK", "checkCHK"} <=> x = "chk"
      BY <1>3 DEF Apply, At, Applying, instance, protection
    <2>2. copy # None /\ plan # None /\ plan \in Plans
      BY <2>1 DEF TypeOK, SyncOK, Applying
    <2>3. plan'.step = plan.step
      BY <1>3, <2>2 DEF Apply, Plans
    <2>4. cr' = [cr EXCEPT ![x] = Applied(x)] /\ DOMAIN cr = CRs
      BY <1>3 DEF Apply, TypeOK, ClusterOK
    <2>5. /\ cr'[x] # None /\ cr'[x].spec = Desired(x)
          /\ cr'[x].state = "Completed"
               => cr[x] # None /\ cr[x].state = "Completed"
          /\ \A y \in CRs \ {x} : cr'[y] = cr[y]
      BY <2>2, <2>4, AppliedTypes, NoneAssumption
    <2>6. Mounts(x, Desired(x)) => cert = "issued"
      <3>1. CASE x = "chk"
        BY <2>1, <3>1, MountsCHK DEF Desired, PlannedInv
      <3>2. CASE x = "chi"
        BY <2>1, <3>2, MountsCHI DEF Desired, PlannedInv
      <3> QED BY <3>1, <3>2
    <2>7. (MountedCertificateExists /\ OperatorInv /\ HandedOutInv)'
      BY <2>1, <2>5, <2>6 DEF MountedCertificateExists, OperatorInv, HandedOutInv
    <2>8. PlannedInv'
      BY <2>1, <2>3 DEF PlannedInv
    <2>9. KeeperShownInv'
      <3>1. CASE x = "chk"
        BY <2>1, <3>1 DEF KeeperShownInv, Applying
      <3>2. CASE x = "chi"
        BY <2>1, <2>5, <3>2 DEF KeeperShownInv, Applying
      <3> QED BY <3>1, <3>2
    <2>10. TopologyInv'
      BY <2>1, <2>2, <2>5 DEF TopologyInv
    <2>11. DeletingInv'
      BY <2>1 DEF DeletingInv, Applying
    <2> QED BY <2>7, <2>8, <2>9, <2>10, <2>11
  <1>4. ASSUME NEW x \in CRs, Hold(x) \/ Save(x) PROVE CertificateInv'
    <2>1. /\ UNCHANGED <<inst, cluster, cert, copy>>
          /\ pc \in Applying /\ pc' \in Applying
          /\ pc' \in {"applyCHK", "saveCHK", "checkCHK"} <=> x = "chk"
          /\ pc \in {"applyCHK", "saveCHK", "checkCHK"} <=> x = "chk"
      BY <1>4 DEF Hold, Save, At, Applying, instance, protection
    <2>2. copy # None /\ plan # None /\ plan \in Plans
      BY <2>1 DEF TypeOK, SyncOK, Applying
    <2>3. plan'.step = plan.step
      BY <1>4, <2>2 DEF Hold, Save, Plans
    <2>4. PlannedInv'
      BY <2>1, <2>3 DEF PlannedInv
    <2>5. KeeperShownInv'
      BY <2>1 DEF KeeperShownInv, Applying, cluster
    <2>6. TopologyInv'
      BY <2>1, <2>2 DEF TopologyInv, cluster
    <2>7. DeletingInv'
      BY <2>1 DEF DeletingInv, Applying
    <2> QED BY <2>1, <2>4, <2>5, <2>6, <2>7, CertificateFrame
  <1>5. CASE CheckCHK
    <2>1. /\ UNCHANGED <<inst, cluster, cert, copy, plan>>
          /\ pc = "checkCHK"
          /\ pc' = IF Complete(cr["chk"]) THEN "applyCHI" ELSE "wait"
      BY <1>5 DEF CheckCHK, instance, protection
    <2>2. PlannedInv'
      BY <2>1 DEF PlannedInv, Applying
    <2>3. Complete(cr["chk"]) /\ work["chk"] # None =>
            \A p \in KeeperPods : pods[p] = work["chk"].spec /\ pods[p] # None
      <3>1. work["chk"] # None => work["chk"].spec # None
        BY <1>0, NoneAssumption DEF Renderings, Specs
      <3>2. Complete(cr["chk"]) => \A p \in KeeperPods : pods[p] = work["chk"].spec
        BY DEF Complete, OperatorInv, PodsOf
      <3> QED BY <3>1, <3>2
    <2>4. KeeperShownInv'
      BY <2>1, <2>3 DEF KeeperShownInv, cluster
    <2>5. (DeletingInv /\ TopologyInv)'
      BY <2>1 DEF DeletingInv, TopologyInv, cluster
    <2> QED BY <2>1, <2>2, <2>4, <2>5, CertificateFrame
  <1>6. CASE CheckCHI
    <2>1. /\ UNCHANGED <<inst, cluster, cert, copy, plan>>
          /\ pc = "checkCHI" /\ pc' \in {"wait", "done", "deleteTLS"}
          /\ pc' = "deleteTLS" => Complete(cr["chi"]) /\ ~CertificatesInUse
      <3>1. AfterCHI \in {"wait", "done"}
        BY DEF AfterCHI
      <3> QED BY <1>6, <3>1 DEF CheckCHI, CleanupTLS, instance
    <2>2. (PlannedInv /\ KeeperShownInv /\ TopologyInv)'
      BY <2>1 DEF PlannedInv, KeeperShownInv, TopologyInv, Applying, cluster
    <2>3. ASSUME pc' = "deleteTLS" PROVE DeletingInv'
      <3>1. \A x \in CRs : /\ cr[x] # None => ~Mounts(x, cr[x].spec)
                           /\ \A p \in PodsOf(x) :
                                pods[p] # None => ~Mounts(x, pods[p])
        BY <2>1, <2>3 DEF CertificatesInUse
      <3>2. work["chi"] # None => ~Mounts("chi", work["chi"].spec)
        <4>1. \A p \in CHPods : pods[p] = work["chi"].spec
          BY <2>1, <2>3 DEF Complete, OperatorInv, PodsOf
        <4>2. work["chi"] # None => work["chi"].spec # None
          BY <1>0, NoneAssumption DEF Renderings, Specs
        <4> QED BY <3>1, <4>1, <4>2, PodsAssumption DEF PodsOf
      <3>3. work["chk"] # None => ~Mounts("chk", work["chk"].spec)
        BY <2>1, <3>1, PodsAssumption DEF KeeperShownInv, PodsOf
      <3> QED BY <2>1, <3>1, <3>2, <3>3 DEF DeletingInv, cluster
    <2>4. DeletingInv'
      BY <2>3 DEF DeletingInv
    <2> QED BY <2>1, <2>2, <2>4, CertificateFrame
  <1>14. CASE DeleteTLS
    <2>1. /\ UNCHANGED <<inst, cluster, copy, plan>>
          /\ pc = "deleteTLS" /\ pc' \in {"wait", "done"}
      BY <1>14 DEF DeleteTLS, AfterCHI, instance
    <2>2. (PlannedInv /\ KeeperShownInv /\ DeletingInv /\ TopologyInv)'
      BY <2>1 DEF PlannedInv, KeeperShownInv, DeletingInv, TopologyInv, Applying, cluster
    <2>3. (MountedCertificateExists /\ HandedOutInv)'
      BY <2>1 DEF DeletingInv, MountedCertificateExists, HandedOutInv, cluster
    <2>4. OperatorInv'
      BY <2>1 DEF OperatorInv, cluster
    <2> QED BY <2>2, <2>3, <2>4
  <1>7. CASE PublishWait \/ PublishDone \/ Fail \/ Upgrade
    BY <1>7, CertificateFrame DEF PublishWait, PublishDone, Fail, Upgrade, instance,
       protection
  <1>8. CASE Approve \/ AllowRestarts \/ Reject \/ UNCHANGED vars
    BY <1>8, CertificateFrame DEF Approve, AllowRestarts, Reject, vars, sync, instance,
       protection
  <1>9. CASE Edit
    <2>1. UNCHANGED <<cluster, cert, pc, copy, plan>>
      BY <1>9 DEF Edit, protection
    <2>2. Replicated(inst) => Replicated(inst')
      BY <1>9 DEF Edit, KeepsReplicated
    <2>3. (PlannedInv /\ KeeperShownInv /\ DeletingInv)'
      BY <2>1 DEF PlannedInv, KeeperShownInv, DeletingInv, cluster
    <2>4. TopologyInv'
      BY <2>1, <2>2 DEF TopologyInv, cluster
    <2> QED BY <2>1, <2>3, <2>4, CertificateFrame
  <1>10. ASSUME NEW x \in CRs, PickUp(x) PROVE CertificateInv'
    <2>1. /\ UNCHANGED <<inst, pods, cert, pc, copy, plan>>
          /\ cr[x] # None /\ cr'[x] # None
          /\ cr'[x].spec = cr[x].spec /\ cr'[x].state = "InProgress"
          /\ work'[x].spec = cr[x].spec
          /\ \A y \in CRs \ {x} : cr'[y] = cr[y] /\ work'[y] = work[y]
      <3>1. cr[x] \in Installations(x) /\ DOMAIN cr = CRs /\ DOMAIN work = CRs
        BY <1>10 DEF PickUp, TypeOK, ClusterOK
      <3>2. /\ [cr[x] EXCEPT !.state = "InProgress"] \in Installations(x)
            /\ [cr[x] EXCEPT !.state = "InProgress"].spec = cr[x].spec
            /\ [cr[x] EXCEPT !.state = "InProgress"].state = "InProgress"
        BY <3>1 DEF Installations, States
      <3> QED BY <1>10, <3>1, <3>2, NoneAssumption DEF PickUp, Rendering, instance, sync,
         protection
    <2>2. (MountedCertificateExists /\ OperatorInv /\ HandedOutInv)'
      BY <2>1 DEF MountedCertificateExists, OperatorInv, HandedOutInv
    <2>3. (PlannedInv /\ TopologyInv)'
      BY <2>1 DEF PlannedInv, TopologyInv
    <2>4. (KeeperShownInv /\ DeletingInv)'
      BY <2>1 DEF KeeperShownInv, DeletingInv
    <2> QED BY <2>2, <2>3, <2>4
  <1>11. ASSUME NEW x \in CRs, NEW p \in PodsOf(x), Roll(x, p) PROVE CertificateInv'
    <2>1. /\ UNCHANGED <<inst, cr, work, cert, pc, copy, plan>>
          /\ cr[x] # None /\ cr[x].state = "InProgress" /\ work[x] # None
          /\ pods'[p] = work[x].spec /\ work[x].spec # None
          /\ \A q \in Pods \ {p} : pods'[q] = pods[q]
      <3>1. work[x] # None /\ DOMAIN pods = Pods /\ p \in Pods
        BY <1>11 DEF Roll, TypeOK, ClusterOK, PodsOf, Pods
      <3>2. work[x].spec # None
        BY <1>0, <3>1, NoneAssumption DEF Renderings, Specs
      <3> QED BY <1>11, <3>1, <3>2 DEF Roll, instance, sync, protection
    <2>2. \A y \in CRs \ {x} : \A q \in PodsOf(y) : pods'[q] = pods[q]
      BY <2>1, PodsAssumption DEF PodsOf, Pods
    <2>3. \A q \in PodsOf(x) : pods'[q] = pods[q] \/ pods'[q] = work[x].spec
      BY <2>1 DEF PodsOf, Pods
    <2>4. MountedCertificateExists'
      BY <2>1, <2>2, <2>3 DEF MountedCertificateExists, HandedOutInv
    <2>5. (OperatorInv /\ HandedOutInv)'
      BY <2>1, <2>2 DEF OperatorInv, HandedOutInv
    <2>6. (PlannedInv /\ TopologyInv)'
      BY <2>1 DEF PlannedInv, TopologyInv
    <2>7. KeeperShownInv'
      <3>1. CASE x = "chk"
        BY <2>1, <2>3, <3>1 DEF KeeperShownInv, PodsOf
      <3>2. CASE x = "chi"
        BY <2>1, <2>2, <3>2 DEF KeeperShownInv, PodsOf
      <3> QED BY <3>1, <3>2
    <2>8. DeletingInv'
      BY <2>1, <2>2, <2>3 DEF DeletingInv
    <2> QED BY <2>4, <2>5, <2>6, <2>7, <2>8
  <1>12. ASSUME NEW x \in CRs, Finish(x) \/ Abort(x) \/ Resync(x)
         PROVE  CertificateInv'
    <2>1. /\ UNCHANGED <<inst, work, pods, cert, pc, copy, plan>>
          /\ cr[x] # None /\ cr'[x] # None /\ cr'[x].spec = cr[x].spec
          /\ cr'[x].state = "Completed" => \A p \in PodsOf(x) : pods[p] = work[x].spec
          /\ \A y \in CRs \ {x} : cr'[y] = cr[y]
      <3>1. cr[x] # None /\ cr[x] \in Installations(x) /\ DOMAIN cr = CRs
        BY <1>12 DEF Finish, Abort, Resync, TypeOK, ClusterOK
      <3>2. cr'[x] \in Installations(x) /\ cr'[x].spec = cr[x].spec
        <4>1. CASE Finish(x)
          BY <1>0, <3>1, <4>1 DEF Finish, TypeOK, ClusterOK, Installations,
             Renderings, States
        <4>2. CASE Abort(x) \/ Resync(x)
          BY <3>1, <4>2 DEF Abort, Resync, Installations, States
        <4> QED BY <1>12, <4>1, <4>2
      <3>3. cr'[x].state = "Completed" => \A p \in PodsOf(x) : pods[p] = work[x].spec
        BY <1>12, <3>1 DEF Finish, Abort, Resync, Installations
      <3>4. /\ UNCHANGED <<inst, work, pods, cert, pc, copy, plan>>
            /\ \A y \in CRs \ {x} : cr'[y] = cr[y]
        BY <1>12, <3>1 DEF Finish, Abort, Resync, instance, sync, protection
      <3> QED BY <3>1, <3>2, <3>3, <3>4, NoneAssumption
    <2>2. (MountedCertificateExists /\ OperatorInv /\ HandedOutInv)'
      BY <2>1 DEF MountedCertificateExists, OperatorInv, HandedOutInv
    <2>3. (PlannedInv /\ TopologyInv)'
      BY <2>1 DEF PlannedInv, TopologyInv
    <2>4. (KeeperShownInv /\ DeletingInv)'
      BY <2>1 DEF KeeperShownInv, DeletingInv
    <2> QED BY <2>2, <2>3, <2>4
  <1>13. CASE Issue
    <2>1. UNCHANGED <<inst, cluster, pc, copy, plan>> /\ cert' = "issued"
      BY <1>13 DEF Issue, instance, sync
    <2>2. (MountedCertificateExists /\ OperatorInv /\ HandedOutInv)'
      BY <2>1 DEF MountedCertificateExists, OperatorInv, HandedOutInv, cluster
    <2>3. (PlannedInv /\ KeeperShownInv /\ DeletingInv /\ TopologyInv)'
      BY <2>1 DEF PlannedInv, KeeperShownInv, DeletingInv, TopologyInv, cluster
    <2> QED BY <2>2, <2>3
  <1> QED BY <1>1, <1>2, <1>3, <1>4, <1>5, <1>6, <1>7, <1>8, <1>9, <1>10, <1>11,
     <1>12, <1>13, <1>14 DEF Next, SyncStep, OperatorStep

\* The whole invariant holds, whatever the layouts, settings, pods, edits and
\* faults: as long as no edit makes a replicated Instance standalone.
THEOREM CertificateInvariant ==
  ASSUME KeepsReplicated
  PROVE  Spec => []CertificateInv
  <1>1. Init => CertificateInv
    BY CertificateInit
  <1>2. TypeOK /\ CertificateInv /\ [Next]_vars => CertificateInv'
    BY CertificateNext
  <1> QED BY <1>1, <1>2, TypeCorrect, PTL DEF Spec

\* cleanupTLS never takes a certificate a pod mounts, and no pod is given one
\* before cert-manager issued it.
THEOREM CertificatesExist ==
  ASSUME KeepsReplicated
  PROVE  Spec => []MountedCertificateExists
  <1>1. CertificateInv => MountedCertificateExists
    BY DEF CertificateInv
  <1>2. Spec => []CertificateInv
    BY CertificateInvariant
  <1> QED BY <1>1, <1>2, PTL
=============================================================================
