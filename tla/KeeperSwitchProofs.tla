------------------------- MODULE KeeperSwitchProofs -------------------------
(***************************************************************************)
(* Switching Keeper between plaintext and TLS on a running replicated      *)
(* Instance, so that ClickHouse never loses it.                            *)
(*                                                                         *)
(* First for every edit, upgrade and fault, from one condition: the        *)
(* operator's reports are right about the ports (ReportsAreRight).  It is  *)
(* the only thing that can go wrong, and it does when a rendering recurs.  *)
(* Then that they are right as long as TLS is turned on and not off again. *)
(***************************************************************************)
EXTENDS CertificateProofs

USE DEF CRs

\* The Instance is replicated and was running when this provider got it.
StartsRunning ==
  \A s \in Starts : s[1] # "new" /\ Replicated(s[2])

\* The Keeper port ClickHouse uses with TLS on, or off, is open.
Opens(keeper, tls) == IF tls THEN keeper.secure ELSE keeper.plaintext

\* A CR reported as rolled out (rolledOut) runs the ports it says: Keeper the
\* one the Instance in hand calls for, if it says so, and ClickHouse the
\* secure one exactly if it says so.
ReportsAreRight ==
  /\ copy # None /\ Complete(cr["chk"]) /\ Opens(cr["chk"].spec, copy.inst.tls)
       => Opens(work["chk"].spec, copy.inst.tls)
  /\ Complete(cr["chi"]) =>
       (work["chi"].spec.port = KeeperSecurePort
          <=> cr["chi"].spec.port = KeeperSecurePort)

-----------------------------------------------------------------------------
(* The inductive invariant. *)

\* Everything is there, and ClickHouse uses Keeper.
WiredInv ==
  /\ Replicated(inst) /\ (copy # None => Replicated(copy.inst))
  /\ \A x \in CRs : /\ cr[x] # None /\ work[x] # None
                    /\ \A p \in PodsOf(x) : pods[p] # None
  /\ cr["chi"].spec.port # NoKeeper

\* Whatever Keeper may be running serves whatever ClickHouse may be using.
ServedInv ==
  \A c \in Configurations("chk"), d \in Configurations("chi") : Serves(c, d.port)

\* The planned step is safe to hand out, first to Keeper and then to
\* ClickHouse: what runs serves the port ClickHouse moves to, and Keeper, if
\* its turn is still to come, gets every port in use.
StepInv ==
  pc \in Applying =>
    /\ Serves(plan.step, plan.step.port)
    /\ \A c \in Configurations("chk") : Serves(c, plan.step.port)
    /\ pc = "applyCHK" =>
         \A d \in Configurations("chi") : Serves(plan.step, d.port)

SwitchInv ==
  /\ WiredInv
  /\ ServedInv
  /\ StepInv

\* A rendered Keeper serves what its wiring serves, and a rendered ClickHouse
\* of a replicated Instance uses the wiring's port.
LEMMA RenderPorts ==
  ASSUME NEW r, NEW in, NEW w
  PROVE  /\ \A port : Serves(RenderCHK(r, in, w), port) <=> Serves(w, port)
         /\ Replicated(in) => RenderCHI(r, in, w).port = w.port
  <1>1. RenderCHK(r, in, w).secure = w.secure
        /\ RenderCHK(r, in, w).plaintext = w.plaintext
    BY DEF RenderCHK
  <1>2. Replicated(in) => RenderCHI(r, in, w).port = w.port
    BY DEF RenderCHI
  <1> QED BY <1>1, <1>2 DEF Serves

\* What may be running after a step, per kind of step.
LEMMA ConfigurationsFrame ==
  UNCHANGED cluster => \A x \in CRs : Configurations(x)' = Configurations(x)
  BY DEF cluster, Configurations, PodsOf

LEMMA ConfigurationsApply ==
  ASSUME TypeOK, NEW x \in CRs, Apply(x)
  PROVE  /\ Configurations(x)' \subseteq Configurations(x) \cup {Desired(x)}
         /\ \A y \in CRs \ {x} : Configurations(y)' = Configurations(y)
  BY ApplyEffect DEF Configurations, PodsOf

LEMMA ConfigurationsOperator ==
  ASSUME TypeOK, NEW x \in CRs,
         \/ PickUp(x) \/ (\E p \in PodsOf(x) : Roll(x, p))
         \/ Finish(x) \/ Abort(x) \/ Resync(x)
  PROVE  /\ Configurations(x)' \subseteq Configurations(x)
         /\ \A y \in CRs \ {x} : Configurations(y)' = Configurations(y)
  <1>1. CASE PickUp(x)
    BY <1>1, PickUpEffect DEF Configurations, PodsOf
  <1>2. ASSUME NEW p \in PodsOf(x), Roll(x, p)
        PROVE  /\ Configurations(x)' \subseteq Configurations(x)
               /\ \A y \in CRs \ {x} : Configurations(y)' = Configurations(y)
    <2>1. UNCHANGED <<cr, work>> /\ work[x] # None /\ pods'[p] = work[x].spec
      BY <1>2, RollEffect
    <2>2. /\ \A q \in PodsOf(x) : q # p => pods'[q] = pods[q]
          /\ \A y \in CRs \ {x} : \A q \in PodsOf(y) : pods'[q] = pods[q]
      BY <1>2, RollEffect
    <2>3. {pods'[q] : q \in PodsOf(x)} \subseteq Configurations(x)
      BY <2>1, <2>2 DEF Configurations
    <2>4. Configurations(x)' \subseteq Configurations(x)
      BY <2>1, <2>3 DEF Configurations, PodsOf
    <2>5. ASSUME NEW y \in CRs \ {x} PROVE Configurations(y)' = Configurations(y)
      BY <2>1, <2>2, <2>5 DEF Configurations, PodsOf
    <2> QED BY <2>4, <2>5
  <1>3. CASE Finish(x) \/ Abort(x) \/ Resync(x)
    <2>1. /\ UNCHANGED <<work, pods>>
          /\ cr[x] # None /\ cr'[x] # None /\ cr'[x].spec = cr[x].spec
          /\ \A y \in CRs \ {x} : cr'[y] = cr[y]
      BY <1>3, ReportEffect
    <2> QED BY <2>1 DEF Configurations, PodsOf
  <1> QED BY <1>1, <1>2, <1>3

-----------------------------------------------------------------------------
(* The inductive argument. *)

\* It runs one configuration each, which fit, and secure ones only for TLS.
StartsWith(spec, stamped) ==
  /\ Running(spec, stamped)
  /\ \A x \in CRs : spec[x] # None
  /\ spec["chi"].port # NoKeeper /\ Serves(spec["chk"], spec["chi"].port)
  /\ spec["chk"].secure \/ spec["chi"].port = KeeperSecurePort => inst.tls
  /\ record.spec = spec \/ <<"unrecorded", inst>> \in Starts

LEMMA RunningStart ==
  ASSUME StartsRunning, Init
  PROVE  \E spec \in SpecPairs, stamped \in BOOLEAN : StartsWith(spec, stamped)
  <1>0. inst \in Inputs /\ inst.tls \in BOOLEAN
    BY DEF Init, Inputs
  <1>1. /\ Replicated(inst)
        /\ \/ Steady(1) \/ Steady(LastRelease)
           \/ TakenOver(TRUE)
           \/ <<"unrecorded", inst>> \in Starts /\ TakenOver(FALSE)
    <2>1. \A situation : <<situation, inst>> \in Starts
            => situation # "new" /\ Replicated(inst)
      BY DEF StartsRunning
    <2> QED BY <2>1 DEF Init
  <1>2. ASSUME NEW r \in Releases, Steady(r)
        PROVE  \E spec \in SpecPairs : StartsWith(spec, TRUE)
    <2>1. Settled(inst) \in Wirings
      BY <1>0 DEF Settled, Wirings, Ports, KeeperPort, KeeperSecurePort,
         KeeperReference, NoKeeper
    <2>2. /\ Settled(inst).port # NoKeeper
          /\ Serves(Settled(inst), Settled(inst).port)
          /\ Settled(inst).secure \/ Settled(inst).port = KeeperSecurePort => inst.tls
      <3>1. Settled(inst).secure <=> inst.tls
        BY Zenon DEF Settled
      <3>2. Settled(inst).plaintext <=> ~inst.tls
        BY Zenon DEF Settled
      <3>3. Settled(inst).port = IF inst.tls THEN KeeperSecurePort ELSE KeeperReference
        BY DEF Settled
      <3> QED BY <3>1, <3>2, <3>3 DEF Serves, KeeperSecurePort, KeeperReference,
         KeeperPort, NoKeeper
    <2> DEFINE spec == Renders(r, Settled(inst))
    <2>3. /\ spec["chk"] = RenderCHK(r, inst, Settled(inst))
          /\ spec["chi"] = RenderCHI(r, inst, Settled(inst))
      BY <1>1 DEF Renders
    <2>4. spec \in SpecPairs
      BY <1>0, <2>1, RendersTypes
    <2>5. Running(spec, TRUE) /\ record.spec = spec
      BY <1>2 DEF Steady
    <2>6. spec["chk"].secure <=> Settled(inst).secure
      BY <2>3 DEF RenderCHK
    <2> HIDE DEF spec
    <2>7. /\ spec["chi"].port = Settled(inst).port
          /\ Serves(spec["chk"], Settled(inst).port)
      BY <1>1, <2>2, <2>3, RenderPorts
    <2>8. \A x \in CRs : spec[x] # None
      BY <1>0, <2>1, <2>3, RenderTypes, NoneAssumption
    <2>9. StartsWith(spec, TRUE)
      BY <2>2, <2>5, <2>6, <2>7, <2>8 DEF StartsWith
    <2> QED BY <2>4, <2>9
  <1>3. ASSUME NEW recorded \in BOOLEAN, TakenOver(recorded),
               recorded \/ <<"unrecorded", inst>> \in Starts
        PROVE  \E spec \in SpecPairs : StartsWith(spec, FALSE)
    <2>1. 1 \in Releases /\ PlaintextKeeper \in Wirings
      BY <1>3, LayoutAssumption DEF TakenOver, Releases, PlaintextKeeper, Wirings,
         Ports, KeeperPort, KeeperSecurePort, KeeperReference, NoKeeper
    <2>2. RenderedBefore \in SpecPairs
      BY <1>0, <2>1, RendersTypes
    <2>3. /\ Running(RenderedBefore, FALSE)
          /\ recorded => record.spec = RenderedBefore
      BY <1>3 DEF TakenOver, EmptyRecord
    <2>4. /\ RenderedBefore["chk"] = RenderCHK(1, inst, PlaintextKeeper)
          /\ RenderedBefore["chi"]
               = [RenderCHI(1, inst, PlaintextKeeper) EXCEPT !.required = FALSE]
      BY <1>1 DEF RenderedBefore, Renders
    <2>5. /\ RenderCHI(1, inst, PlaintextKeeper) \in CHISpecs
          /\ RenderCHI(1, inst, PlaintextKeeper).port = KeeperReference
          /\ RenderCHK(1, inst, PlaintextKeeper) \in CHKSpecs
          /\ ~RenderCHK(1, inst, PlaintextKeeper).secure
      <3>1. PlaintextKeeper.port = KeeperReference
        BY DEF PlaintextKeeper
      <3>2. ~RenderCHK(1, inst, PlaintextKeeper).secure
        BY DEF PlaintextKeeper, RenderCHK
      <3> QED BY <1>0, <1>1, <2>1, <3>1, <3>2, RenderTypes, RenderPorts
    <2>6. /\ RenderedBefore["chi"] \in CHISpecs
          /\ RenderedBefore["chi"].port = KeeperReference
      BY <2>4, <2>5 DEF CHISpecs
    <2>7. Serves(PlaintextKeeper, KeeperReference)
      BY DEF PlaintextKeeper, Serves, KeeperReference, KeeperSecurePort
    <2>8. Serves(RenderedBefore["chk"], KeeperReference)
      BY <2>4, <2>7, RenderPorts
    <2>9. \A x \in CRs : RenderedBefore[x] # None
      BY <2>4, <2>5, <2>6, NoneAssumption
    <2>10. KeeperReference # NoKeeper /\ KeeperReference # KeeperSecurePort
      BY DEF KeeperReference, NoKeeper, KeeperSecurePort
    <2>11. StartsWith(RenderedBefore, FALSE)
      BY <1>3, <2>3, <2>4, <2>5, <2>6, <2>8, <2>9, <2>10 DEF StartsWith
    <2> QED BY <2>2, <2>11
  <1>4. 1 \in Releases /\ LastRelease \in Releases
    BY LayoutAssumption DEF Releases
  <1> QED BY <1>1, <1>2, <1>3, <1>4

LEMMA SwitchInit ==
  ASSUME StartsRunning, Init
  PROVE  /\ SwitchInv
         /\ \A x \in CRs : Configurations(x) = {cr[x].spec}
  <1>0. /\ TypeOK /\ pc = "idle" /\ copy = None
    BY TypeInit DEF Init, Fresh
  <1>1. Replicated(inst)
    <2>1. \A situation : <<situation, inst>> \in Starts => Replicated(inst)
      BY DEF StartsRunning
    <2> QED BY <2>1 DEF Init
  <1>2. PICK spec \in SpecPairs, stamped \in BOOLEAN : StartsWith(spec, stamped)
    BY RunningStart
  <1>3. \A x \in CRs : /\ cr[x] # None /\ cr[x].spec = spec[x]
                       /\ work[x] # None /\ work[x].spec = spec[x]
                       /\ spec[x] # None /\ \A p \in PodsOf(x) : pods[p] = spec[x]
    BY <1>2, RunningCluster DEF StartsWith
  <1>4. WiredInv
    BY <1>0, <1>1, <1>2, <1>3 DEF WiredInv, StartsWith
  <1>5. \A x \in CRs : Configurations(x) = {cr[x].spec}
    BY <1>3 DEF Configurations
  <1>6. ServedInv
    BY <1>2, <1>3, <1>5 DEF ServedInv, StartsWith
  <1> QED BY <1>0, <1>4, <1>5, <1>6 DEF SwitchInv, StepInv, Applying

\* Once the operator reports a CR as rolled out, no third configuration is left.
LEMMA CompleteConfigurations ==
  ASSUME TypeOK, OperatorInv, WiredInv, NEW x \in CRs
  PROVE  /\ work[x].spec \in Configurations(x) /\ cr[x].spec \in Configurations(x)
         /\ Configurations(x) \subseteq Specs(x)
         /\ Complete(cr[x]) =>
              \A c \in Configurations(x) : c = work[x].spec \/ c = cr[x].spec
  <1>1. cr[x] # None /\ work[x] # None /\ \A p \in PodsOf(x) : pods[p] # None
    BY DEF WiredInv
  <1>2. cr[x] \in Installations(x) /\ work[x] \in Renderings(x)
    BY <1>1 DEF TypeOK, ClusterOK
  <1>3. cr[x].spec \in Specs(x) /\ work[x].spec \in Specs(x)
    BY <1>2 DEF Installations, Renderings
  <1>4. \A p \in PodsOf(x) : pods[p] \in Specs(x)
    BY <1>1 DEF TypeOK, ClusterOK
  <1>5. Complete(cr[x]) => \A p \in PodsOf(x) : pods[p] = work[x].spec
    BY DEF Complete, OperatorInv
  <1> QED BY <1>1, <1>3, <1>4, <1>5 DEF Configurations

\* nextKeeperWiring plans a safe step, from reports that are right.
LEMMA PlannedStepIsSafe ==
  ASSUME TypeOK, OperatorInv, ReportsAreRight, WiredInv, ServedInv, copy # None
  PROVE  LET step == StepWiring(copy.inst.tls, LiveKeeperState)
         IN /\ Serves(step, step.port)
            /\ \A c \in Configurations("chk") : Serves(c, step.port)
            /\ \A d \in Configurations("chi") : Serves(step, d.port)
  <1> DEFINE tls == copy.inst.tls
             s == LiveKeeperState
             step == StepWiring(tls, s)
             keeper == cr["chk"].spec
             port == cr["chi"].spec.port
  <1>1. tls \in BOOLEAN /\ s \in KeeperStates
    BY LiveKeeperStateType DEF TypeOK, SyncOK, Copies, Inputs
  <1>2. /\ s.chiExists /\ s.chiPort = port /\ s.chiPort # NoKeeper
        /\ s.chkSecure <=> keeper.secure
        /\ s.chkPlaintext <=> keeper.plaintext
        /\ s.chkRolledOut <=> Complete(cr["chk"])
        /\ s.chiRolledOut <=> Complete(cr["chi"])
    BY Zenon DEF LiveKeeperState, WiredInv
  <1>3. \A d \in Configurations("chi") : d.port \in Ports
    BY CompleteConfigurations DEF Specs, CHISpecs
  <1>4. cr["chi"].spec \in Configurations("chi") /\ keeper \in Configurations("chk")
    BY CompleteConfigurations
  <1>5. /\ step.secure <=> tls \/ UsesSecure(tls, s)
        /\ step.plaintext <=> ~tls \/ UsesPlaintext(tls, s)
        /\ step.port = StepPort(tls, s)
        /\ TargetWiring(tls, s).port = KeeperSecurePort => tls
        /\ TargetWiring(tls, s).port \in {KeeperReference, KeeperPort} => ~tls
    BY <1>1, WiringFields
  <1> HIDE DEF step, s, tls
  <1>6. Serves(step, step.port)
    BY <1>1, <1>2, StepServesBothPorts DEF step
  <1>7. \A c \in Configurations("chk") : Serves(c, step.port)
    <2>1. CASE step.port = port
      BY <1>4, <2>1 DEF ServedInv
    <2>2. CASE step.port # port
      <3>1. /\ Complete(cr["chk"])
            /\ Serves([secure |-> s.chkSecure, plaintext |-> s.chkPlaintext], step.port)
        BY <1>1, <1>2, <2>2, MovesOntoServedPort DEF step
      <3>2. step.port = TargetWiring(tls, s).port
        BY <1>2, <1>5, <2>2 DEF StepPort
      <3>3. \A c \in Configurations("chk") : c = work["chk"].spec \/ c = keeper
        BY <3>1, CompleteConfigurations
      <3>4. CASE step.port = KeeperSecurePort
        <4>1. tls /\ keeper.secure
          BY <1>2, <1>5, <3>1, <3>2, <3>4 DEF Serves
        <4>2. work["chk"].spec.secure
          BY <3>1, <4>1 DEF ReportsAreRight, Opens, tls
        <4> QED BY <3>3, <3>4, <4>1, <4>2
                DEF Serves, KeeperSecurePort, KeeperPort, KeeperReference
      <3>5. CASE step.port \in {KeeperReference, KeeperPort}
        <4>1. ~tls /\ keeper.plaintext
          BY <1>2, <1>5, <3>1, <3>2, <3>5 DEF Serves
        <4>2. work["chk"].spec.plaintext
          BY <3>1, <4>1 DEF ReportsAreRight, Opens, tls
        <4> QED BY <3>3, <3>5, <4>1, <4>2
                DEF Serves, KeeperSecurePort, KeeperPort, KeeperReference
      <3> QED BY <3>4, <3>5 DEF Serves
    <2> QED BY <2>1, <2>2
  <1>8. ASSUME NEW d \in Configurations("chi") PROVE Serves(step, d.port)
    <2>1. ASSUME IsSettled(tls, s)
          PROVE  d.port = KeeperSecurePort <=> s.chiPort = KeeperSecurePort
      <3>1. Complete(cr["chi"])
        BY <1>2, <2>1 DEF IsSettled
      <3>2. d = work["chi"].spec \/ d = cr["chi"].spec
        BY <1>8, <3>1, CompleteConfigurations
      <3> QED BY <1>2, <3>1, <3>2 DEF ReportsAreRight
    <2>2. ASSUME d.port = KeeperSecurePort PROVE step.secure
      <3>1. s.chkSecure
        BY <1>2, <1>4, <1>8, <2>2 DEF ServedInv, Serves
      <3> QED BY <1>2, <1>5, <2>1, <2>2, <3>1 DEF UsesSecure
    <2>3. ASSUME d.port \in {KeeperReference, KeeperPort} PROVE step.plaintext
      <3>1. d.port # KeeperSecurePort
        BY <2>3 DEF KeeperReference, KeeperPort, KeeperSecurePort
      <3>2. s.chiPort >= 0
        BY <1>1, <1>2 DEF KeeperStates, Ports, NoKeeper, KeeperReference, KeeperPort,
           KeeperSecurePort
      <3> QED BY <1>2, <1>5, <2>1, <3>1, <3>2 DEF UsesPlaintext
    <2> QED BY <2>2, <2>3 DEF Serves
  <1> QED BY <1>6, <1>7, <1>8 DEF step, s, tls

\* Steps that write no CR and plan nothing keep the invariant.
LEMMA SwitchFrame ==
  ASSUME SwitchInv, UNCHANGED cluster,
         Replicated(inst'), copy' # None => Replicated(copy'.inst),
         pc' \in Applying => /\ pc \in Applying /\ plan'.step = plan.step
                             /\ pc' = "applyCHK" => pc = "applyCHK"
  PROVE  SwitchInv'
  <1>1. Configurations("chk")' = Configurations("chk")
        /\ Configurations("chi")' = Configurations("chi")
    BY ConfigurationsFrame
  <1>2. WiredInv'
    BY DEF SwitchInv, WiredInv, cluster
  <1>3. ServedInv'
    BY <1>1 DEF SwitchInv, ServedInv
  <1>4. StepInv'
    BY <1>1 DEF SwitchInv, StepInv
  <1> QED BY <1>2, <1>3, <1>4 DEF SwitchInv

\* Every step keeps the invariant, while the reports are right.
LEMMA SwitchNext ==
  ASSUME KeepsReplicated, TypeOK, CertificateInv, ReportsAreRight, SwitchInv,
         [Next]_vars
  PROVE  SwitchInv'
  <1>0. /\ WiredInv /\ ServedInv /\ StepInv
        /\ Replicated(inst) /\ (copy # None => Replicated(copy.inst))
    BY DEF SwitchInv, WiredInv
  <1>1. CASE StartSync
    <2>1. /\ UNCHANGED <<inst, cluster>> /\ copy'.inst = inst /\ pc' \in {"plan", "wait"}
      BY <1>1 DEF StartSync, instance
    <2> QED BY <1>0, <2>1, SwitchFrame DEF Applying
  <1>2. CASE Plan
    <2>1. /\ UNCHANGED <<inst, cluster, copy>>
          /\ plan'.step = StepWiring(copy.inst.tls, LiveKeeperState)
          /\ pc = "plan"
      BY <1>2 DEF Plan, instance
    <2>2. copy # None
      BY <2>1 DEF TypeOK, SyncOK
    <2>3. Configurations("chk")' = Configurations("chk")
          /\ Configurations("chi")' = Configurations("chi")
      BY <2>1, ConfigurationsFrame
    <2>4. OperatorInv
      BY DEF CertificateInv
    <2>5. StepInv'
      BY <1>0, <2>1, <2>2, <2>3, <2>4, PlannedStepIsSafe DEF StepInv
    <2>6. WiredInv'
      BY <1>0, <2>1 DEF WiredInv, cluster
    <2>7. ServedInv'
      BY <1>0, <2>3 DEF ServedInv
    <2> QED BY <2>5, <2>6, <2>7 DEF SwitchInv
  <1>3. CASE Edit
    <2>1. Replicated(inst') /\ UNCHANGED <<cluster, pc, copy, plan>>
      BY <1>0, <1>3 DEF Edit, KeepsReplicated
    <2> QED BY <1>0, <2>1, SwitchFrame
  <1>4. ASSUME NEW x \in CRs, Apply(x) PROVE SwitchInv'
    <2>1. /\ UNCHANGED <<inst, work, pods, copy>> /\ copy # None /\ plan # None
          /\ plan'.step = plan.step
          /\ pc = At(x, "applyCHK", "applyCHI")
          /\ pc' \in {At(x, "saveCHK", "saveCHI"), At(x, "checkCHK", "checkCHI")}
          /\ cr'[x] # None /\ cr'[x].spec = Desired(x)
          /\ \A y \in CRs \ {x} : cr'[y] = cr[y]
      BY <1>4, ApplyEffect
    <2>2. pc \in Applying /\ pc' \in Applying /\ pc' # "applyCHK"
      BY <2>1 DEF At, Applying
    <2>3. plan.step.port # NoKeeper
      BY <2>1 DEF TypeOK, SyncOK, Plans, Wirings
    <2>4. CASE x = "chk"
      <3>1. \A port : Serves(Desired("chk"), port) <=> Serves(plan.step, port)
        BY RenderPorts DEF Desired
      <3>2. /\ Configurations("chk")' \subseteq Configurations("chk") \cup {Desired("chk")}
            /\ Configurations("chi")' = Configurations("chi")
        BY <1>4, <2>4, ConfigurationsApply
      <3>3. WiredInv'
        BY <1>0, <2>1, <2>4 DEF WiredInv
      <3>4. ServedInv'
        BY <1>0, <2>1, <2>2, <2>4, <3>1, <3>2 DEF ServedInv, StepInv, At
      <3>5. StepInv'
        BY <1>0, <2>1, <2>2, <3>1, <3>2 DEF StepInv
      <3> QED BY <3>3, <3>4, <3>5 DEF SwitchInv
    <2>5. CASE x = "chi"
      <3>1. Desired("chi").port = plan.step.port
        BY <1>0, <2>1, RenderPorts DEF Desired
      <3>2. /\ Configurations("chi")' \subseteq Configurations("chi") \cup {Desired("chi")}
            /\ Configurations("chk")' = Configurations("chk")
        BY <1>4, <2>5, ConfigurationsApply
      <3>3. WiredInv'
        BY <1>0, <2>1, <2>3, <2>5, <3>1 DEF WiredInv
      <3>4. ServedInv'
        BY <1>0, <2>2, <3>1, <3>2 DEF ServedInv, StepInv
      <3>5. StepInv'
        BY <1>0, <2>1, <2>2, <3>2 DEF StepInv
      <3> QED BY <3>3, <3>4, <3>5 DEF SwitchInv
    <2> QED BY <2>4, <2>5
  <1>5. ASSUME \/ \E x \in CRs : PickUp(x)
               \/ \E x \in CRs : \E p \in PodsOf(x) : Roll(x, p)
               \/ \E x \in CRs : Finish(x) \/ Abort(x) \/ Resync(x)
        PROVE  SwitchInv'
    <2>1. /\ Configurations("chk")' \subseteq Configurations("chk")
          /\ Configurations("chi")' \subseteq Configurations("chi")
      <3>1. PICK x \in CRs : \/ PickUp(x) \/ (\E p \in PodsOf(x) : Roll(x, p))
                             \/ Finish(x) \/ Abort(x) \/ Resync(x)
        BY <1>5
      <3>2. /\ Configurations(x)' \subseteq Configurations(x)
            /\ \A y \in CRs \ {x} : Configurations(y)' = Configurations(y)
        BY <3>1, ConfigurationsOperator
      <3> QED BY <3>2
    <2>2. UNCHANGED <<inst, pc, copy, plan>>
      BY <1>5 DEF PickUp, Roll, Finish, Abort, Resync, instance, sync
    <2>3. \A x \in CRs : /\ cr'[x] # None /\ cr'[x].spec = cr[x].spec
                         /\ work'[x] # None
                         /\ \A p \in PodsOf(x) : pods'[p] # None
      <3>1. ASSUME NEW x \in CRs, PickUp(x), NEW y \in CRs
            PROVE  /\ cr'[y] # None /\ cr'[y].spec = cr[y].spec /\ work'[y] # None
                   /\ \A p \in PodsOf(y) : pods'[p] # None
        BY <1>0, <3>1, PickUpEffect DEF WiredInv
      <3>2. ASSUME NEW x \in CRs, NEW q \in PodsOf(x), Roll(x, q), NEW y \in CRs
            PROVE  /\ cr'[y] # None /\ cr'[y].spec = cr[y].spec /\ work'[y] # None
                   /\ \A p \in PodsOf(y) : pods'[p] # None
        BY <1>0, <3>2, RollEffect DEF WiredInv
      <3>3. ASSUME NEW x \in CRs, Finish(x) \/ Abort(x) \/ Resync(x), NEW y \in CRs
            PROVE  /\ cr'[y] # None /\ cr'[y].spec = cr[y].spec /\ work'[y] # None
                   /\ \A p \in PodsOf(y) : pods'[p] # None
        BY <1>0, <3>3, ReportEffect DEF WiredInv
      <3> QED BY <1>5, <3>1, <3>2, <3>3
    <2>4. WiredInv'
      BY <1>0, <2>2, <2>3 DEF WiredInv
    <2>5. ServedInv'
      BY <1>0, <2>1 DEF ServedInv
    <2>6. StepInv'
      BY <1>0, <2>1, <2>2 DEF StepInv
    <2> QED BY <2>4, <2>5, <2>6 DEF SwitchInv
  <1>6. CASE AfterPlan
    <2>1. /\ UNCHANGED <<inst, cluster, copy>> /\ plan'.step = plan.step
          /\ pc' \in Applying => pc \in Applying /\ pc' # "applyCHK"
      BY <1>6, AfterPlanEffect DEF instance, Applying
    <2> QED BY <1>0, <2>1, SwitchFrame
  <1>7. CASE Ends
    BY <1>0, <1>7, EndsEffect, SwitchFrame DEF EndSync, Applying
  <1>8. CASE Aside
    BY <1>0, <1>8, AsideEffect, SwitchFrame
  <1>9. CASE UNCHANGED vars
    <2>1. UNCHANGED <<inst, cluster, pc, copy, plan>>
      BY <1>9 DEF vars, instance, sync
    <2> QED BY <1>0, <2>1, SwitchFrame
  <1> QED BY <1>1, <1>2, <1>3, <1>4, <1>5, <1>6, <1>7, <1>8, <1>9, StepCases

\* What the invariant says of the pods.
LEMMA SwitchServes ==
  ASSUME SwitchInv
  PROVE  KeeperServesClickHouse
  <1>1. /\ \A p \in KeeperPods : pods[p] # None /\ pods[p] \in Configurations("chk")
        /\ \A q \in CHPods : pods[q] \in Configurations("chi")
    BY DEF SwitchInv, WiredInv, Configurations, PodsOf
  <1> QED BY <1>1 DEF SwitchInv, ServedInv, KeeperServesClickHouse

\* The invariant holds for as long as the reports are right.
LEMMA SwitchInvariant ==
  ASSUME StartsRunning, KeepsReplicated
  PROVE  Spec /\ []ReportsAreRight => []SwitchInv
  <1>1. Init => SwitchInv
    BY SwitchInit
  <1>2. TypeOK /\ CertificateInv /\ ReportsAreRight /\ SwitchInv /\ [Next]_vars
          => SwitchInv'
    BY SwitchNext
  <1> QED BY <1>1, <1>2, TypeCorrect, CertificateInvariant, PTL DEF Spec

\* Whatever the user edits, TLS on and off at any moment, whatever fails and
\* whatever release takes over: ClickHouse on a running replicated Instance
\* keeps a Keeper port it can use, as long as the operator's reports of what
\* is rolled out are right about the ports.
THEOREM KeeperServesWhileReportsAreRight ==
  ASSUME StartsRunning, KeepsReplicated
  PROVE  Spec /\ []ReportsAreRight => []KeeperServesClickHouse
  <1>1. SwitchInv => KeeperServesClickHouse
    BY SwitchServes
  <1>2. Spec /\ []ReportsAreRight => []SwitchInv
    BY SwitchInvariant
  <1> QED BY <1>1, <1>2, PTL

-----------------------------------------------------------------------------
(* The refinement: each step is one of PortSwitch's, or changes nothing there. *)

\* The ports a Keeper configuration opens, as PortSwitch sees it.
PortsOpen(c) == [secure |-> c # None /\ c.secure, plaintext |-> c # None /\ c.plaintext]

\* PortSwitch reads the same constants.
LEMMA SwitchServesSame ==
  ASSUME NEW c, NEW port, c # None
  PROVE  Switch!Serves(PortsOpen(c), port) <=> Serves(c, port)
  <1>1. PortsOpen(c).secure <=> c.secure
    BY Zenon DEF PortsOpen
  <1>2. PortsOpen(c).plaintext <=> c.plaintext
    BY Zenon DEF PortsOpen
  <1> QED BY <1>1, <1>2 DEF Serves, Switch!Serves, Switch!KeeperSecurePort,
     Switch!KeeperReference, Switch!KeeperPort, KeeperSecurePort, KeeperReference,
     KeeperPort

\* What PortSwitch sees, in terms of the configurations that may be running.
LEMMA SwitchView ==
  ASSUME TypeOK, OperatorInv, WiredInv
  PROVE  /\ \A c \in Configurations("chk") : c # None
         /\ \A d \in Configurations("chi") : d # None
         /\ KeeperConfigs = {PortsOpen(c) : c \in Configurations("chk")}
         /\ PortsInUse = {d.port : d \in Configurations("chi")} \ {NoKeeper}
         /\ \A c : PortsOpen(c) \in Switch!Configs
  <1>1. /\ \A c \in Configurations("chk") : c # None
        /\ \A d \in Configurations("chi") : d # None
    BY CompleteConfigurations, NoneAssumption DEF Specs
  <1>2. KeeperConfigs = {PortsOpen(c) : c \in Configurations("chk")}
    BY DEF KeeperConfigs, PortsOpen
  <1>3. PortsInUse = {d.port : d \in Configurations("chi")} \ {NoKeeper}
    BY <1>1 DEF PortsInUse
  <1>4. ASSUME NEW c PROVE PortsOpen(c) \in Switch!Configs
    BY DEF PortsOpen, Switch!Configs
  <1> QED BY <1>1, <1>2, <1>3, <1>4

LEMMA SwitchViewInit ==
  ASSUME StartsRunning, Init
  PROVE  Switch!Init
  <1>1. /\ TypeOK /\ OperatorInv /\ WiredInv /\ ServedInv
        /\ \A x \in CRs : Configurations(x) = {cr[x].spec}
    BY TypeInit, CertificateInit, SwitchInit DEF CertificateInv, SwitchInv
  <1> DEFINE k == PortsOpen(cr["chk"].spec)
             port == cr["chi"].spec.port
  <1>2. KeeperConfigs = {k} /\ k \in Switch!Configs /\ cr["chk"].spec # None
    BY <1>1, SwitchView
  <1>3. port # NoKeeper /\ port \in Ports
    BY <1>1, CompleteConfigurations DEF WiredInv, Specs, CHISpecs
  <1>4. PortsInUse = {port} /\ port \in Switch!ClientPorts
    <2>1. PortsInUse = {port}
      BY <1>1, <1>3, SwitchView
    <2> QED BY <1>3, <2>1 DEF Switch!ClientPorts, Switch!Ports, Switch!NoKeeper,
       Switch!KeeperReference, Switch!KeeperPort, Switch!KeeperSecurePort, Ports,
       NoKeeper, KeeperReference, KeeperPort, KeeperSecurePort
  <1>5. Switch!Serves(k, port)
    BY <1>1, <1>2, SwitchServesSame DEF ServedInv
  <1> HIDE DEF k, port
  <1> QED BY <1>2, <1>4, <1>5 DEF Switch!Init

\* Fewer configurations, or one more, are fewer ports, or one more.
LEMMA SwitchViewStep ==
  ASSUME NEW e
  PROVE  /\ Configurations("chk")' \subseteq Configurations("chk") \cup {e}
              => KeeperConfigs' \subseteq KeeperConfigs \cup {PortsOpen(e)}
         /\ Configurations("chi")' \subseteq Configurations("chi") \cup {e}
              => PortsInUse' \subseteq PortsInUse \cup {e.port}
         /\ Configurations("chk")' \subseteq Configurations("chk")
              => KeeperConfigs' \subseteq KeeperConfigs
         /\ Configurations("chi")' \subseteq Configurations("chi")
              => PortsInUse' \subseteq PortsInUse
         /\ Configurations("chk")' = Configurations("chk")
              => KeeperConfigs' = KeeperConfigs
         /\ Configurations("chi")' = Configurations("chi")
              => PortsInUse' = PortsInUse
  <1>1. /\ KeeperConfigs = {PortsOpen(c) : c \in Configurations("chk")}
        /\ KeeperConfigs' = {PortsOpen(c) : c \in Configurations("chk")'}
    BY DEF KeeperConfigs, PortsOpen
  <1>2. /\ PortsInUse = {d.port : d \in Configurations("chi") \ {None}} \ {NoKeeper}
        /\ PortsInUse' = {d.port : d \in Configurations("chi")' \ {None}} \ {NoKeeper}
    BY DEF PortsInUse
  <1> QED BY <1>1, <1>2

LEMMA SwitchViewNext ==
  ASSUME TypeOK, OperatorInv, SwitchInv, [Next]_vars
  PROVE  [Switch!Next]_<<KeeperConfigs, PortsInUse>>
  <1>0. WiredInv /\ ServedInv /\ StepInv
    BY DEF SwitchInv
  <1>1. ASSUME NEW x \in CRs, Apply(x) PROVE Switch!Next
    <2>1. /\ pc = At(x, "applyCHK", "applyCHI")
          /\ copy # None /\ plan # None
      BY <1>1, ApplyEffect
    <2>2. plan.step.port \in Ports \ {NoKeeper} /\ pc \in Applying
      BY <2>1 DEF TypeOK, SyncOK, Plans, Wirings, At, Applying
    <2>3. CASE x = "chk"
      <3>1. Desired("chk") # None
        BY <2>1, DesiredTypes, NoneAssumption DEF Specs
      <3>2. \A d \in Configurations("chi") : Serves(plan.step, d.port)
        BY <1>0, <2>1, <2>2, <2>3 DEF StepInv, At
      <3>3. \A port \in PortsInUse : Serves(Desired("chk"), port)
        <4>1. \A port : Serves(Desired("chk"), port) <=> Serves(plan.step, port)
          BY RenderPorts DEF Desired
        <4> QED BY <1>0, <3>2, <4>1, SwitchView
      <3>4. /\ Configurations("chk")' \subseteq Configurations("chk") \cup {Desired("chk")}
            /\ Configurations("chi")' = Configurations("chi")
        BY <1>1, <2>3, ConfigurationsApply
      <3>5. Switch!ChangeKeeper(PortsOpen(Desired("chk")))
        <4>1. \A port \in PortsInUse : Switch!Serves(PortsOpen(Desired("chk")), port)
          BY <3>1, <3>3, SwitchServesSame
        <4> QED BY <3>4, <4>1, SwitchViewStep DEF Switch!ChangeKeeper
      <3>6. PortsOpen(Desired("chk")) \in Switch!Configs
        BY <1>0, SwitchView
      <3> QED BY <3>5, <3>6 DEF Switch!Next
    <2>4. CASE x = "chi"
      <3>1. Desired("chi").port = plan.step.port
        BY <1>0, <2>1, RenderPorts DEF Desired, WiredInv
      <3>2. /\ Configurations("chi")' \subseteq Configurations("chi") \cup {Desired("chi")}
            /\ Configurations("chk")' = Configurations("chk")
        BY <1>1, <2>4, ConfigurationsApply
      <3>3. Switch!ChangePort(plan.step.port)
        <4>1. \A c \in Configurations("chk") : Serves(c, plan.step.port) /\ c # None
          BY <1>0, <2>2, SwitchView DEF StepInv
        <4>2. \A k \in KeeperConfigs : Switch!Serves(k, plan.step.port)
          BY <1>0, <4>1, SwitchView, SwitchServesSame
        <4>3. /\ PortsInUse' \subseteq PortsInUse \cup {plan.step.port}
              /\ KeeperConfigs' = KeeperConfigs
          BY <3>1, <3>2, SwitchViewStep
        <4> QED BY <4>2, <4>3 DEF Switch!ChangePort
      <3>4. plan.step.port \in Switch!ClientPorts
        BY <2>2 DEF Switch!ClientPorts, Switch!Ports, Switch!NoKeeper,
           Switch!KeeperReference, Switch!KeeperPort, Switch!KeeperSecurePort, Ports,
           NoKeeper, KeeperReference, KeeperPort, KeeperSecurePort
      <3> QED BY <3>3, <3>4 DEF Switch!Next
    <2> QED BY <2>3, <2>4
  <1>2. ASSUME NEW x \in CRs,
               \/ PickUp(x) \/ (\E p \in PodsOf(x) : Roll(x, p))
               \/ Finish(x) \/ Abort(x) \/ Resync(x)
        PROVE  Switch!Next
    <2>1. /\ Configurations(x)' \subseteq Configurations(x)
          /\ \A y \in CRs \ {x} : Configurations(y)' = Configurations(y)
      BY <1>2, ConfigurationsOperator
    <2>2. CASE x = "chk"
      <3>1. Switch!RollKeeper
        BY <2>1, <2>2, SwitchViewStep DEF Switch!RollKeeper
      <3> QED BY <3>1 DEF Switch!Next
    <2>3. CASE x = "chi"
      <3>1. Switch!RollClickHouse
        BY <2>1, <2>3, SwitchViewStep DEF Switch!RollClickHouse
      <3> QED BY <3>1 DEF Switch!Next
    <2> QED BY <2>2, <2>3
  <1>3. ASSUME UNCHANGED cluster PROVE UNCHANGED <<KeeperConfigs, PortsInUse>>
    BY <1>3, ConfigurationsFrame, SwitchViewStep
  <1>4. CASE StartSync \/ Plan \/ Edit \/ AfterPlan \/ Ends \/ Aside \/ UNCHANGED vars
    <2>1. UNCHANGED cluster
      BY <1>4, AfterPlanEffect, EndsEffect, AsideEffect DEF StartSync, Plan, Edit, vars
    <2> QED BY <1>3, <2>1
  <1> QED BY <1>1, <1>2, <1>4, StepCases

\* Every step of a reconcile and of the operator is a step PortSwitch allows:
\* the switch of a running cluster implements that protocol, as long as the
\* operator's reports are right about the ports.
THEOREM SwitchImplementsPortSwitch ==
  ASSUME StartsRunning, KeepsReplicated
  PROVE  Spec /\ []ReportsAreRight => ImplementsPortSwitch
  <1>1. Init => Switch!Init
    BY SwitchViewInit
  <1>2. TypeOK /\ CertificateInv /\ SwitchInv /\ [Next]_vars
          => [Switch!Next]_<<KeeperConfigs, PortsInUse>>
    BY SwitchViewNext DEF CertificateInv
  <1>3. Spec /\ []ReportsAreRight => []SwitchInv
    BY SwitchInvariant
  <1> QED BY <1>1, <1>2, <1>3, TypeCorrect, CertificateInvariant, PTL
          DEF Spec, ImplementsPortSwitch, Switch!Spec

-----------------------------------------------------------------------------
(***************************************************************************)
(* Turning TLS on.  A task ID is derived from the rendering, so a report   *)
(* is wrong about the ports when an earlier rendering recurs with other    *)
(* ports in between.  That takes turning TLS off again: without it every   *)
(* completed task was for ports that the later ones open as well.          *)
(***************************************************************************)
\* Users turn TLS on and never off.
OnlyTurnsOn == \A e \in Edits : e[1].tls => e[2].tls

\* The provider knows what was applied last.
StartsRecorded == \A s \in Starts : s[1] # "unrecorded"

\* A rendering, or a wiring, has the secure port.
On(x, spec) == IF x = "chk" THEN spec.secure ELSE spec.port = KeeperSecurePort

\* The secure port, once in a completed task, stays in all that follows: what
\* the operator picked up, then what the CR says.  A CR without a task ID says
\* what was recorded and picked up.
TasksInv ==
  \A x \in CRs :
    /\ On(x, work[x].spec) => On(x, cr[x].spec)
    /\ \A d \in cr[x].done \ {None} : On(x, d) => On(x, work[x].spec)
    /\ record.spec[x] # None
    /\ ~cr[x].stamped => record.spec[x] = cr[x].spec /\ work[x].spec = cr[x].spec
    /\ pc = At(x, "saveCHK", "saveCHI") => cr[x].spec = Desired(x)

\* The secure port is there for an Instance with TLS only, and no step of a
\* reconcile takes it away.
TurnedOnInv ==
  /\ copy # None /\ copy.inst.tls => inst.tls
  /\ \A x \in CRs : On(x, cr[x].spec) => inst.tls /\ (copy # None => copy.inst.tls)
  /\ pc \in Applying =>
       /\ \A x \in CRs : /\ On(x, cr[x].spec) => On(x, plan.step)
                         /\ On(x, plan.step) => copy.inst.tls
       /\ plan.step.secure \/ plan.step.plaintext
  /\ cr["chk"].spec.secure \/ cr["chk"].spec.plaintext
  /\ work["chk"].spec.secure \/ work["chk"].spec.plaintext

\* So what is reported as rolled out has the ports it says.
LEMMA TasksTell ==
  ASSUME TypeOK, WiredInv, TasksInv, TurnedOnInv
  PROVE  ReportsAreRight
  <1>1. ASSUME NEW x \in CRs, Complete(cr[x])
        PROVE  On(x, work[x].spec) <=> On(x, cr[x].spec)
    <2>1. cr[x].spec # None
      BY NoneAssumption DEF TypeOK, ClusterOK, WiredInv, Installations, Specs
    <2>2. CASE cr[x].stamped
      <3>1. cr[x].spec \in cr[x].done \ {None}
        BY <1>1, <2>1, <2>2 DEF Complete, RolledOut
      <3> QED BY <3>1 DEF TasksInv
    <2>3. CASE ~cr[x].stamped
      BY <2>3 DEF TasksInv
    <2> QED BY <2>2, <2>3
  <1>2. Complete(cr["chi"]) =>
          (work["chi"].spec.port = KeeperSecurePort
             <=> cr["chi"].spec.port = KeeperSecurePort)
    BY <1>1 DEF On
  <1>3. ASSUME copy # None, Complete(cr["chk"]), Opens(cr["chk"].spec, copy.inst.tls)
        PROVE  Opens(work["chk"].spec, copy.inst.tls)
    <2>1. work["chk"].spec.secure <=> cr["chk"].spec.secure
      BY <1>1, <1>3 DEF On
    <2>2. CASE copy.inst.tls
      BY <1>3, <2>1, <2>2 DEF Opens
    <2>3. CASE ~copy.inst.tls
      <3>1. ~work["chk"].spec.secure
        BY <1>3, <2>1, <2>3 DEF TurnedOnInv, On
      <3> QED BY <2>3, <3>1 DEF Opens, TurnedOnInv
    <2> QED BY <2>2, <2>3
  <1> QED BY <1>2, <1>3 DEF ReportsAreRight

OnInv ==
  /\ SwitchInv
  /\ TasksInv
  /\ TurnedOnInv

LEMMA OnInit ==
  ASSUME StartsRunning, StartsRecorded, Init
  PROVE  OnInv
  <1>0. TypeOK /\ pc = "idle" /\ copy = None
    BY TypeInit DEF Init, Fresh
  <1>1. PICK spec \in SpecPairs, stamped \in BOOLEAN : StartsWith(spec, stamped)
    BY RunningStart
  <1>2. record.spec = spec
    <2>1. <<"unrecorded", inst>> \notin Starts
      BY DEF StartsRecorded
    <2> QED BY <1>1, <2>1 DEF StartsWith
  <1>3. \A x \in CRs : /\ cr[x].spec = spec[x] /\ work[x].spec = spec[x]
                       /\ spec[x] # None
    BY <1>1, RunningCluster DEF StartsWith
  <1>4. \A x \in CRs : cr[x].done \subseteq {spec[x], None}
    BY <1>1 DEF StartsWith, Running
  <1>5. TasksInv
    BY <1>0, <1>2, <1>3, <1>4 DEF TasksInv, At
  <1>6. spec["chk"].secure \/ spec["chk"].plaintext
    <2>1. spec["chi"] \in CHISpecs
      BY <1>3 DEF SpecPairs, Specs
    <2> QED BY <1>1, <2>1 DEF StartsWith, Serves, CHISpecs, Ports
  <1>7. TurnedOnInv
    BY <1>0, <1>1, <1>3, <1>6 DEF TurnedOnInv, StartsWith, On, Applying
  <1> QED BY <1>5, <1>7, SwitchInit DEF OnInv

\* What a plan makes of the secure port, TLS only ever turned on.
LEMMA PlannedStepTurnsOn ==
  ASSUME TypeOK, WiredInv, TurnedOnInv, copy # None
  PROVE  LET step == StepWiring(copy.inst.tls, LiveKeeperState)
         IN /\ \A x \in CRs : /\ On(x, cr[x].spec) => On(x, step)
                              /\ On(x, step) => copy.inst.tls
            /\ step.secure \/ step.plaintext
  <1> DEFINE tls == copy.inst.tls
             s == LiveKeeperState
             step == StepWiring(tls, s)
  <1>1. tls \in BOOLEAN /\ s \in KeeperStates
    BY LiveKeeperStateType DEF TypeOK, SyncOK, Copies, Inputs
  <1>2. /\ s.chiPort = cr["chi"].spec.port
        /\ s.chkSecure <=> cr["chk"].spec.secure
    BY Zenon DEF LiveKeeperState, WiredInv
  <1>3. /\ step.secure <=> tls \/ UsesSecure(tls, s)
        /\ step.plaintext <=> ~tls \/ UsesPlaintext(tls, s)
        /\ step.port = StepPort(tls, s)
        /\ TargetWiring(tls, s).port = KeeperSecurePort => tls
    BY <1>1, WiringFields
  <1>4. tls => TargetWiring(tls, s).port = KeeperSecurePort
    BY DEF TargetWiring
  <1> HIDE DEF step, s
  <1>5. s.chiPort = KeeperSecurePort \/ s.chkSecure => tls
    BY <1>2 DEF TurnedOnInv, On
  <1> HIDE DEF tls
  <1>6. /\ s.chkSecure => step.secure
        /\ s.chiPort = KeeperSecurePort => step.port = KeeperSecurePort
        /\ step.secure \/ step.plaintext
        /\ step.secure \/ step.port = KeeperSecurePort => tls
    BY <1>3, <1>4, <1>5 DEF UsesSecure, StepPort
  <1>7. \A x \in CRs : /\ On(x, cr[x].spec) => On(x, step)
                       /\ On(x, step) => tls
    BY <1>2, <1>6 DEF On
  <1> QED BY <1>6, <1>7 DEF step, s, tls

\* A reconcile records what it has just applied, and nothing else.
LEMMA AfterPlanRecord ==
  ASSUME TypeOK, AfterPlan
  PROVE  \/ UNCHANGED record
         \/ \E x \in CRs : /\ pc = At(x, "saveCHK", "saveCHI")
                           /\ record'.spec[x] = Desired(x)
                           /\ \A y \in CRs \ {x} : record'.spec[y] = record.spec[y]
  <1>1. ASSUME NEW x \in CRs, Save(x)
        PROVE  /\ pc = At(x, "saveCHK", "saveCHI")
               /\ record'.spec[x] = Desired(x)
               /\ \A y \in CRs \ {x} : record'.spec[y] = record.spec[y]
    BY <1>1 DEF Save, Recorded, TypeOK, RecordOK, Records
  <1>2. CASE \E x \in CRs : Save(x)
    BY <1>1, <1>2
  <1>3. CASE (\E x \in CRs : Hold(x)) \/ CheckCHK \/ CheckCHI \/ DeleteTLS
    BY <1>3 DEF Hold, CheckCHK, CheckCHI, DeleteTLS
  <1> QED BY <1>2, <1>3 DEF AfterPlan

\* A step that writes no CR, and plans nothing, keeps the secure port as it is.
LEMMA OnFrame ==
  ASSUME TypeOK, WiredInv, TasksInv, TurnedOnInv, UNCHANGED cluster,
         copy' # None /\ copy'.inst.tls => inst'.tls,
         inst.tls => inst'.tls,
         copy' # None /\ inst.tls /\ (copy # None => copy.inst.tls) => copy'.inst.tls,
         pc' \in Applying => /\ pc \in Applying /\ plan'.step = plan.step
                             /\ UNCHANGED copy
  PROVE  TurnedOnInv'
  BY DEF TurnedOnInv, cluster, TypeOK, SyncOK, Applying

LEMMA OnNext ==
  ASSUME OnlyTurnsOn, TypeOK, WiredInv, TasksInv, TurnedOnInv, [Next]_vars
  PROVE  TasksInv' /\ TurnedOnInv'
  <1>1. ASSUME UNCHANGED <<cluster, record>>,
               \A x \in CRs : pc' = At(x, "saveCHK", "saveCHI") =>
                 pc = pc' /\ UNCHANGED <<release, copy, plan>>
        PROVE  TasksInv'
    BY <1>1 DEF TasksInv, cluster, Desired
  <1>2. CASE StartSync
    <2>1. /\ UNCHANGED <<inst, cluster, record>> /\ copy'.inst = inst
          /\ pc' \in {"plan", "wait"}
      BY <1>2 DEF StartSync, instance
    <2>2. TasksInv'
      BY <1>1, <2>1 DEF At
    <2>3. TurnedOnInv'
      BY <2>1, OnFrame DEF Applying
    <2> QED BY <2>2, <2>3
  <1>3. CASE Plan
    <2>1. /\ UNCHANGED <<inst, cluster, record, copy>>
          /\ plan'.step = StepWiring(copy.inst.tls, LiveKeeperState)
          /\ pc = "plan" /\ pc' \in {"applyCHK", "applyCHI"}
      BY <1>3 DEF Plan, instance
    <2>2. copy # None
      BY <2>1 DEF TypeOK, SyncOK
    <2>3. TasksInv'
      BY <1>1, <2>1 DEF At
    <2>4. /\ \A x \in CRs : /\ On(x, cr[x].spec) => On(x, plan'.step)
                            /\ On(x, plan'.step) => copy.inst.tls
          /\ plan'.step.secure \/ plan'.step.plaintext
      BY <2>1, <2>2, PlannedStepTurnsOn
    <2>5. TurnedOnInv'
      BY <2>1, <2>4 DEF TurnedOnInv, cluster
    <2> QED BY <2>3, <2>5
  <1>4. CASE Edit
    <2>1. UNCHANGED <<release, cluster, record, pc, copy, plan>>
      BY <1>4 DEF Edit
    <2>2. inst.tls => inst'.tls
      BY <1>4 DEF Edit, OnlyTurnsOn
    <2>3. TasksInv'
      BY <1>1, <2>1
    <2>4. TurnedOnInv'
      BY <2>1, <2>2, OnFrame DEF TurnedOnInv
    <2> QED BY <2>3, <2>4
  <1>5. ASSUME NEW x \in CRs, Apply(x) PROVE TasksInv' /\ TurnedOnInv'
    <2>1. /\ UNCHANGED <<inst, release, work, record, copy>>
          /\ copy # None /\ plan'.step = plan.step
          /\ pc = At(x, "applyCHK", "applyCHI")
          /\ pc' \in {At(x, "saveCHK", "saveCHI"), At(x, "checkCHK", "checkCHI")}
          /\ cr'[x].spec = Desired(x)
          /\ cr'[x].stamped = Stamps(record, x, cr[x] # None,
                                     cr[x] # None /\ cr[x].stamped, Desired(x))
          /\ cr[x] # None /\ cr'[x].done = cr[x].done
          /\ \A y \in CRs \ {x} : cr'[y] = cr[y]
      BY <1>5, ApplyEffect DEF WiredInv
    <2>2. pc \in Applying /\ pc' \in Applying
      BY <2>1 DEF At, Applying
    <2>3. /\ On(x, Desired(x)) <=> On(x, plan.step)
          /\ x = "chk" => /\ Desired(x).secure <=> plan.step.secure
                          /\ Desired(x).plaintext <=> plan.step.plaintext
      <3>1. CASE x = "chk"
        BY <3>1 DEF On, Desired, RenderCHK
      <3>2. CASE x = "chi"
        BY <2>1, <3>2, RenderPorts DEF On, Desired, WiredInv
      <3> QED BY <3>1, <3>2
    <2>4. On(x, cr[x].spec) => On(x, plan.step)
      BY <2>2 DEF TurnedOnInv
    <2>5. Desired(x)' = Desired(x)
      BY <2>1 DEF Desired
    <2>6. ~cr'[x].stamped => record.spec[x] = Desired(x) /\ work[x].spec = Desired(x)
      BY <2>1 DEF Stamps, Unchanged, TasksInv
    <2>7. \A y \in CRs \ {x} : pc' # At(y, "saveCHK", "saveCHI")
      BY <2>1 DEF At
    <2>8. TasksInv'
      <3>1. /\ On(x, work[x].spec) => On(x, cr[x].spec)
            /\ \A d \in cr[x].done \ {None} : On(x, d) => On(x, work[x].spec)
            /\ record.spec[x] # None
        BY DEF TasksInv
      <3>2. ASSUME NEW y \in CRs
            PROVE  /\ On(y, work[y].spec) => On(y, cr'[y].spec)
                   /\ \A d \in cr'[y].done \ {None} : On(y, d) => On(y, work[y].spec)
                   /\ record.spec[y] # None
                   /\ ~cr'[y].stamped => record.spec[y] = cr'[y].spec
                                         /\ work[y].spec = cr'[y].spec
                   /\ pc' = At(y, "saveCHK", "saveCHI") => cr'[y].spec = Desired(y)'
        <4>1. CASE y = x
          BY <2>1, <2>3, <2>4, <2>5, <2>6, <3>1, <4>1
        <4>2. CASE y # x
          BY <2>1, <2>7, <4>2 DEF TasksInv
        <4> QED BY <4>1, <4>2
      <3> QED BY <2>1, <3>2 DEF TasksInv
    <2>9. TurnedOnInv'
      <3>1. On(x, plan.step) => copy.inst.tls /\ inst.tls
        BY <2>1, <2>2 DEF TurnedOnInv
      <3>2. \A y \in CRs : On(y, cr'[y].spec) => inst.tls /\ copy.inst.tls
        BY <2>1, <2>3, <3>1 DEF TurnedOnInv
      <3>3. /\ \A y \in CRs : /\ On(y, cr'[y].spec) => On(y, plan.step)
                              /\ On(y, plan.step) => copy.inst.tls
            /\ plan.step.secure \/ plan.step.plaintext
        BY <2>1, <2>2, <2>3 DEF TurnedOnInv
      <3>4. /\ cr'["chk"].spec.secure \/ cr'["chk"].spec.plaintext
            /\ work["chk"].spec.secure \/ work["chk"].spec.plaintext
        BY <2>1, <2>3, <3>3 DEF TurnedOnInv
      <3> QED BY <2>1, <3>2, <3>3, <3>4 DEF TurnedOnInv
    <2> QED BY <2>8, <2>9
  <1>6. ASSUME NEW x \in CRs, PickUp(x) PROVE TasksInv' /\ TurnedOnInv'
    <2>1. /\ UNCHANGED <<inst, release, record, pc, copy, plan>>
          /\ cr'[x].spec = cr[x].spec /\ cr'[x].stamped = cr[x].stamped
          /\ cr'[x].done = cr[x].done /\ work'[x].spec = cr[x].spec
          /\ \A y \in CRs \ {x} : cr'[y] = cr[y] /\ work'[y] = work[y]
      BY <1>6, PickUpEffect DEF instance, sync
    <2>2. \A y \in CRs : Desired(y)' = Desired(y)
      BY <2>1 DEF Desired
    <2>3. ASSUME NEW y \in CRs
          PROVE  /\ On(y, work'[y].spec) => On(y, cr'[y].spec)
                 /\ \A d \in cr'[y].done \ {None} : On(y, d) => On(y, work'[y].spec)
                 /\ record.spec[y] # None
                 /\ ~cr'[y].stamped => record.spec[y] = cr'[y].spec
                                       /\ work'[y].spec = cr'[y].spec
                 /\ pc = At(y, "saveCHK", "saveCHI") => cr'[y].spec = Desired(y)
      <3>1. CASE y = x
        BY <2>1, <3>1 DEF TasksInv
      <3>2. CASE y # x
        BY <2>1, <3>2 DEF TasksInv
      <3> QED BY <3>1, <3>2
    <2>4. TasksInv'
      BY <2>1, <2>2, <2>3 DEF TasksInv
    <2>5. /\ \A y \in CRs : cr'[y].spec = cr[y].spec
          /\ work'["chk"].spec = work["chk"].spec \/ work'["chk"].spec = cr["chk"].spec
      BY <2>1
    <2>6. TurnedOnInv'
      BY <2>1, <2>5 DEF TurnedOnInv
    <2> QED BY <2>4, <2>6
  <1>7. ASSUME NEW x \in CRs, NEW p \in PodsOf(x), Roll(x, p)
        PROVE  TasksInv' /\ TurnedOnInv'
    <2>1. UNCHANGED <<inst, release, cr, work, record, pc, copy, plan>>
      BY <1>7 DEF Roll, instance, sync
    <2> QED BY <2>1 DEF TasksInv, TurnedOnInv, Desired
  <1>8. ASSUME NEW x \in CRs, Finish(x) \/ Abort(x) \/ Resync(x)
        PROVE  TasksInv' /\ TurnedOnInv'
    <2>1. /\ UNCHANGED <<inst, release, work, record, pc, copy, plan>>
          /\ cr'[x].spec = cr[x].spec /\ cr'[x].stamped = cr[x].stamped
          /\ cr'[x].done \subseteq cr[x].done \cup {work[x].spec, None}
          /\ \A y \in CRs \ {x} : cr'[y] = cr[y]
      BY <1>8, ReportEffect DEF instance, sync
    <2>2. \A y \in CRs : Desired(y)' = Desired(y)
      BY <2>1 DEF Desired
    <2>3. \A y \in CRs : /\ cr'[y].spec = cr[y].spec /\ cr'[y].stamped = cr[y].stamped
                         /\ cr'[y].done \subseteq cr[y].done \cup {work[y].spec, None}
      BY <2>1
    <2>4. \A y \in CRs : \A d \in cr'[y].done \ {None} : On(y, d) => On(y, work[y].spec)
      BY <2>3 DEF TasksInv
    <2>5. TasksInv'
      BY <2>1, <2>2, <2>3, <2>4 DEF TasksInv
    <2>6. TurnedOnInv'
      BY <2>1, <2>3 DEF TurnedOnInv
    <2> QED BY <2>5, <2>6
  <1>9. CASE AfterPlan
    <2>1. /\ UNCHANGED <<inst, release, cluster, copy>> /\ plan'.step = plan.step
          /\ copy # None
          /\ pc' \in Applying => pc \in Applying
          /\ pc' \notin {"saveCHK", "saveCHI"}
      BY <1>9, AfterPlanEffect DEF instance
    <2>2. \A x \in CRs : record'.spec[x] = record.spec[x] \/ record'.spec[x] = cr[x].spec
      BY <1>9, AfterPlanRecord DEF TasksInv
    <2>3. \A x \in CRs : cr[x].spec # None
      BY NoneAssumption DEF TypeOK, ClusterOK, WiredInv, Installations, Specs
    <2>4. TasksInv'
      BY <2>1, <2>2, <2>3 DEF TasksInv, At, cluster
    <2>5. TurnedOnInv'
      BY <2>1, OnFrame DEF TurnedOnInv
    <2> QED BY <2>4, <2>5
  <1>10. CASE Ends
    <2>1. UNCHANGED <<inst, cluster, record>> /\ pc' = "idle" /\ copy' = None
      BY <1>10, EndsEffect DEF EndSync
    <2>2. TasksInv'
      BY <1>1, <2>1 DEF At
    <2>3. TurnedOnInv'
      BY <2>1, OnFrame DEF Applying
    <2> QED BY <2>2, <2>3
  <1>11. CASE Aside \/ UNCHANGED vars
    <2>1. UNCHANGED <<inst, release, cluster, record, pc, copy, plan>>
      BY <1>11, AsideEffect DEF vars, instance, sync
    <2>2. TasksInv'
      BY <1>1, <2>1
    <2>3. TurnedOnInv'
      BY <2>1, OnFrame DEF TurnedOnInv
    <2> QED BY <2>2, <2>3
  <1> QED BY <1>2, <1>3, <1>4, <1>5, <1>6, <1>7, <1>8, <1>9, <1>10, <1>11, StepCases

\* On a running replicated Instance that is recorded, TLS being turned on at
\* any moment, the reports are right.
THEOREM ReportsAreRightTurningOn ==
  ASSUME StartsRunning, StartsRecorded, KeepsReplicated, OnlyTurnsOn
  PROVE  Spec => []ReportsAreRight
  <1>1. Init => OnInv
    BY OnInit
  <1>2. TypeOK /\ OnInv => ReportsAreRight
    BY TasksTell DEF OnInv, SwitchInv
  <1>3. TypeOK /\ CertificateInv /\ OnInv /\ [Next]_vars => OnInv'
    <2> SUFFICES ASSUME TypeOK, CertificateInv, OnInv, [Next]_vars PROVE OnInv'
      OBVIOUS
    <2>1. SwitchInv'
      BY <1>2, SwitchNext DEF OnInv
    <2>2. TasksInv' /\ TurnedOnInv'
      BY OnNext DEF OnInv, SwitchInv
    <2> QED BY <2>1, <2>2 DEF OnInv
  <1> QED BY <1>1, <1>2, <1>3, TypeCorrect, CertificateInvariant, PTL DEF Spec

\* Hence ClickHouse never loses Keeper while TLS is turned on: with every pod
\* of either kind rolled at any time, every other edit, upgrade and fault.
THEOREM KeeperServesTurningOn ==
  ASSUME StartsRunning, StartsRecorded, KeepsReplicated, OnlyTurnsOn
  PROVE  Spec => []KeeperServesClickHouse /\ ImplementsPortSwitch
  BY ReportsAreRightTurningOn, KeeperServesWhileReportsAreRight,
     SwitchImplementsPortSwitch, PTL
=============================================================================
