---------------------------- MODULE ProviderSync ----------------------------
(***************************************************************************)
(* The reconciliation of one Instance: Sync (provider.go), the Keeper TLS  *)
(* switch (keeper_tls.go), the rollout gate (rollout.go), certificates     *)
(* (tls.go) and the published phase (status.go), run against the Altinity  *)
(* operator, cert-manager, the provider runtime and the user, which are    *)
(* external and modelled from how this code uses them.                     *)
(*                                                                         *)
(* Simplifications.  A rendering is reduced to what the gate, the switch   *)
(* and the certificate clean-up tell apart; an engine or Keeper setting is *)
(* one value.  The provider runs one reconcile of an Instance at a time    *)
(* and is the only writer of the CR specs and of the record, so the gate's *)
(* copy of the record is the record itself.  Reads return the current      *)
(* object.  A reconcile also writes the PodMonitor, which no step here     *)
(* reads, and the credentials Secret (module Credentials), whose rotation  *)
(* is one more engine setting here: it changes the inputs and the CHI.     *)
(***************************************************************************)
EXTENDS KeeperWiring, RolloutGate, Transitions, FiniteSets

CONSTANTS
  Engines, Keepers,     \* settings of the engine and of the keeper component
  Settings,             \* what they ask for, per CR: see Transitions
  Expandable,           \* StorageClasses that allow volume expansion
  KeeperPods, CHPods,   \* pods of the CHK and of the CHI
  LastRelease,          \* the provider is upgraded from release 1 up to this
  Layout,               \* what a release renders by itself, per CR
  Starts,               \* initial situations and their Instances, see Init
  Edits,                \* edits users make: pairs of Instances
  EditsMidSync,         \* may an edit fall between the two Instance reads?
  MaxEdits, MaxFaults, MaxHiccups  \* bounds on the environment's steps

Releases == 1 .. LastRelease

\* The Instance fields the CRs are rendered from (inputsHash).
Inputs == [topology: {"standalone", "replicated"}, tls: BOOLEAN,
           engine: Engines, keeper: Keepers]

Layouts == {Layout[r][x] : r \in Releases, x \in CRs}

\* Rendered specs.  A CHI's port is the one chiKeeperPort reads back.
CHKSpecs == [layout: Layouts, keeper: Keepers,
             secure: BOOLEAN, plaintext: BOOLEAN]
CHISpecs == [layout: Layouts, engine: Engines, tls: BOOLEAN,
             required: BOOLEAN, port: Ports]
Specs(x) == IF x = "chk" THEN CHKSpecs ELSE CHISpecs

\* A maintenance token: the release and the renderings a change leads to.
Tokens == [release: Releases, chk: CHKSpecs \cup {None}, chi: CHISpecs]

\* What a rendering asks for.
Component(x, spec) ==
  IF x = "chk" THEN Settings["chk"][spec.keeper] ELSE Settings["chi"][spec.engine]

PodsOf(x) == IF x = "chk" THEN KeeperPods ELSE CHPods
Pods == KeeperPods \cup CHPods

ASSUME LayoutAssumption ==
  /\ LastRelease \in Nat \ {0}
  /\ DOMAIN Layout = Releases
  /\ \A r \in Releases : DOMAIN Layout[r] = CRs

ASSUME InputsAssumption ==
  /\ Edits \subseteq Inputs \X Inputs
  /\ EditsMidSync \in BOOLEAN
  /\ MaxEdits \in Nat /\ MaxFaults \in Nat /\ MaxHiccups \in Nat

\* The engine's mode is tls.mode.
ASSUME SettingsAssumption ==
  /\ DOMAIN Settings = CRs
  /\ DOMAIN Settings["chi"] = Engines /\ DOMAIN Settings["chk"] = Keepers
  /\ \A x \in CRs : \A c \in DOMAIN Settings[x] :
       Settings[x][c].image \in Seq(Nat) /\ Settings[x][c].size \in Nat

ASSUME PodsAssumption ==
  /\ KeeperPods # {} /\ CHPods # {}
  /\ KeeperPods \cap CHPods = {}

VARIABLES
  inst,      \* the stored Instance
  maint,     \* its maintenance tolerance and approval
  release,   \* the provider release that is running
  cr,        \* the CHK and the CHI, None while they do not exist
  record,    \* the rollout-state Secret
  cert,      \* the server certificate: "absent", "requested", "issued"
  policies,  \* the NetworkPolicies there are
  phase,     \* status.phase
  pending,   \* status.pendingMaintenance
  pc,        \* the next step of the reconcile in progress
  copy,      \* the Instance as the reconcile was handed it
  plan,      \* what the reconcile derived from what it read
  stale,     \* the Instance was written after the copy was taken
  work,      \* what the operator picked up last, per CR
  pods,      \* the rendering each pod and its volume have, None before
  edits, faults, hiccups, \* environment steps taken
  edited     \* history: a user edit not yet reported as done, along with
             \* whatever was held, which an edit lets through

cluster == <<cr, work, pods>>
instance == <<inst, maint, release, edited>>
protection == <<cert, policies>>
status == <<phase, pending>>
sync == <<pc, copy, plan, stale>>
counters == <<edits, faults, hiccups>>
vars == <<instance, cluster, record, protection, status, sync, counters>>

-----------------------------------------------------------------------------
(* Types *)

Maintenances == [auto: BOOLEAN, approved: Tokens \cup {None}]
Copies == [inst: Inputs, maint: Maintenances]
Plans == [step: Wirings, target: Wirings, inputs: Inputs, token: Tokens,
          approved: BOOLEAN, asked: BOOLEAN]

States == {"New", "InProgress", "Completed", "Aborted"}

\* A CR: spec and whether spec.taskID is stamped (the ID is derived from the
\* rendering), the operator's status.status and status.taskIDsCompleted.
\* None in done is an ID the operator made up for an unstamped rendering.
Installations(x) == [spec: Specs(x), stamped: BOOLEAN, state: States,
                     done: SUBSET (Specs(x) \cup {None})]
Renderings(x) == [spec: Specs(x), stamped: BOOLEAN]

Records == [spec: [CRs -> CHKSpecs \cup CHISpecs \cup {None}],
            inputs: [CRs -> Inputs \cup {None}],
            target: Tokens \cup {None}]

Steps == {"idle", "plan", "applyCHK", "saveCHK", "checkCHK",
          "applyCHI", "saveCHI", "checkCHI", "deleteTLS", "wait", "done"}

\* None stands for what is absent: it is none of these.
ASSUME NoneAssumption ==
  /\ None \notin CHKSpecs /\ None \notin CHISpecs
  /\ None \notin Inputs /\ None \notin Tokens
  /\ None \notin Copies /\ None \notin Plans
  /\ \A x \in CRs : None \notin Installations(x) /\ None \notin Renderings(x)

InstanceOK ==
  /\ inst \in Inputs
  /\ maint \in Maintenances
  /\ release \in Releases
  /\ edited \in BOOLEAN

\* Including that the operator has picked up whatever it reports on.
ClusterOK ==
  /\ DOMAIN cr = CRs /\ DOMAIN work = CRs /\ DOMAIN pods = Pods
  /\ \A x \in CRs : cr[x] \in Installations(x) \cup {None}
  /\ \A x \in CRs : work[x] \in Renderings(x) \cup {None}
  /\ \A x \in CRs : \A p \in PodsOf(x) : pods[p] \in Specs(x) \cup {None}
  /\ \A x \in CRs : cr[x] # None /\ cr[x].state # "New" => work[x] # None

RecordOK ==
  /\ record \in Records
  /\ \A x \in CRs : record.spec[x] \in Specs(x) \cup {None}

StatusOK ==
  /\ phase \in {"None", "Provisioning", "Updating", "Failed", "Ready"}
  /\ pending \in Tokens \cup {None}

\* Including which of the reconcile's variables are set at which step.
SyncOK ==
  /\ pc \in Steps
  /\ copy \in Copies \cup {None}
  /\ plan \in Plans \cup {None}
  /\ stale \in BOOLEAN
  /\ pc = "idle" <=> copy = None
  /\ pc \notin {"idle", "plan", "wait"} => plan # None

ProtectionOK ==
  /\ cert \in {"absent", "requested", "issued"}
  /\ policies \in SUBSET {"plaintext", "keeper"}

TypeOK ==
  /\ InstanceOK
  /\ ClusterOK
  /\ RecordOK
  /\ StatusOK
  /\ SyncOK
  /\ ProtectionOK
  /\ edits \in Nat /\ faults \in Nat /\ hiccups \in Nat

-----------------------------------------------------------------------------
(* Rendering and reading the CRs *)

Replicated(in) == in.topology = "replicated"

\* tlsRequired
TLSRequired(in) == in.tls /\ Settings["chi"][in.engine].mode = "required"

\* buildCHKWired
RenderCHK(r, in, wiring) ==
  [layout |-> Layout[r]["chk"], keeper |-> in.keeper,
   secure |-> wiring.secure, plaintext |-> wiring.plaintext]

\* Mutant of RenderCHI: a standalone ClickHouse is wired to Keeper too.
RenderCHIWired(r, in, wiring) ==
  [layout |-> Layout[r]["chi"], engine |-> in.engine, tls |-> in.tls,
   required |-> TLSRequired(in), port |-> wiring.port]

\* buildCHIWired
RenderCHI(r, in, wiring) ==
  [layout |-> Layout[r]["chi"], engine |-> in.engine, tls |-> in.tls,
   required |-> TLSRequired(in),
   port |-> IF Replicated(in) THEN wiring.port ELSE NoKeeper]

\* newRolloutGate: the token names the renderings of the last step.
Token(r, in, target) ==
  [release |-> r,
   chk |-> IF Replicated(in) THEN RenderCHK(r, in, target) ELSE None,
   chi |-> RenderCHI(r, in, target)]

\* The server certificate Secret is mounted by a secure Keeper, and by a
\* ClickHouse that serves TLS or verifies a secure Keeper.
Mounts(x, spec) ==
  IF x = "chk" THEN spec.secure ELSE spec.tls \/ spec.port = KeeperSecurePort

\* Mutant of RolledOut: any completed task will do.
RolledOutOnce(c) == c.stamped => c.done # {}

\* rolledOut
RolledOut(c) == c.stamped => c.spec \in c.done

\* The operator reports the CR Completed, and for the rendering it carries.
Complete(c) == c # None /\ c.state = "Completed" /\ RolledOut(c)

\* liveKeeperState
LiveKeeperState ==
  LET chk == cr["chk"] chi == cr["chi"]
  IN [chkExists |-> chk # None,
      chkRolledOut |-> Complete(chk),
      chkSecure |-> chk # None /\ chk.spec.secure,
      chkPlaintext |-> chk # None /\ chk.spec.plaintext,
      chiExists |-> chi # None,
      chiRolledOut |-> Complete(chi),
      chiPort |-> IF chi # None THEN chi.spec.port ELSE NoKeeper]

\* Status: the phase of the Instance in hand.
StatusPhase ==
  LET chi == cr["chi"]
      served == chi # None /\ chi.done # {}
      inProgress == IF served THEN "Updating" ELSE "Provisioning"
      PhaseOf(c) == IF c # None /\ c.state = "Aborted" THEN "Failed"
                    ELSE inProgress
  IN CASE Replicated(copy.inst) /\ ~Complete(cr["chk"]) -> PhaseOf(cr["chk"])
       [] (~Replicated(copy.inst) \/ Complete(cr["chk"])) /\ ~Complete(chi)
            -> PhaseOf(chi)
       [] OTHER -> IF copy.inst.tls /\ cert # "issued" THEN inProgress
                   ELSE "Ready"

-----------------------------------------------------------------------------
(* The reconcile *)

\* validateExpandable: growing is refused for volumes there are, and a pod's
\* volume is created with it.
VolumesExpand(x) ==
  \A p \in PodsOf(x) :
    pods[p] # None => Component(x, pods[p]).class \in Expandable

\* Can what is deployed become what the Instance asks for?
Takes(x, in) ==
  LET desired == Settings[x][IF x = "chk" THEN in.keeper ELSE in.engine]
  IN cr[x] # None => Transition(Component(x, cr[x].spec), desired, VolumesExpand(x))

\* Validate, of an Instance whose fields are fine by themselves: isReplicated
\* (a replicated cluster does not become standalone), validateTransitions and
\* validateKeeperTransitions.
Valid(in) ==
  /\ ~Replicated(in) /\ cr["chi"] # None =>
       cr["chi"].spec.port = NoKeeper /\ cr["chk"] = None
  /\ Takes("chi", in)
  /\ Replicated(in) => Takes("chk", in)

\* ensureTLS: the issuers and the certificate are requested, once.
EnsureTLS ==
  cert' = IF inst.tls /\ cert = "absent" THEN "requested" ELSE cert

\* The runtime fetches the Instance, Validate accepts it, and a reconcile that
\* needs the certificate waits for its first issuance.
StartSync ==
  /\ pc = "idle"
  /\ Valid(inst)
  /\ copy' = [inst |-> inst, maint |-> maint]
  /\ stale' = FALSE
  /\ EnsureTLS
  /\ pc' = IF inst.tls /\ cert # "issued" THEN "wait" ELSE "plan"
  /\ UNCHANGED <<instance, cluster, record, policies, status, plan, counters>>

\* Validate refuses the Instance: nothing is synced.
Reject ==
  /\ pc = "idle"
  /\ ~Valid(inst)
  /\ UNCHANGED vars

\* planKeeperWiring and newRolloutGate.  Renderings come from the copy, the
\* gate's inputs from the Instance as it is stored now; the maintenance
\* decision is RequestMaintenance's, taken on the copy.
Plan ==
  /\ pc = "plan"
  /\ LET s == LiveKeeperState
         target == TargetWiring(copy.inst.tls, s)
         token == Token(release, copy.inst, target)
     IN plan' = [step |-> StepWiring(copy.inst.tls, s), target |-> target,
                 inputs |-> inst, token |-> token,
                 approved |-> copy.maint.auto \/ copy.maint.approved = token,
                 asked |-> FALSE]
  /\ pc' = IF Replicated(copy.inst) THEN "applyCHK" ELSE "applyCHI"
  /\ UNCHANGED <<instance, cluster, record, protection, status, copy, stale, counters>>

\* The rendering this step applies.
Desired(x) ==
  IF x = "chk" THEN RenderCHK(release, copy.inst, plan.step)
  ELSE RenderCHI(release, copy.inst, plan.step)

MayApplyUnasked(x) ==
  Unasked(record, x, cr[x] # None, Desired(x), plan.inputs, plan.token)

\* A CR after a server-side apply.
Applied(x) ==
  LET stamp == Stamps(record, x, cr[x] # None,
                      cr[x] # None /\ cr[x].stamped, Desired(x))
  IN IF cr[x] = None
     THEN [spec |-> Desired(x), stamped |-> stamp,
           state |-> "New", done |-> {}]
     ELSE [cr[x] EXCEPT !.spec = Desired(x), !.stamped = stamp]

At(x, chkStep, chiStep) == IF x = "chk" THEN chkStep ELSE chiStep

\* rolloutGate.apply, allowed: the CR is applied, and recorded next unless
\* the record says so already.
Apply(x) ==
  /\ pc = At(x, "applyCHK", "applyCHI")
  /\ MayApplyUnasked(x) \/ plan.approved
  /\ cr' = [cr EXCEPT ![x] = Applied(x)]
  /\ plan' = [plan EXCEPT !.asked = @ \/ ~MayApplyUnasked(x)]
  /\ pc' = IF UpToDate(record, x, Desired(x), plan.inputs)
           THEN At(x, "checkCHK", "checkCHI")
           ELSE At(x, "saveCHK", "saveCHI")
  /\ UNCHANGED <<instance, work, pods, record, protection, status, copy, stale,
                 counters>>

\* rolloutGate.apply, held: nothing is applied, the reconcile goes on.
Hold(x) ==
  /\ pc = At(x, "applyCHK", "applyCHI")
  /\ ~MayApplyUnasked(x) /\ ~plan.approved
  /\ plan' = [plan EXCEPT !.asked = TRUE]
  /\ pc' = At(x, "checkCHK", "checkCHI")
  /\ UNCHANGED <<instance, cluster, record, protection, status, copy, stale, counters>>

\* rolloutGate.save
Save(x) ==
  /\ pc = At(x, "saveCHK", "saveCHI")
  /\ record' = Recorded(record, x, Desired(x), plan.inputs, plan.token)
  /\ pc' = At(x, "checkCHK", "checkCHI")
  /\ UNCHANGED <<instance, cluster, protection, status, copy, plan, stale, counters>>

\* waitForCHK: ClickHouse is held until Keeper is rolled out.
CheckCHK ==
  /\ pc = "checkCHK"
  /\ pc' = IF Complete(cr["chk"]) THEN "applyCHI" ELSE "wait"
  /\ UNCHANGED <<instance, cluster, record, protection, status, copy, plan, stale,
                 counters>>

\* Mutants of CertificatesInUse: only the CRs are looked at; only the CHI is.
CertificatesInCRs == \E x \in CRs : cr[x] # None /\ Mounts(x, cr[x].spec)
CertificatesInCHI == cr["chi"] # None /\ Mounts("chi", cr["chi"].spec)

\* cleanupTLS: the certificates go once neither a CR nor a pod mounts them.
CertificatesInUse ==
  \E x \in CRs : \/ cr[x] # None /\ Mounts(x, cr[x].spec)
                 \/ \E p \in PodsOf(x) : pods[p] # None /\ Mounts(x, pods[p])

\* What cleanupTLS does next: one still being issued goes only if its CA
\* Secret is there already.
CleanupTLS(next) ==
  IF CertificatesInUse \/ cert = "absent" THEN {next}
  ELSE IF cert = "requested" THEN {next, "deleteTLS"}
  ELSE {"deleteTLS"}

\* Mutant of AppliedPolicies: what is not wanted any more stays.
AddedPolicies ==
  policies \cup (IF cr["chi"].spec.required THEN {"plaintext", "keeper"} ELSE {})

\* reconcilePlaintextPolicy: after the applied CHI, not the Instance.
AppliedPolicies ==
  IF ~cr["chi"].spec.required THEN {}
  ELSE IF Replicated(copy.inst) THEN {"plaintext", "keeper"}
  ELSE {"plaintext"}

\* Where syncReplicated, or syncStandalone, goes after ClickHouse: another
\* wait while the switch has steps to go.
AfterCHI == IF Replicated(copy.inst) /\ plan.step # plan.target
            THEN "wait" ELSE "done"

\* The rest of applyAndWaitForCHI: the policies, waitForCHI and, with TLS off,
\* cleanupTLS.
CheckCHI ==
  /\ pc = "checkCHI"
  /\ policies' = AppliedPolicies
  /\ pc' \in IF ~Complete(cr["chi"]) THEN {"wait"}
            ELSE IF copy.inst.tls THEN {AfterCHI}
            ELSE CleanupTLS(AfterCHI)
  /\ UNCHANGED <<instance, cluster, record, cert, status, copy, plan, stale,
                 counters>>

\* deleteTLSResources, decided on what cleanupTLS read before.
DeleteTLS ==
  /\ pc = "deleteTLS"
  /\ cert' = "absent"
  /\ pc' = AfterCHI
  /\ UNCHANGED <<instance, cluster, record, policies, status, copy, plan, stale,
                 counters>>

\* Mutant of EndSync: the Instance in hand is kept for the next reconcile.
EndSyncKeepsCopy ==
  /\ pc' = "idle"
  /\ plan' = None
  /\ stale' = FALSE
  /\ UNCHANGED copy

EndSync ==
  /\ pc' = "idle"
  /\ copy' = None
  /\ plan' = None
  /\ stale' = FALSE

HeldToken == IF plan # None /\ plan.asked /\ ~plan.approved
             THEN plan.token ELSE None

\* Sync returned a WaitError: reportStatus updates the status of the copy,
\* which the API server refuses when the Instance was written meanwhile.
PublishWait ==
  /\ pc = "wait"
  /\ phase' = IF stale THEN phase ELSE StatusPhase
  /\ pending' = IF stale \/ plan = None \/ ~plan.asked THEN pending
                ELSE HeldToken
  /\ EndSync
  /\ UNCHANGED <<instance, cluster, record, protection, counters>>

\* Sync returned nil: the runtime publishes Status and flushes what is held.
PublishDone ==
  /\ pc = "done"
  /\ phase' = StatusPhase
  /\ pending' = HeldToken
  /\ edited' = (edited /\ (stale \/ HeldToken # None))
  /\ EndSync
  /\ UNCHANGED <<inst, maint, release, cluster, record, protection, counters>>

\* A call fails or the provider restarts: the reconcile is abandoned.
Fail ==
  /\ pc # "idle"
  /\ faults < MaxFaults
  /\ faults' = faults + 1
  /\ EndSync
  /\ UNCHANGED <<instance, cluster, record, protection, status, edits, hiccups>>

SyncStep ==
  \/ StartSync
  \/ Plan
  \/ \E x \in CRs : Apply(x) \/ Hold(x) \/ Save(x)
  \/ CheckCHK
  \/ CheckCHI
  \/ DeleteTLS
  \/ PublishWait
  \/ PublishDone

-----------------------------------------------------------------------------
(* The user and whoever runs the provider *)

Edit ==
  /\ edits < MaxEdits
  /\ EditsMidSync \/ pc # "plan"
  /\ \E e \in Edits : e[1] = inst /\ inst' = e[2]
  /\ edits' = edits + 1
  /\ stale' = (pc # "idle")
  /\ edited' = TRUE
  /\ UNCHANGED <<maint, release, cluster, record, protection, status, pc, copy, plan,
                 faults, hiccups>>

\* The user approves what the status lists.
Approve ==
  /\ pending # None /\ maint.approved # pending
  /\ maint' = [maint EXCEPT !.approved = pending]
  /\ stale' = (pc # "idle")
  /\ UNCHANGED <<inst, release, edited, cluster, record, protection, status, pc, copy,
                 plan, counters>>

\* The user lets restarts go ahead without asking.
AllowRestarts ==
  /\ edits < MaxEdits
  /\ ~maint.auto
  /\ maint' = [maint EXCEPT !.auto = TRUE]
  /\ edits' = edits + 1
  /\ stale' = (pc # "idle")
  /\ UNCHANGED <<inst, release, edited, cluster, record, protection, status, pc, copy,
                 plan, faults, hiccups>>

\* A new provider release takes over, wherever the old one was.
Upgrade ==
  /\ release < LastRelease
  /\ release' = release + 1
  /\ EndSync
  /\ UNCHANGED <<inst, maint, edited, cluster, record, protection, status, counters>>

-----------------------------------------------------------------------------
(* The Altinity operator and cert-manager *)

Rendering(c) == [spec |-> c.spec, stamped |-> c.stamped]

\* The operator starts on a CR whose spec changed, or again after an abort.
PickUp(x) ==
  /\ cr[x] # None /\ cr[x].state # "InProgress"
  /\ work[x] # Rendering(cr[x]) \/ cr[x].state = "Aborted"
  /\ work' = [work EXCEPT ![x] = Rendering(cr[x])]
  /\ cr' = [cr EXCEPT ![x].state = "InProgress"]
  /\ UNCHANGED <<instance, pods, record, protection, status, sync, counters>>

\* A pod is rolled and its volume resized, which the API server refuses
\* unless the StorageClass allows it.
Roll(x, p) ==
  /\ cr[x] # None /\ cr[x].state = "InProgress"
  /\ pods[p] # work[x].spec
  /\ pods[p] # None =>
       \/ Component(x, pods[p]).size = Component(x, work[x].spec).size
       \/ Component(x, pods[p]).class \in Expandable
  /\ pods' = [pods EXCEPT ![p] = work[x].spec]
  /\ UNCHANGED <<instance, cr, work, record, protection, status, sync, counters>>

\* Every pod runs the rendering: its task is completed.
Finish(x) ==
  /\ cr[x] # None /\ cr[x].state = "InProgress"
  /\ \A p \in PodsOf(x) : pods[p] = work[x].spec
  /\ LET task == IF work[x].stamped THEN work[x].spec ELSE None
     IN cr' = [cr EXCEPT ![x].state = "Completed", ![x].done = @ \cup {task}]
  /\ UNCHANGED <<instance, work, pods, record, protection, status, sync, counters>>

Abort(x) ==
  /\ cr[x] # None /\ cr[x].state = "InProgress"
  /\ faults < MaxFaults
  /\ faults' = faults + 1
  /\ cr' = [cr EXCEPT ![x].state = "Aborted"]
  /\ UNCHANGED <<instance, work, pods, record, protection, status, sync, edits,
                 hiccups>>

\* The operator reconciles an unchanged CR again (it restarted, say).
Resync(x) ==
  /\ hiccups < MaxHiccups
  /\ cr[x] # None /\ cr[x].state = "Completed" /\ work[x] = Rendering(cr[x])
  /\ hiccups' = hiccups + 1
  /\ cr' = [cr EXCEPT ![x].state = "InProgress"]
  /\ UNCHANGED <<instance, work, pods, record, protection, status, sync, edits,
                 faults>>

Issue ==
  /\ cert = "requested"
  /\ cert' = "issued"
  /\ UNCHANGED <<instance, cluster, record, policies, status, sync, counters>>

OperatorStep(x) == PickUp(x) \/ (\E p \in PodsOf(x) : Roll(x, p)) \/ Finish(x)

-----------------------------------------------------------------------------
(* Initial situations *)

\* Where a switch for these inputs ends on a cluster wired as it was created.
Settled(in) == [secure |-> in.tls, plaintext |-> ~in.tls,
                port |-> IF in.tls THEN KeeperSecurePort ELSE KeeperReference]

Fresh ==
  /\ maint = [auto |-> FALSE, approved |-> None]
  /\ pending = None
  /\ pc = "idle" /\ copy = None /\ plan = None /\ stale = FALSE
  /\ edits = 0 /\ faults = 0 /\ hiccups = 0

\* The Instance was just created.
New ==
  /\ release = 1
  /\ cr = [x \in CRs |-> None]
  /\ work = [x \in CRs |-> None]
  /\ pods = [p \in Pods |-> None]
  /\ record = EmptyRecord
  /\ cert = "absent" /\ policies = {}
  /\ phase = "None"
  /\ edited = TRUE

\* The policies of a cluster that is rolled out.
PoliciesFor(chi) ==
  IF ~chi.required THEN {}
  ELSE IF Replicated(inst) THEN {"plaintext", "keeper"} ELSE {"plaintext"}

\* A cluster rendered as wired, every pod rolled out.
Running(spec, stamped) ==
  /\ cr = [x \in CRs |->
             IF spec[x] = None THEN None
             ELSE [spec |-> spec[x], stamped |-> stamped, state |-> "Completed",
                   done |-> {IF stamped THEN spec[x] ELSE None}]]
  /\ work = [x \in CRs |-> IF spec[x] = None THEN None
                           ELSE [spec |-> spec[x], stamped |-> stamped]]
  /\ pods = [p \in Pods |-> IF p \in KeeperPods THEN spec["chk"]
                            ELSE spec["chi"]]
  /\ cert = IF inst.tls THEN "issued" ELSE "absent"
  /\ policies = PoliciesFor(spec["chi"])
  /\ phase = "Ready"

\* What release r renders for the stored Instance, Keeper wired this way.
Renders(r, wiring) ==
  [x \in CRs |-> IF x = "chi" THEN RenderCHI(r, inst, wiring)
                 ELSE IF Replicated(inst) THEN RenderCHK(r, inst, wiring)
                 ELSE None]

\* Release r created the cluster and reported it Ready.
Steady(r) ==
  /\ release = r
  /\ Running(Renders(r, Settled(inst)), TRUE)
  /\ record = [spec |-> Renders(r, Settled(inst)),
               inputs |-> [x \in CRs |-> IF x = "chk" /\ ~Replicated(inst)
                                         THEN None ELSE inst],
               target |-> Token(r, inst, Settled(inst))]
  /\ edited = FALSE

\* Keeper as every cluster had it before it learnt TLS.
PlaintextKeeper == [secure |-> FALSE, plaintext |-> TRUE,
                    port |-> KeeperReference]

\* As it rendered the CRs: the plaintext client ports stayed open.
RenderedBefore ==
  [Renders(1, PlaintextKeeper) EXCEPT !["chi"].required = FALSE]

\* An earlier provider created the cluster, whose TLS ended at ClickHouse and
\* which stamped no task IDs; this provider has just taken over.  The earlier
\* one kept no record, or a record whose inputs cannot be compared.
TakenOver(recorded) ==
  /\ LastRelease >= 2 /\ release = 2
  /\ Running(RenderedBefore, FALSE)
  /\ record = IF recorded THEN [EmptyRecord EXCEPT !.spec = RenderedBefore]
              ELSE EmptyRecord
  /\ edited = ~recorded

Init ==
  /\ inst \in Inputs
  /\ Fresh
  /\ \/ <<"new", inst>> \in Starts /\ New
     \/ <<"steady", inst>> \in Starts /\ Steady(1)
     \/ <<"latest", inst>> \in Starts /\ Steady(LastRelease)
     \/ <<"recorded", inst>> \in Starts /\ TakenOver(TRUE)
     \/ <<"unrecorded", inst>> \in Starts /\ TakenOver(FALSE)

Next ==
  \/ SyncStep
  \/ Reject
  \/ Fail
  \/ Edit \/ Approve \/ AllowRestarts \/ Upgrade
  \/ \E x \in CRs : OperatorStep(x) \/ Abort(x) \/ Resync(x)
  \/ Issue

\* The runtime requeues every reconcile (waits, errors, watches), and the
\* operator and cert-manager keep working; users and faults owe nothing.
Fairness ==
  /\ WF_vars(SyncStep)
  /\ \A x \in CRs : WF_vars(OperatorStep(x))
  /\ WF_vars(Issue)

Spec == Init /\ [][Next]_vars
FairSpec == Spec /\ Fairness

-----------------------------------------------------------------------------
(* Properties *)

\* Switching Keeper to TLS or back never takes from a ClickHouse pod the
\* Keeper port it uses, on any Keeper node, and ClickHouse starts only once
\* every Keeper node is there (the steps of nextKeeperWiring, waitForCHK).
KeeperServesClickHouse ==
  \A q \in CHPods : pods[q] # None /\ pods[q].port # NoKeeper =>
    \A p \in KeeperPods : pods[p] # None /\ Serves(pods[p], pods[q].port)

\* Everything Keeper pods may be running: what they run, what the operator is
\* rolling out and what it will pick up.  Likewise ClickHouse's ports.
Configurations(x) ==
  {pods[p] : p \in PodsOf(x)}
    \cup (IF work[x] # None THEN {work[x].spec} ELSE {})
    \cup (IF cr[x] # None THEN {cr[x].spec} ELSE {})

KeeperConfigs ==
  {[secure |-> c # None /\ c.secure, plaintext |-> c # None /\ c.plaintext] :
     c \in Configurations("chk")}

PortsInUse ==
  {c.port : c \in Configurations("chi") \ {None}} \ {NoKeeper}

Switch == INSTANCE PortSwitch WITH keepers <- KeeperConfigs, ports <- PortsInUse

\* The steps planned from what was rolled out (planKeeperWiring) and applied
\* CHK before CHI (syncReplicated) hand the operator configurations only as
\* PortSwitch allows, so no mix of old and new pods leaves ClickHouse alone.
ImplementsPortSwitch == Switch!Spec

\* No pod mounts a server certificate Secret that cleanupTLS deleted or that
\* was not issued yet: a pod restarting would wait for it.
MountedCertificateExists ==
  \A x \in CRs : \A p \in PodsOf(x) :
    pods[p] # None /\ Mounts(x, pods[p]) => cert = "issued"

(* Why that is so: the inductive strengthening. *)

\* The operator works on what it picked up, and reports Completed when every
\* pod runs it.
OperatorInv ==
  \A x \in CRs :
    /\ cr[x] = None => /\ work[x] = None
                       /\ \A p \in PodsOf(x) : pods[p] = None
    /\ cr[x] # None /\ cr[x].state = "Completed" =>
         \A p \in PodsOf(x) : pods[p] = work[x].spec

\* What is handed to the operator, or being rolled out, mounts a Secret that
\* exists.
HandedOutInv ==
  \A x \in CRs :
    /\ cr[x] # None /\ Mounts(x, cr[x].spec) => cert = "issued"
    /\ work[x] # None /\ Mounts(x, work[x].spec) => cert = "issued"

\* The steps of a reconcile that act on its plan.
Applying == {"applyCHK", "saveCHK", "checkCHK", "applyCHI", "saveCHI", "checkCHI"}

\* A reconcile that is to mount the certificate finds it until it ends.
PlannedInv ==
  /\ (pc = "plan" \/ pc \in Applying) /\ copy.inst.tls => cert = "issued"
  /\ pc \in Applying /\ (plan.step.secure \/ plan.step.port = KeeperSecurePort)
       => cert = "issued"

\* Once waitForCHK has passed, a Keeper rollout that mounts the certificate
\* shows in the CHK or in the pods, where cleanupTLS looks.
KeeperShownInv ==
  pc \in {"applyCHI", "saveCHI", "checkCHI"} /\ work["chk"] # None
    /\ Mounts("chk", work["chk"].spec)
    => \/ cr["chk"] # None /\ Mounts("chk", cr["chk"].spec)
       \/ \A p \in KeeperPods : pods[p] # None /\ Mounts("chk", pods[p])

\* Keeper belongs to replicated Instances only, the stored one and the copy.
TopologyInv ==
  /\ cr["chk"] # None => Replicated(inst)
  /\ copy # None => /\ cr["chk"] # None => Replicated(copy.inst)
                    /\ Replicated(copy.inst) => Replicated(inst)
  /\ pc \in {"applyCHK", "saveCHK", "checkCHK"} => Replicated(copy.inst)

\* When the certificate is about to be deleted nothing mounts it, nor will
\* before the deletion.
DeletingInv ==
  pc = "deleteTLS" => \A x \in CRs :
    /\ cr[x] # None => ~Mounts(x, cr[x].spec)
    /\ work[x] # None => ~Mounts(x, work[x].spec)
    /\ \A p \in PodsOf(x) : pods[p] # None => ~Mounts(x, pods[p])

CertificateInv ==
  /\ MountedCertificateExists
  /\ OperatorInv
  /\ HandedOutInv
  /\ PlannedInv
  /\ KeeperShownInv
  /\ DeletingInv
  /\ TopologyInv

\* A reconcile changes what an existing CR renders only on behalf of the
\* user: an edit not reported as done yet, restarts allowed at any time, or
\* an approval of the very change it leads to (rolloutGate).
Consented ==
  \/ edited
  \/ copy.maint.auto
  \/ copy.maint.approved = plan.token

ChangesAreConsented ==
  [][\A x \in CRs :
       cr[x] # None /\ cr'[x] # None /\ cr'[x].spec # cr[x].spec => Consented
    ]_vars

\* An Instance Validate accepts is not refused later unless it, too, changes:
\* syncing it does not make it one the deployed cluster cannot take.
AcceptedStaysAccepted == [][Valid(inst) /\ inst' = inst => Valid(inst)']_vars

\* A version is at least another: no segment is lower but after a higher one.
\* Not Older, which stops at the segments both have.
AtLeast(image, other) ==
  \A i \in 1 .. 4 : \/ Segment(image, i) >= Segment(other, i)
                    \/ \E j \in 1 .. i - 1 : Segment(image, j) > Segment(other, j)

\* A pod's volume neither shrinks nor moves and its version does not fall, in
\* any step of any rollout: Validate compares the Instance with the CRs, long
\* before the operator gets to the pods (validateTransitions).
PodsNeverStepBack ==
  [][\A x \in CRs : \A p \in PodsOf(x) : pods[p] # None =>
       /\ pods'[p] # None
       /\ LET was == Component(x, pods[p]) is == Component(x, pods'[p])
          IN /\ is.size >= was.size /\ is.class = was.class
             /\ AtLeast(is.image, was.image)
    ]_vars

\* Ready is published only when every pod runs what its CR says (rolledOut).
Publishes == PublishDone \/ (PublishWait /\ ~stale)

ReadyIsRolledOut ==
  [][Publishes /\ phase' = "Ready" =>
       \A x \in CRs : cr[x] # None =>
         \A p \in PodsOf(x) : pods[p] = cr[x].spec
    ]_vars

\* The Instance is not reported Ready by a reconcile that has further steps
\* of a Keeper switch to take (the last wait of syncReplicated).
SwitchIsUpdating ==
  [][Publishes /\ plan # None /\ Replicated(copy.inst)
       /\ plan.step # plan.target /\ phase' = "Ready" => phase = "Ready"
    ]_vars

\* The cluster runs what this release renders for the stored Instance, at the
\* end of the switch, and the Instance says so.
Arrived ==
  LET target == TargetWiring(inst.tls, LiveKeeperState)
  IN /\ \A q \in CHPods : pods[q] = RenderCHI(release, inst, target)
     /\ Replicated(inst) =>
          \A p \in KeeperPods : pods[p] = RenderCHK(release, inst, target)
     /\ cert = IF inst.tls THEN "issued" ELSE "absent"
     /\ policies = PoliciesFor(RenderCHI(release, inst, target))
     /\ phase = "Ready"
     /\ pending = None

\* The user has been asked to approve a change, and has not.
Waiting == pending # None /\ pending # maint.approved /\ ~maint.auto

\* Every edit, upgrade and fault past, the cluster arrives where the Instance
\* and the release call for, or waits for an approval its status asks for:
\* each reconcile moves the switch along by itself (nextKeeperWiring).
Converges == <>[](Arrived \/ Waiting \/ ~Valid(inst))

\* With no change of release there is nothing to approve: what the user
\* edits always reaches the cluster.
EditsReachCluster == <>[](Arrived \/ ~Valid(inst))
=============================================================================
