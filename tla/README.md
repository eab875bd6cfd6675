# A TLA+ model of provider-altinity-clickhouse

The provider is a Kubernetes controller plug-in. It turns an OpenEverest
`Instance` into the custom resources of the Altinity operator: a
`ClickHouseInstallation` (CHI) and, in the `replicated` topology, a
`ClickHouseKeeperInstallation` (CHK). The program's own logic is not in the
rendering but in *when* what is rendered is handed over: a controller that is
called again and again, can stop anywhere, and works on pods it does not control.

## Inventory

| Component (source under `internal/provider/`) | State it keeps or decides on | Operations | What makes it correct |
|---|---|---|---|
| Sync (`provider.go`) | CHK, CHI, Instance status | read, plan, apply CHK, wait, apply CHI, wait, clean up, publish | every reconcile may stop anywhere and the next one carries on; Ready means rolled out |
| Keeper TLS switch (`keeper_tls.go`) | none: derived from the live CRs | `planKeeperWiring`, `nextKeeperWiring` | ClickHouse never loses Keeper; the switch ends |
| Rollout gate (`rollout.go`) | the `rollout-state` Secret, `spec.taskID` | `apply`, `save`, `rolledOut` | no restart the user did not ask for or approve; no edit held back |
| Status (`status.go`) | none | `Status` | the phase tells the truth about the pods |
| TLS (`tls.go`) | issuers, certificates, their Secrets | `ensureTLS`, `cleanupTLS` | no pod mounts a Secret that is not there; nothing left when TLS is off |
| Validation (`validate.go`) | none | `Validate` | an Instance the cluster cannot take is refused, and only such; volumes and versions never step back |
| Cleanup (`provider.go`) | CRs, PVC labels, Secrets | `Cleanup`, `syncReclaimPolicy`, `deletePVCs` | data kept unless asked; Keeper last; nothing left; it ends |
| Credentials (`users.go`) | credentials Secret with revision counters | `ensureCredentials` | a rotation reaches the pods; replicas authenticate each other |
| NetworkPolicies (`netpol.go`) | two objects | `reconcilePlaintextPolicy` | follow the applied CHI |
| PodMonitor (`monitoring.go`) | one object | create or delete on every reconcile | follows the parameter |
| Builders, scheduling, connection details | none | rendering | - |

**Interactions.** The runtime calls Validate, Sync, Status or Cleanup for one
Instance at a time, with a copy of the Instance made at the start; the gate reads the
stored Instance a second time. Sync hands specs to the operator by server-side
apply and learns of progress only through `status.status` and
`status.taskIDsCompleted`. cert-manager writes the Secret pods mount. The user
edits and approves at any time, and writes into the credentials Secret, which pods read when they start.

**What is hard.** The operator's status lags behind the spec; pods roll one by one,
later still; a reconcile's reads and writes are separate calls with crashes, edits and upgrades
in between, and reads of Secrets go through a cache that lags; a change is applied in several steps that one approval must cover;
Cleanup starts from the top after every wait. `PROJECT.json` lists these hazards
at the lines where they bite.

## Modules

| Module | Models |
|---|---|
| `KeeperWiring` | `nextKeeperWiring`: pure operators over `keeperState` |
| `RolloutGate` | the decision and the record of `rolloutGate.apply`: pure operators |
| `Transitions` | the storage and version transitions of `validate.go`: pure operators |
| `PortSwitch` | abstract specification: what a Keeper switch may hand the operator, knowing only what may be running |
| `ProviderSync` | the composition: Sync with gate, switch, certificates, policies, status and validation, and the environment |
| `Credentials` | the credentials Secret, its rendering and the gate's view of it, and the pods that read it |
| `Cleanup` | deletion: Cleanup against an operator that tears down |
| `MCProviderSync`, `MCCredentials`, `MCCleanup` | small instances for TLC |
| `KeeperWiringProofs`, `PortSwitchProofs`, `CredentialsProofs`, `CleanupProofs` | theorems about these modules |
| `ProviderSyncProofs` | types of `ProviderSync`, and lemmas on what each step does to the cluster |
| `CertificateProofs` | theorems: certificates (extends `ProviderSyncProofs`) |
| `KeeperSwitchProofs` | theorems: ClickHouse keeps Keeper; `PortSwitch` is implemented (extends `CertificateProofs`) |
| `RolloutProofs` | theorems: versions and volumes, validation, Ready, consent (extends `KeeperSwitchProofs`) |

`ProviderSync` extends `KeeperWiring`, `RolloutGate` and `Transitions` and is shown to
implement `PortSwitch`; `Credentials` extends `RolloutGate`.
Definitions marked `Mutant of X` are a plausible faulty variant of the definition `X`. They are not
part of any specification: each shows that some property would notice the fault.

### ProviderSync

State: the stored Instance (`inst`, `maint`), the running `release`, the CRs (`cr`: spec,
whether a task ID is stamped, operator state, completed task IDs), the gate's
`record`, the certificate `cert`, the NetworkPolicies, the published `phase` and `pending`
maintenance, the reconcile in progress (`pc`, `copy`, `plan`, `stale`), and what the
operator is rolling out (`work`) on which `pods`. `edited` is a history variable: a user edit has
not been reported as done yet.

A reconcile is a sequence of actions, with everything else interleaved:

| Action | Code |
|---|---|
| `StartSync`, `Reject` | runtime fetch, `Validate` (topology, storage, expansion and version of both components against the live CRs), `ensureTLS` |
| `Plan` | `planKeeperWiring`, builders, `newRolloutGate` (second read of the Instance) |
| `Apply(x)`, `Hold(x)`, `Save(x)` | `rolloutGate.apply` and `save`, separately: a crash may fall between |
| `CheckCHK` | `waitForCHK` |
| `CheckCHI`, `DeleteTLS` | `reconcilePlaintextPolicy`, which goes by the applied CHI, `waitForCHI`, the last wait of `syncReplicated`; `cleanupTLS`, first looking for pods that mount the certificate, then deleting it in a call of its own |
| `PublishWait`, `PublishDone` | `Sync` with `reportStatus`; the runtime's publication |
| `Fail`, `Upgrade` | any error exit or crash; a new release takes over |
| `Edit`, `Approve`, `AllowRestarts` | the user |
| `PickUp`, `Roll`, `Finish`, `Abort`, `Resync`, `Issue` | the operator and cert-manager (external) |

Abstractions. A spec is reduced to its layout (what a release renders by itself),
one engine and one Keeper setting, TLS, its mode, and Keeper ports; `Settings` says which image,
volume size, StorageClass and TLS mode a setting asks for. A fingerprint is
what it is taken from (no hash collisions). A task ID is the spec it was derived from; one the operator
makes up for an unstamped CR is `None`. The operator finishes or aborts a
rollout before picking up the next change; a pod and its volume change together. The server and issuer
certificates are one object. The PodMonitor, which the same
reconcile writes, is left out: nothing modelled reads it. A credential rotation is an engine edit: it
changes the gate's inputs and the CHI; what can go wrong with it is in `Credentials`.

Initial situations (`Starts`, each with its Instance): `new`, an Instance just created; `steady` and `latest`, a
cluster this provider reported Ready, of the first or the last release; `recorded` and `unrecorded`, a cluster of
an earlier provider (no task IDs, TLS ending at ClickHouse) with a record whose
inputs cannot be compared, or with none.

### Credentials

State: the Secret (`secret`: username, password, generated credentials, the digests and revisions
derived from them), the informer cache's copy of it (`seen`), the CHI, the gate's record, the maintenance asked
for and approved, and the pods, each with the CHI it was created for and the
environment it started with. A reconcile:

| Action | Code |
|---|---|
| `EnsureCredentials`, `Refuse` | `validateCredentials`; `ensureCredentials` up to its write: seed, complete, derive, count |
| `WriteSecret` | the apply of the whole Secret, whatever it holds by now |
| `BuildCHI` | `buildCHIWired` with `credentialsForCHI` (a read of the cache) |
| `NewRolloutGate` | `inputsHash` (another read) |
| `Apply`, `Hold`, `Save`, `End` | the gate and the published status |
| `Fail`, `Observe` | an error or a crash; the cache catches up |
| `EditSecret`, `DeleteSecret`, `Approve` | the user |
| `Roll`, `Restart` | a pod is rolled by the operator, or rescheduled alone (external) |

Abstractions. The default user's password, the interserver password and the cluster secret
are one value, as they are generated and counted together. Random values are numbered. The Instance does not change,
so the gate's inputs are the user revision; task IDs and the operator's status are
`ProviderSync`'s. Validate's and ensureCredentials' reads are one step. The starts are a new Instance, one of this
provider, and one taken over from a provider whose Secret had no generated credentials.

### Cleanup

State: the Instance (`inst`) and Cleanup's `copy`, the next call (`pc`), the PVCs it listed and has not come to (`todo`), the CRs and the reclaim policy
in their volume claim templates, pods, an unfinished operator reconcile (`busy`, with the
template it works from), the other objects, and each PVC's reclaim `label`. `data` (the volumes at
the start) and `asked` (Delete was asked for) are history. One action per call of `Cleanup`: a list of PVCs, every
patch and every deletion is a step of its own, and a patch of a PVC that has
gone since the list fails. The CHI's volumes
are purged by the operator unless label and template both say Retain; Keeper's
never (comment of `deletePVCs`). The certificate objects count as one. Initially the topology may disagree
with what is deployed: a CHK may be there although the Instance says standalone (`Orphaned`).

## Runs

| Run | Instance | Shows |
|---|---|---|
| `Switch` | 2 Keeper pods and 1 ClickHouse pod, TLS turned on or off, then a setting; clusters of this provider and taken over; 2 releases, 2 edits, 1 fault | no mix of pods takes Keeper away; certificates; refinement of `PortSwitch`; no step without consent; types |
| `Rollouts` | 1 Keeper and 2 ClickHouse pods (symmetric), no TLS, both topologies, 2 releases, 1 edit, 1 fault, 1 resync | no restart without consent; Ready means rolled out |
| `Converges` | 1+1 pods, every kind of running cluster, 2 releases, 1 edit even between the two reads, 1 fault | arrives, policies included, or asks for an approval |
| `EditsReach` | 1+1 pods, new and running, both topologies, 5 engine and 2 Keeper settings, 2 edits that never restore an Instance | every edit reaches pods, volumes and policies or is refused; no version or volume steps back |
| `Certificates` | 1+1 pods, new and running, any 2 edits keeping a replicated topology, 1 resync | inductive invariant; accepted stays accepted |
| `Credentials` | 2 pods, 2 passwords, 2 usernames, 2 edits or early deletions, 1 crash or restart | revisions tell, replicas agree, what is written reaches the pods |
| `Cleanup` | 1+1 volumes, any old policies and labels, 1 edit, 2 faults | data, order, leftovers, termination |
| `ReusedTask`, `UnaskedRestart`, `CancelledSwitch`, `ReadyMidSwitch` | 1+1 pods | counterexamples 1 to 4 below |
| `RecreatedSecret` | 2 pods, 1 deletion | counterexample 5 |

The passing runs have between 0.5 and 2 million distinct states and take up to two and a half minutes each with two workers.

**Bounds.** Two Keeper pods are enough for a half-rolled Keeper, and `KeeperServesClickHouse` compares one
ClickHouse pod with one Keeper pod at a time; `ReplicasAgree` compares two pods; where the property is about a record, a
phase or an arrival one pod is enough. Two edits allow one to overtake the other's
steps; one fault puts a crash, an abort or a restart at any point, two let Cleanup fail again after it
started over; two releases allow an upgrade in the middle of anything. The settings of `EditsReach` are chosen so that
between them edits grow a volume, upgrade, would downgrade, change the TLS mode, and would shrink Keeper. Symmetry is used on ClickHouse pods only, in a run without liveness. `MaxEdits`, `MaxFaults`,
`MaxHiccups` bound the environment only; the provider's own steps are not bounded.

**Fairness.** Weak fairness of a reconcile's steps (the runtime requeues after every
`WaitError`, 5 to 30 s, after every error, and on watched changes), of the
operator's steps per CR and pod (it retries aborted reconciles, as the comment of
`waitForCHI` relies on), of issuance and of the informer cache. Nothing is assumed of users, faults,
upgrades, or of volumes being purged.

**Restrictions that matter.** The passing runs state where the promises hold, the violation runs and the list after
them where they do not.

* In `Switch` and `EditsReach` edits never bring back an earlier rendering (`Forward`, `FreshEdits`).
* The operator reconciles an unchanged CR again (`MaxHiccups`) only in `Rollouts`, without TLS, and in `Certificates`.
* Edits fall between the two reads of the Instance (`EditsMidSync`) only in `Converges` and `Certificates`.
* In `Credentials` a reconcile starts with an up-to-date cache (`CatchesUp`), though it may be
  behind at every later read; and the Secret is deleted only before there is a CHI (`DeletesLate = FALSE`).
* Every StorageClass in use can be expanded (`Expandable`), and the images of one component have versions of equal precision.

## What was found

1. `ReusedTask`. A task ID is derived from the rendering, and the operator's list
   of completed IDs only grows. A rendering that recurs is taken for rolled out
   at once, and ClickHouse is moved to a port Keeper does not serve yet. (The rendering
   recurs because a new TLS cluster opens Keeper's plaintext port while its CHI is being created.)
2. `UnaskedRestart`. An operator that reconciles an unchanged TLS cluster again makes the
   plan reopen Keeper's plaintext port, which the gate lets through since it
   leads to the recorded target.
3. `CancelledSwitch`. Turning TLS on and off again before the CHI was
   recorded leaves the second edit held.
4. `ReadyMidSwitch`. Between steps of a switch the Instance is reported Ready.
5. `RecreatedSecret`. The revisions are counters kept in the Secret they count. Deleting
   the Secret of a running cluster starts them over, the CHI stays the same, and the pods keep the old credentials.

Counterexamples with the same causes, or of documented compromises, not kept as runs:

* an edit and its reversal are reported Ready before the pods roll back
  (cause of 1; `ReadyIsRolledOut` with a standalone TLS toggled on and off);
* an edit between the two reads of the Instance is held (`EditsReach` with
  `EditsMidSync = TRUE`), although the gate's comment says an edit is applied right away;
* an unrecorded TLS cluster is taken over without task IDs, so its switch can
  run ahead of the pods (`KeeperServesClickHouse` from `<<"unrecorded", WithTLS>>` with two releases);
* TLS is turned on between the two reads of a *new* replicated Instance: its Keeper is created without TLS
  but recorded with the inputs that have it, so the next reconcile holds Keeper's change, waits for the plaintext
  Keeper to be rolled out, and creates ClickHouse on 2281 (`KeeperServesClickHouse` from `<<"new", Plain>>` with `EditsMidSync = TRUE`);
* a replicated Instance made standalone before its CHI exists is accepted, and refused once it
  does (`AcceptedStaysAccepted` with `Edits = Inputs \X Inputs`);
* its Keeper outlives the deletion of the Instance: Cleanup goes by the topology the Instance has by then
  (`NothingLeftBehind` without `Orphaned`);
* where a StorageClass cannot be expanded, a volume size raised before the first volumes exist is
  accepted, the operator then creates them at the old size, and they stay there (`EditsReach` with `Expandable = {}`);
* a less precise image in between hides a downgrade: from 25.3.5.42 to 25.3.5 and on to 25.3.5.41 is accepted (`compareSegments`);
* a reconcile that starts with a cache from before the provider's own write generates the
  credentials a second time, and replicas disagree (`ReplicasAgree`, `RevisionTells` with `CatchesUp = FALSE` and one crash);
* a cache that catches up between `credentialsForCHI` and `inputsHash` makes the gate take the
  user's rotation for its own and ask (`pending = None` from `steady`); the next reconcile
  renders the revision the gate has not recorded;
* a password the user writes between ensureCredentials' read and its apply is overwritten with
  the older one (`WriteSecret`). `CredentialsReachPods` is about what the Secret holds, and does not see it.

Two guards overlap: without `chkRolledOut` in `nextKeeperWiring`, `waitForCHK`
alone still keeps ClickHouse on a served port.

## Proofs

Checked by TLAPS for all values of the constants, from the named assumptions of
`ProviderSync` (layouts defined per release and CR, settings and inputs typed, pods nonempty and
disjoint, `None` different from everything present), `Credentials` and `Cleanup` (volumes disjoint, bounds natural numbers).

* `KeeperWiringProofs`: for *every* `keeperState`, the step `nextKeeperWiring` asks for
  serves the port before and after it (`StepServesBothPorts`), moves
  ClickHouse only onto a served port (`MovesOntoServedPort`), and takes no port
  away while ClickHouse moves or rolls (`KeepsPortsWhileMoving`).
* `PortSwitchServes`: the abstract switch serves everyone. `Served` is
  inductive with the types.
* `TypeCorrect`: `ProviderSync` is well typed. `TypeOK` includes which of the
  reconcile's variables are set at which step, which makes it inductive.
* `CertificateInvariant`, `CertificatesExist`: no pod mounts a missing Secret. `MountedCertificateExists` is
  not inductive: `cleanupTLS` looks at CRs and pods but not at what the operator is
  rolling out, and deletes later than it looks. `CertificateInv` adds that what is handed out or being rolled
  out is covered (`HandedOutInv`), what a plan in progress is about to hand out too
  (`PlannedInv`), that Completed means the pods run the work (`OperatorInv`),
  that past `waitForCHK` a Keeper rollout shows in the CHK or in all its pods
  (`KeeperShownInv`), that between the look and the deletion nothing comes to mount the certificate (`DeletingInv`),
  and that a Keeper belongs to a replicated Instance (`TopologyInv`). The last needs
  the theorems' assumption `KeepsReplicated`, that no edit makes a replicated Instance standalone; such an edit is refused
  by validation unless it comes before the CHI exists.
* `CredentialsTypes`; `RevisionsTell`, `ReplicasStayAlike` under `Orderly` (a reconcile starts with an up-to-date cache,
  nobody deletes the Secret under a CHI). A pod reads the Secret at another time
  than the reconcile that counted it, so neither property is inductive. `CredentialsInv` adds that what exists rests on a Secret and a
  reconcile sees no later revision than the stored one (`ExistenceInv`), that renderings carry revisions the Secret has had
  (`SpecsInv`), that what is about to be written counts every change to what is stored, edits since the
  read included (`WriteInv`), and that pods run the one set of generated credentials and the password of
  the revision they carry (`PodsInv`).
* `CleanupTypes`. `CleanupKeepsData`: by `RetainInv`, a teardown starts only after
  templates and labels say Retain. `CleanupKeepsKeeper`: by `OrderInv`, Keeper's
  teardown starts once the CHI is gone. `CleanupLeavesNothing`: by `LeftInv`, each call finds
  done what the earlier ones were for, and PVCs are listed for deletion only once nothing can create one.

**The Keeper switch** (`KeeperSwitchProofs`) is proved in two layers, for running replicated Instances (`StartsRunning`, `KeepsReplicated`).

* `KeeperServesWhileReportsAreRight`, `SwitchImplementsPortSwitch`: with TLS turned on and off at any moment, any upgrades, faults and pods,
  ClickHouse keeps Keeper and every step is one of `PortSwitch`, as long as `ReportsAreRight`: a CR reported as rolled out runs the ports it
  says. `KeeperServesClickHouse` speaks of pods only. The invariant `SwitchInv` quantifies over everything a pod may come to run (`Configurations`: pods, what is being rolled out,
  what the CR says): all of Keeper's serve all of ClickHouse's (`ServedInv`), and a planned step can be handed out, Keeper first
  (`StepInv`, from the `KeeperWiringProofs`). The condition is the one `ReusedTask` breaks.
* `ReportsAreRightTurningOn`, hence `KeeperServesTurningOn`: the condition holds while TLS is turned on and not off (`OnlyTurnsOn`), on Instances with a record
  (`StartsRecorded`; an unrecorded one is applied without a task ID). By `OnInv`, a completed task with the secure port is followed only by renderings with
  the secure port.

New Instances are left out because of the counterexample above; `Switch` checks the other direction, TLS turned off, on its instance.

**Validation** (`RolloutProofs`).

* `PodsDoNotStepBack`: what Validate accepts is compared with the CR only. `CarriedInv` carries "does not step back" along the
  chain pod, operator's work, CR, Instance in hand. It needs an order: `ComparableVersions` says the tags of one component are versions of one precision,
  without which "not older" is not transitive (`compareSegments`). `AtLeast`, in the property, compares all four segments.
* `LegalEditsAreAccepted`, hence `AcceptedIsNotRefused`: if every edit is legal by itself (`LegalEdits`), Validate accepts the Instance at every moment;
  `AcceptedInv` relates the CR and the Instance in hand to the stored one.
* `SyncingKeepsAccepted`: for edits in any direction, if volumes can grow (`VolumesCanGrow`; otherwise a volume created meanwhile turns an accepted
  growth into a refused one).

**Ready and consent** (`RolloutProofs`), for clusters without TLS between ClickHouse and Keeper (`KeeperIsPlain`; standalone Instances may use it). By `PlainInv`
Keeper's ports then never change, and a rendering follows from the release and the Instance (`DesiredIsPlain`).

* `ReadyMeansRolledOut`: the operator's list of completed tasks only grows, so a report is to be trusted if no rendering recurs: `NothingReturns`
  (ranks by which releases and edits only advance), `OnlyTurnsOn`, `StartsRecorded`. By `TaskOrderInv` completed tasks, the operator's work and the CR's rendering come in this order, so
  a completed task that equals the rendering equals the work in between, which Completed pods run. Resyncs, aborts and crashes included.
* `RestartsAreConsented`: from every initial situation, with edits in any direction and between the two reads, crashes between a CR and its record,
  upgrades and resyncs. The gate decides by its record, which may be behind the CR. By `ConsentInv`: nobody holds a token of a later release (`TokensInv`);
  a reconcile no edit fell into acts on the stored Instance (`HandInv`); one that holds nothing has applied and recorded what it
  passed (`PassedInv`), so that edits reported as done are; with no edit on its way record, CR and rendering differ by releases only, in this order (`QuietInv`), so a rendering
  that equals the record changes nothing; and a change is recorded as under way only if it was approved or is complete (`AskedInv`). `LayoutsAdvance`, that no release
  returns to an older layout, is needed: release 3 rendering what release 1 did is taken for unchanged if release 2's change was applied and not recorded. With TLS on Keeper `UnaskedRestart` is the counterexample.

The assumptions named here are hypotheses of single theorems. The instances of the runs `Rollouts` (consent, Ready), `EditsReach` (versions) and `Certificates` (accepted stays accepted) satisfy those of their theorems.

**Model-checked only**: liveness under fairness, which is out of the prover's reach (`Converges`, `EditsReachCluster`, `CredentialsReachPods`, `CleanupFinishes`);
`KeeperServesClickHouse` and the refinement with TLS turned off, and `ChangesAreConsented` with TLS on Keeper (`Switch`), both of which need that nothing
recurs or is reconciled again.

## Not modelled

* Connection details and scheduling: pure renderings, no state.
* The PodMonitor: one object written last in every reconcile and read by nothing here.
* What NetworkPolicies allow; only when they are there is modelled.
* Validation's checks of the Instance's fields by themselves: pure, and independent of what is deployed.
* A change of issuer, SANs and renewal of certificates: cert-manager does them behind the same Secret.
* The contents of pods; process set-up, RBAC, chart and provider definition.

## Plan

Done: the switch and the gate as operators; their composition
with Sync and the operator; the abstract switch and the refinement;
certificates, deletion call by call, validation's transitions, policies, credentials; a theorem for every safety
property of the passing runs. Next:

1. Turning TLS off: `ReportsAreRight` for Instances that never had both ports open before, so that `KeeperServesClickHouse` needs no condition in that direction either.
2. `ChangesAreConsented` with TLS on Keeper and no resyncs: the record's target then covers several renderings.
3. `Credentials` composed with the Keeper switch's two renderings per reconcile, and the
   connection details published from another read of the Secret.
