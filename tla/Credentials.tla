----------------------------- MODULE Credentials -----------------------------
(***************************************************************************)
(* The credentials Secret of an Instance (users.go): completed from what   *)
(* the user writes into it, counted in revisions, rendered into the CHI    *)
(* (credentialsForCHI), put past the rollout gate (inputsHash, RolloutGate)*)
(* and read by the ClickHouse pods when they start.                        *)
(*                                                                         *)
(* Simplifications.  A digest is represented by what it is taken from.     *)
(* The default user's password, the interserver password and the cluster   *)
(* secret are generated together and are one value here.  The Instance     *)
(* does not change, so the gate's inputs are the user revision.  Task IDs  *)
(* and the operator's own state are ProviderSync's; here pods follow the   *)
(* CHI.  The record is read as it is stored; the credentials Secret is     *)
(* read through the informer cache, which lags behind writes.  Validate's  *)
(* read of it and ensureCredentials' are one step, and so are the two      *)
(* renderings of the CHI in one reconcile.                                 *)
(***************************************************************************)
EXTENDS RolloutGate, Naturals

CONSTANTS
  Pods,          \* the ClickHouse pods
  Names,         \* usernames besides AppUserName
  Passwords,     \* valid passwords users choose
  UserSecret,    \* the Secret spec.userSecretRef names, None if unset
  Starts,        \* initial situations, see Init
  CatchesUp,     \* does a reconcile start with a cache that is up to date?
  DeletesLate,   \* may the Secret go once a CHI is rendered from it?
  MaxEdits, MaxFaults  \* bounds on the environment's steps

\* common.AppUserName
AppUserName == "admin"
Usernames == Names \cup {AppUserName}

\* Random values are numbered in the order they are generated.
AllPasswords == Passwords \cup Nat

\* The keys of the Secret.  None is a key that is missing or, for password,
\* one that validateUserSecretData refuses; a missing counter reads as 0.
Secrets == [username: Usernames \cup {None}, appliedUsername: Usernames \cup {None},
            password: AllPasswords \cup {None},
            passwordDigest: AllPasswords \cup {None},
            generated: Nat \cup {None}, generatedDigest: Nat \cup {None},
            revision: Nat, userRevision: Nat]

\* A Secret no key of which is missing.
FullSecrets == [username: Usernames, appliedUsername: Usernames,
                password: AllPasswords, passwordDigest: AllPasswords,
                generated: Nat, generatedDigest: Nat,
                revision: Nat, userRevision: Nat]

\* What of a CHI depends on credentials.  The CHI of an earlier provider has
\* no revision annotation and does not reference the generated credentials.
CHISpecs == [username: Usernames, revision: Nat \cup {None}, authenticated: BOOLEAN]

\* A pod: the CHI it was created for and the environment it started with.
PodStates == [spec: CHISpecs, password: AllPasswords, generated: Nat \cup {None}]

ASSUME CredentialsAssumption ==
  /\ CatchesUp \in BOOLEAN /\ DeletesLate \in BOOLEAN
  /\ UserSecret \in [username: Usernames, password: Passwords] \cup {None}
  /\ MaxEdits \in Nat /\ MaxFaults \in Nat

\* None stands for what is absent: it is none of these.
ASSUME AbsentAssumption ==
  /\ None \notin Secrets /\ None \notin CHISpecs /\ None \notin PodStates
  /\ None \notin AllPasswords /\ None \notin Usernames

VARIABLES
  secret,    \* the credentials Secret, None while there is none
  seen,      \* the informer cache's copy of it
  used,      \* how many random values were generated so far
  chi,       \* the CHI, None while it does not exist
  record,    \* the rollout-state Secret
  approved,  \* the maintenance the user approved last
  pending,   \* status.pendingMaintenance
  pods,      \* the pods, None before they exist
  pc,        \* the next step of the reconcile in progress
  local,     \* what that reconcile read and derived
  edits, faults  \* the user's writes and deletions; failures and restarts

stored == <<secret, seen, used>>
cluster == <<chi, record, pods>>
status == <<approved, pending>>
counters == <<edits, faults>>
vars == <<stored, cluster, status, pc, local, counters>>

Steps == {"idle", "write", "build", "gate", "apply", "save", "end"}

\* data is the Secret to write, spec the CHI rendered, inputs what the gate
\* fingerprinted, approval the Instance's, asked whether it was looked at.
Locals == [data: Secrets \cup {None}, spec: CHISpecs \cup {None},
           inputs: Nat \cup {None}, approval: CHISpecs \cup {None},
           asked: BOOLEAN]

NoLocal == [data |-> None, spec |-> None, inputs |-> None, approval |-> None,
            asked |-> FALSE]

TypeOK ==
  /\ secret \in Secrets \cup {None} /\ seen \in Secrets \cup {None}
  /\ used \in Nat
  /\ chi \in CHISpecs \cup {None}
  /\ record \in [spec: [CRs -> CHISpecs \cup {None}],
                 inputs: [CRs -> Nat \cup {None}],
                 target: CHISpecs \cup {None}]
  /\ approved \in CHISpecs \cup {None} /\ pending \in CHISpecs \cup {None}
  /\ pods \in [Pods -> PodStates \cup {None}]
  /\ pc \in Steps /\ local \in Locals
  /\ edits \in Nat /\ faults \in Nat
  /\ pc = "write" => local.data \in FullSecrets
  /\ pc \in {"gate", "apply", "save"} => local.spec # None
  /\ pc \in {"apply", "save"} => local.inputs # None

-----------------------------------------------------------------------------
(* Completing the Secret *)

\* seedCredentials: the credentials of spec.userSecretRef, or a password.
Seed(random) ==
  [username |-> IF UserSecret = None THEN None ELSE UserSecret.username,
   appliedUsername |-> None,
   password |-> IF UserSecret = None THEN random ELSE UserSecret.password,
   passwordDigest |-> None, generated |-> None, generatedDigest |-> None,
   revision |-> 0, userRevision |-> 0]

\* Mutant of Bumped: a change is not counted.
NotBumped(revision, changed) == revision

\* bumpRevision, when something changed.
Bumped(revision, changed) == IF changed THEN revision + 1 ELSE revision

\* Mutant of Completed: the generated credentials are generated every time.
Regenerated(s, random) ==
  LET username == IF s.username = None THEN AppUserName ELSE s.username
  IN [username |-> username, appliedUsername |-> username,
      password |-> s.password, passwordDigest |-> s.password,
      generated |-> random, generatedDigest |-> random,
      revision |-> s.revision + 1, userRevision |-> s.userRevision]

\* The rest of ensureCredentials: missing keys filled in, digests derived and
\* changes counted.
Completed(s, random) ==
  LET username == IF s.username = None THEN AppUserName ELSE s.username
      generated == IF s.generated = None THEN random ELSE s.generated
      changed == s.generated = None \/ generated # s.generatedDigest
      userChanged == s.password # s.passwordDigest \/ username # s.appliedUsername
  IN [username |-> username, appliedUsername |-> username,
      password |-> s.password, passwordDigest |-> s.password,
      generated |-> generated, generatedDigest |-> generated,
      revision |-> Bumped(s.revision, changed \/ userChanged),
      userRevision |-> Bumped(s.userRevision, userChanged)]

\* Mutant of Valid: what the user wrote is not looked at.
ValidUnread(s) == TRUE

\* validateCredentials; ensureCredentials refuses a missing password itself.
Valid(s) == s # None => s.password # None

-----------------------------------------------------------------------------
(* The reconcile *)

\* ensureCredentials up to its write: a Secret found complete is left alone.
EnsureCredentials ==
  /\ pc = "idle"
  /\ CatchesUp => seen = secret
  /\ Valid(seen)
  /\ LET data == Completed(IF seen = None THEN Seed(used + 1) ELSE seen, used + 2)
     IN /\ pc' = IF seen = data THEN "build" ELSE "write"
        /\ local' = [NoLocal EXCEPT !.approval = approved,
                                    !.data = IF seen = data THEN None ELSE data]
  /\ used' = IF seen = None \/ seen.generated = None THEN used + 2 ELSE used
  /\ UNCHANGED <<secret, seen, cluster, status, counters>>

\* Validate refuses the Secret.
Refuse ==
  /\ pc = "idle"
  /\ ~Valid(seen)
  /\ UNCHANGED vars

\* Applying the Secret sets every key, whatever it holds by now.
WriteSecret ==
  /\ pc = "write"
  /\ secret' = local.data
  /\ pc' = "build"
  /\ UNCHANGED <<seen, used, cluster, status, local, counters>>

\* Mutant of BuildCHI: the pod template does not carry the revision.
BuildCHIUnannotated ==
  /\ pc = "build"
  /\ local' = [local EXCEPT !.spec =
       [username |-> IF seen = None \/ seen.username = None THEN AppUserName
                     ELSE seen.username,
        revision |-> None, authenticated |-> TRUE]]
  /\ pc' = "gate"
  /\ UNCHANGED <<stored, cluster, status, counters>>

\* buildCHIWired: username and revision are read by credentialsForCHI.
BuildCHI ==
  /\ pc = "build"
  /\ local' = [local EXCEPT !.spec =
       [username |-> IF seen = None \/ seen.username = None THEN AppUserName
                     ELSE seen.username,
        revision |-> IF seen = None THEN None ELSE seen.revision,
        authenticated |-> TRUE]]
  /\ pc' = "gate"
  /\ UNCHANGED <<stored, cluster, status, counters>>

\* newRolloutGate: inputsHash reads the Secret again.
NewRolloutGate ==
  /\ pc = "gate"
  /\ local' = [local EXCEPT !.inputs = IF seen = None THEN 0
                                       ELSE seen.userRevision]
  /\ pc' = "apply"
  /\ UNCHANGED <<stored, cluster, status, counters>>

MayApplyUnasked ==
  Unasked(record, "chi", chi # None, local.spec, local.inputs, local.spec)

\* rolloutGate.apply; the token stands for the only rendering there is.
Apply ==
  /\ pc = "apply"
  /\ MayApplyUnasked \/ local.approval = local.spec
  /\ chi' = local.spec
  /\ local' = [local EXCEPT !.asked = ~MayApplyUnasked]
  /\ pc' = IF UpToDate(record, "chi", local.spec, local.inputs)
           THEN "end" ELSE "save"
  /\ UNCHANGED <<stored, record, pods, status, counters>>

Hold ==
  /\ pc = "apply"
  /\ ~MayApplyUnasked /\ local.approval # local.spec
  /\ local' = [local EXCEPT !.asked = TRUE]
  /\ pc' = "end"
  /\ UNCHANGED <<stored, cluster, status, counters>>

Save ==
  /\ pc = "save"
  /\ record' = Recorded(record, "chi", local.spec, local.inputs, local.spec)
  /\ pc' = "end"
  /\ UNCHANGED <<stored, chi, pods, status, local, counters>>

\* The status is published: what is held is listed; what is not held any more
\* stays listed if the reconcile ends waiting without having asked.
End ==
  /\ pc = "end"
  /\ pending' \in IF local.asked
                  THEN {IF local.approval = local.spec THEN None ELSE local.spec}
                  ELSE {None, pending}
  /\ pc' = "idle" /\ local' = NoLocal
  /\ UNCHANGED <<stored, cluster, approved, counters>>

\* A call fails or the provider restarts.
Fail ==
  /\ pc # "idle" /\ faults < MaxFaults
  /\ faults' = faults + 1
  /\ pc' = "idle" /\ local' = NoLocal
  /\ UNCHANGED <<stored, cluster, status, edits>>

SyncStep ==
  \/ EnsureCredentials
  \/ WriteSecret
  \/ BuildCHI
  \/ NewRolloutGate
  \/ Apply \/ Hold \/ Save
  \/ End

-----------------------------------------------------------------------------
(* The cache, the user and the pods *)

\* The informer catches up with the API server.
Observe ==
  /\ seen # secret
  /\ seen' = secret
  /\ UNCHANGED <<secret, used, cluster, status, pc, local, counters>>

\* The user edits the administrative credentials; None clears a key, or sets
\* a password too short.
EditSecret ==
  /\ secret # None /\ edits < MaxEdits
  /\ \/ \E p \in Passwords \cup {None} : secret' = [secret EXCEPT !.password = p]
     \/ \E n \in Names \cup {None} : secret' = [secret EXCEPT !.username = n]
  /\ secret' # secret
  /\ edits' = edits + 1
  /\ UNCHANGED <<seen, used, cluster, status, pc, local, faults>>

DeleteSecret ==
  /\ secret # None /\ edits < MaxEdits
  /\ DeletesLate \/ (chi = None /\ pc = "idle")
  /\ secret' = None
  /\ edits' = edits + 1
  /\ UNCHANGED <<seen, used, cluster, status, pc, local, faults>>

Approve ==
  /\ pending # None /\ approved # pending
  /\ approved' = pending
  /\ UNCHANGED <<stored, cluster, pending, pc, local, counters>>

\* A pod starts: the Secret's keys its CHI references become its environment.
Start(p, spec) ==
  /\ secret # None /\ secret.passwordDigest # None
  /\ spec.authenticated => secret.generated # None
  /\ pods' = [pods EXCEPT ![p] =
       [spec |-> spec, password |-> secret.passwordDigest,
        generated |-> IF spec.authenticated THEN secret.generated ELSE None]]

\* The operator rolls a pod the CHI has changed for.
Roll(p) ==
  /\ chi # None
  /\ pods[p] # None => pods[p].spec # chi
  /\ Start(p, chi)
  /\ UNCHANGED <<stored, chi, record, status, pc, local, counters>>

\* A pod is rescheduled.
Restart(p) ==
  /\ pods[p] # None /\ faults < MaxFaults
  /\ Start(p, pods[p].spec)
  /\ faults' = faults + 1
  /\ UNCHANGED <<stored, chi, record, status, pc, local, edits>>

-----------------------------------------------------------------------------
(* Initial situations *)

Fresh ==
  /\ approved = None /\ pending = None
  /\ pc = "idle" /\ local = NoLocal
  /\ edits = 0 /\ faults = 0

New ==
  /\ secret = None /\ used = 0
  /\ chi = None
  /\ record = EmptyRecord
  /\ pods = [p \in Pods |-> None]

\* A CHI all pods run, of a Secret as stored.
Running(spec) ==
  /\ chi = spec
  /\ pods = [p \in Pods |->
               [spec |-> spec, password |-> secret.passwordDigest,
                generated |-> IF spec.authenticated THEN secret.generated
                              ELSE None]]

\* This provider created the Instance and everything is rolled out.
Steady ==
  /\ secret = Completed(Seed(1), 2) /\ used = 2
  /\ Running([username |-> secret.username, revision |-> secret.revision,
              authenticated |-> TRUE])
  /\ record = Recorded(EmptyRecord, "chi", chi, secret.userRevision, chi)

\* An earlier provider created it: the Secret has the administrative user's
\* keys only, and the record no inputs that can be compared.
TakenOver ==
  /\ secret = [Completed(Seed(1), 2) EXCEPT
                 !.appliedUsername = None, !.generated = None,
                 !.generatedDigest = None, !.revision = 0, !.userRevision = 0]
  /\ used = 1
  /\ Running([username |-> secret.username, revision |-> None,
              authenticated |-> FALSE])
  /\ record = [EmptyRecord EXCEPT !.spec["chi"] = chi]

Init ==
  /\ Fresh
  /\ \/ "new" \in Starts /\ New
     \/ "steady" \in Starts /\ Steady
     \/ "takenOver" \in Starts /\ TakenOver
  /\ seen = secret

Next ==
  \/ SyncStep
  \/ Refuse
  \/ Fail
  \/ Observe
  \/ EditSecret \/ DeleteSecret \/ Approve
  \/ \E p \in Pods : Roll(p) \/ Restart(p)

Spec == Init /\ [][Next]_vars

\* The runtime requeues every reconcile, the informer and the operator keep
\* working; users and faults owe nothing.
FairSpec ==
  /\ Spec
  /\ WF_vars(SyncStep)
  /\ WF_vars(Observe)
  /\ \A p \in Pods : WF_vars(Roll(p))

-----------------------------------------------------------------------------
(* Properties *)

\* A pod whose template carries the Secret's revision runs the credentials the
\* Secret holds: "credentialsRevision counts changes to any credential the
\* pods read at start-up", however reconciles, edits and restarts interleave.
RevisionTells ==
  \A p \in Pods :
    pods[p] # None /\ secret # None /\ pods[p].spec.revision = secret.revision =>
      /\ pods[p].password = secret.passwordDigest
      /\ pods[p].generated = secret.generated

\* Replicas authenticate each other: no two run different generated
\* credentials ("created once and kept"), whichever of them restart meanwhile.
ReplicasAgree ==
  \A p, q \in Pods :
    pods[p] # None /\ pods[q] # None /\ pods[p].generated # None
      /\ pods[q].generated # None => pods[p].generated = pods[q].generated

(* Why that is so: the inductive strengthening, with a cache that has caught *)
(* up when a reconcile starts and a Secret nobody deletes under a CHI.       *)

\* What exists rests on a Secret, and a reconcile sees no later revision.
ExistenceInv ==
  /\ chi # None => secret # None
  /\ \A p \in Pods : pods[p] # None => chi # None
  /\ pc = "idle" => local = NoLocal
  /\ pc \in {"write", "build"} => local.spec = None
  /\ pc \in {"build", "gate", "apply", "save"} => secret # None
  /\ pc # "idle" /\ seen # None => secret # None /\ seen.revision =< secret.revision

\* A rendering of this Secret: of a revision it has had.
Follows(spec) ==
  spec # None /\ spec.revision # None =>
    spec.authenticated /\ spec.revision =< secret.revision

SpecsInv ==
  /\ Follows(local.spec) /\ Follows(chi)
  /\ \A p \in Pods : pods[p] # None => Follows(pods[p].spec)

\* What is about to be written counts every change to what is stored, the
\* user's edits since it was read included: they touch no derived key.
WriteInv ==
  pc = "write" /\ secret # None =>
    /\ local.data.revision >= secret.revision
    /\ local.data.revision = secret.revision =>
         local.data.passwordDigest = secret.passwordDigest
    /\ secret.generated # None => local.data.generated = secret.generated

\* Pods run the generated credentials, of which there are only ever one, and
\* the password of the revision they carry.
PodsInv ==
  \A p \in Pods : pods[p] # None =>
    /\ pods[p].generated # None => pods[p].generated = secret.generated
    /\ pods[p].spec.revision # None => pods[p].generated # None
    /\ pods[p].spec.revision = secret.revision =>
         pods[p].password = secret.passwordDigest

CredentialsInv ==
  /\ ExistenceInv
  /\ SpecsInv
  /\ WriteInv
  /\ PodsInv

\* Every pod runs with what the Secret says.
Served ==
  /\ secret # None
  /\ \A p \in Pods :
       /\ pods[p] # None
       /\ pods[p].spec.username = secret.username
       /\ pods[p].password = secret.password
       /\ pods[p].generated = secret.generated

Waiting == pending # None /\ pending # approved

\* Whatever the user writes into the Secret ends up in every pod, unless it is
\* refused or the status asks for an approval (revision, userRevision).
CredentialsReachPods == <>[](Served \/ Waiting \/ ~Valid(secret))
=============================================================================
