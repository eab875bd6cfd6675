-------------------------- MODULE CredentialsProofs --------------------------
(* Theorems about the credentials Secret, for any pods, names, passwords,  *)
(* edits and faults.                                                       *)
EXTENDS Credentials, TLAPS

USE DEF CRs

\* The constants of a key that is missing.
LEMMA NoneIsNoNumber == None \notin Nat /\ None \notin Usernames /\ None \notin AllPasswords
  BY AbsentAssumption DEF AllPasswords

\* seedCredentials returns a Secret.
LEMMA SeedType == \A n \in Nat : Seed(n) \in Secrets /\ Seed(n).password # None
  BY CredentialsAssumption, NoneIsNoNumber DEF Seed, Secrets, AllPasswords, Usernames

\* The rest of ensureCredentials completes a Secret with a password, keeps the
\* generated credentials it has, and counts every change.
LEMMA CompletedFacts ==
  ASSUME NEW s \in Secrets, s.password # None, NEW n \in Nat
  PROVE  /\ Completed(s, n) \in FullSecrets
         /\ Completed(s, n).revision >= s.revision
         /\ Completed(s, n).revision = s.revision =>
              Completed(s, n).passwordDigest = s.passwordDigest
         /\ s.generated # None => Completed(s, n).generated = s.generated
  <1>1. AppUserName \in Usernames
    BY DEF Usernames
  <1>2. /\ s.revision \in Nat /\ s.userRevision \in Nat
        /\ s.generated \in Nat \cup {None} /\ s.password \in AllPasswords
        /\ s.username \in Usernames \cup {None}
    BY DEF Secrets
  <1> QED BY <1>1, <1>2 DEF Completed, Bumped, FullSecrets

\* A complete Secret is a Secret.
LEMMA FullIsSecret == FullSecrets \subseteq Secrets
  BY DEF FullSecrets, Secrets

(***************************************************************************)
(* Type correctness.                                                       *)
(***************************************************************************)
\* Every initial situation is well typed.
LEMMA CredentialsTypeInit == Init => TypeOK
  <1> SUFFICES ASSUME Init PROVE TypeOK
    OBVIOUS
  <1>1. /\ EmptyRecord \in [spec: [CRs -> CHISpecs \cup {None}],
                            inputs: [CRs -> Nat \cup {None}],
                            target: CHISpecs \cup {None}]
        /\ NoLocal \in Locals
    BY DEF EmptyRecord, NoLocal, Locals
  <1>2. /\ approved = None /\ pending = None /\ pc = "idle" /\ local = NoLocal
        /\ edits = 0 /\ faults = 0 /\ seen = secret
    BY DEF Init, Fresh
  <1> DEFINE full == Completed(Seed(1), 2)
  <1>3. full \in FullSecrets /\ full \in Secrets
    BY SeedType, CompletedFacts, FullIsSecret
  <1> HIDE DEF full
  <1>4. CASE New
    BY <1>1, <1>2, <1>4 DEF New, TypeOK, Steps
  <1>5. CASE Steady
    <2>1. chi = [username |-> full.username, revision |-> full.revision,
                 authenticated |-> TRUE] /\ secret = full
      BY <1>5 DEF Steady, Running, full
    <2>2. chi \in CHISpecs
      BY <1>3, <2>1 DEF FullSecrets, CHISpecs
    <2>3. pods \in [Pods -> PodStates \cup {None}]
      BY <1>3, <1>5, <2>1, <2>2 DEF Steady, Running, FullSecrets, PodStates
    <2>4. record \in [spec: [CRs -> CHISpecs \cup {None}],
                      inputs: [CRs -> Nat \cup {None}],
                      target: CHISpecs \cup {None}]
      BY <1>1, <1>3, <1>5, <2>1, <2>2 DEF Steady, Recorded, FullSecrets
    <2> QED BY <1>1, <1>2, <1>3, <1>5, <2>1, <2>2, <2>3, <2>4 DEF Steady, TypeOK, Steps
  <1>6. CASE TakenOver
    <2>1. secret \in Secrets /\ secret.username = full.username
            /\ secret.passwordDigest = full.passwordDigest
      BY <1>3, <1>6 DEF TakenOver, full, FullSecrets, Secrets
    <2>2. chi = [username |-> full.username, revision |-> None,
                 authenticated |-> FALSE]
      BY <1>6, <2>1 DEF TakenOver, Running
    <2>3. chi \in CHISpecs
      BY <1>3, <2>2 DEF FullSecrets, CHISpecs
    <2>4. pods \in [Pods -> PodStates \cup {None}]
      BY <1>3, <1>6, <2>1, <2>2, <2>3 DEF TakenOver, Running, FullSecrets, PodStates
    <2>5. record \in [spec: [CRs -> CHISpecs \cup {None}],
                      inputs: [CRs -> Nat \cup {None}],
                      target: CHISpecs \cup {None}]
      BY <1>1, <1>6, <2>3 DEF TakenOver
    <2> QED BY <1>1, <1>2, <1>6, <2>1, <2>3, <2>4, <2>5 DEF TakenOver, TypeOK, Steps
  <1> QED BY <1>4, <1>5, <1>6 DEF Init

\* A pod that starts is given what the Secret's keys hold.
LEMMA StartFacts ==
  ASSUME TypeOK, NEW p \in Pods, NEW spec \in CHISpecs, Start(p, spec)
  PROVE  /\ secret # None /\ DOMAIN pods = Pods
         /\ pods'[p] \in PodStates
         /\ pods'[p].spec = spec
         /\ pods'[p].password = secret.passwordDigest
         /\ pods'[p].generated = IF spec.authenticated THEN secret.generated ELSE None
         /\ spec.authenticated => secret.generated # None
         /\ \A q \in Pods \ {p} : pods'[q] = pods[q]
         /\ pods' \in [Pods -> PodStates \cup {None}]
  <1>1. /\ secret \in Secrets /\ secret.passwordDigest \in AllPasswords
        /\ secret.generated \in Nat \cup {None}
    BY DEF Start, TypeOK, Secrets
  <1> DEFINE pod == [spec |-> spec, password |-> secret.passwordDigest,
                     generated |-> IF spec.authenticated THEN secret.generated ELSE None]
  <1>2. pod \in PodStates
    BY <1>1 DEF PodStates
  <1>3. pods' = [pods EXCEPT ![p] = pod]
    BY DEF Start
  <1> QED BY <1>1, <1>2, <1>3 DEF Start, TypeOK

\* Every step keeps the types, one case per action.
LEMMA CredentialsTypeNext == TypeOK /\ [Next]_vars => TypeOK'
  <1> SUFFICES ASSUME TypeOK, [Next]_vars PROVE TypeOK'
    OBVIOUS
  <1> USE DEF TypeOK, stored, cluster, status, counters
  <1>1. CASE EnsureCredentials
    <2> DEFINE base == IF seen = None THEN Seed(used + 1) ELSE seen
               data == Completed(base, used + 2)
    <2>1. base \in Secrets /\ base.password # None
      BY <1>1, SeedType DEF EnsureCredentials, Valid
    <2>2. data \in FullSecrets /\ data \in Secrets
      BY <2>1, CompletedFacts, FullIsSecret
    <2>3. /\ pc' = IF seen = data THEN "build" ELSE "write"
          /\ local' = [NoLocal EXCEPT !.approval = approved,
                                      !.data = IF seen = data THEN None ELSE data]
          /\ used' \in Nat
          /\ UNCHANGED <<secret, seen, cluster, status, counters>>
      BY <1>1 DEF EnsureCredentials
    <2> HIDE DEF base, data
    <2>4. /\ local' \in Locals
          /\ pc' = "write" => local'.data \in FullSecrets
      BY <2>2, <2>3 DEF Locals, NoLocal
    <2> QED BY <2>3, <2>4 DEF Steps
  <1>2. CASE WriteSecret
    BY <1>2, FullIsSecret DEF WriteSecret, Steps
  <1>3. CASE BuildCHI
    <2> DEFINE spec == [username |-> IF seen = None \/ seen.username = None
                                     THEN AppUserName ELSE seen.username,
                        revision |-> IF seen = None THEN None ELSE seen.revision,
                        authenticated |-> TRUE]
    <2>1. spec \in CHISpecs
      BY DEF CHISpecs, Secrets, Usernames
    <2>2. local' = [local EXCEPT !.spec = spec]
      BY <1>3 DEF BuildCHI
    <2> HIDE DEF spec
    <2>3. local' \in Locals /\ local'.spec # None
      BY <2>1, <2>2, AbsentAssumption DEF Locals
    <2> QED BY <1>3, <2>3 DEF BuildCHI, Steps
  <1>4. CASE NewRolloutGate
    <2> DEFINE n == IF seen = None THEN 0 ELSE seen.userRevision
    <2>1. n \in Nat /\ n # None
      BY NoneIsNoNumber DEF Secrets
    <2>2. local' = [local EXCEPT !.inputs = n]
      BY <1>4 DEF NewRolloutGate
    <2> HIDE DEF n
    <2>3. local' \in Locals /\ local'.inputs # None /\ local'.spec = local.spec
      BY <2>1, <2>2 DEF Locals
    <2> QED BY <1>4, <2>3 DEF NewRolloutGate, Steps
  <1>5. CASE Apply
    <2>1. MayApplyUnasked \in BOOLEAN
      BY DEF MayApplyUnasked, Unasked
    <2>2. local' \in Locals /\ local'.spec = local.spec /\ local'.inputs = local.inputs
      BY <1>5, <2>1 DEF Apply, Locals
    <2>3. chi' \in CHISpecs \cup {None}
      BY <1>5 DEF Apply, Locals
    <2> QED BY <1>5, <2>2, <2>3 DEF Apply, Steps
  <1>6. CASE Hold
    <2>1. local' \in Locals
      BY <1>6 DEF Hold, Locals
    <2> QED BY <1>6, <2>1 DEF Hold, Steps
  <1>7. CASE Save
    <2>1. local.spec \in CHISpecs \cup {None} /\ local.inputs \in Nat \cup {None}
      BY DEF Locals
    <2>2. record' \in [spec: [CRs -> CHISpecs \cup {None}],
                       inputs: [CRs -> Nat \cup {None}],
                       target: CHISpecs \cup {None}]
      BY <1>7, <2>1 DEF Save, Recorded
    <2> QED BY <1>7, <2>2 DEF Save, Steps
  <1>8. CASE End \/ Fail
    <2>1. NoLocal \in Locals
      BY DEF NoLocal, Locals
    <2>2. pending' \in CHISpecs \cup {None}
      BY <1>8 DEF End, Fail, Locals
    <2> QED BY <1>8, <2>1, <2>2 DEF End, Fail, Steps
  <1>9. CASE Refuse \/ Observe \/ DeleteSecret \/ Approve \/ UNCHANGED vars
    BY <1>9 DEF Refuse, Observe, DeleteSecret, Approve, vars
  <1>10. CASE EditSecret
    <2>1. secret' \in Secrets
      BY <1>10 DEF EditSecret, Secrets, AllPasswords, Usernames
    <2> QED BY <1>10, <2>1 DEF EditSecret
  <1>11. ASSUME NEW p \in Pods, Roll(p) \/ Restart(p) PROVE TypeOK'
    <2>1. pods' \in [Pods -> PodStates \cup {None}]
      BY <1>11, StartFacts DEF Roll, Restart, PodStates
    <2> QED BY <1>11, <2>1 DEF Roll, Restart
  <1> QED BY <1>1, <1>2, <1>3, <1>4, <1>5, <1>6, <1>7, <1>8, <1>9, <1>10, <1>11
     DEF Next, SyncStep

\* The variables keep their types; what a reconcile writes is a complete
\* Secret, and each of its steps finds what the earlier ones derived.
THEOREM CredentialsTypes == Spec => []TypeOK
  BY CredentialsTypeInit, CredentialsTypeNext, PTL DEF Spec

(***************************************************************************)
(* The inductive argument.                                                 *)
(***************************************************************************)
\* What the theorems assume of the environment: reconciles start with a cache
\* that is up to date, and nobody deletes the Secret under a CHI.
Orderly == CatchesUp /\ ~DeletesLate

\* Every initial situation has pods that run what its Secret holds.
LEMMA CredentialsInvInit == Init => CredentialsInv
  <1> SUFFICES ASSUME Init PROVE CredentialsInv
    OBVIOUS
  <1>0. TypeOK /\ pc = "idle" /\ local = NoLocal /\ local.spec = None
    BY CredentialsTypeInit DEF Init, Fresh, NoLocal
  <1> USE DEF CredentialsInv, ExistenceInv, SpecsInv, Follows, WriteInv, PodsInv
  <1>1. CASE New
    BY <1>0, <1>1 DEF New
  <1> DEFINE full == Completed(Seed(1), 2)
  <1>2. full \in FullSecrets
    BY SeedType, CompletedFacts
  <1> HIDE DEF full
  <1>3. CASE Steady
    <2>1. /\ secret = full /\ secret # None
          /\ chi = [username |-> full.username, revision |-> full.revision,
                    authenticated |-> TRUE]
          /\ \A p \in Pods : pods[p] = [spec |-> chi, password |-> full.passwordDigest,
                                       generated |-> full.generated]
      BY <1>2, <1>3, FullIsSecret, AbsentAssumption DEF Steady, Running, full
    <2>2. /\ full.revision \in Nat /\ full.generated \in Nat
          /\ full.username \in Usernames
      BY <1>2 DEF FullSecrets
    <2>3. chi \in CHISpecs
      BY <2>1, <2>2 DEF CHISpecs
    <2>4. chi # None
      BY <2>3, AbsentAssumption
    <2> QED BY <1>0, <2>1, <2>2, <2>4, NoneIsNoNumber
  <1>4. CASE TakenOver
    <2>1. /\ chi = [username |-> secret.username, revision |-> None,
                    authenticated |-> FALSE]
          /\ \A p \in Pods : pods[p] = [spec |-> chi, password |-> secret.passwordDigest,
                                       generated |-> None]
      BY <1>4 DEF TakenOver, Running
    <2>2. secret \in Secrets /\ secret.username \in Usernames
      BY <1>2, <1>4 DEF TakenOver, full, FullSecrets, Secrets
    <2>3. chi \in CHISpecs
      BY <2>1, <2>2 DEF CHISpecs
    <2>4. chi # None /\ secret # None
      BY <2>2, <2>3, AbsentAssumption
    <2>5. secret.revision \in Nat
      BY <2>2 DEF Secrets
    <2> QED BY <1>0, <2>1, <2>4, <2>5, NoneIsNoNumber
  <1> QED BY <1>1, <1>3, <1>4 DEF Init

\* Every step keeps it: a reconcile writes only what counts the changes.
LEMMA CredentialsInvNext ==
  ASSUME Orderly, TypeOK, CredentialsInv, [Next]_vars
  PROVE  CredentialsInv'
  <1> USE DEF CredentialsInv, stored, cluster, status, counters
  <1>0. /\ secret # None => secret \in Secrets /\ secret.revision \in Nat
        /\ seen # None => seen \in Secrets /\ seen.revision \in Nat
        /\ local \in Locals
    BY DEF TypeOK, Secrets
  <1>1. CASE EnsureCredentials
    <2> DEFINE base == IF seen = None THEN Seed(used + 1) ELSE seen
               data == Completed(base, used + 2)
    <2>1. base \in Secrets /\ base.password # None /\ used + 2 \in Nat
      BY <1>1, SeedType DEF EnsureCredentials, Valid, TypeOK
    <2>2. /\ data.revision >= base.revision
          /\ data.revision = base.revision => data.passwordDigest = base.passwordDigest
          /\ base.generated # None => data.generated = base.generated
      BY <2>1, CompletedFacts
    <2>3. /\ pc = "idle" /\ seen = secret
          /\ pc' = IF seen = data THEN "build" ELSE "write"
          /\ local' = [NoLocal EXCEPT !.approval = approved,
                                      !.data = IF seen = data THEN None ELSE data]
          /\ UNCHANGED <<secret, seen, chi, pods>>
      BY <1>1 DEF EnsureCredentials, Orderly
    <2>4. seen # None => base = seen
      OBVIOUS
    <2>5. seen = data => seen # None
      BY <2>1, CompletedFacts, FullIsSecret, AbsentAssumption
    <2> HIDE DEF base, data
    <2>6. local'.spec = None /\ (seen # data => local'.data = data)
      BY <2>3 DEF NoLocal
    <2>7. (ExistenceInv /\ SpecsInv /\ PodsInv)'
      BY <1>0, <2>3, <2>5, <2>6 DEF ExistenceInv, SpecsInv, Follows, PodsInv
    <2>8. WriteInv'
      BY <2>2, <2>3, <2>4, <2>6 DEF WriteInv
    <2> QED BY <2>7, <2>8
  <1>2. CASE WriteSecret
    <2>1. /\ pc = "write" /\ pc' = "build" /\ secret' = local.data
          /\ local.data \in FullSecrets
          /\ UNCHANGED <<seen, chi, pods, local>>
      BY <1>2 DEF WriteSecret, TypeOK
    <2>2. secret' # None /\ secret'.revision \in Nat
      BY <2>1, FullIsSecret, AbsentAssumption DEF FullSecrets
    <2>3. secret = None => chi = None /\ \A p \in Pods : pods[p] = None
      BY DEF ExistenceInv
    <2>4. ExistenceInv'
      BY <1>0, <2>1, <2>2 DEF ExistenceInv, WriteInv
    <2>a. local.spec = None
      BY <2>1 DEF ExistenceInv
    <2>b. secret # None => secret.revision \in Nat /\ secret'.revision >= secret.revision
      BY <1>0, <2>1 DEF WriteInv
    <2>c. ASSUME NEW spec \in CHISpecs, spec.revision # None, Follows(spec), secret # None,
                 spec # None
          PROVE  /\ spec.revision \in Nat /\ spec.revision =< secret.revision
                 /\ spec.authenticated /\ spec.revision =< secret'.revision
      BY <2>2, <2>b, <2>c DEF CHISpecs, Follows
    <2>5. SpecsInv'
      <3>1. Follows(chi)'
        BY <2>1, <2>3, <2>c DEF SpecsInv, Follows, TypeOK, ExistenceInv
      <3>2. ASSUME NEW p \in Pods, pods[p] # None PROVE Follows(pods[p].spec)'
        <4>1. secret # None /\ pods[p].spec \in CHISpecs /\ Follows(pods[p].spec)
          BY <2>3, <3>2 DEF SpecsInv, TypeOK, PodStates
        <4> QED BY <2>1, <2>c, <4>1 DEF Follows
      <3> QED BY <2>1, <2>a, <3>1, <3>2 DEF SpecsInv, Follows
    <2>6. PodsInv'
      <3> SUFFICES ASSUME NEW p \in Pods, pods[p] # None
                   PROVE  /\ pods[p].generated # None => pods[p].generated = secret'.generated
                          /\ pods[p].spec.revision # None => pods[p].generated # None
                          /\ pods[p].spec.revision = secret'.revision =>
                               pods[p].password = secret'.passwordDigest
        BY <2>1 DEF PodsInv
      <3>1. secret # None /\ pods[p].spec \in CHISpecs /\ Follows(pods[p].spec)
              /\ pods[p].spec # None
        BY <2>3, AbsentAssumption DEF SpecsInv, TypeOK, PodStates
      <3>2. pods[p].spec.revision = secret'.revision => secret'.revision = secret.revision
        BY <2>2, <2>b, <2>c, <3>1, NoneIsNoNumber
      <3> QED BY <2>1, <3>1, <3>2 DEF PodsInv, WriteInv
    <2> QED BY <2>1, <2>4, <2>5, <2>6 DEF WriteInv
  <1>3. CASE BuildCHI
    <2> DEFINE spec == [username |-> IF seen = None \/ seen.username = None
                                     THEN AppUserName ELSE seen.username,
                        revision |-> IF seen = None THEN None ELSE seen.revision,
                        authenticated |-> TRUE]
    <2>1. /\ pc = "build" /\ pc' = "gate" /\ local' = [local EXCEPT !.spec = spec]
          /\ UNCHANGED <<secret, seen, chi, pods>>
      BY <1>3 DEF BuildCHI
    <2>2. Follows(spec)
      BY <2>1 DEF ExistenceInv, Follows
    <2> HIDE DEF spec
    <2>3. local'.spec = spec
      BY <1>0, <2>1 DEF Locals
    <2>4. SpecsInv'
      BY <2>1, <2>2, <2>3 DEF SpecsInv, Follows
    <2> QED BY <2>1, <2>4 DEF ExistenceInv, WriteInv, PodsInv
  <1>4. CASE NewRolloutGate \/ Hold \/ Save
    <2>1. /\ pc \in {"gate", "apply", "save"} /\ pc' \in {"apply", "end"}
          /\ local'.spec = local.spec
          /\ UNCHANGED <<secret, seen, chi, pods>>
      BY <1>0, <1>4 DEF NewRolloutGate, Hold, Save, Locals
    <2> QED BY <2>1 DEF ExistenceInv, SpecsInv, Follows, WriteInv, PodsInv
  <1>5. CASE Apply
    <2>1. /\ pc = "apply" /\ pc' \in {"end", "save"}
          /\ chi' = local.spec /\ local'.spec = local.spec
          /\ UNCHANGED <<secret, seen, pods>>
      BY <1>0, <1>5 DEF Apply, Locals
    <2>2. local.spec # None
      BY <2>1 DEF TypeOK
    <2> QED BY <2>1, <2>2 DEF ExistenceInv, SpecsInv, Follows, WriteInv, PodsInv
  <1>6. CASE End \/ Fail
    <2>1. /\ pc' = "idle" /\ local' = NoLocal /\ local'.spec = None
          /\ UNCHANGED <<secret, seen, chi, pods>>
      BY <1>6 DEF End, Fail, NoLocal
    <2> QED BY <2>1 DEF ExistenceInv, SpecsInv, Follows, WriteInv, PodsInv
  <1>7. CASE Refuse \/ Approve \/ UNCHANGED vars
    BY <1>7 DEF Refuse, Approve, vars, ExistenceInv, SpecsInv, Follows, WriteInv, PodsInv
  <1>8. CASE Observe
    BY <1>0, <1>8 DEF Observe, ExistenceInv, SpecsInv, Follows, WriteInv, PodsInv
  <1>9. CASE EditSecret
    <2>1. /\ secret # None /\ secret' # None
          /\ secret'.revision = secret.revision
          /\ secret'.passwordDigest = secret.passwordDigest
          /\ secret'.generated = secret.generated
          /\ UNCHANGED <<seen, chi, pods, pc, local>>
      <3>1. secret \in Secrets
        BY <1>0, <1>9 DEF EditSecret
      <3>2. secret' \in Secrets
        BY <1>9, <3>1 DEF EditSecret, Secrets, AllPasswords, Usernames
      <3>3. /\ secret'.revision = secret.revision
            /\ secret'.passwordDigest = secret.passwordDigest
            /\ secret'.generated = secret.generated
        BY <1>9, <3>1 DEF EditSecret, Secrets
      <3> QED BY <1>9, <3>1, <3>2, <3>3, AbsentAssumption DEF EditSecret
    <2> QED BY <2>1 DEF ExistenceInv, SpecsInv, Follows, WriteInv, PodsInv
  <1>10. CASE DeleteSecret
    <2>1. /\ chi = None /\ pc = "idle" /\ secret' = None
          /\ UNCHANGED <<seen, chi, pods, pc, local>>
      BY <1>10 DEF DeleteSecret, Orderly
    <2>2. local.spec = None /\ \A p \in Pods : pods[p] = None
      BY <2>1 DEF ExistenceInv, NoLocal
    <2> QED BY <2>1, <2>2 DEF ExistenceInv, SpecsInv, Follows, WriteInv, PodsInv
  <1>11. ASSUME NEW p \in Pods, Roll(p) \/ Restart(p) PROVE CredentialsInv'
    <2>1. PICK spec \in CHISpecs : Start(p, spec) /\ Follows(spec) /\ chi # None
      <3>1. CASE Roll(p)
        BY <3>1 DEF Roll, TypeOK, SpecsInv
      <3>2. CASE Restart(p)
        BY <3>2 DEF Restart, TypeOK, PodStates, SpecsInv, ExistenceInv
      <3> QED BY <1>11, <3>1, <3>2
    <2>2. UNCHANGED <<secret, seen, chi, pc, local>>
      BY <1>11 DEF Roll, Restart
    <2>3. /\ pods'[p] \in PodStates /\ pods'[p].spec = spec
          /\ pods'[p].password = secret.passwordDigest
          /\ pods'[p].generated = IF spec.authenticated THEN secret.generated ELSE None
          /\ spec.authenticated => secret.generated # None
          /\ \A q \in Pods \ {p} : pods'[q] = pods[q]
      BY <2>1, StartFacts
    <2>4. (ExistenceInv /\ WriteInv)'
      BY <2>1, <2>2, <2>3 DEF ExistenceInv, WriteInv
    <2>5. SpecsInv'
      BY <2>1, <2>2, <2>3 DEF SpecsInv, Follows
    <2>6. PodsInv'
      <3>1. spec.revision # None => spec.authenticated
        BY <2>1, AbsentAssumption DEF Follows
      <3> QED BY <2>2, <2>3, <3>1 DEF PodsInv
    <2> QED BY <2>4, <2>5, <2>6
  <1> QED BY <1>1, <1>2, <1>3, <1>4, <1>5, <1>6, <1>7, <1>8, <1>9, <1>10, <1>11
     DEF Next, SyncStep

\* The invariant, along every behaviour.
LEMMA CredentialsInvariant ==
  ASSUME Orderly
  PROVE  Spec => []CredentialsInv
  <1>1. Init => CredentialsInv
    BY CredentialsInvInit
  <1>2. TypeOK /\ CredentialsInv /\ [Next]_vars => CredentialsInv'
    BY CredentialsInvNext
  <1> QED BY <1>1, <1>2, CredentialsTypes, PTL DEF Spec

\* A pod that carries the Secret's revision runs the Secret's credentials, so
\* a rollout to that revision is all a rotation takes.
THEOREM RevisionsTell ==
  ASSUME Orderly
  PROVE  Spec => []RevisionTells
  <1>1. TypeOK /\ CredentialsInv => RevisionTells
    BY NoneIsNoNumber DEF CredentialsInv, PodsInv, RevisionTells, TypeOK, Secrets
  <1>2. Spec => []CredentialsInv
    BY CredentialsInvariant
  <1> QED BY <1>1, <1>2, CredentialsTypes, PTL

\* Replicas never run different generated credentials, whatever fails between
\* generating them and writing them, and whichever pods restart meanwhile.
THEOREM ReplicasStayAlike ==
  ASSUME Orderly
  PROVE  Spec => []ReplicasAgree
  <1>1. CredentialsInv => ReplicasAgree
    BY DEF CredentialsInv, PodsInv, ReplicasAgree
  <1>2. Spec => []CredentialsInv
    BY CredentialsInvariant
  <1> QED BY <1>1, <1>2, PTL
=============================================================================
