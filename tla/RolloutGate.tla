---------------------------- MODULE RolloutGate ----------------------------
(***************************************************************************)
(* The decision that lets a rendered ClickHouseInstallation ("chi") or     *)
(* ClickHouseKeeperInstallation ("chk") through, and the record it keeps   *)
(* in the rollout-state Secret (internal/provider/rollout.go).             *)
(*                                                                         *)
(* A fingerprint (specHash, inputsHash) is represented by what it is taken *)
(* from, a missing record entry by None.                                   *)
(***************************************************************************)
CONSTANT None

CRs == {"chk", "chi"}

\* A Secret that does not exist, or holds only keys of an earlier format.
EmptyRecord == [spec |-> [x \in CRs |-> None],
                inputs |-> [x \in CRs |-> None],
                target |-> None]

\* The rendering is the one applied last.
Unchanged(record, x, spec) == record.spec[x] = spec

\* Mutants of UserChanged: the comparison inverted; a missing record read as a
\* change.
UserUnchanged(record, x, inputs) == record.inputs[x] = inputs
UserChangedOrUnknown(record, x, inputs) == record.inputs[x] # inputs

\* Inputs other than the recorded ones mean the user edited the Instance.
UserChanged(record, x, inputs) ==
  record.inputs[x] # None /\ record.inputs[x] # inputs

\* apply: what goes ahead without asking for maintenance.
Unasked(record, x, exists, spec, inputs, token) ==
  \/ ~exists
  \/ record.spec[x] = None
  \/ Unchanged(record, x, spec)
  \/ UserChanged(record, x, inputs)
  \/ record.target = token

\* apply: whether the object is named with a task ID.
Stamps(record, x, exists, liveStamped, spec) ==
  \/ ~exists
  \/ ~Unchanged(record, x, spec) /\ record.spec[x] # None
  \/ liveStamped

\* apply: the record is left alone when it already says all this.
UpToDate(record, x, spec, inputs) ==
  Unchanged(record, x, spec) /\ record.inputs[x] = inputs

\* save: only a change carries its approval on to later steps.
Recorded(record, x, spec, inputs, token) ==
  [spec |-> [record.spec EXCEPT ![x] = spec],
   inputs |-> [record.inputs EXCEPT ![x] = inputs],
   target |-> IF Unchanged(record, x, spec) THEN record.target ELSE token]
=============================================================================
