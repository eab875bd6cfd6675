------------------------------- MODULE Cleanup -------------------------------
(***************************************************************************)
(* Deleting an Instance: Provider.Cleanup (provider.go), which the runtime *)
(* calls again after every wait or error until it returns nil and the      *)
(* Instance goes.  No Sync runs any more.  The operator may still be busy  *)
(* with a reconcile it started before the deletion.                        *)
(*                                                                         *)
(* A reclaim policy of a volume claim template or of a PVC's label decides *)
(* what the operator does with the data; both may be older than the        *)
(* Instance's, or unset, which the operator reads as Delete.               *)
(***************************************************************************)
EXTENDS Integers, Sequences

CONSTANTS
  CHIVolumes, CHKVolumes,   \* the PVCs the CHI and the CHK can have
  MaxEdits, MaxFaults       \* bounds on the environment's steps

ASSUME VolumesAssumption == CHIVolumes \cap CHKVolumes = {}
ASSUME BoundsAssumption == MaxEdits \in Nat /\ MaxFaults \in Nat

CRs == {"chi", "chk"}
Volumes == CHIVolumes \cup CHKVolumes
VolumesOf(x) == IF x = "chi" THEN CHIVolumes ELSE CHKVolumes

Policies == {"Retain", "Delete"}
Instances == [replicated: BOOLEAN, policy: Policies]

\* What Cleanup deletes right after the CHI, in this order.
Objects == <<"podMonitor", "credentials", "rolloutState", "certificates">>
ObjectKinds == {"podMonitor", "credentials", "rolloutState", "certificates"}

VARIABLES
  inst,       \* the stored Instance, being deleted
  gone,       \* its finalizer was removed
  pc,         \* the next call of the Cleanup in progress
  copy,       \* the Instance Cleanup was handed
  todo,       \* the PVCs it listed and has not come to yet
  cr,         \* each CR: "live", "deleting" or "gone"
  template,   \* the reclaim policy in each CR's volume claim templates
  objects,    \* the other objects that are still there
  pods,       \* do the pods of each CR run?
  busy,       \* per CR, the template an unfinished reconcile works from
  label,      \* the reclaim label of each PVC, "none" if there is no PVC
  data,       \* history: the PVCs there were when the deletion started
  asked,      \* history: Delete was asked for at some time since
  edits, faults

provider == <<pc, copy, todo>>
cluster == <<cr, template, pods, busy, label>>
vars == <<inst, gone, provider, cluster, objects, data, asked, edits, faults>>

Steps == {"idle", "patchCHI", "patchCHK", "listCHI", "labelCHI", "listCHK",
          "labelCHK", "deleteCHI", "deleteObjects", "awaitCHI", "deleteCHK",
          "awaitCHK", "leftCHI", "purgeCHI", "leftCHK", "purgeCHK", "finish"}

TypeOK ==
  /\ inst \in Instances /\ copy \in Instances
  /\ gone \in BOOLEAN /\ asked \in BOOLEAN
  /\ pc \in Steps
  /\ cr \in [CRs -> {"live", "deleting", "gone"}]
  /\ template \in [CRs -> Policies \cup {"unset"}]
  /\ objects \in Seq(ObjectKinds)
  /\ pods \in [CRs -> BOOLEAN]
  /\ busy \in [CRs -> Policies \cup {"unset", "none"}]
  /\ label \in [Volumes -> Policies \cup {"unset", "none"}]
  /\ data \subseteq Volumes /\ todo \subseteq Volumes
  /\ edits \in Nat /\ faults \in Nat

-----------------------------------------------------------------------------
(* Provider.Cleanup *)

\* The runtime hands Cleanup the Instance as it is stored.
Start ==
  /\ pc = "idle" /\ ~gone
  /\ copy' = inst
  /\ pc' = "patchCHI"
  /\ UNCHANGED <<inst, gone, todo, cluster, objects, data, asked, edits, faults>>

\* patchVolumeClaimTemplates
Patch(x, here, next) ==
  /\ pc = here
  /\ template' = IF cr[x] = "gone" THEN template
                 ELSE [template EXCEPT ![x] = copy.policy]
  /\ pc' = next
  /\ UNCHANGED <<inst, gone, copy, todo, cr, pods, busy, label, objects, data,
                 asked, edits, faults>>

\* Listing PVCs, in a call of its own.
List(pvcs, here, next) ==
  /\ pc = here
  /\ todo' = pvcs
  /\ pc' = next
  /\ UNCHANGED <<inst, gone, copy, cluster, objects, data, asked, edits, faults>>

\* Mutant of ToLabel: only PVCs that have no label yet.
ToLabelUnset(x) == {v \in VolumesOf(x) : label[v] = "unset"}

\* The PVCs of a CR that labelPVCs patches.
ToLabel(x) == {v \in VolumesOf(x) : label[v] \notin {"none", copy.policy}}

\* Mutant of Relabelled: the policy is written the way the user spelt it.
RelabelledRaw(v) == [label EXCEPT ![v] = "retain"]

Relabelled(v) == [label EXCEPT ![v] = copy.policy]

\* labelPVCs, after its list, one PVC a call; one that is gone by now is an
\* error.
Label(here, next) ==
  /\ pc = here
  /\ \/ /\ todo = {}
        /\ pc' = next
        /\ UNCHANGED <<label, todo>>
     \/ \E v \in todo :
          \/ /\ label[v] # "none"
             /\ label' = Relabelled(v)
             /\ todo' = todo \ {v}
             /\ UNCHANGED pc
          \/ /\ label[v] = "none"
             /\ pc' = "idle" /\ todo' = {}
             /\ UNCHANGED label
  /\ UNCHANGED <<inst, gone, copy, cr, template, pods, busy, objects, data, asked,
                 edits, faults>>

\* Deleting a CR starts the operator's teardown; what is gone stays gone.
Delete(x, here, next) ==
  /\ pc = here
  /\ cr' = IF cr[x] = "live" THEN [cr EXCEPT ![x] = "deleting"] ELSE cr
  /\ pc' = next
  /\ UNCHANGED <<inst, gone, copy, todo, template, pods, busy, label, objects,
                 data, asked, edits, faults>>

\* Mutant of DeleteObject: an object that is gone already is an error.
DeleteObjectOrFail ==
  /\ pc = "deleteObjects"
  /\ IF objects = <<>> THEN pc' = "idle" /\ UNCHANGED objects
     ELSE objects' = Tail(objects) /\ UNCHANGED pc
  /\ UNCHANGED <<inst, gone, copy, todo, cluster, data, asked, edits, faults>>

\* The other deletions, one call each; deleting what is gone changes nothing.
DeleteObject ==
  /\ pc = "deleteObjects"
  /\ IF objects = <<>> THEN pc' = "awaitCHI" /\ UNCHANGED objects
     ELSE objects' = Tail(objects) /\ UNCHANGED pc
  /\ UNCHANGED <<inst, gone, copy, todo, cluster, data, asked, edits, faults>>

\* waitForDeletion: a CR still there ends this Cleanup, to be called again.
Await(x, here, next) ==
  /\ pc = here
  /\ pc' = IF cr[x] = "gone" THEN next ELSE "idle"
  /\ UNCHANGED <<inst, gone, copy, todo, cluster, objects, data, asked, edits, faults>>

\* What is done last, if it is.
AfterCRs == IF copy.policy = "Delete" THEN "leftCHI" ELSE "finish"

\* Mutant of AwaitCHI: Keeper is deleted right away.
AwaitNothing ==
  /\ pc = "awaitCHI"
  /\ pc' = IF copy.replicated THEN "deleteCHK" ELSE AfterCRs
  /\ UNCHANGED <<inst, gone, copy, todo, cluster, objects, data, asked, edits, faults>>

\* After the CHI, the CHK of an Instance that is replicated as it stands.
AwaitCHI == Await("chi", "awaitCHI",
                  IF copy.replicated THEN "deleteCHK" ELSE AfterCRs)

\* Mutant of Left: left to the operator, as ClickHouse's are.
LeftOfCHI(x) == {v \in CHIVolumes : label[v] # "none"}

\* The PVCs of a CR, for deletePVCs.
Left(x) == {v \in VolumesOf(x) : label[v] # "none"}

\* deletePVCs, after its lists, one PVC a call.
DeletePVC(here, next) ==
  /\ pc = here
  /\ \/ /\ todo = {}
        /\ pc' = next
        /\ UNCHANGED <<label, todo>>
     \/ \E v \in todo :
          /\ label' = [label EXCEPT ![v] = "none"]
          /\ todo' = todo \ {v}
          /\ UNCHANGED pc
  /\ UNCHANGED <<inst, gone, copy, cr, template, pods, busy, objects, data, asked,
                 edits, faults>>

\* Cleanup returned nil: the runtime lets the Instance go.
Finish ==
  /\ pc = "finish"
  /\ gone' = TRUE
  /\ pc' = "idle"
  /\ UNCHANGED <<inst, copy, todo, cluster, objects, data, asked, edits, faults>>

\* A call fails, or the provider restarts.
Fail ==
  /\ pc # "idle"
  /\ faults < MaxFaults
  /\ faults' = faults + 1
  /\ pc' = "idle" /\ todo' = {}
  /\ UNCHANGED <<inst, gone, copy, cluster, objects, data, asked, edits>>

CleanupStep ==
  \/ Start
  \/ Patch("chi", "patchCHI", "patchCHK")
  \/ Patch("chk", "patchCHK", "listCHI")
  \/ List(ToLabel("chi"), "listCHI", "labelCHI")
  \/ Label("labelCHI", "listCHK")
  \/ List(ToLabel("chk"), "listCHK", "labelCHK")
  \/ Label("labelCHK", "deleteCHI")
  \/ Delete("chi", "deleteCHI", "deleteObjects")
  \/ DeleteObject
  \/ AwaitCHI
  \/ Delete("chk", "deleteCHK", "awaitCHK")
  \/ Await("chk", "awaitCHK", AfterCRs)
  \/ List(Left("chi"), "leftCHI", "purgeCHI")
  \/ DeletePVC("purgeCHI", "leftCHK")
  \/ List(Left("chk"), "leftCHK", "purgeCHK")
  \/ DeletePVC("purgeCHK", "finish")
  \/ Finish

-----------------------------------------------------------------------------
(* The user, who may still change the policy, and the operator *)

EditPolicy ==
  /\ ~gone /\ edits < MaxEdits
  /\ \E p \in Policies \ {inst.policy} : inst' = [inst EXCEPT !.policy = p]
  /\ asked' = (asked \/ inst'.policy = "Delete")
  /\ edits' = edits + 1
  /\ UNCHANGED <<gone, provider, cluster, objects, data, faults>>

\* A reconcile from before the deletion creates PVCs it still misses.
Provision(x, v) ==
  /\ busy[x] # "none" /\ label[v] = "none"
  /\ label' = [label EXCEPT ![v] = busy[x]]
  /\ UNCHANGED <<inst, gone, provider, cr, template, pods, busy, objects, data,
                 asked, edits, faults>>

EndReconcile(x) ==
  /\ busy[x] # "none"
  /\ busy' = [busy EXCEPT ![x] = "none"]
  /\ UNCHANGED <<inst, gone, provider, cr, template, pods, label, objects, data,
                 asked, edits, faults>>

StopPods(x) ==
  /\ cr[x] = "deleting" /\ busy[x] = "none" /\ pods[x]
  /\ pods' = [pods EXCEPT ![x] = FALSE]
  /\ UNCHANGED <<inst, gone, provider, cr, template, busy, label, objects, data,
                 asked, edits, faults>>

\* ClickHouse's PVCs go unless both the label and the template say Retain;
\* Keeper's are never purged (comment of deletePVCs).
Purge(v) ==
  /\ v \in CHIVolumes
  /\ cr["chi"] = "deleting" /\ ~pods["chi"]
  /\ label[v] # "none" /\ ~(label[v] = "Retain" /\ template["chi"] = "Retain")
  /\ label' = [label EXCEPT ![v] = "none"]
  /\ UNCHANGED <<inst, gone, provider, cr, template, pods, busy, objects, data,
                 asked, edits, faults>>

Forget(x) ==
  /\ cr[x] = "deleting" /\ busy[x] = "none" /\ ~pods[x]
  /\ cr' = [cr EXCEPT ![x] = "gone"]
  /\ UNCHANGED <<inst, gone, provider, template, pods, busy, label, objects,
                 data, asked, edits, faults>>

OperatorStep(x) == EndReconcile(x) \/ StopPods(x) \/ Forget(x)

-----------------------------------------------------------------------------
\* The deletion starts while the CRs may carry an older policy, or none, a
\* reconcile may be in flight and some PVCs may not exist yet.  A replicated
\* Instance edited to standalone, which Validate refuses, still has its CHK.
Init ==
  /\ inst \in Instances
  /\ gone = FALSE
  /\ pc = "idle" /\ copy = inst
  /\ todo = {}
  /\ cr \in {c \in [CRs -> {"live", "gone"}] :
               c["chi"] = "live" /\ (inst.replicated => c["chk"] = "live")}
  /\ pods = [x \in CRs |-> cr[x] = "live"]
  /\ template \in [CRs -> Policies \cup {"unset"}]
  /\ busy \in {b \in [CRs -> Policies \cup {"unset", "none"}] :
                 \A x \in CRs : b[x] \in {"none", template[x]}
                                  /\ (cr[x] = "gone" => b[x] = "none")}
  /\ label \in {l \in [Volumes -> Policies \cup {"unset", "none"}] :
                  \A x \in CRs : \A v \in VolumesOf(x) :
                    /\ l[v] = "none" => busy[x] # "none" \/ cr[x] = "gone"
                    /\ cr[x] = "gone" => l[v] = "none"}
  /\ objects = Objects
  /\ data = {v \in Volumes : label[v] # "none"}
  /\ asked = (inst.policy = "Delete")
  /\ edits = 0 /\ faults = 0

\* The Instance is gone.
Over == gone /\ UNCHANGED vars

Next ==
  \/ CleanupStep
  \/ Fail
  \/ EditPolicy
  \/ \E x \in CRs : OperatorStep(x) \/ \E v \in VolumesOf(x) : Provision(x, v)
  \/ \E v \in Volumes : Purge(v)
  \/ Over

Spec == Init /\ [][Next]_vars

\* The runtime calls Cleanup again after every wait and error, and the
\* operator tears down what is deleted; it owes no purge.
FairSpec ==
  /\ Spec
  /\ WF_vars(CleanupStep)
  /\ \A x \in CRs : WF_vars(OperatorStep(x))

-----------------------------------------------------------------------------
(* Properties *)

\* What keeps the data, step by step: until Delete is asked for, the policy
\* every call works with is Retain; a CR's teardown starts only after its
\* templates, and every PVC that was there, have been told so.
RetainInv ==
  ~asked =>
    /\ inst.policy = "Retain" /\ copy.policy = "Retain"
    /\ \A v \in data : label[v] # "none"
    /\ pc \in Steps \ {"idle", "patchCHI"} \/ cr["chi"] # "live"
         => template["chi"] = "Retain"
    /\ pc = "labelCHI" =>
         \A v \in data \cap CHIVolumes : label[v] = "Retain" \/ v \in todo
    /\ pc \in Steps \ {"idle", "patchCHI", "patchCHK", "listCHI", "labelCHI"}
         \/ cr["chi"] # "live"
         => \A v \in data \cap CHIVolumes : label[v] = "Retain"
    /\ pc \notin {"leftCHI", "purgeCHI", "leftCHK", "purgeCHK"}

\* What keeps Keeper: its teardown starts once the CHI is gone, and a CHI that
\* is gone has no pods.
OrderInv ==
  /\ pods["chi"] => cr["chi"] # "gone"
  /\ inst.replicated /\ ~pods["chk"] => cr["chk"] # "live"
  /\ inst.replicated /\ cr["chk"] # "live" => cr["chi"] = "gone"
  /\ pc = "deleteCHK" => cr["chi"] = "gone"

\* The CHK of an Instance that says it is standalone: nobody deletes it.
Orphaned == ~inst.replicated /\ cr["chk"] # "gone"

\* Where Cleanup is once the CHI, and the CHK, are found gone.
AfterCHI == {"deleteCHK", "awaitCHK", "leftCHI", "purgeCHI", "leftCHK", "purgeCHK",
             "finish"}
AfterCHK == AfterCHI \ {"deleteCHK", "awaitCHK"}

\* What leaves nothing behind: what has been deleted stays so, from one call
\* to the next and after the last.  Without a CR no PVC is created.
LeftInv ==
  /\ copy.replicated = inst.replicated
  /\ gone => pc = "idle"
  /\ \A x \in CRs : cr[x] = "gone" => busy[x] = "none"
  /\ pc \in AfterCHI \/ gone => cr["chi"] = "gone" /\ objects = <<>>
  /\ pc = "awaitCHI" => objects = <<>>
  /\ pc \in AfterCHK \/ gone => Orphaned \/ cr["chk"] = "gone"
  /\ pc \in {"deleteCHK", "awaitCHK"} \/ cr["chk"] = "deleting" => inst.replicated
  /\ copy.policy = "Delete" =>
       /\ pc = "purgeCHI" => \A v \in CHIVolumes : label[v] = "none" \/ v \in todo
       /\ pc \in {"leftCHK", "purgeCHK", "finish"} \/ gone =>
            \A v \in CHIVolumes : label[v] = "none"
       /\ pc = "purgeCHK" =>
            Orphaned \/ \A v \in CHKVolumes : label[v] = "none" \/ v \in todo
       /\ pc = "finish" \/ gone =>
            Orphaned \/ \A v \in CHKVolumes : label[v] = "none"

\* Data is kept unless Delete was asked for: whatever older policy the CRs and
\* PVCs carried, no PVC there was at the start goes (syncReclaimPolicy before
\* the deletion, deletePVCs only under Delete).
RetainKeepsData == ~asked => \A v \in data : label[v] # "none"

\* "replicas never lose their coordination service while shutting down":
\* Keeper's pods run until ClickHouse's have stopped (Cleanup's order).
KeeperOutlivesClickHouse == inst.replicated /\ pods["chi"] => pods["chk"]

\* When the Instance goes nothing of it is left behind, and no PVC under
\* Delete, not even one a reconcile in flight created (deletePVCs last).
NothingLeftBehind ==
  gone /\ ~Orphaned =>
    /\ \A x \in CRs : cr[x] = "gone"
    /\ objects = <<>>
    /\ copy.policy = "Delete" => \A v \in Volumes : label[v] = "none"

\* The Instance does not stay Terminating for ever.
CleanupFinishes == <>gone
=============================================================================
