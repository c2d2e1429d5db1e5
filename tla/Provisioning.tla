----------------------------- MODULE Provisioning ----------------------------
(***************************************************************************)
(* What the objects the operator writes are for: the life of a volume, from *)
(* the claim to the pod that uses it, a snapshot, and the end of the claim. *)
(*                                                                          *)
(* The operator's part are the templates: the rules of the ClusterRole, the *)
(* CSIDriver, the controller Deployment with its sidecars, where its        *)
(* replicas may run, and the StorageClasses.  The sidecars, the cloud, the  *)
(* scheduler and the kubelet act on them; the comments beside the templates *)
(* say what each needs and what happened without it.                        *)
(***************************************************************************)
EXTENDS Naturals

CONSTANTS
    Classes,      \* storage classes of the CR
    Controllers,  \* values of spec.controller
    Nodes,        \* of the cluster
    NodeLabels,   \* the labels of each node
    NodeTaints,   \* the taints of each node
    Zones,        \* of the cloud
    None,         \* no node, no volume, a field of the CR left out
    MaxTrouble    \* bound: replicas, nodes and leases lost, failing calls

Network == {"regionId", "zoneId", "vpcId", "vSwitchId"}

\* DiskStorageClassSpec and NASStorageClassSpec, by the fields that are set.
DiskClasses == [driver : {"disk"}, retain : BOOLEAN]

NASClasses == [driver : {"nas"}, retain : BOOLEAN,
               volumeAs : {None, "filesystem", "subpath"},
               set : SUBSET (Network \cup {"server", "storageType"})]

ASSUME ProvisioningAssumption ==
    /\ Classes \subseteq DiskClasses \cup NASClasses
    /\ None \notin Nodes \cup Zones \cup {"filesystem", "subpath"}
    /\ Zones # {}
    /\ \A c \in Controllers :
          /\ c.replicas \in Nat
          /\ c.nodeSelector \in (SUBSET {"master", "infra"}) \cup {None}
          /\ c.tolerations \subseteq {"master", "infra"}
    /\ MaxTrouble \in Nat

-----------------------------------------------------------------------------
(* The templates. *)

Read == {"get", "list", "watch"}

\* ensureClusterRole: resources of the API and what may be done with them, but for
\* two rules that came later.
FirstRules ==
    ({"nodes", "namespaces", "pods", "persistentvolumes", "persistentvolumeclaims"}
        \X (Read \cup {"update", "patch"}))
    \cup ({"configmaps"} \X Read)
    \cup ({"events"} \X (Read \cup {"create", "update", "patch"}))
    \cup ({"storageclasses", "csinodes", "csidrivers", "volumeattachments"}
        \X (Read \cup {"update", "patch"}))
    \cup ({"volumeattachments/status"} \X {"patch"})
    \cup ({"volumesnapshots", "volumesnapshotcontents", "volumesnapshotclasses"}
        \X (Read \cup {"create", "update", "patch", "delete"}))
    \cup ({"leases"} \X (Read \cup {"create", "update", "patch", "delete"}))

StatusRules ==
    {"volumesnapshotcontents/status", "volumesnapshots/status"} \X {"get", "update", "patch"}

\* Mutant: nobody may create volumes.
RulesNoCreate == FirstRules \cup StatusRules \cup ({"persistentvolumes"} \X {"delete"})

\* Mutant: nobody may delete them.
RulesNoDelete == FirstRules \cup StatusRules \cup ({"persistentvolumes"} \X {"create"})

\* Mutant: nobody may write the status of a snapshot.
RulesNoStatus == FirstRules \cup ({"persistentvolumes"} \X {"create", "delete"})

Rules == FirstRules \cup StatusRules \cup ({"persistentvolumes"} \X {"create", "delete"})

May(resource, verbs) == {resource} \X verbs \subseteq Rules

\* ensureDiskCSIDriver and ensureNASCSIDriver.
AttachRequired(driver) == driver = "disk"

\* ensureVolumeSnapshotClass is called for the disk driver only.
Snapshottable(driver) == driver = "disk"

\* Mutant: sidecars that do not elect a leader, as before v0.1.4.
DiskControllerNoElection ==
    [sidecars |-> {"provisioner", "attacher", "snapshotter"}, elects |-> {}, topology |-> TRUE]

\* ensureDiskControllerDeployment: the sidecars, those with --leader-election, and
\* the Topology feature of the provisioner.  The resizer is left out.
DiskController ==
    [sidecars |-> {"provisioner", "attacher", "snapshotter"},
     elects   |-> {"provisioner", "attacher", "snapshotter"},
     topology |-> TRUE]

\* ensureNASControllerDeployment.
NASController ==
    [sidecars |-> {"provisioner"}, elects |-> {"provisioner"}, topology |-> FALSE]

Template(driver) == IF driver = "disk" THEN DiskController ELSE NASController

\* Mutant: the field as it comes, without a default.
ReplicasAsGiven(c) == c.replicas

Replicas(c) == IF c.replicas = 0 THEN 2 ELSE c.replicas

\* controllerPodAntiAffinity.
AntiAffinity == "preferred"

\* The nodes the scheduler may give to a replica when the others run on taken.
Hosts(c, taken) ==
    LET selector    == IF c.nodeSelector = None THEN {"master"} ELSE c.nodeSelector
        tolerations == IF c.tolerations = {} THEN {"master"} ELSE c.tolerations
    IN  {n \in Nodes : /\ selector \subseteq NodeLabels[n]
                       /\ NodeTaints[n] \subseteq tolerations
                       /\ AntiAffinity = "required" => n \notin taken}

Reclaim(k) == IF k.retain THEN "Retain" ELSE "Delete"

\* Mutant: the disk is created before its pod has a node.
DiskStorageClassImmediate(k) ==
    [binding |-> "Immediate", reclaim |-> Reclaim(k)]

\* ensureDiskStorageClass.
DiskStorageClass(k) ==
    [binding |-> "WaitForFirstConsumer", reclaim |-> Reclaim(k)]

Mode(k) == IF k.volumeAs = None THEN "filesystem" ELSE k.volumeAs

\* Mutant: subpaths when the class does not say.
NASParametersSubpath(k) ==
    IF k.volumeAs = "filesystem"
    THEN [volumeAs |-> "filesystem",
          names    |-> {"fileSystemType"} \cup (k.set \cap (Network \cup {"storageType"}))]
    ELSE [volumeAs |-> "subpath",
          names    |-> {"mountType"} \cup (k.set \cap {"server", "storageType"})]

\* nasStorageClassParameters: the mode and the names of the other parameters.
NASParameters(k) ==
    [volumeAs |-> Mode(k),
     names    |-> IF Mode(k) = "subpath"
                  THEN {"mountType"} \cup (k.set \cap {"server", "storageType"})
                  ELSE {"fileSystemType"} \cup (k.set \cap (Network \cup {"storageType"}))]

\* Its second result, which is logged.
Missing(k) == (IF Mode(k) = "subpath" THEN {"server"} ELSE Network) \ k.set

\* ensureNASStorageClass.
NASStorageClass(k) == [binding |-> "Immediate", reclaim |-> Reclaim(k)]

StorageClass(k) == IF k.driver = "disk" THEN DiskStorageClass(k) ELSE NASStorageClass(k)

-----------------------------------------------------------------------------
VARIABLES
    class,     \* the class of the claim
    ctl,       \* the spec.controller of the CR
    room,      \* the zone where there is room for the claim's pod
    node,      \* the node of each replica of the controller
    leader,    \* the replica that holds the lease of a sidecar, 0 for none
    calls,     \* the replicas with a CreateVolume for the claim under way
    volume,    \* the zone of the volume
    pv,        \* the volume is saved and bound
    attached,  \* to the node of the pod
    pod,       \* of the claim
    snap,      \* a snapshot of the volume
    deleted,   \* the claim
    trouble    \* what is left of MaxTrouble

vars == <<class, ctl, room, node, leader, calls, volume, pv, attached, pod, snap,
          deleted, trouble>>

chosen == <<class, ctl, room>>
control == <<node, leader>>

Sidecars == {"provisioner", "attacher", "snapshotter"}
Replica == 1 .. Replicas(ctl)
Driver == class.driver

Init ==
    /\ class \in Classes /\ ctl \in Controllers /\ room \in Zones
    /\ node = [r \in Replica |-> None]
    /\ leader = [s \in Sidecars |-> 0]
    /\ calls = {}
    /\ volume = None /\ pv = FALSE /\ attached = FALSE
    /\ pod = "none" /\ snap = "none" /\ deleted = FALSE
    /\ trouble = MaxTrouble

-----------------------------------------------------------------------------
(* The controller's replicas. *)

Place(r) ==
    /\ node[r] = None
    /\ \E n \in Hosts(ctl, {node[q] : q \in Replica}) : node' = [node EXCEPT ![r] = n]
    /\ UNCHANGED <<chosen, leader, calls, volume, pv, attached, pod, snap, deleted, trouble>>

\* A sidecar takes the lease nobody holds.
Elect(s, r) ==
    /\ s \in Template(Driver).elects
    /\ node[r] # None /\ leader[s] = 0
    /\ May("leases", {"get", "create", "update"})
    /\ leader' = [leader EXCEPT ![s] = r]
    /\ UNCHANGED <<chosen, node, calls, volume, pv, attached, pod, snap, deleted, trouble>>

\* A sidecar works when it runs and, if it elects, leads.
Works(s, r) ==
    /\ s \in Template(Driver).sidecars
    /\ node[r] # None
    /\ s \in Template(Driver).elects => leader[s] = r

\* Replicas go, with the leases they hold and the calls they have made.
Go(R) ==
    /\ trouble > 0 /\ trouble' = trouble - 1
    /\ node' = [r \in Replica |-> IF r \in R THEN None ELSE node[r]]
    /\ leader' = [s \in Sidecars |-> IF leader[s] \in R THEN 0 ELSE leader[s]]
    /\ calls' = calls \ R
    /\ UNCHANGED <<chosen, volume, pv, attached, pod, snap, deleted>>

Dies(r) == node[r] # None /\ Go({r})

Reboots(n) == (\E r \in Replica : node[r] = n) /\ Go({r \in Replica : node[r] = n})

\* A sidecar that cannot renew its lease exits before the lease runs out.
LosesLease(s) ==
    /\ leader[s] # 0
    /\ trouble > 0 /\ trouble' = trouble - 1
    /\ leader' = [leader EXCEPT ![s] = 0]
    /\ calls' = IF s = "provisioner" THEN calls \ {leader[s]} ELSE calls
    /\ UNCHANGED <<chosen, node, volume, pv, attached, pod, snap, deleted>>

-----------------------------------------------------------------------------
(* The volume. *)

\* The provisioner calls for a volume, once there is a pod if the class says so.
StartCreate(r) ==
    /\ Works("provisioner", r) /\ r \notin calls
    /\ May("persistentvolumeclaims", Read \cup {"update"}) /\ May("storageclasses", Read)
    /\ ~pv /\ ~deleted
    /\ StorageClass(class).binding = "Immediate" \/ pod # "none"
    /\ calls' = calls \cup {r}
    /\ UNCHANGED <<chosen, control, volume, pv, attached, pod, snap, deleted, trouble>>

\* What the NAS driver needs; without a mode it makes subpaths.
Accepts(parameters) ==
    IF parameters.volumeAs = "filesystem" THEN Network \subseteq parameters.names
    ELSE "server" \in parameters.names

CanCreate == Driver = "nas" => Accepts(NASParameters(class))

\* The zone is the pod's when the call names it.
ZonesAllowed ==
    IF Template(Driver).topology /\ StorageClass(class).binding = "WaitForFirstConsumer"
    THEN {room} ELSE Zones

\* The cloud makes one volume for the calls of a claim, which go by its name.
Creates(r) ==
    /\ r \in calls
    /\ CanCreate /\ volume = None
    /\ volume' \in ZonesAllowed
    /\ UNCHANGED <<chosen, control, calls, pv, attached, pod, snap, deleted, trouble>>

\* "Saving volume".
Save(r) ==
    /\ r \in calls /\ volume # None
    /\ May("persistentvolumes", {"create"})
    /\ pv' = TRUE
    /\ calls' = calls \ {r}
    /\ UNCHANGED <<chosen, control, volume, attached, pod, snap, deleted, trouble>>

CallFails(r) ==
    /\ r \in calls
    /\ \/ ~CanCreate /\ UNCHANGED trouble
       \/ trouble > 0 /\ trouble' = trouble - 1
    /\ calls' = calls \ {r}
    /\ UNCHANGED <<chosen, control, volume, pv, attached, pod, snap, deleted>>

AddPod ==
    /\ pod = "none"
    /\ pod' = "waiting"
    /\ UNCHANGED <<chosen, control, calls, volume, pv, attached, snap, deleted, trouble>>

MayAttach ==
    /\ May("volumeattachments", Read \cup {"patch"})
    /\ May("volumeattachments/status", {"patch"})

\* A disk is attached in its own zone only.
Attach(r) ==
    /\ Works("attacher", r) /\ MayAttach
    /\ AttachRequired(Driver) /\ ~attached
    /\ pod = "waiting" /\ pv /\ volume = room
    /\ attached' = TRUE
    /\ UNCHANGED <<chosen, control, calls, volume, pv, pod, snap, deleted, trouble>>

Run ==
    /\ pod = "waiting" /\ pv
    /\ AttachRequired(Driver) => attached
    /\ pod' = "running"
    /\ UNCHANGED <<chosen, control, calls, volume, pv, attached, snap, deleted, trouble>>

\* The pod and then the claim are deleted.  A snapshot being taken protects the claim.
DeleteClaim ==
    /\ pod = "running" /\ snap \notin {"requested", "taken"}
    /\ pod' = "gone" /\ deleted' = TRUE
    /\ UNCHANGED <<chosen, control, calls, volume, pv, attached, snap, trouble>>

Detach(r) ==
    /\ Works("attacher", r) /\ MayAttach
    /\ attached /\ pod = "gone"
    /\ attached' = FALSE
    /\ UNCHANGED <<chosen, control, calls, volume, pv, pod, snap, deleted, trouble>>

\* The provisioner deletes what is released, and then its record.
DeleteVolume(r) ==
    /\ Works("provisioner", r) /\ deleted /\ pv /\ ~attached
    /\ StorageClass(class).reclaim = "Delete" /\ volume # None
    /\ volume' = None
    /\ UNCHANGED <<chosen, control, calls, pv, attached, pod, snap, deleted, trouble>>

DeletePV(r) ==
    /\ Works("provisioner", r) /\ deleted /\ pv /\ volume = None
    /\ May("persistentvolumes", Read \cup {"update", "delete"})
    /\ pv' = FALSE
    /\ UNCHANGED <<chosen, control, calls, volume, attached, pod, snap, deleted, trouble>>

-----------------------------------------------------------------------------
(* Snapshots. *)

RequestSnapshot ==
    /\ Snapshottable(Driver)
    /\ snap = "none" /\ pv /\ ~deleted
    /\ snap' = "requested"
    /\ UNCHANGED <<chosen, control, calls, volume, pv, attached, pod, deleted, trouble>>

TakeSnapshot(r) ==
    /\ Works("snapshotter", r) /\ snap = "requested"
    /\ May("volumesnapshotcontents", Read \cup {"update", "patch"})
    /\ snap' = "taken"
    /\ UNCHANGED <<chosen, control, calls, volume, pv, attached, pod, deleted, trouble>>

\* The snapshotter writes what CreateSnapshot returned into the status.
MarkReady(r) ==
    /\ Works("snapshotter", r) /\ snap = "taken"
    /\ May("volumesnapshotcontents/status", {"update", "patch"})
    /\ snap' = "ready"
    /\ UNCHANGED <<chosen, control, calls, volume, pv, attached, pod, deleted, trouble>>

Next ==
    \/ \E r \in Replica :
         \/ Place(r) \/ Dies(r)
         \/ \E s \in Sidecars : Elect(s, r)
         \/ StartCreate(r) \/ Creates(r) \/ Save(r) \/ CallFails(r)
         \/ Attach(r) \/ Detach(r) \/ DeleteVolume(r) \/ DeletePV(r)
         \/ TakeSnapshot(r) \/ MarkReady(r)
    \/ \E n \in Nodes : Reboots(n)
    \/ \E s \in Sidecars : LosesLease(s)
    \/ AddPod \/ Run \/ DeleteClaim \/ RequestSnapshot

Spec == Init /\ [][Next]_vars

\* The scheduler, the sidecars, the cloud and the kubelet go on with what they can
\* do; users need not.
FairSpec ==
    /\ Spec
    /\ WF_vars(\E r \in Replica : Place(r))
    /\ \A s \in Sidecars : WF_vars(\E r \in Replica : Elect(s, r))
    /\ WF_vars(\E r \in Replica : StartCreate(r))
    /\ WF_vars(\E r \in Replica : Creates(r))
    /\ WF_vars(\E r \in Replica : Save(r))
    /\ WF_vars(\E r \in Replica : Attach(r) \/ Detach(r))
    /\ WF_vars(\E r \in Replica : DeleteVolume(r) \/ DeletePV(r))
    /\ WF_vars(\E r \in Replica : TakeSnapshot(r) \/ MarkReady(r))
    /\ WF_vars(Run)

-----------------------------------------------------------------------------
(* Properties. *)

\* Types; every CR gives the controller a replica, and only a replica that runs holds a
\* lease or makes a call.
TypeOK ==
    /\ class \in Classes /\ ctl \in Controllers /\ room \in Zones
    /\ 1 \in Replica /\ node \in [Replica -> Nodes \cup {None}]
    /\ leader \in [Sidecars -> 0 .. Replicas(ctl)]
    /\ \A s \in Sidecars : leader[s] # 0 => node[leader[s]] # None
    /\ calls \subseteq {r \in Replica : node[r] # None}
    /\ volume \in Zones \cup {None}
    /\ pv \in BOOLEAN /\ attached \in BOOLEAN /\ deleted \in BOOLEAN
    /\ pod \in {"none", "waiting", "running", "gone"}
    /\ snap \in {"none", "requested", "taken", "ready"}
    /\ trouble \in Nat

\* "Without it BOTH provisioners service the same PVC and race on CreateDisk": two
\* replicas never have a call for one claim under way, through elections, dying
\* replicas and lost leases.
OneProvisioner == \A q, r \in calls : q = r

\* A disk is made in the zone of the pod that waits for it, whichever zones the cloud
\* has: elsewhere it can never be attached.
DisksNearTheirPods == Driver = "disk" /\ volume # None => volume = room

\* Nothing is provisioned from a class of which fields were reported missing
\* ("it cannot dynamically provision until the missing fields are supplied").
Complete == Driver = "nas" => Missing(class) = {}

BoundMeansComplete == pv => Complete

\* The operator's templates can be scheduled.
Schedulable == Hosts(ctl, {}) # {}

\* A pod with a claim of a class that lacks nothing runs in the end: the rules of the
\* ClusterRole let every sidecar do its part.
ClaimsServed == (pod = "waiting" /\ Complete /\ Schedulable) ~> (pod # "waiting")

\* "The VolumeSnapshot stays readyToUse=false forever" does not happen.
SnapshotsReady == (snap = "requested") ~> (snap = "ready")

\* In the end the volume of a deleted claim is gone with its record if the class says
\* Delete, and both are kept if it says Retain.
Reclaimed ==
    <>[](deleted => IF class.retain THEN pv /\ volume # None ELSE ~pv /\ volume = None)

-----------------------------------------------------------------------------
(* The volume of the claim lives as VolumeLife says. *)

Phase ==
    IF deleted
    THEN IF ~pv THEN "gone" ELSE IF volume = None THEN "removed" ELSE "released"
    ELSE IF pv THEN "bound" ELSE IF volume = None THEN "none" ELSE "made"

Life == INSTANCE VolumeLife WITH
    Places <- Zones,
    policy <- StorageClass(class).reclaim,
    phase  <- Phase,
    place  <- volume,
    inUse  <- pod = "running"

\* "race on CreateDisk" does not happen, also later: whichever replicas call, die and lose
\* their leases, the claim gets one volume, no call that is still out makes another once
\* it is bound or deleted, and the volume stays or goes as the class says.
ImplementsVolumeLife == Life!Spec
=============================================================================
