-------------------------- MODULE ProvisioningProofs -------------------------
(***************************************************************************)
(* The life of a volume, for any storage classes, any spec.controller, any  *)
(* nodes and zones: type correctness, one provisioner at a time, disks in   *)
(* the zone of their pods, no volume of an incomplete class, and that       *)
(* Provisioning implements VolumeLife.                                      *)
(***************************************************************************)
EXTENDS Provisioning, TLAPS

\* Every controller has a replica, and the number of a replica is not 0.
LEMMA HasReplica == ctl \in Controllers => Replicas(ctl) \in Nat /\ 1 \in Replica /\ 0 \notin Replica
<1> SUFFICES ASSUME ctl \in Controllers
             PROVE  Replicas(ctl) \in Nat /\ 1 \in Replica /\ 0 \notin Replica
  OBVIOUS
<1>1. ctl.replicas \in Nat
  BY ProvisioningAssumption DEF ProvisioningAssumption
<1>2. Replicas(ctl) \in Nat /\ Replicas(ctl) >= 1
  BY <1>1 DEF Replicas
<1> QED
  BY <1>2 DEF Replica

\* Replicas that go take their leases and calls with them.
LEMMA GoType == ASSUME TypeOK, NEW R \in SUBSET Replica, Go(R)
                PROVE  TypeOK'
<1>1. Replica' = Replica /\ Replicas(ctl') = Replicas(ctl)
  BY DEF Go, chosen, Replica
<1>2. node' \in [Replica -> Nodes \cup {None}]
  BY DEF TypeOK, Go
<1>3. leader' \in [Sidecars -> 0 .. Replicas(ctl)]
  <2>1. 0 \in 0 .. Replicas(ctl)
    BY HasReplica DEF TypeOK
  <2> QED
    BY <2>1 DEF TypeOK, Go
<1>4. \A s \in Sidecars : leader'[s] # 0 => node'[leader'[s]] # None
  <2> SUFFICES ASSUME NEW s \in Sidecars, leader'[s] # 0
               PROVE  node'[leader'[s]] # None
    OBVIOUS
  <2>1. leader[s] \notin R /\ leader'[s] = leader[s]
    BY DEF Go
  <2>2. leader[s] \in Replica /\ node[leader[s]] # None
    BY <2>1, HasReplica DEF TypeOK, Replica
  <2> QED
    BY <2>1, <2>2 DEF Go
<1>5. calls' \subseteq {r \in Replica : node'[r] # None}
  BY DEF TypeOK, Go
<1>6. trouble' \in Nat
  BY DEF TypeOK, Go
<1> QED
  BY <1>1, <1>2, <1>3, <1>4, <1>5, <1>6 DEF TypeOK, Go, chosen

\* Every step keeps the types.
LEMMA ProvisioningType == TypeOK /\ [Next]_vars => TypeOK'
<1> SUFFICES ASSUME TypeOK, [Next]_vars
             PROVE  TypeOK'
  OBVIOUS
<1>1. ASSUME NEW r \in Replica, Place(r)
      PROVE  TypeOK'
  <2>1. PICK n \in Nodes : node' = [node EXCEPT ![r] = n]
    BY <1>1 DEF Place, Hosts
  <2>2. n # None
    BY ProvisioningAssumption DEF ProvisioningAssumption
  <2>3. \A q \in Replica : node[q] # None => node'[q] # None
    BY <2>1, <2>2 DEF TypeOK
  <2>4. \A s \in Sidecars : leader[s] # 0 => leader[s] \in Replica
    BY HasReplica DEF TypeOK, Replica
  <2> QED
    BY <1>1, <2>1, <2>3, <2>4 DEF TypeOK, Place, chosen, Replica
<1>2. ASSUME NEW r \in Replica, NEW s \in Sidecars, Elect(s, r)
      PROVE  TypeOK'
  <2>1. r \in 0 .. Replicas(ctl)
    BY HasReplica DEF TypeOK, Replica
  <2> QED
    BY <1>2, <2>1 DEF TypeOK, Elect, chosen, Replica
<1>3. ASSUME NEW r \in Replica, Dies(r)
      PROVE  TypeOK'
  BY <1>3, GoType DEF Dies
<1>4. ASSUME NEW n \in Nodes, Reboots(n)
      PROVE  TypeOK'
  BY <1>4, GoType DEF Reboots
<1>5. ASSUME NEW s \in Sidecars, LosesLease(s)
      PROVE  TypeOK'
  <2>1. 0 \in 0 .. Replicas(ctl)
    BY HasReplica DEF TypeOK
  <2>2. calls' \subseteq {r \in Replica : node[r] # None}
    BY <1>5 DEF LosesLease, TypeOK
  <2>3. leader' \in [Sidecars -> 0 .. Replicas(ctl)]
    BY <1>5, <2>1 DEF LosesLease, TypeOK
  <2>4. \A t \in Sidecars : leader'[t] # 0 => node[leader'[t]] # None
    BY <1>5 DEF LosesLease, TypeOK
  <2>5. trouble' \in Nat
    BY <1>5 DEF LosesLease, TypeOK
  <2> QED
    BY <1>5, <2>2, <2>3, <2>4, <2>5 DEF TypeOK, LosesLease, chosen, Replica
<1>6. ASSUME NEW r \in Replica, StartCreate(r)
      PROVE  TypeOK'
  BY <1>6 DEF TypeOK, StartCreate, Works, chosen, control, Replica
<1>7. ASSUME NEW r \in Replica, Creates(r)
      PROVE  TypeOK'
  BY <1>7 DEF TypeOK, Creates, ZonesAllowed, chosen, control, Replica
<1>8. ASSUME NEW r \in Replica, Save(r)
      PROVE  TypeOK'
  BY <1>8 DEF TypeOK, Save, chosen, control, Replica
<1>9. ASSUME NEW r \in Replica, CallFails(r)
      PROVE  TypeOK'
  BY <1>9 DEF TypeOK, CallFails, chosen, control, Replica
<1>10. ASSUME NEW r \in Replica, Attach(r) \/ Detach(r)
       PROVE  TypeOK'
  BY <1>10 DEF TypeOK, Attach, Detach, chosen, control, Replica
<1>11. ASSUME NEW r \in Replica, DeleteVolume(r) \/ DeletePV(r)
       PROVE  TypeOK'
  BY <1>11 DEF TypeOK, DeleteVolume, DeletePV, chosen, control, Replica
<1>12. ASSUME NEW r \in Replica, TakeSnapshot(r) \/ MarkReady(r)
       PROVE  TypeOK'
  BY <1>12 DEF TypeOK, TakeSnapshot, MarkReady, chosen, control, Replica
<1>13. CASE AddPod \/ Run \/ DeleteClaim \/ RequestSnapshot
  BY <1>13 DEF TypeOK, AddPod, Run, DeleteClaim, RequestSnapshot, chosen, control, Replica
<1>14. CASE UNCHANGED vars
  BY <1>14 DEF TypeOK, vars, Replica
<1> QED
  BY <1>1, <1>2, <1>3, <1>4, <1>5, <1>6, <1>7, <1>8, <1>9, <1>10, <1>11, <1>12, <1>13, <1>14
     DEF Next

\* Only running replicas hold leases and make calls, for every spec.controller.
THEOREM TypeCorrect == Spec => []TypeOK
<1>1. Init => TypeOK
  <2> SUFFICES ASSUME Init
               PROVE  TypeOK
    OBVIOUS
  <2>1. 1 \in Replica /\ 0 \in 0 .. Replicas(ctl)
    BY HasReplica DEF Init
  <2>2. node \in [Replica -> Nodes \cup {None}] /\ leader \in [Sidecars -> 0 .. Replicas(ctl)]
    BY <2>1 DEF Init
  <2>3. \A s \in Sidecars : leader[s] = 0
    BY DEF Init
  <2>4. trouble \in Nat
    BY ProvisioningAssumption DEF Init, ProvisioningAssumption
  <2> QED
    BY <2>1, <2>2, <2>3, <2>4 DEF Init, TypeOK
<1> QED
  BY <1>1, ProvisioningType, PTL DEF Spec

-----------------------------------------------------------------------------

\* Every call is one of the replica that leads.
CallsOfLeader == \A r \in calls : leader["provisioner"] = r

\* Both controllers elect their provisioners.
LEMMA ProvisionersElect ==
    /\ "provisioner" \in Sidecars
    /\ \A d : "provisioner" \in Template(d).elects
  BY DEF Sidecars, Template, DiskController, NASController

\* Every step keeps the calls with the leader.
LEMMA CallsStayWithLeader ==
    TypeOK /\ CallsOfLeader /\ [Next]_vars => CallsOfLeader'
<1> SUFFICES ASSUME TypeOK, CallsOfLeader, [Next]_vars
             PROVE  CallsOfLeader'
  OBVIOUS
<1>1. ASSUME NEW r \in Replica, NEW s \in Sidecars, Elect(s, r)
      PROVE  CallsOfLeader'
  <2>1. CASE s = "provisioner"
    <3>1. calls = {}
      <4>1. leader["provisioner"] = 0
        BY <1>1, <2>1 DEF Elect
      <4>2. 0 \notin calls
        BY HasReplica DEF TypeOK
      <4> QED
        BY <4>1, <4>2 DEF CallsOfLeader
    <3> QED
      BY <1>1, <3>1 DEF Elect, CallsOfLeader
  <2>2. CASE s # "provisioner"
    BY <1>1, <2>2, ProvisionersElect DEF Elect, CallsOfLeader, TypeOK
  <2> QED
    BY <2>1, <2>2
<1>2. ASSUME NEW R, Go(R)
      PROVE  CallsOfLeader'
  BY <1>2, ProvisionersElect DEF Go, CallsOfLeader
<1>3. ASSUME NEW s \in Sidecars, LosesLease(s)
      PROVE  CallsOfLeader'
  <2>1. CASE s = "provisioner"
    <3>1. calls' = {}
      BY <1>3, <2>1 DEF LosesLease, CallsOfLeader
    <3> QED
      BY <3>1 DEF CallsOfLeader
  <2>2. CASE s # "provisioner"
    BY <1>3, <2>2, ProvisionersElect DEF LosesLease, CallsOfLeader, TypeOK
  <2> QED
    BY <2>1, <2>2
<1>4. ASSUME NEW r \in Replica, StartCreate(r)
      PROVE  CallsOfLeader'
  <2>1. leader["provisioner"] = r
    BY <1>4, ProvisionersElect DEF StartCreate, Works
  <2> QED
    BY <1>4, <2>1 DEF StartCreate, CallsOfLeader, control
<1>5. ASSUME NEW r \in Replica, Save(r) \/ CallFails(r)
      PROVE  CallsOfLeader'
  BY <1>5 DEF Save, CallFails, CallsOfLeader, control
<1>6. ASSUME NEW r \in Replica, Creates(r) \/ Attach(r) \/ Detach(r)
      PROVE  CallsOfLeader'
  BY <1>6 DEF Creates, Attach, Detach, CallsOfLeader, control
<1>7. ASSUME NEW r \in Replica,
             DeleteVolume(r) \/ DeletePV(r) \/ TakeSnapshot(r) \/ MarkReady(r)
      PROVE  CallsOfLeader'
  BY <1>7 DEF DeleteVolume, DeletePV, TakeSnapshot, MarkReady, CallsOfLeader, control
<1>8. ASSUME NEW r \in Replica, Place(r)
      PROVE  CallsOfLeader'
  BY <1>8 DEF Place, CallsOfLeader
<1>9. CASE AddPod \/ Run \/ DeleteClaim \/ RequestSnapshot
  BY <1>9 DEF AddPod, Run, DeleteClaim, RequestSnapshot, CallsOfLeader, control
<1>10. CASE UNCHANGED vars
  BY <1>10 DEF vars, CallsOfLeader
<1> QED
  BY <1>1, <1>2, <1>3, <1>4, <1>5, <1>6, <1>7, <1>8, <1>9, <1>10 DEF Next, Dies, Reboots

\* Two replicas never have a call for one claim under way, however many there are.
THEOREM ProvisionsAlone == Spec => []OneProvisioner
<1>1. Init => CallsOfLeader
  BY DEF Init, CallsOfLeader
<1>2. CallsOfLeader => OneProvisioner
  BY DEF CallsOfLeader, OneProvisioner
<1> QED
  BY <1>1, <1>2, CallsStayWithLeader, TypeCorrect, PTL DEF Spec

-----------------------------------------------------------------------------

\* The driver accepts the parameters of a class just if none of its fields were
\* reported missing.
LEMMA MissingIsWhatDriverNeeds ==
    ASSUME NEW k \in NASClasses
    PROVE  Accepts(NASParameters(k)) <=> Missing(k) = {}
<1>1. k.set \subseteq Network \cup {"server", "storageType"}
  BY DEF NASClasses
<1>2. Network \cap {"fileSystemType", "storageType", "server", "mountType"} = {}
  BY DEF Network
<1>3. Mode(k) \in {"filesystem", "subpath"}
  BY DEF NASClasses, Mode
<1>4. CASE Mode(k) = "subpath"
  BY <1>1, <1>4 DEF Accepts, NASParameters, Missing
<1>5. CASE Mode(k) = "filesystem"
  BY <1>1, <1>2, <1>5 DEF Accepts, NASParameters, Missing
<1> QED
  BY <1>3, <1>4, <1>5

\* A volume is one the driver could create, a disk where its pod is, and only what
\* was created is bound.
VolumeSound ==
    /\ volume # None => CanCreate
    /\ DisksNearTheirPods
    /\ pv => CanCreate

\* Every step keeps volumes sound.
LEMMA VolumesStaySound == VolumeSound /\ [Next]_vars => VolumeSound'
<1> SUFFICES ASSUME VolumeSound, [Next]_vars
             PROVE  VolumeSound'
  OBVIOUS
<1> USE DEF VolumeSound, DisksNearTheirPods, CanCreate, Driver, chosen, control
<1>1. ASSUME NEW r \in Replica, Creates(r)
      PROVE  VolumeSound'
  <2>1. Driver = "disk" => ZonesAllowed = {room}
    BY DEF ZonesAllowed, Template, DiskController, StorageClass, DiskStorageClass
  <2> QED
    BY <1>1, <2>1 DEF Creates
<1>2. ASSUME NEW r \in Replica, Save(r)
      PROVE  VolumeSound'
  BY <1>2 DEF Save
<1>3. ASSUME NEW r \in Replica, DeleteVolume(r) \/ DeletePV(r)
      PROVE  VolumeSound'
  BY <1>3 DEF DeleteVolume, DeletePV
<1>4. ASSUME NEW r \in Replica, StartCreate(r) \/ CallFails(r) \/ Attach(r) \/ Detach(r)
      PROVE  VolumeSound'
  BY <1>4 DEF StartCreate, CallFails, Attach, Detach
<1>5. ASSUME NEW r \in Replica, Place(r) \/ TakeSnapshot(r) \/ MarkReady(r)
      PROVE  VolumeSound'
  BY <1>5 DEF Place, TakeSnapshot, MarkReady
<1>6. ASSUME NEW r, NEW s, Elect(s, r) \/ LosesLease(s)
      PROVE  VolumeSound'
  BY <1>6 DEF Elect, LosesLease
<1>7. ASSUME NEW R, Go(R)
      PROVE  VolumeSound'
  BY <1>7 DEF Go
<1>8. CASE AddPod \/ Run \/ DeleteClaim \/ RequestSnapshot
  BY <1>8 DEF AddPod, Run, DeleteClaim, RequestSnapshot
<1>9. CASE UNCHANGED vars
  BY <1>9 DEF vars
<1> QED
  BY <1>1, <1>2, <1>3, <1>4, <1>5, <1>6, <1>7, <1>8, <1>9 DEF Next, Dies, Reboots

\* Volumes are sound at all times.
LEMMA VolumesSound == Spec => []VolumeSound
<1>1. Init => VolumeSound
  BY DEF Init, VolumeSound, DisksNearTheirPods
<1> QED
  BY <1>1, VolumesStaySound, PTL DEF Spec

\* A disk is made in the zone of the pod that waits for it, whatever the zones.
THEOREM DisksNear == Spec => []DisksNearTheirPods
<1>1. VolumeSound => DisksNearTheirPods
  BY DEF VolumeSound
<1> QED
  BY <1>1, VolumesSound, PTL

\* A class of which a field was reported missing provisions nothing, and the report
\* names just what the driver lacks.
THEOREM BoundComplete == Spec => []BoundMeansComplete
<1>1. TypeOK /\ VolumeSound => BoundMeansComplete
  <2> SUFFICES ASSUME TypeOK, VolumeSound, pv, Driver = "nas"
               PROVE  Missing(class) = {}
    BY DEF BoundMeansComplete, Complete
  <2>1. class \in NASClasses
    <3>1. class \in DiskClasses \cup NASClasses
      BY ProvisioningAssumption DEF ProvisioningAssumption, TypeOK
    <3>2. \A k \in DiskClasses : k.driver = "disk"
      BY DEF DiskClasses
    <3> QED
      BY <3>1, <3>2 DEF Driver
  <2>2. Accepts(NASParameters(class))
    BY DEF VolumeSound, CanCreate
  <2> QED
    BY <2>1, <2>2, MissingIsWhatDriverNeeds
<1> QED
  BY <1>1, VolumesSound, TypeCorrect, PTL

-----------------------------------------------------------------------------
(* The volume lives as VolumeLife says.                                     *)

\* No call is out for a claim that is bound or deleted.
CallsBeforeBound == pv \/ deleted => calls = {}

\* A bound claim has its volume, a deleted one no volume without a record.
RecordOfVolume ==
    /\ pv /\ ~deleted => volume # None
    /\ deleted /\ ~pv => volume = None

\* A pod that runs has a claim that is bound; one that is gone has taken the claim along.
PodHasClaim ==
    /\ deleted <=> pod = "gone"
    /\ pod = "running" => pv

LifeInv == CallsBeforeBound /\ RecordOfVolume /\ PodHasClaim

\* Of the calls of the leader there is one at most.
LEMMA OneCall ==
    ASSUME CallsOfLeader, NEW r \in calls
    PROVE  calls = {r}
  BY DEF CallsOfLeader

\* Every step keeps the invariant.
LEMMA LifeStep == TypeOK /\ CallsOfLeader /\ LifeInv /\ [Next]_vars => LifeInv'
<1> SUFFICES ASSUME TypeOK, CallsOfLeader, LifeInv, [Next]_vars
             PROVE  LifeInv'
  OBVIOUS
<1> USE DEF LifeInv, CallsBeforeBound, RecordOfVolume, PodHasClaim, chosen, control
<1>1. ASSUME NEW r \in Replica, StartCreate(r)
      PROVE  LifeInv'
  BY <1>1 DEF StartCreate
<1>2. ASSUME NEW r \in Replica, Creates(r)
      PROVE  LifeInv'
  <2>1. ~pv /\ ~deleted
    BY <1>2 DEF Creates
  <2> QED
    BY <1>2, <2>1 DEF Creates
<1>3. ASSUME NEW r \in Replica, Save(r)
      PROVE  LifeInv'
  <2>1. calls' = {}
    BY <1>3, OneCall DEF Save
  <2>2. ~pv /\ ~deleted
    BY <1>3 DEF Save
  <2> QED
    BY <1>3, <2>1, <2>2 DEF Save
<1>4. ASSUME NEW r \in Replica, CallFails(r)
      PROVE  LifeInv'
  BY <1>4 DEF CallFails
<1>5. ASSUME NEW r \in Replica, DeleteVolume(r) \/ DeletePV(r)
      PROVE  LifeInv'
  BY <1>5 DEF DeleteVolume, DeletePV
<1>6. ASSUME NEW r \in Replica,
             Attach(r) \/ Detach(r) \/ TakeSnapshot(r) \/ MarkReady(r) \/ Place(r)
      PROVE  LifeInv'
  BY <1>6 DEF Attach, Detach, TakeSnapshot, MarkReady, Place
<1>7. ASSUME NEW r, NEW s, Elect(s, r)
      PROVE  LifeInv'
  BY <1>7 DEF Elect
<1>8. ASSUME NEW s, LosesLease(s)
      PROVE  LifeInv'
  <2>1. calls' \subseteq calls
    BY <1>8 DEF LosesLease
  <2> QED
    BY <1>8, <2>1 DEF LosesLease
<1>9. ASSUME NEW R, Go(R)
      PROVE  LifeInv'
  BY <1>9 DEF Go
<1>10. CASE AddPod \/ Run \/ DeleteClaim \/ RequestSnapshot
  BY <1>10 DEF AddPod, Run, DeleteClaim, RequestSnapshot, TypeOK
<1>11. CASE UNCHANGED vars
  BY <1>11 DEF vars
<1> QED
  BY <1>1, <1>2, <1>3, <1>4, <1>5, <1>6, <1>7, <1>8, <1>9, <1>10, <1>11 DEF Next, Dies, Reboots

\* A claim nobody has acted on has no volume.
LEMMA LifeInit == Init => Life!Init
<1> SUFFICES ASSUME Init
             PROVE  Life!Init
  OBVIOUS
<1>1. StorageClass(class).reclaim \in {"Delete", "Retain"}
  BY DEF StorageClass, DiskStorageClass, NASStorageClass, Reclaim
<1>2. Phase = "none" /\ volume = None /\ (pod = "running") = FALSE
  BY DEF Init, Phase
<1> QED
  BY <1>1, <1>2 DEF Life!Init

\* A step that touches neither the volume, its record nor the claim, and starts or stops no
\* pod, is none in the life of the volume.
LEMMA NoLife ==
    ASSUME UNCHANGED <<class, volume, pv, deleted>>, pod' = "running" <=> pod = "running"
    PROVE  UNCHANGED Life!lvars
<1>1. StorageClass(class)' = StorageClass(class)
  BY DEF StorageClass, DiskStorageClass, NASStorageClass, Reclaim
<1>2. Phase' = Phase /\ volume' = volume /\ (pod = "running")' = (pod = "running")
  BY DEF Phase
<1> QED
  BY <1>1, <1>2 DEF Life!lvars

\* Every step is one of VolumeLife or none.
LEMMA LifeRefines ==
    TypeOK /\ CallsOfLeader /\ LifeInv /\ [Next]_vars => [Life!Next]_(Life!lvars)
<1> SUFFICES ASSUME TypeOK, CallsOfLeader, LifeInv, [Next]_vars
             PROVE  Life!Next \/ UNCHANGED Life!lvars
  OBVIOUS
<1> DEFINE policy == StorageClass(class).reclaim
<1>1. class' = class => policy' = policy
  BY DEF StorageClass, DiskStorageClass, NASStorageClass, Reclaim
<1> HIDE DEF policy
<1> USE DEF LifeInv, CallsBeforeBound, RecordOfVolume, PodHasClaim, chosen, control
<1>2. ASSUME NEW r \in Replica, Creates(r)
      PROVE  Life!Make
  <2>1. ~pv /\ ~deleted /\ volume = None
    BY <1>2 DEF Creates
  <2>2. volume' \in Zones /\ volume' # None
    BY <1>2, ProvisioningAssumption DEF Creates, ZonesAllowed, TypeOK, ProvisioningAssumption
  <2>3. UNCHANGED <<class, pv, deleted, pod>>
    BY <1>2 DEF Creates
  <2>4. Phase = "none" /\ Phase' = "made" /\ policy' = policy
    BY <1>1, <2>1, <2>2, <2>3 DEF Phase
  <2> QED
    BY <2>2, <2>3, <2>4 DEF Life!Make, Life!Goes, policy
<1>3. ASSUME NEW r \in Replica, Save(r)
      PROVE  Life!Bind
  <2>1. ~pv /\ ~deleted /\ volume # None /\ pv'
    BY <1>3 DEF Save
  <2>2. UNCHANGED <<class, volume, deleted, pod>>
    BY <1>3 DEF Save
  <2>3. Phase = "made" /\ Phase' = "bound" /\ policy' = policy
    BY <1>1, <2>1, <2>2 DEF Phase
  <2> QED
    BY <2>2, <2>3 DEF Life!Bind, Life!Goes, policy
<1>4. ASSUME Run
      PROVE  Life!Use
  <2>1. pv /\ ~deleted /\ pod = "waiting" /\ pod' = "running"
    BY <1>4 DEF Run
  <2>2. UNCHANGED <<class, volume, pv, deleted>>
    BY <1>4 DEF Run
  <2>3. Phase = "bound" /\ Phase' = Phase /\ policy' = policy
    BY <1>1, <2>1, <2>2 DEF Phase
  <2> QED
    BY <2>1, <2>2, <2>3 DEF Life!Use, policy
<1>5. ASSUME DeleteClaim
      PROVE  Life!Release
  <2>1. pv /\ ~deleted /\ volume # None /\ deleted' /\ pod' = "gone"
    BY <1>5 DEF DeleteClaim
  <2>2. UNCHANGED <<class, volume, pv>>
    BY <1>5 DEF DeleteClaim
  <2>3. Phase = "bound" /\ Phase' = "released" /\ policy' = policy
    BY <1>1, <2>1, <2>2 DEF Phase
  <2> QED
    BY <2>1, <2>2, <2>3 DEF Life!Release, Life!Goes, policy
<1>6. ASSUME NEW r \in Replica, DeleteVolume(r)
      PROVE  Life!Remove
  <2>1. pv /\ deleted /\ volume # None /\ volume' = None /\ policy = "Delete"
    BY <1>6 DEF DeleteVolume, policy
  <2>2. UNCHANGED <<class, pv, deleted, pod>>
    BY <1>6 DEF DeleteVolume
  <2>3. Phase = "released" /\ Phase' = "removed" /\ policy' = policy
    BY <1>1, <2>1, <2>2 DEF Phase
  <2> QED
    BY <2>1, <2>2, <2>3 DEF Life!Remove, Life!Goes, policy
<1>7. ASSUME NEW r \in Replica, DeletePV(r)
      PROVE  Life!Forget
  <2>1. pv /\ deleted /\ volume = None /\ ~pv'
    BY <1>7 DEF DeletePV
  <2>2. UNCHANGED <<class, volume, deleted, pod>>
    BY <1>7 DEF DeletePV
  <2>3. Phase = "removed" /\ Phase' = "gone" /\ policy' = policy
    BY <1>1, <2>1, <2>2 DEF Phase
  <2> QED
    BY <2>2, <2>3 DEF Life!Forget, Life!Goes, policy
<1>8. ASSUME NEW r \in Replica,
             \/ Place(r) \/ StartCreate(r) \/ CallFails(r) \/ Attach(r) \/ Detach(r)
             \/ TakeSnapshot(r) \/ MarkReady(r)
      PROVE  UNCHANGED Life!lvars
  BY <1>8, NoLife DEF Place, StartCreate, CallFails, Attach, Detach, TakeSnapshot, MarkReady
<1>9. ASSUME NEW r, NEW s, Elect(s, r) \/ LosesLease(s)
      PROVE  UNCHANGED Life!lvars
  BY <1>9, NoLife DEF Elect, LosesLease
<1>10. ASSUME NEW R, Go(R)
       PROVE  UNCHANGED Life!lvars
  BY <1>10, NoLife DEF Go
<1>11. CASE AddPod \/ RequestSnapshot \/ UNCHANGED vars
  BY <1>11, NoLife DEF AddPod, RequestSnapshot, vars
<1> QED
  BY <1>2, <1>3, <1>4, <1>5, <1>6, <1>7, <1>8, <1>9, <1>10, <1>11
     DEF Next, Dies, Reboots, Life!Next

\* The claim gets one volume, which is there while it is bound and stays or goes as its
\* class says: for every controller, any number of replicas and any trouble.
THEOREM Implements == Spec => ImplementsVolumeLife
<1>1. Init => CallsOfLeader /\ LifeInv
  BY DEF Init, CallsOfLeader, LifeInv, CallsBeforeBound, RecordOfVolume, PodHasClaim
<1> QED
  BY <1>1, LifeInit, LifeRefines, LifeStep, CallsStayWithLeader, TypeCorrect, PTL
     DEF Spec, ImplementsVolumeLife, Life!Spec
=============================================================================
