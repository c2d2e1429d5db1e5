------------------------------ MODULE DriverPlan -----------------------------
(***************************************************************************)
(* What one reconcile writes for a spec, in the order it writes it: the     *)
(* steps of ensureRBAC, ensureDiskDriver and ensureNASDriver.               *)
(*                                                                          *)
(* A step names the helper that carries it out, the object and the content  *)
(* the spec asks of it.  Content keeps only what the properties tell apart: *)
(* the default-class annotation of a StorageClass, and for a Deployment or  *)
(* a DaemonSet the spec fields its template is built from (params).         *)
(***************************************************************************)
EXTENDS Naturals, Sequences

CONSTANTS
    ClassNames,     \* names a user may give to StorageClasses
    SnapNames,      \* names a user may give to VolumeSnapshotClasses
    DefaultSnap,    \* defaultDiskSnapClassName
    NoName,         \* a name field left empty
    Params          \* values of the fields the workload templates depend on

ASSUME PlanAssumption == DefaultSnap \in SnapNames /\ NoName \notin SnapNames

-----------------------------------------------------------------------------
(* The spec of the CR, as far as the plan depends on it. *)

SnapshotConfigs == [enabled : BOOLEAN, className : SnapNames \cup {NoName}]

DiskSpecs == [enabled : BOOLEAN, defaultClass : BOOLEAN,
              classes : Seq(ClassNames), snapshot : SnapshotConfigs, patch : BOOLEAN]

NASSpecs == [enabled : BOOLEAN, classes : Seq(ClassNames), patch : BOOLEAN]

CRSpecs == [disk : DiskSpecs, nas : NASSpecs, params : Params]

-----------------------------------------------------------------------------
(* Steps. *)

\* How a step is carried out: createOrAdopt, createOrUpdate, the Create of
\* ensureVolumeSnapshotClass, the Patch of ensureStorageProfile, the choice of
\* admission backend at the end of ensureRBAC, or an early return because the
\* spec turns the step off.
Ops == {"adopt", "replace", "create", "patch", "admission", "off"}

Names == {"shared", "disk", "nas"} \cup ClassNames \cup SnapNames

Kinds == {"ServiceAccount", "ClusterRole", "ClusterRoleBinding", "SCCBinding",
          "CSIDriver", "Deployment", "DaemonSet", "StorageClass",
          "VolumeSnapshotClass", "StorageProfile"}

ObjIds == Kinds \X Names

Data == {"old", "current", "default", "plain", "diskClaims", "nasClaims"} \cup Params

Steps == [op : Ops, id : ObjIds, data : Data, snap : SnapNames \cup {NoName}]

Step(op, kind, name, data) ==
    [op |-> op, id |-> <<kind, name>>, data |-> data, snap |-> NoName]

\* ensureStorageProfile: the profile of a StorageClass has its name.
ProfileStep(op, name, claims, snap) ==
    [op |-> op, id |-> <<"StorageProfile", name>>, data |-> claims, snap |-> snap]

-----------------------------------------------------------------------------
(* The plan. *)

RBACPlan ==
    << Step("adopt", "ServiceAccount", "shared", "current"),
       Step("adopt", "ClusterRole", "shared", "current"),
       Step("adopt", "ClusterRoleBinding", "shared", "current"),
       Step("admission", "SCCBinding", "shared", "current") >>

\* CSIDriver, controller Deployment and node DaemonSet, in this order for both
\* drivers.
ComponentPlan(driver, params) ==
    << Step("adopt", "CSIDriver", driver, "current"),
       Step("replace", "Deployment", driver, params),
       Step("replace", "DaemonSet", driver, params) >>

\* ensureVolumeSnapshotClass.
SnapshotClassStep(cfg) ==
    Step(IF cfg.enabled THEN "create" ELSE "off",
         "VolumeSnapshotClass",
         IF cfg.className = NoName THEN DefaultSnap ELSE cfg.className,
         "current")

\* The class the StorageProfiles name: the configured one, and the default one
\* only when snapshots are on.
LinkedSnapshotClass(cfg) ==
    IF cfg.enabled /\ cfg.className = NoName THEN DefaultSnap ELSE cfg.className

\* Mutant: a StorageClass that exists is replaced.
ClassPlanReplaces(classes, hasDefault, patch, claims, snap) ==
    [i \in 1 .. 2 * Len(classes) |->
        LET k == (i + 1) \div 2
        IN  IF i % 2 = 1
            THEN Step("replace", "StorageClass", classes[k],
                      IF hasDefault /\ k = 1 THEN "default" ELSE "plain")
            ELSE ProfileStep(IF patch THEN "patch" ELSE "off", classes[k], claims, snap)]

\* The loop over the classes of a driver: the StorageClass of each, then its
\* StorageProfile.
ClassPlan(classes, hasDefault, patch, claims, snap) ==
    [i \in 1 .. 2 * Len(classes) |->
        LET k == (i + 1) \div 2
        IN  IF i % 2 = 1
            THEN Step("adopt", "StorageClass", classes[k],
                      IF hasDefault /\ k = 1 THEN "default" ELSE "plain")
            ELSE ProfileStep(IF patch THEN "patch" ELSE "off", classes[k], claims, snap)]

\* Mutant: the StorageProfiles are patched before the class they name is made.
DiskPlanLinksFirst(spec) ==
    IF spec.disk.enabled
    THEN ComponentPlan("disk", spec.params)
           \o ClassPlan(spec.disk.classes, spec.disk.defaultClass, spec.disk.patch,
                        "diskClaims", LinkedSnapshotClass(spec.disk.snapshot))
           \o << SnapshotClassStep(spec.disk.snapshot) >>
    ELSE << >>

DiskPlan(spec) ==
    IF spec.disk.enabled
    THEN ComponentPlan("disk", spec.params)
           \o << SnapshotClassStep(spec.disk.snapshot) >>
           \o ClassPlan(spec.disk.classes, spec.disk.defaultClass, spec.disk.patch,
                        "diskClaims", LinkedSnapshotClass(spec.disk.snapshot))
    ELSE << >>

\* The NAS driver has no snapshot class, and its first class is no default.
NASPlan(spec) ==
    IF spec.nas.enabled
    THEN ComponentPlan("nas", spec.params)
           \o ClassPlan(spec.nas.classes, FALSE, spec.nas.patch, "nasClaims", NoName)
    ELSE << >>

\* Mutant: the shared objects come last.
PlanSharedLast(spec) == DiskPlan(spec) \o NASPlan(spec) \o RBACPlan

Plan(spec) == RBACPlan \o DiskPlan(spec) \o NASPlan(spec)

\* How many steps are behind when the disk driver's part is complete.
DiskDone(spec) == Len(RBACPlan) + Len(DiskPlan(spec))

\* The objects createOrUpdate writes.
Workloads == {"Deployment", "DaemonSet"}

\* The objects a plan leaves in the cluster under the CR.
OwnedOps == {"adopt", "replace"}
=============================================================================
