--------------------------- MODULE ReconcilerProofs --------------------------
(***************************************************************************)
(* The reconcile loop for any specs, any incarnations of the CR, any        *)
(* leftovers and any amount of trouble: type correctness, that what a       *)
(* reconcile has done stays done, that Available means in place, that a     *)
(* second CR does not lose its workloads, and that nothing but workloads is *)
(* ever replaced.                                                           *)
(***************************************************************************)
EXTENDS Reconciler, TLAPS, SequenceTheorems

-----------------------------------------------------------------------------
(* The plan. *)

\* What the steps of a plan have in common: only the workloads are replaced, and
\* with the parameters of the spec; only StorageProfiles are patched.
PlanSteps(spec) ==
    {s \in Steps :
        /\ s.op = "replace" <=> s.id[1] \in Workloads
        /\ s.op = "replace" => s.data = spec.params
        /\ s.op = "patch" => s.data \in {"diskClaims", "nasClaims"}}

\* The parts of a plan, one after the other, are a sequence of what they hold.
LEMMA ConcatType ==
    ASSUME NEW S, NEW s \in Seq(S), NEW t \in Seq(S)
    PROVE  s \o t \in Seq(S)
  OBVIOUS

\* The loop over a driver's classes yields adopting and patching steps only.
LEMMA ClassPlanType ==
    ASSUME NEW spec, NEW classes \in Seq(ClassNames), NEW hasDefault \in BOOLEAN,
           NEW patch \in BOOLEAN, NEW claims \in {"diskClaims", "nasClaims"},
           NEW snap \in SnapNames \cup {NoName}
    PROVE  ClassPlan(classes, hasDefault, patch, claims, snap) \in Seq(PlanSteps(spec))
<1>1. ASSUME NEW i \in 1 .. 2 * Len(classes)
      PROVE  classes[(i + 1) \div 2] \in ClassNames
  <2>1. (i + 1) \div 2 \in 1 .. Len(classes)
    OBVIOUS
  <2> QED
    BY <2>1
<1>2. ASSUME NEW name \in ClassNames, NEW data \in {"default", "plain"}
      PROVE  Step("adopt", "StorageClass", name, data) \in PlanSteps(spec)
  BY <1>2 DEF Step, PlanSteps, Steps, Ops, ObjIds, Kinds, Names, Data, Workloads
<1>3. ASSUME NEW name \in ClassNames, NEW op \in {"patch", "off"}
      PROVE  ProfileStep(op, name, claims, snap) \in PlanSteps(spec)
  BY <1>3 DEF ProfileStep, PlanSteps, Steps, Ops, ObjIds, Kinds, Names, Data, Workloads
<1>4. ASSUME NEW i \in 1 .. 2 * Len(classes)
      PROVE  ClassPlan(classes, hasDefault, patch, claims, snap)[i] \in PlanSteps(spec)
  <2>1. CASE i % 2 = 1
    BY <1>1, <1>2, <2>1 DEF ClassPlan
  <2>2. CASE i % 2 # 1
    BY <1>1, <1>3, <2>2 DEF ClassPlan
  <2> QED
    BY <2>1, <2>2
<1>5. /\ ClassPlan(classes, hasDefault, patch, claims, snap)
           = [i \in 1 .. 2 * Len(classes) |->
                ClassPlan(classes, hasDefault, patch, claims, snap)[i]]
      /\ 2 * Len(classes) \in Nat
  BY DEF ClassPlan
<1> QED
  BY <1>4, <1>5

\* The steps of a driver: its CSIDriver is adopted, its workloads are replaced with the
\* parameters of the spec.
LEMMA ComponentPlanType ==
    ASSUME NEW spec \in CRSpecs, NEW driver \in {"disk", "nas"}
    PROVE  ComponentPlan(driver, spec.params) \in Seq(PlanSteps(spec))
<1>1. spec.params \in Params
  BY DEF CRSpecs
<1>2. \A op \in {"adopt", "replace"} : \A kind \in {"CSIDriver", "Deployment", "DaemonSet"} :
         \A data \in {"current", spec.params} :
            /\ op = "replace" <=> kind \in Workloads
            /\ op = "replace" => data = spec.params
            => Step(op, kind, driver, data) \in PlanSteps(spec)
  BY <1>1 DEF Step, PlanSteps, Steps, Ops, ObjIds, Kinds, Names, Data, Workloads
<1>3. /\ Step("adopt", "CSIDriver", driver, "current") \in PlanSteps(spec)
      /\ Step("replace", "Deployment", driver, spec.params) \in PlanSteps(spec)
      /\ Step("replace", "DaemonSet", driver, spec.params) \in PlanSteps(spec)
  BY <1>2 DEF Workloads
<1> QED
  BY <1>3 DEF ComponentPlan

\* The shared steps replace nothing.
LEMMA RBACPlanType ==
    ASSUME NEW spec
    PROVE  RBACPlan \in Seq(PlanSteps(spec)) /\ Len(RBACPlan) = 4
<1>1. /\ Step("adopt", "ServiceAccount", "shared", "current") \in PlanSteps(spec)
      /\ Step("adopt", "ClusterRole", "shared", "current") \in PlanSteps(spec)
      /\ Step("adopt", "ClusterRoleBinding", "shared", "current") \in PlanSteps(spec)
      /\ Step("admission", "SCCBinding", "shared", "current") \in PlanSteps(spec)
  BY DEF Step, PlanSteps, Steps, Ops, ObjIds, Kinds, Names, Data, Workloads
<1> QED
  BY <1>1 DEF RBACPlan

\* Every plan is a sequence of such steps, and begins with the shared RBAC.
LEMMA PlanType ==
    ASSUME NEW spec \in CRSpecs
    PROVE  /\ Plan(spec) \in Seq(PlanSteps(spec))
           /\ Len(Plan(spec)) >= 4
           /\ \A i \in 1 .. 4 : Plan(spec)[i] = RBACPlan[i]
           /\ DiskDone(spec) \in Nat /\ DiskDone(spec) <= Len(Plan(spec))
<1>1. DiskPlan(spec) \in Seq(PlanSteps(spec))
  <2>1. CASE spec.disk.enabled
    <3>1. /\ spec.disk.snapshot \in SnapshotConfigs
          /\ spec.disk.classes \in Seq(ClassNames)
          /\ spec.disk.defaultClass \in BOOLEAN /\ spec.disk.patch \in BOOLEAN
      BY DEF CRSpecs, DiskSpecs
    <3>2. SnapshotClassStep(spec.disk.snapshot) \in PlanSteps(spec)
      <4>1. (IF spec.disk.snapshot.className = NoName THEN DefaultSnap
             ELSE spec.disk.snapshot.className) \in SnapNames
        BY <3>1, PlanAssumption DEF SnapshotConfigs, PlanAssumption
      <4> QED
        BY <4>1 DEF SnapshotClassStep, Step, PlanSteps, Steps, Ops, ObjIds, Kinds, Names,
                    Data, Workloads
    <3>3. LinkedSnapshotClass(spec.disk.snapshot) \in SnapNames \cup {NoName}
      BY <3>1, PlanAssumption DEF LinkedSnapshotClass, SnapshotConfigs, PlanAssumption
    <3>4. <<SnapshotClassStep(spec.disk.snapshot)>> \in Seq(PlanSteps(spec))
      BY <3>2
    <3>5. ClassPlan(spec.disk.classes, spec.disk.defaultClass, spec.disk.patch,
                    "diskClaims", LinkedSnapshotClass(spec.disk.snapshot))
             \in Seq(PlanSteps(spec))
      BY <3>1, <3>3, ClassPlanType
    <3>6. ComponentPlan("disk", spec.params) \o <<SnapshotClassStep(spec.disk.snapshot)>>
             \in Seq(PlanSteps(spec))
      BY <3>4, ComponentPlanType, ConcatType
    <3> QED
      BY <2>1, <3>5, <3>6, ConcatType DEF DiskPlan
  <2>2. CASE ~spec.disk.enabled
    BY <2>2 DEF DiskPlan
  <2> QED
    BY <2>1, <2>2
<1>2. NASPlan(spec) \in Seq(PlanSteps(spec))
  <2>1. CASE spec.nas.enabled
    <3>1. spec.nas.classes \in Seq(ClassNames) /\ spec.nas.patch \in BOOLEAN
      BY DEF CRSpecs, NASSpecs
    <3>2. ClassPlan(spec.nas.classes, FALSE, spec.nas.patch, "nasClaims", NoName)
             \in Seq(PlanSteps(spec))
      BY <3>1, ClassPlanType
    <3> QED
      BY <2>1, <3>2, ComponentPlanType, ConcatType DEF NASPlan
  <2>2. CASE ~spec.nas.enabled
    BY <2>2 DEF NASPlan
  <2> QED
    BY <2>1, <2>2
<1>3. RBACPlan \o DiskPlan(spec) \in Seq(PlanSteps(spec))
  BY <1>1, RBACPlanType, ConcatType
<1>4. Plan(spec) \in Seq(PlanSteps(spec))
  BY <1>2, <1>3, ConcatType DEF Plan
<1>5. /\ Len(Plan(spec)) >= 4
      /\ \A i \in 1 .. 4 : Plan(spec)[i] = RBACPlan[i]
  BY <1>1, <1>2, <1>3, RBACPlanType DEF Plan
<1>6. DiskDone(spec) \in Nat /\ DiskDone(spec) <= Len(Plan(spec))
  BY <1>1, <1>2, <1>3, RBACPlanType DEF Plan, DiskDone
<1> QED
  BY <1>4, <1>5, <1>6

-----------------------------------------------------------------------------
(* One step of a plan. *)

\* What a helper leaves of an object: as it was, or under the CR of the reconcile.
Keeps(id) == objs'[id] = objs[id] /\ (id \in drifted' <=> id \in drifted)

Takes(s, id) ==
    /\ id = s.id
    /\ objs'[id] \in Objects(Data)
    /\ objs'[id].owner = cur.uid
    /\ s.op = "replace" => objs'[id].data = s.data
    /\ id \notin drifted'

ObjTypes ==
    /\ objs \in [ManagedIds -> Objects(Data) \cup {Absent}]
    /\ profiles \in [ClassNames -> Profiles \cup {Absent}]
    /\ psa \in BOOLEAN
    /\ drifted \subseteq ManagedIds

\* A step the spec does not turn off has its object among the managed ones.
LEMMA StepsOfPlans ==
    ASSUME NEW spec \in Specs, NEW i \in 1 .. Len(Plan(spec))
    PROVE  /\ Plan(spec)[i] \in PlanSteps(spec)
           /\ Plan(spec)[i].op \in Ops \ {"patch", "off"} => Plan(spec)[i].id \in ManagedIds
<1>1. spec \in CRSpecs
  BY ReconcilerAssumption DEF ReconcilerAssumption
<1>2. Plan(spec)[i] \in PlanSteps(spec)
  BY <1>1, PlanType
<1>3. ASSUME Plan(spec)[i].op \in Ops \ {"patch", "off"}
      PROVE  Plan(spec)[i].id \in ManagedIds
  BY <1>3 DEF ManagedIds
<1> QED
  BY <1>2, <1>3

\* The step the running reconcile is at.
LEMMA NextStepType ==
    ASSUME TypeOK, Remaining
    PROVE  /\ cur \in CRs
           /\ done + 1 \in 1 .. Len(Plan(cur.spec))
           /\ NextStep \in PlanSteps(cur.spec)
           /\ NextStep.op \in Ops \ {"patch", "off"} => NextStep.id \in ManagedIds
<1>1. cur \in CRs /\ cur.spec \in Specs
  BY DEF TypeOK, Remaining, Exists, CRs
<1>2. Plan(cur.spec) \in Seq(PlanSteps(cur.spec))
  BY <1>1, PlanType, ReconcilerAssumption DEF ReconcilerAssumption
<1>3. done + 1 \in 1 .. Len(Plan(cur.spec))
  BY <1>2 DEF TypeOK, Remaining
<1> QED
  BY <1>1, <1>3, StepsOfPlans DEF NextStep

\* A helper writes the object of its step or nothing.
LEMMA EffectOf ==
    ASSUME TypeOK, Remaining, NEW s, s = NextStep, Effect(s)
    PROVE  /\ ObjTypes'
           /\ \A id \in ManagedIds : Keeps(id) \/ Takes(s, id)
           /\ s.op \in OwnedOps => Takes(s, s.id)
           /\ s.op = "admission" => IF SCC THEN Takes(s, s.id) ELSE LabelNamespace
<1>1. /\ cur \in CRs /\ s \in PlanSteps(cur.spec)
      /\ s.op \in Ops \ {"patch", "off"} => s.id \in ManagedIds
  BY NextStepType
<1>2. cur.uid \in Uids /\ s.data \in Data /\ s.op \in Ops /\ s.snap \in SnapNames \cup {NoName}
  BY <1>1 DEF CRs, Incarnations, PlanSteps, Steps
<1>3. ObjTypes
  BY DEF TypeOK, ObjTypes
<1>4. Absent \notin Objects(Data) /\ Absent \notin Profiles
  BY ReconcilerAssumption DEF ReconcilerAssumption
<1>5. Desired(cur.uid, s.data) \in Objects(Data)
      /\ Desired(cur.uid, s.data).owner = cur.uid
      /\ Desired(cur.uid, s.data).data = s.data
  BY <1>2 DEF Desired, Objects
<1>6. ASSUME NEW obj \in Objects(Data), s.id \in ManagedIds, Write(s.id, obj), obj.owner = cur.uid,
             s.op = "replace" => obj.data = s.data
      PROVE  ObjTypes' /\ Takes(s, s.id) /\ \A id \in ManagedIds : Keeps(id) \/ Takes(s, id)
  <2>1. ObjTypes'
    BY <1>3, <1>6 DEF ObjTypes, Write
  <2>2. Takes(s, s.id)
    BY <1>3, <1>6 DEF ObjTypes, Write, Takes
  <2>3. \A id \in ManagedIds \ {s.id} : Keeps(id)
    BY <1>3, <1>6 DEF ObjTypes, Write, Keeps
  <2> QED
    BY <2>1, <2>2, <2>3
<1>7. ASSUME objs' = objs, drifted' = drifted
      PROVE  \A id \in ManagedIds : Keeps(id)
  BY <1>7 DEF Keeps
<1>8. ASSUME s.id \in ManagedIds, Adopt(s), s.op # "replace"
      PROVE  ObjTypes' /\ Takes(s, s.id) /\ \A id \in ManagedIds : Keeps(id) \/ Takes(s, id)
  <2>1. CASE objs[s.id] = Absent /\ Write(s.id, Desired(cur.uid, s.data))
    BY <1>5, <1>6, <1>8, <2>1
  <2>2. CASE objs[s.id] # Absent /\ Write(s.id, Controlled(objs[s.id], cur.uid))
    <3>1. objs[s.id] \in Objects(Data)
      BY <1>3, <1>8, <2>2 DEF ObjTypes
    <3>2. /\ Controlled(objs[s.id], cur.uid) \in Objects(Data)
          /\ Controlled(objs[s.id], cur.uid).owner = cur.uid
      BY <1>2, <3>1 DEF Controlled, Objects
    <3> QED
      BY <1>6, <1>8, <2>2, <3>2
  <2> QED
    BY <1>8, <2>1, <2>2 DEF Adopt
<1>9. CASE s.op = "adopt" /\ Adopt(s)
  BY <1>1, <1>2, <1>8, <1>9
<1>10. CASE s.op = "replace" /\ Replace(s)
  BY <1>1, <1>2, <1>5, <1>6, <1>10 DEF Replace
<1>11. CASE s.op = "create" /\ CreateSnapshotClass(s)
  <2>1. CASE Write(s.id, Desired(cur.uid, s.data))
    BY <1>1, <1>2, <1>5, <1>6, <1>11, <2>1 DEF OwnedOps
  <2>2. CASE UNCHANGED objVars
    BY <1>3, <1>7, <1>11, <2>2 DEF objVars, OwnedOps, ObjTypes
  <2> QED
    BY <1>11, <2>1, <2>2 DEF CreateSnapshotClass
<1>12. CASE s.op = "patch" /\ PatchProfile(s)
  <2>1. s.data \in {"diskClaims", "nasClaims"}
    BY <1>1, <1>12 DEF PlanSteps
  <2>2. ASSUME NEW p \in Profiles
        PROVE  [claims |-> s.data, snap |-> IF s.snap = NoName THEN p.snap ELSE s.snap] \in Profiles
    BY <1>2, <2>1 DEF Profiles
  <2>3. profiles' \in [ClassNames -> Profiles \cup {Absent}]
    BY <1>3, <1>12, <2>2 DEF PatchProfile, ObjTypes
  <2> QED
    BY <1>3, <1>7, <1>12, <2>3 DEF PatchProfile, ObjTypes, OwnedOps
<1>13. CASE s.op = "admission" /\ SCC /\ Adopt(s)
  BY <1>1, <1>2, <1>8, <1>13 DEF OwnedOps
<1>14. CASE s.op = "admission" /\ ~SCC /\ LabelNamespace
  BY <1>3, <1>7, <1>14 DEF LabelNamespace, ObjTypes, OwnedOps
<1>15. CASE s.op = "off" /\ UNCHANGED objVars
  BY <1>3, <1>7, <1>15 DEF objVars, ObjTypes, OwnedOps
<1>16. s.op = "admission" => IF SCC THEN Takes(s, s.id) ELSE LabelNamespace
  BY <1>1, <1>8 DEF Effect, Ops
<1> QED
  BY <1>9, <1>10, <1>11, <1>12, <1>13, <1>14, <1>15, <1>16 DEF Effect

-----------------------------------------------------------------------------
(* Type correctness. *)

\* The initial states have the right types.
LEMMA InitType == Init => TypeOK
<1> SUFFICES ASSUME Init PROVE TypeOK
  OBVIOUS
<1>1. PICK u \in Incarnations, s \in Specs : cr = NewCR(u, s) /\ used = {u}
  BY DEF Init
<1>2. cr \in CRs
  BY <1>1 DEF NewCR, CRs, Statuses
<1>3. PICK origin \in {"fresh", "legacy", "foreign"} : objs \in FirstObjects(origin)
  BY ReconcilerAssumption DEF Init, ReconcilerAssumption
<1>4. objs \in [ManagedIds -> Objects(Data) \cup {Absent}]
  <2>1. ASSUME NEW holder \in Uids \cup {NoOwner}, NEW kinds
        PROVE  OfKinds(kinds, holder) \in [ManagedIds -> Objects(Data) \cup {Absent}]
    BY DEF OfKinds, Leftover, Objects, Data
  <2> QED
    BY <1>3, <2>1 DEF FirstObjects
<1> QED
  BY <1>1, <1>2, <1>3, <1>4, ReconcilerAssumption
  DEF Init, TypeOK, Exists, ReconcilerAssumption

\* The status patch leaves a CR of the right type, with the condition of this
\* report, and an observed generation that is the live one or this report's.
LEMMA PatchedStatus ==
    ASSUME TypeOK, Exists(cur), PatchStatus
    PROVE  /\ cr \in CRs /\ cr' \in CRs
           /\ cr'.uid = cr.uid /\ cr'.gen = cr.gen /\ cr'.spec = cr.spec
           /\ cr'.status.available = IF failed THEN "False" ELSE "True"
           /\ \/ cr'.status.obsGen = cur.gen
              \/ cr'.status.obsGen = cr.status.obsGen
           /\ pending' \in BOOLEAN
<1>1. cr \in CRs /\ cur \in CRs
  BY DEF TypeOK, Exists, PatchStatus
<1>2. PICK sameSecond \in SameSecond :
         /\ cr' = [cr EXCEPT !.status = MergePatch(cr.status, cur.status, Report, sameSecond)]
         /\ pending' = (pending \/ cr' # cr \/ ~sameSecond)
  BY DEF PatchStatus
<1>3. /\ cr.status \in Statuses /\ cur.status \in Statuses /\ cur.gen \in Nat
      /\ DOMAIN cr.status = {"obsGen", "disk", "nas", "available"}
  BY <1>1 DEF CRs, Statuses
<1>4. /\ Report.disk \in BOOLEAN /\ Report.nas \in BOOLEAN /\ Report.obsGen = cur.gen
      /\ Report.available = IF failed THEN "False" ELSE "True"
  <2>1. cur.spec.disk.enabled \in BOOLEAN /\ cur.spec.nas.enabled \in BOOLEAN
    BY <1>1, ReconcilerAssumption
    DEF CRs, CRSpecs, DiskSpecs, NASSpecs, ReconcilerAssumption
  <2> QED
    BY <2>1 DEF Report
<1> DEFINE patched == MergePatch(cr.status, cur.status, Report, sameSecond)
<1>5. patched \in Statuses
  BY <1>3, <1>4 DEF MergePatch, Statuses
<1>6. patched.available = Report.available
  BY <1>3 DEF MergePatch, SameSecond
<1>7. patched.obsGen = cur.gen \/ patched.obsGen = cr.status.obsGen
  <2>1. patched.obsGen = IF Report.obsGen # cur.status.obsGen THEN Report.obsGen ELSE cr.status.obsGen
    BY <1>3 DEF MergePatch
  <2> QED
    BY <1>4, <2>1
<1>8. cr' \in CRs /\ cr'.status = patched /\ cr'.uid = cr.uid /\ cr'.gen = cr.gen /\ cr'.spec = cr.spec
  BY <1>1, <1>2, <1>5 DEF CRs
<1>9. pending' \in BOOLEAN
  BY <1>2 DEF TypeOK
<1> QED
  BY <1>1, <1>4, <1>6, <1>7, <1>8, <1>9

\* A step of the worker on an object keeps the types.
LEMMA StepType ==
    ASSUME TypeOK, Remaining, Effect(NextStep) \/ UNCHANGED objVars \/ LabelNamespace
    PROVE  ObjTypes'
<1>1. ObjTypes
  BY DEF TypeOK, ObjTypes
<1>2. CASE Effect(NextStep)
  BY <1>2, EffectOf
<1>3. CASE UNCHANGED objVars
  BY <1>1, <1>3 DEF objVars, ObjTypes
<1>4. CASE LabelNamespace
  BY <1>1, <1>4 DEF LabelNamespace, ObjTypes
<1> QED
  BY <1>2, <1>3, <1>4

\* Looking for the SCC API leaves the mapper with what it may know.
LEMMA DetectionType == TypeOK /\ Detection => mapper' \in {"unread", "miss", "hit"}
  BY DEF TypeOK, Detection

\* Every step keeps the types.
LEMMA NextType == TypeOK /\ [Next]_vars => TypeOK'
<1> SUFFICES ASSUME TypeOK, [Next]_vars PROVE TypeOK'
  OBVIOUS
<1>1. CASE Start
  <2>1. (IF Exists(cur) THEN done <= Len(Plan(cur.spec)) ELSE done = 0 /\ ~failed)'
    <3>1. CASE Exists(cache)
      <4>1. Plan(cache.spec) \in Seq(PlanSteps(cache.spec))
        BY <3>1, PlanType, ReconcilerAssumption DEF ReconcilerAssumption, TypeOK, Exists, CRs
      <4> QED
        BY <1>1, <4>1 DEF Start, TypeOK
    <3>2. CASE ~Exists(cache)
      BY <1>1, <3>2 DEF Start, TypeOK, Exists
    <3> QED
      BY <3>1, <3>2
  <2> QED
    BY <1>1, <2>1 DEF Start, TypeOK, apiVars, objVars
<1>2. CASE StepDone
  <2>1. ObjTypes'
    BY <1>2, StepType DEF StepDone
  <2>2. done' \in Nat /\ done' <= Len(Plan(cur.spec))
    BY <1>2, NextStepType DEF StepDone, TypeOK
  <2> QED
    BY <1>2, <2>1, <2>2, DetectionType
    DEF StepDone, Remaining, Exists, TypeOK, ObjTypes, apiVars
<1>3. CASE DetectionFails
  <2>1. ObjTypes'
    BY <1>3, StepType DEF DetectionFails, AtDetection
  <2>2. done' \in Nat /\ done' <= Len(Plan(cur.spec))
    BY <1>3, NextStepType DEF DetectionFails, AtDetection, TypeOK
  <2> QED
    BY <1>3, <2>1, <2>2
    DEF DetectionFails, AtDetection, Trouble, Remaining, Exists, TypeOK, ObjTypes, apiVars
<1>4. CASE StepRefused
  BY <1>4, DetectionType DEF StepRefused, Remaining, Exists, TypeOK, apiVars, objVars
<1>5. CASE StepFails
  <2>1. ObjTypes'
    BY <1>5, StepType DEF StepFails
  <2> QED
    BY <1>5, <2>1, DetectionType
    DEF StepFails, Trouble, Remaining, Exists, TypeOK, ObjTypes, apiVars
<1>6. CASE Finish
  <2>1. /\ cr' \in CRs \cup {NoCR} /\ pending' \in BOOLEAN
        /\ reports' \subseteq Incarnations \X Nat
        /\ cache' = cache /\ used' = used /\ trouble' \in Nat
    <3>1. CASE PatchStatus /\ UNCHANGED trouble
      <4>1. cur \in CRs
        BY <1>6 DEF Finish, TypeOK, Exists
      <4>2. reports' \subseteq Incarnations \X Nat
        BY <3>1, <4>1 DEF PatchStatus, TypeOK, CRs
      <4> QED
        BY <1>6, <3>1, <4>2, PatchedStatus DEF Finish, PatchStatus, TypeOK
    <3>2. CASE ~Exists(cr) /\ UNCHANGED <<apiVars, trouble>>
      BY <3>2 DEF apiVars, TypeOK
    <3>3. CASE Trouble("status") /\ UNCHANGED apiVars
      BY <3>3 DEF apiVars, Trouble, TypeOK
    <3> QED
      BY <1>6, <3>1, <3>2, <3>3 DEF Finish
  <2> QED
    BY <1>6, <2>1 DEF Finish, TypeOK, objVars, Exists
<1>7. CASE Deliver
  BY <1>7 DEF Deliver, TypeOK, objVars
<1>8. CASE Resync
  BY <1>8 DEF Resync, TypeOK, apiVars, objVars
<1>9. CASE Crash
  <2>1. queued' \in BOOLEAN
    BY <1>9 DEF Crash, Exists
  <2>2. cache' = cr /\ pending' \in BOOLEAN /\ failed' \in BOOLEAN /\ psa' \in BOOLEAN
    BY <1>9 DEF Crash, TypeOK, objVars
  <2> QED
    BY <1>9, <2>1, <2>2 DEF Crash, Trouble, TypeOK, objVars, Exists
<1>10. CASE EditSpec
  <2>1. PICK s \in Specs : cr' = [cr EXCEPT !.spec = s, !.gen = @ + 1]
    BY <1>10 DEF EditSpec
  <2>2. cr \in CRs
    BY <1>10 DEF EditSpec, TypeOK, Exists
  <2>3. cr.gen + 1 \in Nat \ {0}
    BY <2>2 DEF CRs
  <2>4. cr' \in CRs
    BY <2>1, <2>2, <2>3 DEF CRs
  <2> QED
    BY <1>10, <2>4 DEF EditSpec, Trouble, TypeOK, workerVars, objVars
<1>11. CASE DeleteCR
  BY <1>11 DEF DeleteCR, Trouble, TypeOK, workerVars, objVars
<1>12. CASE CreateCR
  <2>1. PICK u \in Incarnations \ used, s \in Specs : cr' = NewCR(u, s) /\ used' = used \cup {u}
    BY <1>12 DEF CreateCR
  <2>2. cr' \in CRs
    BY <2>1 DEF NewCR, CRs, Statuses
  <2> QED
    BY <1>12, <2>1, <2>2 DEF CreateCR, Trouble, TypeOK, workerVars, objVars
<1>13. CASE Collect
  BY <1>13 DEF Collect, TypeOK, apiVars, workerVars
<1>14. CASE Drift
  BY <1>14 DEF Drift, Trouble, TypeOK, apiVars, workerVars
<1>15. CASE SyncProfiles
  <2>1. [claims |-> "cdi", snap |-> NoName] \in Profiles
    BY DEF Profiles
  <2> QED
    BY <1>15, <2>1 DEF SyncProfiles, TypeOK, apiVars, workerVars
<1>16. CASE UNCHANGED vars
  BY <1>16 DEF vars, apiVars, workerVars, objVars, TypeOK
<1>17. CASE MapperMisses
  BY <1>17 DEF MapperMisses, Trouble, TypeOK, apiVars, objVars
<1> QED
  BY <1>1, <1>2, <1>3, <1>4, <1>5, <1>6, <1>7, <1>8, <1>9, <1>10, <1>11, <1>12, <1>13,
     <1>14, <1>15, <1>16, <1>17 DEF Next, Worker

\* The variables keep their types, for every set of specs, every origin and every
\* amount of trouble.
THEOREM TypeCorrect == Spec => []TypeOK
  BY InitType, NextType, PTL DEF Spec

-----------------------------------------------------------------------------
(* The inductive invariant: the copies of the CR, and what its status says. *)

\* The UID of a new incarnation has never been seen.
KnownUids == \A k \in {cr, cache, cur} : Exists(k) => k.uid \in used

\* A copy of this incarnation is not ahead of it, and one of the same generation
\* has the same spec.
CopiesAreOlder ==
    Exists(cr) => \A k \in {cache, cur} :
        Exists(k) /\ k.uid = cr.uid => k.gen <= cr.gen /\ (k.gen = cr.gen => k.spec = cr.spec)

\* The running reconcile works on a copy the cache had.
WorkFollowsCache ==
    Exists(cr) /\ Exists(cur) /\ cur.uid = cr.uid =>
        Exists(cache) /\ cache.uid = cr.uid /\ cur.gen <= cache.gen

\* Before the first report the status is empty; after it, and as long as only this
\* incarnation has reported, neither the cache nor the worker falls back behind
\* the generation reported.
ReportsFollowCache ==
    Exists(cr) =>
        /\ reports = {} => cr.status.obsGen = 0
        /\ reports # {} /\ OwnReports =>
              /\ Exists(cache) /\ cache.uid = cr.uid /\ cr.status.obsGen <= cache.gen
              /\ Exists(cur) => cur.uid = cr.uid /\ cr.status.obsGen <= cur.gen

CopyInv == KnownUids /\ CopiesAreOlder /\ WorkFollowsCache /\ ReportsFollowCache

\* It holds at first.
LEMMA InitCopy == Init => CopyInv
<1> SUFFICES ASSUME Init PROVE CopyInv
  OBVIOUS
<1>1. PICK u \in Incarnations, s \in Specs : cr = NewCR(u, s) /\ used = {u}
  BY DEF Init
<1>2. cache = NoCR /\ cur = NoCR /\ reports = {}
  BY DEF Init
<1>3. cr.uid = u /\ cr.status.obsGen = 0
  BY <1>1 DEF NewCR
<1> QED
  BY <1>1, <1>2, <1>3 DEF CopyInv, KnownUids, CopiesAreOlder, WorkFollowsCache, ReportsFollowCache, Exists

\* The steps that touch neither the CR nor its copies.
Elsewhere == UNCHANGED <<cr, cache, used, reports, cur>>

\* Those steps are the worker's steps before its report, the resync, the garbage
\* collector, other users' deletions and CDI.
LEMMA ElsewhereSteps ==
    StepDone \/ MapperMisses \/ DetectionFails \/ StepRefused \/ StepFails \/ Resync
        \/ Collect \/ Drift \/ SyncProfiles \/ UNCHANGED vars
    => Elsewhere
BY DEF StepDone, MapperMisses, DetectionFails, StepRefused, StepFails, Resync, Collect, Drift, SyncProfiles,
       Elsewhere, vars, apiVars, workerVars

\* The end of a reconcile: its report, if there is one, is of the live CR.
LEMMA CopyFinish ==
    ASSUME TypeOK, CopyInv, Finish
    PROVE  CopyInv'
<1>1. cur' = NoCR /\ Exists(cur)
  BY DEF Finish
<1>2. CASE UNCHANGED apiVars
  BY <1>1, <1>2 DEF apiVars, CopyInv, KnownUids, CopiesAreOlder, WorkFollowsCache,
                    ReportsFollowCache, OwnReports, Exists
<1>3. CASE PatchStatus
  <2>1. /\ cache' = cache /\ used' = used /\ reports' = reports \cup {<<cur.uid, cur.gen>>}
        /\ Exists(cr)
    BY <1>3 DEF PatchStatus
  <2>2. /\ cr \in CRs /\ cr' \in CRs
        /\ cr'.uid = cr.uid /\ cr'.gen = cr.gen /\ cr'.spec = cr.spec
        /\ \/ cr'.status.obsGen = cur.gen
           \/ cr'.status.obsGen = cr.status.obsGen
    BY <1>1, <1>3, PatchedStatus
  <2>3. KnownUids' /\ CopiesAreOlder' /\ WorkFollowsCache'
    BY <1>1, <2>1, <2>2 DEF CopyInv, KnownUids, CopiesAreOlder, WorkFollowsCache, Exists
  <2>4. ASSUME OwnReports'
        PROVE  Exists(cache) /\ cache.uid = cr.uid /\ cr'.status.obsGen <= cache.gen
    <3>1. cur.uid = cr.uid /\ OwnReports
      <4>1. \A r \in reports \cup {<<cur.uid, cur.gen>>} : r[1] = cr.uid
        BY <2>1, <2>2, <2>4 DEF OwnReports
      <4>2. <<cur.uid, cur.gen>>[1] = cr.uid
        BY <4>1, Zenon
      <4> QED
        BY <4>1, <4>2 DEF OwnReports
    <3>2. Exists(cache) /\ cache.uid = cr.uid /\ cur.gen <= cache.gen
      BY <1>1, <2>1, <3>1 DEF CopyInv, WorkFollowsCache
    <3>3. CASE cr'.status.obsGen = cur.gen
      BY <3>2, <3>3
    <3>4. CASE cr'.status.obsGen = cr.status.obsGen
      <4>1. cache.gen \in Nat /\ cr.status.obsGen \in Nat
        BY <2>2, <3>2 DEF TypeOK, Exists, CRs, Statuses
      <4>2. CASE reports = {}
        BY <2>1, <3>2, <3>4, <4>1, <4>2 DEF CopyInv, ReportsFollowCache
      <4>3. CASE reports # {}
        BY <2>1, <3>1, <3>2, <3>4, <4>3 DEF CopyInv, ReportsFollowCache
      <4> QED
        BY <4>2, <4>3
    <3> QED
      BY <2>2, <3>2, <3>3, <3>4
  <2>5. ReportsFollowCache'
    BY <1>1, <2>1, <2>2, <2>4 DEF ReportsFollowCache, Exists
  <2> QED
    BY <2>3, <2>5 DEF CopyInv
<1> QED
  BY <1>2, <1>3 DEF Finish, apiVars

\* Every step keeps it.
LEMMA CopyStep == TypeOK /\ CopyInv /\ [Next]_vars => CopyInv'
<1> SUFFICES ASSUME TypeOK, CopyInv, [Next]_vars PROVE CopyInv'
  OBVIOUS
<1> USE DEF CopyInv, KnownUids, CopiesAreOlder, WorkFollowsCache, ReportsFollowCache, OwnReports
<1>1. CASE Elsewhere
  BY <1>1 DEF Elsewhere
<1>2. CASE Start
  BY <1>2 DEF Start, apiVars, Exists, TypeOK, CRs
<1>3. CASE Finish
  BY <1>3, CopyFinish
<1>4. CASE Deliver
  <2>1. /\ cache' = cr /\ cr' = cr /\ cur' = cur /\ used' = used /\ reports' = reports
    BY <1>4 DEF Deliver
  <2>2. Exists(cr) => cr.gen \in Nat
    BY DEF TypeOK, Exists, CRs
  <2>3. Exists(cache) => cache.gen \in Nat
    BY DEF TypeOK, Exists, CRs
  <2>4. Exists(cr) => cr.status.obsGen \in Nat /\ cr.gen \in Nat
    BY DEF TypeOK, Exists, CRs, Statuses
  <2>5. KnownUids' /\ CopiesAreOlder' /\ WorkFollowsCache'
    BY <2>1, <2>2
  <2>6. ReportsFollowCache'
    BY <2>1, <2>3, <2>4
  <2> QED
    BY <2>5, <2>6
<1>5. CASE Crash
  <2>1. /\ cache' = cr /\ cr' = cr /\ cur' = NoCR /\ used' = used /\ reports' = reports
    BY <1>5 DEF Crash
  <2>2. Exists(cache) => cache.gen \in Nat
    BY DEF TypeOK, Exists, CRs
  <2>3. Exists(cr) => cr.status.obsGen \in Nat /\ cr.gen \in Nat
    BY DEF TypeOK, Exists, CRs, Statuses
  <2>4. KnownUids' /\ CopiesAreOlder' /\ WorkFollowsCache'
    BY <2>1, <2>3 DEF Exists
  <2>5. ReportsFollowCache'
    BY <2>1, <2>2, <2>3 DEF Exists
  <2> QED
    BY <2>4, <2>5
<1>6. CASE EditSpec
  <2>1. PICK s \in Specs : cr' = [cr EXCEPT !.spec = s, !.gen = @ + 1]
    BY <1>6 DEF EditSpec
  <2>2. /\ cache' = cache /\ cur' = cur /\ used' = used /\ reports' = reports /\ Exists(cr)
    BY <1>6 DEF EditSpec, workerVars
  <2>3. cr \in CRs /\ cr.gen \in Nat
    BY <2>2 DEF TypeOK, Exists, CRs
  <2>4. cr'.uid = cr.uid /\ cr'.gen = cr.gen + 1 /\ cr'.status = cr.status
    BY <2>1, <2>3 DEF CRs
  <2>5. \A k \in {cache, cur} : Exists(k) => k.gen \in Nat
    BY DEF TypeOK, Exists, CRs
  <2>6. KnownUids'
    BY <2>2, <2>4
  <2>7. CopiesAreOlder'
    BY <2>2, <2>3, <2>4, <2>5
  <2>8. WorkFollowsCache' /\ ReportsFollowCache'
    BY <2>2, <2>4
  <2> QED
    BY <2>6, <2>7, <2>8
<1>7. CASE DeleteCR
  BY <1>7 DEF DeleteCR, workerVars, Exists
<1>8. CASE CreateCR
  <2>1. PICK u \in Incarnations \ used, s \in Specs : cr' = NewCR(u, s) /\ used' = used \cup {u}
    BY <1>8 DEF CreateCR
  <2>2. cache' = cache /\ cur' = cur /\ reports' = {}
    BY <1>8 DEF CreateCR, workerVars
  <2>3. cr'.uid = u /\ cr'.status.obsGen = 0
    BY <2>1 DEF NewCR
  <2> QED
    BY <2>1, <2>2, <2>3
<1> QED
  BY <1>1, <1>2, <1>3, <1>4, <1>5, <1>6, <1>7, <1>8, ElsewhereSteps DEF Next, Worker

-----------------------------------------------------------------------------
(* Objects in place stay in place. *)

\* A step of a reconcile keeps in place what its own spec asks for: it writes under
\* the same CR, and a workload only with the parameters of the spec.
LEMMA WorkKeepsInPlace ==
    ASSUME TypeOK, Remaining, Effect(NextStep) \/ UNCHANGED objVars \/ LabelNamespace,
           NEW u, u = cur.uid,
           NEW i \in 1 .. Len(Plan(cur.spec)), NEW t, t = Plan(cur.spec)[i], InPlace(t, u)
    PROVE  InPlace(t, u)'
<1>1. CASE UNCHANGED objVars \/ LabelNamespace
  BY <1>1 DEF InPlace, objVars, LabelNamespace
<1>2. CASE Effect(NextStep)
  <2> DEFINE s == NextStep
  <2>1. cur.spec \in Specs /\ s \in PlanSteps(cur.spec)
    BY NextStepType DEF CRs
  <2>2. t \in PlanSteps(cur.spec) /\ (t.op \in OwnedOps => t.id \in ManagedIds)
    BY <2>1, StepsOfPlans DEF OwnedOps, Ops
  <2>3. \A id \in ManagedIds : Keeps(id) \/ Takes(s, id)
    BY <1>2, EffectOf
  <2>4. ASSUME t.op \in OwnedOps, Takes(s, t.id) PROVE InPlace(t, u)'
    <3>1. objs'[t.id] # Absent
      BY <2>4, ReconcilerAssumption DEF Takes, ReconcilerAssumption
    <3>2. t.op = "replace" => objs'[t.id].data = t.data
      BY <2>1, <2>2, <2>4 DEF Takes, PlanSteps
    <3> QED
      BY <2>4, <3>1, <3>2 DEF Takes, InPlace, IsControlledBy
  <2>5. ASSUME t.op \in OwnedOps, Keeps(t.id) PROVE InPlace(t, u)'
    BY <2>5 DEF Keeps, InPlace, IsControlledBy
  <2> QED
    BY <2>2, <2>3, <2>4, <2>5 DEF InPlace
<1> QED
  BY <1>1, <1>2

\* The step just done is in place.
LEMMA StepPutsInPlace ==
    ASSUME TypeOK, Remaining, Effect(NextStep), NEW u, u = cur.uid, NEW t, t = NextStep
    PROVE  InPlace(t, u)'
<1>1. t.op \in OwnedOps => Takes(t, t.id)
  BY EffectOf
<1> QED
  BY <1>1, ReconcilerAssumption DEF Takes, InPlace, IsControlledBy, ReconcilerAssumption

\* Nobody else takes an object of the live CR out of place without its being counted
\* among the drifted ones.
LEMMA OthersKeepInPlace ==
    ASSUME TypeOK, Exists(cr), Collect \/ Drift \/ (objs' = objs /\ drifted' = drifted),
           NEW spec \in Specs, NEW i \in 1 .. Len(Plan(spec)), NEW t, t = Plan(spec)[i],
           NEW u, u = cr.uid, InPlace(t, u)
    PROVE  InPlace(t, u)'
<1>1. t.op \in OwnedOps => t.id \in ManagedIds
  BY StepsOfPlans DEF OwnedOps, Ops
<1>2. objs \in [ManagedIds -> Objects(Data) \cup {Absent}]
  BY DEF TypeOK
<1>3. CASE objs' = objs /\ drifted' = drifted
  BY <1>3 DEF InPlace
<1>4. CASE Collect
  <2>1. PICK id \in ManagedIds : Gone(objs[id].owner) /\ objs' = [objs EXCEPT ![id] = Absent]
    BY <1>4 DEF Collect
  <2>2. objs[id].owner # u
    BY <2>1 DEF Gone
  <2>3. drifted' = drifted
    BY <1>4 DEF Collect
  <2> QED
    BY <1>1, <1>2, <2>1, <2>2, <2>3 DEF InPlace, IsControlledBy
<1>5. CASE Drift
  <2>1. PICK id \in ManagedIds : /\ objs' = [objs EXCEPT ![id] = Absent]
                                 /\ drifted' = drifted \cup {id}
    BY <1>5 DEF Drift
  <2> QED
    BY <1>1, <1>2, <2>1 DEF InPlace, IsControlledBy
<1> QED
  BY <1>3, <1>4, <1>5

-----------------------------------------------------------------------------
(* What is done stays done. *)

IInv == TypeOK /\ CopyInv /\ DoneStepsInPlace /\ AvailableMeansInPlace

\* A step of the plan adds to what is done.
LEMMA DoneByStep ==
    ASSUME TypeOK, DoneStepsInPlace, StepDone \/ DetectionFails
    PROVE  DoneStepsInPlace'
<1>1. Remaining /\ cr' = cr /\ cur' = cur /\ done' = done + 1 /\ done \in Nat
  BY DEF StepDone, DetectionFails, AtDetection, apiVars, TypeOK
<1>2. SUFFICES ASSUME Exists(cr), Exists(cur), cur.uid = cr.uid, NEW i \in 1 .. done + 1
               PROVE  InPlace(Plan(cur.spec)[i], cr.uid)'
  BY <1>1 DEF DoneStepsInPlace
<1> DEFINE u == cr.uid
           t == Plan(cur.spec)[i]
<1>3. i \in 1 .. Len(Plan(cur.spec))
  BY <1>1, <1>2, NextStepType
<1>4. CASE i = done + 1
  <2>1. ASSUME NEW s, s = t, NEW v, v = u PROVE InPlace(s, v)'
    <3>1. CASE StepDone
      BY <1>1, <1>2, <1>4, <2>1, <3>1, StepPutsInPlace DEF StepDone, NextStep
    <3>2. CASE DetectionFails
      BY <1>4, <2>1, <3>2 DEF DetectionFails, AtDetection, NextStep, InPlace, OwnedOps
    <3> QED
      BY <3>1, <3>2
  <2> QED
    BY <1>1, <2>1
<1>5. CASE i \in 1 .. done
  <2>1. ASSUME NEW s, s = t, NEW v, v = u PROVE InPlace(s, v)'
    <3>1. InPlace(s, v)
      BY <1>2, <1>5, <2>1 DEF DoneStepsInPlace
    <3>2. Effect(NextStep) \/ LabelNamespace
      BY DEF StepDone, DetectionFails
    <3> QED
      BY <1>1, <1>2, <1>3, <2>1, <3>1, <3>2, WorkKeepsInPlace
  <2> QED
    BY <1>1, <2>1
<1> QED
  BY <1>1, <1>2, <1>4, <1>5

\* A step that leaves the CR and the reconcile where they are, and the objects of
\* the live CR in place, keeps what is done.
LEMMA DoneElsewhere ==
    ASSUME TypeOK, DoneStepsInPlace, cur' = cur, done' = done,
           Exists(cr)' => Exists(cr) /\ cr'.uid = cr.uid,
           Collect \/ Drift \/ (objs' = objs /\ drifted' = drifted)
    PROVE  DoneStepsInPlace'
<1>1. SUFFICES ASSUME Exists(cr), cr'.uid = cr.uid, Exists(cur), cur.uid = cr.uid,
                      NEW i \in 1 .. done
               PROVE  InPlace(Plan(cur.spec)[i], cr.uid)'
  BY DEF DoneStepsInPlace, Exists
<1>2. cur.spec \in Specs /\ i \in 1 .. Len(Plan(cur.spec))
  <2>1. cur \in CRs /\ done <= Len(Plan(cur.spec)) /\ done \in Nat
    BY <1>1 DEF TypeOK, Exists
  <2>2. Len(Plan(cur.spec)) \in Nat
    BY <2>1, PlanType, ReconcilerAssumption DEF ReconcilerAssumption, CRs
  <2> QED
    BY <1>1, <2>1, <2>2 DEF CRs
<1>3. ASSUME NEW s, s = Plan(cur.spec)[i], NEW v, v = cr.uid PROVE InPlace(s, v)'
  <2>1. InPlace(s, v)
    BY <1>1, <1>3 DEF DoneStepsInPlace
  <2> QED
    BY <1>1, <1>2, <1>3, <2>1, OthersKeepInPlace
<1> QED
  BY <1>1, <1>3

\* Every step keeps what is done.
LEMMA DoneStep == TypeOK /\ CopyInv /\ DoneStepsInPlace /\ [Next]_vars => DoneStepsInPlace'
<1> SUFFICES ASSUME TypeOK, CopyInv, DoneStepsInPlace, [Next]_vars PROVE DoneStepsInPlace'
  OBVIOUS
<1>1. CASE Start
  BY <1>1 DEF Start, DoneStepsInPlace, TypeOK
<1>2. CASE StepDone \/ DetectionFails
  BY <1>2, DoneByStep
<1>3. CASE StepFails
  <2>1. /\ Remaining /\ cr' = cr /\ cur' = cur /\ done' = done
        /\ Effect(NextStep) \/ UNCHANGED objVars
    BY <1>3 DEF StepFails, apiVars
  <2>2. SUFFICES ASSUME Exists(cr), Exists(cur), cur.uid = cr.uid, NEW i \in 1 .. done
                 PROVE  InPlace(Plan(cur.spec)[i], cr.uid)'
    BY <2>1 DEF DoneStepsInPlace
  <2>3. i \in 1 .. Len(Plan(cur.spec))
    BY <2>1, <2>2, NextStepType DEF TypeOK
  <2>4. ASSUME NEW s, s = Plan(cur.spec)[i], NEW v, v = cr.uid PROVE InPlace(s, v)'
    <3>1. InPlace(s, v)
      BY <2>2, <2>4 DEF DoneStepsInPlace
    <3> QED
      BY <2>1, <2>2, <2>3, <2>4, <3>1, WorkKeepsInPlace
  <2> QED
    BY <2>1, <2>4
<1>4. CASE Finish \/ Crash
  BY <1>4 DEF Finish, Crash, DoneStepsInPlace, Exists
<1>5. CASE MapperMisses \/ StepRefused \/ Deliver \/ Resync \/ SyncProfiles \/ UNCHANGED vars
  BY <1>5, DoneElsewhere
  DEF MapperMisses, StepRefused, Deliver, Resync, SyncProfiles, vars, apiVars, workerVars, objVars, Exists
<1>6. CASE Collect \/ Drift
  BY <1>6, DoneElsewhere DEF Collect, Drift, apiVars, workerVars, Exists
<1>7. CASE EditSpec
  <2>1. cr'.uid = cr.uid /\ Exists(cr)
    BY <1>7 DEF EditSpec, TypeOK, Exists, CRs
  <2> QED
    BY <1>7, <2>1, DoneElsewhere DEF EditSpec, workerVars, objVars
<1>8. CASE DeleteCR
  BY <1>8 DEF DeleteCR, DoneStepsInPlace, Exists
<1>9. CASE CreateCR
  <2>1. PICK u \in Incarnations \ used, s \in Specs : cr' = NewCR(u, s)
    BY <1>9 DEF CreateCR
  <2>2. Exists(cur)' => cur'.uid # cr'.uid
    BY <1>9, <2>1 DEF CreateCR, workerVars, NewCR, CopyInv, KnownUids, Exists
  <2> QED
    BY <2>2 DEF DoneStepsInPlace
<1> QED
  BY <1>1, <1>2, <1>3, <1>4, <1>5, <1>6, <1>7, <1>8, <1>9 DEF Next, Worker

-----------------------------------------------------------------------------
(* Available means in place. *)

\* The running reconcile is of the generation the status reports.
LEMMA WorkIsCurrent ==
    ASSUME TypeOK, CopyInv, Exists(cr), Exists(cur), OwnReports, cr.status.obsGen = cr.gen
    PROVE  cur.uid = cr.uid /\ cur.spec = cr.spec /\ cur.gen = cr.gen
<1>1. cr \in CRs /\ cur \in CRs /\ cr.gen \in Nat \ {0} /\ cur.gen \in Nat
  BY DEF TypeOK, Exists, CRs
<1>2. reports # {}
  BY <1>1 DEF CopyInv, ReportsFollowCache
<1>3. cur.uid = cr.uid /\ cr.gen <= cur.gen
  BY <1>2 DEF CopyInv, ReportsFollowCache
<1> QED
  BY <1>1, <1>3 DEF CopyInv, CopiesAreOlder

Available == /\ Exists(cr) /\ OwnReports
             /\ cr.status.available = "True" /\ cr.status.obsGen = cr.gen

\* The report of a reconcile: True only when its plan has been carried out to the end.
LEMMA AvailableByReport ==
    ASSUME TypeOK, CopyInv, DoneStepsInPlace, Finish, PatchStatus, Available'
    PROVE  /\ cur.uid = cr.uid /\ cur.spec = cr.spec /\ Exists(cr) /\ Exists(cur)
           /\ done = Len(Plan(cr.spec))
<1>1. Exists(cr) /\ Exists(cur) /\ ~Remaining
      /\ reports' = reports \cup {<<cur.uid, cur.gen>>}
  BY DEF Finish, PatchStatus
<1>2. /\ cr \in CRs /\ cr'.uid = cr.uid /\ cr'.gen = cr.gen /\ cr'.spec = cr.spec
      /\ cr'.status.available = IF failed THEN "False" ELSE "True"
      /\ \/ cr'.status.obsGen = cur.gen
         \/ cr'.status.obsGen = cr.status.obsGen
  BY <1>1, PatchedStatus
<1>3. cur.uid = cr.uid /\ OwnReports
  <2>1. \A r \in reports \cup {<<cur.uid, cur.gen>>} : r[1] = cr.uid
    BY <1>1, <1>2 DEF OwnReports, Available
  <2>2. <<cur.uid, cur.gen>>[1] = cr.uid
    BY <2>1, Zenon
  <2> QED
    BY <2>1, <2>2 DEF OwnReports
<1>4. cur.gen = cr.gen
  <2>1. CASE cr'.status.obsGen = cur.gen
    BY <1>2, <2>1 DEF Available
  <2>2. CASE cr'.status.obsGen = cr.status.obsGen
    BY <1>1, <1>2, <1>3, <2>2, WorkIsCurrent DEF Available
  <2> QED
    BY <1>2, <2>1, <2>2
<1>5. cur.spec = cr.spec
  BY <1>1, <1>3, <1>4 DEF CopyInv, CopiesAreOlder
<1>6. ~failed
  BY <1>2 DEF Available
<1>7. done = Len(Plan(cr.spec))
  <2>1. Len(Plan(cr.spec)) \in Nat
    BY <1>2, PlanType, ReconcilerAssumption DEF ReconcilerAssumption, CRs
  <2> QED
    BY <1>1, <1>5, <1>6, <2>1 DEF Remaining, TypeOK
<1> QED
  BY <1>1, <1>3, <1>5, <1>7

\* A step that leaves the CR alone, or only takes it away, keeps the promise.
LEMMA AvailableElsewhere ==
    ASSUME TypeOK, CopyInv, AvailableMeansInPlace, cr' = cr, reports' = reports,
           \/ Collect \/ Drift \/ (objs' = objs /\ drifted' = drifted)
           \/ Remaining /\ Effect(NextStep)
    PROVE  AvailableMeansInPlace'
<1>1. SUFFICES ASSUME Available, NEW i \in 1 .. Len(Plan(cr.spec))
               PROVE  InPlace(Plan(cr.spec)[i], cr.uid)'
  BY DEF AvailableMeansInPlace, Available, OwnReports, Exists
<1>2. cr \in CRs /\ cr.spec \in Specs
  BY <1>1 DEF Available, Exists, TypeOK, CRs
<1>3. ASSUME NEW s, s = Plan(cr.spec)[i], NEW v, v = cr.uid PROVE InPlace(s, v)'
  <2>1. InPlace(s, v)
    BY <1>1, <1>3 DEF AvailableMeansInPlace, Available
  <2>2. CASE Collect \/ Drift \/ (objs' = objs /\ drifted' = drifted)
    BY <1>1, <1>2, <1>3, <2>1, <2>2, OthersKeepInPlace DEF Available
  <2>3. CASE Remaining /\ Effect(NextStep)
    <3>1. cur.uid = cr.uid /\ cur.spec = cr.spec
      BY <1>1, <2>3, WorkIsCurrent DEF Available, Remaining
    <3> QED
      BY <1>1, <1>3, <2>1, <2>3, <3>1, WorkKeepsInPlace
  <2> QED
    BY <2>2, <2>3
<1> QED
  BY <1>3

\* Every step keeps the promise of Available.
LEMMA AvailableStep == IInv /\ [Next]_vars => AvailableMeansInPlace'
<1> SUFFICES ASSUME TypeOK, CopyInv, DoneStepsInPlace, AvailableMeansInPlace, [Next]_vars
             PROVE  AvailableMeansInPlace'
  BY DEF IInv
<1>1. CASE Start \/ MapperMisses \/ DetectionFails \/ StepRefused \/ Deliver \/ Resync
           \/ Crash \/ SyncProfiles \/ UNCHANGED vars
  <2>1. cr' = cr /\ reports' = reports /\ objs' = objs /\ drifted' = drifted
    BY <1>1 DEF Start, MapperMisses, DetectionFails, StepRefused, Deliver, Resync, Crash,
                SyncProfiles, LabelNamespace, vars, apiVars, objVars
  <2> QED
    BY <2>1, AvailableElsewhere
<1>2. CASE StepDone \/ StepFails
  <2>1. /\ cr' = cr /\ reports' = reports /\ Remaining
        /\ Effect(NextStep) \/ (objs' = objs /\ drifted' = drifted)
    BY <1>2 DEF StepDone, StepFails, apiVars, objVars
  <2> QED
    BY <2>1, AvailableElsewhere
<1>3. CASE Collect \/ Drift
  <2>1. cr' = cr /\ reports' = reports
    BY <1>3 DEF Collect, Drift, apiVars
  <2> QED
    BY <1>3, <2>1, AvailableElsewhere
<1>4. CASE Finish
  <2>1. objs' = objs /\ drifted' = drifted
    BY <1>4 DEF Finish, objVars
  <2>2. CASE UNCHANGED apiVars
    BY <2>1, <2>2, AvailableElsewhere DEF apiVars
  <2>3. CASE PatchStatus
    <3>1. SUFFICES ASSUME Available', NEW i \in 1 .. Len(Plan(cr'.spec))
                   PROVE  InPlace(Plan(cr.spec)[i], cr.uid)'
      BY DEF AvailableMeansInPlace, Available
    <3>2. /\ cur.uid = cr.uid /\ cur.spec = cr.spec /\ Exists(cr) /\ Exists(cur)
          /\ done = Len(Plan(cr.spec))
      BY <1>4, <2>3, <3>1, AvailableByReport
    <3>3. cr'.uid = cr.uid /\ cr'.spec = cr.spec
      BY <2>3, <3>2, PatchedStatus
    <3>4. InPlace(Plan(cr.spec)[i], cr.uid)
      BY <3>1, <3>2, <3>3 DEF DoneStepsInPlace
    <3> QED
      BY <2>1, <3>3, <3>4 DEF InPlace
  <2> QED
    BY <1>4, <2>2, <2>3 DEF Finish, apiVars
<1>5. CASE EditSpec
  <2>1. PICK s \in Specs : cr' = [cr EXCEPT !.spec = s, !.gen = @ + 1]
    BY <1>5 DEF EditSpec
  <2>2. /\ cr \in CRs /\ cr.gen \in Nat /\ cr.status.obsGen \in Nat /\ reports' = reports
    BY <1>5 DEF EditSpec, TypeOK, Exists, CRs, Statuses
  <2>3. cr'.gen = cr.gen + 1 /\ cr'.status = cr.status /\ cr'.uid = cr.uid
    BY <2>1, <2>2 DEF CRs
  <2>4. ASSUME OwnReports' PROVE cr.status.obsGen <= cr.gen
    <3>1. OwnReports
      BY <2>2, <2>3, <2>4 DEF OwnReports
    <3>2. CASE reports = {}
      BY <1>5, <2>2, <3>2 DEF EditSpec, CopyInv, ReportsFollowCache
    <3>3. CASE reports # {}
      <4>1. Exists(cache) /\ cache.uid = cr.uid /\ cr.status.obsGen <= cache.gen
        BY <1>5, <3>1, <3>3 DEF EditSpec, CopyInv, ReportsFollowCache
      <4>2. cache.gen \in Nat /\ cache.gen <= cr.gen
        BY <1>5, <4>1 DEF EditSpec, TypeOK, Exists, CRs, CopyInv, CopiesAreOlder
      <4> QED
        BY <2>2, <4>1, <4>2
    <3> QED
      BY <3>2, <3>3
  <2> QED
    BY <2>2, <2>3, <2>4 DEF AvailableMeansInPlace
<1>6. CASE DeleteCR
  BY <1>6 DEF DeleteCR, AvailableMeansInPlace, Exists
<1>7. CASE CreateCR
  <2>1. cr'.gen = 1 /\ cr'.status.obsGen = 0
    BY <1>7 DEF CreateCR, NewCR
  <2> QED
    BY <2>1 DEF AvailableMeansInPlace
<1> QED
  BY <1>1, <1>2, <1>3, <1>4, <1>5, <1>6, <1>7 DEF Next, Worker

\* The invariant, from its parts.
THEOREM Invariance == Spec => []IInv
<1>1. Init => IInv
  <2>1. Init => DoneStepsInPlace
    BY DEF Init, DoneStepsInPlace, Exists
  <2>2. Init => AvailableMeansInPlace
    BY DEF Init, NewCR, AvailableMeansInPlace
  <2> QED
    BY <2>1, <2>2, InitType, InitCopy DEF IInv
<1>2. IInv /\ [Next]_vars => IInv'
  BY NextType, CopyStep, DoneStep, AvailableStep DEF IInv
<1> QED
  BY <1>1, <1>2, PTL DEF Spec

\* What a reconcile has done stays done while it goes on, whatever the garbage
\* collector, a crash or an earlier incarnation of the CR does meanwhile.
THEOREM DoneSound == Spec => []DoneStepsInPlace
<1>1. IInv => DoneStepsInPlace
  BY DEF IInv
<1> QED
  BY <1>1, Invariance, PTL

\* Available=True for the current generation means that every object the plan of the spec
\* adopts or replaces is there under this CR and that the workloads carry this spec.
THEOREM AvailableSound == Spec => []AvailableMeansInPlace
<1>1. IInv => AvailableMeansInPlace
  BY DEF IInv
<1> QED
  BY <1>1, Invariance, PTL

-----------------------------------------------------------------------------
(* Two CRs. *)

\* What a reconcile has adopted is not another CR's.
SharedAdopted ==
    Exists(cur) => \A i \in 1 .. 3 : i <= done => ~ForeignOwned(RBACPlan[i].id)

\* The shared objects are managed, whatever the spec.
LEMMA SharedManaged ==
    ASSUME TypeOK, Exists(cur), NEW i \in 1 .. 3
    PROVE  RBACPlan[i].id \in ManagedIds
<1>1. cur.spec \in Specs
  BY DEF TypeOK, Exists, CRs
<1>2. /\ Plan(cur.spec)[i] = RBACPlan[i] /\ i \in 1 .. Len(Plan(cur.spec))
  BY <1>1, PlanType, ReconcilerAssumption DEF ReconcilerAssumption
<1>3. RBACPlan[i].op = "adopt"
  BY DEF RBACPlan, Step
<1> QED
  BY <1>1, <1>2, <1>3, StepsOfPlans DEF Ops

\* No step makes an object another CR's.
LEMMA NobodyGivesAway ==
    ASSUME TypeOK, [Next]_vars, NEW id \in ManagedIds, ForeignOwned(id)'
    PROVE  ForeignOwned(id)
<1>1. CASE objs' = objs
  BY <1>1 DEF ForeignOwned
<1>2. CASE Collect \/ Drift
  <2>1. PICK gone \in ManagedIds : objs' = [objs EXCEPT ![gone] = Absent]
    BY <1>2 DEF Collect, Drift
  <2> QED
    BY <2>1 DEF TypeOK, ForeignOwned
<1>3. CASE (StepDone \/ StepFails) /\ Effect(NextStep)
  <2>1. Keeps(id) \/ Takes(NextStep, id)
    BY <1>3, EffectOf DEF StepDone, StepFails
  <2>2. cur.uid \in Incarnations
    BY <1>3, NextStepType DEF StepDone, StepFails, CRs
  <2> QED
    BY <2>1, <2>2 DEF Keeps, Takes, ForeignOwned
<1> QED
  BY <1>1, <1>2, <1>3
  DEF Next, Worker, Start, StepDone, StepFails, MapperMisses, DetectionFails, LabelNamespace,
      StepRefused, Finish, Deliver, Resync, Crash, EditSpec, DeleteCR, CreateCR, SyncProfiles, vars, objVars

\* Every step keeps the shared objects adopted.
LEMMA SharedStep == TypeOK /\ SharedAdopted /\ [Next]_vars => SharedAdopted'
<1> SUFFICES ASSUME TypeOK, SharedAdopted, [Next]_vars,
                    Exists(cur)', NEW i \in 1 .. 3, i <= done'
             PROVE  ~ForeignOwned(RBACPlan[i].id)'
  BY DEF SharedAdopted
<1>1. CASE StepDone
  <2>1. Remaining /\ Effect(NextStep) /\ done' = done + 1 /\ done \in Nat /\ Exists(cur)
    BY <1>1 DEF StepDone, Remaining, TypeOK
  <2>2. CASE i = done + 1
    <3>1. NextStep = RBACPlan[i]
      BY <2>1, <2>2, NextStepType, PlanType, ReconcilerAssumption
      DEF NextStep, ReconcilerAssumption, CRs
    <3>2. NextStep.op = "adopt"
      BY <3>1 DEF RBACPlan, Step
    <3>3. Takes(NextStep, NextStep.id)
      BY <2>1, <3>2, EffectOf DEF OwnedOps
    <3>4. cur.uid \in Incarnations
      BY <2>1, NextStepType DEF CRs
    <3> QED
      BY <3>1, <3>3, <3>4 DEF Takes, ForeignOwned
  <2>3. CASE i <= done
    BY <2>1, <2>3, SharedManaged, NobodyGivesAway DEF SharedAdopted
  <2> QED
    BY <1>1, <2>1, <2>2, <2>3
<1>2. CASE DetectionFails
  <2>1. Remaining /\ done' = done + 1 /\ done \in Nat /\ Exists(cur) /\ NextStep.op = "admission"
    BY <1>2 DEF DetectionFails, AtDetection, Remaining, TypeOK
  <2>2. i # done + 1
    <3>1. SUFFICES ASSUME i = done + 1 PROVE FALSE
      OBVIOUS
    <3>2. NextStep = RBACPlan[i]
      BY <2>1, <3>1, NextStepType, PlanType, ReconcilerAssumption
      DEF NextStep, ReconcilerAssumption, CRs
    <3> QED
      BY <2>1, <3>2 DEF RBACPlan, Step
  <2> QED
    BY <2>1, <2>2, SharedManaged, NobodyGivesAway DEF SharedAdopted
<1>3. CASE Start
  BY <1>3 DEF Start, TypeOK
<1>4. CASE cur' = cur /\ done' = done
  BY <1>4, SharedManaged, NobodyGivesAway DEF SharedAdopted
<1>5. CASE Finish \/ Crash
  BY <1>5 DEF Finish, Crash, Exists
<1> QED
  BY <1>1, <1>2, <1>3, <1>4, <1>5
  DEF Next, Worker, StepFails, MapperMisses, StepRefused, Deliver, Resync, EditSpec, DeleteCR, CreateCR,
      Collect, Drift, SyncProfiles, vars, workerVars

\* A helper that changes an object of another CR replaces it, and nothing is replaced
\* before the shared objects are adopted.
LEMMA ForeignReplaced ==
    ASSUME TypeOK, SharedAdopted, Remaining, Effect(NextStep),
           NEW id \in ManagedIds, ForeignOwned(id), objs'[id] # objs[id]
    PROVE  \A shared \in SharedObjects : ~ForeignOwned(shared)
<1> DEFINE s == NextStep
<1>1. /\ cur \in CRs /\ done + 1 \in 1 .. Len(Plan(cur.spec)) /\ s \in PlanSteps(cur.spec)
      /\ done \in Nat /\ Exists(cur)
  BY NextStepType DEF TypeOK, Remaining
<1>2. id = s.id
  BY EffectOf DEF Keeps, Takes
<1>3. ~CanControl(objs[id], cur.uid)
  BY <1>1, OwnerAssumption DEF CanControl, ForeignOwned, Incarnations, CRs, OwnerAssumption
<1>4. ~Adopt(s)
  BY <1>2, <1>3 DEF Adopt, ForeignOwned
<1>5. ~CreateSnapshotClass(s) /\ ~UNCHANGED objVars
  BY <1>2 DEF CreateSnapshotClass, ForeignOwned, objVars
<1>6. s.op = "replace"
  BY <1>4, <1>5 DEF Effect, PatchProfile, LabelNamespace
<1>7. done >= 4
  <2>1. SUFFICES ASSUME done + 1 \in 1 .. 4 PROVE FALSE
    BY <1>1
  <2>2. s = RBACPlan[done + 1]
    BY <1>1, <2>1, PlanType, ReconcilerAssumption DEF NextStep, ReconcilerAssumption, CRs
  <2> QED
    BY <1>6, <2>1, <2>2 DEF RBACPlan, Step
<1>8. \A i \in 1 .. 3 : ~ForeignOwned(RBACPlan[i].id)
  BY <1>1, <1>7 DEF SharedAdopted
<1> QED
  BY <1>8 DEF RBACPlan, Step, SharedObjects

\* As long as another CR holds one of the shared objects, this one changes nothing of
\* what the other owns, its workloads included.
THEOREM OthersKept == Spec => WorkloadsOfOthersKept
<1>1. Init => SharedAdopted
  BY DEF Init, SharedAdopted, Exists
<1>2. TypeOK /\ SharedAdopted /\ [Next]_vars =>
        [\A id \in ManagedIds :
           (ForeignOwned(id) /\ objs'[id] # objs[id] /\ id \notin drifted')
             => \A shared \in SharedObjects : ~ForeignOwned(shared)]_vars
  <2> SUFFICES ASSUME TypeOK, SharedAdopted, [Next]_vars, NEW id \in ManagedIds,
                      ForeignOwned(id), objs'[id] # objs[id], id \notin drifted'
               PROVE  \A shared \in SharedObjects : ~ForeignOwned(shared)
    OBVIOUS
  <2>1. CASE StepDone \/ StepFails
    BY <2>1, ForeignReplaced DEF StepDone, StepFails, objVars
  <2>2. CASE Collect
    BY <2>2 DEF Collect, Gone, TypeOK, ForeignOwned
  <2>3. CASE Drift
    BY <2>3 DEF Drift, TypeOK
  <2> QED
    BY <2>1, <2>2, <2>3
    DEF Next, Worker, Start, MapperMisses, DetectionFails, LabelNamespace, StepRefused, Finish,
        Deliver, Resync, Crash, EditSpec, DeleteCR, CreateCR, SyncProfiles, vars, objVars
<1> QED
  BY <1>1, <1>2, SharedStep, TypeCorrect, PTL DEF Spec, WorkloadsOfOthersKept
-----------------------------------------------------------------------------
(* Only workloads are replaced.                                             *)

\* A step of a plan changes an existing object that is no workload by taking it over.
LEMMA EffectTakesOver ==
    ASSUME TypeOK, Remaining, NEW s, s = NextStep, Effect(s), NEW id \in ManagedIds,
           id[1] \notin Workloads, objs[id] # Absent, objs'[id] # objs[id]
    PROVE  CanControl(objs[id], cur.uid) /\ objs'[id] = Controlled(objs[id], cur.uid)
<1>1. /\ s \in PlanSteps(cur.spec)
      /\ s.op \in Ops \ {"patch", "off"} => s.id \in ManagedIds
  BY NextStepType
<1>2. objs \in [ManagedIds -> Objects(Data) \cup {Absent}]
  BY DEF TypeOK
<1>3. ASSUME NEW obj, Write(s.id, obj)
      PROVE  id = s.id /\ objs'[id] = obj
  BY <1>2, <1>3 DEF Write
<1>4. CASE Adopt(s)
  BY <1>3, <1>4 DEF Adopt
<1>5. CASE s.op = "replace" /\ Replace(s)
  <2>1. s.id[1] \in Workloads
    BY <1>1, <1>5 DEF PlanSteps
  <2> QED
    BY <1>3, <1>5, <2>1 DEF Replace
<1>6. CASE CreateSnapshotClass(s)
  BY <1>3, <1>6 DEF CreateSnapshotClass, objVars
<1>7. CASE PatchProfile(s) \/ LabelNamespace \/ UNCHANGED objVars
  BY <1>7 DEF PatchProfile, LabelNamespace, objVars
<1> QED
  BY <1>4, <1>5, <1>6, <1>7 DEF Effect

\* What is no workload keeps its content as long as it exists, and passes only from
\* nobody, or a CR of the same name, to the CR in work: for every spec and any holders.
THEOREM TakesOverOnly == Spec => OnlyWorkloadsReplaced
<1>1. ASSUME TypeOK, [Next]_vars, NEW id \in ManagedIds,
             id[1] \notin Workloads, objs[id] # Absent, objs'[id] # objs[id]
      PROVE  \/ objs'[id] = Absent /\ (Gone(objs[id].owner) \/ id \in drifted')
             \/ /\ Exists(cur) /\ CanControl(objs[id], cur.uid)
                /\ objs'[id] = Controlled(objs[id], cur.uid)
  <2>1. objs \in [ManagedIds -> Objects(Data) \cup {Absent}]
    BY <1>1 DEF TypeOK
  <2>2. CASE StepDone \/ StepFails
    <3>1. Remaining /\ (Effect(NextStep) \/ objs' = objs)
      BY <2>2 DEF StepDone, StepFails, objVars
    <3>2. PICK s : s = NextStep
      OBVIOUS
    <3> QED
      BY <1>1, <3>1, <3>2, EffectTakesOver DEF Remaining
  <2>3. CASE Collect
    BY <1>1, <2>1, <2>3 DEF Collect
  <2>4. CASE Drift
    BY <1>1, <2>1, <2>4 DEF Drift
  <2> QED
    BY <1>1, <2>2, <2>3, <2>4
       DEF Next, Worker, Start, MapperMisses, DetectionFails, LabelNamespace, StepRefused,
           Finish, Deliver, Resync, Crash, EditSpec, DeleteCR, CreateCR, SyncProfiles, vars,
           objVars
<1>2. TypeOK /\ [Next]_vars =>
        [\A id \in ManagedIds :
            (id[1] \notin Workloads /\ objs[id] # Absent /\ objs'[id] # objs[id])
               => \/ objs'[id] = Absent /\ (Gone(objs[id].owner) \/ id \in drifted')
                  \/ /\ Exists(cur) /\ CanControl(objs[id], cur.uid)
                     /\ objs'[id] = Controlled(objs[id], cur.uid)]_vars
  BY <1>1
<1> QED
  BY <1>2, TypeCorrect, PTL DEF Spec, OnlyWorkloadsReplaced
=============================================================================
