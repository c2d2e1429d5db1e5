------------------------ MODULE ReconcilerClaimsProofs -----------------------
(***************************************************************************)
(* Proofs of the safety properties of ReconcilerClaims that hold: for any   *)
(* specs, any cluster and any amount of trouble of the kinds they allow.    *)
(***************************************************************************)
EXTENDS ReconcilerClaims, ReconcilerProofs

-----------------------------------------------------------------------------
(* Nothing is forgotten.                                                    *)

\* Without a change under way the cache is what the API server has, and a reconcile no
\* request has overtaken works on it.
CacheInv == ~pending => cache = cr
CurInv == ~pending /\ ~queued /\ Exists(cur) => cur = cr

SyncInv == CacheInv /\ CurInv

\* Every step keeps the copies in step.
LEMMA SyncStep == SyncInv /\ [Next]_vars => SyncInv'
<1> SUFFICES ASSUME SyncInv, [Next]_vars
             PROVE  SyncInv'
  OBVIOUS
<1> USE DEF SyncInv, CacheInv, CurInv
<1>1. CASE Start
  BY <1>1 DEF Start, apiVars
<1>2. CASE StepDone \/ MapperMisses \/ DetectionFails \/ StepRefused \/ StepFails \/ Resync
  BY <1>2 DEF StepDone, MapperMisses, DetectionFails, StepRefused, StepFails, Resync, apiVars
<1>3. CASE Finish
  <2>1. cur' = NoCR
    BY <1>3 DEF Finish
  <2>2. CASE PatchStatus
    <3>1. cache' = cache /\ (~pending' => ~pending /\ cr' = cr)
      BY <2>2 DEF PatchStatus
    <3> QED
      BY <2>1, <3>1 DEF Exists
  <2>3. CASE UNCHANGED apiVars
    BY <2>1, <2>3 DEF apiVars, Exists
  <2> QED
    BY <1>3, <2>2, <2>3 DEF Finish
<1>4. CASE Deliver
  BY <1>4 DEF Deliver
<1>5. CASE Crash
  BY <1>5 DEF Crash, Exists
<1>6. CASE EditSpec \/ DeleteCR \/ CreateCR
  BY <1>6 DEF EditSpec, DeleteCR, CreateCR
<1>7. CASE Collect \/ Drift \/ SyncProfiles \/ UNCHANGED vars
  BY <1>7 DEF Collect, Drift, SyncProfiles, vars, apiVars, workerVars
<1> QED
  BY <1>1, <1>2, <1>3, <1>4, <1>5, <1>6, <1>7 DEF Next, Worker

BindingId == <<"SCCBinding", "shared">>

\* The node pods are let in for the incarnation u.
AdmittedFor(u) ==
    \/ psa
    \/ /\ SCC
       /\ \/ BindingId \in drifted
          \/ objs[BindingId] # Absent /\ objs[BindingId].owner = u

\* Behind the fourth step of its reconcile they are.
AdmittedInv ==
    Exists(cr) /\ Exists(cur) /\ cur.uid = cr.uid /\ done >= 4 => AdmittedFor(cr.uid)

\* The binding is managed, and the fourth step of every plan is about it.
LEMMA FourthStep ==
    ASSUME NEW spec \in Specs
    PROVE  /\ BindingId \in ManagedIds /\ 4 \in 1 .. Len(Plan(spec))
           /\ Plan(spec)[4].op = "admission" /\ Plan(spec)[4].id = BindingId
<1>1. spec \in CRSpecs
  BY ReconcilerAssumption DEF ReconcilerAssumption
<1>2. Len(Plan(spec)) \in Nat /\ 4 \in 1 .. Len(Plan(spec)) /\ Plan(spec)[4] = RBACPlan[4]
  <2>1. Plan(spec) \in Seq(PlanSteps(spec)) /\ Len(Plan(spec)) >= 4
    BY <1>1, PlanType
  <2>2. Plan(spec)[4] = RBACPlan[4]
    BY <1>1, PlanType
  <2> QED
    BY <2>1, <2>2
<1>3. RBACPlan[4].op = "admission" /\ RBACPlan[4].id = BindingId
  BY DEF RBACPlan, Step, BindingId
<1>4. Plan(spec)[4].id \in ManagedIds
  BY <1>2, <1>3, StepsOfPlans DEF Ops
<1> QED
  BY <1>2, <1>3, <1>4

\* A step of the worker takes back no admission.
LEMMA WorkKeepsAdmitted ==
    ASSUME TypeOK, Remaining, Effect(NextStep) \/ UNCHANGED objVars \/ LabelNamespace,
           NEW u, u = cur.uid, AdmittedFor(u)
    PROVE  AdmittedFor(u)'
<1>1. CASE UNCHANGED objVars \/ LabelNamespace
  BY <1>1 DEF objVars, LabelNamespace, AdmittedFor
<1>2. CASE Effect(NextStep)
  <2>1. BindingId \in ManagedIds
    BY NextStepType, FourthStep DEF CRs
  <2>2. Keeps(BindingId) \/ Takes(NextStep, BindingId)
    BY <1>2, <2>1, EffectOf
  <2>3. psa => psa'
    BY <1>2 DEF Effect, Adopt, Replace, CreateSnapshotClass, PatchProfile, LabelNamespace,
                Write, objVars
  <2>4. CASE Keeps(BindingId)
    BY <2>3, <2>4 DEF Keeps, AdmittedFor
  <2>5. CASE Takes(NextStep, BindingId)
    BY <2>3, <2>5, ReconcilerAssumption DEF Takes, AdmittedFor, ReconcilerAssumption
  <2> QED
    BY <2>2, <2>4, <2>5
<1> QED
  BY <1>1, <1>2

\* The fourth step lets the pods in.
LEMMA AdmittedByStep ==
    ASSUME TypeOK, Remaining, done = 3, StepDone \/ DetectionFails, NEW u, u = cur.uid
    PROVE  AdmittedFor(u)'
<1>1. NextStep.op = "admission" /\ NextStep.id = BindingId
  <2>1. cur.spec \in Specs
    BY NextStepType DEF CRs
  <2> QED
    BY <2>1, FourthStep DEF NextStep
<1>2. CASE StepDone
  <2>1. IF SCC THEN Takes(NextStep, BindingId) ELSE LabelNamespace
    BY <1>1, <1>2, EffectOf DEF StepDone
  <2> QED
    BY <2>1, ReconcilerAssumption DEF Takes, LabelNamespace, AdmittedFor, ReconcilerAssumption
<1>3. CASE DetectionFails
  BY <1>3 DEF DetectionFails, LabelNamespace, AdmittedFor
<1> QED
  BY <1>2, <1>3

\* Of the others, the garbage collector spares what the CR owns, and a deleted binding
\* counts as drifted.
LEMMA OthersKeepAdmitted ==
    ASSUME TypeOK, Exists(cr), NEW u, u = cr.uid, AdmittedFor(u),
           Collect \/ Drift \/ (objs' = objs /\ drifted' = drifted /\ psa' = psa)
    PROVE  AdmittedFor(u)'
<1>1. BindingId \in ManagedIds
  BY FourthStep DEF TypeOK, Exists, CRs
<1>2. CASE objs' = objs /\ drifted' = drifted /\ psa' = psa
  BY <1>2 DEF AdmittedFor
<1>3. CASE Collect
  <2>1. PICK id \in ManagedIds : Gone(objs[id].owner) /\ objs' = [objs EXCEPT ![id] = Absent]
    BY <1>3 DEF Collect
  <2>2. objs[id].owner # u
    BY <2>1 DEF Gone
  <2>3. drifted' = drifted /\ psa' = psa
    BY <1>3 DEF Collect
  <2> QED
    BY <1>1, <2>1, <2>2, <2>3 DEF TypeOK, AdmittedFor
<1>4. CASE Drift
  <2>1. PICK id \in ManagedIds : /\ objs' = [objs EXCEPT ![id] = Absent]
                                 /\ drifted' = drifted \cup {id}
    BY <1>4 DEF Drift
  <2>2. psa' = psa
    BY <1>4 DEF Drift
  <2> QED
    BY <1>1, <2>1, <2>2 DEF TypeOK, AdmittedFor
<1> QED
  BY <1>2, <1>3, <1>4

\* Every step keeps the pods let in.
LEMMA AdmittedStep == TypeOK /\ CopyInv /\ AdmittedInv /\ [Next]_vars => AdmittedInv'
<1> SUFFICES ASSUME TypeOK, CopyInv, AdmittedInv, [Next]_vars
             PROVE  AdmittedInv'
  OBVIOUS
<1>1. CASE StepDone \/ DetectionFails
  <2>1. Remaining /\ cr' = cr /\ cur' = cur /\ done' = done + 1 /\ done \in Nat
    BY <1>1 DEF StepDone, DetectionFails, AtDetection, apiVars, TypeOK
  <2>2. ASSUME Exists(cr), Exists(cur), NEW u, u = cr.uid, u = cur.uid, done + 1 >= 4
        PROVE  AdmittedFor(u)'
    <3>1. CASE done = 3
      BY <1>1, <2>1, <2>2, <3>1, AdmittedByStep
    <3>2. CASE done >= 4
      <4>1. AdmittedFor(u)
        BY <2>2, <3>2 DEF AdmittedInv
      <4>2. Effect(NextStep) \/ LabelNamespace
        BY <1>1 DEF StepDone, DetectionFails
      <4> QED
        BY <2>1, <2>2, <4>1, <4>2, WorkKeepsAdmitted
    <3> QED
      BY <2>1, <2>2, <3>1, <3>2
  <2> QED
    BY <2>1, <2>2 DEF AdmittedInv, AdmittedFor, Exists
<1>2. CASE StepFails
  <2>1. /\ Remaining /\ cr' = cr /\ cur' = cur /\ done' = done
        /\ Effect(NextStep) \/ UNCHANGED objVars
    BY <1>2 DEF StepFails, apiVars
  <2>2. ASSUME Exists(cr), Exists(cur), NEW u, u = cr.uid, u = cur.uid, done >= 4
        PROVE  AdmittedFor(u)'
    BY <2>1, <2>2, WorkKeepsAdmitted DEF AdmittedInv
  <2> QED
    BY <2>1, <2>2 DEF AdmittedInv, AdmittedFor, Exists
<1>3. CASE Start \/ Finish \/ Crash
  BY <1>3 DEF Start, Finish, Crash, AdmittedInv, TypeOK, Exists
<1>4. CASE MapperMisses \/ StepRefused \/ Deliver \/ Resync \/ SyncProfiles \/ Collect \/ Drift
           \/ UNCHANGED vars
  <2>1. cr' = cr /\ cur' = cur /\ done' = done
    BY <1>4 DEF MapperMisses, StepRefused, Deliver, Resync, SyncProfiles, Collect, Drift, vars,
                apiVars, workerVars
  <2>2. Collect \/ Drift \/ (objs' = objs /\ drifted' = drifted /\ psa' = psa)
    BY <1>4 DEF MapperMisses, StepRefused, Deliver, Resync, SyncProfiles, vars, objVars
  <2>3. ASSUME Exists(cr), Exists(cur), NEW u, u = cr.uid, u = cur.uid, done >= 4
        PROVE  AdmittedFor(u)'
    BY <2>2, <2>3, OthersKeepAdmitted DEF AdmittedInv
  <2> QED
    BY <2>1, <2>3 DEF AdmittedInv, AdmittedFor, Exists
<1>5. CASE EditSpec
  <2>1. cr'.uid = cr.uid /\ Exists(cr)
    BY <1>5 DEF EditSpec, TypeOK, Exists, CRs
  <2> QED
    BY <1>5, <2>1 DEF EditSpec, workerVars, objVars, AdmittedInv, AdmittedFor, Exists
<1>6. CASE DeleteCR
  BY <1>6 DEF DeleteCR, AdmittedInv, Exists
<1>7. CASE CreateCR
  <2>1. PICK u \in Incarnations \ used, s \in Specs : cr' = NewCR(u, s)
    BY <1>7 DEF CreateCR
  <2>2. Exists(cur)' => cur'.uid # cr'.uid
    BY <1>7, <2>1 DEF CreateCR, workerVars, NewCR, CopyInv, KnownUids, Exists
  <2> QED
    BY <2>2 DEF AdmittedInv
<1> QED
  BY <1>1, <1>2, <1>3, <1>4, <1>5, <1>6, <1>7 DEF Next, Worker

\* A reconcile that ends without another to come has carried out the plan there is.
LEMMA SettledByFinish ==
    ASSUME IInv, SyncInv, AdmittedInv, Finish, Quiet'
    PROVE  (Settled /\ Admitted)'
<1>1. /\ Exists(cur) /\ ~Remaining /\ ~queued /\ ~failed
      /\ UNCHANGED <<objs, drifted, psa>>
  BY DEF Finish, Quiet, objVars
<1>2. cr' = cr /\ ~pending
  <2>1. ~pending'
    BY DEF Quiet
  <2>2. CASE PatchStatus
    BY <2>1, <2>2 DEF PatchStatus
  <2>3. CASE UNCHANGED apiVars
    BY <2>1, <2>3 DEF apiVars
  <2> QED
    BY <2>2, <2>3 DEF Finish
<1>3. cur = cr /\ Exists(cr)
  BY <1>1, <1>2 DEF SyncInv, CurInv, Exists
<1>4. done = Len(Plan(cr.spec)) /\ done >= 4
  <2>1. Len(Plan(cr.spec)) \in Nat /\ Len(Plan(cr.spec)) >= 4
    BY <1>3, PlanType, ReconcilerAssumption DEF ReconcilerAssumption, IInv, TypeOK, Exists, CRs
  <2> QED
    BY <1>1, <1>3, <2>1 DEF Remaining, IInv, TypeOK
<1>5. Settled
  BY <1>3, <1>4 DEF IInv, DoneStepsInPlace, Settled
<1>6. AdmittedFor(cr.uid)
  BY <1>3, <1>4 DEF AdmittedInv
<1> QED
  BY <1>1, <1>2, <1>5, <1>6
     DEF Settled, Admitted, AdmittedFor, InPlace, IsControlledBy, BindingId, Exists

\* What is settled stays so while all is quiet.
LEMMA StaysSettled ==
    ASSUME TypeOK, Settled, Admitted, cr' = cr,
           Collect \/ Drift \/ (objs' = objs /\ drifted' = drifted /\ psa' = psa)
    PROVE  (Settled /\ Admitted)'
<1>1. SUFFICES ASSUME Exists(cr)
               PROVE  (Settled /\ Admitted)'
  BY DEF Settled, Admitted, Exists
<1>2. cr.spec \in Specs
  BY <1>1 DEF TypeOK, Exists, CRs
<1>3. ASSUME NEW i \in 1 .. Len(Plan(cr.spec)), NEW t, t = Plan(cr.spec)[i], NEW u, u = cr.uid
      PROVE  InPlace(t, u)'
  <2>1. InPlace(t, u)
    BY <1>1, <1>3 DEF Settled
  <2> QED
    BY <1>1, <1>2, <1>3, <2>1, OthersKeepInPlace
<1>4. ASSUME NEW u, u = cr.uid
      PROVE  AdmittedFor(u)'
  <2>1. AdmittedFor(u)
    BY <1>1, <1>4 DEF Admitted, AdmittedFor, IsControlledBy, BindingId
  <2> QED
    BY <1>1, <1>4, <2>1, OthersKeepAdmitted
<1> QED
  BY <1>3, <1>4 DEF Settled, Admitted, AdmittedFor, InPlace, IsControlledBy, BindingId

\* Every step leaves a quiet cluster settled.
LEMMA SettledStep ==
    IInv /\ SyncInv /\ AdmittedInv /\ QuietMeansSettled /\ [Next]_vars => QuietMeansSettled'
<1> SUFFICES ASSUME IInv, SyncInv, AdmittedInv, QuietMeansSettled, [Next]_vars, Quiet'
             PROVE  (Settled /\ Admitted)'
  BY DEF QuietMeansSettled
<1>1. CASE Finish
  BY <1>1, SettledByFinish
<1>2. CASE Start
  <2>1. ~pending /\ cr' = cr /\ ~Exists(cache)
    BY <1>2 DEF Start, Quiet, apiVars, Exists
  <2>2. ~Exists(cr')
    BY <2>1 DEF SyncInv, CacheInv
  <2> QED
    BY <2>2 DEF Settled, Admitted, Exists
<1>3. CASE Crash
  BY <1>3 DEF Crash, Quiet, Settled, Admitted, Exists
<1>4. CASE Collect \/ Drift \/ SyncProfiles \/ UNCHANGED vars
  <2>1. Quiet /\ cr' = cr
    BY <1>4 DEF Collect, Drift, SyncProfiles, vars, apiVars, workerVars, Quiet, Exists
  <2>2. Collect \/ Drift \/ (objs' = objs /\ drifted' = drifted /\ psa' = psa)
    BY <1>4 DEF SyncProfiles, vars, objVars
  <2> QED
    BY <2>1, <2>2, StaysSettled DEF QuietMeansSettled, IInv
<1>5. CASE StepDone \/ MapperMisses \/ DetectionFails \/ StepRefused \/ StepFails
  BY <1>5 DEF StepDone, MapperMisses, DetectionFails, StepRefused, StepFails, AtDetection,
              Remaining, Quiet, Exists
<1>6. CASE Deliver \/ Resync \/ EditSpec \/ DeleteCR \/ CreateCR
  BY <1>6 DEF Deliver, Resync, EditSpec, DeleteCR, CreateCR, Quiet
<1> QED
  BY <1>1, <1>2, <1>3, <1>4, <1>5, <1>6 DEF Next, Worker

\* When all is quiet every object the plan of the last spec adopts or replaces is there
\* under the CR, every workload carries its parameters and the node pods are let in,
\* whatever was edited, crashed, failed, deleted and created again before, and whatever
\* the kinds of trouble.
THEOREM QuietSettled == Spec => []QuietMeansSettled
<1>1. Init => SyncInv /\ AdmittedInv /\ QuietMeansSettled
  BY DEF Init, SyncInv, CacheInv, CurInv, AdmittedInv, QuietMeansSettled, Quiet, Exists
<1>2. IInv => TypeOK /\ CopyInv
  BY DEF IInv
<1> QED
  BY <1>1, <1>2, SyncStep, AdmittedStep, SettledStep, Invariance, PTL DEF Spec

-----------------------------------------------------------------------------
(* When all is quiet the status describes the spec there is.               *)

QuietInv == SyncInv /\ QuietMeansObserved

\* What is reported of a spec that has been carried out to the end.
InForce(c) == [obsGen    |-> c.gen,
               disk      |-> c.spec.disk.enabled,
               nas       |-> c.spec.nas.enabled,
               available |-> "True"]

\* A report that changes nothing found itself in the status.
LEMMA ReportChangesNothing ==
    ASSUME TypeOK, Exists(cr), cur = cr, Finish, PatchStatus, ~pending', ~failed
    PROVE  cr' = cr /\ cr.status = InForce(cr)
<1>1. PICK sameSecond \in SameSecond :
        /\ cr' = [cr EXCEPT !.status = MergePatch(cr.status, cur.status, Report, sameSecond)]
        /\ pending' = (pending \/ cr' # cr \/ ~sameSecond)
  BY DEF PatchStatus
<1>2. cr' = cr /\ sameSecond
  BY <1>1
<1>3. /\ cr \in CRs /\ cr.status \in Statuses
      /\ DOMAIN cr.status = {"obsGen", "disk", "nas", "available"}
  BY DEF TypeOK, Exists, CRs, Statuses
<1>4. cr.status = MergePatch(cr.status, cr.status, Report, sameSecond)
  BY <1>1, <1>2, <1>3 DEF CRs
<1>5. \A f \in {"obsGen", "disk", "nas", "available"} : cr.status[f] = Report[f]
  BY <1>2, <1>3, <1>4 DEF MergePatch
<1>6. Report = InForce(cr)
  <2>1. ~Remaining
    BY DEF Finish
  <2>2. done \in Nat /\ done <= Len(Plan(cr.spec))
    BY DEF TypeOK
  <2>3. cr.spec \in CRSpecs
    BY <1>3, ReconcilerAssumption DEF CRs, ReconcilerAssumption
  <2>4. /\ Len(Plan(cr.spec)) \in Nat
        /\ DiskDone(cr.spec) \in Nat /\ DiskDone(cr.spec) <= Len(Plan(cr.spec))
    BY <2>3, PlanType
  <2>5. done >= DiskDone(cr.spec)
    BY <2>1, <2>2, <2>4 DEF Remaining
  <2>6. cr.spec.disk.enabled \in BOOLEAN /\ cr.spec.nas.enabled \in BOOLEAN
    BY <2>3 DEF CRSpecs, DiskSpecs, NASSpecs
  <2> QED
    BY <2>5, <2>6 DEF Report, InForce
<1>7. cr.status = [obsGen |-> cr.status.obsGen, disk |-> cr.status.disk,
                   nas |-> cr.status.nas, available |-> cr.status.available]
  BY <1>3 DEF Statuses
<1>8. cr.status = InForce(cr)
  BY <1>5, <1>6, <1>7 DEF InForce
<1> QED
  BY <1>2, <1>8

\* Without failing status patches every step keeps it.
LEMMA QuietStep ==
    ASSUME "status" \notin Allowed
    PROVE  TypeOK /\ QuietInv /\ [Next]_vars => QuietInv'
<1> SUFFICES ASSUME TypeOK, QuietInv, [Next]_vars
             PROVE  QuietInv'
  OBVIOUS
<1> USE DEF QuietInv, SyncInv, CacheInv, CurInv, QuietMeansObserved, Quiet
<1>1. CASE Start
  BY <1>1 DEF Start, apiVars
<1>2. CASE StepDone \/ MapperMisses \/ DetectionFails \/ StepRefused \/ StepFails
  BY <1>2 DEF StepDone, MapperMisses, DetectionFails, StepRefused, StepFails, apiVars
<1>3. CASE Finish
  <2>1. cur' = NoCR /\ queued' = (queued \/ failed) /\ Exists(cur)
    BY <1>3 DEF Finish
  <2>2. CASE PatchStatus
    <3>1. SUFFICES ASSUME ~pending'
                   PROVE  cache' = cr' /\ (~queued' => cr'.status = InForce(cr'))
      BY <2>1 DEF Exists, InForce
    <3>2. ~pending /\ cr' = cr /\ cache' = cache
      BY <2>2, <3>1 DEF PatchStatus
    <3>3. CASE ~queued'
      <4>1. cur = cr /\ Exists(cr) /\ ~failed
        BY <2>1, <2>2, <3>2, <3>3 DEF PatchStatus
      <4> QED
        BY <1>3, <2>2, <3>1, <3>2, <4>1, ReportChangesNothing
    <3> QED
      BY <3>2, <3>3
  <2>3. CASE ~Exists(cr) /\ UNCHANGED apiVars
    BY <2>1, <2>3 DEF apiVars, Exists
  <2> QED
    BY <1>3, <2>2, <2>3 DEF Finish, Trouble
<1>4. CASE Deliver
  BY <1>4 DEF Deliver
<1>5. CASE Resync
  BY <1>5 DEF Resync, apiVars
<1>6. CASE Crash
  BY <1>6 DEF Crash, Exists
<1>7. CASE EditSpec \/ DeleteCR \/ CreateCR
  BY <1>7 DEF EditSpec, DeleteCR, CreateCR
<1>8. CASE Collect \/ Drift \/ SyncProfiles
  BY <1>8 DEF Collect, Drift, SyncProfiles, apiVars, workerVars
<1>9. CASE UNCHANGED vars
  BY <1>9 DEF vars, apiVars, workerVars
<1> QED
  BY <1>1, <1>2, <1>3, <1>4, <1>5, <1>6, <1>7, <1>8, <1>9 DEF Next, Worker

\* As long as no status patch fails, a quiet cluster has its last spec observed, through
\* edits, crashes, failures and recreations of the CR.
THEOREM QuietObserved ==
    ASSUME "status" \notin Allowed
    PROVE  Spec => []QuietMeansObserved
<1>1. Init => QuietInv
  BY DEF Init, QuietInv, SyncInv, CacheInv, CurInv, QuietMeansObserved, Quiet
<1>2. QuietInv => QuietMeansObserved
  BY DEF QuietInv
<1> QED
  BY <1>1, <1>2, QuietStep, TypeCorrect, PTL DEF Spec

-----------------------------------------------------------------------------
(* Teardown.                                                                *)

\* What is not as others left it is owned by an incarnation that has been.
OwnersKnown ==
    \A id \in ManagedIds :
        objs[id] # Absent =>
            \/ objs[id].owner \in used
            \/ objs[id].owner \notin Incarnations /\ objs[id].data = "old"

\* Every step keeps it.
LEMMA OwnersStep == TypeOK /\ CopyInv /\ OwnersKnown /\ [Next]_vars => OwnersKnown'
<1> SUFFICES ASSUME TypeOK, CopyInv, OwnersKnown, [Next]_vars
             PROVE  OwnersKnown'
  OBVIOUS
<1>1. CASE Remaining /\ used' = used /\ Effect(NextStep)
  <2>1. cur.uid \in used
    BY <1>1 DEF CopyInv, KnownUids, Remaining
  <2> SUFFICES ASSUME NEW id \in ManagedIds, objs'[id] # Absent
               PROVE  \/ objs'[id].owner \in used
                      \/ objs'[id].owner \notin Incarnations /\ objs'[id].data = "old"
    BY <1>1 DEF OwnersKnown
  <2>2. CASE Keeps(id)
    BY <2>2 DEF Keeps, OwnersKnown
  <2>3. CASE Takes(NextStep, id)
    BY <2>1, <2>3 DEF Takes
  <2> QED
    BY <1>1, <2>2, <2>3, EffectOf
<1>2. CASE objs' = objs /\ used \subseteq used'
  BY <1>2 DEF OwnersKnown
<1>3. CASE Collect \/ Drift
  <2>1. used' = used
    BY <1>3 DEF Collect, Drift, apiVars
  <2>2. \A id \in ManagedIds : objs'[id] # Absent => objs'[id] = objs[id]
    BY <1>3 DEF Collect, Drift, TypeOK
  <2> QED
    BY <2>1, <2>2 DEF OwnersKnown
<1>4. CASE StepDone \/ StepFails
  <2>1. Remaining /\ used' = used /\ (Effect(NextStep) \/ objs' = objs)
    BY <1>4 DEF StepDone, StepFails, apiVars, objVars
  <2> QED
    BY <1>1, <1>2, <2>1
<1>5. CASE Start \/ MapperMisses \/ DetectionFails \/ StepRefused \/ Finish \/ Deliver \/ Resync
           \/ Crash \/ EditSpec \/ DeleteCR \/ CreateCR \/ SyncProfiles \/ UNCHANGED vars
  BY <1>2, <1>5
     DEF Start, MapperMisses, DetectionFails, LabelNamespace, StepRefused, Finish, PatchStatus,
         Deliver, Resync, Crash, EditSpec, DeleteCR, CreateCR, SyncProfiles, vars, apiVars, objVars
<1> QED
  BY <1>3, <1>4, <1>5 DEF Next, Worker

\* What is left to the garbage collector is all there is: once it has come round, the
\* operator's objects are torn down.
LEMMA CollectedIsTornDown ==
    ASSUME NothingLeftBehind, \A id \in ManagedIds : objs[id] # Absent => ~Gone(objs[id].owner)
    PROVE  TornDown
  BY DEF NothingLeftBehind, TornDown

\* A deleted CR leaves nothing behind the garbage collector would not find: through crashes,
\* failures, recreations and reconciles that outlive their CR.
THEOREM TeardownSound == Spec => []NothingLeftBehind
<1>1. Init => OwnersKnown
  <2> SUFFICES ASSUME Init, NEW id \in ManagedIds, objs[id] # Absent
               PROVE  objs[id].owner \notin Incarnations /\ objs[id].data = "old"
    BY DEF OwnersKnown
  <2>1. PICK origin \in {"fresh", "legacy", "foreign"} : objs \in FirstObjects(origin)
    BY ReconcilerAssumption DEF Init, ReconcilerAssumption
  <2>2. ASSUME NEW kinds, NEW u \in {NoOwner} \cup (Uids \ Incarnations),
               objs = OfKinds(kinds, u)
        PROVE  objs[id].owner \notin Incarnations /\ objs[id].data = "old"
    <3>1. u \notin Incarnations
      BY OwnerAssumption DEF OwnerAssumption, Incarnations
    <3> QED
      BY <2>2, <3>1 DEF OfKinds, Leftover
  <2> QED
    BY <2>1, <2>2 DEF FirstObjects
<1>2. OwnersKnown => NothingLeftBehind
  BY DEF OwnersKnown, NothingLeftBehind, Gone
<1>3. IInv => TypeOK /\ CopyInv
  BY DEF IInv
<1> QED
  BY <1>1, <1>2, <1>3, OwnersStep, Invariance, PTL DEF Spec

-----------------------------------------------------------------------------
(* The admission backend.                                                   *)

\* On OpenShift the namespace is labelled only when a discovery request has failed: as
\* long as none does, the fallback is never taken, whatever else fails.
THEOREM FallbackNeedsDegraded ==
    ASSUME SCC, "discovery" \notin Allowed
    PROVE  Spec => []FallbackIsGenuine
<1>1. Init => ~psa
  BY DEF Init
<1>2. ~psa /\ [Next]_vars => ~psa'
  <2> SUFFICES ASSUME ~psa, [Next]_vars
               PROVE  psa' = psa
    OBVIOUS
  <2>1. CASE StepDone \/ StepFails
    BY <2>1 DEF StepDone, StepFails, Effect, Adopt, Replace, CreateSnapshotClass, PatchProfile,
                Write, objVars
  <2>2. CASE DetectionFails
    BY <2>2 DEF DetectionFails, Trouble
  <2> QED
    BY <2>1, <2>2
       DEF Next, Worker, Start, MapperMisses, StepRefused, Finish, Deliver, Resync, Crash,
           EditSpec, DeleteCR, CreateCR, Collect, Drift, SyncProfiles, vars, objVars
<1>3. ~psa => FallbackIsGenuine
  BY DEF FallbackIsGenuine
<1> QED
  BY <1>1, <1>2, <1>3, PTL DEF Spec

-----------------------------------------------------------------------------
(* A linked snapshot class exists.                                          *)

\* Steps that link profiles to snap, if to any class.
Linking(snap) == {s \in Steps : s.op = "patch" => s.snap \in {NoName, snap}}

\* A sequence is one of whatever its elements are.
LEMMA SeqOf ==
    ASSUME NEW S, NEW T, NEW p \in Seq(S), \A i \in 1 .. Len(p) : p[i] \in T
    PROVE  p \in Seq(T)
  OBVIOUS

\* What is where in two sequences put one after the other.
LEMMA ConcatAt ==
    ASSUME NEW S, NEW s \in Seq(S), NEW t \in Seq(S), NEW p, p = s \o t
    PROVE  /\ p \in Seq(S) /\ Len(p) = Len(s) + Len(t)
           /\ \A k \in 1 .. Len(p) : p[k] = IF k <= Len(s) THEN s[k] ELSE t[k - Len(s)]
  OBVIOUS

\* What is at k in five sequences one after the other.
InFive(a, b, c, d, e, k) ==
    LET kb == k - Len(a)
        kc == kb - Len(b)
        kd == kc - Len(c)
    IN  IF k <= Len(a) THEN a[k]
        ELSE IF kb <= Len(b) THEN b[kb]
        ELSE IF kc <= Len(c) THEN c[kc]
        ELSE IF kd <= Len(d) THEN d[kd]
        ELSE e[kd - Len(d)]

\* A plan with the disk driver is put together of five parts like this.
Five(a, b, c, d, e) == (a \o ((b \o c) \o d)) \o e

PartsOf(p, a, b, c, d, e) ==
    /\ Len(p) = Len(a) + Len(b) + Len(c) + Len(d) + Len(e)
    /\ \A k \in 1 .. Len(p) : p[k] = InFive(a, b, c, d, e, k)

\* The parts are where they should be.
LEMMA PartsAt ==
    ASSUME NEW S, NEW a \in Seq(S), NEW b \in Seq(S), NEW c \in Seq(S), NEW d \in Seq(S),
           NEW e \in Seq(S)
    PROVE  PartsOf(Five(a, b, c, d, e), a, b, c, d, e)
<1>1. PICK q : q = b \o c
  OBVIOUS
<1>2. PICK r : r = q \o d
  OBVIOUS
<1>3. PICK t : t = a \o r
  OBVIOUS
<1>4. PICK p : p = t \o e
  OBVIOUS
<1>5. q \in Seq(S) /\ r \in Seq(S) /\ t \in Seq(S)
  BY <1>1, <1>2, <1>3
<1>6. /\ Len(q) = Len(b) + Len(c)
      /\ \A k \in 1 .. Len(q) : q[k] = IF k <= Len(b) THEN b[k] ELSE c[k - Len(b)]
  BY <1>1, ConcatAt
<1>7. /\ Len(r) = Len(q) + Len(d)
      /\ \A k \in 1 .. Len(r) : r[k] = IF k <= Len(q) THEN q[k] ELSE d[k - Len(q)]
  BY <1>2, <1>5, ConcatAt
<1>8. /\ Len(t) = Len(a) + Len(r)
      /\ \A k \in 1 .. Len(t) : t[k] = IF k <= Len(a) THEN a[k] ELSE r[k - Len(a)]
  BY <1>3, <1>5, ConcatAt
<1>9. /\ Len(p) = Len(t) + Len(e)
      /\ \A k \in 1 .. Len(p) : p[k] = IF k <= Len(t) THEN t[k] ELSE e[k - Len(t)]
  BY <1>4, <1>5, ConcatAt
<1>10. Len(p) = Len(a) + Len(b) + Len(c) + Len(d) + Len(e)
  BY <1>6, <1>7, <1>8, <1>9
<1>11. \A i \in 1 .. Len(r) :
         /\ r[i] = IF i <= Len(b) THEN b[i]
                   ELSE IF i - Len(b) <= Len(c) THEN c[i - Len(b)]
                   ELSE d[i - Len(b) - Len(c)]
         /\ i - Len(b) - Len(c) <= Len(d)
  <2> SUFFICES ASSUME NEW i \in 1 .. Len(r)
               PROVE  /\ r[i] = IF i <= Len(b) THEN b[i]
                                ELSE IF i - Len(b) <= Len(c) THEN c[i - Len(b)]
                                ELSE d[i - Len(b) - Len(c)]
                      /\ i - Len(b) - Len(c) <= Len(d)
    OBVIOUS
  <2>1. Len(b) \in Nat /\ Len(c) \in Nat /\ Len(d) \in Nat /\ i \in Nat \ {0}
    BY <1>6, <1>7
  <2>2. i <= Len(q) => i \in 1 .. Len(q)
    BY <1>6, <2>1
  <2>3. i - Len(q) = i - Len(b) - Len(c)
    BY <1>6, <2>1
  <2>4. CASE i <= Len(q)
    BY <1>6, <1>7, <2>1, <2>2, <2>4
  <2>5. CASE i > Len(q)
    BY <1>6, <1>7, <2>1, <2>3, <2>5
  <2> QED
    BY <1>6, <2>1, <2>4, <2>5
<1>12. \A k \in 1 .. Len(p) : p[k] = InFive(a, b, c, d, e, k)
  <2>1. SUFFICES ASSUME NEW k \in 1 .. Len(p)
                 PROVE  p[k] = InFive(a, b, c, d, e, k)
    OBVIOUS
  <2>2. Len(a) \in Nat /\ Len(b) \in Nat /\ Len(c) \in Nat /\ Len(d) \in Nat
    OBVIOUS
  <2>3. CASE k <= Len(a)
    BY <1>6, <1>7, <1>8, <1>9, <2>2, <2>3 DEF InFive
  <2>4. CASE k > Len(a) /\ k <= Len(a) + Len(r)
    <3>1. p[k] = r[k - Len(a)] /\ k - Len(a) \in 1 .. Len(r)
      BY <1>8, <1>9, <2>2, <2>4, <1>5
    <3>2. /\ p[k] = IF k - Len(a) <= Len(b) THEN b[k - Len(a)]
                    ELSE IF k - Len(a) - Len(b) <= Len(c) THEN c[k - Len(a) - Len(b)]
                    ELSE d[k - Len(a) - Len(b) - Len(c)]
          /\ k - Len(a) - Len(b) - Len(c) <= Len(d)
      BY <1>11, <2>2, <3>1
    <3> QED
      BY <2>2, <2>4, <3>2 DEF InFive
  <2>5. CASE k > Len(a) + Len(r)
    BY <1>6, <1>7, <1>8, <1>9, <2>2, <2>5 DEF InFive
  <2> QED
    BY <1>5, <2>2, <2>3, <2>4, <2>5
<1>13. p = Five(a, b, c, d, e)
  BY <1>1, <1>2, <1>3, <1>4 DEF Five
<1> QED
  BY <1>10, <1>12, <1>13 DEF PartsOf

\* The loop over a driver's classes links its profiles to the one class it is given.
LEMMA ClassPlanLinks ==
    ASSUME NEW classes \in Seq(ClassNames), NEW hasDefault \in BOOLEAN, NEW patch \in BOOLEAN,
           NEW claims \in {"diskClaims", "nasClaims"}, NEW snap \in SnapNames \cup {NoName}
    PROVE  ClassPlan(classes, hasDefault, patch, claims, snap) \in Seq(Linking(snap))
<1> DEFINE p == ClassPlan(classes, hasDefault, patch, claims, snap)
<1>1. p \in Seq(PlanSteps(0))
  BY ClassPlanType
<1>2. DOMAIN p = 1 .. 2 * Len(classes)
  BY DEF ClassPlan
<1>3. ASSUME NEW i \in DOMAIN p
      PROVE  p[i].op = "patch" => p[i].snap = snap
  <2>1. CASE i % 2 = 1
    BY <1>2, <1>3, <2>1 DEF ClassPlan, Step
  <2>2. CASE i % 2 # 1
    BY <1>2, <1>3, <2>2 DEF ClassPlan, ProfileStep
  <2> QED
    BY <2>1, <2>2
<1> HIDE DEF p
<1>4. \A i \in 1 .. Len(p) : p[i] \in Linking(snap)
  BY <1>1, <1>3 DEF Linking, PlanSteps
<1>5. p \in Seq(Linking(snap))
  BY <1>1, <1>4, SeqOf
<1> QED
  BY <1>5 DEF p

\* The parts of a plan that patch nothing.
LEMMA OthersLink ==
    ASSUME NEW spec \in CRSpecs, NEW snap, NEW driver \in {"disk", "nas"}
    PROVE  /\ RBACPlan \in Seq(Linking(snap)) /\ Len(RBACPlan) = 4
           /\ ComponentPlan(driver, spec.params) \in Seq(Linking(snap))
           /\ Len(ComponentPlan(driver, spec.params)) = 3
           /\ \A i \in 1 .. 4 : RBACPlan[i].op # "patch"
           /\ \A i \in 1 .. 3 : ComponentPlan(driver, spec.params)[i].op # "patch"
<1>1. /\ RBACPlan \in Seq(PlanSteps(spec)) /\ Len(RBACPlan) = 4
      /\ ComponentPlan(driver, spec.params) \in Seq(PlanSteps(spec))
  BY RBACPlanType, ComponentPlanType
<1>2. /\ \A i \in 1 .. 4 : RBACPlan[i].op # "patch"
      /\ Len(ComponentPlan(driver, spec.params)) = 3
      /\ \A i \in 1 .. 3 : ComponentPlan(driver, spec.params)[i].op # "patch"
  BY DEF RBACPlan, ComponentPlan, Step
<1>3. /\ \A i \in 1 .. Len(RBACPlan) : RBACPlan[i] \in Linking(snap)
      /\ \A i \in 1 .. 3 : ComponentPlan(driver, spec.params)[i] \in Linking(snap)
  BY <1>1, <1>2 DEF Linking, PlanSteps
<1>4. /\ RBACPlan \in Seq(Linking(snap))
      /\ ComponentPlan(driver, spec.params) \in Seq(Linking(snap))
  BY <1>1, <1>2, <1>3, SeqOf
<1> QED
  BY <1>1, <1>2, <1>4

\* The NAS driver links nothing.
LEMMA NASPlanLinks ==
    ASSUME NEW spec \in CRSpecs
    PROVE  NASPlan(spec) \in Seq(Linking(NoName))
<1>1. spec.nas.classes \in Seq(ClassNames) /\ spec.nas.patch \in BOOLEAN
  BY DEF CRSpecs, NASSpecs
<1>2. ClassPlan(spec.nas.classes, FALSE, spec.nas.patch, "nasClaims", NoName)
         \in Seq(Linking(NoName))
  BY <1>1, ClassPlanLinks
<1>3. ComponentPlan("nas", spec.params) \in Seq(Linking(NoName))
  BY OthersLink
<1>4. << >> \in Seq(Linking(NoName))
  OBVIOUS
<1> QED
  BY <1>2, <1>3, <1>4, ConcatType DEF NASPlan

\* A step that links a profile comes after the one that makes the class, unless the class
\* is only named.
LEMMA LinksAfterMaking ==
    ASSUME NEW spec \in Specs, NEW i \in 1 .. Len(Plan(spec)),
           Plan(spec)[i].op = "patch", Plan(spec)[i].snap \notin NamedOnly \cup {NoName}
    PROVE  \E j \in 1 .. i - 1 :
              /\ Plan(spec)[j].op = "create"
              /\ Plan(spec)[j].id = <<"VolumeSnapshotClass", Plan(spec)[i].snap>>
<1>1. spec \in CRSpecs
  BY ReconcilerAssumption DEF ReconcilerAssumption
<1>2. NASPlan(spec) \in Seq(Linking(NoName))
  BY <1>1, NASPlanLinks
<1>3. \A name : RBACPlan \in Seq(Linking(name))
  BY <1>1, OthersLink
<1>4. Len(RBACPlan) = 4 /\ \A k \in 1 .. 4 : RBACPlan[k].op # "patch"
  BY <1>1, OthersLink
<1>5. spec.disk.enabled
  <2>1. SUFFICES ASSUME ~spec.disk.enabled
                 PROVE  FALSE
    OBVIOUS
  <2>2. Plan(spec) = RBACPlan \o NASPlan(spec)
    <3>1. RBACPlan \o << >> = RBACPlan
      BY DEF RBACPlan
    <3> QED
      BY <2>1, <3>1 DEF Plan, DiskPlan
  <2>3. /\ Len(Plan(spec)) = Len(RBACPlan) + Len(NASPlan(spec))
        /\ \A k \in 1 .. Len(Plan(spec)) :
              Plan(spec)[k] = IF k <= Len(RBACPlan) THEN RBACPlan[k]
                              ELSE NASPlan(spec)[k - Len(RBACPlan)]
    BY <1>2, <1>3, <2>2, ConcatAt
  <2>4. i \notin 1 .. 4
    BY <1>4, <2>3
  <2>5. i - 4 \in 1 .. Len(NASPlan(spec))
    BY <1>2, <1>4, <2>3, <2>4
  <2>6. Plan(spec)[i] = NASPlan(spec)[i - 4]
    BY <1>4, <2>3, <2>4
  <2> QED
    BY <1>2, <2>5, <2>6 DEF Linking
<1>6. PICK cfg, snap, loop :
        /\ cfg = spec.disk.snapshot
        /\ snap = LinkedSnapshotClass(cfg)
        /\ loop = ClassPlan(spec.disk.classes, spec.disk.defaultClass, spec.disk.patch,
                            "diskClaims", snap)
  OBVIOUS
<1>7. /\ cfg \in SnapshotConfigs /\ spec.disk.classes \in Seq(ClassNames)
      /\ spec.disk.defaultClass \in BOOLEAN /\ spec.disk.patch \in BOOLEAN
  BY <1>1, <1>6 DEF CRSpecs, DiskSpecs
<1>8. snap \in SnapNames \cup {NoName}
  BY <1>6, <1>7, PlanAssumption DEF LinkedSnapshotClass, SnapshotConfigs, PlanAssumption
<1>9. loop \in Seq(Linking(snap))
  BY <1>6, <1>7, <1>8, ClassPlanLinks
<1>10. PICK head, make :
        /\ head = ComponentPlan("disk", spec.params)
        /\ make = <<SnapshotClassStep(cfg)>>
  OBVIOUS
<1>11. head \in Seq(Linking(snap))
  BY <1>1, <1>10, OthersLink
<1>12. Len(head) = 3 /\ \A k \in 1 .. 3 : head[k].op # "patch"
  BY <1>1, <1>10, OthersLink
<1>13. make \in Seq(Linking(snap)) /\ make[1] = SnapshotClassStep(cfg) /\ make[1].op # "patch"
  <2>1. (IF cfg.className = NoName THEN DefaultSnap ELSE cfg.className) \in SnapNames
    BY <1>7, PlanAssumption DEF SnapshotConfigs, PlanAssumption
  <2>2. SnapshotClassStep(cfg) \in Linking(snap) /\ SnapshotClassStep(cfg).op # "patch"
    BY <2>1 DEF Linking, SnapshotClassStep, Step, Steps, Ops, ObjIds, Kinds, Names, Data
  <2> QED
    BY <1>10, <2>2
<1>14. NASPlan(spec) \in Seq(Linking(snap))
  BY <1>2, SeqOf DEF Linking
<1>15. Plan(spec) = (RBACPlan \o ((head \o make) \o loop)) \o NASPlan(spec)
  BY <1>5, <1>6, <1>10 DEF Plan, DiskPlan
<1>16. Len(make) = 1
  BY <1>10
<1>17. /\ RBACPlan \in Seq(Linking(snap)) /\ head \in Seq(Linking(snap))
        /\ make \in Seq(Linking(snap)) /\ loop \in Seq(Linking(snap))
        /\ NASPlan(spec) \in Seq(Linking(snap))
  BY <1>3, <1>9, <1>11, <1>13, <1>14
<1>18. /\ Len(Plan(spec)) = Len(RBACPlan) + Len(head) + Len(make) + Len(loop)
                                + Len(NASPlan(spec))
       /\ \A k \in 1 .. Len(Plan(spec)) :
            Plan(spec)[k] = InFive(RBACPlan, head, make, loop, NASPlan(spec), k)
  <2>1. PartsOf(Five(RBACPlan, head, make, loop, NASPlan(spec)),
                RBACPlan, head, make, loop, NASPlan(spec))
    BY <1>17, PartsAt
  <2>2. Plan(spec) = Five(RBACPlan, head, make, loop, NASPlan(spec))
    BY <1>15 DEF Five
  <2> QED
    BY <2>1, <2>2 DEF PartsOf
<1>19. /\ Len(Plan(spec)) = 8 + Len(loop) + Len(NASPlan(spec))
       /\ \A k \in 1 .. Len(Plan(spec)) :
            Plan(spec)[k] = IF k <= 4 THEN RBACPlan[k]
                            ELSE IF k <= 7 THEN head[k - 4]
                            ELSE IF k = 8 THEN make[1]
                            ELSE IF k <= 8 + Len(loop) THEN loop[k - 8]
                            ELSE NASPlan(spec)[k - 8 - Len(loop)]
  BY <1>9, <1>18, <1>4, <1>12, <1>16 DEF InFive
<1>20. i > 8 /\ Plan(spec)[8] = make[1]
  <2>1. i \notin 1 .. 4
    BY <1>19, <1>4
  <2>2. i \notin 5 .. 7
    BY <1>19, <1>12
  <2>3. i # 8
    BY <1>13, <1>19
  <2>4. i > 8
    BY <2>1, <2>2, <2>3
  <2> QED
    BY <1>19, <2>4
<1>21. Plan(spec)[i].snap = snap
  <2>1. CASE i - 8 \in 1 .. Len(loop)
    <3>1. Plan(spec)[i] = loop[i - 8]
      BY <1>9, <1>19, <1>20, <2>1
    <3> QED
      BY <1>9, <2>1, <3>1 DEF Linking
  <2>2. CASE i - 8 \notin 1 .. Len(loop)
    <3>1. /\ i - 8 - Len(loop) \in 1 .. Len(NASPlan(spec))
          /\ Plan(spec)[i] = NASPlan(spec)[i - 8 - Len(loop)]
      BY <1>2, <1>9, <1>19, <1>20, <2>2
    <3> QED
      BY <1>2, <3>1 DEF Linking
  <2> QED
    BY <2>1, <2>2
<1>22. cfg.enabled
  <2>1. ~cfg.enabled => Plan(spec)[i].snap = spec.disk.snapshot.className
    BY <1>6, <1>21 DEF LinkedSnapshotClass
  <2> QED
    BY <1>5, <1>6, <2>1 DEF NamedOnly
<1>23. /\ Plan(spec)[8].op = "create"
       /\ Plan(spec)[8].id = <<"VolumeSnapshotClass", snap>>
  BY <1>6, <1>13, <1>20, <1>22 DEF SnapshotClassStep, LinkedSnapshotClass, Step
<1> QED
  BY <1>20, <1>21, <1>23

\* An object some plan creates is there, or somebody deleted it.
Present(id) == id \in drifted \/ objs[id] # Absent

\* What a step makes or finds stays.
LEMMA StepKeepsPresent ==
    ASSUME TypeOK, Remaining, Effect(NextStep) \/ UNCHANGED objVars \/ LabelNamespace,
           NEW id \in ManagedIds, Present(id)
    PROVE  Present(id)'
<1>1. CASE Effect(NextStep)
  <2>1. Keeps(id) \/ Takes(NextStep, id)
    BY <1>1, EffectOf
  <2>2. CASE Keeps(id)
    BY <2>2 DEF Keeps, Present
  <2>3. CASE Takes(NextStep, id)
    BY <2>3, ReconcilerAssumption DEF Takes, Present, ReconcilerAssumption
  <2> QED
    BY <2>1, <2>2, <2>3
<1>2. CASE UNCHANGED objVars \/ LabelNamespace
  BY <1>2 DEF objVars, LabelNamespace, Present
<1> QED
  BY <1>1, <1>2

\* A step changes the link of a profile to the one it names, and only if it patches.
LEMMA StepLinks ==
    ASSUME TypeOK, Remaining, Effect(NextStep) \/ UNCHANGED objVars \/ LabelNamespace,
           NEW c \in ClassNames, profiles'[c] # Absent
    PROVE  /\ profiles[c] # Absent
           /\ \/ profiles'[c].snap = profiles[c].snap
              \/ /\ NextStep.op = "patch" /\ NextStep.snap # NoName
                 /\ profiles'[c].snap = NextStep.snap
<1>1. profiles \in [ClassNames -> Profiles \cup {Absent}]
  BY DEF TypeOK
<1>2. CASE NextStep.op = "patch" /\ PatchProfile(NextStep)
  <2>1. CASE NextStep.id[2] = c
    BY <1>1, <1>2, <2>1 DEF PatchProfile
  <2>2. CASE NextStep.id[2] # c
    BY <1>1, <1>2, <2>2 DEF PatchProfile
  <2> QED
    BY <2>1, <2>2
<1>3. CASE profiles' = profiles
  BY <1>3
<1>4. profiles' = profiles \/ (NextStep.op = "patch" /\ PatchProfile(NextStep))
  BY DEF Effect, Adopt, Replace, CreateSnapshotClass, Write, LabelNamespace, objVars
<1> QED
  BY <1>2, <1>3, <1>4

\* The classes the running reconcile has made are there.
MadeInv ==
    Exists(cur) => \A i \in 1 .. done :
        Plan(cur.spec)[i].op = "create" => Present(Plan(cur.spec)[i].id)

\* There is a first CR, and until it is deleted its reconciles link what they have made.
LinkInv ==
    /\ used # {}
    /\ FirstCR /\ SnapshotCRDs => MadeInv /\ LinkedClassExists

\* A CR that has not been deleted after a step had not been before it.
LEMMA FirstCRBefore ==
    ASSUME TypeOK, used # {}, [Next]_vars, FirstCR'
    PROVE  FirstCR
<1>1. CASE CreateCR
  <2>1. PICK u \in Incarnations \ used : used' = used \cup {u}
    BY <1>1 DEF CreateCR
  <2> QED
    BY <2>1 DEF FirstCR
<1>2. CASE EditSpec
  <2>1. PICK s \in Specs : cr' = [cr EXCEPT !.spec = s, !.gen = cr.gen + 1]
    BY <1>2 DEF EditSpec
  <2>2. cr'.uid = cr.uid
    BY <1>2, <2>1 DEF TypeOK, EditSpec, Exists, CRs
  <2> QED
    BY <1>2, <2>2 DEF EditSpec, FirstCR
<1>3. CASE Finish
  <2>1. CASE PatchStatus
    <3>1. cr'.uid = cr.uid
      BY <1>3, <2>1, PatchedStatus DEF Finish
    <3> QED
      BY <2>1, <3>1 DEF PatchStatus, FirstCR
  <2> QED
    BY <1>3, <2>1 DEF Finish, FirstCR, apiVars, Exists
<1>4. CASE UNCHANGED <<cr, used>>
  BY <1>4 DEF FirstCR, Exists
<1> QED
  BY <1>1, <1>2, <1>3, <1>4
     DEF Next, Worker, Start, StepDone, StepRefused, MapperMisses, DetectionFails, StepFails,
         Deliver, Resync, Crash, DeleteCR, Collect, Drift, SyncProfiles, FirstCR, Exists,
         apiVars, vars

\* What a plan creates is managed.
LEMMA MadeManaged ==
    ASSUME TypeOK, Exists(cur), NEW i \in 1 .. done, Plan(cur.spec)[i].op = "create"
    PROVE  Plan(cur.spec)[i].id \in ManagedIds
<1>1. cur.spec \in Specs /\ i \in 1 .. Len(Plan(cur.spec))
  BY DEF TypeOK, Exists, CRs
<1> QED
  BY <1>1, StepsOfPlans DEF Ops

\* The worker's steps link profiles to what is made.
LEMMA LinkedByStep ==
    ASSUME TypeOK, FirstCR, SnapshotCRDs, MadeInv, LinkedClassExists, Remaining,
           Effect(NextStep) \/ UNCHANGED objVars \/ LabelNamespace
    PROVE  LinkedClassExists'
<1>1. \A id \in ManagedIds : Present(id) => Present(id)'
  BY StepKeepsPresent
<1>2. Exists(cur) /\ cur.spec \in Specs /\ done + 1 \in 1 .. Len(Plan(cur.spec)) /\ done \in Nat
  BY NextStepType DEF Remaining, CRs, TypeOK
<1>3. \A i \in 1 .. done : Plan(cur.spec)[i].op = "create"
          => /\ Plan(cur.spec)[i].id \in ManagedIds
             /\ Present(Plan(cur.spec)[i].id)
  BY <1>2, MadeManaged DEF MadeInv
<1>4. ASSUME NEW c \in ClassNames, profiles'[c] # Absent,
             profiles'[c].snap \notin NamedOnly \cup {NoName}
      PROVE  LET id == <<"VolumeSnapshotClass", profiles'[c].snap>>
             IN  id \in ManagedIds /\ Present(id)
  <2>1. CASE profiles'[c].snap = profiles[c].snap
    <3>1. profiles[c] # Absent
      BY <1>4, StepLinks
    <3> QED
      BY <1>4, <2>1, <3>1 DEF LinkedClassExists, Present
  <2>2. CASE /\ NextStep.op = "patch" /\ NextStep.snap # NoName
             /\ profiles'[c].snap = NextStep.snap
    <3>1. PICK j \in 1 .. (done + 1) - 1 :
             /\ Plan(cur.spec)[j].op = "create"
             /\ Plan(cur.spec)[j].id = <<"VolumeSnapshotClass", NextStep.snap>>
      BY <1>2, <1>4, <2>2, LinksAfterMaking DEF NextStep
    <3>2. j \in 1 .. done
      BY <1>2, <3>1
    <3> QED
      BY <1>3, <2>2, <3>1, <3>2
  <2> QED
    BY <1>4, <2>1, <2>2, StepLinks
<1> QED
  BY <1>1, <1>4 DEF LinkedClassExists, Present

\* Every step keeps it.
LEMMA LinkStep == TypeOK /\ LinkInv /\ [Next]_vars => LinkInv'
<1> SUFFICES ASSUME TypeOK, LinkInv, [Next]_vars
             PROVE  LinkInv'
  OBVIOUS
<1>a. used' # {}
  BY DEF LinkInv, Next, Worker, Start, StepDone, StepRefused, Finish, PatchStatus, MapperMisses,
         DetectionFails, StepFails, Deliver, Resync, Crash, EditSpec, DeleteCR, CreateCR,
         Collect, Drift, SyncProfiles, apiVars, vars
<1> SUFFICES ASSUME FirstCR', SnapshotCRDs
             PROVE  MadeInv' /\ LinkedClassExists'
  BY <1>a DEF LinkInv
<1>b. FirstCR /\ MadeInv /\ LinkedClassExists
  BY FirstCRBefore DEF LinkInv
<1>1. CASE Remaining /\ (StepDone \/ DetectionFails \/ StepFails)
  <2>1. /\ UNCHANGED apiVars /\ cur' = cur
        /\ Effect(NextStep) \/ UNCHANGED objVars \/ LabelNamespace
        /\ done' = done \/ (done' = done + 1 /\ (StepDone \/ DetectionFails))
    BY <1>1 DEF StepDone, DetectionFails, StepFails
  <2>3. LinkedClassExists'
    BY <1>1, <1>b, <2>1, LinkedByStep
  <2>4. \A id \in ManagedIds : Present(id) => Present(id)'
    BY <1>1, <2>1, StepKeepsPresent
  <2>5. ASSUME done' = done + 1, NEW id, id = NextStep.id, NextStep.op = "create"
        PROVE  Present(id)'
    <3>1. CreateSnapshotClass(NextStep)
      <4>1. StepDone
        BY <2>1, <2>5 DEF DetectionFails, AtDetection, TypeOK
      <4> QED
        BY <2>5, <4>1 DEF StepDone, Effect
    <3>2. id \in ManagedIds /\ cur \in CRs /\ NextStep \in PlanSteps(cur.spec)
      BY <1>1, <2>5, NextStepType DEF Ops
    <3>3. Desired(cur.uid, NextStep.data) # Absent
      BY <3>2, ReconcilerAssumption
         DEF Desired, Objects, CRs, Incarnations, PlanSteps, Steps, ReconcilerAssumption
    <3>4. CASE Write(id, Desired(cur.uid, NextStep.data))
      BY <3>2, <3>3, <3>4 DEF Write, Present, TypeOK
    <3>5. CASE objs[id] # Absent /\ UNCHANGED objVars
      BY <3>5 DEF Present, objVars
    <3> QED
      BY <2>5, <3>1, <3>4, <3>5 DEF CreateSnapshotClass
  <2>6. MadeInv'
    <3>1. done \in Nat /\ Exists(cur)
      BY <1>1 DEF TypeOK, Remaining
    <3>2. SUFFICES ASSUME NEW i \in 1 .. done', Plan(cur.spec)[i].op = "create",
                          NEW id, id = Plan(cur.spec)[i].id
                   PROVE  Present(id)'
      BY <2>1 DEF MadeInv, Present
    <3>3. CASE i \in 1 .. done
      BY <1>b, <2>4, <3>1, <3>2, <3>3, MadeManaged DEF MadeInv
    <3>4. CASE i \notin 1 .. done
      <4>1. done' = done + 1 /\ i = done + 1
        BY <2>1, <3>1, <3>2, <3>4
      <4> QED
        BY <2>5, <3>2, <4>1 DEF NextStep
    <3> QED
      BY <3>3, <3>4
  <2> QED
    BY <2>3, <2>6
<1>2. CASE Start \/ Finish \/ Deliver \/ Resync \/ Crash \/ EditSpec \/ MapperMisses \/ StepRefused
  <2>1. UNCHANGED <<objs, profiles, drifted>>
    BY <1>2 DEF Start, Finish, Deliver, Resync, Crash, EditSpec, MapperMisses, StepRefused, objVars
  <2>2. LinkedClassExists'
    BY <1>b, <2>1 DEF LinkedClassExists
  <2>4. MadeInv'
    <3>1. CASE UNCHANGED <<cur, done>>
      BY <1>b, <2>1, <3>1 DEF MadeInv, Present, Exists
    <3>2. CASE done' = 0
      BY <3>2 DEF MadeInv
    <3> QED
      BY <1>2, <3>1, <3>2 DEF Start, Finish, Deliver, Resync, Crash, EditSpec, MapperMisses,
           StepRefused, workerVars, TypeOK
  <2> QED
    BY <2>2, <2>4
<1>3. CASE Collect
  BY <1>b, <1>3 DEF Collect, Gone, FirstCR
<1>4. CASE Drift
  <2>1. UNCHANGED <<apiVars, workerVars, profiles>>
    BY <1>4 DEF Drift
  <2>2. ASSUME NEW id, Present(id)
        PROVE  Present(id)'
    BY <1>4, <2>2 DEF Drift, Present, TypeOK
  <2> QED
    BY <1>b, <2>1, <2>2 DEF workerVars, MadeInv, LinkedClassExists, Present, Exists
<1>5. CASE SyncProfiles
  <2>1. UNCHANGED <<apiVars, workerVars, objs, drifted>>
    BY <1>5 DEF SyncProfiles
  <2>2. \A c \in ClassNames : profiles'[c] # Absent =>
           profiles'[c].snap = NoName \/ profiles'[c] = profiles[c]
    BY <1>5 DEF SyncProfiles, TypeOK
  <2> QED
    BY <1>b, <2>1, <2>2 DEF workerVars, MadeInv, LinkedClassExists, Present, Exists
<1>6. CASE UNCHANGED vars
  BY <1>b, <1>6 DEF vars, workerVars, objVars, MadeInv, LinkedClassExists, Present, Exists
<1>7. ~DeleteCR /\ ~CreateCR
  BY <1>b DEF DeleteCR, CreateCR, FirstCR, Exists
<1> QED
  BY <1>1, <1>2, <1>3, <1>4, <1>5, <1>6, <1>7
     DEF Next, Worker, StepDone, DetectionFails, AtDetection, StepFails

\* Until the CR is first deleted, a class some StorageProfile is linked to is one the
\* operator made, and is there unless somebody else deleted it, or one of the two branches
\* linked it without making it: for every spec, through edits, crashes, failures and CDI.
THEOREM LinkedExists == Spec => []LinkedClassExists
<1>1. Init => LinkInv
  <2>1. SUFFICES ASSUME Init
                 PROVE  LinkInv
    OBVIOUS
  <2>2. used # {}
    BY <2>1 DEF Init
  <2> QED
    BY <2>1, <2>2 DEF Init, LinkInv, MadeInv, LinkedClassExists, Exists
<1>2. LinkInv => LinkedClassExists
  BY DEF LinkInv, LinkedClassExists
<1> QED
  BY <1>1, <1>2, LinkStep, TypeCorrect, PTL DEF Spec
=============================================================================
