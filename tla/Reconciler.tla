------------------------------ MODULE Reconciler -----------------------------
(***************************************************************************)
(* The AlibabaCloudCSIDriver controller: one worker that reconciles the CR  *)
(* named CRName against a cluster in which users, the garbage collector,    *)
(* CDI, a crash of the manager and failing API calls interfere.             *)
(*                                                                          *)
(* A reconcile reads its CR from the informer cache once and works on that  *)
(* copy (cur) to the end: it carries out the steps of Plan(cur.spec) one by  *)
(* one, stops at the first that fails, and patches the status.  A helper    *)
(* call is one step here: ApplyHelpers shows it takes effect atomically.    *)
(*                                                                          *)
(* Two simplifications, both lifted in finer modules: the informer delivers *)
(* the latest version and skips those in between, and of two reports in the *)
(* same second the later never reads a copy older than the earlier.         *)
(***************************************************************************)
EXTENDS OwnerRefs, DriverPlan

CONSTANTS
    Specs,        \* the specs users give
    CRName,       \* the name of the CR
    NoCR,         \* no CR of this name
    Origins,      \* what the cluster holds at first: "fresh", "legacy", "foreign"
    SCC,          \* the cluster serves the SecurityContextConstraints API
    SnapshotCRDs, \* the snapshot.storage.k8s.io CRDs are installed
    CDI,          \* CDI is installed
    Allowed,      \* the kinds of trouble that may happen
    MaxTrouble    \* bound: how often trouble happens in a behaviour

\* Users edit, delete and create the CR and delete objects; the manager crashes;
\* API calls of a step, the discovery and the status patch fail.
TroubleKinds == {"edit", "delete", "create", "drift", "crash", "fault", "discovery", "status"}

VARIABLES
    cr,        \* the CR in the API server, or NoCR
    cache,     \* the CR in the informer cache, or NoCR
    pending,   \* a change of the CR has not reached the informer yet
    queued,    \* the request is in the work queue, or waits for its retry
    cur,       \* the copy the running reconcile works on, NoCR when idle
    done,      \* steps of its plan behind
    failed,    \* a step has failed: the error the reconcile will return
    mapper,    \* what the manager's RESTMapper knows of the SCC API
    objs,      \* the objects the plans create, with owner and content
    profiles,  \* spec of the CDI StorageProfile of each class, or Absent
    psa,       \* kube-system has the privileged Pod Security labels
    used,      \* UIDs of all incarnations of the CR so far
    reports,   \* history: <<uid, generation>> of the reports patched onto cr
    drifted,   \* history: objects deleted by others and not restored since
    trouble    \* what is left of MaxTrouble

apiVars    == <<cr, cache, pending, used, reports>>
workerVars == <<queued, cur, done, failed, mapper>>
objVars    == <<objs, profiles, psa, drifted>>
vars       == <<apiVars, workerVars, objVars, trouble>>

-----------------------------------------------------------------------------
(* The data. *)

Incarnations == {u \in Uids : NameOf[u] = CRName}

Statuses == [obsGen : Nat, disk : BOOLEAN, nas : BOOLEAN,
             available : {"unset", "True", "False"}]

CRs == [uid : Incarnations, gen : Nat \ {0}, spec : Specs, status : Statuses]

NewCR(u, s) ==
    [uid |-> u, gen |-> 1, spec |-> s,
     status |-> [obsGen |-> 0, disk |-> FALSE, nas |-> FALSE, available |-> "unset"]]

Exists(c) == c # NoCR

\* The objects some plan writes; a StorageProfile is CDI's and kept apart.
ManagedIds ==
    UNION { {Plan(s)[i].id : i \in {j \in 1 .. Len(Plan(s)) :
                                        Plan(s)[j].op \in Ops \ {"patch", "off"}}}
            : s \in Specs }

Profiles == [claims : {"cdi", "diskClaims", "nasClaims"}, snap : SnapNames \cup {NoName}]

ASSUME ReconcilerAssumption ==
    /\ Specs \subseteq CRSpecs
    /\ MaxTrouble \in Nat
    /\ {SCC, SnapshotCRDs, CDI} \subseteq BOOLEAN
    /\ Allowed \subseteq TroubleKinds
    /\ Origins \subseteq {"fresh", "legacy", "foreign"}
    /\ Absent \notin Objects(Data) \cup Profiles
    /\ NoCR \notin CRs

\* What an operator that set no owner references left behind, and what another CR
\* may hold: the objects of some kinds.
Leftover(u) == [owner |-> u, data |-> "old"]

OfKinds(kinds, u) ==
    [id \in ManagedIds |-> IF id[1] \in kinds THEN Leftover(u) ELSE Absent]

FirstObjects(origin) ==
    CASE origin = "fresh"   -> {OfKinds({}, NoOwner)}
      [] origin = "legacy"  -> {OfKinds(Kinds, NoOwner)}
      [] origin = "foreign" -> {OfKinds(kinds, u) : kinds \in SUBSET Kinds,
                                                    u \in Uids \ Incarnations}

Init ==
    /\ \E u \in Incarnations, s \in Specs : cr = NewCR(u, s) /\ used = {u}
    /\ cache = NoCR
    /\ pending = TRUE
    /\ queued = FALSE
    /\ cur = NoCR /\ done = 0 /\ failed = FALSE
    /\ mapper = "unread"
    /\ \E origin \in Origins : objs \in FirstObjects(origin)
    /\ profiles = [c \in ClassNames |-> Absent]
    /\ psa = FALSE
    /\ reports = {}
    /\ drifted = {}
    /\ trouble = MaxTrouble

Trouble(kind) == kind \in Allowed /\ trouble > 0 /\ trouble' = trouble - 1

-----------------------------------------------------------------------------
(* The worker. *)

\* Reconcile begins: it reads the CR from the cache, and has nothing to do when
\* the CR is gone.
Start ==
    /\ ~Exists(cur)
    /\ queued
    /\ queued' = FALSE
    /\ cur' = cache
    /\ UNCHANGED <<apiVars, done, failed, mapper, objVars, trouble>>

Remaining == Exists(cur) /\ ~failed /\ done < Len(Plan(cur.spec))

NextStep == Plan(cur.spec)[done + 1]

\* The object of a step takes the given form.
Write(id, obj) ==
    /\ objs' = [objs EXCEPT ![id] = obj]
    /\ drifted' = drifted \ {id}
    /\ UNCHANGED <<profiles, psa>>

\* Mutant: an object that exists is left as it is, as before v0.1.12.
AdoptNothing(s) ==
    \/ objs[s.id] = Absent /\ Write(s.id, Desired(cur.uid, s.data))
    \/ objs[s.id] # Absent /\ CanControl(objs[s.id], cur.uid) /\ UNCHANGED objVars

\* Mutant: an object of an earlier CR of the same name is taken for this one's.
AdoptByName(s) ==
    \/ objs[s.id] = Absent /\ Write(s.id, Desired(cur.uid, s.data))
    \/ /\ objs[s.id] # Absent
       /\ CanControl(objs[s.id], cur.uid)
       /\ IF objs[s.id].owner = NoOwner THEN Write(s.id, Controlled(objs[s.id], cur.uid))
                                       ELSE UNCHANGED objVars

\* createOrAdopt: create, or take over with the content left as it is.
Adopt(s) ==
    \/ objs[s.id] = Absent /\ Write(s.id, Desired(cur.uid, s.data))
    \/ /\ objs[s.id] # Absent
       /\ CanControl(objs[s.id], cur.uid)
       /\ Write(s.id, Controlled(objs[s.id], cur.uid))

\* createOrUpdate: create or replace, whoever owned it.
Replace(s) == Write(s.id, Desired(cur.uid, s.data))

\* ensureVolumeSnapshotClass: an existing class is left as it is, and without
\* the CRDs there is nothing to create.
CreateSnapshotClass(s) ==
    \/ /\ SnapshotCRDs /\ objs[s.id] = Absent
       /\ Write(s.id, Desired(cur.uid, s.data))
    \/ /\ ~SnapshotCRDs \/ objs[s.id] # Absent
       /\ UNCHANGED objVars

\* Mutant: a patch of the snapshot class only.
PatchSnapshotClass(s) ==
    /\ profiles' = [profiles EXCEPT ![s.id[2]] =
                       IF @ = Absent \/ s.snap = NoName THEN @ ELSE [@ EXCEPT !.snap = s.snap]]
    /\ UNCHANGED <<objs, psa, drifted>>

\* ensureStorageProfile: a merge patch of a profile that exists; it never
\* removes a snapshot class set before.
PatchProfile(s) ==
    LET class == s.id[2]
    IN  /\ profiles' =
              IF profiles[class] = Absent THEN profiles
              ELSE [profiles EXCEPT ![class] =
                       [claims |-> s.data,
                        snap |-> IF s.snap = NoName THEN @.snap ELSE s.snap]]
        /\ UNCHANGED <<objs, psa, drifted>>

\* ensurePrivilegedNamespacePSA.
LabelNamespace ==
    /\ psa' = TRUE
    /\ UNCHANGED <<objs, profiles, drifted>>

\* Mutant: what the cached RESTMapper misses is not there, as before v0.1.13.
EffectTrustsMapper(s) ==
    \/ s.op = "adopt" /\ Adopt(s)
    \/ s.op = "replace" /\ Replace(s)
    \/ s.op = "create" /\ CreateSnapshotClass(s)
    \/ s.op = "patch" /\ PatchProfile(s)
    \/ s.op = "admission" /\ SCC /\ mapper # "miss" /\ Adopt(s)
    \/ s.op = "admission" /\ (~SCC \/ mapper = "miss") /\ LabelNamespace
    \/ s.op = "off" /\ UNCHANGED objVars

\* The step of the plan, carried out without error.
Effect(s) ==
    \/ s.op = "adopt" /\ Adopt(s)
    \/ s.op = "replace" /\ Replace(s)
    \/ s.op = "create" /\ CreateSnapshotClass(s)
    \/ s.op = "patch" /\ PatchProfile(s)
    \/ s.op = "admission" /\ SCC /\ Adopt(s)
    \/ s.op = "admission" /\ ~SCC /\ LabelNamespace
    \/ s.op = "off" /\ UNCHANGED objVars

AtDetection == Remaining /\ NextStep.op = "admission" /\ SCC

\* sccAvailable finds the API: in the RESTMapper, which keeps what it has found, or,
\* behind a miss the mapper may or may not look into again, by a fresh discovery.
Detection ==
    mapper' \in IF AtDetection THEN {"hit"} \cup ({"miss"} \cap {mapper}) ELSE {mapper}

StepDone ==
    /\ Remaining
    /\ Effect(NextStep)
    /\ Detection
    /\ done' = done + 1
    /\ UNCHANGED <<apiVars, queued, cur, failed, trouble>>

\* The first discovery of the mapper meets an API server that is degraded, and the
\* mapper caches the miss.
MapperMisses ==
    /\ AtDetection /\ mapper = "unread"
    /\ Trouble("discovery")
    /\ mapper' = "miss"
    /\ UNCHANGED <<apiVars, queued, cur, done, failed, objVars>>

\* With the fresh discovery failing too, sccAvailable takes the cluster for one without
\* the API: the namespace is labelled instead, and the reconcile goes on.
DetectionFails ==
    /\ AtDetection /\ mapper # "hit"
    /\ Trouble("discovery")
    /\ LabelNamespace
    /\ mapper' = "miss"
    /\ done' = done + 1
    /\ UNCHANGED <<apiVars, queued, cur, failed>>

\* SetControllerReference refuses an object of another CR.
StepRefused ==
    /\ Remaining
    /\ NextStep.op = "adopt" \/ (NextStep.op = "admission" /\ SCC)
    /\ objs[NextStep.id] # Absent
    /\ ~CanControl(objs[NextStep.id], cur.uid)
    /\ Detection
    /\ failed' = TRUE
    /\ UNCHANGED <<apiVars, queued, cur, done, objVars, trouble>>

\* An API call of the step fails, before or after it took effect.
StepFails ==
    /\ Remaining
    /\ NextStep.op # "off"
    /\ Trouble("fault")
    /\ Effect(NextStep) \/ UNCHANGED objVars
    /\ Detection
    /\ failed' = TRUE
    /\ UNCHANGED <<apiVars, queued, cur, done>>

\* Mutant: Available whatever failed.
ReportSuccess ==
    [obsGen    |-> cur.gen,
     disk      |-> cur.spec.disk.enabled /\ done >= DiskDone(cur.spec),
     nas       |-> cur.spec.nas.enabled /\ ~failed,
     available |-> "True"]

\* The status a reconcile reports.
Report ==
    [obsGen    |-> cur.gen,
     disk      |-> cur.spec.disk.enabled /\ done >= DiskDone(cur.spec),
     nas       |-> cur.spec.nas.enabled /\ ~failed,
     available |-> IF failed THEN "False" ELSE "True"]

\* Mutant: the base of the patch is copied after the status has been set.
PatchOfNothing(live, base, new, sameSecond) == live

\* The merge patch from base to new applied to live: the fields in which new
\* differs from base.  The conditions carry the time of the report, so they are
\* in the patch unless the copy read was reported in the same second.
MergePatch(live, base, new, sameSecond) ==
    [f \in DOMAIN live |->
        IF new[f] # base[f] \/ (f = "available" /\ ~sameSecond)
        THEN new[f] ELSE live[f]]

SameSecond == {FALSE} \cup {cur.status.available = cr.status.available}

\* What the status subresource of the CR with this name becomes; the patch has
\* no resourceVersion and no UID.
PatchStatus ==
    /\ Exists(cr)
    /\ \E sameSecond \in SameSecond :
         /\ cr' = [cr EXCEPT !.status =
                       MergePatch(cr.status, cur.status, Report, sameSecond)]
         /\ pending' = (pending \/ cr' # cr \/ ~sameSecond)
    /\ reports' = reports \cup {<<cur.uid, cur.gen>>}
    /\ UNCHANGED <<cache, used>>

\* Mutant: the position in the plan is not reset.
FinishInPlace ==
    /\ Exists(cur) /\ ~Remaining
    /\ PatchStatus
    /\ queued' = (queued \/ failed)
    /\ cur' = NoCR /\ failed' = FALSE
    /\ UNCHANGED <<done, mapper, objVars, trouble>>

\* Mutant: a request that came during the reconcile is dropped.
FinishForgets ==
    /\ Exists(cur) /\ ~Remaining
    /\ \/ PatchStatus
       \/ ~Exists(cr) /\ UNCHANGED apiVars
    /\ queued' = failed
    /\ cur' = NoCR /\ done' = 0 /\ failed' = FALSE
    /\ UNCHANGED <<mapper, objVars, trouble>>

\* Reconcile ends: an error puts the request back, and an error of the status
\* patch is only logged.
Finish ==
    /\ Exists(cur) /\ ~Remaining
    /\ \/ PatchStatus /\ UNCHANGED trouble
       \/ ~Exists(cr) /\ UNCHANGED <<apiVars, trouble>>
       \/ Trouble("status") /\ UNCHANGED apiVars
    /\ queued' = (queued \/ failed)
    /\ cur' = NoCR /\ done' = 0 /\ failed' = FALSE
    /\ UNCHANGED <<mapper, objVars>>

-----------------------------------------------------------------------------
(* Everyone else. *)

\* The informer catches up, and its handler queues the request: For() has no
\* predicate, so a change of the status does it too.
Deliver ==
    /\ pending
    /\ cache' = cr
    /\ pending' = FALSE
    /\ queued' = TRUE
    /\ UNCHANGED <<cr, used, reports, cur, done, failed, mapper, objVars, trouble>>

\* The informer's periodic resync.
Resync ==
    /\ Exists(cache)
    /\ queued' = TRUE
    /\ UNCHANGED <<apiVars, cur, done, failed, mapper, objVars, trouble>>

\* The manager dies, and the next one lists the CRs.
Crash ==
    /\ Trouble("crash")
    /\ cache' = cr /\ pending' = FALSE
    /\ queued' = Exists(cr)
    /\ cur' = NoCR /\ done' = 0 /\ failed' = FALSE
    /\ mapper' = "unread"
    /\ UNCHANGED <<cr, used, reports, objVars>>

EditSpec ==
    /\ Exists(cr)
    /\ Trouble("edit")
    /\ \E s \in Specs \ {cr.spec} : cr' = [cr EXCEPT !.spec = s, !.gen = @ + 1]
    /\ pending' = TRUE
    /\ UNCHANGED <<cache, used, reports, workerVars, objVars>>

DeleteCR ==
    /\ Exists(cr)
    /\ Trouble("delete")
    /\ cr' = NoCR
    /\ pending' = TRUE
    /\ UNCHANGED <<cache, used, reports, workerVars, objVars>>

CreateCR ==
    /\ ~Exists(cr)
    /\ Trouble("create")
    /\ \E u \in Incarnations \ used, s \in Specs :
          cr' = NewCR(u, s) /\ used' = used \cup {u}
    /\ pending' = TRUE
    /\ reports' = {}
    /\ UNCHANGED <<cache, workerVars, objVars>>

\* An incarnation that is no longer there.
Gone(u) == u \in used /\ ~(Exists(cr) /\ cr.uid = u)

\* The garbage collector deletes an object whose controller is gone.
Collect ==
    /\ \E id \in ManagedIds :
         /\ objs[id] # Absent
         /\ Gone(objs[id].owner)
         /\ objs' = [objs EXCEPT ![id] = Absent]
    /\ UNCHANGED <<apiVars, workerVars, profiles, psa, drifted, trouble>>

\* Someone deletes one of the objects.
Drift ==
    /\ Trouble("drift")
    /\ \E id \in ManagedIds :
         /\ objs[id] # Absent
         /\ objs' = [objs EXCEPT ![id] = Absent]
         /\ drifted' = drifted \cup {id}
    /\ UNCHANGED <<apiVars, workerVars, profiles, psa>>

ClassExists(c) == <<"StorageClass", c>> \in ManagedIds /\ objs[<<"StorageClass", c>>] # Absent

\* CDI keeps one StorageProfile per StorageClass, in its own time.
SyncProfiles ==
    /\ CDI
    /\ \E c \in ClassNames :
         \/ /\ ClassExists(c) /\ profiles[c] = Absent
            /\ profiles' = [profiles EXCEPT ![c] = [claims |-> "cdi", snap |-> NoName]]
         \/ /\ ~ClassExists(c) /\ profiles[c] # Absent
            /\ profiles' = [profiles EXCEPT ![c] = Absent]
    /\ UNCHANGED <<apiVars, workerVars, objs, psa, drifted, trouble>>

Worker == Start \/ StepDone \/ StepRefused \/ Finish

Next ==
    \/ Worker
    \/ MapperMisses
    \/ DetectionFails
    \/ StepFails
    \/ Deliver
    \/ Resync
    \/ Crash
    \/ EditSpec
    \/ DeleteCR
    \/ CreateCR
    \/ Collect
    \/ Drift
    \/ SyncProfiles

Spec == Init /\ [][Next]_vars

\* The worker runs, the watch delivers, the garbage collector and CDI get round
\* to every object; nothing is assumed of users, resyncs and failures, but that
\* they end (MaxTrouble).
Fairness ==
    /\ WF_vars(Worker)
    /\ WF_vars(Deliver)
    /\ WF_vars(Collect)
    /\ WF_vars(SyncProfiles)

FairSpec == Spec /\ Fairness

-----------------------------------------------------------------------------
(* Safety. *)

TypeOK ==
    /\ cr \in CRs \cup {NoCR}
    /\ cache \in CRs \cup {NoCR}
    /\ cur \in CRs \cup {NoCR}
    /\ {pending, queued, failed, psa} \subseteq BOOLEAN
    /\ mapper \in {"unread", "miss", "hit"}
    /\ done \in Nat
    /\ IF Exists(cur) THEN done <= Len(Plan(cur.spec)) ELSE done = 0 /\ ~failed
    /\ objs \in [ManagedIds -> Objects(Data) \cup {Absent}]
    /\ profiles \in [ClassNames -> Profiles \cup {Absent}]
    /\ used \subseteq Incarnations
    /\ reports \subseteq Incarnations \X Nat
    /\ drifted \subseteq ManagedIds
    /\ trouble \in Nat

\* The object of an adopting or replacing step is as the step leaves it, for the
\* incarnation u.  Of the other steps, admission is ReconcilerClaims!Admitted's, and
\* ensureVolumeSnapshotClass leaves the class it finds to whoever owns it.
InPlace(s, u) ==
    s.op \in OwnedOps =>
        \/ s.id \in drifted
        \/ /\ objs[s.id] # Absent
           /\ IsControlledBy(objs[s.id], u)
           /\ s.op = "replace" => objs[s.id].data = s.data

\* What a reconcile has done stays done while it goes on: as long as its CR is
\* still the one in the cluster, every adopting and replacing step behind it has its
\* object there, under this CR, a workload with the content it wrote, unless somebody
\* else deleted it -- however the garbage collector takes apart what an earlier
\* incarnation owned.
DoneStepsInPlace ==
    Exists(cr) /\ Exists(cur) /\ cur.uid = cr.uid =>
        \A i \in 1 .. done : InPlace(Plan(cur.spec)[i], cr.uid)

\* Only this incarnation has reported on the CR.
OwnReports == \A r \in reports : r[1] = cr.uid

\* Available=True with observedGeneration up to date means that every object the plan
\* of the current spec adopts or replaces is there, under this CR, and that the
\* workloads carry this spec -- whatever failed, crashed or was edited before.
AvailableMeansInPlace ==
    /\ Exists(cr) /\ OwnReports
    /\ cr.status.available = "True"
    /\ cr.status.obsGen = cr.gen
    => \A i \in 1 .. Len(Plan(cr.spec)) : InPlace(Plan(cr.spec)[i], cr.uid)

\* Two CRs: createOrUpdate replaces whatever it finds, so nothing but the order
\* of the plan keeps this CR from taking over the workloads of another one: as
\* long as the other CR holds one of the shared objects, its adoption fails first.
SharedObjects == {<<k, "shared">> : k \in {"ServiceAccount", "ClusterRole", "ClusterRoleBinding"}}

ForeignOwned(id) == objs[id] # Absent /\ objs[id].owner \in Uids \ Incarnations

WorkloadsOfOthersKept ==
    [][\A id \in ManagedIds :
          (ForeignOwned(id) /\ objs'[id] # objs[id] /\ id \notin drifted')
             => \A shared \in SharedObjects : ~ForeignOwned(shared)]_vars

\* createOrAdopt takes over an object "by setting the controller reference": what is no
\* workload keeps its content while it exists, an administrator's edit or the fields of a
\* StorageClass that cannot change, whichever specs and incarnations follow one another;
\* and it passes only from nobody, or from a CR of this name, to the CR in work.
OnlyWorkloadsReplaced ==
    [][\A id \in ManagedIds :
          (id[1] \notin Workloads /\ objs[id] # Absent /\ objs'[id] # objs[id])
             => \/ objs'[id] = Absent /\ (Gone(objs[id].owner) \/ id \in drifted')
                \/ /\ Exists(cur) /\ CanControl(objs[id], cur.uid)
                   /\ objs'[id] = Controlled(objs[id], cur.uid)]_vars

-----------------------------------------------------------------------------
(* Liveness. *)

\* The cluster is as the CR asks: what is adopted or replaced is owned, every workload
\* current.
Settled ==
    Exists(cr) => \A i \in 1 .. Len(Plan(cr.spec)) : InPlace(Plan(cr.spec)[i], cr.uid)

\* After the last edit, crash and failure the cluster settles on the last spec:
\* no error path forgets to put the request back.
Settles == <>[]Settled

\* Deleting the CR takes with it whatever this operator made, also what a reconcile
\* that was running at the time created afterwards: what is left is as others left
\* it.
TornDown ==
    ~Exists(cr) => \A id \in ManagedIds :
        objs[id] # Absent => objs[id].owner \notin Incarnations /\ objs[id].data = "old"
TeardownCompletes == <>[]TornDown

\* The status ends up describing the last spec.
StatusFollows == <>[](Exists(cr) => cr.status.obsGen = cr.gen)
=============================================================================
