--------------------------- MODULE ReconcilerClaims --------------------------
(***************************************************************************)
(* What the comments and the documentation say of the reconcile loop,       *)
(* stated as properties of Reconciler.  The first ones the code does not    *)
(* keep, and a run shows how each fails; the last ones hold, for the specs  *)
(* and the scheduling their comments speak of.                              *)
(***************************************************************************)
EXTENDS Reconciler

\* A CR that says Available for its current generation, reported by its own
\* reconciles.
ReportsAvailable ==
    /\ Exists(cr) /\ OwnReports
    /\ cr.status.available = "True"
    /\ cr.status.obsGen = cr.gen

StepsWith(op) == {s \in {Plan(cr.spec)[i] : i \in 1 .. Len(Plan(cr.spec))} : s.op = op}

\* Nothing is running, waiting or under way.
Quiet == ~Exists(cur) /\ ~queued /\ ~pending

\* "Existing resources from an older operator version are adopted on the next
\* reconcile" (CHANGELOG v0.1.12), the VolumeSnapshotClass among them.
LegacySnapshotClassAdopted ==
    ReportsAvailable /\ SnapshotCRDs =>
        \A s \in StepsWith("create") :
            s.id \in drifted \/ (objs[s.id] # Absent /\ objs[s.id].owner = cr.uid)

\* An upgraded operator, or an edited spec, reaches the objects createOrAdopt manages:
\* a release that "Grant volumesnapshotcontents/status RBAC" (CHANGELOG v0.1.7) has
\* those rules in the ClusterRole once the CR is Available, and "DefaultStorageClass
\* marks the first StorageClass in the list" after the list has changed.
AdoptedAreCurrent ==
    ReportsAvailable =>
        \A s \in StepsWith("adopt") : s.id \in drifted \/ objs[s.id].data = s.data

\* "Enabled controls whether the disk CSI driver components are deployed".
DisabledMeansAbsent ==
    ReportsAvailable /\ ~cr.spec.disk.enabled =>
        \A kind \in {"CSIDriver", "Deployment", "DaemonSet"} :
            objs[<<kind, "disk">>] = Absent

\* "Only a fresh discovery that also finds no SCC (a genuine non-OpenShift
\* cluster) falls through to PSA".
FallbackIsGenuine == SCC => ~psa

\* Reconciling ends once nobody changes anything, but for the periodic resync: "no
\* reconcile loop (2 reconciles, 0 errors)" (CHANGELOG v0.1.12).
ComesToRest == <>[][~Resync]_vars => <>[]Quiet

-----------------------------------------------------------------------------
(* What holds. *)

\* "ObservedGeneration is the generation of the spec that was last reconciled": when
\* all is quiet, and no status patch has failed, the status is that of the spec there is,
\* with all of it in force.
QuietMeansObserved ==
    Exists(cr) /\ Quiet =>
        cr.status = [obsGen    |-> cr.gen,
                     disk      |-> cr.spec.disk.enabled,
                     nas       |-> cr.spec.nas.enabled,
                     available |-> "True"]

\* The node pods are let in: by the SCC binding of this CR, or by the labels of the
\* namespace.
Admitted ==
    Exists(cr) =>
        \/ psa
        \/ /\ SCC
           /\ LET id == <<"SCCBinding", "shared">>
              IN  id \in drifted \/ (objs[id] # Absent /\ IsControlledBy(objs[id], cr.uid))

\* Nothing is forgotten: when nothing runs, waits or is under way, the cluster is as the
\* last spec asks, also after status patches that failed -- however edits, crashes and
\* failures fell among the steps of the reconciles.
QuietMeansSettled == Quiet => Settled /\ Admitted

\* Once the CR is deleted, whatever the operator made has an owner that is gone, which is
\* what the garbage collector goes by: also the objects a reconcile still running makes,
\* those adopted from nobody and those passed on from incarnation to incarnation.
NothingLeftBehind ==
    ~Exists(cr) => \A id \in ManagedIds :
        objs[id] # Absent =>
            \/ Gone(objs[id].owner)
            \/ objs[id].owner \notin Incarnations /\ objs[id].data = "old"

\* The CR has not been deleted so far.
FirstCR == Exists(cr) /\ used = {cr.uid}

\* The classes ensureDiskDriver links and ensureVolumeSnapshotClass does not make: those a
\* spec names with snapshots off.
NamedOnly ==
    {s.disk.snapshot.className : s \in {t \in Specs : t.disk.enabled /\ ~t.disk.snapshot.enabled}}

\* "VolumeSnapshotClass must be created before StorageProfile so we can link
\* spec.snapshotClass when patching": until the CR is first deleted, a linked class
\* exists, unless somebody deleted it -- but for the two branches of the code that link a
\* class without making it, the CRDs that are not there and the name without snapshots.
LinkedClassExists ==
    FirstCR =>
        \A c \in ClassNames :
            profiles[c] # Absent /\ profiles[c].snap # NoName =>
                \/ ~SnapshotCRDs
                \/ profiles[c].snap \in NamedOnly
                \/ LET id == <<"VolumeSnapshotClass", profiles[c].snap>>
                   IN  id \in ManagedIds /\ (id \in drifted \/ objs[id] # Absent)

\* A StorageProfile CDI creates late "will be retried next reconcile": in the end
\* every profile of a class whose driver asks for patching has its claims.
PatchedFor(c) ==
    LET disk == cr.spec.disk
        nas  == cr.spec.nas
    IN  {claims \in {"diskClaims", "nasClaims"} :
            \/ /\ claims = "diskClaims" /\ disk.enabled /\ disk.patch
               /\ \E i \in 1 .. Len(disk.classes) : disk.classes[i] = c
            \/ /\ claims = "nasClaims" /\ nas.enabled /\ nas.patch
               /\ \E i \in 1 .. Len(nas.classes) : nas.classes[i] = c}

ProfilesPatched ==
    Exists(cr) => \A c \in ClassNames :
        profiles[c] # Absent /\ PatchedFor(c) # {} => profiles[c].claims \in PatchedFor(c)

ProfilesFollow == <>[]ProfilesPatched

\* "The privileged SCC binding is never created" does not happen, however often the API
\* server was degraded: in the end it is there, under the CR.
BindingFollows ==
    SCC => <>[](Exists(cr) => LET id == <<"SCCBinding", "shared">>
                              IN  objs[id] # Absent /\ IsControlledBy(objs[id], cr.uid))

\* The resync every ten hours is the one event a quiet cluster still has.
ResyncSpec == FairSpec /\ WF_vars(Resync)
=============================================================================
