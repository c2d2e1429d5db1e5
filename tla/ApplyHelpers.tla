----------------------------- MODULE ApplyHelpers ----------------------------
(***************************************************************************)
(* createOrAdopt and createOrUpdate on one object, one API call per step.   *)
(*                                                                          *)
(* The API server keeps the versions of the object in log: the index of a   *)
(* version is its resourceVersion, and the last one is the live one.  Each  *)
(* caller reads through the informer cache of its own manager, which has    *)
(* got as far as seen and may lag.  Between any two calls anyone else may   *)
(* create, change or delete the object, and a second manager (an old leader *)
(* that has not noticed it lost the lease) may run the same helper.         *)
(***************************************************************************)
EXTENDS OwnerRefs, Naturals, Sequences

CONSTANTS
    Callers,      \* the workers that call the helpers, one per running manager
    Me,           \* the UID of the CR each caller reconciles
    Want,         \* the content each caller wants the object to have
    Contents,     \* contents an object may have
    MaxTries,     \* retry.DefaultRetry.Steps: attempts of RetryOnConflict
    MaxVersions   \* bound: no call starts, and nobody else writes, beyond it

ASSUME ApplyAssumption ==
    /\ Me \in [Callers -> Uids]
    /\ Want \in [Callers -> Contents]
    /\ MaxTries \in Nat \ {0}
    /\ Absent \notin Objects(Contents)

VARIABLES
    log,      \* versions of the object, Absent where it was deleted
    seen,     \* how far each caller's informer has followed the log
    pc,       \* "idle", "create", "get", "write", "ok" or "err"
    helper,   \* the helper a caller is in: "adopt" or "replace"
    tries,    \* attempts of RetryOnConflict made, the current one included
    base,     \* resourceVersion of the copy to be written, 0 when it has none
    since     \* history: how far the informer was when the call began

vars == <<log, seen, pc, helper, tries, base, since>>

Versions == Objects(Contents) \cup {Absent}

At(v)  == IF v = 0 THEN Absent ELSE log[v]
Live   == At(Len(log))
Cached(c) == At(seen[c])

Init ==
    /\ log \in {<<>>} \cup {<<obj>> : obj \in Objects(Contents)}
    /\ seen \in [Callers -> {0, Len(log)}]
    /\ pc = [c \in Callers |-> "idle"]
    /\ helper = [c \in Callers |-> "adopt"]
    /\ tries = [c \in Callers |-> 0]
    /\ base = [c \in Callers |-> 0]
    /\ since = seen

-----------------------------------------------------------------------------
(* The helpers. *)

InCall(c) == pc[c] \in {"create", "get", "write"}

Ends(c, result) == pc' = [pc EXCEPT ![c] = result]

Goes(c, step) == pc' = [pc EXCEPT ![c] = step]

\* The call begins with an object built from the spec, whose controller
\* reference is set; that cannot fail on a new object.  createOrAdopt creates
\* first and createOrUpdate reads first.
Begin(c, h) ==
    /\ ~InCall(c)
    /\ Len(log) < MaxVersions
    /\ Goes(c, IF h = "adopt" THEN "create" ELSE "get")
    /\ helper' = [helper EXCEPT ![c] = h]
    /\ tries' = [tries EXCEPT ![c] = 1]
    /\ base' = [base EXCEPT ![c] = 0]
    /\ since' = [since EXCEPT ![c] = seen[c]]
    /\ UNCHANGED <<log, seen>>

\* A write reaches the API server; its answer may get lost.
Writes(c, obj) ==
    /\ log' = Append(log, obj)
    /\ Ends(c, "ok") \/ Ends(c, "err")

\* Create: of an absent object it succeeds, unless the copy carries a
\* resourceVersion from an earlier attempt, which Create rejects.  When the
\* object exists createOrAdopt goes on to adopt it; createOrUpdate returns the
\* AlreadyExists, which is no conflict and not retried.
Create(c) ==
    /\ pc[c] = "create"
    /\ \/ Live = Absent /\ base[c] = 0 /\ Writes(c, Desired(Me[c], Want[c]))
       \/ /\ \/ Live # Absent /\ helper[c] = "adopt" /\ Goes(c, "get")
             \/ Live # Absent /\ helper[c] = "replace" /\ Ends(c, "err")
             \/ Live = Absent /\ base[c] # 0 /\ Ends(c, "err")
          /\ UNCHANGED log
    /\ UNCHANGED <<seen, helper, tries, base, since>>

\* Mutant: an object controlled by an earlier CR of the same name passes for the
\* caller's own.
GetToAdoptByName(c) ==
    /\ pc[c] = "get" /\ helper[c] = "adopt"
    /\ Ends(c, IF Cached(c) = Absent \/ ~CanControl(Cached(c), Me[c]) THEN "err" ELSE "ok")
    /\ UNCHANGED <<log, seen, helper, tries, base, since>>

\* Mutant: the controller reference is replaced whoever it names.
GetToAdoptAny(c) ==
    /\ pc[c] = "get" /\ helper[c] = "adopt"
    /\ IF Cached(c) = Absent THEN Ends(c, "err") /\ UNCHANGED base
       ELSE Goes(c, "write") /\ base' = [base EXCEPT ![c] = seen[c]]
    /\ UNCHANGED <<log, seen, helper, tries, since>>

\* The Get of createOrAdopt's retry, answered from the cache: NotFound ends the
\* call, and so does a controller this CR may not replace.
GetToAdopt(c) ==
    /\ pc[c] = "get" /\ helper[c] = "adopt"
    /\ \/ Cached(c) = Absent /\ Ends(c, "err") /\ UNCHANGED base
       \/ /\ Cached(c) # Absent
          /\ \/ IsControlledBy(Cached(c), Me[c]) /\ Ends(c, "ok") /\ UNCHANGED base
             \/ /\ ~IsControlledBy(Cached(c), Me[c])
                /\ ~CanControl(Cached(c), Me[c])
                /\ Ends(c, "err")
                /\ UNCHANGED base
             \/ /\ ~IsControlledBy(Cached(c), Me[c])
                /\ CanControl(Cached(c), Me[c])
                /\ Goes(c, "write")
                /\ base' = [base EXCEPT ![c] = seen[c]]
    /\ UNCHANGED <<log, seen, helper, tries, since>>

\* The Get of createOrUpdate's retry: NotFound leads to a Create of the same
\* object, otherwise the object takes the resourceVersion read.
GetToReplace(c) ==
    /\ pc[c] = "get" /\ helper[c] = "replace"
    /\ \/ Cached(c) = Absent /\ Goes(c, "create") /\ UNCHANGED base
       \/ /\ Cached(c) # Absent
          /\ Goes(c, "write")
          /\ base' = [base EXCEPT ![c] = seen[c]]
    /\ UNCHANGED <<log, seen, helper, tries, since>>

\* Mutant: one attempt too many.
RetryOnceMore(c) ==
    \/ tries[c] <= MaxTries /\ Goes(c, "get") /\ tries' = [tries EXCEPT ![c] = @ + 1]
    \/ tries[c] > MaxTries /\ Ends(c, "err") /\ UNCHANGED tries

\* Mutant: attempts without end.
RetryForever(c) == Goes(c, "get") /\ UNCHANGED tries

\* RetryOnConflict: from the Get again while attempts are left.
Retry(c) ==
    \/ /\ tries[c] < MaxTries
       /\ Goes(c, "get")
       /\ tries' = [tries EXCEPT ![c] = @ + 1]
    \/ /\ tries[c] >= MaxTries
       /\ Ends(c, "err")
       /\ UNCHANGED tries

\* Mutant: adoption sends the object built from the spec.
UpdateWhole(c) == Desired(Me[c], Want[c])

\* What an Update sends: the cached copy with its controller set, or the whole
\* object built from the spec.
Update(c) ==
    IF helper[c] = "adopt" THEN Controlled(log[base[c]], Me[c])
                           ELSE Desired(Me[c], Want[c])

\* Mutant: an Update without a resourceVersion.
WriteBlind(c) ==
    /\ pc[c] = "write"
    /\ \/ Live # Absent /\ Writes(c, Update(c))
       \/ Live = Absent /\ Ends(c, "err") /\ UNCHANGED log
    /\ UNCHANGED <<seen, helper, tries, base, since>>

\* Update: accepted when the resourceVersion is the live one, NotFound when the
\* object is gone, a conflict otherwise.
Write(c) ==
    /\ pc[c] = "write"
    /\ \/ base[c] = Len(log) /\ Writes(c, Update(c)) /\ UNCHANGED tries
       \/ base[c] # Len(log) /\ Live = Absent /\ Ends(c, "err")
             /\ UNCHANGED <<log, tries>>
       \/ base[c] # Len(log) /\ Live # Absent /\ Retry(c) /\ UNCHANGED log
    /\ UNCHANGED <<seen, helper, base, since>>

\* Any API call may fail without effect.
Fault(c) ==
    /\ InCall(c)
    /\ Ends(c, "err")
    /\ UNCHANGED <<log, seen, helper, tries, base, since>>

Step(c) == Create(c) \/ GetToAdopt(c) \/ GetToReplace(c) \/ Write(c)

-----------------------------------------------------------------------------
(* The rest of the cluster. *)

\* The informer of a manager delivers the next version.
InformerSync(c) ==
    /\ seen[c] < Len(log)
    /\ seen' = [seen EXCEPT ![c] = @ + 1]
    /\ UNCHANGED <<log, pc, helper, tries, base, since>>

\* Someone else creates, changes or deletes the object: a user, the controller
\* that keeps its status, an older operator, the garbage collector.  Nobody else
\* changes the controller reference of an object that exists.
OtherWrite ==
    /\ Len(log) < MaxVersions
    /\ \/ Live = Absent /\ \E obj \in Objects(Contents) : log' = Append(log, obj)
       \/ Live # Absent /\ log' = Append(log, Absent)
       \/ /\ Live # Absent
          /\ \E d \in Contents : log' = Append(log, [Live EXCEPT !.data = d])
    /\ UNCHANGED <<seen, pc, helper, tries, base, since>>

Next ==
    \/ \E c \in Callers :
         \/ \E h \in {"adopt", "replace"} : Begin(c, h)
         \/ Step(c)
         \/ Fault(c)
         \/ InformerSync(c)
    \/ OtherWrite

Spec == Init /\ [][Next]_vars

\* A worker that is in a call takes its next step: the goroutine runs and every
\* API call has a deadline.  Nothing is assumed of the informers.
FairSpec == Spec /\ \A c \in Callers : WF_vars(Step(c))

-----------------------------------------------------------------------------
(* Properties. *)

\* Types; a copy is of a version there has been, 0 for none, and RetryOnConflict
\* never makes more than MaxTries attempts.
TypeOK ==
    /\ log \in Seq(Versions)
    /\ seen \in [Callers -> 0 .. Len(log)]
    /\ pc \in [Callers -> {"idle", "create", "get", "write", "ok", "err"}]
    /\ helper \in [Callers -> {"adopt", "replace"}]
    /\ tries \in [Callers -> 0 .. MaxTries]
    /\ base \in [Callers -> 0 .. Len(log)]
    /\ since \in [Callers -> 0 .. Len(log)]

\* createOrAdopt and createOrUpdate answer nil only when the object was under the
\* caller's CR at some version its informer had not yet left behind when the
\* call began: a cached copy may be stale, but never older than that.
OkMeansControlled ==
    \A c \in Callers : pc[c] = "ok" =>
        \E v \in 1 .. Len(log) :
            /\ v >= since[c]
            /\ log[v] # Absent
            /\ IsControlledBy(log[v], Me[c])

\* A step in which an adopting caller's Update appears in the log.
AdoptionWrites(c) ==
    pc[c] = "write" /\ helper[c] = "adopt" /\ pc'[c] # pc[c] /\ log' # log

\* createOrAdopt never takes an object from another CR: what it overwrites was
\* uncontrolled or controlled by an object of the caller's own name, also when
\* the cached copy it decided on is stale.
AdoptNeverSteals ==
    [][\A c \in Callers : AdoptionWrites(c) => CanControl(Live, Me[c])]_vars

\* createOrAdopt never undoes a concurrent change: the version its Update writes
\* has the content of the version it replaces (a user's edit of a StorageClass
\* or a ClusterRole that lands between its Get and its Update survives).
AdoptKeepsContent ==
    [][\A c \in Callers : AdoptionWrites(c) =>
            Live # Absent /\ Live'.data = Live.data]_vars

\* Every helper call returns, even if the informer never catches up with the
\* conflicts it causes: RetryOnConflict gives up.
CallsReturn == \A c \in Callers : InCall(c) ~> ~InCall(c)

\* The API calls a helper call may still make, the one it is at included.
CallsLeft(c) ==
    CASE pc[c] = "create" /\ helper[c] = "adopt" -> 2 * MaxTries + 1
      [] pc[c] = "get"                           -> 2 * (MaxTries - tries[c]) + 2
      [] OTHER                                   -> 2 * (MaxTries - tries[c]) + 1

\* A helper call costs the API server a Create and two calls for each attempt at
\* most: every API call leaves one less, whatever the other callers and the
\* informers do, and there never are none left before the call has returned.
CallsAreNumbered ==
    [][\A c \in Callers : InCall(c) /\ InCall(c)' =>
         /\ CallsLeft(c) \in 1 .. 2 * MaxTries + 1
         /\ \/ UNCHANGED <<pc[c], CallsLeft(c)>>
            \/ CallsLeft(c)' < CallsLeft(c)]_vars

-----------------------------------------------------------------------------
(* The helpers implement AtomicApply. *)

Owners == {log[v].owner : v \in {w \in 1 .. Len(log) : log[w] # Absent}}

Atomic == INSTANCE AtomicApply WITH
    object <- Live,
    owners <- Owners,
    state  <- [c \in Callers |-> IF InCall(c) THEN "busy" ELSE pc[c]],
    helper <- helper

\* Each helper call takes effect in one step or not at all, with the outcomes
\* AtomicApply lists: this is what lets a reconcile treat a call as one step.
ImplementsAtomicApply == Atomic!Spec
=============================================================================
