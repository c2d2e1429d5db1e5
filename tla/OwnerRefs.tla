------------------------------ MODULE OwnerRefs ------------------------------
(***************************************************************************)
(* Controller owner references, as metav1.IsControlledBy and               *)
(* controllerutil.SetControllerReference read and write them.  A reference  *)
(* carries the UID of the owner and its group, kind and name; of those only *)
(* the UID and the name differ between the owners of this system, which are *)
(* all AlibabaCloudCSIDriver objects.                                       *)
(***************************************************************************)
CONSTANTS
    Uids,       \* UIDs of the objects that may own others
    NameOf,     \* the name of the object behind each UID
    NoOwner,    \* an object without a controller reference
    Absent      \* the object is not in the cluster

ASSUME OwnerAssumption == NoOwner \notin Uids

\* An object of the cluster: its controller, and the content the helpers write.
Objects(Contents) == [owner : Uids \cup {NoOwner}, data : Contents]

\* metav1.IsControlledBy: the controller is compared by UID.
IsControlledBy(obj, me) == obj.owner = me

\* SetControllerReference accepts an object nobody controls and one whose
\* controller has the name of the new owner (an earlier incarnation of the CR:
\* the references are compared by group, kind and name), and answers
\* AlreadyOwnedError for any other controller.
CanControl(obj, me) ==
    obj.owner \in {NoOwner} \cup {u \in Uids : NameOf[u] = NameOf[me]}

\* The object with its controller reference set to me, the rest untouched.
Controlled(obj, me) == [obj EXCEPT !.owner = me]

\* Mutant: a fresh object without an owner reference.
DesiredUnowned(me, data) == [owner |-> NoOwner, data |-> data]

\* A fresh object with the content a reconcile wants, owned by its CR.
Desired(me, data) == [owner |-> me, data |-> data]
=============================================================================
