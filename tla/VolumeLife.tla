------------------------------ MODULE VolumeLife -----------------------------
(***************************************************************************)
(* What a storage class promises of the volume of one claim: it is made at  *)
(* most once, it is there as long as the claim is and wherever its pod      *)
(* runs, it outlives the claim if the class says Retain, and otherwise it   *)
(* is removed before the last record of it.  Provisioning, with its         *)
(* replicas that die, lose their leases and retry, is shown to implement    *)
(* this.                                                                    *)
(***************************************************************************)
CONSTANTS
    Places,    \* where a volume may be
    None       \* there is no volume

VARIABLES
    policy,    \* reclaimPolicy of the class: "Delete" or "Retain"
    phase,     \* "none", "made", "bound", "released", "removed" or "gone"
    place,     \* of the volume, or None
    inUse      \* by a running pod

lvars == <<policy, phase, place, inUse>>

Init ==
    /\ policy \in {"Delete", "Retain"}
    /\ phase = "none" /\ place = None /\ inUse = FALSE

Goes(from, to) == phase = from /\ phase' = to

\* The cloud makes the volume, and only once: a volume made for a claim that has one, or
\* has had one, would be nobody's to delete.
Make ==
    /\ Goes("none", "made")
    /\ place' \in Places
    /\ UNCHANGED <<policy, inUse>>

\* The record of the volume is saved and the claim bound to it.
Bind ==
    /\ Goes("made", "bound")
    /\ UNCHANGED <<policy, place, inUse>>

Use ==
    /\ phase = "bound"
    /\ inUse' = TRUE
    /\ UNCHANGED <<policy, phase, place>>

\* The pod and the claim are deleted.
Release ==
    /\ Goes("bound", "released")
    /\ inUse' = FALSE
    /\ UNCHANGED <<policy, place>>

Remove ==
    /\ policy = "Delete"
    /\ Goes("released", "removed")
    /\ place' = None
    /\ UNCHANGED <<policy, inUse>>

\* The record goes last: as long as there is a volume, something points to it.
Forget ==
    /\ Goes("removed", "gone")
    /\ UNCHANGED <<policy, place, inUse>>

Next == Make \/ Bind \/ Use \/ Release \/ Remove \/ Forget

Spec == Init /\ [][Next]_lvars
=============================================================================
