----------------------------- MODULE MCReconciler ----------------------------
(***************************************************************************)
(* Instances of Reconciler: the specs users switch between, and the names.  *)
(***************************************************************************)
EXTENDS ReconcilerClaims, TLC

CONSTANTS csi1, csi2, other

MCUids == {csi1, csi2, other}
MCNameOf == [u \in MCUids |-> IF u = other THEN "other" ELSE "csi"]
MCSymmetry == Permutations({csi1, csi2})

MCClassNames == {"essd", "ssd", "nas"}
MCSnapNames == {"snap-default", "snap-own"}

Snapshots(enabled, name) == [enabled |-> enabled, className |-> name]
Disk(classes, snapshot, patch) ==
    [enabled |-> TRUE, defaultClass |-> TRUE, classes |-> classes,
     snapshot |-> snapshot, patch |-> patch]
NoDisk == [Disk(<< >>, Snapshots(FALSE, NoName), FALSE) EXCEPT !.enabled = FALSE]
NAS(classes, patch) == [enabled |-> TRUE, classes |-> classes, patch |-> patch]
NoNAS == [enabled |-> FALSE, classes |-> << >>, patch |-> FALSE]

\* Disk only, with snapshots and StorageProfile patching.
DiskOnly ==
    [disk |-> Disk(<<"essd">>, Snapshots(TRUE, NoName), TRUE), nas |-> NoNAS, params |-> "p1"]

\* Both drivers, with other workload parameters.
Both ==
    [disk |-> Disk(<<"essd">>, Snapshots(FALSE, NoName), FALSE),
     nas |-> NAS(<<"nas">>, FALSE), params |-> "p2"]

\* The NAS driver alone.
NASOnly == [disk |-> NoDisk, nas |-> NAS(<<"nas">>, TRUE), params |-> "p1"]

MCSpecs == {DiskOnly, Both}
DiskAlone == {DiskOnly}
BothThenNAS == {Both, NASOnly}
NASPatched == {NASOnly}

\* NAS alone with two sets of parameters, and a second class in one of them.
NASFirst == [disk |-> NoDisk, nas |-> NAS(<<"nas">>, FALSE), params |-> "p1"]
NASSecond == [disk |-> NoDisk, nas |-> NAS(<<"nas", "ssd">>, FALSE), params |-> "p2"]
NASOne == {NASFirst}

\* The NAS driver without a class, and with one and other parameters.
NASBare == [disk |-> NoDisk, nas |-> NAS(<< >>, FALSE), params |-> "p2"]
NASClassAdded == {NASBare, NASFirst}
NASPair == {NASFirst, NASSecond}

\* A second disk class put before the first one.
NewFirstClass ==
    [disk |-> Disk(<<"ssd", "essd">>, Snapshots(TRUE, NoName), FALSE), nas |-> NoNAS,
     params |-> "p1"]

TwoFirstClasses == {DiskOnly, NewFirstClass}
DiskOrNAS == {DiskOnly, NASOnly}
=============================================================================
