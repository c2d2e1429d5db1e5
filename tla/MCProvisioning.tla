---------------------------- MODULE MCProvisioning ---------------------------
(***************************************************************************)
(* An instance of Provisioning: one tainted master and a worker that is     *)
(* labelled infra, two zones, disk classes of either reclaim policy, and    *)
(* NAS classes that are complete, lack a field, or are of the wrong mode.   *)
(***************************************************************************)
EXTENDS Provisioning

CONSTANTS m1, w1

MCNodes == {m1, w1}
MCNodeLabels == [n \in MCNodes |-> IF n = m1 THEN {"master"} ELSE {"infra"}]
MCNodeTaints == [n \in MCNodes |-> IF n = m1 THEN {"master"} ELSE {}]

NAS(mode, fields) == [driver |-> "nas", retain |-> FALSE, volumeAs |-> mode, set |-> fields]

MCClasses ==
    {[driver |-> "disk", retain |-> b] : b \in BOOLEAN}
    \cup {NAS(None, Network), NAS(None, {"server"}),
          NAS("filesystem", Network \ {"zoneId"}),
          NAS("subpath", {"server", "storageType"}), NAS("subpath", Network)}
    \cup {[NAS("filesystem", Network) EXCEPT !.retain = TRUE]}

\* The fields left out, one replica on any node, and one per node with a label nobody has.
MCControllers ==
    {[replicas |-> 0, nodeSelector |-> None, tolerations |-> {}],
     [replicas |-> 2, nodeSelector |-> {}, tolerations |-> {"master"}],
     [replicas |-> 1, nodeSelector |-> {"infra"}, tolerations |-> {"infra"}],
     [replicas |-> 1, nodeSelector |-> {"master", "infra"}, tolerations |-> {}]}
=============================================================================
