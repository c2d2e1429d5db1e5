-------------------------- MODULE MCNodeRegistration -------------------------
(***************************************************************************)
(* An instance of NodeRegistration: the CR as it comes, one for a closed    *)
(* network that filters disk types, one with access keys, and one that      *)
(* gives both plugins a port of its own.                                    *)
(***************************************************************************)
EXTENDS NodeRegistration

Plain == [extraEnv |-> << >>, ecsEndpoint |-> FALSE]

Closed == [extraEnv |-> [DISK_ALLOW_ALL_TYPE |-> "false"], ecsEndpoint |-> TRUE]

WithKeys ==
    [extraEnv |-> [ALIBABA_CLOUD_ACCESS_KEY_ID |-> "secret"], ecsEndpoint |-> TRUE]

OnePort == [extraEnv |-> [SERVICE_PORT |-> 11270], ecsEndpoint |-> TRUE]

MCConfigs == {Plain, Closed, WithKeys, OnePort}
MCNASCalls == {"DescribeDisks"}
=============================================================================
