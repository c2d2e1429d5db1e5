--------------------------- MODULE NodeRegistration --------------------------
(***************************************************************************)
(* One node of the cluster, on which the DaemonSets csi-disk-node and       *)
(* csi-nas-node the operator writes run side by side on the host network:   *)
(* which ports their containers bind, what the csi-plugin containers are    *)
(* told by their environment, and the startup probe that restarts a plugin  *)
(* until its driver is registered with the kubelet.                         *)
(*                                                                          *)
(* A plugin builds its ECS client once, when it starts.  If the credential  *)
(* provider of the node has not warmed up by then, the client stays bare    *)
(* and every signed call it makes fails, NodeGetInfo included where it      *)
(* makes one, and with it the registration.                                 *)
(***************************************************************************)
EXTENDS Naturals

CONSTANTS
    Configs,           \* values of the CR's extraEnv and ecsEndpoint
    NASCalls,          \* ECS calls NodeGetInfo makes in the NAS driver
    Egress,            \* the public ECS endpoint can be reached
    FailureThreshold,  \* failures of the startup probe before a restart
    MaxTrouble         \* bound: edits of the CR and dying containers

\* extraEnv is a list with the name as its key: a function from names to values.
ASSUME NodeAssumption ==
    /\ \A cfg \in Configs : cfg.ecsEndpoint \in BOOLEAN
    /\ Egress \in BOOLEAN
    /\ FailureThreshold \in Nat \ {0}
    /\ MaxTrouble \in Nat

Drivers == {"disk", "nas"}
Parts == {"plugin", "registrar", "health"}
Containers == Drivers \X Parts

-----------------------------------------------------------------------------
(* The templates. *)

\* Mutant: without DISK_ALLOW_ALL_TYPE, as before v0.1.6.
DiskNodeAsksForTypes ==
    [env |-> [SERVICE_PORT |-> 11260, MAX_VOLUMES_PERNODE |-> 15],
     registrar |-> 9810, health |-> 9808, probe |-> 9810]

\* Mutant: the probe of the disk plugin asks the NAS registrar.
DiskNodeProbesNAS ==
    [env |-> [SERVICE_PORT |-> 11260, MAX_VOLUMES_PERNODE |-> 15,
              DISK_ALLOW_ALL_TYPE |-> "true"],
     registrar |-> 9810, health |-> 9808, probe |-> 9811]

\* ensureDiskNodeDaemonSet: the environment the operator gives the plugin, the
\* ports of --http-endpoint and --health-port, and the port the probe asks.
DiskNode ==
    [env |-> [SERVICE_PORT |-> 11260, MAX_VOLUMES_PERNODE |-> 15,
              DISK_ALLOW_ALL_TYPE |-> "true"],
     registrar |-> 9810, health |-> 9808, probe |-> 9810]

\* Mutant: the probe of the NAS plugin asks the disk registrar.
NASNodeProbesDisk ==
    [env |-> [SERVICE_PORT |-> 11261], registrar |-> 9811, health |-> 9809, probe |-> 9810]

\* Mutant: both liveness probes on one port, as before v0.1.3.
NASNodeSharesHealthPort ==
    [env |-> [SERVICE_PORT |-> 11261], registrar |-> 9811, health |-> 9808, probe |-> 9811]

\* ensureNASNodeDaemonSet.
NASNode ==
    [env |-> [SERVICE_PORT |-> 11261], registrar |-> 9811, health |-> 9809, probe |-> 9811]

Template(d) == IF d = "disk" THEN DiskNode ELSE NASNode

\* The variables of env with more appended to them: of two entries of one name the
\* last counts.
Appended(env, more) ==
    [name \in DOMAIN env \cup DOMAIN more |->
        IF name \in DOMAIN more THEN more[name] ELSE env[name]]

\* driverEnv: extraEnv, and ECS_ENDPOINT when the CR has one.
DriverEnv(cfg) ==
    Appended(cfg.extraEnv, IF cfg.ecsEndpoint THEN [ECS_ENDPOINT |-> "private"] ELSE << >>)

PluginEnv ==
    [d \in Drivers |-> [cfg \in Configs |-> Appended(Template(d).env, DriverEnv(cfg))]]

-----------------------------------------------------------------------------
VARIABLES
    config,      \* the configuration of the CR
    pod,         \* the configuration each driver's pod was made with
    up,          \* the containers that run
    signed,      \* the plugins whose ECS client has credentials
    failures,    \* of each plugin's startup probe since the plugin started
    started,     \* the plugins whose startup probe has succeeded
    registered,  \* the drivers registered with the kubelet
    warm,        \* the credential provider of the node has warmed up
    trouble      \* what is left of MaxTrouble

vars == <<config, pod, up, signed, failures, started, registered, warm, trouble>>

Env(d) == PluginEnv[d][pod[d]]

Has(d, name) == name \in DOMAIN Env(d)

\* The host port a container binds.
Port(c) ==
    CASE c[2] = "plugin"    -> Env(c[1])["SERVICE_PORT"]
      [] c[2] = "registrar" -> Template(c[1]).registrar
      [] c[2] = "health"    -> Template(c[1]).health

\* The ECS calls NodeGetInfo makes; each of the disk driver's is switched off by a
\* variable of its own.
Calls(d) ==
    IF d = "nas" THEN NASCalls
    ELSE {call \in {"DescribeDisks", "DescribeAvailableResource"} :
            \/ call = "DescribeDisks" /\ ~Has(d, "MAX_VOLUMES_PERNODE")
            \/ /\ call = "DescribeAvailableResource"
               /\ ~(Has(d, "DISK_ALLOW_ALL_TYPE") /\ Env(d)["DISK_ALLOW_ALL_TYPE"] = "true")}

\* An ECS endpoint the plugin can reach.
Reaches(d) == Egress \/ Has(d, "ECS_ENDPOINT")

NodeGetInfoWorks(d) == Calls(d) = {} \/ (d \in signed /\ Reaches(d))

Init ==
    /\ config \in Configs
    /\ pod = [d \in Drivers |-> config]
    /\ up = {}
    /\ signed = {} /\ started = {} /\ registered = {}
    /\ failures = [d \in Drivers |-> 0]
    /\ warm \in BOOLEAN
    /\ trouble = MaxTrouble

-----------------------------------------------------------------------------
(* The containers. *)

\* The kubelet starts a container, which crashes at once when another one has its
\* port.  A plugin builds its client from the keys in its environment, which come
\* before the role of the node, or from the provider.
Start(c) ==
    /\ c \notin up
    /\ \A other \in up : Port(other) # Port(c)
    /\ up' = up \cup {c}
    /\ signed' = IF c[2] = "plugin" /\ (warm \/ Has(c[1], "ALIBABA_CLOUD_ACCESS_KEY_ID"))
                 THEN signed \cup {c[1]} ELSE signed
    /\ UNCHANGED <<config, pod, failures, started, registered, warm, trouble>>

\* The plugin of a driver is gone, and with it what is known of its start.
PluginGone(d) ==
    /\ signed' = signed \ {d}
    /\ started' = started \ {d}
    /\ failures' = [failures EXCEPT ![d] = 0]

Talking(d) == {<<d, "plugin">>, <<d, "registrar">>} \subseteq up /\ d \notin registered

\* The registrar registers the driver, for which the kubelet calls NodeGetInfo.
Register(d) ==
    /\ Talking(d) /\ NodeGetInfoWorks(d)
    /\ registered' = registered \cup {d}
    /\ UNCHANGED <<config, pod, up, signed, failures, started, warm, trouble>>

\* When that fails the registrar exits.
RegistrarExits(d) ==
    /\ Talking(d) /\ ~NodeGetInfoWorks(d)
    /\ up' = up \ {<<d, "registrar">>}
    /\ UNCHANGED <<config, pod, signed, failures, started, registered, warm, trouble>>

\* The registrar that answers on the port the probe of d asks reports its own
\* driver registered.
Healthy(d) ==
    \E e \in registered : <<e, "registrar">> \in up /\ Template(e).registrar = Template(d).probe

\* The startup probe of a plugin; it is over once it has succeeded.
ProbeSucceeds(d) ==
    /\ <<d, "plugin">> \in up /\ d \notin started
    /\ Healthy(d)
    /\ started' = started \cup {d}
    /\ UNCHANGED <<config, pod, up, signed, failures, registered, warm, trouble>>

\* Mutant: the plugin that fails its probe for good is left alone.
ProbeFailsForGood(d) ==
    /\ <<d, "plugin">> \in up /\ d \notin started
    /\ ~Healthy(d)
    /\ failures' = [failures EXCEPT ![d] = @ + 1]
    /\ UNCHANGED <<config, pod, up, signed, started, registered, warm, trouble>>

\* FailureThreshold failures restart the plugin.
ProbeFails(d) ==
    /\ <<d, "plugin">> \in up /\ d \notin started
    /\ ~Healthy(d)
    /\ \/ /\ failures[d] + 1 < FailureThreshold
          /\ failures' = [failures EXCEPT ![d] = @ + 1]
          /\ UNCHANGED <<up, signed, started>>
       \/ /\ failures[d] + 1 >= FailureThreshold
          /\ up' = up \ {<<d, "plugin">>}
          /\ PluginGone(d)
    /\ UNCHANGED <<config, pod, registered, warm, trouble>>

-----------------------------------------------------------------------------
(* The rest of the node. *)

Warm ==
    /\ ~warm
    /\ warm' = TRUE
    /\ UNCHANGED <<config, pod, up, signed, failures, started, registered, trouble>>

\* The provider stops answering for a while; clients that have credentials keep them.
Cools ==
    /\ warm
    /\ trouble > 0 /\ trouble' = trouble - 1
    /\ warm' = FALSE
    /\ UNCHANGED <<config, pod, up, signed, failures, started, registered>>

\* A container dies; a registrar takes its registration with it.
Dies(c) ==
    /\ c \in up
    /\ trouble > 0 /\ trouble' = trouble - 1
    /\ up' = up \ {c}
    /\ registered' = IF c[2] = "registrar" THEN registered \ {c[1]} ELSE registered
    /\ IF c[2] = "plugin" THEN PluginGone(c[1]) ELSE UNCHANGED <<signed, started, failures>>
    /\ UNCHANGED <<config, pod, warm>>

\* The CR is edited, and the operator rewrites both DaemonSets.
EditCR ==
    /\ trouble > 0 /\ trouble' = trouble - 1
    /\ config' \in Configs \ {config}
    /\ UNCHANGED <<pod, up, signed, failures, started, registered, warm>>

\* A pod of an older template is deleted and made again.
Rollout(d) ==
    /\ pod[d] # config
    /\ pod' = [pod EXCEPT ![d] = config]
    /\ up' = up \ ({d} \X Parts)
    /\ registered' = registered \ {d}
    /\ PluginGone(d)
    /\ UNCHANGED <<config, warm, trouble>>

Next ==
    \/ \E d \in Drivers :
         Register(d) \/ RegistrarExits(d) \/ ProbeSucceeds(d) \/ ProbeFails(d) \/ Rollout(d)
    \/ \E c \in Containers : Start(c) \/ Dies(c)
    \/ Warm \/ Cools
    \/ EditCR

Spec == Init /\ [][Next]_vars

\* The kubelet starts and probes containers and the DaemonSet controller replaces
\* pods.  Registration is tried again and again, with a plugin that restarts under
\* it: a fair chance is all it gets.  The provider may never warm up.
FairSpec ==
    /\ Spec
    /\ \A c \in Containers : WF_vars(Start(c))
    /\ \A d \in Drivers : /\ WF_vars(ProbeSucceeds(d) \/ ProbeFails(d))
                          /\ WF_vars(Rollout(d))
                          /\ SF_vars(Register(d))

-----------------------------------------------------------------------------
(* Properties. *)

\* Only what runs has a client, a probe or a registration, and a plugin is
\* restarted at the FailureThreshold-th failure of its probe.
TypeOK ==
    /\ config \in Configs
    /\ pod \in [Drivers -> Configs]
    /\ up \subseteq Containers
    /\ signed \cup started \subseteq {d \in Drivers : <<d, "plugin">> \in up}
    /\ registered \subseteq {d \in Drivers : <<d, "registrar">> \in up}
    /\ failures \in [Drivers -> 0 .. FailureThreshold - 1]
    /\ warm \in BOOLEAN
    /\ trouble \in Nat

\* "Restart the plugin until kubelet registration succeeds": the probe never takes
\* down the plugin of a driver that is registered, whatever the other driver's
\* containers on the same host do.
Probed(d) == <<d, "plugin">> \in up /\ <<d, "plugin">> \notin up' /\ UNCHANGED <<pod, trouble>>

HealsOnlyTheUnregistered == [][\A d \in Drivers : Probed(d) => d \notin registered]_vars

\* A driver that can reach its endpoint, or needs none.
CanRegister(d) == Calls(d) = {} \/ Reaches(d)

\* extraEnv moves the plugins of both drivers to one port, and the other has it or
\* comes back to it again and again.
Blocked(d) ==
    /\ "SERVICE_PORT" \in DOMAIN config.extraEnv
    /\ <<d, "plugin">> \notin up
    /\ \E e \in Drivers \ {d} : <<e, "plugin">> \in up \/ ~CanRegister(e)

\* A bare client behind a startup probe that is over: the plugin started without
\* credentials while its driver was registered.
Stranded(d) == d \in started \ signed

\* With a provider that stays warm in the end every driver that can registers, also
\* with plugins that started too early, unless its plugin is without a port or is
\* stranded: in these two cases the startup probe does not help.
EveryDriverRegisters ==
    <>[]warm =>
        <>[](\A d \in Drivers : CanRegister(d) => d \in registered \/ Blocked(d) \/ Stranded(d))

\* "Registration then never depends on cloud credentials": the disk driver registers
\* on a node that has none, unless extraEnv asks for the calls again or gives its port
\* to the NAS plugin too.
DiskNeedsNoCredentials ==
    <>[]("disk" \in registered
         \/ {"DISK_ALLOW_ALL_TYPE", "SERVICE_PORT"} \cap DOMAIN config.extraEnv # {})

\* Both DaemonSets run on the host network: no container waits for a port for good,
\* except one plugin of a CR that moves both to the same port.
EveryContainerRuns ==
    <>[]warm =>
        <>[](\A c \in Containers :
               CanRegister(c[1]) => \/ c \in up
                                    \/ c[2] = "plugin" /\ Blocked(c[1])
                                    \/ c[2] = "registrar" /\ Stranded(c[1]))
=============================================================================
