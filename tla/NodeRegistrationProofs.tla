------------------------ MODULE NodeRegistrationProofs -----------------------
(***************************************************************************)
(* Two drivers on one node, for any configurations of the CR, any calls of  *)
(* the NAS driver and any threshold: type correctness, that the startup     *)
(* probe of a driver never takes down the plugin of one that is registered, *)
(* who can be left with a bare client, and what extraEnv cannot disturb.    *)
(***************************************************************************)
EXTENDS NodeRegistration, TLAPS

\* The containers of different drivers, and the parts of one, are different.
LEMMA ContainersDiffer ==
    /\ \A d \in Drivers, p \in Parts : <<d, p>> \in Containers
    /\ "plugin" \in Parts /\ "registrar" \in Parts /\ "plugin" # "registrar"
    /\ \A c \in Containers : c[1] \in Drivers /\ c[2] \in Parts /\ c = <<c[1], c[2]>>
  BY DEF Containers, Parts

\* Forgetting a plugin leaves no client, no probe and no failures of it.
LEMMA ForgetsPlugin ==
    ASSUME TypeOK, NEW d \in Drivers, PluginGone(d),
           \A e \in Drivers \ {d} : <<e, "plugin">> \in up => <<e, "plugin">> \in up'
    PROVE  /\ signed' \cup started' \subseteq {e \in Drivers : <<e, "plugin">> \in up'}
           /\ failures' \in [Drivers -> 0 .. FailureThreshold - 1]
<1>1. 0 \in 0 .. FailureThreshold - 1
  BY NodeAssumption DEF NodeAssumption
<1>2. failures' \in [Drivers -> 0 .. FailureThreshold - 1]
  BY <1>1 DEF TypeOK, PluginGone
<1>3. signed' \cup started' \subseteq {e \in Drivers : <<e, "plugin">> \in up'}
  BY DEF TypeOK, PluginGone
<1> QED
  BY <1>2, <1>3

\* Every step keeps the types.
LEMMA NodeType == TypeOK /\ [Next]_vars => TypeOK'
<1> SUFFICES ASSUME TypeOK, [Next]_vars
             PROVE  TypeOK'
  OBVIOUS
<1> USE DEF TypeOK
<1>1. ASSUME NEW d \in Drivers, Register(d)
      PROVE  TypeOK'
  BY <1>1 DEF Register, Talking
<1>2. ASSUME NEW d \in Drivers, RegistrarExits(d)
      PROVE  TypeOK'
  BY <1>2, ContainersDiffer DEF RegistrarExits, Talking
<1>3. ASSUME NEW d \in Drivers, ProbeSucceeds(d)
      PROVE  TypeOK'
  BY <1>3 DEF ProbeSucceeds
<1>4. ASSUME NEW d \in Drivers, ProbeFails(d)
      PROVE  TypeOK'
  <2>1. CASE failures[d] + 1 < FailureThreshold /\ UNCHANGED <<up, signed, started>>
    <3>1. failures[d] \in Nat /\ failures' = [failures EXCEPT ![d] = @ + 1]
      BY <1>4, <2>1 DEF ProbeFails
    <3>2. failures' \in [Drivers -> 0 .. FailureThreshold - 1]
      BY <2>1, <3>1, NodeAssumption DEF NodeAssumption
    <3> QED
      BY <1>4, <2>1, <3>2 DEF ProbeFails
  <2>2. CASE up' = up \ {<<d, "plugin">>} /\ PluginGone(d)
    <3>1. \A e \in Drivers \ {d} : <<e, "plugin">> \in up => <<e, "plugin">> \in up'
      BY <2>2
    <3>2. \A e \in Drivers : <<e, "registrar">> \in up => <<e, "registrar">> \in up'
      BY <2>2
    <3>3. UNCHANGED <<config, pod, registered, warm, trouble>>
      BY <1>4 DEF ProbeFails
    <3> QED
      BY <2>2, <3>1, <3>2, <3>3, ForgetsPlugin
  <2> QED
    BY <1>4, <2>1, <2>2 DEF ProbeFails
<1>5. ASSUME NEW d \in Drivers, Rollout(d)
      PROVE  TypeOK'
  <2>1. \A e \in Drivers \ {d}, p \in Parts : <<e, p>> \in up => <<e, p>> \in up'
    BY <1>5 DEF Rollout
  <2>2. registered' \subseteq {e \in Drivers : <<e, "registrar">> \in up'}
    BY <1>5, <2>1, ContainersDiffer DEF Rollout
  <2> QED
    BY <1>5, <2>1, <2>2, ForgetsPlugin, ContainersDiffer DEF Rollout
<1>6. ASSUME NEW c \in Containers, Start(c)
      PROVE  TypeOK'
  <2>1. up' \subseteq Containers /\ up \subseteq up'
    BY <1>6 DEF Start
  <2>2. signed' \subseteq {d \in Drivers : <<d, "plugin">> \in up'}
    BY <1>6, <2>1, ContainersDiffer DEF Start
  <2> QED
    BY <1>6, <2>1, <2>2 DEF Start
<1>7. ASSUME NEW c \in Containers, Dies(c)
      PROVE  TypeOK'
  <2>1. /\ up' = up \ {c}
        /\ trouble' \in Nat
        /\ UNCHANGED <<config, pod, warm>>
    BY <1>7 DEF Dies
  <2>2. c[1] \in Drivers /\ c = <<c[1], c[2]>>
    BY ContainersDiffer
  <2>3. registered' \subseteq {d \in Drivers : <<d, "registrar">> \in up'}
    <3>1. CASE c[2] = "registrar"
      BY <1>7, <2>1, <2>2, <3>1 DEF Dies
    <3>2. CASE c[2] # "registrar"
      BY <1>7, <2>1, <2>2, <3>2 DEF Dies
    <3> QED
      BY <3>1, <3>2
  <2>4. /\ signed' \cup started' \subseteq {d \in Drivers : <<d, "plugin">> \in up'}
        /\ failures' \in [Drivers -> 0 .. FailureThreshold - 1]
    <3>1. CASE c[2] = "plugin"
      <4>1. PluginGone(c[1])
        BY <1>7, <3>1 DEF Dies
      <4>2. \A e \in Drivers \ {c[1]} : <<e, "plugin">> \in up => <<e, "plugin">> \in up'
        BY <2>1, <2>2
      <4> QED
        BY <2>2, <4>1, <4>2, ForgetsPlugin
    <3>2. CASE c[2] # "plugin"
      BY <1>7, <2>1, <2>2, <3>2 DEF Dies
    <3> QED
      BY <3>1, <3>2
  <2> QED
    BY <2>1, <2>3, <2>4
<1>8. CASE Warm
  BY <1>8 DEF Warm
<1>9. CASE EditCR
  BY <1>9 DEF EditCR
<1>10. CASE Cools
  <2>1. trouble' \in Nat
    BY <1>10 DEF Cools
  <2> QED
    BY <1>10, <2>1 DEF Cools
<1>11. CASE UNCHANGED vars
  BY <1>11 DEF vars
<1> QED
  BY <1>1, <1>2, <1>3, <1>4, <1>5, <1>6, <1>7, <1>8, <1>9, <1>10, <1>11 DEF Next

\* Only what runs has a client, a probe or a registration, and no plugin outlives the
\* last failure of its probe.
THEOREM TypeCorrect == Spec => []TypeOK
<1>1. Init => TypeOK
  BY NodeAssumption DEF Init, TypeOK, NodeAssumption
<1> QED
  BY <1>1, NodeType, PTL DEF Spec

\* The probe of each driver asks its own registrar.
LEMMA ProbesItsOwn == \A d \in Drivers : Template(d).registrar = Template(d).probe
  BY DEF Drivers, Template, DiskNode, NASNode

\* A plugin that goes down while its pod stays and nothing dies has failed its probe.
LEMMA ProbedFailed ==
    ASSUME TypeOK, [Next]_vars, NEW d \in Drivers, Probed(d)
    PROVE  ProbeFails(d)
<1>1. <<d, "plugin">> \in up /\ <<d, "plugin">> \notin up' /\ pod' = pod /\ trouble' = trouble
  BY DEF Probed
<1>2. ~UNCHANGED vars
  BY <1>1 DEF vars
<1>3. ASSUME NEW e \in Drivers
      PROVE  ~Register(e) /\ ~RegistrarExits(e) /\ ~ProbeSucceeds(e)
  BY <1>1 DEF Register, RegistrarExits, ProbeSucceeds
<1>4. ASSUME NEW e \in Drivers, Rollout(e)
      PROVE  FALSE
  BY <1>1, <1>4 DEF Rollout, TypeOK
<1>5. ASSUME NEW c \in Containers
      PROVE  ~Start(c) /\ ~Dies(c)
  BY <1>1 DEF Start, Dies, TypeOK
<1>6. ~Warm /\ ~Cools /\ ~EditCR
  BY <1>1 DEF Warm, Cools, EditCR
<1>7. PICK e \in Drivers : ProbeFails(e)
  BY <1>2, <1>3, <1>4, <1>5, <1>6 DEF Next
<1>8. e = d
  BY <1>1, <1>7 DEF ProbeFails
<1> QED
  BY <1>7, <1>8

\* The startup probe takes down the plugin of an unregistered driver only: whatever
\* the other driver's containers on the same host do, for every configuration.
THEOREM HealSound == Spec => HealsOnlyTheUnregistered
<1>1. ASSUME TypeOK, [Next]_vars, NEW d \in Drivers, Probed(d)
      PROVE  d \notin registered
  <2>1. ~Healthy(d)
    BY <1>1, ProbedFailed DEF ProbeFails
  <2> QED
    BY <1>1, <2>1, ProbesItsOwn DEF Healthy, TypeOK
<1>2. TypeOK /\ [Next]_vars => [\A d \in Drivers : Probed(d) => d \notin registered]_vars
  BY <1>1
<1> QED
  BY <1>2, TypeCorrect, PTL DEF Spec, HealsOnlyTheUnregistered

-----------------------------------------------------------------------------
(* Who is left with a bare client.                                          *)

\* "Restart the plugin until kubelet registration succeeds" is enough: a plugin whose
\* startup probe is over, or whose driver is registered, has credentials if its driver
\* makes calls.
NobodyBare ==
    \A d \in Drivers : d \in registered \cup started /\ Calls(d) # {} => d \in signed

NothingDies == \A c \in Containers : ~Dies(c)

\* A driver is healthy only if it is registered itself: the two registrars answer on
\* different ports.
LEMMA HealthyIsRegistered ==
    ASSUME TypeOK, NEW d \in Drivers, Healthy(d)
    PROVE  d \in registered
<1>1. PICK e \in registered : Template(e).registrar = Template(d).probe
  BY DEF Healthy
<1>2. e \in Drivers
  BY <1>1 DEF TypeOK
<1>3. Template("disk").registrar = 9810 /\ Template("disk").probe = 9810
  BY DEF Template, DiskNode
<1>4. Template("nas").registrar = 9811 /\ Template("nas").probe = 9811
  BY DEF Template, NASNode
<1> QED
  BY <1>1, <1>2, <1>3, <1>4 DEF Drivers

\* Every step but a death keeps it.
LEMMA BareStep ==
    TypeOK /\ NobodyBare /\ [Next]_vars /\ [NothingDies]_vars => NobodyBare'
<1> SUFFICES ASSUME TypeOK, NobodyBare, [Next]_vars, [NothingDies]_vars
             PROVE  NobodyBare'
  OBVIOUS
<1> USE DEF NobodyBare
<1>1. \A d \in Drivers : pod'[d] = pod[d] => Calls(d)' = Calls(d)
  BY DEF Calls, Has, Env
<1>2. ASSUME NEW d \in Drivers, Register(d)
      PROVE  NobodyBare'
  <2>1. \A e \in Drivers : Calls(e)' = Calls(e)
    BY <1>1, <1>2 DEF Register
  <2> QED
    BY <1>2, <2>1 DEF Register, NodeGetInfoWorks
<1>3. ASSUME NEW d \in Drivers, ProbeSucceeds(d)
      PROVE  NobodyBare'
  <2>1. \A e \in Drivers : Calls(e)' = Calls(e)
    BY <1>1, <1>3 DEF ProbeSucceeds
  <2>2. d \in registered
    BY <1>3, HealthyIsRegistered DEF ProbeSucceeds
  <2> QED
    BY <1>3, <2>1, <2>2 DEF ProbeSucceeds
<1>4. ASSUME NEW d \in Drivers, ProbeFails(d)
      PROVE  NobodyBare'
  <2>1. \A e \in Drivers : Calls(e)' = Calls(e)
    BY <1>1, <1>4 DEF ProbeFails
  <2>2. d \notin registered
    BY <1>4, ProbesItsOwn DEF ProbeFails, Healthy, TypeOK
  <2> QED
    BY <1>4, <2>1, <2>2 DEF ProbeFails, PluginGone
<1>5. ASSUME NEW d \in Drivers, Rollout(d)
      PROVE  NobodyBare'
  <2>1. \A e \in Drivers \ {d} : pod'[e] = pod[e]
    BY <1>5 DEF Rollout, TypeOK
  <2>2. \A e \in Drivers \ {d} : Calls(e)' = Calls(e)
    BY <1>1, <2>1
  <2> QED
    BY <1>5, <2>2 DEF Rollout, PluginGone
<1>6. ASSUME NEW d \in Drivers, RegistrarExits(d)
      PROVE  NobodyBare'
  BY <1>1, <1>6 DEF RegistrarExits
<1>7. ASSUME NEW c \in Containers, Start(c)
      PROVE  NobodyBare'
  BY <1>1, <1>7 DEF Start
<1>8. CASE Warm \/ Cools \/ EditCR
  BY <1>1, <1>8 DEF Warm, Cools, EditCR
<1>9. CASE UNCHANGED vars
  BY <1>1, <1>9 DEF vars
<1> QED
  BY <1>2, <1>3, <1>4, <1>5, <1>6, <1>7, <1>8, <1>9 DEF Next, NothingDies

\* As long as no container dies nobody is stranded: restarting the plugin until its driver
\* is registered leaves every driver that makes calls with credentials, through edits,
\* rollouts and a provider that comes and goes.
THEOREM OnlyDeathStrands ==
    Spec /\ [][NothingDies]_vars => [](\A d \in Drivers : Stranded(d) => Calls(d) = {})
<1>1. Init => NobodyBare
  BY DEF Init, NobodyBare
<1>2. NobodyBare => \A d \in Drivers : Stranded(d) => Calls(d) = {}
  BY DEF NobodyBare, Stranded
<1> QED
  BY <1>1, <1>2, BareStep, TypeCorrect, PTL DEF Spec

-----------------------------------------------------------------------------
(* What extraEnv can and cannot disturb.                                    *)

\* The value a plugin sees is the operator's unless extraEnv or ecsEndpoint gives one.
LEMMA EnvOf ==
    ASSUME NEW d \in Drivers, NEW cfg \in Configs, NEW name,
           name \notin DOMAIN cfg.extraEnv, name # "ECS_ENDPOINT",
           name \in DOMAIN Template(d).env
    PROVE  /\ name \in DOMAIN PluginEnv[d][cfg]
           /\ PluginEnv[d][cfg][name] = Template(d).env[name]
<1>1. DOMAIN DriverEnv(cfg) \subseteq DOMAIN cfg.extraEnv \cup {"ECS_ENDPOINT"}
  BY DEF DriverEnv, Appended
<1>2. name \notin DOMAIN DriverEnv(cfg)
  BY <1>1
<1>3. PluginEnv[d][cfg] = Appended(Template(d).env, DriverEnv(cfg))
  BY DEF PluginEnv
<1> QED
  BY <1>2, <1>3 DEF Appended

\* Containers of pods whose extraEnv leaves SERVICE_PORT alone never want the same port
\* of the host they share.
Leaves(d, name) == name \notin DOMAIN pod[d].extraEnv

PortsDiffer ==
    \A b, c \in Containers :
        b # c /\ Leaves(b[1], "SERVICE_PORT") /\ Leaves(c[1], "SERVICE_PORT")
            => Port(b) # Port(c)

\* "Registration then never depends on cloud credentials": the registrar of the disk
\* driver does not exit unless extraEnv has DISK_ALLOW_ALL_TYPE.
DiskRegistrarStays ==
    [][RegistrarExits("disk") => ~Leaves("disk", "DISK_ALLOW_ALL_TYPE")]_vars

\* Only one SERVICE_PORT for both plugins makes two of the six containers meet, for every
\* other extraEnv.
THEOREM PortsDifferAlways == Spec => []PortsDiffer
<1>1. TypeOK => PortsDiffer
  <2> SUFFICES ASSUME TypeOK,
                      NEW b \in Containers, NEW c \in Containers, b # c,
                      Leaves(b[1], "SERVICE_PORT"), Leaves(c[1], "SERVICE_PORT")
               PROVE  Port(b) # Port(c)
    BY DEF PortsDiffer
  <2>1. \A d \in Drivers : Leaves(d, "SERVICE_PORT") =>
           Env(d)["SERVICE_PORT"] = IF d = "disk" THEN 11260 ELSE 11261
    <3> SUFFICES ASSUME NEW d \in Drivers, Leaves(d, "SERVICE_PORT")
                 PROVE  Env(d)["SERVICE_PORT"] = IF d = "disk" THEN 11260 ELSE 11261
      OBVIOUS
    <3>1. /\ "SERVICE_PORT" \in DOMAIN Template(d).env
          /\ Template(d).env["SERVICE_PORT"] = IF d = "disk" THEN 11260 ELSE 11261
      BY DEF Template, DiskNode, NASNode
    <3> QED
      BY <3>1, EnvOf DEF Leaves, Env, TypeOK
  <2>2. /\ b[1] \in Drivers /\ b[2] \in Parts /\ b = <<b[1], b[2]>>
        /\ c[1] \in Drivers /\ c[2] \in Parts /\ c = <<c[1], c[2]>>
    BY ContainersDiffer
  <2> DEFINE PortOf(d, p) == IF p = "plugin" THEN IF d = "disk" THEN 11260 ELSE 11261
                             ELSE IF p = "registrar" THEN IF d = "disk" THEN 9810 ELSE 9811
                             ELSE IF d = "disk" THEN 9808 ELSE 9809
  <2>3. Port(b) = PortOf(b[1], b[2]) /\ Port(c) = PortOf(c[1], c[2])
    BY <2>1, <2>2 DEF Port, Parts, Template, DiskNode, NASNode
  <2>4. \A d, e \in Drivers, p, q \in Parts : PortOf(d, p) = PortOf(e, q) => d = e /\ p = q
    BY DEF Drivers, Parts
  <2> QED
    BY <2>2, <2>3, <2>4
<1> QED
  BY <1>1, TypeCorrect, PTL

\* The disk driver makes no calls by itself, so its registrar never has a reason to exit.
THEOREM DiskRegisters == Spec => DiskRegistrarStays
<1>1. ASSUME TypeOK, RegistrarExits("disk"), Leaves("disk", "DISK_ALLOW_ALL_TYPE")
      PROVE  FALSE
  <2>1. /\ DOMAIN Template("disk").env
              = {"SERVICE_PORT", "MAX_VOLUMES_PERNODE", "DISK_ALLOW_ALL_TYPE"}
        /\ Template("disk").env["DISK_ALLOW_ALL_TYPE"] = "true"
    BY DEF Template, DiskNode
  <2>2. Has("disk", "DISK_ALLOW_ALL_TYPE") /\ Env("disk")["DISK_ALLOW_ALL_TYPE"] = "true"
    BY <1>1, <2>1, EnvOf DEF Leaves, Has, Env, TypeOK, Drivers
  <2>3. Has("disk", "MAX_VOLUMES_PERNODE")
    BY <1>1, <2>1 DEF Has, Env, PluginEnv, Appended, TypeOK, Drivers
  <2>4. Calls("disk") = {}
    BY <2>2, <2>3 DEF Calls
  <2> QED
    BY <1>1, <2>4 DEF RegistrarExits, NodeGetInfoWorks
<1> QED
  BY <1>1, TypeCorrect, PTL DEF Spec, DiskRegistrarStays
=============================================================================
