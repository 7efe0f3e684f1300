------------------------------ MODULE Runtimes ------------------------------
(***************************************************************************)
(* The choice of a runtime for a pod and its containers: the configuration *)
(* is validated when the plugin starts (config/config.go), and RunPod-     *)
(* Sandbox and every CreateContainer look the runtime of the pod up in it  *)
(* (server/sandbox_run.go).  The plugin may be restarted with another      *)
(* configuration while the pod is there.                                   *)
(***************************************************************************)
EXTENDS Naturals, FiniteSets

CONSTANTS
    RuntimeNames,       \* names in the map of runtimes
    Configs,            \* configurations as they are written
    MaxReconfigs        \* bound on restarts of the plugin

VARIABLES
    config,             \* the configuration of the running plugin, validated
    plugin,             \* "starting", "running" or "refused"
    pod,                \* the sandbox configuration and its runtime handler
    sandboxRuntime,     \* the runtime of the sandbox, with the configuration it came from
    ctrRuntime,         \* the same of the container created last
    refused,            \* the error of the last request: "" if it succeeded
    reconfigs

runtimeVars == <<config, plugin, pod, sandboxRuntime, ctrRuntime, refused, reconfigs>>

RuntimeUntrusted == "untrusted"
RuntimeDefault == "default"
V1 == "v1"          \* io.containerd.runtime.v1.linux
Absent == "absent"  \* no runtime: an empty type, or no entry of the map
Types == {V1, "v2", Absent}
Pods == [untrusted : BOOLEAN, host : BOOLEAN, handler : RuntimeNames \cup {""}]
Unset == [type |-> Absent, from |-> {}]
Chosen(name) == [type |-> config.runtimes[name], from |-> {config}]

RuntimeTypeOK ==
    /\ plugin \in {"starting", "running", "refused"}
    /\ config.runtimes \in [RuntimeNames -> Types]
    /\ config.defaultName \in RuntimeNames \cup {""} /\ pod \in Pods
    /\ refused \in {"", "handler", "host access", "no runtime"}

RuntimeInit ==
    /\ config \in Configs /\ plugin = "starting" /\ pod \in Pods
    /\ sandboxRuntime = Unset /\ ctrRuntime = Unset /\ refused = "" /\ reconfigs = 0

----------------------------------------------------------------------------

(* The deprecated runtimes of a configuration become entries of the map. *)
migrated(c) ==
    [c EXCEPT !.runtimes[RuntimeUntrusted] =
                IF c.untrustedRuntime # Absent THEN c.untrustedRuntime ELSE @,
              !.runtimes[RuntimeDefault] =
                IF c.defaultRuntime # Absent THEN c.defaultRuntime ELSE @,
              !.defaultName = IF c.defaultRuntime # Absent THEN RuntimeDefault ELSE @]

(* What ValidatePluginConfig accepts; the options of version 1 need its runtime. *)
Valid(c) ==
    LET m == migrated(c)
    IN  /\ ~(c.untrustedRuntime # Absent /\ c.runtimes[RuntimeUntrusted] # Absent)
        /\ m.defaultName # ""
        /\ m.runtimes[m.defaultName] # Absent
        /\ c.noPivot => m.runtimes[m.defaultName] = V1
        /\ \A n \in c.withEngine : m.runtimes[n] \in {V1, Absent}

ValidatePluginConfig ==
    /\ plugin = "starting"
    /\ IF Valid(config) THEN plugin' = "running" /\ config' = migrated(config)
                        ELSE plugin' = "refused" /\ UNCHANGED config
    /\ UNCHANGED <<pod, sandboxRuntime, ctrRuntime, refused, reconfigs>>

untrustedWorkload == pod.untrusted
hostAccessingSandbox == pod.host

(* Why a pod is refused before its runtime is looked up. *)
NotAllowed ==
    IF untrustedWorkload /\ pod.handler \notin {"", RuntimeUntrusted} THEN "handler"
    ELSE IF untrustedWorkload /\ hostAccessingSandbox THEN "host access"
    ELSE ""

(* The name that is looked up. *)
runtimeHandler ==
    IF untrustedWorkload THEN RuntimeUntrusted
    ELSE IF pod.handler = "" THEN config.defaultName
    ELSE pod.handler

getSandboxRuntime ==
    IF NotAllowed # "" THEN [err |-> NotAllowed, runtime |-> Unset]
    ELSE IF config.runtimes[runtimeHandler] = Absent THEN [err |-> "no runtime", runtime |-> Unset]
    ELSE [err |-> "", runtime |-> Chosen(runtimeHandler)]

RunPodSandbox ==
    /\ plugin = "running" /\ sandboxRuntime = Unset
    /\ refused' = getSandboxRuntime.err /\ sandboxRuntime' = getSandboxRuntime.runtime
    /\ UNCHANGED <<config, plugin, pod, ctrRuntime, reconfigs>>

(* The sandbox keeps the handler it was asked for, not the runtime that was found. *)
CreateContainer ==
    /\ plugin = "running" /\ sandboxRuntime # Unset
    /\ refused' = getSandboxRuntime.err /\ ctrRuntime' = getSandboxRuntime.runtime
    /\ UNCHANGED <<config, plugin, pod, sandboxRuntime, reconfigs>>

Reconfigure ==
    /\ reconfigs < MaxReconfigs /\ reconfigs' = reconfigs + 1
    /\ plugin' = "starting" /\ config' \in Configs /\ ctrRuntime' = Unset /\ refused' = ""
    /\ UNCHANGED <<pod, sandboxRuntime>>

RuntimeNext == ValidatePluginConfig \/ RunPodSandbox \/ CreateContainer \/ Reconfigure

RuntimeSpec == RuntimeInit /\ [][RuntimeNext]_runtimeVars

----------------------------------------------------------------------------

(* A configuration that was accepted has a runtime for every pod that names none,
   so such a pod is not refused; a container runs on the runtime its sandbox runs
   on unless the plugin was restarted with another configuration in between, and
   even then if the pod has a handler whose entry did not change; and an untrusted
   pod is never on a runtime other than the one for untrusted workloads, nor on
   the host's namespaces, under any configuration. *)
RuntimesRight ==
    /\ plugin = "running" /\ ~pod.untrusted /\ pod.handler = "" => refused = ""
    /\ sandboxRuntime # Unset /\ ctrRuntime # Unset =>
          \A s \in sandboxRuntime.from, c \in ctrRuntime.from :
             \/ s = c
             \/ pod.handler # "" /\ s.runtimes[pod.handler] = c.runtimes[pod.handler]
             => ctrRuntime.type = sandboxRuntime.type
    /\ \A r \in {sandboxRuntime, ctrRuntime} : \A c \in r.from :
          /\ r.type # Absent
          /\ pod.untrusted => ~pod.host /\ r.type = c.runtimes[RuntimeUntrusted]
=============================================================================
