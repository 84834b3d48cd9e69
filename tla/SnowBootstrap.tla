--------------------------- MODULE SnowBootstrap ---------------------------
(***************************************************************************)
(* The Bottlerocket bootstrap container of the Snow provider.  The         *)
(* container runs once per boot; its steps are gated by marker files that  *)
(* survive reboots, and it asks for one reboot itself so that the network  *)
(* configuration it wrote takes effect.  A run can fail or be killed at    *)
(* every step, and the machine can lose power at every step.               *)
(*                                                                         *)
(* Abstractions: an address is the network configuration it was acquired   *)
(* under; net.toml is its completeness and its number of DNI sections; a   *)
(* failed API call may or may not have taken effect.  A file that          *)
(* os.Create or WriteFile made survives a power loss.                      *)
(***************************************************************************)
EXTENDS Naturals, FiniteSets

CONSTANTS MaxDni,          \* bound on interfaces and on static addresses
          MaxPowerCycles,  \* bound on boots nobody asked for
          StatErrors       \* may os.Stat fail with an error other than NotExist?

ASSUME SnowAssumption == /\ MaxDni \in Nat
                         /\ MaxPowerCycles \in Nat
                         /\ StatErrors \in BOOLEAN

VARIABLES
  pc,          \* the step the container is about to take
  network,     \* the network file in the user data of this node
  markers,     \* marker files that exist
  netToml,     \* /var/lib/netdog/net.toml
  bootNet,     \* the state of net.toml when this boot brought the network up
  providerID,  \* kubernetes.provider-id
  nodeIP,      \* kubernetes.node-ip
  volume,      \* "raw" or "formatted"
  data,        \* does the volume hold containerd's data?
  mounted,     \* is the volume mounted on /var/lib/containerd?
  rebooting,   \* a reboot was requested and has not happened yet
  reboots,     \* reboots the container requested (history)
  cycles       \* unrequested boots so far

settings == <<providerID, nodeIP>>
disk     == <<volume, data, mounted>>
power    == <<bootNet, rebooting, reboots, cycles>>
vars     == <<pc, network, markers, netToml, settings, disk, power>>

Marker  == {"rebooted", "nodeip.configured", "partition.created"}
NetFile == [state : {"absent", "partial", "complete"}, dnis : 0..MaxDni]
NoNet   == [state |-> "absent", dnis |-> 0]
Network == [present : BOOLEAN, dniCount : 0..MaxDni, static : 0..MaxDni]

Running == {"cloudProvider", "providerID", "nodeIP", "nodeIPMark", "kernel",
            "dni", "partition", "partitionMark", "mount",
            "reboot", "rebootCall"}

Init ==
  /\ pc = "cloudProvider"
  /\ network \in Network
  /\ markers = {}
  /\ netToml = NoNet
  /\ bootNet = "absent"
  /\ providerID = "unset"
  /\ nodeIP = "unset"
  /\ volume = "raw"
  /\ data = FALSE
  /\ mounted = FALSE
  /\ rebooting = FALSE
  /\ reboots = 0
  /\ cycles = 0
-----------------------------------------------------------------------------
(* When files.PathExists may answer true: an error other than NotExist       *)
(* counts as existing.  It answers false only for a path that does not       *)
(* exist.                                                                    *)
PathExists(exists) == exists \/ StatErrors

(* apiclient: success has the effect, an error may or may not have it. *)
ApiOutcome == {"ok", "error", "error after effect"}

Goto(ok, next) == pc' = IF ok THEN next ELSE "exit1"

(* os.Create of a marker; on an error nothing was created. *)
CreateMarker(m, next) ==
  \E ok \in BOOLEAN : /\ markers' = IF ok THEN markers \cup {m} ELSE markers
                      /\ Goto(ok, next)
-----------------------------------------------------------------------------
setCloudProvider ==
  /\ pc = "cloudProvider"
  /\ \E ok \in BOOLEAN : Goto(ok, "providerID")
  /\ UNCHANGED <<network, markers, netToml, settings, disk, power>>

(* The errors of instanceID and deviceIP are dropped: the id is set from     *)
(* whatever was obtained.  Without a network file deviceIP dereferences nil. *)
setProviderID ==
  /\ pc = "providerID"
  /\ \E id, ip \in BOOLEAN, api \in ApiOutcome :
       \/ /\ ip /\ ~network.present
          /\ pc' = "exit1"
          /\ UNCHANGED providerID
       \/ /\ ip => network.present
          /\ providerID' = IF api = "error" THEN providerID
                           ELSE IF id /\ ip THEN "complete" ELSE "incomplete"
          /\ Goto(api = "ok", "nodeIP")
  /\ UNCHANGED <<network, markers, netToml, nodeIP, disk, power>>

(* Mutant: the rebooted file is not looked at. *)
setNodeIPBeforeReboot ==
  /\ pc = "nodeIP"
  /\ IF "nodeip.configured" \in markers
     THEN pc' = "kernel" /\ UNCHANGED nodeIP
     ELSE pc' = "nodeIPMark" /\ nodeIP' = bootNet
  /\ UNCHANGED <<network, markers, netToml, providerID, disk, power>>

(* currentIP reads the address this boot acquired; it may fail. *)
setNodeIP ==
  /\ pc = "nodeIP"
  /\ \/ /\ \/ "rebooted" \notin markers
           \/ PathExists("nodeip.configured" \in markers)
        /\ pc' = "kernel"
        /\ UNCHANGED nodeIP
     \/ /\ PathExists("rebooted" \in markers)
        /\ "nodeip.configured" \notin markers
        /\ \/ pc' = "exit1" /\ UNCHANGED nodeIP
           \/ \E api \in ApiOutcome :
                /\ IF api = "error"
                   THEN UNCHANGED nodeIP
                   ELSE nodeIP' = bootNet
                /\ Goto(api = "ok", "nodeIPMark")
  /\ UNCHANGED <<network, markers, netToml, providerID, disk, power>>

markNodeIP ==
  /\ pc = "nodeIPMark"
  /\ CreateMarker("nodeip.configured", "kernel")
  /\ UNCHANGED <<network, netToml, settings, disk, power>>

configureKernelSettings ==
  /\ pc = "kernel"
  /\ \E ok \in BOOLEAN : Goto(ok, "dni")
  /\ UNCHANGED <<network, markers, netToml, settings, disk, power>>
-----------------------------------------------------------------------------
(* Mutant: the static addresses are appended to the DNIs. *)
networkMappingBoth(dnis) == dnis + network.static

(* errors.Wrap of a nil error is nil, so both checks return an empty mapping *)
(* and no error.                                                             *)
networkMapping(dnis) ==
  IF \/ dnis # network.dniCount
     \/ network.static > 0 /\ network.static < network.dniCount
  THEN 0
  ELSE dnis

configureDNI ==
  /\ pc = "dni"
  /\ \/ /\ PathExists(netToml.state # "absent")
        /\ pc' = "partition"
        /\ UNCHANGED netToml
     \/ /\ netToml.state = "absent"
        /\ pc' = "exit1"            \* metadata, route, link or user data error,
        /\ UNCHANGED netToml        \* or no network file: nil dereference
     \/ /\ netToml.state = "absent"
        /\ network.present
        /\ \E dnis \in 0..MaxDni :
             \/ /\ netToml' = [state |-> "complete", dnis |-> networkMapping(dnis)]
                /\ pc' = "partition"
             \/ /\ netToml' = [state |-> "partial", dnis |-> 0]  \* write failed or was cut
                /\ pc' = "exit1"
  /\ UNCHANGED <<network, markers, settings, disk, power>>
-----------------------------------------------------------------------------
(* mkfs.ext4 wipes the device, also when it does not finish. *)
createPartition ==
  /\ pc = "partition"
  /\ \/ /\ PathExists("partition.created" \in markers)
        /\ pc' = "mount"
        /\ UNCHANGED disk
     \/ /\ "partition.created" \notin markers
        /\ data' = FALSE
        /\ \E ok \in BOOLEAN : /\ volume' = IF ok THEN "formatted" ELSE "raw"
                               /\ Goto(ok, "partitionMark")
        /\ UNCHANGED mounted
  /\ UNCHANGED <<network, markers, netToml, settings, power>>

(* Mutant: the error of os.Create is dropped. *)
markPartitionUnchecked ==
  /\ pc = "partitionMark"
  /\ pc' = "mount"
  /\ \E ok \in BOOLEAN :
       markers' = IF ok THEN markers \cup {"partition.created"} ELSE markers
  /\ UNCHANGED <<network, netToml, settings, disk, power>>

markPartition ==
  /\ pc = "partitionMark"
  /\ CreateMarker("partition.created", "mount")
  /\ UNCHANGED <<network, netToml, settings, disk, power>>

(* Mutant: the error of MountVolume is dropped. *)
mountContainerdUnchecked ==
  /\ pc = "mount"
  /\ pc' = "reboot"
  /\ mounted' \in {FALSE, volume = "formatted"}
  /\ UNCHANGED <<network, markers, netToml, settings, volume, data, power>>

(* Only a formatted device can be mounted. *)
mountContainerd ==
  /\ pc = "mount"
  /\ \E ok \in BOOLEAN : /\ ok => volume = "formatted"
                         /\ mounted' = ok
                         /\ Goto(ok, "reboot")
  /\ UNCHANGED <<network, markers, netToml, settings, volume, data, power>>
-----------------------------------------------------------------------------
(* Mutant: the reboot comes before the rebooted file. *)
rebootBeforeMarker ==
  /\ pc = "reboot"
  /\ pc' = IF "rebooted" \in markers THEN "exit0" ELSE "rebootCall"
  /\ UNCHANGED <<network, markers, netToml, settings, disk, power>>

rebootInstanceIfNeeded ==
  /\ pc = "reboot"
  /\ \/ PathExists("rebooted" \in markers) /\ pc' = "exit0" /\ UNCHANGED markers
     \/ "rebooted" \notin markers /\ CreateMarker("rebooted", "rebootCall")
  /\ UNCHANGED <<network, netToml, settings, disk, power>>

(* Mutant: the rebooted file is written and Reboot is never called. *)
callRebootDropped ==
  /\ pc = "rebootCall"
  /\ pc' = "exit0"
  /\ UNCHANGED <<network, markers, netToml, settings, disk, power>>

callReboot ==
  /\ pc = "rebootCall"
  /\ \E api \in ApiOutcome :
       /\ IF api = "error" THEN UNCHANGED <<rebooting, reboots>>
          ELSE rebooting' = TRUE /\ reboots' = reboots + 1
       /\ Goto(api = "ok", "exit0")
  /\ UNCHANGED <<network, markers, netToml, settings, disk, bootNet, cycles>>

Bootstrap ==
  \/ setCloudProvider \/ setProviderID \/ setNodeIP \/ markNodeIP
  \/ configureKernelSettings \/ configureDNI
  \/ createPartition \/ markPartition \/ mountContainerd
  \/ rebootInstanceIfNeeded \/ callReboot
-----------------------------------------------------------------------------
(* The environment. *)

(* The container is killed. *)
Kill ==
  /\ pc \in Running
  /\ pc' = "exit1"
  /\ UNCHANGED <<network, markers, netToml, settings, disk, power>>

(* Every boot brings the network up from net.toml and runs the container. *)
Boot ==
  /\ pc' = "cloudProvider"
  /\ bootNet' = netToml.state
  /\ mounted' = FALSE
  /\ rebooting' = FALSE
  /\ UNCHANGED <<network, markers, netToml, settings, volume, data, reboots>>

RequestedBoot == rebooting /\ Boot /\ UNCHANGED cycles

PowerCycle == cycles < MaxPowerCycles /\ Boot /\ cycles' = cycles + 1

ContainerdWrites ==
  /\ mounted
  /\ data' = TRUE
  /\ UNCHANGED <<pc, network, markers, netToml, settings, volume, mounted, power>>

Next == Bootstrap \/ Kill \/ RequestedBoot \/ PowerCycle \/ ContainerdWrites

Spec == Init /\ [][Next]_vars

(* The container's process runs, and a requested reboot happens. *)
FairSpec == Spec /\ WF_vars(Bootstrap) /\ WF_vars(RequestedBoot)
-----------------------------------------------------------------------------
TypeOK ==
  /\ pc \in Running \cup {"exit0", "exit1"}
  /\ network \in Network
  /\ markers \subseteq Marker
  /\ netToml \in NetFile
  /\ bootNet \in {"absent", "partial", "complete"}
  /\ providerID \in {"unset", "complete", "incomplete"}
  /\ nodeIP \in {"unset", "absent", "partial", "complete"}
  /\ volume \in {"raw", "formatted"}
  /\ data \in BOOLEAN
  /\ mounted \in BOOLEAN
  /\ rebooting \in BOOLEAN
  /\ reboots \in Nat
  /\ cycles \in 0..MaxPowerCycles

(* createPartition never formats a volume that holds containerd's data,      *)
(* whatever was killed or cut between mkfs.ext4, the creation of             *)
(* partition.created and the mount.                                          *)
NoDataLoss == [][data => data']_vars

(* rebootInstanceIfNeeded requests at most one reboot in the life of the     *)
(* node, also when the run dies between writing the rebooted file and        *)
(* calling Reboot.                                                           *)
RebootOnce == reboots <= 1

(* setNodeIP never stores an address of a boot that came up without          *)
(* net.toml: the rebooted file it looks for was written by an earlier boot,  *)
(* after configureDNI.                                                       *)
NodeIPAfterReboot == nodeIP # "absent"

(* A run that reports SUCCESS has the volume mounted, and has either asked   *)
(* for the reboot or left the node with an address.                          *)
SuccessIsReady == pc = "exit0" => mounted /\ (rebooting \/ nodeIP # "unset")

(* If no run fails, the two-boot sequence of Bootstrap ends with the node    *)
(* address set and the volume mounted, whatever power cycles intervene.      *)
Converges == [](pc # "exit1") => <>(pc = "exit0" /\ mounted /\ nodeIP # "unset")

(* The inductive invariant behind the safety properties, when os.Stat does   *)
(* not fail: what every marker file stands for, and what the step reached    *)
(* says about this boot.                                                     *)
SnowInv ==
  /\ mounted \/ data \/ pc = "mount" => "partition.created" \in markers
  /\ pc \in {"reboot", "rebootCall", "exit0"} => mounted
  /\ "rebooted" \notin markers \/ pc = "rebootCall" => reboots = 0
  /\ pc = "rebootCall" => "rebooted" \in markers
  /\ RebootOnce
  /\ \/ "rebooted" \in markers
     \/ pc \in {"partition", "partitionMark", "mount", "reboot", "rebootCall", "exit0"}
     => netToml.state # "absent"
  /\ "rebooted" \in markers /\ bootNet = "absent" => pc \in {"rebootCall", "exit0", "exit1"}
  /\ NodeIPAfterReboot
  /\ "nodeip.configured" \in markers \/ pc = "nodeIPMark" => nodeIP # "unset"
  /\ /\ "rebooted" \in markers
     /\ pc \in {"kernel", "dni", "partition", "partitionMark", "mount", "reboot"}
     => nodeIP # "unset"
  /\ SuccessIsReady
=============================================================================
