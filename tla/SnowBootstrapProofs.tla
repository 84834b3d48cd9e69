------------------------ MODULE SnowBootstrapProofs ------------------------
(***************************************************************************)
(* Safety of the Snow bootstrap container for any number of interfaces and *)
(* of power cycles.                                                        *)
(***************************************************************************)
EXTENDS SnowBootstrap, TLAPS

(* Every step of the container and of its environment keeps the variables of *)
(* SnowBootstrap in their types.                                             *)
THEOREM TypeCorrect == Spec => []TypeOK
<1> USE DEF TypeOK, settings, disk, power
<1>1. Init => TypeOK
  <2>1. 0 \in 0..MaxPowerCycles /\ 0 \in 0..MaxDni
    BY SnowAssumption DEF SnowAssumption
  <2>2. NoNet \in NetFile
    BY <2>1 DEF NoNet, NetFile
  <2>3. Init => /\ pc \in Running \cup {"exit0", "exit1"}
                /\ markers \subseteq Marker
                /\ cycles \in 0..MaxPowerCycles
    BY <2>1 DEF Init, Running
  <2>4. Init => /\ volume \in {"raw", "formatted"} /\ data \in BOOLEAN
                /\ mounted \in BOOLEAN /\ rebooting \in BOOLEAN
                /\ network \in Network /\ netToml \in NetFile
    BY <2>2 DEF Init
  <2>5. Init => reboots \in Nat
    BY DEF Init
  <2> QED
    BY <2>3, <2>4, <2>5 DEF Init
<1>2. TypeOK /\ [Next]_vars => TypeOK'
  <2> SUFFICES ASSUME TypeOK, [Next]_vars PROVE TypeOK'
    OBVIOUS
  <2>1. CASE setCloudProvider
    BY <2>1 DEF setCloudProvider, Goto, Running
  <2>2. CASE setProviderID
    <3>1. pc' \in {"exit1", "nodeIP"} /\ providerID' \in {"unset", "complete", "incomplete"}
      BY <2>2 DEF setProviderID, Goto
    <3> QED
      BY <2>2, <3>1 DEF setProviderID, Running
  <2>3. CASE setNodeIP
    BY <2>3 DEF setNodeIP, Goto, Running, ApiOutcome
  <2>4. CASE markNodeIP
    BY <2>4 DEF markNodeIP, CreateMarker, Goto, Running, Marker
  <2>5. CASE configureKernelSettings
    BY <2>5 DEF configureKernelSettings, Goto, Running
  <2>6. CASE configureDNI
    BY <2>6, SnowAssumption DEF configureDNI, networkMapping, NetFile, Network, Running, SnowAssumption
  <2>7. CASE createPartition
    <3>1. pc' \in {"mount", "partitionMark", "exit1"} /\ volume' \in {"raw", "formatted"}
      BY <2>7 DEF createPartition, Goto
    <3>2. data' \in BOOLEAN /\ mounted' = mounted
      BY <2>7 DEF createPartition
    <3> QED
      BY <2>7, <3>1, <3>2 DEF createPartition, Running
  <2>8. CASE markPartition
    BY <2>8 DEF markPartition, CreateMarker, Goto, Running, Marker
  <2>9. CASE mountContainerd
    BY <2>9 DEF mountContainerd, Goto, Running
  <2>10. CASE rebootInstanceIfNeeded
    <3>1. pc' \in {"exit0", "rebootCall", "exit1"} /\ markers' \in {markers, markers \cup {"rebooted"}}
      BY <2>10 DEF rebootInstanceIfNeeded, CreateMarker, Goto
    <3>2. markers' \subseteq Marker
      BY <3>1 DEF Marker
    <3> QED
      BY <2>10, <3>1, <3>2 DEF rebootInstanceIfNeeded, Running
  <2>11. CASE callReboot
    <3>1. CASE pc' = "exit0" /\ rebooting' = TRUE /\ reboots' = reboots + 1
      BY <2>11, <3>1 DEF callReboot, Running
    <3>2. CASE pc' = "exit1" /\ rebooting' = TRUE /\ reboots' = reboots + 1
      BY <2>11, <3>2 DEF callReboot, Running
    <3>3. CASE pc' = "exit1" /\ rebooting' = rebooting /\ reboots' = reboots
      BY <2>11, <3>3 DEF callReboot, Running
    <3> QED
      BY <2>11, <3>1, <3>2, <3>3 DEF callReboot, Goto
  <2>12. CASE Kill
    BY <2>12 DEF Kill
  <2>13. CASE RequestedBoot
    BY <2>13 DEF RequestedBoot, Boot, Running, NetFile
  <2>14. CASE PowerCycle
    <3>1. cycles' \in 0..MaxPowerCycles
      BY <2>14, SnowAssumption DEF PowerCycle, SnowAssumption
    <3> QED
      BY <2>14, <3>1 DEF PowerCycle, Boot, Running, NetFile
  <2>15. CASE ContainerdWrites
    BY <2>15 DEF ContainerdWrites
  <2>16. CASE UNCHANGED vars
    BY <2>16 DEF vars
  <2> QED
    BY <2>1, <2>2, <2>3, <2>4, <2>5, <2>6, <2>7, <2>8, <2>9, <2>10, <2>11,
       <2>12, <2>13, <2>14, <2>15, <2>16 DEF Next, Bootstrap
<1> QED
  BY <1>1, <1>2, PTL DEF Spec

(* When os.Stat does not fail, every step preserves what the marker files    *)
(* stand for.                                                                *)
LEMMA SnowInvStep ==
  ASSUME ~StatErrors, TypeOK, SnowInv, [Next]_vars
  PROVE  SnowInv'
<1> USE DEF TypeOK, SnowInv, RebootOnce, NodeIPAfterReboot, SuccessIsReady,
            settings, disk, power, PathExists
<1>1. CASE setCloudProvider
  BY <1>1 DEF setCloudProvider, Goto
<1>2. CASE setProviderID
  BY <1>2 DEF setProviderID, Goto
<1>3. CASE setNodeIP
  BY <1>3 DEF setNodeIP, Goto, ApiOutcome
<1>4. CASE markNodeIP
  BY <1>4 DEF markNodeIP, CreateMarker, Goto
<1>5. CASE configureKernelSettings
  BY <1>5 DEF configureKernelSettings, Goto
<1>6. CASE configureDNI
  BY <1>6 DEF configureDNI
<1>7. CASE createPartition
  BY <1>7 DEF createPartition, Goto
<1>8. CASE markPartition
  BY <1>8 DEF markPartition, CreateMarker, Goto
<1>9. CASE mountContainerd
  BY <1>9 DEF mountContainerd, Goto
<1>10. CASE rebootInstanceIfNeeded
  BY <1>10 DEF rebootInstanceIfNeeded, CreateMarker, Goto
<1>11. CASE callReboot
  <2>1. CASE pc' = "exit0" /\ rebooting' = TRUE /\ reboots' = reboots + 1
    BY <1>11, <2>1 DEF callReboot
  <2>2. CASE pc' = "exit1" /\ rebooting' = TRUE /\ reboots' = reboots + 1
    BY <1>11, <2>2 DEF callReboot
  <2>3. CASE pc' = "exit1" /\ rebooting' = rebooting /\ reboots' = reboots
    BY <1>11, <2>3 DEF callReboot
  <2> QED
    BY <1>11, <2>1, <2>2, <2>3 DEF callReboot, Goto
<1>12. CASE Kill
  BY <1>12 DEF Kill, Running
<1>13. CASE RequestedBoot
  BY <1>13 DEF RequestedBoot, Boot
<1>14. CASE PowerCycle
  BY <1>14 DEF PowerCycle, Boot
<1>15. CASE ContainerdWrites
  BY <1>15 DEF ContainerdWrites
<1>16. CASE UNCHANGED vars
  BY <1>16 DEF vars
<1> QED
  BY <1>1, <1>2, <1>3, <1>4, <1>5, <1>6, <1>7, <1>8, <1>9, <1>10, <1>11,
     <1>12, <1>13, <1>14, <1>15, <1>16 DEF Next, Bootstrap

(* SnowInv holds in every reachable state when os.Stat does not fail. *)
THEOREM SnowInvariant == ASSUME ~StatErrors PROVE Spec => []SnowInv
<1>1. Init => SnowInv
  BY DEF Init, SnowInv, NoNet, RebootOnce, NodeIPAfterReboot, SuccessIsReady
<1>2. TypeOK /\ SnowInv /\ [Next]_vars => SnowInv'
  BY SnowInvStep
<1> QED
  BY <1>1, <1>2, TypeCorrect, PTL DEF Spec

(* createPartition never formats a volume that holds containerd's data. *)
THEOREM DataIsSafe == ASSUME ~StatErrors PROVE Spec => NoDataLoss
<1>1. TypeOK /\ SnowInv /\ [Next]_vars => [data => data']_vars
  <2> SUFFICES ASSUME TypeOK, SnowInv, Next PROVE data => data'
    BY DEF vars
  <2>1. CASE createPartition
    BY <2>1 DEF createPartition, PathExists, SnowInv, disk
  <2>2. CASE ~createPartition
    BY <2>2 DEF Next, Bootstrap, setCloudProvider, setProviderID, setNodeIP,
         markNodeIP, configureKernelSettings, configureDNI, markPartition,
         mountContainerd, rebootInstanceIfNeeded, callReboot, Kill,
         RequestedBoot, PowerCycle, Boot, ContainerdWrites, disk
  <2> QED
    BY <2>1, <2>2
<1> QED
  BY <1>1, TypeCorrect, SnowInvariant, PTL DEF Spec, NoDataLoss

(* A run that reports SUCCESS has the volume mounted and has asked for the   *)
(* reboot or left the node with an address.                                  *)
THEOREM SnowSafety == ASSUME ~StatErrors PROVE Spec => []SuccessIsReady
<1>1. SnowInv => SuccessIsReady
  BY DEF SnowInv
<1> QED
  BY <1>1, SnowInvariant, PTL

(* setNodeIP never stores an address from before the requested reboot. *)
THEOREM AddressAfterReboot == ASSUME ~StatErrors PROVE Spec => []NodeIPAfterReboot
<1>1. SnowInv => NodeIPAfterReboot
  BY DEF SnowInv
<1> QED
  BY <1>1, SnowInvariant, PTL

(* What the single reboot rests on: the rebooted file is there before Reboot *)
(* is called, and is never removed.                                          *)
RebootInv ==
  /\ "rebooted" \notin markers \/ pc = "rebootCall" => reboots = 0
  /\ pc = "rebootCall" => "rebooted" \in markers
  /\ RebootOnce

(* rebootInstanceIfNeeded requests one reboot at most, also when errors of   *)
(* os.Stat make files.PathExists answer that a missing file exists.          *)
THEOREM OneReboot == Spec => []RebootOnce
<1>1. Init => RebootInv
  BY DEF Init, RebootInv, RebootOnce
<1>2. TypeOK /\ RebootInv /\ [Next]_vars => RebootInv'
  <2> SUFFICES ASSUME TypeOK, RebootInv, [Next]_vars PROVE RebootInv'
    OBVIOUS
  <2> USE DEF RebootInv, RebootOnce, power
  <2>1. CASE callReboot
    BY <2>1 DEF callReboot, Goto
  <2>2. CASE rebootInstanceIfNeeded
    BY <2>2 DEF rebootInstanceIfNeeded, CreateMarker, Goto
  <2>3. CASE markNodeIP \/ markPartition
    BY <2>3 DEF markNodeIP, markPartition, CreateMarker, Goto
  <2>4. CASE setCloudProvider \/ setProviderID \/ setNodeIP \/ configureKernelSettings
             \/ configureDNI \/ createPartition \/ mountContainerd
    <3>1. markers' = markers /\ reboots' = reboots /\ pc' # "rebootCall"
      BY <2>4 DEF setCloudProvider, setProviderID, setNodeIP, configureKernelSettings,
                  configureDNI, createPartition, mountContainerd, Goto
    <3> QED
      BY <3>1
  <2>5. CASE Kill \/ RequestedBoot \/ PowerCycle \/ ContainerdWrites
    BY <2>5 DEF Kill, RequestedBoot, PowerCycle, Boot, ContainerdWrites
  <2>6. CASE UNCHANGED vars
    BY <2>6 DEF vars
  <2> QED
    BY <2>1, <2>2, <2>3, <2>4, <2>5, <2>6 DEF Next, Bootstrap
<1>3. RebootInv => RebootOnce
  BY DEF RebootInv
<1> QED
  BY <1>1, <1>2, <1>3, TypeCorrect, PTL DEF Spec
=============================================================================
