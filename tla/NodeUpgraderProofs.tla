------------------------- MODULE NodeUpgraderProofs -------------------------
(***************************************************************************)
(* Proofs about upgrade.sh for any number of failed attempts and reboots:  *)
(* the coredns ConfigMap is never lost and never met by kubeadm, and the   *)
(* original binaries stay in their backups; then what it hands on and      *)
(* leaves behind: the config that kubeadm is given, the kubelet's          *)
(* arguments, and the node of a pod that is through.                       *)
(***************************************************************************)
EXTENDS NodeUpgrader, TLAPS

\* The commands of the kubeadm container that deal with the ConfigMap, and the
\* ones that run while it is gone.
DnsCommands == {"save coredns", "delete coredns", "backup kube-vip", "replace kube-vip",
                "restore coredns"}
Without == {"kubeadm upgrade", "backup kube-vip", "replace kube-vip", "restore coredns"}

\* Which container runs a command.
Home ==
  /\ pc \in DnsCommands => container = "kubeadm" /\ role # "worker"
  /\ pc \in {"backup kubeadm", "copy kubeadm", "write config", "append kubelet config",
             "kubeadm upgrade"} => container = "kubeadm"
  /\ pc \in {"write config", "append kubelet config"} => role # "worker"
  /\ pc \in {"upgrade_containerd", "cni_plugins"} => container = "runtime"
  /\ pc \in {"backup kubectl", "copy kubectl", "stop kubelet", "backup kubelet",
             "copy kubelet", "update_kubelet_extra_args", "mkdir", "backup conf",
             "write conf", "restart kubelet"} => container = "kubelet"
  /\ pc \in {"print_status", "done"} => container = "cleanup"
  /\ pc = "exit" => container # "cleanup"

\* Only these commands write in two steps.
Writers == {"backup kubeadm", "backup kubectl", "backup kubelet", "copy kubeadm",
            "copy kubectl", "copy kubelet", "save coredns", "backup conf", "write conf",
            "backup kube-vip", "replace kube-vip", "upgrade_containerd", "cni_plugins"}

\* What the kubeadm container knows about the ConfigMap at each command.
CorednsInv ==
  /\ CorednsSafe
  /\ copying => pc \in Writers
  /\ pc = "save coredns" /\ copying => coredns
  /\ pc = "delete coredns" => saved = "complete"
  /\ pc \in Without /\ role # "worker" => ~coredns
  /\ pc = "exit" /\ container # "runtime" => coredns

\* What is in a backup whose copy was never cut off.
BackupOf(b) ==
  /\ pc = Backup[b] /\ copying => backup[b] = "cut"
  /\ b \notin cut /\ pc # "done" =>
       /\ backup[b] # "new"
       /\ bin[b] # "old" => backup[b] = "old"
       /\ pc = Copy[b] => backup[b] = "old"
       /\ backup[b] = "cut" => pc = Backup[b] /\ copying
BackupInv == \A b \in Binaries : BackupOf(b)

UpgradeInv == TypeOK /\ Home /\ CorednsInv /\ BackupInv

\* The tables of command names, entry by entry.
LEMMA Tables ==
  /\ Start["runtime"] = "upgrade_containerd" /\ Start["kubeadm"] = "backup kubeadm"
  /\ Start["kubelet"] = "backup kubectl" /\ Start["cleanup"] = "print_status"
  /\ After["runtime"] = "kubeadm" /\ After["kubeadm"] = "kubelet"
  /\ After["kubelet"] = "cleanup"
  /\ Backup["kubeadm"] = "backup kubeadm" /\ Backup["kubectl"] = "backup kubectl"
  /\ Backup["kubelet"] = "backup kubelet"
  /\ Copy["kubeadm"] = "copy kubeadm" /\ Copy["kubectl"] = "copy kubectl"
  /\ Copy["kubelet"] = "copy kubelet"
  BY DEF Start, After, Backup, Copy

\* The arithmetic that the counters need.
LEMMA Counts == 0 \in Nat /\ 1 \in Nat /\ \A n \in Nat : n + 1 \in Nat /\ 0 \in 0..n
  OBVIOUS

\* The names of the programs.
LEMMA BinariesArePrograms ==
  /\ Binaries \subseteq Programs
  /\ \A p \in {"kubeadm", "kubectl", "kubelet"} : p \in Binaries /\ p \in Programs
  /\ \A p \in {"containerd", "loopback"} : p \in Programs /\ p \notin Binaries
  BY DEF Binaries, Programs

\* Writing one program leaves the others alone.
LEMMA Written ==
  ASSUME bin \in [Programs -> {"old", "cut", "new"}],
         NEW p \in Programs, NEW x \in {"old", "cut", "new"}, bin' = [bin EXCEPT ![p] = x]
  PROVE  /\ bin' \in [Programs -> {"old", "cut", "new"}]
         /\ bin'[p] = x
         /\ \A q \in Programs : q # p => bin'[q] = bin[q]
  OBVIOUS

\* cp -rf writes the one program, and ends with the new one.
LEMMA OthersKept ==
  ASSUME bin \in [Programs -> {"old", "cut", "new"}], NEW p \in {"containerd", "loopback"},
         NEW next, cp_rf(p, next)
  PROVE  /\ \A q \in Programs : q # p => bin'[q] = bin[q]
         /\ \A b \in Binaries : bin'[b] = bin[b]
         /\ ~copying' => bin'[p] = "new"
<1>1. \E x \in {"old", "cut", "new"} : bin' = [bin EXCEPT ![p] = x]
  BY BinariesArePrograms, Zenon DEF cp_rf
<1>2. \A q \in Programs : q # p => bin'[q] = bin[q]
  BY <1>1, BinariesArePrograms, Written
<1>3. ~copying' => bin'[p] = "new"
  BY BinariesArePrograms, Written DEF cp_rf, Begin, Finish
<1> QED
  BY <1>2, <1>3, BinariesArePrograms

\* The upgrade starts in a state the invariant describes.
LEMMA InitInv == Init => UpgradeInv
<1> SUFFICES ASSUME Init PROVE UpgradeInv
  OBVIOUS
<1> USE Tables DEF Init
<1>1. TypeOK
  <2>1. bin \in [Programs -> {"old", "cut", "new"}]
    BY Zenon
  <2>2. backup \in [Binaries -> {"none", "cut", "old", "new"}]
    BY Zenon
  <2>3. 0 \in Nat /\ 0 \in 0..MaxDeaths
    BY Counts, UpgraderAssumption, Zenon DEF UpgraderAssumption
  <2> QED
    BY <2>1, <2>2, <2>3, Zenon DEF TypeOK, Containers
<1>2. Home
  BY DEF Home, DnsCommands
<1>3. CorednsInv
  BY DEF CorednsInv, CorednsSafe, Without
<1>4. BackupInv
  <2>1. \A b \in Binaries : bin[b] = "old" /\ backup[b] = "none" /\ pc # Copy[b]
    BY BinariesArePrograms DEF Binaries
  <2> QED
    BY <2>1 DEF BackupInv, BackupOf
<1> QED
  BY <1>1, <1>2, <1>3, <1>4 DEF UpgradeInv

\* Every step of the upgrade keeps the types of its state.
LEMMA TypeOKStep == UpgradeInv /\ [Next]_vars => TypeOK'
<1> SUFFICES ASSUME UpgradeInv, [Next]_vars PROVE TypeOK'
  OBVIOUS
<1> USE DEF UpgradeInv, pod, bins, vip, dns, args, Goto, Begin, Finish, TypeOK
<1>1. ASSUME NEW b \in Binaries, backup_file(b) PROVE TypeOK'
  <2>1. copying' \in BOOLEAN /\ backup' \in [Binaries -> {"none", "cut", "old", "new"}]
    <3>1. copying' \in BOOLEAN
      BY <1>1, Zenon DEF backup_file
    <3>2. bin[b] \in {"old", "cut", "new"}
      BY <1>1, BinariesArePrograms, Zenon
    <3>3. \E x \in {"cut", "old", "new"} : backup' = backup \/ backup' = [backup EXCEPT ![b] = x]
      BY <1>1, <3>2, Zenon DEF backup_file
    <3> QED
      BY <1>1, <3>1, <3>3, SMT
  <2>2. UNCHANGED <<role, etcdUpdate, v126, container, deaths, bin, cut, clusterDocs, kubeletDocs, coredns, saved, kubeVip, kubeVipBackup, kubelet, conf, extraargs, confBackup>>
    BY <1>1 DEF backup_file
  <2> QED
    BY <2>1, <2>2
<1>2. ASSUME NEW b \in Binaries, replace(b) PROVE TypeOK'
  <2>1. copying' \in BOOLEAN /\ bin' \in [Programs -> {"old", "cut", "new"}]
    <3>1. copying' \in BOOLEAN
      BY <1>2, Zenon DEF replace
    <3>2. \E x \in {"cut", "new"} : bin' = [bin EXCEPT ![b] = x]
      BY <1>2, Zenon DEF replace
    <3> QED
      BY <1>2, <3>1, <3>2, BinariesArePrograms, Written
  <2>2. UNCHANGED <<role, etcdUpdate, v126, container, deaths, backup, cut, clusterDocs, kubeletDocs, coredns, saved, kubeVip, kubeVipBackup, kubelet, conf, extraargs, confBackup>>
    BY <1>2 DEF replace
  <2> QED
    BY <2>1, <2>2
<1>3. CASE upgrade_containerd
  <2>1. copying' \in BOOLEAN
    BY <1>3, Zenon DEF upgrade_containerd, cp_rf
  <2>2. bin' \in [Programs -> {"old", "cut", "new"}]
    <3>1. bin["containerd"] \in {"old", "cut", "new"}
      BY BinariesArePrograms, Zenon
    <3>2. \E x \in {"old", "cut", "new"} : bin' = [bin EXCEPT !["containerd"] = x]
      BY <1>3, <3>1, Zenon DEF upgrade_containerd, cp_rf
    <3> QED
      BY <3>2, BinariesArePrograms, Written
  <2>3. UNCHANGED <<role, etcdUpdate, v126, container, deaths, backup, cut, clusterDocs, kubeletDocs, coredns, saved, kubeVip, kubeVipBackup, kubelet, conf, extraargs, confBackup>>
    BY <1>3 DEF upgrade_containerd
  <2> QED
    BY <2>1, <2>2, <2>3
<1>4. CASE cni_plugins
  <2>1. copying' \in BOOLEAN
    BY <1>4, Zenon DEF cni_plugins, cp_rf
  <2>2. bin' \in [Programs -> {"old", "cut", "new"}]
    <3>1. bin["loopback"] \in {"old", "cut", "new"}
      BY BinariesArePrograms, Zenon
    <3>2. \E x \in {"old", "cut", "new"} : bin' = [bin EXCEPT !["loopback"] = x]
      BY <1>4, <3>1, Zenon DEF cni_plugins, cp_rf
    <3> QED
      BY <3>2, BinariesArePrograms, Written
  <2>3. UNCHANGED <<role, etcdUpdate, v126, container, deaths, backup, cut, clusterDocs, kubeletDocs, coredns, saved, kubeVip, kubeVipBackup, kubelet, conf, extraargs, confBackup>>
    BY <1>4 DEF cni_plugins
  <2> QED
    BY <2>1, <2>2, <2>3
<1>5. CASE write_config
  <2>1. clusterDocs' \in Nat /\ kubeletDocs' \in Nat
    <3>1. CASE etcdUpdate
      BY <1>5, <3>1, Counts, Zenon DEF write_config
    <3>2. CASE ~etcdUpdate
      BY <1>5, <3>2 DEF write_config
    <3> QED
      BY <3>1, <3>2
  <2>2. UNCHANGED <<role, etcdUpdate, v126, container, copying, deaths, bin, backup, cut, coredns, saved, kubeVip, kubeVipBackup, kubelet, conf, extraargs, confBackup>>
    BY <1>5 DEF write_config
  <2> QED
    BY <2>1, <2>2
<1>6. CASE append_kubelet_config
  <2>1. kubeletDocs' \in Nat
    BY <1>6, Counts, Zenon DEF append_kubelet_config
  <2>2. UNCHANGED <<role, etcdUpdate, v126, container, copying, deaths, bin, backup, cut, clusterDocs, coredns, saved, kubeVip, kubeVipBackup, kubelet, conf, extraargs, confBackup>>
    BY <1>6 DEF append_kubelet_config
  <2> QED
    BY <2>1, <2>2
<1>7. CASE save_coredns
  <2>1. copying' \in BOOLEAN /\ saved' \in {"none", "cut", "complete"}
    BY <1>7, Zenon DEF save_coredns
  <2>2. UNCHANGED <<role, etcdUpdate, v126, container, deaths, bin, backup, cut, clusterDocs, kubeletDocs, coredns, kubeVip, kubeVipBackup, kubelet, conf, extraargs, confBackup>>
    BY <1>7 DEF save_coredns
  <2> QED
    BY <2>1, <2>2
<1>8. CASE delete_coredns
  <2>1. coredns' \in BOOLEAN
    BY <1>8, Zenon DEF delete_coredns
  <2>2. UNCHANGED <<role, etcdUpdate, v126, container, copying, deaths, bin, backup, cut, clusterDocs, kubeletDocs, saved, kubeVip, kubeVipBackup, kubelet, conf, extraargs, confBackup>>
    BY <1>8 DEF delete_coredns
  <2> QED
    BY <2>1, <2>2
<1>9. CASE kubeadm_upgrade
  <2>1. UNCHANGED <<role, etcdUpdate, v126, container, copying, deaths, bin, backup, cut, clusterDocs, kubeletDocs, coredns, saved, kubeVip, kubeVipBackup, kubelet, conf, extraargs, confBackup>>
    BY <1>9 DEF kubeadm_upgrade
  <2> QED
    BY <2>1
<1>10. CASE backup_kube_vip
  <2>1. copying' \in BOOLEAN /\ kubeVipBackup' \in {"none", "old", "cut", "new"}
    BY <1>10, Zenon DEF backup_kube_vip
  <2>2. UNCHANGED <<role, etcdUpdate, v126, container, deaths, bin, backup, cut, clusterDocs, kubeletDocs, coredns, saved, kubeVip, kubelet, conf, extraargs, confBackup>>
    BY <1>10 DEF backup_kube_vip
  <2> QED
    BY <2>1, <2>2
<1>11. CASE replace_kube_vip
  <2>1. copying' \in BOOLEAN /\ kubeVip' \in {"old", "cut", "new"}
    BY <1>11, Zenon DEF replace_kube_vip
  <2>2. UNCHANGED <<role, etcdUpdate, v126, container, deaths, bin, backup, cut, clusterDocs, kubeletDocs, coredns, saved, kubeVipBackup, kubelet, conf, extraargs, confBackup>>
    BY <1>11 DEF replace_kube_vip
  <2> QED
    BY <2>1, <2>2
<1>12. CASE restore_coredns_config
  <2>1. coredns' \in BOOLEAN
    BY <1>12, Zenon DEF restore_coredns_config
  <2>2. UNCHANGED <<role, etcdUpdate, v126, container, copying, deaths, bin, backup, cut, clusterDocs, kubeletDocs, saved, kubeVip, kubeVipBackup, kubelet, conf, extraargs, confBackup>>
    BY <1>12 DEF restore_coredns_config
  <2> QED
    BY <2>1, <2>2
<1>13. CASE stop_kubelet
  <2>1. kubelet' \in {"stopped", "old", "cut", "new"}
    BY <1>13, Zenon DEF stop_kubelet
  <2>2. UNCHANGED <<role, etcdUpdate, v126, container, copying, deaths, bin, backup, cut, clusterDocs, kubeletDocs, coredns, saved, kubeVip, kubeVipBackup, conf, extraargs, confBackup>>
    BY <1>13 DEF stop_kubelet
  <2> QED
    BY <2>1, <2>2
<1>14. CASE update_kubelet_extra_args
  <2>1. UNCHANGED <<role, etcdUpdate, v126, container, copying, deaths, bin, backup, cut, clusterDocs, kubeletDocs, coredns, saved, kubeVip, kubeVipBackup, kubelet, conf, extraargs, confBackup>>
    BY <1>14 DEF update_kubelet_extra_args
  <2> QED
    BY <2>1
<1>15. CASE mkdir
  <2>1. extraargs' \in BOOLEAN
    BY <1>15, Zenon DEF mkdir
  <2>2. UNCHANGED <<role, etcdUpdate, v126, container, copying, deaths, bin, backup, cut, clusterDocs, kubeletDocs, coredns, saved, kubeVip, kubeVipBackup, kubelet, conf, confBackup>>
    BY <1>15 DEF mkdir
  <2> QED
    BY <2>1, <2>2
<1>16. CASE backup_conf
  <2>1. copying' \in BOOLEAN /\ confBackup' \in {"none", "cut", "gate", "empty", "ok"}
    BY <1>16, Zenon DEF backup_conf
  <2>2. UNCHANGED <<role, etcdUpdate, v126, container, deaths, bin, backup, cut, clusterDocs, kubeletDocs, coredns, saved, kubeVip, kubeVipBackup, kubelet, conf, extraargs>>
    BY <1>16 DEF backup_conf
  <2> QED
    BY <2>1, <2>2
<1>17. CASE write_conf
  <2>1. copying' \in BOOLEAN /\ conf' \in {"gate", "empty", "ok"}
    BY <1>17, Zenon DEF write_conf
  <2>2. UNCHANGED <<role, etcdUpdate, v126, container, deaths, bin, backup, cut, clusterDocs, kubeletDocs, coredns, saved, kubeVip, kubeVipBackup, kubelet, extraargs, confBackup>>
    BY <1>17 DEF write_conf
  <2> QED
    BY <2>1, <2>2
<1>18. CASE restart_kubelet
  <2>1. kubelet' \in {"stopped", "old", "cut", "new"}
    BY <1>18, BinariesArePrograms, Zenon DEF restart_kubelet
  <2>2. UNCHANGED <<role, etcdUpdate, v126, container, copying, deaths, bin, backup, cut, clusterDocs, kubeletDocs, coredns, saved, kubeVip, kubeVipBackup, conf, extraargs, confBackup>>
    BY <1>18 DEF restart_kubelet
  <2> QED
    BY <2>1, <2>2
<1>19. CASE print_status_and_cleanup
  BY <1>19 DEF print_status_and_cleanup
<1>20. CASE Exit
  <2>1. container' \in Containers
    <3>1. container \in {"runtime", "kubeadm", "kubelet"}
      BY <1>20 DEF Exit, Home, Containers
    <3> QED
      BY <1>20, <3>1, Tables, Zenon DEF Exit, Containers
  <2>2. UNCHANGED <<role, etcdUpdate, v126, copying, deaths, bin, backup, cut, clusterDocs, kubeletDocs, coredns, saved, kubeVip, kubeVipBackup, kubelet, conf, extraargs, confBackup>>
    BY <1>20 DEF Exit
  <2> QED
    BY <2>1, <2>2
<1>21. CASE MkdirFails
  <2>1. copying' \in BOOLEAN /\ cut' \subseteq Binaries
    BY <1>21, Zenon DEF MkdirFails, Die
  <2>2. UNCHANGED <<role, etcdUpdate, v126, container, deaths, bin, backup, clusterDocs, kubeletDocs, coredns, saved, kubeVip, kubeVipBackup, kubelet, conf, extraargs, confBackup>>
    BY <1>21 DEF MkdirFails, Die
  <2> QED
    BY <2>1, <2>2
<1>22. CASE CutProgramFails
  <2>1. copying' \in BOOLEAN /\ cut' \subseteq Binaries
    BY <1>22, Zenon DEF CutProgramFails, Die
  <2>2. UNCHANGED <<role, etcdUpdate, v126, container, deaths, bin, backup, clusterDocs, kubeletDocs, coredns, saved, kubeVip, kubeVipBackup, kubelet, conf, extraargs, confBackup>>
    BY <1>22 DEF CutProgramFails, Die
  <2> QED
    BY <2>1, <2>2
<1>23. CASE Restart
  <2>1. UNCHANGED <<role, etcdUpdate, v126, container, copying, deaths, bin, backup, cut, clusterDocs, kubeletDocs, coredns, saved, kubeVip, kubeVipBackup, kubelet, conf, extraargs, confBackup>>
    BY <1>23 DEF Restart
  <2> QED
    BY <2>1
<1>24. CASE Fails
  <2>1. copying' \in BOOLEAN /\ deaths' \in 0..MaxDeaths /\ cut' \subseteq Binaries
    <3>1. copying' \in BOOLEAN /\ cut' \subseteq Binaries
      BY <1>24, Zenon DEF Fails, Die
    <3>2. deaths' \in 0..MaxDeaths
      BY <1>24, UpgraderAssumption DEF Fails, UpgraderAssumption
    <3> QED
      BY <3>1, <3>2
  <2>2. UNCHANGED <<role, etcdUpdate, v126, container, bin, backup, clusterDocs, kubeletDocs, coredns, saved, kubeVip, kubeVipBackup, kubelet, conf, extraargs, confBackup>>
    BY <1>24 DEF Fails, Die
  <2> QED
    BY <2>1, <2>2
<1>25. CASE Reboot
  <2>1. copying' \in BOOLEAN /\ deaths' \in 0..MaxDeaths /\ cut' \subseteq Binaries /\ container' \in Containers /\ kubelet' \in {"stopped", "old", "cut", "new"}
    <3>1. copying' \in BOOLEAN /\ cut' \subseteq Binaries
      BY <1>25, Zenon DEF Reboot, Die
    <3>2. deaths' \in 0..MaxDeaths
      BY <1>25, UpgraderAssumption DEF Reboot, UpgraderAssumption
    <3>3. container' \in Containers
      BY <1>25, Zenon DEF Reboot, Containers
    <3>4. bin["kubelet"] \in {"old", "cut", "new"}
      BY BinariesArePrograms, Zenon
    <3>5. kubelet' \in {"stopped", "old", "cut", "new"}
      BY <1>25, <3>4, Zenon DEF Reboot
    <3> QED
      BY <3>1, <3>2, <3>3, <3>5
  <2>2. UNCHANGED <<role, etcdUpdate, v126, bin, backup, clusterDocs, kubeletDocs, coredns, saved, kubeVip, kubeVipBackup, conf, extraargs, confBackup>>
    BY <1>25 DEF Reboot, Die
  <2> QED
    BY <2>1, <2>2
<1>26. CASE UNCHANGED vars
  BY <1>26 DEF vars
<1> QED
  BY <1>1, <1>2, <1>3, <1>4, <1>5, <1>6, <1>7, <1>8, <1>9, <1>10, <1>11, <1>12, <1>13, <1>14, <1>15, <1>16, <1>17, <1>18, <1>19, <1>20, <1>21, <1>22, <1>23, <1>24, <1>25, <1>26 DEF Next, Script

\* Backing up a binary stays in the container that replaces it.
LEMMA HomeBackup == ASSUME Home, NEW b \in Binaries, backup_file(b) PROVE Home'
<1>1. UNCHANGED <<role, container>>
  BY DEF backup_file, pod
<1>2. pc = Backup[b] /\ (pc' = pc \/ pc' = Copy[b])
  BY DEF backup_file, Begin, Finish, Goto
<1>3. CASE b = "kubeadm"
  BY <1>1, <1>2, <1>3, Tables DEF Home, DnsCommands
<1>4. CASE b = "kubectl"
  BY <1>1, <1>2, <1>4, Tables DEF Home, DnsCommands
<1>5. CASE b = "kubelet"
  BY <1>1, <1>2, <1>5, Tables DEF Home, DnsCommands
<1> QED
  BY <1>3, <1>4, <1>5 DEF Binaries

\* A replaced binary leads to the next command of the same container.
LEMMA HomeReplace ==
  ASSUME Home, role \in {"first", "rest", "worker"}, NEW b \in Binaries, replace(b)
  PROVE  Home'
<1>1. UNCHANGED <<role, container>>
  BY DEF replace, pod
<1>2. pc = Copy[b] /\ (pc' = pc \/ pc' = AfterCopy(b))
  BY DEF replace, Begin, Finish
<1>3. CASE b = "kubeadm"
  <2>1. CASE role = "first"
    BY <1>1, <1>2, <1>3, <2>1, Tables DEF Home, DnsCommands, AfterCopy
  <2>2. CASE role = "rest"
    BY <1>1, <1>2, <1>3, <2>2, Tables DEF Home, DnsCommands, AfterCopy
  <2>3. CASE role = "worker"
    BY <1>1, <1>2, <1>3, <2>3, Tables DEF Home, DnsCommands, AfterCopy
  <2> QED
    BY <2>1, <2>2, <2>3
<1>4. CASE b = "kubectl"
  BY <1>1, <1>2, <1>4, Tables DEF Home, DnsCommands, AfterCopy
<1>5. CASE b = "kubelet"
  BY <1>1, <1>2, <1>5, Tables DEF Home, DnsCommands, AfterCopy
<1> QED
  BY <1>3, <1>4, <1>5 DEF Binaries

\* Every command stays in the container whose function has it, also after a restart of the pod.
LEMMA HomeStep == UpgradeInv /\ [Next]_vars => Home'
<1> SUFFICES ASSUME UpgradeInv, [Next]_vars PROVE Home'
  OBVIOUS
<1>1. ASSUME NEW b \in Binaries, backup_file(b) PROVE Home'
  BY <1>1, HomeBackup DEF UpgradeInv
<1>2. ASSUME NEW b \in Binaries, replace(b) PROVE Home'
  BY <1>2, HomeReplace, UpgraderAssumption DEF UpgradeInv, TypeOK, UpgraderAssumption
<1> USE Tables, UpgraderAssumption DEF UpgradeInv, UpgraderAssumption, pod, bins, vip, dns, args, Goto, Begin, Finish, Home, DnsCommands, TypeOK, Containers, Binaries
<1>3. CASE upgrade_containerd
  BY <1>3 DEF upgrade_containerd, cp_rf
<1>4. CASE cni_plugins
  BY <1>4 DEF cni_plugins, cp_rf
<1>5. CASE write_config
  BY <1>5 DEF write_config
<1>6. CASE append_kubelet_config
  BY <1>6 DEF append_kubelet_config
<1>7. CASE save_coredns
  BY <1>7 DEF save_coredns
<1>8. CASE delete_coredns
  BY <1>8 DEF delete_coredns
<1>9. CASE kubeadm_upgrade
  BY <1>9 DEF kubeadm_upgrade
<1>10. CASE backup_kube_vip
  BY <1>10 DEF backup_kube_vip
<1>11. CASE replace_kube_vip
  BY <1>11 DEF replace_kube_vip
<1>12. CASE restore_coredns_config
  BY <1>12 DEF restore_coredns_config
<1>13. CASE stop_kubelet
  BY <1>13 DEF stop_kubelet
<1>14. CASE update_kubelet_extra_args
  BY <1>14 DEF update_kubelet_extra_args
<1>15. CASE mkdir
  BY <1>15 DEF mkdir
<1>16. CASE backup_conf
  BY <1>16 DEF backup_conf
<1>17. CASE write_conf
  BY <1>17 DEF write_conf
<1>18. CASE restart_kubelet
  BY <1>18 DEF restart_kubelet
<1>19. CASE print_status_and_cleanup
  BY <1>19 DEF print_status_and_cleanup
<1>20. CASE Exit
  BY <1>20 DEF Exit
<1>21. CASE MkdirFails
  BY <1>21 DEF MkdirFails, Die
<1>22. CASE CutProgramFails
  BY <1>22 DEF CutProgramFails, Die
<1>23. CASE Restart
  BY <1>23 DEF Restart
<1>24. CASE Fails
  BY <1>24 DEF Fails, Die
<1>25. CASE Reboot
  BY <1>25 DEF Reboot, Die
<1>26. CASE UNCHANGED vars
  BY <1>26 DEF vars
<1> QED
  BY <1>1, <1>2, <1>3, <1>4, <1>5, <1>6, <1>7, <1>8, <1>9, <1>10, <1>11, <1>12, <1>13, <1>14, <1>15, <1>16, <1>17, <1>18, <1>19, <1>20, <1>21, <1>22, <1>23, <1>24, <1>25, <1>26 DEF Next, Script

\* Backing up a binary leads to copying it, and the names are those of Tables.
LEMMA BackupMoves ==
  ASSUME NEW b \in Binaries, backup_file(b)
  PROVE  pc' \in {"backup kubeadm", "backup kubectl", "backup kubelet",
                  "copy kubeadm", "copy kubectl", "copy kubelet"}
<1>1. pc = Backup[b] /\ (pc' = pc \/ pc' = Copy[b])
  BY DEF backup_file, Begin, Finish, Goto
<1> QED
  BY <1>1, Tables DEF Binaries

\* The command that copies a binary.
LEMMA CopyNames == \A b \in Binaries : Copy[b] \in {"copy kubeadm", "copy kubectl", "copy kubelet"}
  BY Tables DEF Binaries

\* Every step keeps what the kubeadm container knows about the ConfigMap and its backup.
LEMMA CorednsInvStep == UpgradeInv /\ [Next]_vars => CorednsInv'
<1> SUFFICES ASSUME UpgradeInv, [Next]_vars PROVE CorednsInv'
  OBVIOUS
<1> USE Tables, UpgraderAssumption DEF UpgradeInv, UpgraderAssumption, pod, bins, vip, dns, args, Goto, Begin, Finish, CorednsInv, CorednsSafe, Home, Without, Writers, DnsCommands, TypeOK, Containers, Binaries
<1>1. ASSUME NEW b \in Binaries, backup_file(b) PROVE CorednsInv'
  <2>1. UNCHANGED <<role, container, coredns, saved>>
    BY <1>1 DEF backup_file
  <2>2. pc' \in {"backup kubeadm", "backup kubectl", "backup kubelet",
                 "copy kubeadm", "copy kubectl", "copy kubelet"}
    BY <1>1, BackupMoves
  <2> QED
    BY <2>1, <2>2
<1>2. ASSUME NEW b \in Binaries, replace(b) PROVE CorednsInv'
  <2>1. UNCHANGED <<role, container, coredns, saved>>
    BY <1>2 DEF replace
  <2>2. CASE Begin
    <3>1. pc' = pc /\ pc \in {"copy kubeadm", "copy kubectl", "copy kubelet"}
      BY <1>2, <2>2, CopyNames, Zenon DEF replace
    <3> QED
      BY <2>1, <3>1
  <2>3. CASE Finish(AfterCopy(b))
    <3>1. ~copying'
      BY <2>3
    <3>2. CASE b = "kubeadm"
      BY <2>1, <2>3, <3>1, <3>2 DEF AfterCopy, UpgraderAssumption
    <3>3. CASE b # "kubeadm"
      BY <1>2, <2>1, <2>3, <3>1, <3>3 DEF AfterCopy
    <3> QED
      BY <3>2, <3>3
  <2> QED
    BY <1>2, <2>2, <2>3 DEF replace
<1>3. CASE upgrade_containerd
  BY <1>3 DEF upgrade_containerd, cp_rf
<1>4. CASE cni_plugins
  BY <1>4 DEF cni_plugins, cp_rf
<1>5. CASE write_config
  BY <1>5 DEF write_config
<1>6. CASE append_kubelet_config
  BY <1>6 DEF append_kubelet_config
<1>7. CASE save_coredns
  <2>1. CASE ~copying /\ ~coredns /\ Goto("delete coredns") /\ UNCHANGED saved
    BY <1>7, <2>1 DEF save_coredns
  <2>2. CASE coredns /\ Begin /\ saved' = "cut"
    BY <1>7, <2>2 DEF save_coredns
  <2>3. CASE Finish("delete coredns") /\ saved' = "complete"
    BY <1>7, <2>3 DEF save_coredns
  <2> QED
    BY <1>7, <2>1, <2>2, <2>3 DEF save_coredns
<1>8. CASE delete_coredns
  BY <1>8 DEF delete_coredns
<1>9. CASE kubeadm_upgrade
  BY <1>9 DEF kubeadm_upgrade
<1>10. CASE backup_kube_vip
  BY <1>10 DEF backup_kube_vip
<1>11. CASE replace_kube_vip
  BY <1>11 DEF replace_kube_vip
<1>12. CASE restore_coredns_config
  BY <1>12 DEF restore_coredns_config
<1>13. CASE stop_kubelet
  BY <1>13 DEF stop_kubelet
<1>14. CASE update_kubelet_extra_args
  BY <1>14 DEF update_kubelet_extra_args
<1>15. CASE mkdir
  BY <1>15 DEF mkdir
<1>16. CASE backup_conf
  BY <1>16 DEF backup_conf
<1>17. CASE write_conf
  BY <1>17 DEF write_conf
<1>18. CASE restart_kubelet
  BY <1>18 DEF restart_kubelet
<1>19. CASE print_status_and_cleanup
  BY <1>19 DEF print_status_and_cleanup
<1>20. CASE Exit
  BY <1>20 DEF Exit
<1>21. CASE MkdirFails
  BY <1>21 DEF MkdirFails, Die
<1>22. CASE CutProgramFails
  BY <1>22 DEF CutProgramFails, Die
<1>23. CASE Restart
  BY <1>23 DEF Restart
<1>24. CASE Fails
  BY <1>24 DEF Fails, Die
<1>25. CASE Reboot
  BY <1>25 DEF Reboot, Die
<1>26. CASE UNCHANGED vars
  BY <1>26 DEF vars
<1> QED
  BY <1>1, <1>2, <1>3, <1>4, <1>5, <1>6, <1>7, <1>8, <1>9, <1>10, <1>11, <1>12, <1>13, <1>14, <1>15, <1>16, <1>17, <1>18, <1>19, <1>20, <1>21, <1>22, <1>23, <1>24, <1>25, <1>26 DEF Next, Script

\* No two commands of backup_and_replace share a name.
LEMMA Distinct ==
  \A b, c \in Binaries :
    /\ Backup[b] # Copy[c] /\ Backup[b] # "done" /\ Copy[b] # "done"
    /\ b # c => Backup[b] # Backup[c] /\ Copy[b] # Copy[c]
  BY Tables DEF Binaries

\* Backing up one binary keeps what is known of every backup.
LEMMA BackupKeeps ==
  ASSUME NEW b \in Binaries, NEW c \in Binaries, BackupOf(b), BackupOf(c), backup_file(b),
         backup \in [Binaries -> {"none", "cut", "old", "new"}]
  PROVE  BackupOf(c)'
<1>1. pc = Backup[b] /\ bin' = bin /\ cut' = cut
  BY DEF backup_file
<1>2. CASE ~copying /\ backup[b] # "none" /\ Goto(Copy[b]) /\ UNCHANGED backup
  <2>1. b \notin cut => backup[b] = "old"
    BY <1>1, <1>2, Distinct DEF BackupOf
  <2> QED
    BY <1>1, <1>2, <2>1, Distinct DEF BackupOf, Goto
<1>3. CASE backup[b] = "none" /\ Begin /\ backup' = [backup EXCEPT ![b] = "cut"]
  <2>1. CASE c = b
    BY <1>1, <1>3, <2>1, Distinct DEF BackupOf, Begin
  <2>2. CASE c # b
    BY <1>1, <1>3, <2>2, Distinct DEF BackupOf, Begin
  <2> QED
    BY <2>1, <2>2
<1>4. CASE Finish(Copy[b]) /\ backup' = [backup EXCEPT ![b] = bin[b]]
  <2>1. b \notin cut => bin[b] = "old"
    BY <1>1, <1>4, Distinct DEF BackupOf, Finish
  <2>2. CASE c = b
    BY <1>1, <1>4, <2>1, <2>2, Distinct DEF BackupOf, Finish
  <2>3. CASE c # b
    BY <1>1, <1>4, <2>3, Distinct DEF BackupOf, Finish
  <2> QED
    BY <2>2, <2>3
<1> QED
  BY <1>2, <1>3, <1>4 DEF backup_file

\* A command that touches neither a binary nor its backup keeps what is known of them.
LEMMA BackupElsewhere ==
  ASSUME BackupInv, UNCHANGED <<backup, cut>>,
         \A c \in Binaries : bin'[c] = bin[c],
         \A c \in Binaries : /\ pc # "done" /\ pc # Backup[c]
                            /\ pc' # Copy[c] /\ pc' # Backup[c]
  PROVE  BackupInv'
BY DEF BackupInv, BackupOf

\* Every step keeps the backups of the original binaries.
LEMMA BackupInvStep == UpgradeInv /\ [Next]_vars => BackupInv'
<1> SUFFICES ASSUME UpgradeInv, [Next]_vars PROVE BackupInv'
  OBVIOUS
<1>1. ASSUME NEW b \in Binaries, backup_file(b) PROVE BackupInv'
  BY <1>1, BackupKeeps DEF UpgradeInv, TypeOK, BackupInv
<1> USE Tables, UpgraderAssumption DEF UpgradeInv, UpgraderAssumption, pod, bins, vip, dns, args, Goto, Begin, Finish, BackupInv, BackupOf, Binaries, CorednsInv, Writers, TypeOK
<1>2. ASSUME NEW b \in Binaries, replace(b) PROVE BackupInv'
  <2> SUFFICES ASSUME NEW c \in Binaries PROVE BackupOf(c)'
    OBVIOUS
  <2> USE <1>2 DEF replace
  <2>1. c # b => bin'[c] = bin[c]
    BY BinariesArePrograms, Written
  <2>2. CASE Begin
    BY <2>1, <2>2
  <2>3. CASE Finish(AfterCopy(b))
    BY <2>1, <2>3 DEF AfterCopy
  <2> QED
    BY <2>2, <2>3
<1>3. CASE upgrade_containerd
  <2>1. \A c \in Binaries : bin'[c] = bin[c]
    BY <1>3, OthersKept DEF upgrade_containerd
  <2>2. /\ pc = "upgrade_containerd" /\ pc' \in {"upgrade_containerd", "cni_plugins"}
        /\ UNCHANGED <<backup, cut>>
    BY <1>3 DEF upgrade_containerd, cp_rf
  <2>3. \A c \in Binaries : /\ pc # "done" /\ pc # Backup[c]
                             /\ pc' # Copy[c] /\ pc' # Backup[c]
    BY <2>2
  <2> QED
    BY <2>1, <2>2, <2>3, BackupElsewhere
<1>4. CASE cni_plugins
  <2>1. \A c \in Binaries : bin'[c] = bin[c]
    BY <1>4, OthersKept DEF cni_plugins
  <2>2. /\ pc = "cni_plugins" /\ pc' \in {"cni_plugins", "exit"}
        /\ UNCHANGED <<backup, cut>>
    BY <1>4 DEF cni_plugins, cp_rf
  <2>3. \A c \in Binaries : /\ pc # "done" /\ pc # Backup[c]
                             /\ pc' # Copy[c] /\ pc' # Backup[c]
    BY <2>2
  <2> QED
    BY <2>1, <2>2, <2>3, BackupElsewhere
<1>5. CASE write_config
  BY <1>5 DEF write_config
<1>6. CASE append_kubelet_config
  BY <1>6 DEF append_kubelet_config
<1>7. CASE save_coredns
  BY <1>7 DEF save_coredns
<1>8. CASE delete_coredns
  BY <1>8 DEF delete_coredns
<1>9. CASE kubeadm_upgrade
  BY <1>9 DEF kubeadm_upgrade
<1>10. CASE backup_kube_vip
  BY <1>10 DEF backup_kube_vip
<1>11. CASE replace_kube_vip
  BY <1>11 DEF replace_kube_vip
<1>12. CASE restore_coredns_config
  BY <1>12 DEF restore_coredns_config
<1>13. CASE stop_kubelet
  BY <1>13 DEF stop_kubelet
<1>14. CASE update_kubelet_extra_args
  BY <1>14 DEF update_kubelet_extra_args
<1>15. CASE mkdir
  BY <1>15 DEF mkdir
<1>16. CASE backup_conf
  BY <1>16 DEF backup_conf
<1>17. CASE write_conf
  BY <1>17 DEF write_conf
<1>18. CASE restart_kubelet
  BY <1>18 DEF restart_kubelet
<1>19. CASE print_status_and_cleanup
  BY <1>19 DEF print_status_and_cleanup
<1>20. CASE Exit
  <2>1. ~copying /\ pc # "done" /\ \A b \in Binaries : pc # Copy[b]
    BY <1>20 DEF Exit
  <2>2. container \in {"runtime", "kubeadm", "kubelet"}
    BY <1>20 DEF Exit, Home, Containers
  <2>3. pc' \in {"backup kubeadm", "backup kubectl", "print_status"}
    BY <1>20, <2>2 DEF Exit
  <2> QED
    BY <1>20, <2>1, <2>3 DEF Exit
<1>21. CASE MkdirFails
  BY <1>21 DEF MkdirFails, Die
<1>22. CASE CutProgramFails
  BY <1>22 DEF CutProgramFails, Die
<1>23. CASE Restart
  <2>1. ~copying /\ pc # "done" /\ \A b \in Binaries : pc # Copy[b]
    BY <1>23 DEF Restart
  <2>2. pc' \in {"upgrade_containerd", "backup kubeadm", "backup kubectl", "print_status"}
    BY <1>23 DEF Restart, Containers
  <2> QED
    BY <1>23, <2>1, <2>2 DEF Restart
<1>24. CASE Fails
  BY <1>24 DEF Fails, Die
<1>25. CASE Reboot
  BY <1>25 DEF Reboot, Die
<1>26. CASE UNCHANGED vars
  BY <1>26 DEF vars
<1> QED
  BY <1>1, <1>2, <1>3, <1>4, <1>5, <1>6, <1>7, <1>8, <1>9, <1>10, <1>11, <1>12, <1>13, <1>14, <1>15, <1>16, <1>17, <1>18, <1>19, <1>20, <1>21, <1>22, <1>23, <1>24, <1>25, <1>26 DEF Next, Script

\* The invariant holds in every state of the upgrade.
THEOREM UpgradeInvariant == Spec => []UpgradeInv
<1>1. UpgradeInv /\ [Next]_vars => UpgradeInv'
  BY TypeOKStep, HomeStep, CorednsInvStep, BackupInvStep DEF UpgradeInv
<1> QED
  BY InitInv, <1>1, PTL DEF Spec

\* The state keeps its types.
THEOREM UpgraderTypes == Spec => []TypeOK
  BY UpgradeInvariant, PTL DEF UpgradeInv

\* However often upgrade.sh dies and is retried, the coredns ConfigMap is in the
\* cluster or whole in its backup, with the container that restores it to come.
THEOREM CorednsNeverLost == Spec => []CorednsSafe
<1>1. UpgradeInv => CorednsSafe
  BY DEF UpgradeInv, CorednsInv
<1> QED
  BY UpgradeInvariant, <1>1, PTL

\* No attempt runs kubeadm upgrade on a control plane with the ConfigMap there.
THEOREM CorednsSkipped == Spec => []KubeadmSkipsCoredns
<1>1. UpgradeInv => KubeadmSkipsCoredns
  BY DEF UpgradeInv, CorednsInv, Without, KubeadmSkipsCoredns
<1> QED
  BY UpgradeInvariant, <1>1, PTL

\* No retry of backup_and_replace loses an original binary that was backed up.
THEOREM OriginalsKept == Spec => []RollbackPath
<1>1. UpgradeInv => RollbackPath
  BY DEF UpgradeInv, BackupInv, BackupOf, RollbackPath
<1> QED
  BY UpgradeInvariant, <1>1, PTL

-----------------------------------------------------------------------------
\* The documents in the config, at each command of an attempt that writes it.
ConfigInv ==
  role = "first" /\ etcdUpdate =>
    /\ pc = "append kubelet config" => clusterDocs = 1 /\ kubeletDocs = 0
    /\ pc \in {"save coredns", "delete coredns", "kubeadm upgrade"} =>
         clusterDocs = 1 /\ kubeletDocs = 1

\* The feature gate is in the arguments until they are backed up, and in the backup
\* when they are written.
ArgsInv ==
  /\ ArgsRecoverable
  /\ pc \in {"mkdir", "backup conf"} => conf = "gate"
  /\ pc = "write conf" => confBackup = "gate"

\* What each container has done by the time it is at a command, and what the
\* containers before it have done.
ContainerdReplaced == pc \in {"cni_plugins", "exit"} \/ container # "runtime"
LoopbackReplaced == pc = "exit" \/ container # "runtime"
KubeadmReplaced ==
  \/ pc \in {"write config", "append kubelet config", "save coredns", "delete coredns",
             "kubeadm upgrade", "backup kube-vip", "replace kube-vip", "restore coredns"}
  \/ pc = "exit" /\ container = "kubeadm"
  \/ container \in {"kubelet", "cleanup"}
KubeVipReplaced ==
  \/ pc = "restore coredns"
  \/ pc = "exit" /\ container = "kubeadm"
  \/ container \in {"kubelet", "cleanup"}
KubectlReplaced ==
  \/ pc \in {"stop kubelet", "backup kubelet", "copy kubelet", "update_kubelet_extra_args",
             "mkdir", "backup conf", "write conf", "restart kubelet"}
  \/ pc = "exit" /\ container = "kubelet"
  \/ container = "cleanup"
KubeletReplaced ==
  \/ pc \in {"update_kubelet_extra_args", "mkdir", "backup conf", "write conf", "restart kubelet"}
  \/ pc = "exit" /\ container = "kubelet"
  \/ container = "cleanup"
KubeletRestarted ==
  (pc = "exit" /\ container = "kubelet") \/ container = "cleanup"

ReadyInv ==
  /\ ContainerdReplaced => bin["containerd"] = "new"
  /\ LoopbackReplaced => bin["loopback"] = "new"
  /\ KubeadmReplaced => bin["kubeadm"] = "new"
  /\ KubeVipReplaced /\ role # "worker" => kubeVip = "new"
  /\ KubectlReplaced => bin["kubectl"] = "new"
  /\ KubeletReplaced => bin["kubelet"] = "new"
  /\ KubeletRestarted => kubelet = "new"

OutcomeInv == ConfigInv /\ ArgsInv /\ ReadyInv

\* The upgrade starts in a state that OutcomeInv describes.
LEMMA OutcomeInit == Init => OutcomeInv
BY Tables DEF Init, OutcomeInv, ConfigInv, ArgsInv, ArgsRecoverable, ReadyInv, ContainerdReplaced, LoopbackReplaced, KubeadmReplaced,
   KubeVipReplaced, KubectlReplaced, KubeletReplaced, KubeletRestarted

\* The arithmetic of the one document that is appended.
LEMMA OneMore == 0 + 1 = 1
  OBVIOUS

\* A binary is only written by the two commands of backup_and_replace.
LEMMA CopyMoves ==
  ASSUME role \in {"first", "rest", "worker"}, NEW b \in Binaries, replace(b)
  PROVE  /\ pc = Copy[b]
         /\ \/ pc' = pc
            \/ b = "kubeadm" /\ role = "first" /\ pc' = "write config"
            \/ b = "kubeadm" /\ role = "rest" /\ pc' = "save coredns"
            \/ b = "kubeadm" /\ role = "worker" /\ pc' = "kubeadm upgrade"
            \/ b = "kubectl" /\ pc' = "stop kubelet"
            \/ b = "kubelet" /\ pc' = "update_kubelet_extra_args"
<1>1. pc = Copy[b] /\ (pc' = pc \/ pc' = AfterCopy(b))
  BY DEF replace, Begin, Finish
<1> QED
  BY <1>1 DEF AfterCopy, Binaries

\* Where the copying of a binary leads.
LEMMA CopyLeads ==
  ASSUME UpgradeInv, NEW b \in Binaries, replace(b)
  PROVE  /\ pc \in {"copy kubeadm", "copy kubectl", "copy kubelet"}
         /\ pc' \in {pc, "write config", "save coredns", "kubeadm upgrade", "stop kubelet",
                     "update_kubelet_extra_args"}
         /\ pc' \in {"save coredns", "kubeadm upgrade"} => role # "first"
<1>1. role \in {"first", "rest", "worker"}
  BY UpgraderAssumption DEF UpgradeInv, TypeOK, UpgraderAssumption
<1> QED
  BY <1>1, CopyMoves, CopyNames

\* Copying a binary leaves the config alone.
LEMMA ConfigReplace ==
  ASSUME UpgradeInv, ConfigInv, NEW b \in Binaries, replace(b)
  PROVE  ConfigInv'
<1>1. UNCHANGED <<role, etcdUpdate, clusterDocs, kubeletDocs>>
  BY DEF replace, pod, dns, vip
<1> QED
  BY <1>1, CopyLeads DEF ConfigInv

\* Copying a binary leaves the arguments alone.
LEMMA ArgsReplace ==
  ASSUME UpgradeInv, ArgsInv, NEW b \in Binaries, replace(b)
  PROVE  ArgsInv'
<1>1. UNCHANGED <<conf, confBackup>>
  BY DEF replace, args
<1> QED
  BY <1>1, CopyLeads DEF ArgsInv, ArgsRecoverable

\* Every attempt of the first control plane writes the config anew.
LEMMA ConfigStep == UpgradeInv /\ ConfigInv /\ [Next]_vars => ConfigInv'
<1> SUFFICES ASSUME UpgradeInv, ConfigInv, [Next]_vars PROVE ConfigInv'
  OBVIOUS
<1> USE Tables, UpgraderAssumption DEF UpgradeInv, UpgraderAssumption, pod, bins, vip, dns, args, Goto, Begin, Finish, Home, TypeOK, Containers, Binaries, ConfigInv
<1>1. ASSUME NEW b \in Binaries, backup_file(b) PROVE ConfigInv'
  <2>1. UNCHANGED <<role, etcdUpdate, clusterDocs, kubeletDocs>>
    BY <1>1 DEF backup_file
  <2> QED
    BY <1>1, <2>1, BackupMoves
<1>2. ASSUME NEW b \in Binaries, replace(b) PROVE ConfigInv'
  BY <1>2, ConfigReplace
<1>3. CASE upgrade_containerd
  BY <1>3 DEF upgrade_containerd, cp_rf
<1>4. CASE cni_plugins
  BY <1>4 DEF cni_plugins, cp_rf
<1>5. CASE write_config
  BY <1>5 DEF write_config
<1>6. CASE append_kubelet_config
  <2>1. /\ UNCHANGED <<role, etcdUpdate, clusterDocs>> /\ kubeletDocs' = kubeletDocs + 1
        /\ pc = "append kubelet config" /\ pc' = "save coredns"
    BY <1>6 DEF append_kubelet_config
  <2> QED
    BY <2>1, OneMore, Zenon
<1>7. CASE save_coredns
  BY <1>7 DEF save_coredns
<1>8. CASE delete_coredns
  BY <1>8 DEF delete_coredns
<1>9. CASE kubeadm_upgrade
  BY <1>9 DEF kubeadm_upgrade
<1>10. CASE backup_kube_vip
  BY <1>10 DEF backup_kube_vip
<1>11. CASE replace_kube_vip
  BY <1>11 DEF replace_kube_vip
<1>12. CASE restore_coredns_config
  BY <1>12 DEF restore_coredns_config
<1>13. CASE stop_kubelet
  BY <1>13 DEF stop_kubelet
<1>14. CASE update_kubelet_extra_args
  BY <1>14 DEF update_kubelet_extra_args
<1>15. CASE mkdir
  BY <1>15 DEF mkdir
<1>16. CASE backup_conf
  BY <1>16 DEF backup_conf
<1>17. CASE write_conf
  BY <1>17 DEF write_conf
<1>18. CASE restart_kubelet
  BY <1>18 DEF restart_kubelet
<1>19. CASE print_status_and_cleanup
  BY <1>19 DEF print_status_and_cleanup
<1>20. CASE Exit
  BY <1>20 DEF Exit
<1>21. CASE MkdirFails
  BY <1>21 DEF MkdirFails, Die
<1>22. CASE CutProgramFails
  BY <1>22 DEF CutProgramFails, Die
<1>23. CASE Restart
  BY <1>23 DEF Restart
<1>24. CASE Fails
  BY <1>24 DEF Fails, Die
<1>25. CASE Reboot
  BY <1>25 DEF Reboot, Die
<1>26. CASE UNCHANGED vars
  BY <1>26 DEF vars
<1> QED
  BY <1>1, <1>2, <1>3, <1>4, <1>5, <1>6, <1>7, <1>8, <1>9, <1>10, <1>11, <1>12, <1>13, <1>14, <1>15, <1>16, <1>17, <1>18, <1>19, <1>20, <1>21, <1>22, <1>23, <1>24, <1>25, <1>26 DEF Next, Script

\* The arguments are only written once their backup has the feature gate.
LEMMA ArgsStep == UpgradeInv /\ ArgsInv /\ [Next]_vars => ArgsInv'
<1> SUFFICES ASSUME UpgradeInv, ArgsInv, [Next]_vars PROVE ArgsInv'
  OBVIOUS
<1> USE Tables, UpgraderAssumption DEF UpgradeInv, UpgraderAssumption, pod, bins, vip, dns, args, Goto, Begin, Finish, Home, TypeOK, Containers, Binaries, ArgsInv, ArgsRecoverable
<1>1. ASSUME NEW b \in Binaries, backup_file(b) PROVE ArgsInv'
  <2>1. UNCHANGED <<conf, confBackup>> /\ pc # "done"
    BY <1>1, Distinct DEF backup_file
  <2> QED
    BY <1>1, <2>1, BackupMoves
<1>2. ASSUME NEW b \in Binaries, replace(b) PROVE ArgsInv'
  BY <1>2, ArgsReplace
<1>3. CASE upgrade_containerd
  BY <1>3 DEF upgrade_containerd, cp_rf
<1>4. CASE cni_plugins
  BY <1>4 DEF cni_plugins, cp_rf
<1>5. CASE write_config
  BY <1>5 DEF write_config
<1>6. CASE append_kubelet_config
  BY <1>6 DEF append_kubelet_config
<1>7. CASE save_coredns
  BY <1>7 DEF save_coredns
<1>8. CASE delete_coredns
  BY <1>8 DEF delete_coredns
<1>9. CASE kubeadm_upgrade
  BY <1>9 DEF kubeadm_upgrade
<1>10. CASE backup_kube_vip
  BY <1>10 DEF backup_kube_vip
<1>11. CASE replace_kube_vip
  BY <1>11 DEF replace_kube_vip
<1>12. CASE restore_coredns_config
  BY <1>12 DEF restore_coredns_config
<1>13. CASE stop_kubelet
  BY <1>13 DEF stop_kubelet
<1>14. CASE update_kubelet_extra_args
  BY <1>14 DEF update_kubelet_extra_args
<1>15. CASE mkdir
  BY <1>15 DEF mkdir
<1>16. CASE backup_conf
  BY <1>16 DEF backup_conf
<1>17. CASE write_conf
  BY <1>17 DEF write_conf
<1>18. CASE restart_kubelet
  BY <1>18 DEF restart_kubelet
<1>19. CASE print_status_and_cleanup
  BY <1>19 DEF print_status_and_cleanup
<1>20. CASE Exit
  BY <1>20 DEF Exit
<1>21. CASE MkdirFails
  BY <1>21 DEF MkdirFails, Die
<1>22. CASE CutProgramFails
  BY <1>22 DEF CutProgramFails, Die
<1>23. CASE Restart
  BY <1>23 DEF Restart
<1>24. CASE Fails
  BY <1>24 DEF Fails, Die
<1>25. CASE Reboot
  BY <1>25 DEF Reboot, Die
<1>26. CASE UNCHANGED vars
  BY <1>26 DEF vars
<1> QED
  BY <1>1, <1>2, <1>3, <1>4, <1>5, <1>6, <1>7, <1>8, <1>9, <1>10, <1>11, <1>12, <1>13, <1>14, <1>15, <1>16, <1>17, <1>18, <1>19, <1>20, <1>21, <1>22, <1>23, <1>24, <1>25, <1>26 DEF Next, Script

\* Backing up a binary touches nothing that is ready.
LEMMA ReadyBackup ==
  ASSUME UpgradeInv, ReadyInv, NEW b \in Binaries, backup_file(b)
  PROVE  ReadyInv'
<1>1. UNCHANGED <<role, container, bin, kubeVip, kubelet>>
  BY DEF backup_file, pod, dns, vip
<1>2. pc = Backup[b] /\ (pc' = pc \/ pc' = Copy[b])
  BY DEF backup_file, Begin, Finish, Goto
<1> USE Tables DEF ReadyInv, ContainerdReplaced, LoopbackReplaced, KubeadmReplaced, KubeVipReplaced, KubectlReplaced, KubeletReplaced,
        KubeletRestarted
<1>3. CASE b = "kubeadm"
  BY <1>1, <1>2, <1>3
<1>4. CASE b = "kubectl"
  BY <1>1, <1>2, <1>4
<1>5. CASE b = "kubelet"
  BY <1>1, <1>2, <1>5
<1> QED
  BY <1>3, <1>4, <1>5 DEF Binaries

\* A binary is replaced in the container whose function does it, before anything
\* that relies on it.
LEMMA ReadyReplace ==
  ASSUME UpgradeInv, ReadyInv, NEW b \in Binaries, replace(b)
  PROVE  ReadyInv'
<1>1. UNCHANGED <<role, container, kubeVip, kubelet>>
  BY DEF replace, pod, dns, vip
<1>2. role \in {"first", "rest", "worker"} /\ bin \in [Programs -> {"old", "cut", "new"}]
  BY UpgraderAssumption DEF UpgradeInv, TypeOK, UpgraderAssumption
<1>3. \/ pc' = pc /\ bin' = [bin EXCEPT ![b] = "cut"]
      \/ pc' = AfterCopy(b) /\ bin' = [bin EXCEPT ![b] = "new"]
  BY DEF replace, Begin, Finish
<1>4. \A c \in Programs \ {b} : bin'[c] = bin[c]
  BY <1>2, <1>3, BinariesArePrograms, Written
<1>5. pc = Copy[b] /\ (pc' = pc \/ (bin'[b] = "new" /\ pc' = AfterCopy(b)))
  <2>1. pc = Copy[b]
    BY DEF replace
  <2>2. bin' = [bin EXCEPT ![b] = "new"] => bin'[b] = "new"
    BY <1>2, BinariesArePrograms, Written
  <2> QED
    BY <1>3, <2>1, <2>2, Zenon
<1>10. bin'["containerd"] = bin["containerd"] /\ bin'["loopback"] = bin["loopback"]
  BY <1>4, BinariesArePrograms
<1>6. /\ pc = "copy kubeadm" => container = "kubeadm"
      /\ pc \in {"copy kubectl", "copy kubelet"} => container = "kubelet"
  BY DEF UpgradeInv, Home
<1> USE Tables DEF ReadyInv, ContainerdReplaced, LoopbackReplaced, KubeadmReplaced, KubeVipReplaced, KubectlReplaced,
        KubeletReplaced, KubeletRestarted, AfterCopy, Binaries
<1>7. CASE b = "kubeadm"
  <2>1. pc = "copy kubeadm" /\ pc' \in {pc, "write config", "save coredns", "kubeadm upgrade"}
    BY <1>2, <1>7, CopyMoves
  <2>2. bin'["kubectl"] = bin["kubectl"] /\ bin'["kubelet"] = bin["kubelet"]
    BY <1>4, <1>7, BinariesArePrograms
  <2>3. pc' = pc \/ bin'["kubeadm"] = "new"
    BY <1>5, <1>7
  <2> QED
    BY <1>1, <1>6, <1>10, <2>1, <2>2, <2>3
<1>8. CASE b = "kubectl"
  <2>1. bin'["kubeadm"] = bin["kubeadm"] /\ bin'["kubelet"] = bin["kubelet"]
    BY <1>4, <1>8, BinariesArePrograms
  <2> QED
    BY <1>1, <1>5, <1>6, <1>8, <1>10, <2>1
<1>9. CASE b = "kubelet"
  <2>1. bin'["kubeadm"] = bin["kubeadm"] /\ bin'["kubectl"] = bin["kubectl"]
    BY <1>4, <1>9, BinariesArePrograms
  <2> QED
    BY <1>1, <1>5, <1>6, <1>9, <1>10, <2>1
<1> QED
  BY <1>7, <1>8, <1>9

\* Every step keeps what the containers that are through have done.
LEMMA ReadyStep == UpgradeInv /\ ReadyInv /\ [Next]_vars => ReadyInv'
<1> SUFFICES ASSUME UpgradeInv, ReadyInv, [Next]_vars PROVE ReadyInv'
  OBVIOUS
<1>1. ASSUME NEW b \in Binaries, backup_file(b) PROVE ReadyInv'
  BY <1>1, ReadyBackup
<1>2. ASSUME NEW b \in Binaries, replace(b) PROVE ReadyInv'
  BY <1>2, ReadyReplace
<1> USE Tables, UpgraderAssumption DEF UpgradeInv, UpgraderAssumption, pod, bins, vip, dns, args, Goto, Begin, Finish, Home, TypeOK, Containers, Binaries, DnsCommands, ReadyInv, ContainerdReplaced, LoopbackReplaced, KubeadmReplaced, KubeVipReplaced, KubectlReplaced, KubeletReplaced, KubeletRestarted
<1>3. CASE upgrade_containerd
  <2>1. /\ ~copying' => bin'["containerd"] = "new"
        /\ \A q \in Programs : q # "containerd" => bin'[q] = bin[q]
    BY <1>3, OthersKept DEF upgrade_containerd
  <2>2. bin'["kubeadm"] = bin["kubeadm"] /\ bin'["kubectl"] = bin["kubectl"]
        /\ bin'["kubelet"] = bin["kubelet"] /\ bin'["loopback"] = bin["loopback"]
    BY <2>1, BinariesArePrograms
  <2>3. /\ pc = "upgrade_containerd" /\ pc' \in {pc, "cni_plugins"}
        /\ pc' # pc => ~copying'
    BY <1>3 DEF upgrade_containerd, cp_rf
  <2>4. UNCHANGED <<role, container, kubeVip, kubelet>>
    BY <1>3 DEF upgrade_containerd
  <2> QED
    BY <2>1, <2>2, <2>3, <2>4
<1>4. CASE cni_plugins
  <2>1. /\ ~copying' => bin'["loopback"] = "new"
        /\ \A q \in Programs : q # "loopback" => bin'[q] = bin[q]
    BY <1>4, OthersKept DEF cni_plugins
  <2>2. bin'["kubeadm"] = bin["kubeadm"] /\ bin'["kubectl"] = bin["kubectl"]
        /\ bin'["kubelet"] = bin["kubelet"] /\ bin'["containerd"] = bin["containerd"]
    BY <2>1, BinariesArePrograms
  <2>3. /\ pc = "cni_plugins" /\ pc' \in {pc, "exit"}
        /\ pc' # pc => ~copying'
    BY <1>4 DEF cni_plugins, cp_rf
  <2>4. UNCHANGED <<role, container, kubeVip, kubelet>>
    BY <1>4 DEF cni_plugins
  <2> QED
    BY <2>1, <2>2, <2>3, <2>4
<1>5. CASE write_config
  BY <1>5 DEF write_config
<1>6. CASE append_kubelet_config
  BY <1>6 DEF append_kubelet_config
<1>7. CASE save_coredns
  BY <1>7 DEF save_coredns
<1>8. CASE delete_coredns
  BY <1>8 DEF delete_coredns
<1>9. CASE kubeadm_upgrade
  BY <1>9 DEF kubeadm_upgrade
<1>10. CASE backup_kube_vip
  BY <1>10 DEF backup_kube_vip
<1>11. CASE replace_kube_vip
  BY <1>11 DEF replace_kube_vip
<1>12. CASE restore_coredns_config
  BY <1>12 DEF restore_coredns_config
<1>13. CASE stop_kubelet
  BY <1>13 DEF stop_kubelet
<1>14. CASE update_kubelet_extra_args
  BY <1>14 DEF update_kubelet_extra_args
<1>15. CASE mkdir
  BY <1>15 DEF mkdir
<1>16. CASE backup_conf
  BY <1>16 DEF backup_conf
<1>17. CASE write_conf
  BY <1>17 DEF write_conf
<1>18. CASE restart_kubelet
  BY <1>18 DEF restart_kubelet
<1>19. CASE print_status_and_cleanup
  BY <1>19 DEF print_status_and_cleanup
<1>20. CASE Exit
  BY <1>20 DEF Exit
<1>21. CASE MkdirFails
  BY <1>21 DEF MkdirFails, Die
<1>22. CASE CutProgramFails
  BY <1>22 DEF CutProgramFails, Die
<1>23. CASE Restart
  BY <1>23 DEF Restart
<1>24. CASE Fails
  BY <1>24 DEF Fails, Die
<1>25. CASE Reboot
  BY <1>25 DEF Reboot, Die
<1>26. CASE UNCHANGED vars
  BY <1>26 DEF vars
<1> QED
  BY <1>1, <1>2, <1>3, <1>4, <1>5, <1>6, <1>7, <1>8, <1>9, <1>10, <1>11, <1>12, <1>13, <1>14, <1>15, <1>16, <1>17, <1>18, <1>19, <1>20, <1>21, <1>22, <1>23, <1>24, <1>25, <1>26 DEF Next, Script

\* OutcomeInv holds in every state of the upgrade.
THEOREM OutcomeInvariant == Spec => []OutcomeInv
<1>1. UpgradeInv /\ OutcomeInv /\ [Next]_vars => OutcomeInv'
  BY ConfigStep, ArgsStep, ReadyStep DEF OutcomeInv
<1> QED
  BY OutcomeInit, UpgradeInvariant, <1>1, PTL DEF Spec

\* kubeadm upgrade apply always gets both documents once, however many attempts of
\* the first control plane went before, when an etcd version is given.
THEOREM ConfigAlwaysWhole == Spec => []ConfigWhole
<1>1. OutcomeInv => ConfigWhole
  BY DEF OutcomeInv, ConfigInv, ConfigWhole
<1> QED
  BY OutcomeInvariant, <1>1, PTL

\* Truncated kubelet arguments are in the backup until the cleanup.
THEOREM ArgsNeverLost == Spec => []ArgsRecoverable
<1>1. OutcomeInv => ArgsRecoverable
  BY DEF OutcomeInv, ArgsInv
<1> QED
  BY OutcomeInvariant, <1>1, PTL

\* A pod that is through has upgraded its node, whatever attempts died on the way.
THEOREM DoneIsUpgraded == Spec => []DoneMeansUpgraded
<1>1. UpgradeInv /\ OutcomeInv => DoneMeansUpgraded
  BY DEF UpgradeInv, Home, CorednsInv, CorednsSafe, OutcomeInv, ReadyInv, ContainerdReplaced, LoopbackReplaced, KubeadmReplaced,
         KubeVipReplaced, KubectlReplaced, KubeletReplaced, KubeletRestarted, DoneMeansUpgraded,
         Binaries, Programs
<1> QED
  BY OutcomeInvariant, UpgradeInvariant, <1>1, PTL
=============================================================================
