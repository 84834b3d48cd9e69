---------------------------- MODULE NodeUpgrader ----------------------------
(***************************************************************************)
(* upgrade.sh: the in-place upgrade of one node, run as the containers of  *)
(* a pod that the node's own kubelet manages.  Each container runs one     *)
(* function of the script under errexit and is started again, from its     *)
(* first command, when a command fails or the node reboots: every command  *)
(* has to cope with what an earlier attempt left behind.                   *)
(*                                                                         *)
(* Abstractions: a binary or manifest is old, new or cut off by a dying    *)
(* cp, and a command that runs a cut binary fails; a config file is the    *)
(* documents in it; a command that only reports is left out.               *)
(***************************************************************************)
EXTENDS Naturals

CONSTANTS Roles,      \* "first" and "rest" control planes, "worker"
          MaxDeaths   \* bound on failed commands and reboots
ASSUME UpgraderAssumption == /\ Roles \subseteq {"first", "rest", "worker"}
                             /\ MaxDeaths \in Nat

VARIABLES
  role,          \* which kubeadm function the pod runs
  etcdUpdate,    \* was an etcd version given?
  v126,          \* is the new version v1.26 or later?
  container,     \* the container the pod is at
  pc,            \* the command to run next; "dead" if the script died, "done"
  copying,       \* is a file being written?
  deaths,        \* failed commands and reboots so far
  bin,           \* the programs of the node, /usr/bin/<binary> and others
  backup,        \* <binary>.bk
  cut,           \* binaries whose backup copy was cut off (history)
  clusterDocs,   \* cluster configurations in kubeadm-config.yaml
  kubeletDocs,   \* kubelet configurations in it
  coredns,       \* is the coredns ConfigMap in the cluster?
  saved,         \* coredns.yaml, its backup
  kubeVip,       \* the kube-vip manifest
  kubeVipBackup, \* kube-vip.backup.yaml
  kubelet,       \* the binary the kubelet service runs, or "stopped"
  conf,          \* /etc/sysconfig/kubelet
  extraargs,     \* does the directory extraargs exist?
  confBackup     \* the backup of /etc/sysconfig/kubelet in it

pod   == <<role, etcdUpdate, v126, container, deaths>>
bins  == <<bin, backup, cut>>
vip   == <<kubeVip, kubeVipBackup>>
dns   == <<clusterDocs, kubeletDocs, coredns, saved, vip>>
args  == <<conf, extraargs, confBackup>>
vars  == <<role, etcdUpdate, v126, container, pc, copying, deaths, bin, backup, cut,
           clusterDocs, kubeletDocs, coredns, saved, kubeVip, kubeVipBackup, kubelet,
           conf, extraargs, confBackup>>

Containers == {"runtime", "kubeadm", "kubelet", "cleanup"}
Binaries == {"kubeadm", "kubectl", "kubelet"}
Programs == Binaries \cup {"containerd", "loopback"}

\* What the pod's containers run first, in the order the pod has them.
Start == [runtime |-> "upgrade_containerd", kubeadm |-> "backup kubeadm",
          kubelet |-> "backup kubectl", cleanup |-> "print_status"]
After == [runtime |-> "kubeadm", kubeadm |-> "kubelet", kubelet |-> "cleanup"]

TypeOK ==
  /\ role \in Roles /\ etcdUpdate \in BOOLEAN /\ v126 \in BOOLEAN
  /\ container \in Containers
  /\ copying \in BOOLEAN
  /\ deaths \in 0..MaxDeaths
  /\ bin \in [Programs -> {"old", "cut", "new"}]
  /\ backup \in [Binaries -> {"none", "cut", "old", "new"}]
  /\ cut \subseteq Binaries
  /\ clusterDocs \in Nat /\ kubeletDocs \in Nat
  /\ coredns \in BOOLEAN
  /\ saved \in {"none", "cut", "complete"}
  /\ kubeVip \in {"old", "cut", "new"}
  /\ kubeVipBackup \in {"none", "old", "cut", "new"}
  /\ kubelet \in {"stopped", "old", "cut", "new"}
  /\ conf \in {"gate", "empty", "ok"}
  /\ extraargs \in BOOLEAN
  /\ confBackup \in {"none", "cut", "gate", "empty", "ok"}

Init ==
  /\ role \in Roles /\ etcdUpdate \in BOOLEAN /\ v126 \in BOOLEAN
  /\ container = "runtime" /\ pc = Start.runtime
  /\ copying = FALSE /\ deaths = 0
  /\ bin = [p \in Programs |-> "old"]
  /\ backup = [b \in Binaries |-> "none"]
  /\ cut = {}
  /\ clusterDocs = 0 /\ kubeletDocs = 0
  /\ coredns = TRUE /\ saved = "none"
  /\ kubeVip = "old" /\ kubeVipBackup = "none" /\ kubelet = "old"
  /\ conf \in {"gate", "ok"}
  /\ extraargs = FALSE /\ confBackup = "none"

----------------------------------------------------------------------------
(* Writing a file takes two steps: until the second it is cut off.         *)

Begin == ~copying /\ copying' = TRUE /\ UNCHANGED pc
Finish(next) == copying /\ copying' = FALSE /\ pc' = next
Goto(next) == pc' = next /\ UNCHANGED copying

\* The two commands of backup_and_replace, for each binary.
Backup == [kubeadm |-> "backup kubeadm", kubectl |-> "backup kubectl",
           kubelet |-> "backup kubelet"]
Copy   == [kubeadm |-> "copy kubeadm", kubectl |-> "copy kubectl",
           kubelet |-> "copy kubelet"]

\* What follows the replacement of a binary in the function that does it.
AfterCopy(b) == CASE b = "kubeadm" -> (CASE role = "first" -> "write config"
                                         [] role = "rest" -> "save coredns"
                                         [] role = "worker" -> "kubeadm upgrade")
                  [] b = "kubectl" -> "stop kubelet"
                  [] b = "kubelet" -> "update_kubelet_extra_args"

\* Mutant: a backup that exists is written again.
backup_file_always(b) ==
  /\ pc = Backup[b]
  /\ \/ /\ ~copying /\ FALSE
        /\ Goto(Copy[b])
        /\ UNCHANGED backup
     \/ /\ Begin
        /\ backup' = [backup EXCEPT ![b] = "cut"]
     \/ /\ Finish(Copy[b])
        /\ backup' = [backup EXCEPT ![b] = bin[b]]
  /\ UNCHANGED <<pod, bin, cut, dns, kubelet, args>>

\* Mutant: the original is moved, not copied.
backup_file_moves(b) ==
  /\ pc = Backup[b]
  /\ Goto(Copy[b])
  /\ backup' = [backup EXCEPT ![b] = bin[b]]
  /\ bin' = [bin EXCEPT ![b] = "none"]
  /\ UNCHANGED <<pod, cut, dns, kubelet, args>>

\* Mutant: a binary with a backup counts as replaced.
backup_file_skips(b) ==
  /\ pc = Backup[b]
  /\ \/ /\ ~copying /\ backup[b] # "none"
        /\ Goto(AfterCopy(b))
        /\ UNCHANGED backup
     \/ /\ backup[b] = "none"
        /\ Begin
        /\ backup' = [backup EXCEPT ![b] = "cut"]
     \/ /\ Finish(Copy[b])
        /\ backup' = [backup EXCEPT ![b] = bin[b]]
  /\ UNCHANGED <<pod, bin, cut, dns, kubelet, args>>

\* backup_file: a backup that exists, whatever is in it, is left alone.
backup_file(b) ==
  /\ pc = Backup[b]
  /\ \/ /\ ~copying /\ backup[b] # "none"
        /\ Goto(Copy[b])
        /\ UNCHANGED backup
     \/ /\ backup[b] = "none"
        /\ Begin
        /\ backup' = [backup EXCEPT ![b] = "cut"]
     \/ /\ Finish(Copy[b])
        /\ backup' = [backup EXCEPT ![b] = bin[b]]
  /\ UNCHANGED <<pod, bin, cut, dns, kubelet, args>>

\* backup_and_replace: the copy that follows the backup.
replace(b) ==
  /\ pc = Copy[b]
  /\ \/ Begin /\ bin' = [bin EXCEPT ![b] = "cut"]
     \/ Finish(AfterCopy(b)) /\ bin' = [bin EXCEPT ![b] = "new"]
  /\ UNCHANGED <<pod, backup, cut, dns, kubelet, args>>

----------------------------------------------------------------------------
(* upgrade_containerd and cni_plugins overwrite files without a backup.    *)
(* Both first run the program they replace, which a cut one does not.      *)

\* cp -rf: the program is one of several files, whichever is being written.
cp_rf(p, next) ==
  \/ /\ bin[p] # "cut"
     /\ Begin
     /\ \E content \in {bin[p], "cut", "new"} : bin' = [bin EXCEPT ![p] = content]
  \/ /\ Finish(next)
     /\ bin' = [bin EXCEPT ![p] = "new"]

upgrade_containerd ==
  /\ pc = "upgrade_containerd"
  /\ cp_rf("containerd", "cni_plugins")
  /\ UNCHANGED <<pod, backup, cut, dns, kubelet, args>>

cni_plugins ==
  /\ pc = "cni_plugins"
  /\ cp_rf("loopback", "exit")
  /\ UNCHANGED <<pod, backup, cut, dns, kubelet, args>>

----------------------------------------------------------------------------
(* kubeadm_in_first_cp, kubeadm_in_rest_cp and kubeadm_in_worker.          *)

\* A binary that a dying cp cut off does not run.
Runs(b) == bin[b] # "cut"

\* Mutant: the config is appended to.
write_config_appends ==
  /\ pc = "write config" /\ Runs("kubectl")
  /\ clusterDocs' = IF etcdUpdate THEN clusterDocs + 1 ELSE clusterDocs
  /\ UNCHANGED kubeletDocs
  /\ Goto("append kubelet config")
  /\ UNCHANGED <<pod, bins, coredns, saved, vip, kubelet, args>>

\* With an etcd version the config is written from the cluster's, without one
\* whatever an earlier attempt left in the file stays.
write_config ==
  /\ pc = "write config" /\ Runs("kubectl")
  /\ IF etcdUpdate THEN clusterDocs' = 1 /\ kubeletDocs' = 0
                   ELSE UNCHANGED <<clusterDocs, kubeletDocs>>
  /\ Goto("append kubelet config")
  /\ UNCHANGED <<pod, bins, coredns, saved, vip, kubelet, args>>

append_kubelet_config ==
  /\ pc = "append kubelet config" /\ Runs("kubectl")
  /\ kubeletDocs' = kubeletDocs + 1
  /\ UNCHANGED clusterDocs
  /\ Goto("save coredns")
  /\ UNCHANGED <<pod, bins, coredns, saved, vip, kubelet, args>>

\* Mutant: an absent ConfigMap is saved as an empty file.
save_coredns_absent ==
  /\ pc = "save coredns" /\ Runs("kubectl")
  /\ \/ ~copying /\ ~coredns /\ Goto("delete coredns") /\ saved' = "cut"
     \/ coredns /\ Begin /\ saved' = "cut"
     \/ Finish("delete coredns") /\ saved' = "complete"
  /\ UNCHANGED <<pod, bins, clusterDocs, kubeletDocs, coredns, vip, kubelet, args>>

\* backup_and_delete_coredns_config: an absent ConfigMap leaves the backup alone.
save_coredns ==
  /\ pc = "save coredns" /\ Runs("kubectl")
  /\ \/ ~copying /\ ~coredns /\ Goto("delete coredns") /\ UNCHANGED saved
     \/ coredns /\ Begin /\ saved' = "cut"
     \/ Finish("delete coredns") /\ saved' = "complete"
  /\ UNCHANGED <<pod, bins, clusterDocs, kubeletDocs, coredns, vip, kubelet, args>>

\* Mutant: a ConfigMap is kept if kubeadm was upgraded by an earlier attempt.
delete_coredns_skipped ==
  /\ pc = "delete coredns" /\ Runs("kubectl")
  /\ coredns' = (coredns /\ kubeVip = "new")
  /\ Goto("kubeadm upgrade")
  /\ UNCHANGED <<pod, bins, clusterDocs, kubeletDocs, saved, vip, kubelet, args>>

delete_coredns ==
  /\ pc = "delete coredns" /\ Runs("kubectl")
  /\ coredns' = FALSE
  /\ Goto("kubeadm upgrade")
  /\ UNCHANGED <<pod, bins, clusterDocs, kubeletDocs, saved, vip, kubelet, args>>

\* kubeadm upgrade apply or node; nothing follows it on a worker.
kubeadm_upgrade ==
  /\ pc = "kubeadm upgrade"
  /\ Goto(IF role = "worker" THEN "exit" ELSE "backup kube-vip")
  /\ UNCHANGED <<pod, bins, dns, kubelet, args>>

\* The manifest is copied away whatever an earlier attempt made of it.
backup_kube_vip ==
  /\ pc = "backup kube-vip"
  /\ \/ Begin /\ kubeVipBackup' = "cut"
     \/ Finish("replace kube-vip") /\ kubeVipBackup' = kubeVip
  /\ UNCHANGED <<pod, bins, clusterDocs, kubeletDocs, coredns, saved, kubeVip, kubelet, args>>

replace_kube_vip ==
  /\ pc = "replace kube-vip"
  /\ \/ Begin /\ kubeVip' = "cut"
     \/ Finish("restore coredns") /\ kubeVip' = "new"
  /\ UNCHANGED <<pod, bins, clusterDocs, kubeletDocs, coredns, saved, kubeVipBackup, kubelet, args>>

\* kubectl create fails if the ConfigMap exists or its file is not whole.
restore_coredns_config ==
  /\ pc = "restore coredns" /\ Runs("kubectl")
  /\ ~coredns /\ saved = "complete"
  /\ coredns' = TRUE
  /\ Goto("exit")
  /\ UNCHANGED <<pod, bins, clusterDocs, kubeletDocs, saved, vip, kubelet, args>>

----------------------------------------------------------------------------
(* kubelet_and_kubectl, then print_status_and_cleanup.                     *)

stop_kubelet ==
  /\ pc = "stop kubelet"
  /\ kubelet' = "stopped"
  /\ Goto(Backup.kubelet)
  /\ UNCHANGED <<pod, bins, dns, args>>

\* Only v1.26 and later look for the feature gate.
update_kubelet_extra_args ==
  /\ pc = "update_kubelet_extra_args"
  /\ Goto(IF v126 /\ conf = "gate" THEN "mkdir" ELSE "restart kubelet")
  /\ UNCHANGED <<pod, bins, dns, kubelet, args>>

\* Mutant: the configuration is written without a backup.
mkdir_no_backup ==
  /\ pc = "mkdir"
  /\ ~extraargs
  /\ extraargs' = TRUE
  /\ Goto("write conf")
  /\ UNCHANGED <<pod, bins, dns, kubelet, conf, confBackup>>

mkdir ==
  /\ pc = "mkdir"
  /\ ~extraargs
  /\ extraargs' = TRUE
  /\ Goto("backup conf")
  /\ UNCHANGED <<pod, bins, dns, kubelet, conf, confBackup>>

backup_conf ==
  /\ pc = "backup conf"
  /\ \/ confBackup = "none" /\ Begin /\ confBackup' = "cut"
     \/ Finish("write conf") /\ confBackup' = conf
  /\ UNCHANGED <<pod, bins, dns, kubelet, conf, extraargs>>

write_conf ==
  /\ pc = "write conf"
  /\ \/ Begin /\ conf' = "empty"
     \/ Finish("restart kubelet") /\ conf' = "ok"
  /\ UNCHANGED <<pod, bins, dns, kubelet, extraargs, confBackup>>

restart_kubelet ==
  /\ pc = "restart kubelet"
  /\ kubelet' = bin["kubelet"]
  /\ Goto("exit")
  /\ UNCHANGED <<pod, bins, dns, args>>

\* print_status fails unless the kubelet runs; the cleanup deletes every backup.
print_status_and_cleanup ==
  /\ pc = "print_status"
  /\ kubelet # "stopped"
  /\ Goto("done")
  /\ backup' = [b \in Binaries |-> "none"]
  /\ saved' = "none" /\ confBackup' = "none" /\ extraargs' = FALSE
  /\ clusterDocs' = 0 /\ kubeletDocs' = 0 /\ kubeVipBackup' = "none"
  /\ UNCHANGED <<pod, bin, cut, coredns, kubeVip, kubelet, conf>>

----------------------------------------------------------------------------
(* The pod goes on when a container ends well; or the script dies because  *)
(* a command fails, the container is killed or the node goes down.         *)

Exit ==
  /\ pc = "exit"
  /\ container' = After[container] /\ pc' = Start[After[container]]
  /\ UNCHANGED <<role, etcdUpdate, v126, copying, deaths, bins, dns, kubelet, args>>

Die ==
  /\ pc' = "dead" /\ copying' = FALSE
  /\ cut' = cut \cup {b \in Binaries : copying /\ pc = Backup[b]}
  /\ UNCHANGED <<role, etcdUpdate, v126, bin, backup, dns, args>>

Fails ==
  /\ pc \notin {"dead", "done"} /\ deaths < MaxDeaths
  /\ deaths' = deaths + 1
  /\ Die
  /\ UNCHANGED <<container, kubelet>>

\* mkdir without -p fails on a directory that an earlier attempt made.
MkdirFails ==
  /\ pc = "mkdir" /\ extraargs
  /\ Die
  /\ UNCHANGED <<deaths, container, kubelet>>

\* A command fails that runs a program which an earlier attempt left cut off.
CutProgramFails ==
  /\ ~copying
  /\ \/ pc = "upgrade_containerd" /\ ~Runs("containerd")
     \/ pc = "cni_plugins" /\ ~Runs("loopback")
     \/ /\ pc \in {"write config", "append kubelet config", "save coredns", "delete coredns",
                   "restore coredns"}
        /\ ~Runs("kubectl")
  /\ Die
  /\ UNCHANGED <<deaths, container, kubelet>>

\* A reboot starts the kubelet again, if its binary is whole; the pod resumes
\* where it was or, its sandbox lost, from its first container.
Reboot ==
  /\ pc # "done" /\ deaths < MaxDeaths
  /\ deaths' = deaths + 1
  /\ Die
  /\ container' \in {container, "runtime"}
  /\ kubelet' = IF bin["kubelet"] = "cut" THEN "stopped" ELSE bin["kubelet"]

\* It is the node's kubelet that starts a dead container again.
Restart ==
  /\ pc = "dead" /\ kubelet # "stopped"
  /\ pc' = Start[container]
  /\ UNCHANGED <<copying, pod, bins, dns, kubelet, args>>

Script ==
  \/ \E b \in Binaries : backup_file(b) \/ replace(b)
  \/ upgrade_containerd \/ cni_plugins
  \/ write_config \/ append_kubelet_config \/ save_coredns \/ delete_coredns
  \/ kubeadm_upgrade \/ backup_kube_vip \/ replace_kube_vip \/ restore_coredns_config
  \/ stop_kubelet \/ update_kubelet_extra_args \/ mkdir \/ backup_conf \/ write_conf
  \/ restart_kubelet \/ print_status_and_cleanup \/ Exit \/ MkdirFails
  \/ CutProgramFails

Next == Script \/ Restart \/ Fails \/ Reboot

\* The script runs on while it lives, and a kubelet that runs restarts its containers.
Spec == Init /\ [][Next]_vars /\ WF_vars(Script) /\ WF_vars(Restart)

----------------------------------------------------------------------------
(* Properties.                                                             *)

\* The coredns ConfigMap is never lost: it is missing from the cluster only
\* until a control plane's kubeadm container is through, and then its whole
\* text is in the backup that restore_coredns_config creates it from, whatever
\* attempts died in between.
CorednsSafe ==
  coredns \/ /\ saved = "complete" /\ role # "worker"
             /\ container \in {"runtime", "kubeadm"}

\* kubeadm never meets the ConfigMap on a control plane: it is gone in every
\* attempt, also one that follows an attempt that had restored it already.
KubeadmSkipsCoredns ==
  pc = "kubeadm upgrade" /\ role # "worker" => ~coredns

\* The rollback path: until the cleanup, a binary that was touched has the
\* original in its backup, unless the backup copy itself was cut off; no retry
\* replaces the backup by the new binary.
RollbackPath ==
  pc # "done" => \A b \in Binaries \ cut : bin[b] # "old" => backup[b] = "old"

\* The config for kubeadm upgrade apply has the cluster's and the kubelet's
\* document exactly once, however often the first control plane is retried,
\* when an etcd version is given.
ConfigWhole ==
  pc = "kubeadm upgrade" /\ role = "first" /\ etcdUpdate
    => clusterDocs = 1 /\ kubeletDocs = 1

\* Until the cleanup, kubelet arguments that a dying write truncated are still
\* in the backup below extraargs.
ArgsRecoverable ==
  conf = "empty" /\ pc # "done" => confBackup = "gate"

\* A pod that is through has upgraded the node: every program is new, the kubelet
\* runs from the new one, and the control plane has its ConfigMap and kube-vip.
DoneMeansUpgraded ==
  pc = "done" => /\ kubelet = "new" /\ \A p \in Programs : bin[p] = "new"
                 /\ coredns /\ (role # "worker" => kubeVip = "new")

\* A program that the container runs before, or without, replacing it is cut off:
\* every further attempt fails at the same command.
StuckOnCutProgram ==
  \/ container = "runtime" /\ ~(Runs("containerd") /\ Runs("loopback"))
  \/ container = "kubeadm" /\ role # "worker" /\ ~Runs("kubectl")

\* The upgrade ends: retries bring it to its end, unless the script died while it
\* wrote a program that the next attempt has to run, or dies while the kubelet is
\* down, when nobody is left to start the container again.
Converges ==
  <>[](pc = "done" \/ (pc = "dead" /\ kubelet = "stopped") \/ StuckOnCutProgram)

\* "we should remove this feature gate if it exists on nodes running k8s v1.26
\* and above": an attempt that finds the gate can make the directory it needs.
GateRemovable ==
  pc = "mkdir" => ~extraargs
=============================================================================
