--------------------------- MODULE BootstrapFlow ---------------------------
(***************************************************************************)
(* The Bottlerocket bootstrap host container: Bootstrap() with its lock,   *)
(* user data from Secrets Manager, the static pod hand-over, and the       *)
(* kubeadm and etcdadm flows it runs.  Each command, file operation and    *)
(* wait of the flows is one step that succeeds or ends the process with    *)
(* exit code 1; the host restarts the container while it is enabled, and   *)
(* what earlier runs did to the node stays.                                *)
(*                                                                         *)
(* Abstractions: a manifest is its stage of completion; the three control  *)
(* plane pods are one; the kubernetes.* settings are set or not; a chunk   *)
(* of user data is its number.  The waits are detailed in BootstrapWaits.  *)
(***************************************************************************)
EXTENDS Naturals, Sequences

CONSTANTS RunCmds,    \* the runcmd values of the user data
          MaxChunks,  \* bound on the number of secrets of the user data
          MaxRuns     \* bound on the runs of the container
ASSUME FlowAssumption == MaxChunks \in Nat /\ MaxRuns \in Nat \ {0}

VARIABLES
  userData,  \* runcmd and the conditions the flow depends on
  pc,        \* the step of the program the process is at; 0 after exit(1)
  runs,      \* runs of the container so far
  acquired,  \* does this run believe it has the lock?
  loaded,    \* the chunks of user data this run has read
  marker,    \* does the .ran file exist?
  enabled,   \* is the host container enabled?
  secrets,   \* the chunks still in Secrets Manager
  manifest,  \* the pod manifests in the directory kubeadm or etcdadm writes to
  static,    \* the static pods in the Bottlerocket API
  settings,  \* the kubernetes.* settings that were set
  live,      \* did this run see the static pods answer?
  phases     \* phases that changed the cluster, over all runs

process == <<pc, runs, acquired, loaded, live>>
node    == <<manifest, static, settings, phases>>
vars    == <<userData, process, marker, enabled, secrets, node>>

Pods == {"kube-vip", "control-plane", "etcd"}
Content == {"none", "partial", "written", "patched"}

\* Only joinLocalEtcd cuts a manifest short, only the one of kube-vip is patched.
ContentOK(p, c) ==
  /\ c \in Content
  /\ c = "partial" => p = "etcd"
  /\ c = "patched" => p = "kube-vip"

\* runcmd, the number of secrets (0: the user data is local), is there a
\* kube-vip manifest, is kubeadm 1.29 or newer, has the cluster external etcd.
UserData ==
  {u \in [runcmd : RunCmds, chunks : 0..MaxChunks, kubeVip : BOOLEAN,
          v129 : BOOLEAN, externalEtcd : BOOLEAN] :
     /\ u.kubeVip \/ u.externalEtcd => u.runcmd \in {"ControlPlaneInit", "ControlPlaneJoin"}
     /\ u.v129 => u.runcmd = "ControlPlaneInit"}

-----------------------------------------------------------------------------
(* The flows. *)
If(c, step) == IF c THEN <<step>> ELSE <<>>

\* Mutant: the kube-vip manifest is patched after the pods are enabled.
controlPlaneInitLatePatch(u) ==
  <<"setHostName", "startEbsInit", "version", "certs", "kubeconfig", "controlPlane",
    "etcdLocal", "EnableStaticPods">> \o If(u.v129, "patchKubeVipManifest") \o
  <<"WaitForPods", "GetApiServer", "getEncodedCA", "WaitFor200", "WaitFor200Vip",
    "bootstrapToken", "getBootstrapToken", "setKubernetes", "waitForActiveKubelet",
    "finishKubeadm", "getDNS", "setDNS", "checkEbsInit">>

\* Mutant: the kubelet is configured before the pods it depends on are up.
controlPlaneInitEager(u) ==
  <<"setHostName", "startEbsInit", "version">> \o If(u.v129, "patchKubeVipManifest") \o
  <<"certs", "kubeconfig", "controlPlane", "etcdLocal", "EnableStaticPods",
    "GetApiServer", "getEncodedCA",
    "bootstrapToken", "getBootstrapToken", "setKubernetes", "WaitForPods", "WaitFor200",
    "WaitFor200Vip", "waitForActiveKubelet",
    "finishKubeadm", "getDNS", "setDNS", "checkEbsInit">>

controlPlaneInit(u) ==
  <<"setHostName", "startEbsInit", "version">> \o If(u.v129, "patchKubeVipManifest") \o
  <<"certs", "kubeconfig", "controlPlane", "etcdLocal", "EnableStaticPods", "WaitForPods",
    "GetApiServer", "getEncodedCA", "WaitFor200", "WaitFor200Vip",
    "bootstrapToken", "getBootstrapToken", "setKubernetes", "waitForActiveKubelet",
    "finishKubeadm", "getDNS", "setDNS", "checkEbsInit">>

\* Mutant: the static pods are enabled before the etcd manifest exists.
controlPlaneJoinEarlyPods(u) ==
  <<"setHostName", "startEbsInit", "controlPlane", "kubeletStart", "joinFiles",
    "getDNSFromJoinConfig", "getBootstrapFromJoinConfig", "getEncodedCA", "setKubernetesDNS",
    "waitForActiveKubelet", "isClusterWithExternalEtcd", "EnableStaticPods">> \o
  If(~u.externalEtcd, "joinLocalEtcd") \o
  <<"WaitForPods", "WaitFor200", "WaitFor200Vip", "finishKubeadm", "checkEbsInit">>

controlPlaneJoin(u) ==
  <<"setHostName", "startEbsInit", "controlPlane", "kubeletStart", "joinFiles",
    "getDNSFromJoinConfig", "getBootstrapFromJoinConfig", "getEncodedCA", "setKubernetesDNS",
    "waitForActiveKubelet", "isClusterWithExternalEtcd">> \o
  If(~u.externalEtcd, "joinLocalEtcd") \o
  <<"EnableStaticPods", "WaitForPods", "WaitFor200", "WaitFor200Vip", "finishKubeadm",
    "checkEbsInit">>

workerJoin ==
  <<"setHostName", "kubeletStart", "joinFiles", "getBootstrapFromJoinConfig", "getEncodedCA",
    "getDNSFromJoinConfig", "setKubernetesDNS", "waitForActiveKubelet">>

etcdadmInit ==
  <<"install", "certificates", "snapshot", "configure", "start",
    "EnableStaticPods", "WaitForPods", "health">>

etcdadmJoin ==
  <<"stop", "certificates", "membership", "install", "configure", "start",
    "EnableStaticPods", "WaitForPods", "health">>

\* kubeadm.RunCmd: nothing, successfully, for a runcmd it does not know.
RunCmd(u) ==
  CASE u.runcmd = "ControlPlaneInit" -> controlPlaneInit(u)
    [] u.runcmd = "ControlPlaneJoin" -> controlPlaneJoin(u)
    [] u.runcmd = "WorkerJoin"  -> workerJoin
    [] OTHER -> <<>>

\* etcdadm.RunCmd: an error for a command without its words.
parseCmd(u) ==
  CASE u.runcmd = "EtcdadmInit" -> etcdadmInit
    [] u.runcmd = "EtcdadmJoin" -> etcdadmJoin
    [] OTHER -> <<"invalidCommand">>

buildBootstrapper(u) ==
  IF u.runcmd \in {"EtcdadmInit", "EtcdadmJoin", "EtcdadmInvalid"} THEN parseCmd(u) ELSE RunCmd(u)

\* Bootstrap().
Bootstrap(u) ==
  <<"waitForPreReqs", "acquireLock", "userData", "InitializeDirectories", "WriteUserDataFiles">>
  \o buildBootstrapper(u) \o <<"DisableBootstrapContainer">>

\* Steps that only succeed or fail, as far as this model goes.
Plain == {"waitForPreReqs", "InitializeDirectories", "setHostName", "startEbsInit", "version",
          "certs", "kubeconfig", "GetApiServer", "getEncodedCA", "WaitFor200", "WaitFor200Vip",
          "getBootstrapToken", "waitForActiveKubelet", "getDNS", "checkEbsInit", "kubeletStart",
          "joinFiles", "getDNSFromJoinConfig", "getBootstrapFromJoinConfig",
          "isClusterWithExternalEtcd", "install", "certificates", "snapshot", "configure",
          "stop", "health"}

program  == Bootstrap(userData)
Running  == pc \in 1..Len(program)
Exit0    == pc = Len(program) + 1
At(step) == Running /\ program[pc] = step
Advance  == pc' = pc + 1 /\ UNCHANGED <<userData, runs>>

TypeOK ==
  /\ userData \in UserData
  /\ pc \in 0..(Len(program) + 1)
  /\ runs \in 1..MaxRuns
  /\ acquired \in BOOLEAN
  /\ loaded \in Seq(0..MaxChunks)
  /\ marker \in BOOLEAN
  /\ enabled \in BOOLEAN
  /\ secrets \subseteq 0..MaxChunks
  /\ manifest \in [Pods -> Content]
  /\ static \in [Pods -> Content]
  /\ \A p \in Pods : ContentOK(p, manifest[p]) /\ ContentOK(p, static[p])
  /\ settings \subseteq {"kubernetes", "dns"}
  /\ live \in BOOLEAN
  /\ phases \subseteq {"token", "finish", "membership"}

Init ==
  /\ userData \in UserData
  /\ pc = 1
  /\ runs = 1
  /\ acquired = FALSE
  /\ loaded = <<>>
  /\ marker = FALSE
  /\ enabled = TRUE
  /\ secrets = {i \in 0..MaxChunks : i < userData.chunks}
  /\ manifest = [p \in Pods |-> "none"]
  /\ static = [p \in Pods |-> "none"]
  /\ settings = {}
  /\ live = FALSE
  /\ phases = {}

-----------------------------------------------------------------------------
(* The steps. *)

\* A step fails and the process calls os.Exit(1), or the process is killed,
\* by the host once the container is disabled or for any other reason.
Exit1 ==
  /\ Running
  /\ pc' = 0
  /\ UNCHANGED <<userData, runs, acquired, loaded, marker, enabled, secrets, live, node>>

\* The kube-vip manifest or the next secret is not there to be read, or the
\* etcdadm command is not one.
ReadFails ==
  /\ \/ At("invalidCommand")
     \/ At("patchKubeVipManifest") /\ manifest["kube-vip"] = "none"
     \/ At("userData") /\ Len(loaded) < userData.chunks /\ Len(loaded) \notin secrets
  /\ Exit1

PlainStep ==
  /\ Running /\ program[pc] \in Plain
  /\ Advance
  /\ UNCHANGED <<acquired, loaded, marker, enabled, secrets, live, node>>

\* Mutant: the container is disabled when the lock is taken.
acquireLockDisables ==
  /\ At("acquireLock")
  /\ marker' = TRUE
  /\ enabled' \in {enabled, FALSE}
  /\ acquired' = ~marker
  /\ Advance
  /\ UNCHANGED <<loaded, secrets, live, node>>

\* If the marker is found, disable the container (errors are ignored), sleep
\* for 100 microseconds and go on; else create it (errors are ignored).  Every
\* error of os.Stat counts as "not found", so a marker may be overlooked.
acquireLock ==
  /\ At("acquireLock")
  /\ \/ /\ marker
        /\ enabled' \in {enabled, FALSE}
        /\ UNCHANGED <<marker, acquired>>
     \/ /\ marker' \in {marker, TRUE}
        /\ acquired' = TRUE
        /\ UNCHANGED enabled
  /\ Advance
  /\ UNCHANGED <<loaded, secrets, live, node>>

\* One turn of the loop of loadUserDataFromSecretsManager: read a chunk and
\* delete it; only the error of the read counts.
loadChunk ==
  /\ At("userData")
  /\ Len(loaded) < userData.chunks
  /\ Len(loaded) \in secrets
  /\ loaded' = Append(loaded, Len(loaded))
  /\ secrets' \in {secrets, secrets \ {Len(loaded)}}
  /\ UNCHANGED <<userData, pc, runs, acquired, marker, enabled, live, node>>

\* Mutant: the data is unpacked after the first chunk.
resolveUserDataEarly ==
  /\ At("userData")
  /\ Len(loaded) >= 1 \/ userData.chunks = 0
  /\ Advance
  /\ UNCHANGED <<acquired, loaded, marker, enabled, secrets, live, node>>

\* All chunks are there (none, if the user data is not remote): gunzip,
\* base64 and yaml decode them.
resolveUserData ==
  /\ At("userData")
  /\ Len(loaded) = userData.chunks
  /\ Advance
  /\ UNCHANGED <<acquired, loaded, marker, enabled, secrets, live, node>>

\* The kube-vip manifest, if any, is one of the files of the user data.
WriteUserDataFiles ==
  /\ At("WriteUserDataFiles")
  /\ manifest' = [manifest EXCEPT !["kube-vip"] = IF userData.kubeVip THEN "written" ELSE @]
  /\ Advance
  /\ UNCHANGED <<acquired, loaded, marker, enabled, secrets, live, static, settings, phases>>

\* Mutant: every manifest of the directory is patched.
patchAllManifests ==
  /\ At("patchKubeVipManifest")
  /\ manifest["kube-vip"] # "none"
  /\ manifest' = [p \in Pods |-> IF manifest[p] = "none" THEN "none" ELSE "patched"]
  /\ Advance
  /\ UNCHANGED <<acquired, loaded, marker, enabled, secrets, live, static, settings, phases>>

patchKubeVipManifest ==
  /\ At("patchKubeVipManifest")
  /\ manifest["kube-vip"] # "none"
  /\ manifest' = [manifest EXCEPT !["kube-vip"] = "patched"]
  /\ Advance
  /\ UNCHANGED <<acquired, loaded, marker, enabled, secrets, live, static, settings, phases>>

\* kubeadm and etcdadm phases that write manifests; joinLocalEtcd kills
\* kubeadm as soon as the file exists.
writeManifest ==
  /\ \/ /\ At("controlPlane")
        /\ manifest' = [manifest EXCEPT !["control-plane"] = "written"]
     \/ /\ At("etcdLocal")
        /\ manifest' = [manifest EXCEPT !["etcd"] = IF userData.externalEtcd THEN @ ELSE "written"]
     \/ /\ At("joinLocalEtcd")
        /\ \E c \in {"partial", "written"} : manifest' = [manifest EXCEPT !["etcd"] = c]
     \/ /\ At("start")
        /\ manifest' = [manifest EXCEPT !["etcd"] = "written"]
  /\ Advance
  /\ UNCHANGED <<acquired, loaded, marker, enabled, secrets, live, static, settings, phases>>

\* Set every manifest of the directory, in the order of ReadDir.
EnableStaticPods ==
  /\ At("EnableStaticPods")
  /\ static' = [p \in Pods |-> IF manifest[p] # "none" THEN manifest[p] ELSE static[p]]
  /\ Advance
  /\ UNCHANGED <<acquired, loaded, marker, enabled, secrets, live, manifest, settings, phases>>

\* It fails after some of them.
EnableSomeStaticPods ==
  /\ At("EnableStaticPods")
  /\ \E some \in SUBSET {p \in Pods : manifest[p] # "none"} :
       static' = [p \in Pods |-> IF p \in some THEN manifest[p] ELSE static[p]]
  /\ pc' = 0
  /\ UNCHANGED <<userData, runs, acquired, loaded, marker, enabled, secrets, live, manifest,
                 settings, phases>>

WaitForPods ==
  /\ At("WaitForPods")
  /\ live' = TRUE
  /\ Advance
  /\ UNCHANGED <<acquired, loaded, marker, enabled, secrets, node>>

\* Phases that change the cluster.
clusterPhase ==
  /\ \/ At("bootstrapToken") /\ phases' = phases \cup {"token"}
     \/ At("finishKubeadm")  /\ phases' = phases \cup {"finish"}
     \/ At("membership")     /\ phases' = phases \cup {"membership"}
  /\ Advance
  /\ UNCHANGED <<acquired, loaded, marker, enabled, secrets, live, manifest, static, settings>>

\* apiclient set.
apiclientSet ==
  /\ \/ At("setKubernetes")    /\ settings' = settings \cup {"kubernetes"}
     \/ At("setKubernetesDNS") /\ settings' = {"kubernetes", "dns"}
     \/ At("setDNS")           /\ settings' = settings \cup {"dns"}
  /\ Advance
  /\ UNCHANGED <<acquired, loaded, marker, enabled, secrets, live, manifest, static, phases>>

\* The setting takes effect.  What follows is exitSuccess, or, if apiclient
\* still fails or the host stops the container first, Exit1.
DisableBootstrapContainer ==
  /\ At("DisableBootstrapContainer")
  /\ enabled' = FALSE
  /\ UNCHANGED <<userData, process, marker, secrets, node>>

\* apiclient has returned without an error: os.Exit(0).
exitSuccess ==
  /\ At("DisableBootstrapContainer")
  /\ ~enabled
  /\ Advance
  /\ UNCHANGED <<acquired, loaded, marker, enabled, secrets, live, node>>

Step == \/ PlainStep \/ acquireLock \/ loadChunk \/ resolveUserData \/ WriteUserDataFiles
        \/ patchKubeVipManifest \/ writeManifest \/ EnableStaticPods \/ EnableSomeStaticPods
        \/ WaitForPods \/ clusterPhase \/ apiclientSet \/ DisableBootstrapContainer \/ exitSuccess
        \/ ReadFails

-----------------------------------------------------------------------------
(* The process and the host. *)

\* The host restarts a container that is still enabled.
Restart ==
  /\ pc = 0
  /\ enabled
  /\ runs < MaxRuns
  /\ runs' = runs + 1
  /\ pc' = 1
  /\ acquired' = FALSE
  /\ loaded' = <<>>
  /\ live' = FALSE
  /\ UNCHANGED <<userData, marker, enabled, secrets, node>>

Next == Step \/ Exit1 \/ Restart
Spec == Init /\ [][Next]_vars

-----------------------------------------------------------------------------
ControlPlane == {"ControlPlaneInit", "ControlPlaneJoin"}
Kubeadm      == ControlPlane \cup {"WorkerJoin"}

Bootstrapped ==
  /\ userData.runcmd # "EtcdadmInvalid"
  /\ userData.runcmd \in Kubeadm => settings = {"kubernetes", "dns"}
  /\ userData.runcmd \in ControlPlane => "finish" \in phases
  /\ userData.runcmd = "EtcdadmJoin" => "membership" \in phases

Promise == INSTANCE NodeBootstrap WITH
  process   <- IF pc = 0 THEN "failed" ELSE IF Exit0 THEN "succeeded" ELSE "running",
  container <- IF enabled THEN "enabled" ELSE "disabled",
  progress  <- IF Bootstrapped THEN "bootstrapped" ELSE "pending",
  attempt   <- runs

\* Bootstrap() keeps the promise of NodeBootstrap over all restarts: it exits
\* with 0 only on a node that is configured and joined, with the container
\* disabled, and the first run gives up the container (and with it every
\* retry) only on such a node, also when the process dies between the setting
\* and its exit.
ImplementsNodeBootstrap == Promise!Spec

\* When the process reports success the static pods the host runs are the
\* manifests kubeadm or etcdadm wrote last, the etcd one of a joining control
\* plane included, whatever earlier runs left behind.
PodsMatchManifests ==
  Exit0 => \A p \in Pods : manifest[p] # "none" => static[p] = manifest[p]

\* From Kubernetes 1.29 on, the kube-vip pod of the first control plane never
\* runs with the unpatched manifest, whose admin.conf has no permissions yet.
KubeVipPatched ==
  userData.runcmd = "ControlPlaneInit" /\ userData.v129 => static["kube-vip"] \in {"none", "patched"}

\* controlPlaneInit hands the kubelet to the cluster only after its own static
\* pods answered in this run and a bootstrap token exists.
KubeletJoinsLiveCluster ==
  [][(userData.runcmd = "ControlPlaneInit" /\ "kubernetes" \in settings' \ settings)
     => live /\ "token" \in phases]_vars

\* The flow starts with the whole user data: all chunks, each once, in order.
UserDataComplete ==
  (Running /\ pc > 3) \/ Exit0 => loaded = [i \in 1..userData.chunks |-> i - 1]

\* "Cannot acquire lock, another instance of bootstrap is already running": a
\* run that did not acquire the lock does not bootstrap the node.
LockExcludes == Running /\ pc > 2 => acquired
=============================================================================
