------------------------ MODULE BootstrapFlowProofs ------------------------
(***************************************************************************)
(* Safety of the bootstrap host container for any number of runs and of    *)
(* secrets, and the proof that its flows keep the promise of               *)
(* NodeBootstrap.                                                          *)
(***************************************************************************)
EXTENDS BootstrapFlow, TLAPS

-----------------------------------------------------------------------------
(* The programs: what stands in them, and in which order. *)

\* b has the step s.
Has(b, s) == \E i \in 1..Len(b) : b[i] = s

\* Wherever t stands in b, s stands before it.
Precedes(b, s, t) == \A j \in 1..Len(b) : b[j] = t => \E i \in 1..(j - 1) : b[i] = s

\* None of the steps T comes after s in b.
NoneAfter(b, s, T) == \A i \in 1..Len(b) : \A j \in 1..Len(b) : i < j /\ b[i] = s => b[j] \notin T

\* The steps that write manifests, and those of them that are not in every flow.
FlowWriters == {"patchKubeVipManifest", "controlPlane", "etcdLocal", "joinLocalEtcd", "start"}
Writers     == FlowWriters \cup {"WriteUserDataFiles"}

\* The runcmds whose flow hands static pods to the host.
WithPods == ControlPlane \cup {"EtcdadmInit", "EtcdadmJoin"}

\* The common frame of all flows.
Framed(b) ==
  /\ Len(b) \in Nat /\ Len(b) > 5
  /\ \A i \in 1..Len(b) :
       /\ b[i] = "acquireLock" <=> i = 2
       /\ b[i] = "userData" <=> i = 3
       /\ b[i] = "WriteUserDataFiles" <=> i = 5
       /\ b[i] = "DisableBootstrapContainer" <=> i = Len(b)

\* What the kubelet, the host and the cluster rely on in the flow b of u.
Ordered(b, u) ==
  /\ Framed(b)
  /\ NoneAfter(b, "EnableStaticPods", Writers)
  /\ NoneAfter(b, "patchKubeVipManifest", {"WriteUserDataFiles"})
  /\ u.runcmd \in WithPods => Has(b, "EnableStaticPods")
  /\ u.runcmd \notin WithPods => \A i \in 1..Len(b) : b[i] \notin FlowWriters
  /\ u.runcmd = "ControlPlaneInit" =>
       /\ Has(b, "setKubernetes") /\ Has(b, "setDNS") /\ Has(b, "finishKubeadm")
       /\ ~Has(b, "setKubernetesDNS")
       /\ Precedes(b, "WaitForPods", "setKubernetes")
       /\ Precedes(b, "bootstrapToken", "setKubernetes")
       /\ u.v129 => Precedes(b, "patchKubeVipManifest", "EnableStaticPods")
  /\ u.runcmd = "ControlPlaneJoin" => Has(b, "setKubernetesDNS") /\ Has(b, "finishKubeadm")
  /\ u.runcmd = "WorkerJoin" => Has(b, "setKubernetesDNS")
  /\ u.runcmd = "EtcdadmJoin" => Has(b, "membership")
  /\ u.runcmd = "EtcdadmInvalid" => Has(b, "invalidCommand")

\* s stands in b exactly once, as the step n.
Only(b, s, n) == n \in 1..Len(b) /\ \A i \in 1..Len(b) : b[i] = s <=> i = n

\* The flow of controlPlaneInit, with and without the kube-vip patch.
LEMMA InitOrdered ==
  ASSUME NEW u \in UserData, u.runcmd = "ControlPlaneInit"
  PROVE  Ordered(Bootstrap(u), u)
<1> DEFINE b == Bootstrap(u)
           d == IF u.v129 THEN 1 ELSE 0
<1>0. u.v129 \in BOOLEAN
  BY DEF UserData
<1>1. /\ Len(b) = 27 + d /\ Only(b, "acquireLock", 2) /\ Only(b, "userData", 3)
      /\ Only(b, "WriteUserDataFiles", 5) /\ Only(b, "DisableBootstrapContainer", 27 + d)
  <2>1. CASE u.v129
    BY <2>1 DEF Bootstrap, buildBootstrapper, RunCmd, controlPlaneInit, If, Only
  <2>2. CASE ~u.v129
    BY <2>2 DEF Bootstrap, buildBootstrapper, RunCmd, controlPlaneInit, If, Only
  <2>3. QED
    BY <2>1, <2>2
<1>2. /\ Only(b, "controlPlane", 11 + d) /\ Only(b, "etcdLocal", 12 + d)
      /\ Only(b, "EnableStaticPods", 13 + d) /\ Only(b, "WaitForPods", 14 + d)
  <2>1. CASE u.v129
    BY <2>1 DEF Bootstrap, buildBootstrapper, RunCmd, controlPlaneInit, If, Only
  <2>2. CASE ~u.v129
    BY <2>2 DEF Bootstrap, buildBootstrapper, RunCmd, controlPlaneInit, If, Only
  <2>3. QED
    BY <2>1, <2>2
<1>3. /\ Only(b, "bootstrapToken", 19 + d) /\ Only(b, "setKubernetes", 21 + d)
      /\ Only(b, "finishKubeadm", 23 + d) /\ Only(b, "setDNS", 25 + d)
  <2>1. CASE u.v129
    BY <2>1 DEF Bootstrap, buildBootstrapper, RunCmd, controlPlaneInit, If, Only
  <2>2. CASE ~u.v129
    BY <2>2 DEF Bootstrap, buildBootstrapper, RunCmd, controlPlaneInit, If, Only
  <2>3. QED
    BY <2>1, <2>2
<1>4. /\ (IF u.v129 THEN Only(b, "patchKubeVipManifest", 9) ELSE ~Has(b, "patchKubeVipManifest"))
      /\ ~Has(b, "joinLocalEtcd") /\ ~Has(b, "start") /\ ~Has(b, "setKubernetesDNS")
  <2>1. CASE u.v129
    BY <2>1 DEF Bootstrap, buildBootstrapper, RunCmd, controlPlaneInit, If, Has, Only
  <2>2. CASE ~u.v129
    BY <2>2 DEF Bootstrap, buildBootstrapper, RunCmd, controlPlaneInit, If, Has, Only
  <2>3. QED
    BY <2>1, <2>2
<1> HIDE DEF b
<1>5. Framed(b)
  BY <1>0, <1>1 DEF Framed, Only
<1>6. NoneAfter(b, "EnableStaticPods", Writers)
  BY <1>0, <1>1, <1>2, <1>4 DEF NoneAfter, Writers, FlowWriters, Only, Has
<1>7. NoneAfter(b, "patchKubeVipManifest", {"WriteUserDataFiles"})
  BY <1>0, <1>1, <1>4 DEF NoneAfter, Only, Has
<1>8. Has(b, "EnableStaticPods")
  BY <1>0, <1>1, <1>2 DEF Only, Has
<1>9. Has(b, "setKubernetes") /\ Has(b, "setDNS") /\ Has(b, "finishKubeadm")
  BY <1>0, <1>1, <1>3 DEF Only, Has
<1>10. ~Has(b, "setKubernetesDNS")
  BY <1>0, <1>1, <1>4 DEF Has
<1>11. Precedes(b, "WaitForPods", "setKubernetes")
  BY <1>0, <1>1, <1>2, <1>3 DEF Only, Precedes
<1>12. Precedes(b, "bootstrapToken", "setKubernetes")
  BY <1>0, <1>1, <1>3 DEF Only, Precedes
<1>13. u.v129 => Precedes(b, "patchKubeVipManifest", "EnableStaticPods")
  BY <1>0, <1>1, <1>2, <1>4 DEF Only, Precedes
<1>14. QED
  BY <1>5, <1>6, <1>7, <1>8, <1>9, <1>10, <1>11, <1>12, <1>13
     DEF Ordered, WithPods, ControlPlane, b

\* The flow of controlPlaneJoin, with local and with external etcd.
LEMMA JoinOrdered ==
  ASSUME NEW u \in UserData, u.runcmd = "ControlPlaneJoin"
  PROVE  Ordered(Bootstrap(u), u)
<1> DEFINE b == Bootstrap(u)
           d == IF u.externalEtcd THEN 0 ELSE 1
<1>0. u.externalEtcd \in BOOLEAN
  BY DEF UserData
<1>1. /\ Len(b) = 23 + d /\ Only(b, "acquireLock", 2) /\ Only(b, "userData", 3)
      /\ Only(b, "WriteUserDataFiles", 5) /\ Only(b, "DisableBootstrapContainer", 23 + d)
  <2>1. CASE u.externalEtcd
    BY <2>1 DEF Bootstrap, buildBootstrapper, RunCmd, controlPlaneJoin, If, Only
  <2>2. CASE ~u.externalEtcd
    BY <2>2 DEF Bootstrap, buildBootstrapper, RunCmd, controlPlaneJoin, If, Only
  <2>3. QED
    BY <2>1, <2>2
<1>2. /\ Only(b, "controlPlane", 8) /\ Only(b, "setKubernetesDNS", 14)
      /\ Only(b, "EnableStaticPods", 17 + d) /\ Only(b, "finishKubeadm", 21 + d)
  <2>1. CASE u.externalEtcd
    BY <2>1 DEF Bootstrap, buildBootstrapper, RunCmd, controlPlaneJoin, If, Only
  <2>2. CASE ~u.externalEtcd
    BY <2>2 DEF Bootstrap, buildBootstrapper, RunCmd, controlPlaneJoin, If, Only
  <2>3. QED
    BY <2>1, <2>2
<1>3. /\ ~Has(b, "patchKubeVipManifest") /\ ~Has(b, "etcdLocal") /\ ~Has(b, "start")
      /\ (IF u.externalEtcd THEN ~Has(b, "joinLocalEtcd") ELSE Only(b, "joinLocalEtcd", 17))
  <2>1. CASE u.externalEtcd
    BY <2>1 DEF Bootstrap, buildBootstrapper, RunCmd, controlPlaneJoin, If, Has, Only
  <2>2. CASE ~u.externalEtcd
    BY <2>2 DEF Bootstrap, buildBootstrapper, RunCmd, controlPlaneJoin, If, Has, Only
  <2>3. QED
    BY <2>1, <2>2
<1> HIDE DEF b
<1>4. Framed(b)
  BY <1>0, <1>1 DEF Framed, Only
<1>5. NoneAfter(b, "EnableStaticPods", Writers)
  BY <1>0, <1>1, <1>2, <1>3 DEF NoneAfter, Writers, FlowWriters, Only, Has
<1>6. NoneAfter(b, "patchKubeVipManifest", {"WriteUserDataFiles"})
  BY <1>0, <1>1, <1>3 DEF NoneAfter, Has
<1>7. Has(b, "EnableStaticPods")
  BY <1>0, <1>1, <1>2 DEF Only, Has
<1>8. Has(b, "setKubernetesDNS") /\ Has(b, "finishKubeadm")
  BY <1>0, <1>1, <1>2 DEF Only, Has
<1>9. QED
  BY <1>4, <1>5, <1>6, <1>7, <1>8 DEF Ordered, WithPods, ControlPlane, b

\* The flow of etcdadmInit.
LEMMA EtcdInitOrdered ==
  ASSUME NEW u \in UserData, u.runcmd = "EtcdadmInit"
  PROVE  Ordered(Bootstrap(u), u)
<1> DEFINE b == Bootstrap(u)
<1>1. /\ Len(b) = 14 /\ Only(b, "acquireLock", 2) /\ Only(b, "userData", 3)
      /\ Only(b, "WriteUserDataFiles", 5) /\ Only(b, "DisableBootstrapContainer", 14)
  BY DEF Bootstrap, buildBootstrapper, parseCmd, etcdadmInit, Only
<1>2. /\ Only(b, "start", 10) /\ Only(b, "EnableStaticPods", 11)
  BY DEF Bootstrap, buildBootstrapper, parseCmd, etcdadmInit, Only
<1>3. /\ ~Has(b, "patchKubeVipManifest") /\ ~Has(b, "controlPlane") /\ ~Has(b, "etcdLocal")
      /\ ~Has(b, "joinLocalEtcd")
  BY DEF Bootstrap, buildBootstrapper, parseCmd, etcdadmInit, Has, Only
<1> HIDE DEF b
<1>4. Framed(b)
  BY <1>1 DEF Framed, Only
<1>5. NoneAfter(b, "EnableStaticPods", Writers)
  BY <1>1, <1>2, <1>3 DEF NoneAfter, Writers, FlowWriters, Only, Has
<1>6. NoneAfter(b, "patchKubeVipManifest", {"WriteUserDataFiles"})
  BY <1>1, <1>3 DEF NoneAfter, Has
<1>7. Has(b, "EnableStaticPods")
  BY <1>1, <1>2 DEF Only, Has
<1>8. QED
  BY <1>4, <1>5, <1>6, <1>7 DEF Ordered, WithPods, ControlPlane, b

\* The flow of etcdadmJoin.
LEMMA EtcdJoinOrdered ==
  ASSUME NEW u \in UserData, u.runcmd = "EtcdadmJoin"
  PROVE  Ordered(Bootstrap(u), u)
<1> DEFINE b == Bootstrap(u)
<1>1. /\ Len(b) = 15 /\ Only(b, "acquireLock", 2) /\ Only(b, "userData", 3)
      /\ Only(b, "WriteUserDataFiles", 5) /\ Only(b, "DisableBootstrapContainer", 15)
  BY DEF Bootstrap, buildBootstrapper, parseCmd, etcdadmJoin, Only
<1>2. /\ Only(b, "membership", 8) /\ Only(b, "start", 11) /\ Only(b, "EnableStaticPods", 12)
  BY DEF Bootstrap, buildBootstrapper, parseCmd, etcdadmJoin, Only
<1>3. /\ ~Has(b, "patchKubeVipManifest") /\ ~Has(b, "controlPlane") /\ ~Has(b, "etcdLocal")
      /\ ~Has(b, "joinLocalEtcd")
  BY DEF Bootstrap, buildBootstrapper, parseCmd, etcdadmJoin, Has, Only
<1> HIDE DEF b
<1>4. Framed(b)
  BY <1>1 DEF Framed, Only
<1>5. NoneAfter(b, "EnableStaticPods", Writers)
  BY <1>1, <1>2, <1>3 DEF NoneAfter, Writers, FlowWriters, Only, Has
<1>6. NoneAfter(b, "patchKubeVipManifest", {"WriteUserDataFiles"})
  BY <1>1, <1>3 DEF NoneAfter, Has
<1>7. Has(b, "EnableStaticPods")
  BY <1>1, <1>2 DEF Only, Has
<1>8. Has(b, "membership")
  BY <1>1, <1>2 DEF Only, Has
<1>9. QED
  BY <1>4, <1>5, <1>6, <1>7, <1>8 DEF Ordered, WithPods, ControlPlane, b

\* The flow of workerJoin.
LEMMA WorkerOrdered ==
  ASSUME NEW u \in UserData, u.runcmd = "WorkerJoin"
  PROVE  Ordered(Bootstrap(u), u)
<1> DEFINE b == Bootstrap(u)
<1>1. /\ Len(b) = 14 /\ Only(b, "acquireLock", 2) /\ Only(b, "userData", 3)
      /\ Only(b, "WriteUserDataFiles", 5) /\ Only(b, "DisableBootstrapContainer", 14)
  BY DEF Bootstrap, buildBootstrapper, RunCmd, workerJoin, Only
<1>2. Only(b, "setKubernetesDNS", 12)
  BY DEF Bootstrap, buildBootstrapper, RunCmd, workerJoin, Only
<1>3. /\ ~Has(b, "EnableStaticPods") /\ ~Has(b, "patchKubeVipManifest")
      /\ ~Has(b, "controlPlane") /\ ~Has(b, "etcdLocal") /\ ~Has(b, "joinLocalEtcd")
      /\ ~Has(b, "start")
  BY DEF Bootstrap, buildBootstrapper, RunCmd, workerJoin, Has, Only
<1> HIDE DEF b
<1>4. Framed(b)
  BY <1>1 DEF Framed, Only
<1>5. NoneAfter(b, "EnableStaticPods", Writers)
  BY <1>1, <1>3 DEF NoneAfter, Has
<1>6. NoneAfter(b, "patchKubeVipManifest", {"WriteUserDataFiles"})
  BY <1>1, <1>3 DEF NoneAfter, Has
<1>7. \A i \in 1..Len(b) : b[i] \notin FlowWriters
  BY <1>1, <1>3 DEF FlowWriters, Has
<1>8. Has(b, "setKubernetesDNS")
  BY <1>1, <1>2 DEF Only, Has
<1>9. QED
  BY <1>4, <1>5, <1>6, <1>7, <1>8 DEF Ordered, WithPods, ControlPlane, b

\* An etcdadm command that is not one.
LEMMA InvalidOrdered ==
  ASSUME NEW u \in UserData, u.runcmd = "EtcdadmInvalid"
  PROVE  Ordered(Bootstrap(u), u)
<1> DEFINE b == Bootstrap(u)
<1>1. /\ Len(b) = 7 /\ Only(b, "acquireLock", 2) /\ Only(b, "userData", 3)
      /\ Only(b, "WriteUserDataFiles", 5) /\ Only(b, "DisableBootstrapContainer", 7)
  BY DEF Bootstrap, buildBootstrapper, parseCmd, Only
<1>2. Only(b, "invalidCommand", 6)
  BY DEF Bootstrap, buildBootstrapper, parseCmd, Only
<1>3. /\ ~Has(b, "EnableStaticPods") /\ ~Has(b, "patchKubeVipManifest")
      /\ ~Has(b, "controlPlane") /\ ~Has(b, "etcdLocal") /\ ~Has(b, "joinLocalEtcd")
      /\ ~Has(b, "start")
  BY DEF Bootstrap, buildBootstrapper, parseCmd, Has, Only
<1> HIDE DEF b
<1>4. Framed(b)
  BY <1>1 DEF Framed, Only
<1>5. NoneAfter(b, "EnableStaticPods", Writers)
  BY <1>1, <1>3 DEF NoneAfter, Has
<1>6. NoneAfter(b, "patchKubeVipManifest", {"WriteUserDataFiles"})
  BY <1>1, <1>3 DEF NoneAfter, Has
<1>7. \A i \in 1..Len(b) : b[i] \notin FlowWriters
  BY <1>1, <1>3 DEF FlowWriters, Has
<1>8. Has(b, "invalidCommand")
  BY <1>1, <1>2 DEF Only, Has
<1>9. QED
  BY <1>4, <1>5, <1>6, <1>7, <1>8 DEF Ordered, WithPods, ControlPlane, b

\* A runcmd that is neither kubeadm's nor etcdadm's.
LEMMA OtherOrdered ==
  ASSUME NEW u \in UserData, u.runcmd \notin WithPods \cup {"WorkerJoin", "EtcdadmInvalid"}
  PROVE  Ordered(Bootstrap(u), u)
<1> DEFINE b == Bootstrap(u)
<1>1. /\ Len(b) = 6 /\ Only(b, "acquireLock", 2) /\ Only(b, "userData", 3)
      /\ Only(b, "WriteUserDataFiles", 5) /\ Only(b, "DisableBootstrapContainer", 6)
  BY DEF Bootstrap, buildBootstrapper, RunCmd, WithPods, ControlPlane, Only
<1>2. /\ ~Has(b, "EnableStaticPods") /\ ~Has(b, "patchKubeVipManifest")
      /\ ~Has(b, "controlPlane") /\ ~Has(b, "etcdLocal") /\ ~Has(b, "joinLocalEtcd")
      /\ ~Has(b, "start")
  BY DEF Bootstrap, buildBootstrapper, RunCmd, WithPods, ControlPlane, Has, Only
<1> HIDE DEF b
<1>3. Framed(b)
  BY <1>1 DEF Framed, Only
<1>4. NoneAfter(b, "EnableStaticPods", Writers)
  BY <1>1, <1>2 DEF NoneAfter, Has
<1>5. NoneAfter(b, "patchKubeVipManifest", {"WriteUserDataFiles"})
  BY <1>1, <1>2 DEF NoneAfter, Has
<1>6. \A i \in 1..Len(b) : b[i] \notin FlowWriters
  BY <1>1, <1>2 DEF FlowWriters, Has
<1>7. QED
  BY <1>3, <1>4, <1>5, <1>6 DEF Ordered, WithPods, ControlPlane, b

\* The order of the steps of every flow, whatever the user data says.
LEMMA FlowsOrdered ==
  ASSUME NEW u \in UserData
  PROVE  Ordered(Bootstrap(u), u)
<1>1. CASE u.runcmd \notin WithPods \cup {"WorkerJoin", "EtcdadmInvalid"}
  BY <1>1, OtherOrdered
<1>2. CASE u.runcmd \in WithPods
  BY <1>2, InitOrdered, JoinOrdered, EtcdInitOrdered, EtcdJoinOrdered DEF WithPods, ControlPlane
<1>3. CASE u.runcmd \in {"WorkerJoin", "EtcdadmInvalid"}
  BY <1>3, WorkerOrdered, InvalidOrdered
<1>4. QED
  BY <1>1, <1>2, <1>3

-----------------------------------------------------------------------------
(* The inductive invariant. *)

\* The process is past the step s of its flow.
Before(s) == \E i \in 1..Len(program) : i < pc /\ program[i] = s

\* The first run finds no marker.
LockFree == runs = 1 /\ pc \in {1, 2} => ~marker

\* The chunks were read in order, and all of them before the flow goes on.
ChunksInOrder ==
  pc # 0 => /\ loaded = [i \in 1..Len(loaded) |-> i - 1]
            /\ Len(loaded) <= userData.chunks
            /\ pc > 3 => Len(loaded) = userData.chunks

\* Since the hand-over no manifest has changed.
HandedOver ==
  Before("EnableStaticPods") => \A p \in Pods : manifest[p] # "none" => static[p] = manifest[p]

\* A flow without a hand-over writes no manifest.
NoManifests == userData.runcmd \notin WithPods => \A p \in Pods : manifest[p] = "none"

\* From the patch on the manifest stays patched.
StaysPatched == Before("patchKubeVipManifest") => manifest["kube-vip"] = "patched"

\* What the steps the process is past have done to the node and the cluster.
Effects ==
  /\ Before("setKubernetes") => "kubernetes" \in settings
  /\ Before("setDNS") => "dns" \in settings
  /\ Before("setKubernetesDNS") => settings = {"kubernetes", "dns"}
  /\ Before("bootstrapToken") => "token" \in phases
  /\ Before("finishKubeadm") => "finish" \in phases
  /\ Before("membership") => "membership" \in phases
  /\ Before("WaitForPods") => live
  /\ ~Before("invalidCommand")

FlowInv ==
  /\ TypeOK
  /\ LockFree
  /\ ChunksInOrder
  /\ HandedOver
  /\ NoManifests
  /\ StaysPatched
  /\ KubeVipPatched
  /\ Effects

-----------------------------------------------------------------------------
(* Where the process is. *)

\* Exit code 0 is reached past every step of the flow.
LEMMA AllPast ==
  ASSUME Exit0, NEW s, Has(program, s), Framed(program)
  PROVE  Before(s)
BY DEF Exit0, Has, Before, Framed

\* A step that advances the process adds itself to the steps it is past.
LEMMA Past ==
  ASSUME Running, Advance, Framed(program), NEW s
  PROVE  Before(s)' <=> Before(s) \/ program[pc] = s
BY DEF Running, Advance, Framed, Before, program

\* A process that has exited or starts again is past nothing.
LEMMA PastNothing ==
  ASSUME pc' \in {0, 1}, NEW s
  PROVE  ~Before(s)'
BY DEF Before

\* A step stands behind all that its flow puts before it.
LEMMA PastPredecessors ==
  ASSUME NEW s, NEW t, Precedes(program, s, t), At(t), Framed(program)
  PROVE  Before(s)
BY DEF Precedes, At, Running, Before, Framed

\* No step of T is taken past a step that stands behind all of them.
LEMMA NotPast ==
  ASSUME NEW s, NEW T, NoneAfter(program, s, T), Running, program[pc] \in T, Framed(program)
  PROVE  ~Before(s)
BY DEF NoneAfter, Running, Before, Framed

\* The order of the flow the process runs.
LEMMA ProgramOrdered ==
  ASSUME TypeOK
  PROVE  Ordered(program, userData) /\ Framed(program)
BY FlowsOrdered DEF TypeOK, program, Ordered

-----------------------------------------------------------------------------
(* What a step leaves alone. *)

\* An advancing step that leaves the marker alone, or is past the lock.
LEMMA KeepsLockFree ==
  ASSUME FlowInv, Running, Advance, marker' = marker \/ pc = 2
  PROVE  LockFree'
BY ProgramOrdered DEF FlowInv, LockFree, Framed, Running, Advance

\* A step that is not the user data's keeps the chunks.
LEMMA KeepsChunks ==
  ASSUME FlowInv, Running, Advance, program[pc] # "userData", UNCHANGED loaded
  PROVE  ChunksInOrder'
<1>1. pc # 3 /\ pc \in Nat
  BY ProgramOrdered DEF FlowInv, Running, Framed
<1>2. QED
  BY <1>1 DEF FlowInv, ChunksInOrder, Running, Advance

\* A step that neither writes nor hands over manifests.
PodsOK == HandedOver /\ NoManifests /\ StaysPatched /\ KubeVipPatched
LEMMA KeepsPods ==
  ASSUME FlowInv, Running, Advance, UNCHANGED <<manifest, static>>,
         program[pc] \notin {"EnableStaticPods", "patchKubeVipManifest"}
  PROVE  PodsOK'
<1>1. Before("EnableStaticPods")' <=> Before("EnableStaticPods")
  BY Past, ProgramOrdered DEF FlowInv
<1>2. Before("patchKubeVipManifest")' <=> Before("patchKubeVipManifest")
  BY Past, ProgramOrdered DEF FlowInv
<1>3. QED
  BY <1>1, <1>2
     DEF FlowInv, PodsOK, HandedOver, NoManifests, StaysPatched, KubeVipPatched, Advance

\* A step without an effect that the flow relies on.
EffectSteps == {"setKubernetes", "setDNS", "setKubernetesDNS", "bootstrapToken", "finishKubeadm",
                "membership", "WaitForPods", "invalidCommand"}
LEMMA KeepsEffects ==
  ASSUME FlowInv, Running, Advance, UNCHANGED <<settings, phases, live>>,
         program[pc] \notin EffectSteps
  PROVE  Effects'
<1>1. \A s \in EffectSteps : Before(s)' <=> Before(s)
  BY Past, ProgramOrdered DEF FlowInv
<1>2. QED
  BY <1>1 DEF FlowInv, Effects, EffectSteps

\* A process that exits or starts again has no flow behind it.
LEMMA StartsOver ==
  ASSUME FlowInv, pc' \in {0, 1}
  PROVE  HandedOver' /\ StaysPatched' /\ Effects'
BY PastNothing DEF HandedOver, StaysPatched, Effects

\* The position of an advancing process.
PositionOK == userData \in UserData /\ pc \in 0..(Len(program) + 1) /\ runs \in 1..MaxRuns
LEMMA KeepsPosition ==
  ASSUME FlowInv, Running, Advance
  PROVE  PositionOK'
<1>1. program' = program /\ Len(program) \in Nat
  BY ProgramOrdered DEF FlowInv, Framed, Advance, program
<1>2. QED
  BY <1>1 DEF FlowInv, TypeOK, PositionOK, Running, Advance

-----------------------------------------------------------------------------
(* One lemma per action. *)

\* PlainStep: commands and waits that only succeed or fail.
LEMMA PlainStepKeeps ==
  ASSUME FlowInv, PlainStep
  PROVE  FlowInv'
<1>1. /\ Running /\ Advance /\ program[pc] \in Plain
      /\ UNCHANGED <<acquired, loaded, marker, enabled, secrets, live, node>>
  BY DEF PlainStep
<1>2. /\ program[pc] \notin {"EnableStaticPods", "patchKubeVipManifest", "userData"}
      /\ program[pc] \notin EffectSteps
  BY <1>1 DEF Plain, EffectSteps
<1>3. TypeOK'
  BY <1>1, KeepsPosition DEF FlowInv, TypeOK, PositionOK, node
<1>4. LockFree' /\ ChunksInOrder'
  BY <1>1, <1>2, KeepsLockFree, KeepsChunks
<1>5. PodsOK'
  BY <1>1, <1>2, KeepsPods DEF node
<1>6. Effects'
  BY <1>1, <1>2, KeepsEffects DEF node
<1>7. QED
  BY <1>3, <1>4, <1>5, <1>6 DEF FlowInv, PodsOK

\* acquireLock, with and without the marker of an earlier run.
LEMMA acquireLockKeeps ==
  ASSUME FlowInv, acquireLock
  PROVE  FlowInv'
<1>1. /\ Running /\ Advance /\ program[pc] = "acquireLock"
      /\ UNCHANGED <<loaded, secrets, live, node>>
      /\ marker' \in BOOLEAN /\ acquired' \in BOOLEAN /\ enabled' \in BOOLEAN
  BY DEF acquireLock, At, FlowInv, TypeOK
<1>2. pc = 2
  BY <1>1, ProgramOrdered DEF FlowInv, Framed, Running
<1>3. TypeOK'
  BY <1>1, KeepsPosition DEF FlowInv, TypeOK, PositionOK, node
<1>4. LockFree' /\ ChunksInOrder'
  BY <1>1, <1>2, KeepsLockFree, KeepsChunks
<1>5. PodsOK'
  BY <1>1, KeepsPods DEF node
<1>6. Effects'
  BY <1>1, KeepsEffects DEF node, EffectSteps
<1>7. QED
  BY <1>3, <1>4, <1>5, <1>6 DEF FlowInv, PodsOK

\* loadChunk: the next secret is read, and deleted or not.
LEMMA loadChunkKeeps ==
  ASSUME FlowInv, loadChunk
  PROVE  FlowInv'
<1> DEFINE n == Len(loaded)
<1>1. /\ Running /\ program[pc] = "userData" /\ n < userData.chunks
      /\ loaded' = Append(loaded, n) /\ secrets' \subseteq secrets
      /\ UNCHANGED <<userData, pc, runs, acquired, marker, enabled, live, node>>
  BY DEF loadChunk, At
<1>2. pc = 3
  BY <1>1, ProgramOrdered DEF FlowInv, Framed, Running
<1>3. userData.chunks \in 0..MaxChunks /\ MaxChunks \in Nat
  BY FlowAssumption DEF FlowInv, TypeOK, UserData, FlowAssumption
<1>4. loaded \in Seq(0..MaxChunks) /\ n \in 0..MaxChunks
  BY <1>1, <1>3 DEF FlowInv, TypeOK
<1>5. loaded' \in Seq(0..MaxChunks) /\ Len(loaded') = n + 1
  BY <1>1, <1>4
<1>6. program' = program /\ \A s : Before(s)' <=> Before(s)
  BY <1>1 DEF Before, program
<1>7. TypeOK'
  BY <1>1, <1>5, <1>6 DEF FlowInv, TypeOK, node
<1>8. LockFree'
  BY <1>1 DEF FlowInv, LockFree
<1>9. ChunksInOrder'
  <2>1. \A i \in 1..(n + 1) : loaded'[i] = i - 1
    BY <1>1, <1>2, <1>4 DEF FlowInv, ChunksInOrder
  <2>2. loaded' = [i \in 1..Len(loaded') |-> i - 1]
    BY <2>1, <1>5
  <2>3. QED
    BY <2>2, <1>1, <1>2, <1>3, <1>4, <1>5 DEF ChunksInOrder
<1>10. PodsOK'
  BY <1>1, <1>6 DEF FlowInv, PodsOK, HandedOver, NoManifests, StaysPatched, KubeVipPatched, node
<1>11. Effects'
  BY <1>1, <1>6 DEF FlowInv, Effects, node
<1>12. QED
  BY <1>7, <1>8, <1>9, <1>10, <1>11 DEF FlowInv, PodsOK

\* resolveUserData, once all chunks are there.
LEMMA resolveUserDataKeeps ==
  ASSUME FlowInv, resolveUserData
  PROVE  FlowInv'
<1>1. /\ Running /\ Advance /\ program[pc] = "userData" /\ Len(loaded) = userData.chunks
      /\ UNCHANGED <<acquired, loaded, marker, enabled, secrets, live, node>>
  BY DEF resolveUserData, At
<1>2. pc = 3
  BY <1>1, ProgramOrdered DEF FlowInv, Framed, Running
<1>3. TypeOK'
  BY <1>1, KeepsPosition DEF FlowInv, TypeOK, PositionOK, node
<1>4. LockFree'
  BY <1>1, KeepsLockFree
<1>5. ChunksInOrder'
  BY <1>1, <1>2 DEF FlowInv, ChunksInOrder, Advance
<1>6. PodsOK'
  BY <1>1, KeepsPods DEF node
<1>7. Effects'
  BY <1>1, KeepsEffects DEF node, EffectSteps
<1>8. QED
  BY <1>3, <1>4, <1>5, <1>6, <1>7 DEF FlowInv, PodsOK

\* What all steps that change manifests have in common.
LEMMA WriterKeeps ==
  ASSUME FlowInv, Running, Advance, program[pc] \in Writers,
         UNCHANGED <<acquired, loaded, marker, enabled, secrets, live, static, settings, phases>>,
         manifest' \in [Pods -> Content], \A p \in Pods : ContentOK(p, manifest'[p]),
         NoManifests', StaysPatched'
  PROVE  FlowInv'
<1>1. program[pc] # "userData" /\ program[pc] \notin EffectSteps /\ program[pc] # "EnableStaticPods"
  BY DEF Writers, FlowWriters, EffectSteps
<1>2. TypeOK'
  BY KeepsPosition DEF FlowInv, TypeOK, PositionOK
<1>3. LockFree' /\ ChunksInOrder'
  BY <1>1, KeepsLockFree, KeepsChunks
<1>4. ~Before("EnableStaticPods")
  BY NotPast, ProgramOrdered DEF FlowInv, Ordered
<1>5. HandedOver'
  BY <1>1, <1>4, Past, ProgramOrdered DEF FlowInv, HandedOver
<1>6. KubeVipPatched'
  BY DEF FlowInv, KubeVipPatched, Advance
<1>7. Effects'
  BY <1>1, KeepsEffects
<1>8. QED
  BY <1>2, <1>3, <1>5, <1>6, <1>7 DEF FlowInv

\* WriteUserDataFiles: the kube-vip manifest, only in control plane flows.
LEMMA WriteUserDataFilesKeeps ==
  ASSUME FlowInv, WriteUserDataFiles
  PROVE  FlowInv'
<1>1. /\ Running /\ Advance /\ program[pc] = "WriteUserDataFiles"
      /\ manifest' = [manifest EXCEPT !["kube-vip"] = IF userData.kubeVip THEN "written" ELSE @]
      /\ UNCHANGED <<acquired, loaded, marker, enabled, secrets, live, static, settings, phases>>
  BY DEF WriteUserDataFiles, At
<1>2. manifest' \in [Pods -> Content] /\ \A p \in Pods : ContentOK(p, manifest'[p])
  BY <1>1 DEF FlowInv, TypeOK, Pods, Content, ContentOK
<1>3. NoManifests'
  BY <1>1 DEF FlowInv, TypeOK, NoManifests, UserData, WithPods, ControlPlane, Pods, Advance
<1>4. ~Before("patchKubeVipManifest")
  BY <1>1, NotPast, ProgramOrdered DEF FlowInv, Ordered
<1>5. StaysPatched'
  BY <1>1, <1>4, Past, ProgramOrdered DEF FlowInv, StaysPatched
<1>6. QED
  BY <1>1, <1>2, <1>3, <1>5, WriterKeeps DEF Writers

\* patchKubeVipManifest.
LEMMA patchKubeVipManifestKeeps ==
  ASSUME FlowInv, patchKubeVipManifest
  PROVE  FlowInv'
<1>1. /\ Running /\ Advance /\ program[pc] = "patchKubeVipManifest"
      /\ manifest' = [manifest EXCEPT !["kube-vip"] = "patched"]
      /\ UNCHANGED <<acquired, loaded, marker, enabled, secrets, live, static, settings, phases>>
  BY DEF patchKubeVipManifest, At
<1>2. /\ manifest' \in [Pods -> Content] /\ \A p \in Pods : ContentOK(p, manifest'[p])
      /\ StaysPatched'
  BY <1>1 DEF FlowInv, TypeOK, Pods, Content, ContentOK, StaysPatched
<1>3. userData.runcmd \in WithPods
  BY <1>1, ProgramOrdered DEF FlowInv, Ordered, FlowWriters, Running
<1>4. NoManifests'
  BY <1>1, <1>3 DEF NoManifests, Advance
<1>5. QED
  BY <1>1, <1>2, <1>4, WriterKeeps DEF Writers, FlowWriters

\* writeManifest: the kubeadm and etcdadm phases that write manifests.
LEMMA writeManifestKeeps ==
  ASSUME FlowInv, writeManifest
  PROVE  FlowInv'
<1>1. /\ Running /\ Advance /\ program[pc] \in FlowWriters \ {"patchKubeVipManifest"}
      /\ UNCHANGED <<acquired, loaded, marker, enabled, secrets, live, static, settings, phases>>
  BY DEF writeManifest, At, FlowWriters
<1>2. /\ manifest' \in [Pods -> Content] /\ \A p \in Pods : ContentOK(p, manifest'[p])
      /\ manifest'["kube-vip"] = manifest["kube-vip"]
  BY DEF writeManifest, FlowInv, TypeOK, Pods, Content, ContentOK
<1>3. userData.runcmd \in WithPods
  BY <1>1, ProgramOrdered DEF FlowInv, Ordered, FlowWriters, Running
<1>4. NoManifests'
  BY <1>1, <1>3 DEF NoManifests, Advance
<1>5. StaysPatched'
  BY <1>1, <1>2, Past, ProgramOrdered DEF FlowInv, StaysPatched
<1>6. QED
  BY <1>1, <1>2, <1>4, <1>5, WriterKeeps DEF Writers

\* The kube-vip manifest that is handed over is the patched one.
LEMMA HandsOverPatched ==
  ASSUME FlowInv, At("EnableStaticPods"),
         userData.runcmd = "ControlPlaneInit", userData.v129
  PROVE  manifest["kube-vip"] = "patched"
<1>1. Before("patchKubeVipManifest")
  BY PastPredecessors, ProgramOrdered DEF FlowInv, Ordered
<1>2. QED
  BY <1>1 DEF FlowInv, StaysPatched

\* EnableStaticPods: every manifest is handed over.
LEMMA EnableStaticPodsKeeps ==
  ASSUME FlowInv, EnableStaticPods
  PROVE  FlowInv'
<1>1. /\ Running /\ Advance /\ program[pc] = "EnableStaticPods"
      /\ static' = [p \in Pods |-> IF manifest[p] # "none" THEN manifest[p] ELSE static[p]]
      /\ UNCHANGED <<acquired, loaded, marker, enabled, secrets, live, manifest, settings, phases>>
  BY DEF EnableStaticPods, At
<1>2. TypeOK'
  BY <1>1, KeepsPosition DEF FlowInv, TypeOK, PositionOK
<1>3. LockFree' /\ ChunksInOrder'
  BY <1>1, KeepsLockFree, KeepsChunks
<1>4. HandedOver' /\ NoManifests'
  BY <1>1 DEF FlowInv, HandedOver, NoManifests, Advance
<1>5. StaysPatched'
  BY <1>1, Past, ProgramOrdered DEF FlowInv, StaysPatched
<1>6. KubeVipPatched'
  BY <1>1, HandsOverPatched DEF FlowInv, KubeVipPatched, At, Advance, Pods
<1>7. Effects'
  BY <1>1, KeepsEffects DEF EffectSteps
<1>8. QED
  BY <1>2, <1>3, <1>4, <1>5, <1>6, <1>7 DEF FlowInv

\* EnableStaticPods fails half way: no pod is worse than its manifest.
LEMMA EnableSomeStaticPodsKeeps ==
  ASSUME FlowInv, EnableSomeStaticPods
  PROVE  FlowInv'
<1>1. /\ At("EnableStaticPods") /\ pc' = 0
      /\ UNCHANGED <<userData, runs, acquired, loaded, marker, enabled, secrets, live, manifest,
                     settings, phases>>
  BY DEF EnableSomeStaticPods
<1>2. PICK some \in SUBSET Pods : static' = [p \in Pods |-> IF p \in some THEN manifest[p] ELSE static[p]]
  BY DEF EnableSomeStaticPods
<1>3. program' = program /\ Len(program) \in Nat
  BY <1>1, ProgramOrdered DEF FlowInv, Framed, program
<1>4. TypeOK'
  BY <1>1, <1>2, <1>3 DEF FlowInv, TypeOK
<1>5. LockFree' /\ ChunksInOrder' /\ NoManifests'
  BY <1>1 DEF FlowInv, LockFree, ChunksInOrder, NoManifests
<1>6. HandedOver' /\ StaysPatched' /\ Effects'
  BY <1>1, StartsOver
<1>7. KubeVipPatched'
  BY <1>1, <1>2, HandsOverPatched DEF FlowInv, KubeVipPatched, Pods
<1>8. QED
  BY <1>4, <1>5, <1>6, <1>7 DEF FlowInv

\* What all steps with an effect have in common.
LEMMA EffectKeeps ==
  ASSUME FlowInv, Running, Advance, program[pc] \in EffectSteps,
         UNCHANGED <<acquired, loaded, marker, enabled, secrets, manifest, static>>,
         settings' \subseteq {"kubernetes", "dns"}, live' \in BOOLEAN,
         phases' \subseteq {"token", "finish", "membership"}, Effects'
  PROVE  FlowInv'
<1>1. program[pc] \notin {"userData", "EnableStaticPods", "patchKubeVipManifest"}
  BY DEF EffectSteps
<1>2. TypeOK'
  BY KeepsPosition DEF FlowInv, TypeOK, PositionOK
<1>3. LockFree' /\ ChunksInOrder'
  BY <1>1, KeepsLockFree, KeepsChunks
<1>4. PodsOK'
  BY <1>1, KeepsPods
<1>5. QED
  BY <1>2, <1>3, <1>4 DEF FlowInv, PodsOK

\* WaitForPods: the static pods answer.
LEMMA WaitForPodsKeeps ==
  ASSUME FlowInv, WaitForPods
  PROVE  FlowInv'
<1>1. /\ Running /\ Advance /\ program[pc] = "WaitForPods" /\ live' = TRUE
      /\ UNCHANGED <<acquired, loaded, marker, enabled, secrets, manifest, static, settings, phases>>
  BY DEF WaitForPods, At, node
<1>2. \A s \in EffectSteps \ {"WaitForPods"} : Before(s)' <=> Before(s)
  BY <1>1, Past, ProgramOrdered DEF FlowInv
<1>3. Effects'
  BY <1>1, <1>2 DEF FlowInv, Effects, EffectSteps
<1>4. QED
  BY <1>1, <1>3, EffectKeeps DEF FlowInv, TypeOK, EffectSteps

\* clusterPhase: the token, the finished kubeadm, the etcd membership.
LEMMA clusterPhaseKeeps ==
  ASSUME FlowInv, clusterPhase
  PROVE  FlowInv'
<1>1. /\ Running /\ Advance /\ program[pc] \in {"bootstrapToken", "finishKubeadm", "membership"}
      /\ UNCHANGED <<acquired, loaded, marker, enabled, secrets, live, manifest, static, settings>>
  BY DEF clusterPhase, At
<1>2. /\ phases \subseteq phases' /\ phases' \subseteq {"token", "finish", "membership"}
      /\ program[pc] = "bootstrapToken" => "token" \in phases'
      /\ program[pc] = "finishKubeadm" => "finish" \in phases'
      /\ program[pc] = "membership" => "membership" \in phases'
  BY DEF clusterPhase, At, FlowInv, TypeOK
<1>3. \A s : Before(s)' => Before(s) \/ s = program[pc]
  BY <1>1, Past, ProgramOrdered DEF FlowInv
<1>4. Effects'
  BY <1>1, <1>2, <1>3 DEF FlowInv, Effects
<1>5. QED
  BY <1>1, <1>2, <1>4, EffectKeeps DEF FlowInv, TypeOK, EffectSteps

\* apiclientSet: the kubernetes.* settings of the host.
LEMMA apiclientSetKeeps ==
  ASSUME FlowInv, apiclientSet
  PROVE  FlowInv'
<1>1. /\ Running /\ Advance /\ program[pc] \in {"setKubernetes", "setKubernetesDNS", "setDNS"}
      /\ UNCHANGED <<acquired, loaded, marker, enabled, secrets, live, manifest, static, phases>>
  BY DEF apiclientSet, At
<1>2. /\ settings \subseteq settings' /\ settings' \subseteq {"kubernetes", "dns"}
      /\ program[pc] = "setKubernetes" => "kubernetes" \in settings'
      /\ program[pc] = "setKubernetesDNS" => settings' = {"kubernetes", "dns"}
      /\ program[pc] = "setDNS" => "dns" \in settings'
  BY DEF apiclientSet, At, FlowInv, TypeOK
<1>3. \A s : Before(s)' => Before(s) \/ s = program[pc]
  BY <1>1, Past, ProgramOrdered DEF FlowInv
<1>4. Effects'
  BY <1>1, <1>2, <1>3 DEF FlowInv, Effects
<1>5. QED
  BY <1>1, <1>2, <1>4, EffectKeeps DEF FlowInv, TypeOK, EffectSteps

\* DisableBootstrapContainer, the last step of every flow, before its exit.
LEMMA DisableBootstrapContainerKeeps ==
  ASSUME FlowInv, DisableBootstrapContainer
  PROVE  FlowInv'
<1>1. /\ enabled' = FALSE
      /\ UNCHANGED <<userData, pc, runs, acquired, loaded, live, marker, secrets, manifest, static,
                     settings, phases>>
  BY DEF DisableBootstrapContainer, process, node
<1>2. program' = program /\ \A s : Before(s)' <=> Before(s)
  BY <1>1 DEF Before, program
<1>3. TypeOK' /\ LockFree' /\ ChunksInOrder' /\ Effects'
  BY <1>1, <1>2 DEF FlowInv, TypeOK, LockFree, ChunksInOrder, Effects
<1>4. HandedOver' /\ NoManifests' /\ StaysPatched' /\ KubeVipPatched'
  BY <1>1, <1>2 DEF FlowInv, HandedOver, NoManifests, StaysPatched, KubeVipPatched
<1>5. QED
  BY <1>3, <1>4 DEF FlowInv

\* The exit with code 0.
LEMMA exitSuccessKeeps ==
  ASSUME FlowInv, exitSuccess
  PROVE  FlowInv'
<1>1. /\ Running /\ Advance /\ program[pc] = "DisableBootstrapContainer"
      /\ UNCHANGED <<acquired, loaded, marker, enabled, secrets, live, node>>
  BY DEF exitSuccess, At
<1>2. TypeOK'
  BY <1>1, KeepsPosition DEF FlowInv, TypeOK, PositionOK, node
<1>3. LockFree' /\ ChunksInOrder'
  BY <1>1, KeepsLockFree, KeepsChunks
<1>4. PodsOK'
  BY <1>1, KeepsPods DEF node
<1>5. Effects'
  BY <1>1, KeepsEffects DEF node, EffectSteps
<1>6. QED
  BY <1>2, <1>3, <1>4, <1>5 DEF FlowInv, PodsOK

\* A failure or a kill, a missing file or secret included.
LEMMA Exit1Keeps ==
  ASSUME FlowInv, Exit1
  PROVE  FlowInv'
<1>1. /\ pc' = 0
      /\ UNCHANGED <<userData, runs, acquired, loaded, marker, enabled, secrets, live, node>>
  BY DEF Exit1
<1>2. program' = program /\ Len(program) \in Nat
  BY <1>1, ProgramOrdered DEF FlowInv, Framed, program
<1>3. TypeOK'
  BY <1>1, <1>2 DEF FlowInv, TypeOK, node
<1>4. LockFree' /\ ChunksInOrder' /\ NoManifests' /\ KubeVipPatched'
  BY <1>1 DEF FlowInv, LockFree, ChunksInOrder, NoManifests, KubeVipPatched, node
<1>5. HandedOver' /\ StaysPatched' /\ Effects'
  BY <1>1, StartsOver
<1>6. QED
  BY <1>3, <1>4, <1>5 DEF FlowInv

\* The host starts the container again.
LEMMA RestartKeeps ==
  ASSUME FlowInv, Restart
  PROVE  FlowInv'
<1>1. /\ pc' = 1 /\ runs' = runs + 1 /\ runs < MaxRuns /\ acquired' = FALSE /\ loaded' = <<>>
      /\ live' = FALSE /\ UNCHANGED <<userData, marker, enabled, secrets, node>>
  BY DEF Restart
<1>2. program' = program /\ Len(program) \in Nat
  BY <1>1, ProgramOrdered DEF FlowInv, Framed, program
<1>3. userData.chunks \in Nat /\ MaxRuns \in Nat
  BY FlowAssumption DEF FlowInv, TypeOK, UserData, FlowAssumption
<1>4. TypeOK'
  <2>1. PositionOK'
    BY <1>1, <1>2, <1>3 DEF FlowInv, TypeOK, PositionOK
  <2>2. <<>> \in Seq(0..MaxChunks)
    OBVIOUS
  <2>3. QED
    BY <1>1, <2>1, <2>2, Zenon DEF FlowInv, TypeOK, PositionOK, node
<1>5. LockFree' /\ NoManifests' /\ KubeVipPatched'
  BY <1>1 DEF FlowInv, TypeOK, LockFree, NoManifests, KubeVipPatched, node
<1>6. ChunksInOrder'
  BY <1>1, <1>3 DEF ChunksInOrder
<1>7. HandedOver' /\ StaysPatched' /\ Effects'
  BY <1>1, StartsOver
<1>8. QED
  BY <1>4, <1>5, <1>6, <1>7 DEF FlowInv

-----------------------------------------------------------------------------
(* The invariant and what follows from it. *)

\* The node on which the container starts for the first time.
LEMMA FlowInit == Init => FlowInv
<1> SUFFICES ASSUME Init PROVE FlowInv
  OBVIOUS
<1>1. userData \in UserData /\ userData.chunks \in Nat
  BY FlowAssumption DEF Init, UserData, FlowAssumption
<1>2. Len(program) \in Nat
  BY <1>1, FlowsOrdered DEF program, Ordered, Framed
<1>3. TypeOK
  <2>1. PositionOK
    BY <1>1, <1>2, FlowAssumption DEF Init, PositionOK, FlowAssumption
  <2>2. <<>> \in Seq(0..MaxChunks)
    OBVIOUS
  <2>3. /\ manifest \in [Pods -> Content] /\ static \in [Pods -> Content]
        /\ \A p \in Pods : ContentOK(p, manifest[p]) /\ ContentOK(p, static[p])
    BY DEF Init, Content, ContentOK
  <2>4. QED
    BY <2>1, <2>2, <2>3, Zenon DEF Init, TypeOK, PositionOK
<1>4. \A s : ~Before(s)
  BY DEF Init, Before
<1>5. LockFree /\ ChunksInOrder
  BY <1>1 DEF Init, LockFree, ChunksInOrder
<1>6. HandedOver /\ NoManifests /\ StaysPatched /\ KubeVipPatched /\ Effects
  BY <1>4 DEF Init, HandedOver, NoManifests, StaysPatched, KubeVipPatched, Effects, Pods
<1>7. QED
  BY <1>3, <1>5, <1>6 DEF FlowInv

\* A step that changes nothing.
LEMMA StutterKeeps ==
  ASSUME FlowInv, UNCHANGED vars
  PROVE  FlowInv'
<1>1. UNCHANGED <<userData, pc, runs, acquired, loaded, live, marker, enabled, secrets,
                  manifest, static, settings, phases>>
  BY DEF vars, process, node
<1>2. program' = program /\ \A s : Before(s)' <=> Before(s)
  BY <1>1 DEF Before, program
<1>3. TypeOK' /\ LockFree' /\ ChunksInOrder' /\ Effects'
  BY <1>1, <1>2 DEF FlowInv, TypeOK, LockFree, ChunksInOrder, Effects
<1>4. HandedOver' /\ NoManifests' /\ StaysPatched' /\ KubeVipPatched'
  BY <1>1, <1>2 DEF FlowInv, HandedOver, NoManifests, StaysPatched, KubeVipPatched
<1>5. QED
  BY <1>3, <1>4 DEF FlowInv

\* Every step of the process and of the host.
LEMMA FlowStep == FlowInv /\ [Next]_vars => FlowInv'
<1> SUFFICES ASSUME FlowInv, [Next]_vars PROVE FlowInv'
  OBVIOUS
<1>1. CASE PlainStep
  BY <1>1, PlainStepKeeps
<1>2. CASE acquireLock
  BY <1>2, acquireLockKeeps
<1>3. CASE loadChunk
  BY <1>3, loadChunkKeeps
<1>4. CASE resolveUserData
  BY <1>4, resolveUserDataKeeps
<1>5. CASE WriteUserDataFiles
  BY <1>5, WriteUserDataFilesKeeps
<1>6. CASE patchKubeVipManifest
  BY <1>6, patchKubeVipManifestKeeps
<1>7. CASE writeManifest
  BY <1>7, writeManifestKeeps
<1>8. CASE EnableStaticPods
  BY <1>8, EnableStaticPodsKeeps
<1>9. CASE EnableSomeStaticPods
  BY <1>9, EnableSomeStaticPodsKeeps
<1>10. CASE WaitForPods
  BY <1>10, WaitForPodsKeeps
<1>11. CASE clusterPhase
  BY <1>11, clusterPhaseKeeps
<1>12. CASE apiclientSet
  BY <1>12, apiclientSetKeeps
<1>13. CASE DisableBootstrapContainer
  BY <1>13, DisableBootstrapContainerKeeps
<1>18. CASE exitSuccess
  BY <1>18, exitSuccessKeeps
<1>14. CASE ReadFails \/ Exit1
  BY <1>14, Exit1Keeps DEF ReadFails
<1>15. CASE Restart
  BY <1>15, RestartKeeps
<1>16. CASE UNCHANGED vars
  BY <1>16, StutterKeeps
<1>17. QED
  BY <1>1, <1>2, <1>3, <1>4, <1>5, <1>6, <1>7, <1>8, <1>9, <1>10, <1>11, <1>12, <1>13, <1>14,
     <1>15, <1>16, <1>18 DEF Next, Step

\* The inductive invariant holds in every run of the bootstrap container.
THEOREM FlowInvariant == Spec => []FlowInv
BY FlowInit, FlowStep, PTL DEF Spec

\* The variables of the bootstrap container keep their types.
THEOREM FlowTyped == Spec => []TypeOK
<1>1. FlowInv => TypeOK
  BY DEF FlowInv
<1>2. QED
  BY <1>1, FlowInvariant, PTL

\* The unpatched kube-vip manifest never runs on the first control plane of a
\* cluster of Kubernetes 1.29 or newer.
THEOREM KubeVipIsPatched == Spec => []KubeVipPatched
<1>1. FlowInv => KubeVipPatched
  BY DEF FlowInv
<1>2. QED
  BY <1>1, FlowInvariant, PTL

\* The flow starts only with the whole user data, for any number of secrets.
THEOREM UserDataIsComplete == Spec => []UserDataComplete
<1>1. FlowInv => UserDataComplete
  <2> SUFFICES ASSUME FlowInv, (Running /\ pc > 3) \/ Exit0
               PROVE  loaded = [i \in 1..userData.chunks |-> i - 1]
    BY DEF UserDataComplete
  <2>1. pc # 0 /\ pc > 3
    BY ProgramOrdered DEF FlowInv, Framed, Running, Exit0
  <2>2. QED
    BY <2>1 DEF FlowInv, ChunksInOrder
<1>2. QED
  BY <1>1, FlowInvariant, PTL

\* Success is reported only with the host running the manifests that were
\* written last.
THEOREM PodsAreManifests == Spec => []PodsMatchManifests
<1>1. FlowInv => PodsMatchManifests
  <2> SUFFICES ASSUME FlowInv, Exit0
               PROVE  \A p \in Pods : manifest[p] # "none" => static[p] = manifest[p]
    BY DEF PodsMatchManifests
  <2>1. CASE userData.runcmd \in WithPods
    BY <2>1, AllPast, ProgramOrdered DEF FlowInv, Ordered, HandedOver
  <2>2. CASE userData.runcmd \notin WithPods
    BY <2>2 DEF FlowInv, NoManifests
  <2>3. QED
    BY <2>1, <2>2
<1>2. QED
  BY <1>1, FlowInvariant, PTL

\* controlPlaneInit configures the kubelet only once its own pods answered
\* and a bootstrap token exists.
THEOREM KubeletJoinsLive == Spec => KubeletJoinsLiveCluster
<1> DEFINE Joins == userData.runcmd = "ControlPlaneInit" /\ "kubernetes" \in settings' \ settings
<1>1. FlowInv /\ [Next]_vars => [Joins => live /\ "token" \in phases]_vars
  <2> SUFFICES ASSUME FlowInv, Next, Joins PROVE live /\ "token" \in phases
    OBVIOUS
  <2>1. apiclientSet
    BY DEF Next, Step, PlainStep, acquireLock, loadChunk, resolveUserData, WriteUserDataFiles,
           patchKubeVipManifest, writeManifest, EnableStaticPods, EnableSomeStaticPods, WaitForPods,
           clusterPhase, DisableBootstrapContainer, exitSuccess, ReadFails, Exit1, Restart, node
  <2>2. At("setKubernetes") \/ At("setKubernetesDNS")
    BY <2>1 DEF apiclientSet
  <2>3. ~At("setKubernetesDNS")
    BY ProgramOrdered DEF FlowInv, Ordered, Has, At, Running
  <2>4. Before("WaitForPods") /\ Before("bootstrapToken")
    BY <2>2, <2>3, PastPredecessors, ProgramOrdered DEF FlowInv, Ordered
  <2>5. QED
    BY <2>4 DEF FlowInv, Effects
<1>2. QED
  BY <1>1, FlowInvariant, PTL DEF Spec, KubeletJoinsLiveCluster

-----------------------------------------------------------------------------
(* The flows keep the promise of NodeBootstrap. *)

\* What the node has been given is never taken away.
LEMMA BootstrappedStays ==
  ASSUME FlowInv, UNCHANGED userData, settings \subseteq settings', phases \subseteq phases',
         settings' \subseteq {"kubernetes", "dns"}, Bootstrapped
  PROVE  Bootstrapped'
<1>1. settings = {"kubernetes", "dns"} => settings' = {"kubernetes", "dns"}
  OBVIOUS
<1>2. QED
  BY <1>1 DEF Bootstrapped

\* The last step of the flow is reached only on a bootstrapped node.
LEMMA EndsBootstrapped ==
  ASSUME FlowInv, At("DisableBootstrapContainer")
  PROVE  Bootstrapped
<1>1. pc = Len(program) /\ Ordered(program, userData) /\ Framed(program)
  BY ProgramOrdered DEF FlowInv, At, Running, Framed
<1>2. \A s \in EffectSteps : Has(program, s) => Before(s)
  BY <1>1 DEF EffectSteps, Has, Before, Framed
<1>3. userData.runcmd # "EtcdadmInvalid"
  BY <1>1, <1>2 DEF FlowInv, Effects, Ordered, EffectSteps
<1>4. userData.runcmd = "ControlPlaneInit" => settings = {"kubernetes", "dns"} /\ "finish" \in phases
  BY <1>1, <1>2 DEF FlowInv, TypeOK, Effects, Ordered, EffectSteps
<1>5. userData.runcmd = "ControlPlaneJoin" => settings = {"kubernetes", "dns"} /\ "finish" \in phases
  BY <1>1, <1>2 DEF FlowInv, Effects, Ordered, EffectSteps
<1>6. userData.runcmd = "WorkerJoin" => settings = {"kubernetes", "dns"}
  BY <1>1, <1>2 DEF FlowInv, Effects, Ordered, EffectSteps
<1>7. userData.runcmd = "EtcdadmJoin" => "membership" \in phases
  BY <1>1, <1>2 DEF FlowInv, Effects, Ordered, EffectSteps
<1>8. QED
  BY <1>3, <1>4, <1>5, <1>6, <1>7 DEF Bootstrapped, Kubeadm, ControlPlane

\* Every other step leaves the process running.
LEMMA StaysRunning ==
  ASSUME FlowInv, Running, Advance, program[pc] # "DisableBootstrapContainer"
  PROVE  Running /\ ~Exit0 /\ pc # 0 /\ Running' /\ ~Exit0' /\ pc' # 0
<1>1. Framed(program) /\ program' = program
  BY ProgramOrdered DEF FlowInv, Advance, program
<1>2. pc \in 1..Len(program) /\ pc # Len(program) /\ Len(program) \in Nat
  BY <1>1 DEF Running, Framed
<1>3. QED
  BY <1>1, <1>2 DEF Running, Exit0, Advance

\* A step that only works on the node is Work, or nothing NodeBootstrap sees.
LEMMA WorksOrStutters ==
  ASSUME FlowInv, Running, Advance, program[pc] # "DisableBootstrapContainer", UNCHANGED enabled,
         settings \subseteq settings', phases \subseteq phases',
         settings' \subseteq {"kubernetes", "dns"}
  PROVE  [Promise!Next]_(Promise!vars)
<1>1. Running /\ ~Exit0 /\ pc # 0 /\ Running' /\ ~Exit0' /\ pc' # 0
  BY StaysRunning
<1>2. Bootstrapped => Bootstrapped'
  BY BootstrappedStays DEF Advance
<1>3. QED
  BY <1>1, <1>2 DEF Promise!Next, Promise!Work, Promise!vars, Advance

\* Every step of the process and of the host is one that NodeBootstrap allows.
LEMMA PromiseStep == FlowInv /\ [Next]_vars => [Promise!Next]_(Promise!vars)
<1> SUFFICES ASSUME FlowInv, [Next]_vars PROVE [Promise!Next]_(Promise!vars)
  OBVIOUS
<1>0. settings \subseteq {"kubernetes", "dns"}
  BY DEF FlowInv, TypeOK
<1>1. CASE PlainStep
  <2>1. program[pc] # "DisableBootstrapContainer"
    BY <1>1 DEF PlainStep, Plain
  <2>2. QED
    BY <1>0, <1>1, <2>1, WorksOrStutters DEF PlainStep, node
<1>2. CASE acquireLock
  <2>1. /\ Running /\ Advance /\ program[pc] = "acquireLock" /\ UNCHANGED <<settings, phases>>
    BY <1>2 DEF acquireLock, At, node
  <2>2. CASE UNCHANGED enabled
    BY <1>0, <2>1, <2>2, WorksOrStutters
  <2>3. CASE marker /\ enabled' = FALSE
    <3>1. pc = 2
      BY <2>1, ProgramOrdered DEF FlowInv, Framed, Running
    <3>2. runs > 1
      BY <3>1, <2>3, FlowAssumption DEF FlowInv, TypeOK, LockFree, FlowAssumption
    <3>3. Running /\ ~Exit0 /\ pc # 0 /\ Running' /\ ~Exit0' /\ pc' # 0
      BY <2>1, StaysRunning
    <3>4. Bootstrapped' <=> Bootstrapped
      BY <2>1 DEF Bootstrapped, Advance
    <3>5. QED
      BY <2>1, <2>3, <3>2, <3>3, <3>4 DEF Promise!Next, Promise!GiveUp, Promise!vars, Advance
  <2>4. QED
    BY <1>2, <2>2, <2>3 DEF acquireLock
<1>3. CASE loadChunk
  <2>1. UNCHANGED <<userData, pc, runs, enabled, settings, phases>>
    BY <1>3 DEF loadChunk, node
  <2>2. UNCHANGED <<Exit0, Bootstrapped>>
    BY <2>1 DEF Exit0, program, Bootstrapped
  <2>3. QED
    BY <2>1, <2>2 DEF Promise!vars
<1>4. CASE resolveUserData
  BY <1>0, <1>4, WorksOrStutters DEF resolveUserData, At, node
<1>5. CASE WriteUserDataFiles
  BY <1>0, <1>5, WorksOrStutters DEF WriteUserDataFiles, At
<1>6. CASE patchKubeVipManifest
  BY <1>0, <1>6, WorksOrStutters DEF patchKubeVipManifest, At
<1>7. CASE writeManifest
  BY <1>0, <1>7, WorksOrStutters DEF writeManifest, At
<1>8. CASE EnableStaticPods
  BY <1>0, <1>8, WorksOrStutters DEF EnableStaticPods, At
<1>9. CASE WaitForPods
  BY <1>0, <1>9, WorksOrStutters DEF WaitForPods, At, node
<1>10. CASE clusterPhase
  BY <1>0, <1>10, WorksOrStutters DEF clusterPhase, At
<1>11. CASE apiclientSet
  BY <1>0, <1>11, WorksOrStutters DEF apiclientSet, At
<1>12. CASE DisableBootstrapContainer
  <2>1. /\ At("DisableBootstrapContainer") /\ Running /\ enabled' = FALSE
        /\ UNCHANGED <<userData, pc, runs, settings, phases>>
    BY <1>12 DEF DisableBootstrapContainer, At, process, node
  <2>2. pc # 0 /\ ~Exit0
    BY <2>1, ProgramOrdered DEF FlowInv, Running, Exit0, Framed
  <2>3. Bootstrapped /\ Bootstrapped' /\ Exit0' = Exit0
    BY <2>1, EndsBootstrapped DEF Bootstrapped, Exit0, program
  <2>4. QED
    BY <2>1, <2>2, <2>3 DEF Promise!Next, Promise!GiveUp, Promise!vars
<1>17. CASE exitSuccess
  <2>1. /\ At("DisableBootstrapContainer") /\ Running /\ Advance /\ ~enabled
        /\ UNCHANGED <<enabled, settings, phases>>
    BY <1>17 DEF exitSuccess, At, node
  <2>2. pc = Len(program) /\ Len(program) \in Nat /\ Len(program) > 5 /\ program' = program
    BY <2>1, ProgramOrdered DEF FlowInv, At, Running, Framed, Advance, program
  <2>3. pc # 0 /\ ~Exit0 /\ pc' # 0 /\ Exit0'
    BY <2>1, <2>2 DEF Exit0, Advance
  <2>4. Bootstrapped /\ Bootstrapped'
    BY <2>1, EndsBootstrapped DEF Bootstrapped, Advance
  <2>5. QED
    BY <2>1, <2>3, <2>4 DEF Promise!Next, Promise!Succeed, Promise!vars, Advance
<1>13. CASE EnableSomeStaticPods \/ ReadFails \/ Exit1
  <2>1. Running /\ pc' = 0 /\ UNCHANGED <<userData, runs, enabled, settings, phases>>
    BY <1>13 DEF EnableSomeStaticPods, ReadFails, Exit1, At, node
  <2>2. pc # 0 /\ ~Exit0
    BY <2>1, ProgramOrdered DEF FlowInv, Running, Exit0, Framed
  <2>3. Bootstrapped' <=> Bootstrapped
    BY <2>1 DEF Bootstrapped
  <2>4. QED
    BY <2>1, <2>2, <2>3 DEF Promise!Next, Promise!Fail, Promise!vars
<1>14. CASE Restart
  <2>1. /\ pc = 0 /\ enabled /\ pc' = 1 /\ runs' = runs + 1
        /\ UNCHANGED <<userData, enabled, settings, phases>>
    BY <1>14 DEF Restart, node
  <2>2. ~Exit0'
    BY <2>1, ProgramOrdered DEF FlowInv, Exit0, Framed, program
  <2>3. Bootstrapped' <=> Bootstrapped
    BY <2>1 DEF Bootstrapped
  <2>4. QED
    BY <2>1, <2>2, <2>3 DEF Promise!Next, Promise!Retry, Promise!vars
<1>15. CASE UNCHANGED vars
  <2>1. UNCHANGED <<userData, pc, runs, enabled, settings, phases>>
    BY <1>15 DEF vars, process, node
  <2>2. UNCHANGED <<Exit0, Bootstrapped>>
    BY <2>1 DEF Exit0, program, Bootstrapped
  <2>3. QED
    BY <2>1, <2>2 DEF Promise!vars
<1>18. QED
  BY <1>1, <1>2, <1>3, <1>4, <1>5, <1>6, <1>7, <1>8, <1>9, <1>10, <1>11, <1>12, <1>13, <1>14,
     <1>15, <1>17 DEF Next, Step

\* Bootstrap() implements NodeBootstrap, over any number of restarts: exit
\* code 0 only on a bootstrapped node and with the container disabled, and no
\* first run that gives the container up before, whenever the process dies.
THEOREM KeepsPromise == Spec => ImplementsNodeBootstrap
<1>1. Init => Promise!Init
  <2> SUFFICES ASSUME Init PROVE Promise!Init
    OBVIOUS
  <2>1. Len(program) \in Nat /\ Len(program) > 5
    BY FlowsOrdered DEF Init, program, Ordered, Framed
  <2>2. pc # 0 /\ ~Exit0
    BY <2>1 DEF Init, Exit0
  <2>3. QED
    BY <2>2 DEF Init, Promise!Init
<1>2. QED
  BY <1>1, PromiseStep, FlowInvariant, PTL DEF Spec, ImplementsNodeBootstrap, Promise!Spec
=============================================================================
