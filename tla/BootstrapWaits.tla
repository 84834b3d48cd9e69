--------------------------- MODULE BootstrapWaits ---------------------------
(***************************************************************************)
(* A run of the bootstrap container with its waits in detail: the flow of  *)
(* BootstrapFlow composed with the file, kubelet and liveness waiters, one *)
(* after the other, and with the EBS initialization beside them.  The wait *)
(* for the etcd manifest in joinLocalEtcd and the two API server waits     *)
(* stay single steps: they are the file and liveness waiters again.        *)
(***************************************************************************)
EXTENDS BootstrapFlow

CONSTANTS NumFiles, NumEntries, NumContainers, WaitTimeout, CrashDelay,
          ProbeTimeout, Attempt, Backoff
ASSUME WaitsAssumption ==
  /\ NumFiles \in Nat /\ NumEntries \in Nat /\ NumContainers \in Nat
  /\ WaitTimeout \in Nat /\ CrashDelay \in Nat
  /\ ProbeTimeout \in Nat \ {0} /\ Attempt \in Nat /\ Backoff \in Nat

VARIABLES
  file, child, checker, next, allFilesExist, statFailed, filesCancelled, filesTimer, filesResult,
  ebs, goroutine, unread, ebsTimer, ebsCancelled, ebsOutcome,
  kubeletCheck, kubelet, old, polled, statusChan, idle, slept, ran,
  probe, container, httpPc, httpResult, now, age, answered

Files == INSTANCE FileWaiter WITH
  cancelled <- filesCancelled, timer <- filesTimer, result <- filesResult
Ebs == INSTANCE EbsInit WITH
  NumFiles <- NumEntries, main <- ebs, timer <- ebsTimer, cancelled <- ebsCancelled,
  outcome <- ebsOutcome
Kubelet == INSTANCE KubeletWaiter WITH main <- kubeletCheck
Http == INSTANCE HttpWaiter WITH
  Timeout <- ProbeTimeout, pc <- httpPc, result <- httpResult

filesVars   == <<file, child, checker, next, allFilesExist, statFailed, filesCancelled, filesTimer,
                 filesResult>>
ebsVars     == <<ebs, goroutine, unread, ebsTimer, ebsCancelled, ebsOutcome>>
kubeletVars == <<kubeletCheck, kubelet, old, polled, statusChan, idle, slept, ran>>
httpVars    == <<probe, container, httpPc, httpResult, now, age, answered>>

waiters == <<filesVars, kubeletVars, httpVars>>

WaitsInit == Init /\ Files!Init /\ Ebs!Init /\ Kubelet!Init /\ Http!Init

-----------------------------------------------------------------------------
(* A wait of the flow: the waiter's steps, then the step of the flow that   *)
(* its result stands for.                                                   *)
Detailed == {"joinFiles", "waitForActiveKubelet", "WaitForPods", "startEbsInit", "checkEbsInit"}

OtherStep ==
  /\ Running /\ program[pc] \notin Detailed
  /\ Step
  /\ UNCHANGED <<waiters, ebsVars>>

FilesStep ==
  /\ At("joinFiles")
  /\ Files!TimerFires \/ Files!Goroutine \/ Files!Caller
  /\ UNCHANGED <<vars, ebsVars, kubeletVars, httpVars>>

\* kubeadm writes, also after it was killed.  Behind the steps that read its
\* files nothing of the flow depends on them.
Readers == {"joinFiles", "getDNSFromJoinConfig", "getBootstrapFromJoinConfig", "getEncodedCA"}
KubeadmStep ==
  /\ Running /\ program[pc] \in Readers
  /\ Files!Child
  /\ UNCHANGED <<vars, ebsVars, kubeletVars, httpVars>>

\* killCmdAfterJoinFilesGeneration has returned.
FilesDone ==
  /\ At("joinFiles")
  /\ filesResult \in {"ok", "timeout"}
  /\ IF filesResult = "ok" THEN PlainStep ELSE Exit1
  /\ UNCHANGED <<waiters, ebsVars>>

KubeletStep ==
  /\ At("waitForActiveKubelet")
  /\ Kubelet!Next
  /\ UNCHANGED <<vars, ebsVars, filesVars, httpVars>>

\* Mutant: the error of waitForActiveKubelet is dropped.
KubeletDoneUnchecked ==
  /\ At("waitForActiveKubelet")
  /\ kubeletCheck \in {"ok", "error"}
  /\ PlainStep
  /\ UNCHANGED <<waiters, ebsVars>>

\* waitForActiveKubelet has returned.
KubeletDone ==
  /\ At("waitForActiveKubelet")
  /\ kubeletCheck \in {"ok", "error"}
  /\ IF kubeletCheck = "ok" THEN PlainStep ELSE Exit1
  /\ UNCHANGED <<waiters, ebsVars>>

HttpStep ==
  /\ At("WaitForPods")
  /\ Http!Next
  /\ UNCHANGED <<vars, ebsVars, filesVars, kubeletVars>>

\* WaitForPods has returned, or panicked.
HttpDone ==
  /\ At("WaitForPods")
  /\ httpPc = "returned"
  /\ IF httpResult = "ok" THEN WaitForPods ELSE Exit1
  /\ UNCHANGED <<waiters, ebsVars>>

EbsStart ==
  /\ At("startEbsInit")
  /\ Ebs!startEbsInit
  /\ PlainStep
  /\ UNCHANGED waiters

\* The goroutine and its timer.  Up to checkEbsInit their steps commute with
\* every other step of the flow, so they are taken there.
EbsBackground ==
  /\ At("checkEbsInit")
  /\ Ebs!Background
  /\ UNCHANGED <<vars, waiters>>

EbsCheck ==
  /\ At("checkEbsInit")
  /\ Ebs!NoControl \/ Ebs!Check \/ Ebs!Select
  /\ UNCHANGED <<vars, waiters>>

EbsDone ==
  /\ At("checkEbsInit")
  /\ ebs = "done"
  /\ PlainStep
  /\ UNCHANGED <<waiters, ebsVars>>

\* Any other failure, or a kill.
Dies == Exit1 /\ UNCHANGED <<waiters, ebsVars>>

\* The caller of a wait goes on with its result.
Returns == FilesDone \/ KubeletDone \/ HttpDone \/ EbsCheck \/ EbsDone

WaitsNext == \/ OtherStep \/ EbsStart \/ Returns \/ Dies
             \/ FilesStep \/ KubeadmStep \/ KubeletStep \/ HttpStep \/ EbsBackground

allVars == <<vars, waiters, ebsVars>>

\* The caller of a wait, the goroutines that wait for files and the timers are
\* scheduled; systemd's bus accepts connections; attempts end and time passes.
\* Nothing is assumed of kubeadm, of any other command of the flow, of the
\* polls, of the EBS walk, or of the endpoints.
WaitsSpec ==
  /\ WaitsInit /\ [][WaitsNext]_allVars
  /\ WF_allVars(Returns)
  /\ WF_allVars(At("joinFiles") /\ Files!Caller /\ UNCHANGED <<vars, ebsVars, kubeletVars, httpVars>>)
  /\ WF_allVars(At("joinFiles") /\ Files!TimerFires /\ UNCHANGED <<vars, ebsVars, kubeletVars, httpVars>>)
  /\ WF_allVars(At("waitForActiveKubelet") /\ Kubelet!Step /\ UNCHANGED <<vars, ebsVars, filesVars, httpVars>>)
  /\ WF_allVars(At("WaitForPods") /\ Http!Step /\ UNCHANGED <<vars, ebsVars, filesVars, kubeletVars>>)
  /\ WF_allVars(At("WaitForPods") /\ Http!Tick /\ UNCHANGED <<vars, ebsVars, filesVars, kubeletVars>>)
  /\ WF_allVars(At("checkEbsInit") /\ Ebs!TimerFires /\ UNCHANGED <<vars, waiters>>)

-----------------------------------------------------------------------------
WaitsTypeOK == TypeOK /\ Files!TypeOK /\ Ebs!TypeOK /\ Kubelet!TypeOK /\ Http!TypeOK

\* killCmdAfterJoinFilesGeneration returns nil only if every file was created
\* or could not be looked at, although the files are looked at one by one while
\* kubeadm still writes, and stays so while the flow reads them.
OkMeansCreated == Files!OkMeansCreated

\* waitForActiveKubelet returns nil only if the kubelet really was running
\* after the 20 second sleep.
FreshOk == Kubelet!FreshOk

\* A call of WaitFor200 outlasts its timeout by less than an attempt and a sleep.
CallBounded == Http!CallBounded

\* WaitForPods returns nil only if every liveness probe has answered 200 OK.
OkMeansAllUp == Http!OkMeansAllUp

\* The process ends with exit code 0 only if every wait of its flow ended
\* well and the EBS initialization was waited for.
SuccessNeedsEveryWait ==
  Exit0 => LET steps == {program[i] : i \in 1..Len(program)} IN
    /\ "joinFiles" \in steps => filesResult = "ok"
    /\ "waitForActiveKubelet" \in steps => kubeletCheck = "ok"
    /\ "WaitForPods" \in steps => httpResult = "ok"
    /\ "checkEbsInit" \in steps => ebs = "done"

InWait == Running /\ program[pc] \in Detailed \ {"startEbsInit"}

\* No wait holds the flow for ever: not for a kubeadm join that hangs, a silent
\* endpoint, a kubelet that does not start or a stuck EBS read, unless the
\* units of the host never stop to change, each change restarting the timer of
\* the kubelet wait.  (The commands between the waits have no timeout.)
WaitsEnd == []<>~InWait \/ []<><<Kubelet!UnitChanges>>_allVars
=============================================================================
