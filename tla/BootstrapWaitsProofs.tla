------------------------ MODULE BootstrapWaitsProofs ------------------------
(***************************************************************************)
(* Safety of a run with its waits in detail, for any number of files,      *)
(* containers and directory entries and for any timeouts.  The run is one  *)
(* of BootstrapFlow, so what is proved of the flows holds of it as well.   *)
(***************************************************************************)
EXTENDS BootstrapWaits, BootstrapFlowProofs

HttpProof == INSTANCE HttpWaiterProofs WITH
  Timeout <- ProbeTimeout, pc <- httpPc, result <- httpResult

-----------------------------------------------------------------------------
(* The inductive invariant, waiter by waiter. *)

\* The goroutine's round: the files it has looked at are there, or their Stat
\* failed in another way.
FilesInv ==
  /\ filesResult = "idle" => checker = "returned" /\ child = "exited"
  /\ filesResult = "ok" => checker = "returned"
  /\ checker = "stat" /\ allFilesExist =>
       \A f \in 1..NumFiles : f < next => file[f] # "absent" \/ f \in statFailed
  /\ checker = "send" \/ filesResult = "ok" =>
       \A f \in 1..NumFiles : file[f] # "absent" \/ f \in statFailed

\* While a call waits, the history knows of every state its subscription or
\* the kubelet itself shows.
KubeletInv ==
  /\ kubeletCheck = "idle" => statusChan = "none"
  /\ /\ kubeletCheck \in {"wait1", "wait2"}
     /\ kubelet = Kubelet!Running \/ statusChan = Kubelet!Running
     => ran
  /\ kubeletCheck \in {"wait2", "ok"} => slept = CrashDelay
  /\ kubeletCheck = "ok" => ran

\* A result is final.
HttpFinal == httpResult # "none" => httpPc = "returned"

\* The flow is past a wait only if the wait ended well.
WaitsPassed ==
  /\ Before("joinFiles") => filesResult = "ok"
  /\ Before("waitForActiveKubelet") => kubeletCheck = "ok"
  /\ Before("WaitForPods") => httpResult = "ok"
  /\ Before("checkEbsInit") => ebs = "done"

WaitsInv ==
  /\ FlowInv
  /\ Files!TypeOK /\ FilesInv
  /\ Ebs!TypeOK
  /\ Kubelet!TypeOK /\ KubeletInv
  /\ Http!TypeOK /\ Http!HttpInv /\ HttpFinal
  /\ WaitsPassed

-----------------------------------------------------------------------------
(* The run is a run of the flow. *)

\* A step of a waiter is none of the flow's; the end of a wait is the step of
\* the flow that its result stands for.
LEMMA WaitsStepIsFlowStep == [WaitsNext]_allVars => [Next]_vars
<1> SUFFICES ASSUME [WaitsNext]_allVars PROVE [Next]_vars
  OBVIOUS
<1>1. CASE OtherStep
  BY <1>1 DEF OtherStep, Next
<1>2. CASE FilesDone \/ KubeletDone \/ HttpDone \/ EbsStart \/ EbsDone
  BY <1>2 DEF FilesDone, KubeletDone, HttpDone, EbsStart, EbsDone, Next, Step
<1>3. CASE FilesStep \/ KubeadmStep \/ KubeletStep \/ HttpStep \/ EbsBackground \/ EbsCheck
  BY <1>3 DEF FilesStep, KubeadmStep, KubeletStep, HttpStep, EbsBackground, EbsCheck
<1>4. CASE Dies
  BY <1>4 DEF Dies, Next
<1>5. CASE UNCHANGED allVars
  BY <1>5 DEF allVars
<1>6. QED
  BY <1>1, <1>2, <1>3, <1>4, <1>5 DEF WaitsNext, Returns

\* The detailed waits implement the single steps of BootstrapFlow, so all that
\* is proved of its flows holds with the waits in detail.
THEOREM WaitsImplementFlow == WaitsSpec => Spec
<1>1. WaitsInit => Init
  BY DEF WaitsInit
<1>2. QED
  BY <1>1, WaitsStepIsFlowStep, PTL DEF WaitsSpec, Spec

-----------------------------------------------------------------------------
(* The waiters. *)

\* KillCmdAfterFilesGeneration: kubeadm, the goroutine, the timer, the caller.
FilesOK == Files!TypeOK /\ FilesInv
LEMMA FilesKeep ==
  ASSUME FilesOK, Files!Next
  PROVE  FilesOK' /\ (filesResult = "ok" => filesResult' = "ok")
<1>0. Files!TypeOK /\ FilesInv
  BY DEF FilesOK
<1> USE <1>0, WaitsAssumption DEF WaitsAssumption, Files!TypeOK, FilesInv, Files!checkFiles
<1>1. CASE Files!Call
  BY <1>1 DEF FilesOK, Files!Call
<1>2. ASSUME NEW f \in Files!checkFiles, Files!Create(f) \/ Files!Fill(f)
      PROVE  FilesOK' /\ filesResult' = filesResult
  <2>1. /\ file' = [file EXCEPT ![f] = "partial"] \/ file' = [file EXCEPT ![f] = "written"]
        /\ UNCHANGED <<child, checker, next, allFilesExist, statFailed, filesCancelled, filesTimer,
                       filesResult>>
    BY <1>2 DEF Files!Create, Files!Fill
  <2>2. file' \in [1..NumFiles -> {"absent", "partial", "written"}]
    BY <2>1
  <2>3. \A g \in 1..NumFiles : file[g] # "absent" => file'[g] # "absent"
    BY <2>1
  <2>4. Files!TypeOK'
    BY <2>1, <2>2
  <2>5. FilesInv'
    BY <2>1, <2>3
  <2>6. QED
    BY <2>1, <2>4, <2>5 DEF FilesOK
<1>3. CASE Files!Exit
  BY <1>3 DEF FilesOK, Files!Exit, Files!Alive
<1>4. CASE Files!TimerFires
  BY <1>4 DEF FilesOK, Files!TimerFires
<1>5. CASE Files!Wake
  BY <1>5 DEF FilesOK, Files!Wake
<1>6. CASE Files!Stat
  <2>1. Files!TypeOK'
    <3>1. next \in 1..NumFiles /\ next' = next + 1
      BY <1>6, Zenon DEF Files!Stat
    <3>2. next' \in 1..(NumFiles + 1)
      BY <3>1
    <3>3. allFilesExist' \in BOOLEAN /\ statFailed' \subseteq 1..NumFiles
      BY <1>6, <3>1, Zenon DEF Files!Stat
    <3>4. QED
      BY <3>2, <3>3, <1>6, Zenon DEF Files!Stat
  <2>2. FilesInv'
    <3>1. /\ allFilesExist' => allFilesExist /\ (file[next] # "absent" \/ next \in statFailed')
          /\ statFailed \subseteq statFailed'
      <4>1. CASE allFilesExist' = (allFilesExist /\ file[next] # "absent") /\ UNCHANGED statFailed
        BY <4>1
      <4>2. CASE statFailed' = statFailed \cup {next} /\ UNCHANGED allFilesExist
        BY <4>2
      <4>3. QED
        BY <1>6, <4>1, <4>2 DEF Files!Stat
    <3>2. QED
      BY <3>1, <1>6 DEF Files!Stat
  <2>3. filesResult = "ok" => filesResult' = "ok"
    BY <1>6 DEF Files!Stat
  <2>4. QED
    BY <2>1, <2>2, <2>3 DEF FilesOK
<1>7. CASE Files!RoundDone
  BY <1>7 DEF FilesOK, Files!RoundDone
<1>8. CASE Files!ReceiveOk
  <2>1. Files!TypeOK'
    <3>1. child' \in {"running", "signalled", "exited"} /\ next' \in 1..(NumFiles + 1)
      BY <1>8 DEF Files!ReceiveOk, Files!Kill
    <3>2. QED
      BY <3>1, <1>8, Zenon DEF Files!ReceiveOk
  <2>2. FilesInv'
    BY <1>8 DEF Files!ReceiveOk, Files!Kill
  <2>3. filesResult = "ok" => filesResult' = "ok"
    BY <1>8 DEF Files!ReceiveOk, Files!Kill
  <2>4. QED
    BY <2>1, <2>2, <2>3 DEF FilesOK
<1>9. CASE Files!Timeout
  BY <1>9 DEF FilesOK, Files!Timeout, Files!Kill
<1>10. QED
  BY <1>1, <1>2, <1>3, <1>4, <1>5, <1>6, <1>7, <1>8, <1>9
     DEF Files!Next, Files!Child, Files!Goroutine, Files!Caller

\* waitForActiveKubelet: the kubelet, the subscriptions and the two waits.
KubeletOK == Kubelet!TypeOK /\ KubeletInv
LEMMA KubeletKeeps ==
  ASSUME KubeletOK, Kubelet!Next
  PROVE  KubeletOK' /\ (kubeletCheck = "ok" => kubeletCheck' = "ok")
<1>0. Kubelet!TypeOK /\ KubeletInv
  BY DEF KubeletOK
<1> USE <1>0, WaitsAssumption DEF WaitsAssumption, Kubelet!TypeOK, KubeletInv, Kubelet!UnitStatus,
                            Kubelet!Running, Kubelet!Waiting, Kubelet!sub
<1>1. CASE Kubelet!Call
  <2>1. Kubelet!TypeOK'
    BY <1>1 DEF Kubelet!Call
  <2>2. KubeletInv'
    BY <1>1 DEF Kubelet!Call
  <2>3. kubeletCheck = "ok" => kubeletCheck' = "ok"
    BY <1>1 DEF Kubelet!Call
  <2>4. QED
    BY <2>1, <2>2, <2>3 DEF KubeletOK
<1>2. CASE Kubelet!KubeletChanges
  <2>1. Kubelet!TypeOK'
    BY <1>2 DEF Kubelet!KubeletChanges
  <2>2. KubeletInv'
    BY <1>2 DEF Kubelet!KubeletChanges
  <2>3. kubeletCheck = "ok" => kubeletCheck' = "ok"
    BY <1>2 DEF Kubelet!KubeletChanges
  <2>4. QED
    BY <2>1, <2>2, <2>3 DEF KubeletOK
<1>3. CASE Kubelet!Poll
  BY <1>3 DEF KubeletOK, Kubelet!Poll, Kubelet!isChanged
<1>4. CASE Kubelet!Receive
  <2>1. Kubelet!TypeOK'
    <3>1. idle' \in 0..WaitTimeout
      BY <1>4 DEF Kubelet!Receive, Kubelet!IsUp, Kubelet!ReturnNil, Kubelet!NextSelect
    <3>2. QED
      BY <3>1, <1>4, Zenon DEF Kubelet!Receive, Kubelet!IsUp, Kubelet!ReturnNil, Kubelet!NextSelect
  <2>2. KubeletInv'
    BY <1>4 DEF Kubelet!Receive, Kubelet!IsUp, Kubelet!ReturnNil, Kubelet!NextSelect
  <2>3. kubeletCheck = "ok" => kubeletCheck' = "ok"
    BY <1>4 DEF Kubelet!Receive, Kubelet!IsUp, Kubelet!ReturnNil, Kubelet!NextSelect
  <2>4. QED
    BY <2>1, <2>2, <2>3 DEF KubeletOK
<1>5. CASE Kubelet!ConnError \/ Kubelet!TimedOut
  BY <1>5 DEF KubeletOK, Kubelet!ConnError, Kubelet!TimedOut, Kubelet!Fail
<1>6. CASE Kubelet!Wake
  <2>1. Kubelet!TypeOK'
    <3>1. idle' \in 0..WaitTimeout
      BY <1>6 DEF Kubelet!Wake, Kubelet!Subscribe
    <3>2. QED
      BY <3>1, <1>6, Zenon DEF Kubelet!Wake, Kubelet!Subscribe
  <2>2. KubeletInv'
    BY <1>6 DEF Kubelet!Wake, Kubelet!Subscribe
  <2>3. kubeletCheck = "ok" => kubeletCheck' = "ok"
    BY <1>6 DEF Kubelet!Wake, Kubelet!Subscribe
  <2>4. QED
    BY <2>1, <2>2, <2>3 DEF KubeletOK
<1>7. CASE Kubelet!TickWait
  <2>1. Kubelet!TypeOK'
    <3>1. idle' \in 0..WaitTimeout
      BY <1>7 DEF Kubelet!TickWait
    <3>2. QED
      BY <3>1, <1>7, Zenon DEF Kubelet!TickWait
  <2>2. KubeletInv'
    BY <1>7 DEF Kubelet!TickWait
  <2>3. kubeletCheck = "ok" => kubeletCheck' = "ok"
    BY <1>7 DEF Kubelet!TickWait
  <2>4. QED
    BY <2>1, <2>2, <2>3 DEF KubeletOK
<1>8. CASE Kubelet!TickSleep
  BY <1>8 DEF KubeletOK, Kubelet!TickSleep
<1>9. QED
  BY <1>1, <1>2, <1>3, <1>4, <1>5, <1>6, <1>7, <1>8 DEF Kubelet!Next, Kubelet!Step

\* startEbsInit, its goroutine and timer, and checkEbsInit.
LEMMA EbsKeeps ==
  ASSUME Ebs!TypeOK, Ebs!Next
  PROVE  Ebs!TypeOK' /\ (ebs = "done" => ebs' = "done")
<1> USE WaitsAssumption DEF WaitsAssumption, Ebs!TypeOK
<1>1. CASE Ebs!startEbsInit
  BY <1>1 DEF Ebs!startEbsInit
<1>2. CASE Ebs!walkDirFunc
  BY <1>2 DEF Ebs!walkDirFunc
<1>6. CASE Ebs!Loop \/ Ebs!readFilesDone \/ Ebs!TimerFires
  BY <1>6 DEF Ebs!Loop, Ebs!readFilesDone, Ebs!TimerFires
<1>3. CASE Ebs!NoControl \/ Ebs!Check
  BY <1>3 DEF Ebs!NoControl, Ebs!Check
<1>4. CASE Ebs!Select
  BY <1>4 DEF Ebs!Select, Ebs!checkEbsInitTimeout, Ebs!checkEbsInitOk
<1>5. QED
  BY <1>1, <1>2, <1>3, <1>4, <1>6 DEF Ebs!Next, Ebs!Background

\* WaitForPods: the invariant of its own proof, and a result that is final.
HttpOK == Http!TypeOK /\ Http!HttpInv /\ HttpFinal
LEMMA HttpKeeps ==
  ASSUME HttpOK, Http!Next
  PROVE  HttpOK' /\ (httpResult = "ok" => httpResult' = "ok")
<1>1. HttpProof!Durations
  BY WaitsAssumption DEF WaitsAssumption, HttpProof!Durations
<1>2. HttpProof!TypeOK <=> Http!TypeOK
  BY DEF HttpProof!TypeOK, Http!TypeOK, HttpProof!containers, Http!containers
<1>3. HttpProof!HttpInv <=> Http!HttpInv
  BY DEF HttpProof!HttpInv, Http!HttpInv, HttpProof!CallBounded, Http!CallBounded,
         HttpProof!containers, Http!containers
<1>4. HttpProof!Next
  BY DEF Http!Next, Http!Step, Http!Tick, Http!Call, Http!SkipContainer, Http!NoHTTPGet,
         Http!WaitFor200, Http!AllProbed, Http!SelectTimeout, Http!SelectDefault, Http!Get200,
         Http!GetFails, Http!BodyError, Http!Wake, Http!Return, Http!TimeoutSignal, Http!containers,
         HttpProof!Next, HttpProof!Step, HttpProof!Tick, HttpProof!Call, HttpProof!SkipContainer,
         HttpProof!NoHTTPGet, HttpProof!WaitFor200, HttpProof!AllProbed, HttpProof!SelectTimeout,
         HttpProof!SelectDefault, HttpProof!Get200, HttpProof!GetFails, HttpProof!BodyError,
         HttpProof!Wake, HttpProof!Return, HttpProof!TimeoutSignal, HttpProof!containers
<1>5. HttpProof!TypeOK' /\ HttpProof!HttpInv'
  BY <1>1, <1>2, <1>3, <1>4, HttpProof!HttpTypes, HttpProof!HttpStep DEF HttpOK
<1>6. Http!TypeOK' /\ Http!HttpInv'
  BY <1>5 DEF HttpProof!HttpInv, Http!HttpInv, HttpProof!CallBounded, Http!CallBounded,
              HttpProof!TypeOK, Http!TypeOK, HttpProof!containers, Http!containers
<1>7. HttpFinal' /\ (httpResult = "ok" => httpResult' = "ok")
  BY DEF HttpOK, HttpFinal, Http!Next, Http!Step, Http!Tick, Http!Call, Http!SkipContainer,
         Http!NoHTTPGet, Http!WaitFor200, Http!AllProbed, Http!SelectTimeout, Http!SelectDefault,
         Http!Get200, Http!GetFails, Http!BodyError, Http!Wake, Http!Return
<1>8. QED
  BY <1>6, <1>7 DEF HttpOK

-----------------------------------------------------------------------------
(* The composition. *)

\* A step of the run is a step of a waiter or leaves the waiter alone.
LEMMA WaitersStep ==
  ASSUME [WaitsNext]_allVars
  PROVE  /\ Files!Next \/ UNCHANGED filesVars
         /\ Kubelet!Next \/ UNCHANGED kubeletVars
         /\ Http!Next \/ UNCHANGED httpVars
         /\ Ebs!Next \/ UNCHANGED ebsVars
<1>1. CASE OtherStep \/ FilesDone \/ KubeletDone \/ HttpDone \/ EbsDone \/ Dies
  BY <1>1 DEF OtherStep, FilesDone, KubeletDone, HttpDone, EbsDone, Dies, waiters
<1>2. CASE FilesStep \/ KubeadmStep
  BY <1>2 DEF FilesStep, KubeadmStep, Files!Next
<1>3. CASE KubeletStep
  BY <1>3 DEF KubeletStep
<1>4. CASE HttpStep
  BY <1>4 DEF HttpStep
<1>5. CASE EbsStart \/ EbsBackground \/ EbsCheck
  BY <1>5 DEF EbsStart, EbsBackground, EbsCheck, Ebs!Next, waiters
<1>6. CASE UNCHANGED allVars
  <2>1. waiters' = waiters /\ UNCHANGED ebsVars
    BY <1>6 DEF allVars
  <2>2. UNCHANGED filesVars /\ UNCHANGED kubeletVars /\ UNCHANGED httpVars
    BY <2>1, Zenon DEF waiters
  <2>3. QED
    BY <2>1, <2>2
<1>7. QED
  BY <1>1, <1>2, <1>3, <1>4, <1>5, <1>6 DEF WaitsNext, Returns

\* The flow passes a step only by taking it.
LEMMA PassedBy ==
  ASSUME FlowInv, [Next]_vars, NEW s, Before(s)'
  PROVE  Before(s) \/ (At(s) /\ pc' = pc + 1)
<1>1. CASE UNCHANGED <<userData, pc>>
  BY <1>1 DEF Before, program
<1>2. CASE pc' \in {0, 1}
  BY <1>2, PastNothing
<1>3. CASE Running /\ Advance
  BY <1>3, Past, ProgramOrdered DEF FlowInv, At, Advance
<1>4. QED
  BY <1>1, <1>2, <1>3
     DEF Next, Step, PlainStep, acquireLock, loadChunk, resolveUserData, WriteUserDataFiles,
         patchKubeVipManifest, writeManifest, EnableStaticPods, EnableSomeStaticPods, WaitForPods,
         clusterPhase, apiclientSet, DisableBootstrapContainer, exitSuccess, ReadFails, Exit1, Restart,
         vars, process, At

\* A wait is passed only with its good result.
LEMMA WaitEnds ==
  ASSUME FlowInv, [WaitsNext]_allVars, Running, pc' = pc + 1
  PROVE  /\ At("joinFiles") => filesResult = "ok"
         /\ At("waitForActiveKubelet") => kubeletCheck = "ok"
         /\ At("WaitForPods") => httpResult = "ok"
         /\ At("checkEbsInit") => ebs = "done"
<1>1. pc \in Nat /\ pc' # pc /\ pc' # 0
  BY ProgramOrdered DEF FlowInv, Running, Framed
<1>2. OtherStep \/ FilesDone \/ KubeletDone \/ HttpDone \/ EbsStart \/ EbsDone
  BY <1>1 DEF WaitsNext, Returns, FilesStep, KubeadmStep, KubeletStep, HttpStep, EbsBackground, EbsCheck, Dies,
              Exit1, allVars, vars, process
<1>3. CASE OtherStep
  BY <1>3 DEF OtherStep, Detailed, At
<1>4. CASE FilesDone
  BY <1>1, <1>4 DEF FilesDone, Exit1, At
<1>5. CASE KubeletDone
  BY <1>1, <1>5 DEF KubeletDone, Exit1, At
<1>6. CASE HttpDone
  BY <1>1, <1>6 DEF HttpDone, Exit1, At
<1>7. CASE EbsStart \/ EbsDone
  BY <1>7 DEF EbsStart, EbsDone, At
<1>8. QED
  BY <1>2, <1>3, <1>4, <1>5, <1>6, <1>7

\* The run starts with idle waiters.
LEMMA WaitsInvInit == WaitsInit => WaitsInv
<1> SUFFICES ASSUME WaitsInit PROVE WaitsInv
  OBVIOUS
<1>0. /\ 1 \in 1..(NumFiles + 1) /\ NumEntries \in 0..NumEntries /\ 0 \in 0..WaitTimeout
      /\ 0 \in 0..(WaitTimeout + 1) /\ 0 \in 0..CrashDelay
  BY WaitsAssumption DEF WaitsAssumption
<1>1. FlowInv
  BY FlowInit DEF WaitsInit
<1>2. FilesOK
  BY <1>0, Zenon DEF WaitsInit, Files!Init, FilesOK, Files!TypeOK, FilesInv, Files!checkFiles
<1>3. Ebs!TypeOK
  BY <1>0, Zenon DEF WaitsInit, Ebs!Init, Ebs!TypeOK
<1>4. KubeletOK
  <2>1. Kubelet!TypeOK
    BY <1>0, Zenon DEF WaitsInit, Kubelet!Init, Kubelet!TypeOK, Kubelet!UnitStatus
  <2>2. KubeletInv
    BY DEF WaitsInit, Kubelet!Init, KubeletInv
  <2>3. QED
    BY <2>1, <2>2 DEF KubeletOK
<1>5. HttpOK
  BY WaitsAssumption
     DEF WaitsAssumption, WaitsInit, Http!Init, HttpOK, HttpFinal, Http!TypeOK, Http!HttpInv, Http!CallBounded,
         Http!containers
<1>6. WaitsPassed
  BY DEF WaitsInit, Init, WaitsPassed, Before
<1>7. QED
  BY <1>1, <1>2, <1>3, <1>4, <1>5, <1>6 DEF WaitsInv, FilesOK, KubeletOK, HttpOK

\* Every step of the run.
LEMMA WaitsInvStep == WaitsInv /\ [WaitsNext]_allVars => WaitsInv'
<1> SUFFICES ASSUME WaitsInv, [WaitsNext]_allVars PROVE WaitsInv'
  OBVIOUS
<1>0. FilesOK /\ KubeletOK /\ HttpOK /\ Ebs!TypeOK /\ FlowInv /\ WaitsPassed
  BY DEF WaitsInv, FilesOK, KubeletOK, HttpOK
<1>1. FlowInv'
  BY <1>0, WaitsStepIsFlowStep, FlowStep
<1>2. FilesOK' /\ (filesResult = "ok" => filesResult' = "ok")
  <2>1. CASE UNCHANGED filesVars
    BY <1>0, <2>1 DEF filesVars, FilesOK, Files!TypeOK, FilesInv, Files!checkFiles
  <2>2. QED
    BY <1>0, <2>1, WaitersStep, FilesKeep
<1>3. KubeletOK' /\ (kubeletCheck = "ok" => kubeletCheck' = "ok")
  <2>1. CASE UNCHANGED kubeletVars
    BY <1>0, <2>1 DEF kubeletVars, KubeletOK, Kubelet!TypeOK, KubeletInv
  <2>2. QED
    BY <1>0, <2>1, WaitersStep, KubeletKeeps
<1>4. HttpOK' /\ (httpResult = "ok" => httpResult' = "ok")
  <2>1. CASE UNCHANGED httpVars
    BY <1>0, <2>1 DEF httpVars, HttpOK, Http!TypeOK, Http!HttpInv, Http!CallBounded, HttpFinal,
                      Http!containers
  <2>2. QED
    BY <1>0, <2>1, WaitersStep, HttpKeeps
<1>5. Ebs!TypeOK' /\ (ebs = "done" => ebs' = "done")
  <2>1. CASE UNCHANGED ebsVars
    BY <1>0, <2>1 DEF ebsVars, Ebs!TypeOK
  <2>2. QED
    BY <1>0, <2>1, WaitersStep, EbsKeeps
<1>6. WaitsPassed'
  <2>1. \A s : Before(s)' => Before(s) \/ (At(s) /\ pc' = pc + 1)
    BY <1>0, WaitsStepIsFlowStep, PassedBy
  <2>2. QED
    BY <1>0, <1>2, <1>3, <1>4, <1>5, <2>1, WaitEnds DEF WaitsPassed, At
<1>7. QED
  BY <1>1, <1>2, <1>3, <1>4, <1>5, <1>6 DEF WaitsInv, FilesOK, KubeletOK, HttpOK

\* The inductive invariant holds in every run, for all constants.
THEOREM WaitsInvariant == WaitsSpec => []WaitsInv
BY WaitsInvInit, WaitsInvStep, PTL DEF WaitsSpec

\* The flow and its waiters keep their types.
THEOREM WaitsTyped == WaitsSpec => []WaitsTypeOK
<1>1. WaitsInv => WaitsTypeOK
  BY DEF WaitsInv, FlowInv, WaitsTypeOK
<1>2. QED
  BY <1>1, WaitsInvariant, PTL

\* killCmdAfterJoinFilesGeneration returns nil only with every file created or
\* impossible to look at, for any number of files and whatever kubeadm does
\* between two stats.
THEOREM NilMeansCreated == WaitsSpec => []OkMeansCreated
<1>1. WaitsInv => OkMeansCreated
  BY DEF WaitsInv, FilesInv, OkMeansCreated, Files!OkMeansCreated, Files!checkFiles
<1>2. QED
  BY <1>1, WaitsInvariant, PTL

\* waitForActiveKubelet returns nil only on a fresh status of a running
\* kubelet, for all timeouts and any number of unit changes.
THEOREM NilMeansFresh == WaitsSpec => []FreshOk
<1>1. WaitsInv => FreshOk
  BY DEF WaitsInv, KubeletInv, FreshOk, Kubelet!FreshOk
<1>2. QED
  BY <1>1, WaitsInvariant, PTL

\* In the composed run, too, a call of WaitFor200 is bounded.
THEOREM WaitsCallBounded == WaitsSpec => []CallBounded
<1>1. WaitsInv => CallBounded
  BY DEF WaitsInv, Http!HttpInv, CallBounded
<1>2. QED
  BY <1>1, WaitsInvariant, PTL

\* In the composed run, too, WaitForPods returns nil only if every probed
\* container has answered.
THEOREM WaitsAllUp == WaitsSpec => []OkMeansAllUp
<1>1. WaitsInv => OkMeansAllUp
  BY WaitsAssumption DEF WaitsAssumption, WaitsInv, Http!TypeOK, Http!HttpInv, OkMeansAllUp,
                         Http!OkMeansAllUp, Http!containers
<1>2. QED
  BY <1>1, WaitsInvariant, PTL

\* The process ends with exit code 0 only if every wait of its flow ended well
\* and the EBS initialization was waited for.
THEOREM SuccessAfterEveryWait == WaitsSpec => []SuccessNeedsEveryWait
<1>1. WaitsInv => SuccessNeedsEveryWait
  <2> SUFFICES ASSUME WaitsInv, Exit0 PROVE SuccessNeedsEveryWait
    BY DEF SuccessNeedsEveryWait
  <2>1. \A s : s \in {program[i] : i \in 1..Len(program)} => Before(s)
    BY AllPast, ProgramOrdered DEF WaitsInv, FlowInv, Has
  <2>2. QED
    BY <2>1 DEF WaitsInv, WaitsPassed, SuccessNeedsEveryWait
<1>2. QED
  BY <1>1, WaitsInvariant, PTL
=============================================================================
