----------------------------- MODULE FileWaiter -----------------------------
(***************************************************************************)
(* KillCmdAfterFilesGeneration: a kubeadm child process writes files, a    *)
(* goroutine polls for them, and the caller waits for the goroutine or a   *)
(* timer, then kills the child and reads what it wrote.  The callers are   *)
(* killCmdAfterJoinFilesGeneration (three files) and joinLocalEtcd (one).  *)
(*                                                                         *)
(* A file is absent, partial (created, possibly empty) or written.         *)
(* os.Stat says so, or fails with an error that the goroutine takes for    *)
(* "exists".  The 40 s timer may fire at any point of the interleaving.    *)
(* Process.Kill only sends a signal, nobody waits for the child, and the   *)
(* error of Kill is ignored: the child may write on after the call has     *)
(* returned.                                                               *)
(***************************************************************************)
EXTENDS Naturals

CONSTANT NumFiles   \* length of checkFiles

VARIABLES
  file,     \* the state of each of the checkFiles
  child,    \* the kubeadm command: "running", "signalled" by Kill, or "exited"
  checker,  \* where the goroutine is
  next,     \* the file the goroutine stats next
  allFilesExist,  \* the goroutine's local
  statFailed,     \* files whose Stat failed in another way this round (history)
  cancelled,      \* has ctx been cancelled?
  timer,          \* has time.After(40s) fired?
  result          \* "idle", "waiting", or what the call returned: "ok" or "timeout"

vars == <<file, child, checker, next, allFilesExist, statFailed, cancelled, timer, result>>

checkFiles == 1..NumFiles

TypeOK ==
  /\ file \in [checkFiles -> {"absent", "partial", "written"}]
  /\ child \in {"running", "signalled", "exited"}
  /\ checker \in {"sleep", "stat", "send", "returned"}
  /\ next \in 1..(NumFiles + 1)
  /\ allFilesExist \in BOOLEAN
  /\ statFailed \subseteq checkFiles
  /\ cancelled \in BOOLEAN
  /\ timer \in BOOLEAN
  /\ result \in {"idle", "waiting", "ok", "timeout"}

Init ==
  /\ file = [f \in checkFiles |-> "absent"]
  /\ child = "exited"
  /\ checker = "returned"
  /\ next = 1
  /\ allFilesExist = TRUE
  /\ statFailed = {}
  /\ cancelled = FALSE
  /\ timer = FALSE
  /\ result = "idle"

\* The child has been started; an earlier run may have left files, some of
\* them cut short.
Call ==
  /\ result = "idle"
  /\ result' = "waiting"
  /\ file' \in [checkFiles -> {"absent", "partial", "written"}]
  /\ child' = "running"
  /\ checker' = "sleep"
  /\ UNCHANGED <<next, allFilesExist, statFailed, cancelled, timer>>

-----------------------------------------------------------------------------
(* The child: kubeadm truncates and fills its files in an order of its own, *)
(* for as long as it lives.                                                 *)
Alive == child \in {"running", "signalled"}

Create(f) ==
  /\ Alive
  /\ file[f] # "partial"
  /\ file' = [file EXCEPT ![f] = "partial"]
  /\ UNCHANGED <<child, checker, next, allFilesExist, statFailed, cancelled, timer, result>>

Fill(f) ==
  /\ Alive
  /\ file[f] = "partial"
  /\ file' = [file EXCEPT ![f] = "written"]
  /\ UNCHANGED <<child, checker, next, allFilesExist, statFailed, cancelled, timer, result>>

\* kubeadm ends by itself, done or with an error, or by the signal.
Exit ==
  /\ Alive
  /\ child' = "exited"
  /\ UNCHANGED <<file, checker, next, allFilesExist, statFailed, cancelled, timer, result>>

-----------------------------------------------------------------------------
(* The goroutine. *)

\* Wake after two seconds: return if ctx is done, else start a round of stats.
Wake ==
  /\ checker = "sleep"
  /\ checker' = IF cancelled THEN "returned" ELSE "stat"
  /\ next' = 1
  /\ allFilesExist' = TRUE
  /\ statFailed' = {}
  /\ UNCHANGED <<file, child, cancelled, timer, result>>

\* Mutant: only the last file of the round decides.
StatLastOnly ==
  /\ checker = "stat"
  /\ next \in checkFiles
  /\ allFilesExist' = (file[next] # "absent")
  /\ next' = next + 1
  /\ UNCHANGED <<file, child, checker, statFailed, cancelled, timer, result>>

\* Mutant: the round does not end with the last file.
StatPastEnd ==
  /\ checker = "stat"
  /\ next' = next + 1
  /\ UNCHANGED <<file, child, checker, allFilesExist, statFailed, cancelled, timer, result>>

\* One os.Stat; a file of size 0 counts as existing, and so does one of which
\* Stat says neither that it exists nor that it does not.
Stat ==
  /\ checker = "stat"
  /\ next \in checkFiles
  /\ \/ allFilesExist' = (allFilesExist /\ file[next] # "absent") /\ UNCHANGED statFailed
     \/ statFailed' = statFailed \cup {next} /\ UNCHANGED allFilesExist
  /\ next' = next + 1
  /\ UNCHANGED <<file, child, checker, cancelled, timer, result>>

\* The end of a round.
RoundDone ==
  /\ checker = "stat"
  /\ next = NumFiles + 1
  /\ checker' = IF allFilesExist THEN "send" ELSE "sleep"
  /\ UNCHANGED <<file, child, next, allFilesExist, statFailed, cancelled, timer, result>>

-----------------------------------------------------------------------------
(* The caller. *)
Kill == child' = IF child = "running" THEN "signalled" ELSE child

\* okChan is unbuffered: the send and the receive are one step.
ReceiveOk ==
  /\ result = "waiting"
  /\ checker = "send"
  /\ checker' = "returned"
  /\ Kill
  /\ cancelled' = TRUE
  /\ result' = "ok"
  /\ next' = 1 /\ allFilesExist' = TRUE /\ timer' = FALSE   \* the locals are gone
  /\ UNCHANGED <<file, statFailed>>

TimerFires ==
  /\ result = "waiting"
  /\ timer = FALSE
  /\ timer' = TRUE
  /\ UNCHANGED <<file, child, checker, next, allFilesExist, statFailed, cancelled, result>>

Timeout ==
  /\ result = "waiting"
  /\ timer
  /\ Kill
  /\ cancelled' = TRUE
  /\ result' = "timeout"
  /\ UNCHANGED <<file, checker, next, allFilesExist, statFailed, timer>>

-----------------------------------------------------------------------------
Child     == (\E f \in checkFiles : Create(f) \/ Fill(f)) \/ Exit
Goroutine == Wake \/ Stat \/ RoundDone
Caller    == Call \/ ReceiveOk \/ Timeout
Next == Child \/ TimerFires \/ Goroutine \/ Caller

Spec == Init /\ [][Next]_vars

-----------------------------------------------------------------------------
\* KillCmdAfterFilesGeneration returns nil only if every file was created or
\* could not be looked at in the last round, although the files are looked at
\* one by one while the child still writes.
OkMeansCreated ==
  result = "ok" => \A f \in checkFiles : file[f] # "absent" \/ f \in statFailed
=============================================================================
