------------------------------- MODULE FaceSetup -------------------------------
(***************************************************************************)
(* Running the system installer from the application (app/GazeClient.cpp:  *)
(* startFaceSetup, the poll of its status file, finishFaceSetup).  The     *)
(* wizard runs it in a terminal of its own and sees the status file only;  *)
(* a quiet upgrade runs it as a child and sees its exit as well.           *)
(*                                                                         *)
(* The installer is modelled by what it leaves: a machine that has all it  *)
(* needs and a success in the status file, a failure, or nothing at all.   *)
(***************************************************************************)
EXTENDS Readiness

CONSTANT MaxPolls  \* polls before the application gives up

(* "setup": the installer fails, is killed or closed, or is not there.     *)
SetupFaults == {"setup"}

ASSUME FaceSetupAssumption == MaxPolls \in Nat \ {0}

VARIABLES
  installing,  \* m_faceSetupInstalling
  polls,       \* m_faceSetupPollCount
  statusFile,
  installer,   \* the installer of the current setup
  stray,       \* an installer of a setup that has been given up runs on
  process,     \* m_faceSetupProcess and its exit, not yet handled
  setupError   \* m_faceSetupError is not empty

setupVars == <<installing, polls, statusFile, installer, stray, process, setupError>>

(* Every variable stays within its type.                                   *)
FaceSetupTypeOK ==
  /\ installing \in BOOLEAN /\ polls \in 0..MaxPolls - 1
  /\ statusFile \in {"none", "success", "failure"}
  /\ installer \in {"none", "running"} /\ stray \in BOOLEAN
  /\ process \in {"none", "running", "succeeded", "failed"}
  /\ setupError \in BOOLEAN

(* startFaceSetup(), unless one is under way.                              *)
StartFaceSetup(quiet) ==
  /\ ~installing /\ Refresh
  /\ \/ /\ Ready(machine)
        /\ setupError' = FALSE
        /\ UNCHANGED <<installing, polls, statusFile, installer, stray, process>>
     \/ /\ ~Ready(machine) /\ "setup" \in Faults
        /\ setupError' = TRUE
        /\ UNCHANGED <<installing, polls, statusFile, installer, stray, process>>
     \/ /\ ~Ready(machine)
        /\ installing' = TRUE /\ polls' = 0 /\ setupError' = FALSE
        /\ statusFile' = "none"
        /\ installer' = "running"
        /\ stray' = (stray \/ installer = "running")
        /\ process' = IF quiet THEN "running" ELSE process

(* finishFaceSetup()                                                       *)
FinishFaceSetup(success) ==
  /\ installing' = FALSE /\ polls' = 0 /\ statusFile' = "none"
  /\ setupError' = ~success

(* What a poll finds.  refresh() is called again when it has succeeded.    *)
PollFails == statusFile = "failure"

PollSucceeds == statusFile = "success" /\ Ready(machine)

\* Fault: an installer that reports success is waited for without end.
PollTimerFiresFault ==
  /\ installing
  /\ UNCHANGED <<installer, stray, process>>
  /\ \/ /\ PollFails
        /\ FinishFaceSetup(FALSE)
        /\ UNCHANGED known
     \/ /\ PollSucceeds /\ Refresh
        /\ FinishFaceSetup(TRUE)
     \/ /\ statusFile = "success" /\ ~PollSucceeds /\ Refresh
        /\ UNCHANGED <<installing, polls, statusFile, setupError>>
     \/ /\ statusFile = "none" /\ UNCHANGED known
        /\ IF polls + 1 >= MaxPolls
             THEN FinishFaceSetup(FALSE)
             ELSE polls' = polls + 1 /\ UNCHANGED <<installing, statusFile, setupError>>

PollTimerFires ==
  /\ installing
  /\ UNCHANGED <<installer, stray, process>>
  /\ \/ /\ PollFails
        /\ FinishFaceSetup(FALSE)
        /\ UNCHANGED known
     \/ /\ PollSucceeds /\ Refresh
        /\ FinishFaceSetup(TRUE)
     \/ /\ ~PollFails /\ ~PollSucceeds
        /\ IF statusFile = "success" THEN Refresh ELSE UNCHANGED known
        /\ IF polls + 1 >= MaxPolls
             THEN FinishFaceSetup(FALSE)
             ELSE polls' = polls + 1 /\ UNCHANGED <<installing, statusFile, setupError>>

(* QProcess::finished, errorOccurred                                       *)
ProcessFinished ==
  /\ process \in {"succeeded", "failed"}
  /\ process' = "none"
  /\ IF process = "failed" THEN FinishFaceSetup(FALSE)
     ELSE UNCHANGED <<installing, polls, statusFile, setupError>>
  /\ UNCHANGED <<known, installer, stray>>

-----------------------------------------------------------------------------
(* The installer (scripts/install-gaze-arch.sh).                           *)

Exited(word) == process' = IF process = "running" THEN word ELSE process

(* finish(): it writes the status file before it exits, whoever reads it.  *)
InstallerEnds ==
  /\ installer = "running" /\ installer' = "none"
  /\ \/ /\ machine' = [service |-> TRUE, parts |-> TRUE, integration |-> TRUE]
        /\ statusFile' = IF installing THEN "success" ELSE statusFile
        /\ Exited("succeeded")
     \/ /\ "setup" \in Faults
        /\ statusFile' = IF installing THEN "failure" ELSE statusFile
        /\ Exited("failed")
        /\ UNCHANGED machine
     \/ /\ "setup" \in Faults  \* killed
        /\ Exited("failed")
        /\ UNCHANGED <<machine, statusFile>>
  /\ UNCHANGED <<known, toGaze, installing, polls, stray, setupError>>

StrayEnds ==
  /\ stray /\ stray' = FALSE
  /\ machine' = [service |-> TRUE, parts |-> TRUE, integration |-> TRUE]
  /\ UNCHANGED <<known, toGaze, installing, polls, statusFile, installer, process, setupError>>
=============================================================================
