--------------------------------- MODULE Setup ---------------------------------
(***************************************************************************)
(* The setup application as a whole: its window (qml/Main.qml) and its     *)
(* quiet upgrade (app/main.cpp, runQuietUpgrade), which drive the          *)
(* enrolment of a face, the system setup and the activation of the lock    *)
(* integration.                                                            *)
(*                                                                         *)
(* A signal of GazeClient runs its handlers before emit returns, so each   *)
(* action is a step of a component together with what the window or the    *)
(* upgrade makes of it.  The activation, which has a module of its own     *)
(* (Activation), appears here by its possible ends.                        *)
(***************************************************************************)
EXTENDS Enrollment, FaceSetup

(* "activation": it cannot be begun, fails, or finds other files at last.  *)
ASSUME SetupAssumption ==
  Faults \subseteq EnrollmentFaults \cup SetupFaults \cup {"activation"}

VARIABLES
  app,                \* the window, the quiet upgrade, or how it has ended
  (* the activation *)
  lockInstalling, lockInstalled, lockActive, lockError,
  (* the window *)
  currentStep, enrollmentStarted,
  upgradeInProgress, upgradeComplete,
  beginGazeTimer, scanCompleteTimer,
  (* the quiet upgrade *)
  begun,              \* the single shot that starts it has fired
  activationStarted

lockVars   == <<lockInstalling, lockInstalled, lockActive, lockError>>
pageVars   == <<currentStep, enrollmentStarted, beginGazeTimer, scanCompleteTimer>>
updateVars == <<upgradeInProgress, upgradeComplete>>
windowVars == <<pageVars, updateVars>>
quietVars  == <<begun, activationStarted>>

vars == <<readinessVars, enrollmentVars, setupVars, app, lockVars, windowVars, quietVars>>

(* The exit codes of the quiet upgrade; closed is the window's end.        *)
Apps == {"window", "quiet", "closed", "upgraded", "failed", "refused"}

WindowTypeOK ==
  /\ app \in Apps
  /\ lockInstalling \in BOOLEAN /\ lockInstalled \in BOOLEAN
  /\ lockActive \in BOOLEAN /\ lockError \in BOOLEAN
  /\ currentStep \in 0..3 /\ enrollmentStarted \in BOOLEAN
  /\ upgradeInProgress \in BOOLEAN /\ upgradeComplete \in BOOLEAN
  /\ beginGazeTimer \in BOOLEAN /\ scanCompleteTimer \in BOOLEAN
  /\ begun \in BOOLEAN /\ activationStarted \in BOOLEAN

(* Every variable stays within its type.                                   *)
TypeOK == EnrollmentTypeOK /\ FaceSetupTypeOK /\ WindowTypeOK

-----------------------------------------------------------------------------
(* What the window shows.                                                  *)

UpgradeAvailable == receipt /\ (~known.integration \/ ~lockInstalled)
UpgradeSession   == UpgradeAvailable \/ upgradeInProgress \/ upgradeComplete
UpgradeFailed    == upgradeInProgress /\ (setupError \/ lockError)

ScanFailed ==
  /\ enrollmentStarted /\ ~beginGazeTimer /\ ~enrolling /\ ~complete
  /\ prompt \in {"failed", "cancelled"}

Page(step) == app = "window" /\ ~UpgradeSession /\ currentStep = step
UpgradePage == app = "window" /\ UpgradeSession

Init ==
  /\ EnrollmentInit
  /\ installing = FALSE /\ polls = 0 /\ statusFile = "none"
  /\ installer = "none" /\ stray = FALSE /\ process = "none" /\ setupError = FALSE
  /\ lockInstalled \in BOOLEAN
  /\ lockInstalled => receipt  \* written by refreshLockIntegrationStatus()
  /\ lockInstalling = FALSE /\ lockActive = FALSE /\ lockError = FALSE
  /\ currentStep = 0 /\ enrollmentStarted = FALSE
  /\ beginGazeTimer = FALSE /\ scanCompleteTimer = FALSE
  /\ upgradeInProgress = FALSE /\ upgradeComplete = FALSE
  /\ begun = FALSE /\ activationStarted = FALSE
  /\ app \in IF receipt THEN {"window", "quiet"} ELSE {"window", "refused"}

-----------------------------------------------------------------------------
(* The activation.                                                         *)

(* enableLockIntegration(): begun, refused at once, or under way already.  *)
EnableLockIntegration ==
  \/ lockInstalling /\ UNCHANGED lockVars
  \/ /\ ~lockInstalling
     /\ lockInstalling' = TRUE /\ lockError' = FALSE /\ lockActive' = FALSE
     /\ UNCHANGED lockInstalled
  \/ /\ ~lockInstalling /\ "activation" \in Faults
     /\ lockError' = TRUE /\ lockActive' = FALSE
     /\ UNCHANGED <<lockInstalling, lockInstalled>>

(* finishLockActivation(): success, a failure that is rolled back, or a    *)
(* subscriber that answers from files that are no longer the new ones.     *)
FinishLockActivation ==
  /\ lockInstalling /\ lockInstalling' = FALSE
  /\ \/ lockInstalled' = TRUE /\ lockActive' = TRUE /\ lockError' = FALSE
     \/ /\ "activation" \in Faults
        /\ lockError' = TRUE /\ lockInstalled' \in BOOLEAN /\ UNCHANGED lockActive
     \/ /\ "activation" \in Faults
        /\ lockInstalled' = FALSE /\ lockActive' = TRUE /\ lockError' = FALSE

-----------------------------------------------------------------------------
(* The handlers of GazeClient's signals.                                   *)

(* runQuietUpgrade(), startActivation                                      *)
StartActivation ==
  IF activationStarted THEN UNCHANGED <<app, lockVars, activationStarted>>
  ELSE /\ activationStarted' = TRUE
       /\ EnableLockIntegration
       /\ app' = IF lockError' /\ ~lockInstalling' THEN "failed" ELSE app

\* Fault: the window does not look at the error of the setup.
OnFaceSetupChangedFault(inProgress) ==
  \/ /\ app = "window" /\ inProgress /\ ~installing'
     /\ EnableLockIntegration
     /\ UNCHANGED <<app, activationStarted>>
  \/ /\ app = "quiet" /\ ~installing'
     /\ IF setupError' \/ ~known'.integration
          THEN app' = "failed" /\ UNCHANGED <<lockVars, activationStarted>>
          ELSE StartActivation
  \/ /\ (app = "window" /\ ~inProgress) \/ installing'
     /\ UNCHANGED <<app, lockVars, activationStarted>>

(* faceSetupChanged: Main.qml, onFaceSetupChanged, and runQuietUpgrade().  *)
OnFaceSetupChanged(inProgress) ==
  \/ /\ app = "window" /\ inProgress /\ ~installing' /\ ~setupError' /\ Ready(known')
     /\ EnableLockIntegration
     /\ UNCHANGED <<app, activationStarted>>
  \/ /\ app = "quiet" /\ ~installing'
     /\ IF setupError' \/ ~known'.integration
          THEN app' = "failed" /\ UNCHANGED <<lockVars, activationStarted>>
          ELSE StartActivation
  \/ /\ \/ app = "window" /\ ~(inProgress /\ ~installing' /\ ~setupError' /\ Ready(known'))
        \/ installing'
     /\ UNCHANGED <<app, lockVars, activationStarted>>

InstallFaceSetup(quiet, inProgress) ==
  IF installing
    THEN Refresh /\ UNCHANGED <<setupVars, app, lockVars, activationStarted>>
    ELSE StartFaceSetup(quiet) /\ OnFaceSetupChanged(inProgress)

(* lockIntegrationActivationFinished                                       *)
OnActivationFinished ==
  LET finished == lockInstalled' /\ lockActive' IN
    /\ app' = IF app # "quiet" THEN app ELSE IF finished THEN "upgraded" ELSE "failed"
    /\ upgradeInProgress' = (upgradeInProgress /\ ~finished)
    /\ upgradeComplete' = (upgradeComplete \/ (upgradeInProgress /\ finished))

(* enrollmentChanged                                                       *)
OnEnrollmentChanged == scanCompleteTimer' = (scanCompleteTimer \/ complete')

-----------------------------------------------------------------------------
(* The window.                                                             *)

restVars == <<setupVars, app, lockVars, updateVars, quietVars>>  \* not of the scan
scanVars == <<enrollmentVars, machine, toGaze>>                  \* of the scan only

GetStarted ==
  /\ Page(0)
  /\ Refresh
  /\ currentStep' = 1
  /\ UNCHANGED <<scanVars, restVars, enrollmentStarted, beginGazeTimer, scanCompleteTimer>>

CheckAgain ==
  /\ Page(1) /\ known.service /\ known.parts
  /\ Refresh
  /\ UNCHANGED <<scanVars, restVars, pageVars>>

BackToWelcome ==
  /\ Page(1)
  /\ upgradeInProgress' = FALSE /\ currentStep' = 0
  /\ UNCHANGED <<readinessVars, enrollmentVars, setupVars, app, lockVars, quietVars,
                 upgradeComplete, enrollmentStarted, beginGazeTimer, scanCompleteTimer>>

InstallParts ==
  /\ Page(1) /\ ~Ready(known) /\ ~installing
  /\ InstallFaceSetup(FALSE, upgradeInProgress)
  /\ UNCHANGED <<scanVars, windowVars, begun>>

(* startEnrollment(): "Authorize and Scan Face" and "Try Again".           *)
StartEnrollment ==
  /\ \/ Page(1) /\ Ready(known)
     \/ Page(2) /\ ScanFailed
  /\ Refresh
  /\ \/ /\ Ready(machine)
        /\ currentStep' = 2 /\ enrollmentStarted' = TRUE /\ beginGazeTimer' = TRUE
     \/ UNCHANGED <<currentStep, enrollmentStarted, beginGazeTimer>>  \* or no camera
  /\ UNCHANGED <<scanVars, restVars, scanCompleteTimer>>

BeginGazeTimerFires ==
  /\ app = "window" /\ beginGazeTimer
  /\ beginGazeTimer' = FALSE
  /\ \/ enrolling /\ UNCHANGED <<readinessVars, enrollmentVars>>
     \/ BeginEnrollment
  /\ UNCHANGED <<restVars, currentStep, enrollmentStarted, scanCompleteTimer>>

(* cancelEnrollment(): "Back" on the page of the scan.                     *)
BackFromScan ==
  /\ Page(2)
  /\ IF enrolling THEN CancelEnrollment ELSE UNCHANGED <<readinessVars, enrollmentVars>>
  /\ currentStep' = 1 /\ enrollmentStarted' = FALSE /\ beginGazeTimer' = FALSE
  /\ UNCHANGED <<restVars, scanCompleteTimer>>

ScanCompleteTimerFires ==
  /\ app = "window" /\ scanCompleteTimer
  /\ scanCompleteTimer' = FALSE /\ currentStep' = 3
  /\ UNCHANGED <<readinessVars, enrollmentVars, restVars, enrollmentStarted, beginGazeTimer>>

ScanAgain ==
  /\ Page(3) /\ ~lockActive
  /\ enrollmentStarted' = FALSE /\ currentStep' = 1
  /\ UNCHANGED <<readinessVars, enrollmentVars, restVars, beginGazeTimer, scanCompleteTimer>>

EnableFaceId ==
  /\ Page(3) /\ ~lockInstalling /\ ~lockActive
  /\ EnableLockIntegration
  /\ UNCHANGED <<readinessVars, enrollmentVars, setupVars, app, windowVars, quietVars>>

(* "Continue" on the page of an update.                                    *)
ContinueUpgrade ==
  /\ UpgradePage /\ ~upgradeInProgress /\ ~upgradeComplete
  /\ upgradeInProgress' = TRUE
  /\ InstallFaceSetup(FALSE, TRUE)
  /\ UNCHANGED <<scanVars, pageVars, upgradeComplete, begun>>

(* "Try Again" on it.                                                      *)
TryUpgradeAgain ==
  /\ UpgradePage /\ UpgradeFailed
  /\ \/ /\ Ready(machine) /\ Refresh
        /\ EnableLockIntegration
        /\ UNCHANGED <<setupVars, app, activationStarted>>
     \/ /\ ~Ready(machine)
        /\ InstallFaceSetup(FALSE, upgradeInProgress)
  /\ UNCHANGED <<scanVars, windowVars, begun>>

(* The window's end.  The bus tells Gaze that its client is gone.          *)
Close ==
  /\ app = "window" /\ app' = "closed"
  /\ enrolling' = FALSE /\ claimed' = FALSE /\ preview' = FALSE
  /\ gaze' = [claimed |-> FALSE, pending |-> 0, session |-> 0]
  /\ toGaze' = <<>> /\ mail' = <<>> /\ awaited' = {}
  /\ endedBy' = IF enrolling THEN "user" ELSE endedBy
  /\ UNCHANGED <<machine, known, generation, complete, prompt, receipt, frame, previewTimers,
                 confirmed, lapsed, setupVars, lockVars, windowVars, quietVars>>

-----------------------------------------------------------------------------
(* The event loop and what surrounds it.                                   *)

Alive == app \in {"window", "quiet"}

StatusHandled ==
  /\ app = "window" /\ StatusArrives
  /\ OnEnrollmentChanged
  /\ UNCHANGED <<restVars, currentStep, enrollmentStarted, beginGazeTimer>>

ReplyHandled ==
  /\ app = "window" /\ ReplyArrives
  /\ UNCHANGED <<restVars, pageVars>>

PreviewHandled ==
  /\ app = "window"
  /\ FrameArrives \/ \E g \in previewTimers : PreviewTimerFires(g)
  /\ UNCHANGED <<restVars, pageVars>>

PollHandled ==
  /\ Alive /\ PollTimerFires
  /\ IF installing' THEN UNCHANGED <<app, lockVars, activationStarted>>
     ELSE OnFaceSetupChanged(upgradeInProgress)
  /\ UNCHANGED <<scanVars, windowVars, begun>>

ProcessHandled ==
  /\ Alive /\ ProcessFinished
  /\ IF process = "failed" THEN OnFaceSetupChanged(upgradeInProgress)
     ELSE UNCHANGED <<app, lockVars, activationStarted>>
  /\ UNCHANGED <<scanVars, windowVars, begun>>

ActivationHandled ==
  /\ Alive /\ FinishLockActivation
  /\ OnActivationFinished
  /\ UNCHANGED <<readinessVars, enrollmentVars, setupVars, pageVars, quietVars>>

(* runQuietUpgrade(): the single shot that begins it.                      *)
QuietBegins ==
  /\ app = "quiet" /\ ~begun /\ begun' = TRUE
  /\ IF known.integration
       THEN StartActivation /\ UNCHANGED <<known, setupVars>>
       ELSE InstallFaceSetup(TRUE, FALSE)
  /\ UNCHANGED <<scanVars, windowVars>>

GazeSteps ==
  /\ Alive
  /\ Gaze
  /\ UNCHANGED <<restVars, pageVars>>

InstallerSteps ==
  /\ Alive
  /\ InstallerEnds \/ StrayEnds
  /\ UNCHANGED <<enrollmentVars, app, lockVars, windowVars, quietVars>>

Next ==
  \/ GetStarted \/ CheckAgain \/ BackToWelcome \/ InstallParts \/ StartEnrollment \/ BackFromScan
  \/ ScanAgain \/ EnableFaceId \/ ContinueUpgrade \/ TryUpgradeAgain \/ Close
  \/ BeginGazeTimerFires \/ ScanCompleteTimerFires
  \/ StatusHandled \/ ReplyHandled \/ PreviewHandled
  \/ PollHandled \/ ProcessHandled \/ ActivationHandled \/ QuietBegins
  \/ GazeSteps \/ InstallerSteps

Spec == Init /\ [][Next]_vars

(* Timers fire, exits are seen, and an activation ends (Activation,        *)
(* AttemptEnds).  Nobody has to press a button, and neither Gaze nor the   *)
(* installer has to end.                                                   *)
LiveSpec ==
  /\ Spec
  /\ WF_vars(QuietBegins) /\ WF_vars(PollHandled)
  /\ WF_vars(ProcessHandled) /\ WF_vars(ActivationHandled)

-----------------------------------------------------------------------------
(* Safety.                                                                 *)

(* An update that reports its end, in the window or by exit status 0, has  *)
(* left the system integration and the files of the lock integration in    *)
(* place, if nobody uninstalls Face ID meanwhile (runQuietUpgrade,         *)
(* onFaceSetupChanged).                                                    *)
UpdatedIsComplete ==
  app = "upgraded" \/ upgradeComplete => known.integration /\ lockInstalled

(* An update that is under way is working at something or says that it     *)
(* has failed: the page has a button, or will change by itself.            *)
(* No run checks it: the code does not meet it (README.md, Deviations).    *)
UpgradeNeverStranded ==
  UpgradePage /\ upgradeInProgress /\ ~installing /\ ~lockInstalling => UpgradeFailed

(* The page of the scan gives way to that of the last step, which offers   *)
(* to enable Face ID (docs/2026-08-28-initial-build.md: "**Done:** offers  *)
(* **Enable Face ID**").                                                   *)
(* No run checks it: the code does not meet it (README.md, Deviations).    *)
DonePageIsShown == app = "window" /\ currentStep = 3 /\ ~upgradeInProgress => ~UpgradeSession

-----------------------------------------------------------------------------
(* The abstract specification.                                             *)

Outcome == INSTANCE ActivationOutcome
  WITH running <- lockInstalling, activated <- lockInstalled /\ lockActive, failed <- lockError

(* To the window and to the quiet upgrade the activation is what the       *)
(* component itself promises (Activation, ImplementsOutcome): one answer   *)
(* to each attempt, which only the next one takes back                     *)
(* (lockIntegrationChanged, enableLockIntegration).                        *)
ImplementsOutcome == Outcome!Spec

-----------------------------------------------------------------------------
(* Liveness.                                                               *)

(* A quiet upgrade exits, whatever the installer does.                     *)
QuietExits == app = "quiet" ~> app # "quiet"
=============================================================================
