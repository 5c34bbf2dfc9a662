----------------------------- MODULE Setup_proof -----------------------------
(***************************************************************************)
(* Proofs about Setup for any number of enrolments, of polls and of        *)
(* messages on their way, and any faults.                                  *)
(*                                                                         *)
(* What is an invariant of Enrollment alone is one of the application: a   *)
(* step of it is a step of the enrolment, leaves it alone, installs the    *)
(* system's parts, or ends the application.  An update is complete when it *)
(* says so because the integration does not go away, an activation is      *)
(* begun only when it is there, and none is begun after the update's end.  *)
(* Until then it works at something or shows an error (UpdateIsWorking),   *)
(* as long as activations succeed.                                         *)
(***************************************************************************)
EXTENDS Setup, Enrollment_proof

IntegrationStays       == known.integration => machine.integration
ActivationIsIntegrated == lockInstalling => known.integration
DonePageHasReceipt     == complete \/ scanCompleteTimer \/ currentStep = 3 => receipt
QuietIsNoWindow        == app = "quiet" => ~upgradeInProgress /\ ~upgradeComplete
UpdateIsOver           == upgradeComplete => ~upgradeInProgress /\ ~lockInstalling

UpdateInv ==
  /\ IntegrationStays /\ ActivationIsIntegrated /\ DonePageHasReceipt
  /\ QuietIsNoWindow /\ UpdateIsOver /\ UpdatedIsComplete

PartTypes == FaceSetupTypeOK /\ WindowTypeOK

SetupInv == EnrollInv /\ PartTypes /\ UpdateInv

-----------------------------------------------------------------------------
(* The steps of the application, as its parts see them.                    *)

AllThere == [service |-> TRUE, parts |-> TRUE, integration |-> TRUE]

PartsArrive == machine' = AllThere /\ UNCHANGED <<known, toGaze, enrollmentVars>>

LEMMA ScanSteps ==
  ASSUME Next
  PROVE  [EnrollmentNext]_<<readinessVars, enrollmentVars>> \/ PartsArrive \/ Close
<1>1. CASE GetStarted \/ CheckAgain \/ StartEnrollment
  BY <1>1, Zenon DEF GetStarted, CheckAgain, StartEnrollment, scanVars, EnrollmentNext
<1>2. ASSUME NEW quiet, NEW inProgress, InstallFaceSetup(quiet, inProgress),
             UNCHANGED <<machine, toGaze, enrollmentVars>>
      PROVE  EnrollmentNext
  BY <1>2, Zenon DEF InstallFaceSetup, StartFaceSetup, EnrollmentNext
<1>3. CASE InstallParts \/ ContinueUpgrade \/ TryUpgradeAgain
  BY <1>2, <1>3, Zenon DEF InstallParts, ContinueUpgrade, TryUpgradeAgain, scanVars, EnrollmentNext
<1>4. CASE QuietBegins
  BY <1>2, <1>4, Zenon DEF QuietBegins, scanVars, readinessVars
<1>5. CASE BackToWelcome \/ ScanAgain \/ EnableFaceId \/ ScanCompleteTimerFires \/ ActivationHandled
  BY <1>5, Zenon DEF BackToWelcome, ScanAgain, EnableFaceId, ScanCompleteTimerFires, ActivationHandled
<1>6. CASE BackFromScan \/ BeginGazeTimerFires
  BY <1>6, Zenon DEF BackFromScan, BeginGazeTimerFires, EnrollmentNext
<1>7. CASE StatusHandled \/ ReplyHandled \/ PreviewHandled
  BY <1>7, Zenon DEF StatusHandled, ReplyHandled, PreviewHandled, EnrollmentNext, Messages
<1>8. CASE PollHandled \/ ProcessHandled
  BY <1>8, Zenon DEF PollHandled, ProcessHandled, PollTimerFires, ProcessFinished, scanVars,
                     readinessVars, EnrollmentNext
<1>9. CASE GazeSteps
  BY <1>9, Zenon DEF GazeSteps, EnrollmentNext
<1>10. CASE InstallerSteps
  BY <1>10, Zenon DEF InstallerSteps, InstallerEnds, StrayEnds, PartsArrive, AllThere, readinessVars
<1> QED
  BY <1>1, <1>3, <1>4, <1>5, <1>6, <1>7, <1>8, <1>9, <1>10, Zenon DEF Next

LEMMA SetupSteps ==
  ASSUME Next
  PROVE  \/ UNCHANGED setupVars
         \/ \E quiet \in BOOLEAN : StartFaceSetup(quiet)
         \/ PollTimerFires \/ ProcessFinished \/ InstallerEnds \/ StrayEnds
<1>1. ASSUME NEW quiet \in BOOLEAN, NEW inProgress, InstallFaceSetup(quiet, inProgress)
      PROVE  UNCHANGED setupVars \/ \E q \in BOOLEAN : StartFaceSetup(q)
  BY <1>1, Zenon DEF InstallFaceSetup
<1>2. CASE InstallParts \/ ContinueUpgrade \/ TryUpgradeAgain \/ QuietBegins
  BY <1>1, <1>2, Zenon DEF InstallParts, ContinueUpgrade, TryUpgradeAgain, QuietBegins
<1> QED
  BY <1>2, Zenon DEF Next, GetStarted, CheckAgain, StartEnrollment, BackToWelcome, ScanAgain,
       EnableFaceId, ScanCompleteTimerFires, ActivationHandled, BackFromScan, BeginGazeTimerFires,
       StatusHandled, ReplyHandled, PreviewHandled, PollHandled, ProcessHandled, GazeSteps,
       InstallerSteps, Close, restVars

-----------------------------------------------------------------------------
(* The enrolment.                                                          *)

LEMMA PartsKeepEnrollment == EnrollInv /\ PartsArrive => EnrollInv'
<1> SUFFICES ASSUME EnrollInv, PartsArrive PROVE EnrollInv'
  OBVIOUS
<1>1. /\ UNCHANGED <<known, gaze, awaited, generation, claimed, enrolling, complete, prompt,
                     receipt, preview, frame, previewTimers, endedBy, confirmed, lapsed>>
      /\ toGaze' = toGaze /\ mail' = mail
  BY Zenon DEF PartsArrive, enrollmentVars, busVars, clientVars, previewVars, pastVars
<1>2. machine' \in Machines /\ machine'.service
  BY DEF PartsArrive, AllThere, Machines
<1>3. /\ OnTheWay' = OnTheWay /\ Starts' = Starts /\ Replies' = Replies
      /\ StartIsFirst <=> StartIsFirst'
  BY <1>1, SameCalls, SameMail
<1>4. TypeInv'
  BY <1>1, <1>2, Zenon DEF EnrollInv, TypeInv, WorldTypes, NumberTypes, ScreenTypes
<1>5. ClientInv'
  BY <1>1, Zenon DEF EnrollInv, ClientInv, ClaimIsEnrolment, TimerIsConfirmed, UserHasEnded,
                     PreviewAfterCapture
<1>6. BusInv'
  BY <1>1, <1>2, <1>3, Zenon DEF EnrollInv, BusInv, InService, NumbersAreOld, StartsAreAwaited,
                                 Unsettled, SessionIsConfirmed
<1>7. ClaimIsOnItsWay' /\ StopIsStale' /\ StopIsOnItsWay'
  BY <1>1, <1>3, Zenon DEF EnrollInv, ClaimIsOnItsWay, StopIsStale, StopIsOnItsWay
<1> QED
  BY <1>3, <1>4, <1>5, <1>6, <1>7 DEF EnrollInv

LEMMA CloseKeepsEnrollment == EnrollInv /\ Close => EnrollInv'
<1> SUFFICES ASSUME EnrollInv, Close PROVE EnrollInv'
  OBVIOUS
<1>1. /\ UNCHANGED <<machine, known, generation, complete, prompt, receipt, frame, previewTimers,
                     confirmed, lapsed>>
      /\ toGaze' = <<>> /\ mail' = <<>> /\ awaited' = {}
      /\ enrolling' = FALSE /\ claimed' = FALSE /\ preview' = FALSE
      /\ gaze' = [claimed |-> FALSE, pending |-> 0, session |-> 0]
      /\ endedBy' \in {"user", endedBy}
  BY Zenon DEF Close
<1>2. gaze'.claimed = FALSE /\ gaze'.pending = 0 /\ gaze'.session = 0
      /\ gaze' \in [claimed : BOOLEAN, pending : Nat, session : Nat]
  BY <1>1
<1>3. <<>> \in Seq(Calls) /\ <<>> \in Seq(Mails)
  OBVIOUS
<1>4. Starts' = {} /\ Replies' = {} /\ OnTheWay' = {}
  BY <1>1, <1>3, ElementsAre, Zenon DEF Starts, Replies, OnTheWay, Unread
<1>5. TypeInv'
  <2>1. WorldTypes'
    BY <1>1, <1>2, <1>3, Zenon DEF EnrollInv, TypeInv, WorldTypes
  <2>2. NumberTypes' /\ generation' \in Nat
    BY <1>1, SMT DEF EnrollInv, TypeInv, NumberTypes
  <2>3. ScreenTypes'
    BY <1>1, Zenon DEF EnrollInv, TypeInv, ScreenTypes
  <2> QED
    BY <2>1, <2>2, <2>3 DEF TypeInv
<1>6. ClientInv'
  BY <1>1, Zenon DEF ClientInv, ClaimIsEnrolment, TimerIsConfirmed, UserHasEnded, PreviewAfterCapture
<1>7. 0 <= generation'
  BY <1>1 DEF EnrollInv, TypeInv, NumberTypes
<1>8. BusInv' /\ StartIsFirst'
  BY <1>1, <1>2, <1>4, <1>7, Zenon
     DEF BusInv, StartIsFirst, InService, NumbersAreOld, StartsAreAwaited, SessionIsConfirmed
<1>9. ClaimIsOnItsWay' /\ StopIsStale' /\ StopIsOnItsWay'
  BY <1>1, <1>2, <1>4, Zenon DEF ClaimIsOnItsWay, StopIsStale, StopIsOnItsWay
<1> QED
  BY <1>5, <1>6, <1>8, <1>9 DEF EnrollInv

LEMMA EnrollmentKept == EnrollInv /\ Next => EnrollInv'
BY ScanSteps, EnrollInvStep, PartsKeepEnrollment, CloseKeepsEnrollment

-----------------------------------------------------------------------------
(* Types of the other parts.                                               *)

LEMMA SetupTypesStep == FaceSetupTypeOK /\ Next => FaceSetupTypeOK'
<1> SUFFICES ASSUME FaceSetupTypeOK, Next PROVE FaceSetupTypeOK'
  OBVIOUS
<1> USE DEF FaceSetupTypeOK
<1>0. 0 \in 0..MaxPolls - 1
  BY FaceSetupAssumption
<1>1. CASE UNCHANGED setupVars
  BY <1>1, Zenon DEF setupVars
<1>2. ASSUME NEW quiet \in BOOLEAN, StartFaceSetup(quiet) PROVE FaceSetupTypeOK'
  BY <1>0, <1>2, Zenon DEF StartFaceSetup
<1>3. ASSUME NEW success \in BOOLEAN, FinishFaceSetup(success)
      PROVE  /\ installing' \in BOOLEAN /\ polls' \in 0..MaxPolls - 1
             /\ statusFile' \in {"none", "success", "failure"} /\ setupError' \in BOOLEAN
  BY <1>0, <1>3, Zenon DEF FinishFaceSetup
<1>4. CASE PollTimerFires
  <2>1. ASSUME ~(polls + 1 >= MaxPolls), polls' = polls + 1 PROVE polls' \in 0..MaxPolls - 1
    BY <2>1, FaceSetupAssumption, SMT
  <2>2. UNCHANGED <<installer, stray, process>>
    BY <1>4, Zenon DEF PollTimerFires
  <2>3. \/ FinishFaceSetup(FALSE) \/ FinishFaceSetup(TRUE)
        \/ /\ ~(polls + 1 >= MaxPolls) /\ polls' = polls + 1
           /\ UNCHANGED <<installing, statusFile, setupError>>
    BY <1>4, Zenon DEF PollTimerFires
  <2> QED
    BY <1>3, <2>1, <2>2, <2>3, Zenon
<1>5. CASE ProcessFinished
  <2>1. UNCHANGED <<installer, stray>> /\ process' = "none"
    BY <1>5, Zenon DEF ProcessFinished
  <2>2. FinishFaceSetup(FALSE) \/ UNCHANGED <<installing, polls, statusFile, setupError>>
    BY <1>5, Zenon DEF ProcessFinished
  <2> QED
    BY <1>3, <2>1, <2>2, Zenon
<1>6. CASE InstallerEnds \/ StrayEnds
  BY <1>6, Zenon DEF InstallerEnds, StrayEnds, Exited
<1> QED
  BY <1>1, <1>2, <1>4, <1>5, <1>6, SetupSteps

(* The flags of the activation, whatever has been done with it.            *)
LockTypes ==
  /\ lockInstalling \in BOOLEAN /\ lockInstalled \in BOOLEAN
  /\ lockActive \in BOOLEAN /\ lockError \in BOOLEAN

(* What the handlers of the setup's signals do to them.                    *)
HandlerTypes ==
  /\ LockTypes /\ activationStarted \in BOOLEAN /\ app \in Apps

LEMMA EnableTypes ==
  ASSUME LockTypes, EnableLockIntegration
  PROVE  LockTypes' /\ lockInstalled' = lockInstalled
BY Zenon DEF LockTypes, EnableLockIntegration, lockVars

LEMMA StartTypes ==
  ASSUME HandlerTypes, StartActivation
  PROVE  HandlerTypes'
BY EnableTypes, Zenon DEF HandlerTypes, StartActivation, LockTypes, lockVars, Apps

LEMMA SignalTypes ==
  ASSUME HandlerTypes, NEW inProgress \in BOOLEAN, OnFaceSetupChanged(inProgress)
  PROVE  HandlerTypes'
<1>1. CASE EnableLockIntegration /\ UNCHANGED <<app, activationStarted>>
  BY <1>1, EnableTypes, Zenon DEF HandlerTypes
<1>2. CASE app' = "failed" /\ UNCHANGED <<lockVars, activationStarted>>
  BY <1>2, Zenon DEF HandlerTypes, LockTypes, lockVars, Apps
<1>3. CASE StartActivation
  BY <1>3, StartTypes
<1>4. CASE UNCHANGED <<app, lockVars, activationStarted>>
  BY <1>4, Zenon DEF HandlerTypes, LockTypes, lockVars
<1> QED
  BY <1>1, <1>2, <1>3, <1>4, Zenon DEF OnFaceSetupChanged

LEMMA InstallTypes ==
  ASSUME HandlerTypes, NEW quiet \in BOOLEAN, NEW inProgress \in BOOLEAN,
         InstallFaceSetup(quiet, inProgress)
  PROVE  HandlerTypes'
<1>1. CASE UNCHANGED <<setupVars, app, lockVars, activationStarted>>
  BY <1>1, Zenon DEF HandlerTypes, LockTypes, lockVars
<1> QED
  BY <1>1, SignalTypes, Zenon DEF InstallFaceSetup

LEMMA HandlerTypesStep == WindowTypeOK /\ Next => HandlerTypes'
<1> SUFFICES ASSUME WindowTypeOK, Next PROVE HandlerTypes'
  OBVIOUS
<1>0. HandlerTypes /\ upgradeInProgress \in BOOLEAN
  BY Zenon DEF WindowTypeOK, HandlerTypes, LockTypes
<1>1. CASE UNCHANGED <<app, lockVars, activationStarted>>
  BY <1>0, <1>1, Zenon DEF HandlerTypes, LockTypes, lockVars
<1>2. CASE InstallParts \/ ContinueUpgrade \/ TryUpgradeAgain \/ EnableFaceId
  <2>1. EnableLockIntegration /\ UNCHANGED <<app, activationStarted>> => HandlerTypes'
    BY <1>0, EnableTypes, Zenon DEF HandlerTypes
  <2> QED
    BY <1>0, <1>2, <2>1, InstallTypes, Zenon
       DEF InstallParts, ContinueUpgrade, TryUpgradeAgain, EnableFaceId, quietVars
<1>3. CASE PollHandled \/ ProcessHandled
  BY <1>0, <1>1, <1>3, SignalTypes, Zenon DEF PollHandled, ProcessHandled
<1>4. CASE QuietBegins
  BY <1>0, <1>4, StartTypes, InstallTypes, Zenon DEF QuietBegins
<1>5. CASE ActivationHandled
  BY <1>0, <1>5, Zenon DEF ActivationHandled, FinishLockActivation, OnActivationFinished, quietVars,
     HandlerTypes, LockTypes, Apps
<1>6. CASE Close
  BY <1>0, <1>6, Zenon DEF Close, HandlerTypes, LockTypes, lockVars, quietVars, Apps
<1>7. CASE \/ GetStarted \/ CheckAgain \/ BackToWelcome \/ StartEnrollment \/ BackFromScan \/ ScanAgain
           \/ BeginGazeTimerFires \/ ScanCompleteTimerFires
           \/ StatusHandled \/ ReplyHandled \/ PreviewHandled \/ GazeSteps \/ InstallerSteps
  BY <1>1, <1>7, Zenon DEF GetStarted, CheckAgain, BackToWelcome, StartEnrollment, BackFromScan,
     ScanAgain, BeginGazeTimerFires, ScanCompleteTimerFires, StatusHandled, ReplyHandled,
     PreviewHandled, GazeSteps, InstallerSteps, restVars, quietVars
<1> QED
  BY <1>2, <1>3, <1>4, <1>5, <1>6, <1>7, Zenon DEF Next

(* The page and the flags of an update.                                    *)
LEMMA PageTypesStep ==
  WindowTypeOK /\ ScreenTypes' /\ Next =>
    /\ currentStep' \in 0..3 /\ enrollmentStarted' \in BOOLEAN
    /\ upgradeInProgress' \in BOOLEAN /\ upgradeComplete' \in BOOLEAN
    /\ beginGazeTimer' \in BOOLEAN /\ scanCompleteTimer' \in BOOLEAN /\ begun' \in BOOLEAN
<1> DEFINE Goal == /\ currentStep' \in 0..3 /\ enrollmentStarted' \in BOOLEAN
                   /\ upgradeInProgress' \in BOOLEAN /\ upgradeComplete' \in BOOLEAN
                   /\ beginGazeTimer' \in BOOLEAN /\ scanCompleteTimer' \in BOOLEAN
                   /\ begun' \in BOOLEAN
<1> SUFFICES ASSUME WindowTypeOK, ScreenTypes', Next PROVE Goal
  OBVIOUS
<1>0. /\ 0 \in 0..3 /\ 1 \in 0..3 /\ 2 \in 0..3 /\ 3 \in 0..3
      /\ complete' \in BOOLEAN
  BY SMT DEF ScreenTypes
<1> USE DEF WindowTypeOK
<1>1. CASE UNCHANGED <<windowVars, begun>>
  BY <1>1, Zenon DEF windowVars, pageVars, updateVars
<1>2. CASE UNCHANGED windowVars /\ begun' = TRUE
  BY <1>2, Zenon DEF windowVars, pageVars, updateVars
<1>3. CASE \/ GetStarted \/ CheckAgain \/ BackToWelcome \/ StartEnrollment \/ BackFromScan
           \/ ScanAgain \/ BeginGazeTimerFires \/ ScanCompleteTimerFires \/ StatusHandled
  BY <1>0, <1>3, Zenon DEF GetStarted, CheckAgain, BackToWelcome, StartEnrollment, BackFromScan,
     ScanAgain, BeginGazeTimerFires, ScanCompleteTimerFires, StatusHandled, OnEnrollmentChanged,
     restVars, pageVars, updateVars, quietVars
<1>4. CASE ContinueUpgrade \/ ActivationHandled
  BY <1>4, Zenon DEF ContinueUpgrade, ActivationHandled, OnActivationFinished, pageVars, quietVars
<1>5. CASE InstallParts \/ EnableFaceId \/ TryUpgradeAgain \/ Close \/ ReplyHandled \/ PreviewHandled
           \/ PollHandled \/ ProcessHandled \/ GazeSteps \/ InstallerSteps
  BY <1>1, <1>5, Zenon DEF InstallParts, EnableFaceId, TryUpgradeAgain, Close, ReplyHandled,
     PreviewHandled, PollHandled, ProcessHandled, GazeSteps, InstallerSteps,
     restVars, windowVars, quietVars
<1>6. CASE QuietBegins
  BY <1>2, <1>6, Zenon DEF QuietBegins
<1> QED
  BY <1>3, <1>4, <1>5, <1>6, Zenon DEF Next

LEMMA PartTypesStep == PartTypes /\ ScreenTypes' /\ Next => PartTypes'
BY SetupTypesStep, HandlerTypesStep, PageTypesStep, Zenon
   DEF PartTypes, HandlerTypes, LockTypes, WindowTypeOK

-----------------------------------------------------------------------------
(* The integration, once there, stays; so does the receipt.                *)

LEMMA ReadinessSteps ==
  ASSUME TypeInv, Next
  PROVE  /\ known' \in {known, machine}
         /\ machine.integration => machine'.integration
<1>1. machine \in Machines
  BY DEF TypeInv, WorldTypes
<1>2. CASE UNCHANGED <<machine, known>>
  BY <1>2
<1>3. CASE UNCHANGED known /\ machine' \in {AllThere, [machine EXCEPT !.service = FALSE],
                                            [machine EXCEPT !.service = TRUE]}
  BY <1>1, <1>3 DEF AllThere, Machines
<1>4. CASE BeginEnrollment \/ (Refresh /\ UNCHANGED <<machine, toGaze, enrollmentVars>>)
  BY <1>4, Zenon DEF BeginEnrollment, Refresh
<1>5. CASE CancelEnrollment \/ Messages
  BY <1>2, <1>5, Zenon DEF CancelEnrollment, Messages, ReplyArrives, StatusArrives, FrameArrives,
     PreviewTimerFires, readinessVars
<1>6. CASE Gaze
  BY <1>2, <1>3, <1>6, Zenon DEF Gaze, GazeTakes, GazeAnswers, GazePoses, GazeEnds, GazeGoes,
     GazeComes, CallTimesOut, readinessVars
<1>7. CASE PartsArrive \/ Close
  BY <1>2, <1>3, <1>7, Zenon DEF PartsArrive, Close
<1>8. CASE UNCHANGED <<readinessVars, enrollmentVars>>
  BY <1>2, <1>8, Zenon DEF readinessVars
<1> QED
  BY <1>4, <1>5, <1>6, <1>7, <1>8, ScanSteps, Zenon DEF EnrollmentNext

LEMMA IntegrationStep ==
  TypeInv /\ IntegrationStays /\ Next =>
    IntegrationStays' /\ (known.integration => known'.integration)
BY ReadinessSteps, Zenon DEF IntegrationStays

LEMMA ReceiptSteps ==
  ASSUME TypeInv, Next
  PROVE  (receipt => receipt') /\ (complete' => complete \/ receipt')
<1>1. CASE UNCHANGED <<receipt, complete>>
  BY <1>1
<1>2. CASE BeginEnrollment
  <2>1. UNCHANGED <<receipt, complete>> \/ (receipt' = receipt /\ complete' = FALSE)
    BY <1>2, Zenon DEF BeginEnrollment, enrollmentVars, clientVars
  <2> QED
    BY <2>1
<1>3. CASE StatusArrives
  <2>1. \/ UNCHANGED <<receipt, complete>>
        \/ /\ complete' = (Head(mail).prompt = "completed")
           /\ receipt' = (receipt \/ Head(mail).prompt = "completed")
    BY <1>3, Zenon DEF StatusArrives
  <2> QED
    BY <1>1, <2>1, SMT DEF TypeInv, ScreenTypes
<1>4. CASE ReplyArrives
  BY <1>1, <1>4, Zenon DEF ReplyArrives, StaleReply, FailedReply, StartedReply, clientVars
<1>5. CASE CancelEnrollment \/ FrameArrives \/ \E g \in previewTimers : PreviewTimerFires(g)
  BY <1>1, <1>5, Zenon DEF CancelEnrollment, FrameArrives, PreviewTimerFires, clientVars
<1>6. CASE Gaze
  BY <1>1, <1>6, Zenon DEF Gaze, GazeTakes, GazeAnswers, GazePoses, GazeEnds, GazeGoes,
     GazeComes, CallTimesOut, enrollmentVars, clientVars
<1>7. CASE UNCHANGED enrollmentVars \/ Close
  BY <1>1, <1>7, Zenon DEF enrollmentVars, clientVars, Close
<1> QED
  BY <1>2, <1>3, <1>4, <1>5, <1>6, <1>7, ScanSteps, Zenon DEF EnrollmentNext, Messages, PartsArrive

LEMMA DonePageStep == TypeInv /\ DonePageHasReceipt /\ Next => DonePageHasReceipt'
<1> SUFFICES ASSUME TypeInv, DonePageHasReceipt, Next PROVE DonePageHasReceipt'
  OBVIOUS
<1>0. /\ receipt => receipt'
      /\ complete' => complete \/ receipt'
      /\ 0 # 3 /\ 1 # 3 /\ 2 # 3
  BY ReceiptSteps
<1>1. CASE UNCHANGED pageVars
  BY <1>0, <1>1, Zenon DEF pageVars, DonePageHasReceipt
<1>2. CASE \/ GetStarted \/ CheckAgain \/ BackToWelcome \/ StartEnrollment \/ BackFromScan
           \/ ScanAgain \/ BeginGazeTimerFires \/ ScanCompleteTimerFires \/ StatusHandled
  BY <1>0, <1>2, Zenon DEF GetStarted, CheckAgain, BackToWelcome, StartEnrollment, BackFromScan,
     ScanAgain, BeginGazeTimerFires, ScanCompleteTimerFires, StatusHandled, OnEnrollmentChanged,
     pageVars, DonePageHasReceipt
<1>3. CASE \/ InstallParts \/ EnableFaceId \/ ContinueUpgrade \/ TryUpgradeAgain \/ Close
           \/ ReplyHandled \/ PreviewHandled \/ PollHandled \/ ProcessHandled \/ ActivationHandled
           \/ QuietBegins \/ GazeSteps \/ InstallerSteps
  BY <1>1, <1>3, Zenon DEF InstallParts, EnableFaceId, ContinueUpgrade, TryUpgradeAgain, Close,
     ReplyHandled, PreviewHandled, PollHandled, ProcessHandled, ActivationHandled, QuietBegins,
     GazeSteps, InstallerSteps, restVars, windowVars
<1> QED
  BY <1>2, <1>3, Zenon DEF Next

-----------------------------------------------------------------------------
(* Who begins an activation, and when.                                     *)

Begins == EnableLockIntegration /\ known'.integration

LEMMA SignalSteps ==
  ASSUME NEW inProgress, OnFaceSetupChanged(inProgress)
  PROVE  /\ app' = app \/ app' = "failed"
         /\ \/ UNCHANGED lockVars
            \/ Begins /\ ((app = "window" /\ inProgress) \/ app = "quiet")
<1>1. CASE app = "window" /\ inProgress /\ known'.integration /\ EnableLockIntegration /\ UNCHANGED app
  BY <1>1, Zenon DEF Begins
<1>2. CASE UNCHANGED lockVars /\ app' \in {app, "failed"}
  BY <1>2
<1>3. CASE app = "quiet" /\ known'.integration /\ StartActivation
  BY <1>2, <1>3, Zenon DEF StartActivation, Begins
<1> QED
  BY <1>1, <1>2, <1>3, Zenon DEF OnFaceSetupChanged, Ready

LEMMA InstallSteps ==
  ASSUME NEW quiet, NEW inProgress, InstallFaceSetup(quiet, inProgress)
  PROVE  /\ app' = app \/ app' = "failed"
         /\ \/ UNCHANGED lockVars
            \/ Begins /\ ((app = "window" /\ inProgress) \/ app = "quiet")
<1>1. CASE UNCHANGED <<setupVars, app, lockVars, activationStarted>>
  BY <1>1
<1>2. CASE OnFaceSetupChanged(inProgress)
  BY <1>2, SignalSteps
<1> QED
  BY <1>1, <1>2, Zenon DEF InstallFaceSetup

LEMMA LockSteps ==
  ASSUME UpdateInv, Next
  PROVE  \/ UNCHANGED lockVars
         \/ Begins /\ ~upgradeComplete
         \/ ActivationHandled
<1>0. "window" # "quiet"
  OBVIOUS
<1>1. /\ app = "quiet" => ~upgradeComplete
      /\ upgradeInProgress => ~upgradeComplete
      /\ currentStep = 3 => receipt
  BY Zenon DEF UpdateInv, QuietIsNoWindow, UpdateIsOver, DonePageHasReceipt
<1>2. CASE InstallParts \/ ContinueUpgrade
  BY <1>0, <1>2, InstallSteps, Zenon DEF InstallParts, ContinueUpgrade, Page, UpgradeSession
<1>3. CASE TryUpgradeAgain
  BY <1>1, <1>3, InstallSteps, Zenon DEF TryUpgradeAgain, UpgradeFailed, Begins, Ready, Refresh
<1>4. CASE EnableFaceId
  BY <1>1, <1>4, Zenon DEF EnableFaceId, Page, UpgradeSession, UpgradeAvailable, Begins, readinessVars
<1>5. CASE PollHandled \/ ProcessHandled
  <2>1. UNCHANGED lockVars \/ OnFaceSetupChanged(upgradeInProgress)
    BY <1>5, Zenon DEF PollHandled, ProcessHandled
  <2> QED
    <3>1. CASE OnFaceSetupChanged(upgradeInProgress)
      BY <1>1, <3>1, SignalSteps
    <3> QED
      BY <2>1, <3>1
<1>6. CASE QuietBegins
  BY <1>0, <1>1, <1>6, InstallSteps, Zenon DEF QuietBegins, StartActivation, Begins
<1>7. CASE \/ GetStarted \/ CheckAgain \/ BackToWelcome \/ StartEnrollment \/ BackFromScan \/ ScanAgain
           \/ BeginGazeTimerFires \/ ScanCompleteTimerFires \/ Close
           \/ StatusHandled \/ ReplyHandled \/ PreviewHandled \/ GazeSteps \/ InstallerSteps
  BY <1>7, Zenon DEF GetStarted, CheckAgain, BackToWelcome, StartEnrollment, BackFromScan,
     ScanAgain, BeginGazeTimerFires, ScanCompleteTimerFires, Close, StatusHandled, ReplyHandled,
     PreviewHandled, GazeSteps, InstallerSteps, restVars
<1> QED
  BY <1>2, <1>3, <1>4, <1>5, <1>6, <1>7, Zenon DEF Next

(* How the application and an update go on.                                *)
LEMMA UpdateSteps ==
  ASSUME Next
  PROVE  \/ ActivationHandled
         \/ /\ app' \in {app, "failed"} \/ (app = "window" /\ app' = "closed")
            /\ upgradeComplete' = upgradeComplete
            /\ \/ upgradeInProgress' \in {upgradeInProgress, FALSE}
               \/ app = "window" /\ ~upgradeComplete
<1>1. CASE \/ GetStarted \/ CheckAgain \/ StartEnrollment \/ BackFromScan \/ ScanAgain \/ EnableFaceId
           \/ BeginGazeTimerFires \/ ScanCompleteTimerFires
           \/ StatusHandled \/ ReplyHandled \/ PreviewHandled \/ GazeSteps \/ InstallerSteps
  BY <1>1, Zenon DEF GetStarted, CheckAgain, StartEnrollment, BackFromScan, ScanAgain, EnableFaceId,
     BeginGazeTimerFires, ScanCompleteTimerFires, StatusHandled, ReplyHandled, PreviewHandled,
     GazeSteps, InstallerSteps, restVars, windowVars, updateVars
<1>2. CASE BackToWelcome \/ Close
  BY <1>2, Zenon DEF BackToWelcome, Close, windowVars, updateVars
<1>3. CASE InstallParts \/ TryUpgradeAgain
  BY <1>3, InstallSteps, Zenon DEF InstallParts, TryUpgradeAgain, windowVars, updateVars
<1>4. CASE ContinueUpgrade
  BY <1>4, InstallSteps, Zenon DEF ContinueUpgrade, UpgradePage
<1>5. CASE PollHandled \/ ProcessHandled
  BY <1>5, SignalSteps, Zenon DEF PollHandled, ProcessHandled, windowVars, updateVars
<1>6. CASE QuietBegins
  BY <1>6, InstallSteps, Zenon DEF QuietBegins, StartActivation, windowVars, updateVars
<1> QED
  BY <1>1, <1>2, <1>3, <1>4, <1>5, <1>6, Zenon DEF Next

LEMMA EnableKeeps == EnableLockIntegration => lockInstalled' = lockInstalled
BY Zenon DEF EnableLockIntegration, lockVars

LEMMA UpdateStep == TypeInv /\ WindowTypeOK /\ WindowTypeOK' /\ UpdateInv /\ Next => UpdateInv'
<1> SUFFICES ASSUME TypeInv, WindowTypeOK, WindowTypeOK', UpdateInv, Next PROVE UpdateInv'
  OBVIOUS
<1>1. /\ IntegrationStays' /\ DonePageHasReceipt'
      /\ known.integration => known'.integration
  BY IntegrationStep, DonePageStep DEF UpdateInv
<1>2. CASE ActivationHandled
  <2>1. /\ lockInstalling /\ ~lockInstalling' /\ known' = known
        /\ Alive /\ OnActivationFinished
    BY <1>2, Zenon DEF ActivationHandled, FinishLockActivation, readinessVars
  <2>2. known'.integration /\ ~upgradeComplete
    BY <1>1, <2>1, Zenon DEF UpdateInv, ActivationIsIntegrated, UpdateIsOver
  <2>3. app \in {"window", "quiet"} /\ "window" # "upgraded" /\ "upgraded" # "quiet" /\ "failed" # "quiet"
        /\ "failed" # "upgraded"
    BY <2>1, Zenon DEF Alive
  <2>4. ActivationIsIntegrated' /\ UpdateIsOver' /\ UpdatedIsComplete'
    BY <2>1, <2>2, <2>3, Zenon DEF OnActivationFinished, ActivationIsIntegrated, UpdateIsOver,
                                   UpdatedIsComplete
  <2>5. QuietIsNoWindow'
    BY <2>1, <2>3, Zenon DEF OnActivationFinished, QuietIsNoWindow
  <2> QED
    BY <1>1, <2>4, <2>5 DEF UpdateInv
<1>3. CASE ~ActivationHandled
  <2>1. \/ UNCHANGED <<lockInstalling, lockInstalled>>
        \/ lockInstalled' = lockInstalled /\ known'.integration /\ ~upgradeComplete
    BY <1>3, LockSteps, EnableKeeps, Zenon DEF lockVars, Begins
  <2>2. /\ app' \in {app, "failed"} \/ (app = "window" /\ app' = "closed")
        /\ upgradeComplete' = upgradeComplete
        /\ \/ upgradeInProgress' \in {upgradeInProgress, FALSE}
           \/ app = "window" /\ ~upgradeComplete
    BY <1>3, UpdateSteps
  <2>3. /\ "failed" # "quiet" /\ "closed" # "quiet" /\ "window" # "quiet"
        /\ "failed" # "upgraded" /\ "closed" # "upgraded"
    OBVIOUS
  <2>4. /\ app' = "upgraded" => app = "upgraded"
        /\ app' = "quiet" => app = "quiet"
        /\ upgradeComplete' => upgradeComplete
        /\ upgradeInProgress' => upgradeInProgress \/ (app # "quiet" /\ ~upgradeComplete)
    <3>1. (app' = "upgraded" => app = "upgraded") /\ (app' = "quiet" => app = "quiet")
      BY <2>2, <2>3, Zenon
    <3>2. upgradeComplete' => upgradeComplete
      BY <2>2
    <3>3. upgradeInProgress' => upgradeInProgress \/ (app # "quiet" /\ ~upgradeComplete)
      BY <2>2, <2>3
    <3> QED
      BY <3>1, <3>2, <3>3
  <2>5. /\ lockInstalling' => lockInstalling \/ (known'.integration /\ ~upgradeComplete)
        /\ lockInstalled => lockInstalled'
    BY <2>1, SMT DEF WindowTypeOK
  <2>6. ActivationIsIntegrated' /\ UpdateIsOver'
    BY <1>1, <2>4, <2>5, Zenon DEF UpdateInv, ActivationIsIntegrated, UpdateIsOver
  <2>7. UpdatedIsComplete' /\ QuietIsNoWindow'
    BY <1>1, <2>4, <2>5, Zenon DEF UpdateInv, UpdatedIsComplete, QuietIsNoWindow
  <2> QED
    BY <1>1, <2>6, <2>7 DEF UpdateInv
<1> QED
  BY <1>2, <1>3

-----------------------------------------------------------------------------
(* The invariant, and what follows from it.                                *)

LEMMA SetupInvInit == Init => SetupInv
<1> SUFFICES ASSUME Init PROVE SetupInv
  OBVIOUS
<1>1. EnrollInv /\ known = machine /\ complete = FALSE
  BY EnrollInvInit, Zenon DEF Init, EnrollmentInit
<1>2. 0 \in 0..3 /\ 0 # 3 /\ 0 \in 0..MaxPolls - 1
  BY FaceSetupAssumption
<1>3. app \in {"window", "quiet", "refused"} /\ "quiet" # "upgraded" /\ "window" # "upgraded"
      /\ "refused" # "upgraded"
  BY Zenon DEF Init
<1>4. FaceSetupTypeOK
  BY <1>2, Zenon DEF Init, FaceSetupTypeOK
<1>5. WindowTypeOK
  BY <1>2, <1>3, Zenon DEF Init, WindowTypeOK, Apps
<1>6. UpdateInv
  BY <1>1, <1>2, <1>3, Zenon DEF Init, UpdateInv, IntegrationStays, ActivationIsIntegrated,
     DonePageHasReceipt, QuietIsNoWindow, UpdateIsOver, UpdatedIsComplete
<1> QED
  BY <1>1, <1>4, <1>5, <1>6 DEF SetupInv, PartTypes

LEMMA SetupInvStep == SetupInv /\ [Next]_vars => SetupInv'
<1>1. ASSUME SetupInv, Next PROVE SetupInv'
  <2>1. EnrollInv' /\ TypeInv /\ ScreenTypes'
    BY <1>1, EnrollmentKept DEF SetupInv, EnrollInv, TypeInv
  <2>2. PartTypes'
    BY <1>1, <2>1, PartTypesStep DEF SetupInv
  <2> QED
    BY <1>1, <2>1, <2>2, UpdateStep DEF SetupInv, PartTypes
<1>2. ASSUME SetupInv, UNCHANGED vars PROVE SetupInv'
  <2>1. UNCHANGED <<readinessVars, enrollmentVars>>
    BY <1>2, Zenon DEF vars
  <2>2. EnrollInv'
    BY <1>2, <2>1, EnrollInvStep DEF SetupInv
  <2>3. PartTypes'
    <3>1. UNCHANGED <<setupVars, app, lockVars, windowVars, quietVars>>
      BY <1>2, Zenon DEF vars
    <3>2. FaceSetupTypeOK'
      BY <1>2, <3>1, Zenon DEF SetupInv, PartTypes, FaceSetupTypeOK, setupVars
    <3>3. WindowTypeOK'
      BY <1>2, <3>1, Zenon DEF SetupInv, PartTypes, WindowTypeOK, lockVars, windowVars, pageVars,
         updateVars, quietVars
    <3> QED
      BY <3>2, <3>3 DEF PartTypes
  <2>4. UpdateInv'
    BY <1>2, Zenon DEF SetupInv, UpdateInv, IntegrationStays, ActivationIsIntegrated,
       DonePageHasReceipt, QuietIsNoWindow, UpdateIsOver, UpdatedIsComplete, vars, readinessVars,
       enrollmentVars, clientVars, lockVars, windowVars, pageVars, updateVars
  <2> QED
    BY <2>2, <2>3, <2>4 DEF SetupInv
<1> QED
  BY <1>1, <1>2

(* Who owns a claim, a session and a start, and what an update has done,   *)
(* at every step of the application, its end included.                     *)
THEOREM SetupInvariant == Spec => []SetupInv
BY SetupInvInit, SetupInvStep, PTL DEF Spec

(* Every variable stays within its type: the window, the quiet upgrade,    *)
(* the setup they run, and the enrolment with Gaze at its other end.       *)
THEOREM SetupTypeCorrect == Spec => []TypeOK
<1>1. SetupInv => TypeOK
  BY TypesAreTypeOK DEF SetupInv, PartTypes, EnrollInv, TypeOK
<1> QED
  BY <1>1, SetupInvariant, PTL

(* An update reports its end, by the window or by exit status 0, only with *)
(* the integration and the files of the lock integration in place, however *)
(* installers and activations have failed before, if nobody uninstalls     *)
(* Face ID meanwhile.                                                      *)
THEOREM UpdateIsComplete == Spec => []UpdatedIsComplete
<1>1. SetupInv => UpdatedIsComplete
  BY DEF SetupInv, UpdateInv
<1> QED
  BY <1>1, SetupInvariant, PTL

(* What is proved of Enrollment alone holds in the application, whose      *)
(* window may be closed at any time: no claim outlives its enrolment and   *)
(* what the user has ended is stopped (cancelEnrollment, onClosing).       *)
THEOREM NothingIsLeftToGaze == Spec => [](ClaimIsReleased /\ CancelledIsStopped)
<1>1. SetupInv => ClaimIsReleased /\ CancelledIsStopped
  BY ClaimFollows, StopFollows DEF SetupInv
<1> QED
  BY <1>1, SetupInvariant, PTL

-----------------------------------------------------------------------------
(* The activation that the application sees.                               *)

(* While an activation runs, none counts as active.                        *)
RunningIsInactive == lockInstalling => ~lockActive

LockInv == SetupInv /\ RunningIsInactive

LEMMA SameLockOutcome == UNCHANGED lockVars => UNCHANGED Outcome!outcomeVars
<1> SUFFICES ASSUME UNCHANGED lockVars PROVE UNCHANGED Outcome!outcomeVars
  OBVIOUS
<1>1. UNCHANGED <<lockInstalling, lockInstalled, lockActive, lockError>>
  BY Zenon DEF lockVars
<1> QED
  BY <1>1, SMT DEF Outcome!outcomeVars

LEMMA EnableOutcome ==
  ASSUME WindowTypeOK, WindowTypeOK', EnableLockIntegration
  PROVE  /\ Outcome!Enable \/ UNCHANGED lockVars
         /\ RunningIsInactive => RunningIsInactive'
<1>1. CASE UNCHANGED lockVars
  BY <1>1, Zenon DEF lockVars, RunningIsInactive
<1>2. ASSUME ~lockInstalling, ~lockActive', lockError' <=> ~lockInstalling'
      PROVE  Outcome!Enable /\ RunningIsInactive'
  <2>1. lockInstalling' \in BOOLEAN
    BY DEF WindowTypeOK
  <2> QED
    BY <1>2, <2>1, Zenon DEF Outcome!Enable, RunningIsInactive
<1>3. \/ UNCHANGED lockVars
      \/ ~lockInstalling /\ lockInstalling' = TRUE /\ lockError' = FALSE /\ lockActive' = FALSE
      \/ /\ ~lockInstalling /\ lockInstalling' = lockInstalling
         /\ lockError' = TRUE /\ lockActive' = FALSE
  BY Zenon DEF EnableLockIntegration
<1> QED
  BY <1>1, <1>2, <1>3

LEMMA FinishOutcome ==
  ASSUME RunningIsInactive, FinishLockActivation
  PROVE  Outcome!Finish /\ RunningIsInactive'
<1>1. lockInstalling /\ ~lockInstalling' /\ ~lockActive
  BY Zenon DEF FinishLockActivation, RunningIsInactive
<1>2. ~((lockInstalled' /\ lockActive') /\ lockError')
  <2>1. lockError' = FALSE \/ lockActive' = lockActive
    BY Zenon DEF FinishLockActivation
  <2> QED
    BY <1>1, <2>1
<1> QED
  BY <1>1, <1>2, Zenon DEF Outcome!Finish, RunningIsInactive

LEMMA LockStep ==
  ASSUME LockInv, [Next]_vars
  PROVE  LockInv' /\ [Outcome!Next]_Outcome!outcomeVars
<1>1. SetupInv' /\ WindowTypeOK /\ WindowTypeOK' /\ UpdateInv
  BY SetupInvStep DEF LockInv, SetupInv, PartTypes
<1>2. CASE UNCHANGED lockVars
  BY <1>1, <1>2, SameLockOutcome, Zenon DEF LockInv, RunningIsInactive, lockVars
<1>3. CASE EnableLockIntegration
  BY <1>1, <1>2, <1>3, EnableOutcome, Zenon DEF LockInv, Outcome!Next
<1>4. CASE ActivationHandled
  <2>1. FinishLockActivation
    BY <1>4, Zenon DEF ActivationHandled
  <2> QED
    BY <1>1, <2>1, FinishOutcome, Zenon DEF LockInv, Outcome!Next
<1>5. UNCHANGED vars => UNCHANGED lockVars
  BY Zenon DEF vars
<1> QED
  BY <1>1, <1>2, <1>3, <1>4, <1>5, LockSteps, Zenon DEF Begins

(* The application's view of the activation implements the specification   *)
(* that the activation itself implements (Activation_proof,                *)
(* OutcomeImplemented), however it is begun and ends: what Setup leaves    *)
(* out of it, no handler of the window or of the upgrade could tell.       *)
THEOREM LockOutcomeImplemented == Spec => ImplementsOutcome
<1>1. Init => LockInv /\ Outcome!Init
  <2> SUFFICES ASSUME Init PROVE LockInv /\ Outcome!Init
    OBVIOUS
  <2>1. lockInstalling = FALSE /\ lockActive = FALSE /\ lockError = FALSE
    BY Zenon DEF Init
  <2> QED
    BY <2>1, SetupInvInit DEF LockInv, RunningIsInactive, Outcome!Init
<1>2. LockInv /\ [Next]_vars => LockInv' /\ [Outcome!Next]_Outcome!outcomeVars
  BY LockStep
<1> QED
  BY <1>1, <1>2, PTL DEF Spec, ImplementsOutcome, Outcome!Spec

-----------------------------------------------------------------------------
(* An update that waits for nothing.                                       *)

(* A setup or an activation is under way, or the page says what failed.    *)
Working == installing \/ lockInstalling \/ setupError \/ lockError

UpdateIsWorking == app = "window" /\ upgradeInProgress => Working

LEMMA EnableWorks ==
  ASSUME "activation" \notin Faults, EnableLockIntegration
  PROVE  lockInstalling'
<1>1. \/ lockInstalling /\ lockInstalling' = lockInstalling
      \/ lockInstalling' = TRUE
  BY Zenon DEF EnableLockIntegration, lockVars
<1> QED
  BY <1>1

(* The end of a setup, in the window: its error, or an activation.         *)
LEMMA SignalWorks ==
  ASSUME "activation" \notin Faults, app = "window", OnFaceSetupChanged(TRUE),
         installing' \/ setupError' \/ Ready(known')
  PROVE  Working'
<1>1. "window" # "quiet"
  OBVIOUS
<1>2. EnableLockIntegration \/ installing' \/ setupError'
  BY <1>1, Zenon DEF OnFaceSetupChanged
<1> QED
  BY <1>2, EnableWorks DEF Working

LEMMA InstallWorks ==
  ASSUME "activation" \notin Faults, app = "window", NEW quiet, InstallFaceSetup(quiet, TRUE)
  PROVE  Working'
<1>1. CASE installing
  BY <1>1, Zenon DEF InstallFaceSetup, setupVars, Working
<1>2. CASE ~installing
  <2>1. StartFaceSetup(quiet) /\ OnFaceSetupChanged(TRUE)
    BY <1>2, Zenon DEF InstallFaceSetup
  <2>2. installing' \/ setupError' \/ Ready(known')
    <3>1. known' = machine
      BY <2>1, Zenon DEF StartFaceSetup, Refresh
    <3>2. Ready(machine) \/ setupError' = TRUE \/ installing' = TRUE
      BY <2>1, Zenon DEF StartFaceSetup
    <3> QED
      BY <3>1, <3>2, Zenon
  <2> QED
    BY <2>1, <2>2, SignalWorks
<1> QED
  BY <1>1, <1>2

LEMMA WorkingStep ==
  ASSUME "activation" \notin Faults, WindowTypeOK, UpdateIsWorking, Next
  PROVE  UpdateIsWorking'
<1> SUFFICES ASSUME app' = "window", upgradeInProgress' PROVE Working'
  BY DEF UpdateIsWorking
<1>0. /\ "window" # "quiet" /\ "window" # "upgraded" /\ "window" # "failed" /\ "window" # "closed"
      /\ app \in Apps /\ upgradeInProgress \in BOOLEAN
  BY DEF WindowTypeOK
<1>1. ASSUME UNCHANGED <<app, upgradeInProgress, installing, setupError>>, UNCHANGED lockVars
      PROVE  Working'
  BY <1>1, Zenon DEF UpdateIsWorking, Working, lockVars
<1>2. CASE \/ GetStarted \/ CheckAgain \/ StartEnrollment \/ BackFromScan \/ ScanAgain
           \/ BeginGazeTimerFires \/ ScanCompleteTimerFires
           \/ StatusHandled \/ ReplyHandled \/ PreviewHandled \/ GazeSteps
  <2>1. UNCHANGED <<app, upgradeInProgress, setupVars, lockVars>>
    BY <1>2, Zenon DEF GetStarted, CheckAgain, StartEnrollment, BackFromScan, ScanAgain,
       BeginGazeTimerFires, ScanCompleteTimerFires, StatusHandled, ReplyHandled, PreviewHandled,
       GazeSteps, restVars, updateVars
  <2> QED
    BY <1>1, <2>1, Zenon DEF setupVars
<1>3. CASE BackToWelcome \/ Close
  <2>1. app' = "closed" \/ upgradeInProgress' = FALSE
    BY <1>3, Zenon DEF BackToWelcome, Close
  <2> QED
    BY <1>0, <2>1
<1>4. CASE InstallParts \/ EnableFaceId
  <2>1. ~upgradeInProgress /\ upgradeInProgress' = upgradeInProgress
    BY <1>4, Zenon DEF InstallParts, EnableFaceId, Page, UpgradeSession, windowVars, updateVars
  <2> QED
    BY <2>1
<1>5. CASE ContinueUpgrade
  BY <1>5, InstallWorks, Zenon DEF ContinueUpgrade, UpgradePage
<1>6. CASE TryUpgradeAgain
  <2>1. CASE EnableLockIntegration
    BY <2>1, EnableWorks DEF Working
  <2>2. CASE InstallFaceSetup(FALSE, upgradeInProgress)
    <3>1. app = "window" /\ upgradeInProgress = TRUE
      BY <1>0, <1>6, Zenon DEF TryUpgradeAgain, UpgradePage, UpgradeFailed
    <3> QED
      BY <2>2, <3>1, InstallWorks
  <2> QED
    BY <1>6, <2>1, <2>2, Zenon DEF TryUpgradeAgain
<1>7. CASE PollHandled \/ ProcessHandled
  <2>1. upgradeInProgress' = upgradeInProgress
    BY <1>7, Zenon DEF PollHandled, ProcessHandled, windowVars, updateVars
  <2>2. app = "window"
    <3>1. app' = app \/ app' = "failed"
      BY <1>7, SignalSteps, Zenon DEF PollHandled, ProcessHandled
    <3> QED
      BY <1>0, <3>1
  <2>3. upgradeInProgress = TRUE
    BY <1>0, <2>1
  <2>4. CASE PollHandled
    <3>1. CASE installing'
      BY <3>1 DEF Working
    <3>2. CASE ~installing'
      <4>1. OnFaceSetupChanged(TRUE)
        BY <2>3, <2>4, <3>2, Zenon DEF PollHandled
      <4>2. setupError' \/ Ready(known')
        <5>1. FinishFaceSetup(FALSE) \/ (Ready(machine) /\ known' = machine)
          BY <2>4, <3>2, Zenon DEF PollHandled, PollTimerFires, PollSucceeds, Refresh
        <5> QED
          BY <5>1, Zenon DEF FinishFaceSetup
      <4> QED
        BY <2>2, <4>1, <4>2, SignalWorks
    <3> QED
      BY <3>1, <3>2
  <2>5. CASE ProcessHandled
    <3>1. CASE process = "failed"
      <4>1. setupError' = TRUE
        BY <2>5, <3>1, Zenon DEF ProcessHandled, ProcessFinished, FinishFaceSetup
      <4> QED
        BY <4>1 DEF Working
    <3>2. CASE process # "failed"
      <4>1. UNCHANGED <<app, upgradeInProgress, installing, setupError>> /\ UNCHANGED lockVars
        BY <2>1, <2>5, <3>2, Zenon DEF ProcessHandled, ProcessFinished
      <4> QED
        BY <1>1, <4>1
    <3> QED
      BY <3>1, <3>2
  <2> QED
    BY <1>7, <2>4, <2>5
<1>8. CASE ActivationHandled
  <2>1. lockInstalled' /\ lockActive'
    BY <1>8, Zenon DEF ActivationHandled, FinishLockActivation
  <2>2. upgradeInProgress' = FALSE
    BY <1>8, <2>1, Zenon DEF ActivationHandled, OnActivationFinished
  <2> QED
    BY <2>2
<1>9. CASE QuietBegins
  <2>1. app = "quiet" /\ (app' = app \/ app' = "failed")
    BY <1>9, InstallSteps, Zenon DEF QuietBegins, StartActivation
  <2> QED
    BY <1>0, <2>1
<1>10. CASE InstallerSteps
  BY <1>1, <1>10, Zenon DEF InstallerSteps, InstallerEnds, StrayEnds, windowVars, updateVars
<1> QED
  BY <1>2, <1>3, <1>4, <1>5, <1>6, <1>7, <1>8, <1>9, <1>10, Zenon DEF Next

(* An update that is under way in the window always works at something or  *)
(* shows an error and its button, unless an activation cannot be begun,    *)
(* fails or is answered from other files: no end of an installer, and no   *)
(* exit, poll or refusal of its own, leaves the page without either        *)
(* (startFaceSetup, finishFaceSetup, onFaceSetupChanged).                  *)
THEOREM UpdateIsNotStranded ==
  ASSUME "activation" \notin Faults
  PROVE  Spec => []UpgradeNeverStranded
<1>1. Init => UpdateIsWorking
  BY Zenon DEF Init, UpdateIsWorking
<1>2. SetupInv /\ UpdateIsWorking /\ [Next]_vars => UpdateIsWorking'
  <2>1. ASSUME UpdateIsWorking, UNCHANGED vars PROVE UpdateIsWorking'
    BY <2>1, Zenon DEF UpdateIsWorking, Working, vars, setupVars, lockVars, windowVars, updateVars
  <2> QED
    BY <2>1, WorkingStep DEF SetupInv, PartTypes
<1>3. UpdateIsWorking => UpgradeNeverStranded
  BY Zenon DEF UpdateIsWorking, Working, UpgradeNeverStranded, UpgradePage, UpgradeFailed
<1> QED
  BY <1>1, <1>2, <1>3, SetupInvariant, PTL DEF Spec
=============================================================================
