------------------------------ MODULE LockSubscriber ------------------------------
(***************************************************************************)
(* The lock-screen subscriber (integration/omarchy-plugin/Service.qml and  *)
(* LockState.js): the plugin that adds a face attempt beside the password  *)
(* field of omarchy.lock and asks omarchy.lock to finish unlocking after a *)
(* face success.                                                           *)
(*                                                                         *)
(* QML runs one handler at a time, to its end, so every handler is one     *)
(* action.  What interleaves are the sources of handlers: the lock service *)
(* (external), the PAM conversation (external), the presence watcher       *)
(* process (external), seven one-shot timers, two watched files and the    *)
(* input idle monitor.  Timer intervals are abstracted: any armed timer    *)
(* may fire next.                                                          *)
(***************************************************************************)
EXTENDS Integers

CONSTANTS
  MaxGeneration,  \* bound: no new lock generation is begun above it
  AbortLingers,   \* may an aborted PAM conversation stay active for a while?
  BeginsMidPassword  \* may a generation begin while a password is verified?

ASSUME LockSubscriberAssumption ==
  /\ MaxGeneration \in Nat
  /\ AbortLingers \in BOOLEAN
  /\ BeginsMidPassword \in BOOLEAN

VARIABLES
  (* omarchy.lock, external *)
  service,                \* the lockService the subscriber has resolved
  locked,                 \* omarchy.lock: the session is locked
  passwordActive,         \* omarchy.lock: a password is being verified
  (* the subscriber *)
  pamConfigured,          \* /etc/pam.d/omarchy-face-id-lock could be read
  presenceMode,           \* from config.toml
  lockGeneration,
  authenticating,
  attemptGeneration,
  status,
  inputWakeArmed,
  presenceGeneration,
  waitingForPresenceExit,
  expectedGeneration,     \* property of successUnlockTimer
  timers,                 \* the armed one-shot timers
  (* its helpers, external *)
  facePam,                \* the PamContext: idle, active, or aborting
  watcher,                \* the presence watcher process
  (* history *)
  attemptFresh,           \* the conversation began in this lock period, no password since
  verified,               \* such a conversation has succeeded, no password since
  unlockedBy              \* who ended the last lock period

hostVars     == <<service, locked, passwordActive>>
configVars   == <<pamConfigured, presenceMode>>
attemptVars  == <<authenticating, attemptGeneration, facePam>>
presenceVars == <<watcher, presenceGeneration, waitingForPresenceExit>>
historyVars  == <<attemptFresh, verified, unlockedBy>>

vars == <<hostVars, configVars, attemptVars, presenceVars, historyVars,
          lockGeneration, status, inputWakeArmed, expectedGeneration, timers>>

NoGeneration == -1
Generations  == Nat \cup {NoGeneration}
Services     == {"none", "incompatible", "compatible"}
Modes        == {"low_power", "on_activity", "continuous"}
Results      == {"success", "failed", "other"}  \* max_tries is treated as failed
Statuses     == {"unavailable", "idle", "grace", "checking", "success",
                 "unauthorized", "waiting", "sleeping", "waking", "password"}
Timers       == {"start", "retry", "rejectionHold", "presenceStart",
                 "presenceRelease", "successUnlock", "postUnlockWake"}

FlagsOK ==
  /\ locked \in BOOLEAN /\ passwordActive \in BOOLEAN
  /\ pamConfigured \in BOOLEAN
  /\ authenticating \in BOOLEAN
  /\ inputWakeArmed \in BOOLEAN
  /\ waitingForPresenceExit \in BOOLEAN
  /\ attemptFresh \in BOOLEAN /\ verified \in BOOLEAN

ValuesOK ==
  /\ service \in Services
  /\ presenceMode \in Modes
  /\ lockGeneration \in Nat
  /\ attemptGeneration \in Generations
  /\ status \in Statuses
  /\ presenceGeneration \in Generations
  /\ expectedGeneration \in Generations
  /\ timers \subseteq Timers
  /\ facePam \in {"idle", "active", "aborting"}
  /\ watcher \in {"stopped", "running", "terminating"}
  /\ unlockedBy \in {"nobody", "face", "other"}

(* Every variable stays within its type: in particular a generation is a   *)
(* lock generation or NoGeneration, never anything in between.             *)
TypeOK == FlagsOK /\ ValuesOK

-----------------------------------------------------------------------------
(* Decisions: LockState.js and the guards the handlers share.              *)

Compatible == service = "compatible"

Ready == Compatible /\ pamConfigured /\ locked

\* Fault: the generation of the result is not compared.
AcceptsAttemptResultFault(completed) == locked

AcceptsAttemptResult(completed) == completed = lockGeneration /\ locked

StateAfterAttempt(result) ==
  CASE result = "success" -> "success"
    [] result = "failed"  -> IF presenceMode = "continuous" THEN "waiting" ELSE "unauthorized"
    [] result = "other"   -> "sleeping"

CanWake == status = "sleeping" /\ locked /\ ~passwordActive

CanStartPresence ==
  status = "sleeping" /\ presenceMode = "low_power" /\ locked /\ ~passwordActive

AcceptsPresenceResult(watched) ==
  status = "sleeping" /\ presenceMode = "low_power" /\ watched = lockGeneration

\* Fault: the attempt's generation is compared, which its end has reset.
CanFinishUnlockFault ==
  expectedGeneration = attemptGeneration /\ locked /\ ~passwordActive /\ status = "success"

CanFinishUnlock ==
  /\ expectedGeneration = lockGeneration
  /\ locked /\ ~passwordActive
  /\ status = "success"

\* Fault: an attempt does not look at the password field.
CanStartAttemptFault == Ready /\ ~authenticating /\ facePam = "idle"

CanStartAttempt == Ready /\ ~passwordActive /\ ~authenticating /\ facePam = "idle"

-----------------------------------------------------------------------------
(* The functions the handlers call, as parts of actions.                   *)

(* Process.running = false only sends SIGTERM; the exit comes later.       *)
Terminated == IF watcher = "running" THEN "terminating" ELSE watcher

\* Fault: the watcher is disowned, not stopped.
StopPresenceWatcherFault ==
  waitingForPresenceExit' = FALSE /\ presenceGeneration' = NoGeneration /\ UNCHANGED watcher

StopPresenceWatcher ==
  /\ waitingForPresenceExit' = FALSE
  /\ presenceGeneration' = NoGeneration
  /\ watcher' = Terminated

(* PamContext.abort(): the conversation ends now, or it lingers, active,   *)
(* and may still report a result.                                          *)
Aborted ==
  IF facePam = "idle" THEN {"idle"}
  ELSE IF AbortLingers THEN {"idle", "aborting"} ELSE {"idle"}

\* Fault: the attempt's generation is stepped back, not reset.
ForgetAttemptFault ==
  authenticating' = FALSE /\ attemptGeneration' = attemptGeneration - 1

ForgetAttempt == authenticating' = FALSE /\ attemptGeneration' = NoGeneration

\* Fault: the conversation is aborted, the attempt's generation is kept.
AbortAttemptFault ==
  facePam' \in Aborted /\ authenticating' = FALSE /\ UNCHANGED attemptGeneration

AbortAttempt == ForgetAttempt /\ facePam' \in Aborted

(* beginLockGeneration(), run `times` times in a row by one handler.       *)
BeginLockGeneration(configured, times) ==
  /\ lockGeneration' = lockGeneration + times
  /\ inputWakeArmed' = FALSE
  /\ StopPresenceWatcher
  /\ AbortAttempt
  /\ status' = IF configured THEN "grace" ELSE "unavailable"
  /\ timers' = IF configured THEN {"start"} ELSE {}

EndLockGeneration ==
  /\ lockGeneration' = lockGeneration + 1
  /\ inputWakeArmed' = FALSE
  /\ StopPresenceWatcher
  /\ AbortAttempt
  /\ status' = IF pamConfigured THEN "idle" ELSE "unavailable"
  /\ timers' = {"postUnlockWake"}  \* restarted by onLockedChanged

\* Fault: Standby schedules nothing but the watcher.
SleepTimersFault(mode) == IF mode = "low_power" THEN {"presenceStart"} ELSE {}

SleepTimers(mode) ==
  CASE mode = "continuous"  -> {"retry"}
    [] mode = "low_power"   -> {"presenceStart"}
    [] mode = "on_activity" -> {}

(* enterSleeping() past its guards, in presence mode `mode`, called by the *)
(* handler of the timers in `fired` (none for other handlers).             *)
Sleep(mode, fired) ==
  /\ status' = IF mode = "continuous" THEN "waiting" ELSE "sleeping"
  /\ inputWakeArmed' = FALSE
  /\ StopPresenceWatcher
  /\ timers' = (timers \ (fired \cup {"retry", "rejectionHold", "presenceStart"}))
                 \cup SleepTimers(mode)

EnterSleeping(fired) ==
  \/ Ready /\ ~passwordActive /\ Sleep(presenceMode, fired)
  \/ /\ ~(Ready /\ ~passwordActive)
     /\ timers' = timers \ fired
     /\ UNCHANGED <<status, inputWakeArmed, presenceVars>>

WakeFromPresence ==
  /\ status' = "waking"
  /\ inputWakeArmed' = FALSE
  /\ presenceGeneration' = NoGeneration

(* startAttempt() from the timer `fired`.  facePam.start() may refuse, and *)
(* then the subscriber sleeps at once.                                     *)
StartAttempt(fired) ==
  \/ /\ ~CanStartAttempt
     /\ timers' = timers \ {fired}
     /\ UNCHANGED <<attemptVars, presenceVars, status, inputWakeArmed, attemptFresh>>
  \/ /\ CanStartAttempt
     /\ authenticating' = TRUE
     /\ attemptGeneration' = lockGeneration
     /\ facePam' = "active"
     /\ attemptFresh' = TRUE
     /\ status' = "checking"
     /\ StopPresenceWatcher
     /\ timers' = timers \ {fired, "presenceStart"}
     /\ UNCHANGED inputWakeArmed
  \/ /\ CanStartAttempt
     /\ ForgetAttempt
     /\ Sleep(presenceMode, {fired})
     /\ UNCHANGED <<facePam, attemptFresh>>

-----------------------------------------------------------------------------
Init ==
  /\ service = "none" /\ locked \in BOOLEAN /\ passwordActive = FALSE
  /\ pamConfigured = FALSE /\ presenceMode = "low_power"
  /\ lockGeneration = 0
  /\ authenticating = FALSE /\ attemptGeneration = NoGeneration
  /\ status = "unavailable"
  /\ inputWakeArmed = FALSE
  /\ presenceGeneration = NoGeneration /\ waitingForPresenceExit = FALSE
  /\ expectedGeneration = NoGeneration
  /\ timers = {}
  /\ facePam = "idle" /\ watcher = "stopped"
  /\ attemptFresh = FALSE /\ verified = FALSE /\ unlockedBy = "nobody"

(* The bound on generations; n leaves room to end the lock period, too.    *)
GenerationsLeft(n) == lockGeneration + n < MaxGeneration

(* A generation begins mid-password when the subscriber finds the service, *)
(* or its PAM file, while a password is being verified.                    *)
MayBegin == passwordActive => BeginsMidPassword

-----------------------------------------------------------------------------
(* The lock service and the handlers connected to it.  Its handlers run    *)
(* only while the resolved service is compatible (Connections.enabled).    *)

LockScreen ==
  /\ ~locked /\ ~passwordActive
  /\ locked' = TRUE
  /\ attemptFresh' = FALSE /\ verified' = FALSE /\ unlockedBy' = "nobody"
  /\ \/ Compatible /\ GenerationsLeft(1) /\ BeginLockGeneration(pamConfigured, 1)
     \/ ~Compatible /\ UNCHANGED <<lockGeneration, inputWakeArmed, presenceVars,
                                   attemptVars, status, timers>>
  /\ UNCHANGED <<service, passwordActive, configVars, expectedGeneration>>

(* The lock period ends by a password or by any way but a face.            *)
UnlockOtherwise ==
  /\ locked
  /\ locked' = FALSE
  /\ unlockedBy' = "other"
  /\ \/ Compatible /\ EndLockGeneration
     \/ ~Compatible /\ UNCHANGED <<lockGeneration, inputWakeArmed, presenceVars,
                                   attemptVars, status, timers>>
  /\ UNCHANGED <<service, passwordActive, configVars, expectedGeneration,
                 attemptFresh, verified>>

PasswordStarts ==
  /\ locked /\ ~passwordActive
  /\ passwordActive' = TRUE
  /\ attemptFresh' = FALSE /\ verified' = FALSE
  /\ \/ /\ Compatible
        /\ status' = "password"
        /\ StopPresenceWatcher
        /\ AbortAttempt
        /\ timers' = timers \cap {"postUnlockWake"}
     \/ ~Compatible /\ UNCHANGED <<status, presenceVars, attemptVars, timers>>
  /\ UNCHANGED <<service, locked, configVars, lockGeneration, inputWakeArmed,
                 expectedGeneration, unlockedBy>>

(* The password was wrong, or the lock ended first.  enterSleeping() sees   *)
(* the flag already cleared.                                                *)
PasswordEnds ==
  /\ passwordActive
  /\ passwordActive' = FALSE
  /\ \/ Ready /\ Sleep(presenceMode, {})
     \/ ~Ready /\ UNCHANGED <<status, inputWakeArmed, presenceVars, timers>>
  /\ UNCHANGED <<service, locked, configVars, lockGeneration, attemptVars,
                 expectedGeneration, historyVars>>

(* resolveTimer: findLockService() and onLockServiceChanged.               *)
ResolveService(next) ==
  /\ next # service
  /\ service' = next
  /\ \/ /\ next = "compatible" /\ locked
        /\ GenerationsLeft(2) /\ MayBegin
        /\ BeginLockGeneration(pamConfigured, 1)
     \/ /\ ~(next = "compatible" /\ locked)
        /\ status' = "unavailable"
        /\ UNCHANGED <<lockGeneration, inputWakeArmed, presenceVars, attemptVars, timers>>
  /\ UNCHANGED <<locked, passwordActive, configVars, expectedGeneration, historyVars>>

(* onShellChanged: findLockService(), then beginLockGeneration() again.     *)
ShellChanged(next) ==
  /\ service' = next
  /\ \/ /\ next = "compatible" /\ locked
        /\ GenerationsLeft(3) /\ MayBegin
        /\ BeginLockGeneration(pamConfigured, IF next # service THEN 2 ELSE 1)
     \/ /\ ~(next = "compatible" /\ locked)
        /\ status' = IF next # service THEN "unavailable" ELSE status
        /\ UNCHANGED <<lockGeneration, inputWakeArmed, presenceVars, attemptVars, timers>>
  /\ UNCHANGED <<locked, passwordActive, configVars, expectedGeneration, historyVars>>

-----------------------------------------------------------------------------
(* The two watched files.                                                  *)

PamConfigLoaded ==
  /\ pamConfigured' = TRUE
  /\ \/ /\ Compatible /\ locked
        /\ GenerationsLeft(2) /\ MayBegin
        /\ BeginLockGeneration(TRUE, 1)
     \/ /\ ~(Compatible /\ locked)
        /\ UNCHANGED <<lockGeneration, inputWakeArmed, presenceVars, attemptVars,
                       status, timers>>
  /\ UNCHANGED <<hostVars, presenceMode, expectedGeneration, historyVars>>

PamConfigLoadFailed ==
  /\ pamConfigured' = FALSE
  /\ AbortAttempt
  /\ status' = "unavailable"
  /\ UNCHANGED <<hostVars, presenceMode, lockGeneration, inputWakeArmed, presenceVars,
                 expectedGeneration, timers, historyVars>>

LoadUserConfig(mode) ==
  /\ mode # presenceMode
  /\ presenceMode' = mode
  /\ LET sleeps == Compatible /\ locked /\ status = "sleeping"
                     /\ pamConfigured /\ ~passwordActive  \* guards of enterSleeping()
     IN \/ sleeps /\ Sleep(mode, {})
        \/ ~sleeps /\ UNCHANGED <<status, inputWakeArmed, presenceVars, timers>>
  /\ UNCHANGED <<hostVars, pamConfigured, lockGeneration, attemptVars,
                 expectedGeneration, historyVars>>

-----------------------------------------------------------------------------
(* Timers.                                                                 *)

AttemptTimerFires(timer) ==
  /\ timer \in {"start", "retry", "presenceRelease"} /\ timer \in timers
  /\ StartAttempt(timer)
  /\ UNCHANGED <<hostVars, configVars, lockGeneration, expectedGeneration,
                 verified, unlockedBy>>

RejectionHoldFires ==
  /\ "rejectionHold" \in timers
  /\ EnterSleeping({"rejectionHold"})
  /\ UNCHANGED <<hostVars, configVars, lockGeneration, attemptVars,
                 expectedGeneration, historyVars>>

(* A watcher that is still terminating counts as running: it is not        *)
(* restarted, only its exit is claimed for this generation.                *)
PresenceStartFires ==
  /\ "presenceStart" \in timers
  /\ timers' = timers \ {"presenceStart"}
  /\ \/ /\ service # "none" /\ CanStartPresence
        /\ presenceGeneration' = lockGeneration
        /\ watcher' = IF watcher = "stopped" THEN "running" ELSE watcher
     \/ /\ ~(service # "none" /\ CanStartPresence)
        /\ UNCHANGED <<presenceGeneration, watcher>>
  /\ UNCHANGED <<hostVars, configVars, attemptVars, historyVars, waitingForPresenceExit,
                 lockGeneration, status, inputWakeArmed, expectedGeneration>>

(* lockService.finishUnlock(): omarchy.lock ends the lock period, and its  *)
(* onLockedChanged runs before the call returns.                           *)
SuccessUnlockFires ==
  /\ "successUnlock" \in timers
  /\ \/ /\ Compatible /\ CanFinishUnlock
        /\ locked' = FALSE
        /\ unlockedBy' = "face"
        /\ EndLockGeneration
     \/ /\ ~(Compatible /\ CanFinishUnlock)
        /\ timers' = timers \ {"successUnlock"}
        /\ UNCHANGED <<locked, unlockedBy, lockGeneration, inputWakeArmed,
                       presenceVars, attemptVars, status>>
  /\ UNCHANGED <<service, passwordActive, configVars, expectedGeneration,
                 attemptFresh, verified>>

(* The wake command runs; it has no state the subscriber reads.            *)
PostUnlockWakeFires ==
  /\ "postUnlockWake" \in timers
  /\ timers' = timers \ {"postUnlockWake"}
  /\ UNCHANGED <<hostVars, configVars, attemptVars, presenceVars, historyVars,
                 lockGeneration, status, inputWakeArmed, expectedGeneration>>

-----------------------------------------------------------------------------
(* The input idle monitor, enabled only in Standby.                        *)

InputMonitorEnabled == Ready /\ status = "sleeping"

InputIdle ==
  /\ InputMonitorEnabled /\ ~inputWakeArmed
  /\ inputWakeArmed' = TRUE
  /\ UNCHANGED <<hostVars, configVars, attemptVars, presenceVars, historyVars,
                 lockGeneration, status, expectedGeneration, timers>>

(* A running watcher is told to stop first; its exit starts the attempt.   *)
InputActivity ==
  /\ InputMonitorEnabled /\ inputWakeArmed
  /\ CanWake
  /\ WakeFromPresence
  /\ \/ /\ watcher # "stopped"
        /\ waitingForPresenceExit' = TRUE
        /\ watcher' = "terminating"
        /\ timers' = timers \ {"presenceStart"}
     \/ /\ watcher = "stopped"
        /\ timers' = (timers \ {"presenceStart"}) \cup {"presenceRelease"}
        /\ UNCHANGED <<waitingForPresenceExit, watcher>>
  /\ UNCHANGED <<hostVars, configVars, attemptVars, historyVars,
                 lockGeneration, expectedGeneration>>

-----------------------------------------------------------------------------
(* The PAM conversation.                                                   *)

\* Fault: a result is taken to belong to the current generation.
CompletedGenerationFault == lockGeneration

(* The generation a finished conversation is taken to belong to.           *)
CompletedGeneration == attemptGeneration

(* handleAttemptFinished() past the bookkeeping of the attempt.            *)
ApplyResult(result) ==
  LET accepted == Compatible /\ AcceptsAttemptResult(CompletedGeneration)
      next     == StateAfterAttempt(result)
  IN \/ /\ accepted /\ next = "success"
        /\ status' = "success"
        /\ expectedGeneration' = CompletedGeneration
        /\ timers' = timers \cup {"successUnlock"}
        /\ UNCHANGED <<inputWakeArmed, presenceVars>>
     \/ /\ accepted /\ next \in {"unauthorized", "waiting"}
        /\ status' = "unauthorized"
        /\ timers' = timers \cup {IF next = "waiting" THEN "retry" ELSE "rejectionHold"}
        /\ UNCHANGED <<inputWakeArmed, presenceVars, expectedGeneration>>
     \/ /\ accepted /\ next = "sleeping"
        /\ EnterSleeping({})
        /\ UNCHANGED expectedGeneration
     \/ /\ ~accepted
        /\ UNCHANGED <<status, inputWakeArmed, presenceVars, expectedGeneration, timers>>

PamCompletes(result) ==
  /\ facePam # "idle"
  /\ facePam' = "idle"
  /\ ForgetAttempt
  /\ ApplyResult(result)
  /\ verified' = \/ verified
                 \/ /\ facePam = "active" /\ result = "success"
                    /\ attemptFresh /\ locked /\ ~passwordActive
  /\ UNCHANGED <<hostVars, configVars, lockGeneration, attemptFresh, unlockedBy>>

(* onError; the completed(Error) that follows finds no attempt and returns. *)
PamErrors ==
  /\ facePam # "idle"
  /\ facePam' = "idle"
  /\ ForgetAttempt
  /\ \/ CompletedGeneration = lockGeneration /\ EnterSleeping({})
     \/ /\ CompletedGeneration # lockGeneration
        /\ UNCHANGED <<status, inputWakeArmed, presenceVars, timers>>
  /\ UNCHANGED <<hostVars, configVars, lockGeneration, expectedGeneration, historyVars>>

-----------------------------------------------------------------------------
\* Fault: the exit must belong to the current generation, which waking reset.
ExitEndsWaitFault ==
  waitingForPresenceExit /\ status = "waking" /\ presenceGeneration = lockGeneration

(* The exit the subscriber waits for before it opens the camera.           *)
ExitEndsWait == waitingForPresenceExit /\ status = "waking"

(* The presence watcher exits: it saw motion, it failed, or it was told to *)
(* stop -- and may have seen motion just before.                           *)
WatcherExits(sawMotion) ==
  /\ watcher # "stopped"
  /\ watcher' = "stopped"
  /\ presenceGeneration' = NoGeneration
  /\ \/ /\ ExitEndsWait
        /\ waitingForPresenceExit' = FALSE
        /\ timers' = timers \cup {"presenceRelease"}
        /\ UNCHANGED <<status, inputWakeArmed>>
     \/ /\ ~ExitEndsWait
        /\ sawMotion /\ AcceptsPresenceResult(presenceGeneration)
        /\ Compatible /\ pamConfigured /\ CanWake
        /\ WakeFromPresence
        /\ timers' = (timers \ {"presenceStart"}) \cup {"presenceRelease"}
        /\ UNCHANGED waitingForPresenceExit
     \/ /\ ~ExitEndsWait
        /\ ~(/\ sawMotion /\ AcceptsPresenceResult(presenceGeneration)
             /\ Compatible /\ pamConfigured /\ CanWake)
        /\ UNCHANGED <<status, inputWakeArmed, timers, waitingForPresenceExit>>
  /\ UNCHANGED <<hostVars, configVars, attemptVars, historyVars,
                 lockGeneration, expectedGeneration>>

-----------------------------------------------------------------------------
Next ==
  \/ LockScreen \/ UnlockOtherwise \/ PasswordStarts \/ PasswordEnds
  \/ \E next \in Services : ResolveService(next) \/ ShellChanged(next)
  \/ PamConfigLoaded \/ PamConfigLoadFailed
  \/ \E mode \in Modes : LoadUserConfig(mode)
  \/ \E timer \in Timers : AttemptTimerFires(timer)
  \/ RejectionHoldFires \/ PresenceStartFires
  \/ SuccessUnlockFires \/ PostUnlockWakeFires
  \/ InputIdle \/ InputActivity
  \/ \E result \in Results : PamCompletes(result)
  \/ PamErrors
  \/ \E sawMotion \in BOOLEAN : WatcherExits(sawMotion)

Spec == Init /\ [][Next]_vars

(* Qt fires every armed timer; a PAM conversation reports, a password      *)
(* verification returns and a terminated watcher exits.                    *)
Fairness ==
  /\ \A timer \in Timers : WF_vars(AttemptTimerFires(timer))
  /\ WF_vars(RejectionHoldFires) /\ WF_vars(PresenceStartFires)
  /\ WF_vars(SuccessUnlockFires) /\ WF_vars(PostUnlockWakeFires)
  /\ WF_vars(PamErrors \/ \E result \in Results : PamCompletes(result))
  /\ WF_vars(watcher = "terminating" /\ \E sawMotion \in BOOLEAN : WatcherExits(sawMotion))
  /\ WF_vars(PasswordEnds)

LiveSpec == Spec /\ Fairness

-----------------------------------------------------------------------------
(* Safety.                                                                 *)

(* A lock period that ends by face had a face conversation that was begun  *)
(* in that very period, was never aborted, succeeded, and was followed by  *)
(* no password attempt: finishUnlock() in successUnlockTimer is reached    *)
(* only from such a result, whatever late, aborted or stale results and    *)
(* timers of earlier generations are still under way.                      *)
FaceUnlockIsVerified == unlockedBy = "face" => verified

(* Starting a password aborts the face attempt at once, and none begins    *)
(* while the password is verified (onAuthenticatingPasswordChanged and the *)
(* guards of startAttempt), also when the service is found mid-password.   *)
PasswordExcludesFace == Ready /\ passwordActive => facePam # "active"

(* The subscriber is never stranded: in each state it shows while a lock   *)
(* is on, the timer, process exit or PAM result that moves it on is still  *)
(* under way.  enterSleeping, wakeFromPresence and the stop() calls must   *)
(* never cancel the only event that a status waits for.                    *)
NothingStranded ==
  Ready /\ ~passwordActive =>
    /\ status = "grace"        => "start" \in timers
    /\ status = "waiting"      => "retry" \in timers
    /\ status = "unauthorized" => timers \cap {"retry", "rejectionHold"} # {}
    /\ status = "checking"     => authenticating /\ facePam = "active"
    /\ status = "success"      => /\ "successUnlock" \in timers
                                 /\ expectedGeneration = lockGeneration
    /\ status = "waking"       => \/ "presenceRelease" \in timers
                                 \/ (waitingForPresenceExit /\ watcher = "terminating")
    /\ status \notin {"unavailable", "idle", "password"}

(* Gaze and the presence watcher do not hold the camera at the same time:  *)
(* no watcher runs, untold to stop, beside a face conversation             *)
(* (presenceStartTimer, presenceReleaseTimer and startAttempt).            *)
OneCameraUser == ~(facePam = "active" /\ watcher = "running")

(* docs/configuration.md: the low-power stream runs while Face ID is in    *)
(* Standby, and at no other time.  No run checks it: the code does not     *)
(* meet it (README.md, Deviations).                                        *)
StreamOnlyInStandby == watcher = "running" => status = "sleeping"

(* A result of an aborted conversation changes neither what is shown nor   *)
(* what is scheduled (handleAttemptFinished and onError after abort()).    *)
StaleResultsIgnored ==
  [][facePam = "aborting" /\ (PamErrors \/ \E result \in Results : PamCompletes(result))
       => UNCHANGED <<status, timers, expectedGeneration>>]_vars

-----------------------------------------------------------------------------
(* Liveness.                                                               *)

(* No status of a lock period that waits for an event waits forever.       *)
EveryPhaseEnds ==
  \A phase \in {"grace", "checking", "success", "unauthorized", "waiting", "waking"} :
    status = phase ~> status # phase

(* A recognised face unlocks the session unless a password begins, the     *)
(* lock ends first, or the subscriber loses its service or PAM file.       *)
SuccessUnlocks ==
  \A g \in 1 .. MaxGeneration :
    status = "success" /\ expectedGeneration = g
      ~> \/ ~locked \/ lockGeneration # g
         \/ status \in {"password", "unavailable"}

(* What the subscriber promises the lock screen.                           *)
Contract == INSTANCE FaceUnlockContract WITH granted <- verified

ImplementsContract == Contract!Spec
=============================================================================
