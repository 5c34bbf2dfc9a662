------------------------------ MODULE Activation ------------------------------
(***************************************************************************)
(* Activating the lock-screen integration (app/GazeClient.cpp): the        *)
(* application asks the administrator for the PAM service of the lock      *)
(* screen, puts a complete new plugin directory in the place of the        *)
(* previous one with one rename, has Omarchy Shell rescan and enable it,   *)
(* and asks the running subscriber for its status.  Only a ready answer    *)
(* commits; every other end puts the previous directory back.              *)
(*                                                                         *)
(* The steps are callbacks of child processes and timers of one event      *)
(* loop.  They meet an activation deadline, deadlines of the commands, a   *)
(* restart of the shell that nobody waits for, the user who closes the     *)
(* window, and others who change the same files.                           *)
(*                                                                         *)
(* A directory is its version.  A status is "nothing_changed" when the     *)
(* message shown to the user says so.                                      *)
(***************************************************************************)
EXTENDS Naturals

CONSTANTS
  MaxAttempts,  \* bound: activations started
  Faults        \* what may go wrong in a run

(* "stage": a file cannot be staged, or the directories not exchanged;     *)
(* "tools": a command of Omarchy is missing; "close": the window is closed *)
(* at any moment; "removed": the integration is uninstalled meanwhile.     *)
FaultKinds == {"stage", "tools", "close", "removed"}

ASSUME ActivationAssumption ==
  MaxAttempts \in Nat \ {0} /\ Faults \subseteq FaultKinds

Attempts == 1..MaxAttempts
Versions == {"old", "new", "newer"}
Contents == Versions \cup {"none"}

VARIABLES
  disk,      \* the PAM service, the plugin's directory and shell.json
  stage,     \* .face-id-transactions: the directory of every attempt
  shell,     \* Omarchy Shell: running, about to restart, its subscriber
  phase,     \* where the application is
  attempt,   \* the number of activations begun
  trial,     \* what the current attempt would undo, and has tried
  auth,      \* the pkexec process of every attempt
  command,   \* the child process of the current phase
  reply,     \* what the status command has printed
  deadline,  \* the activation deadline is armed
  budget,    \* the time the subscriber has after a restart of the shell
  timers,    \* single shots of 200 ms
  report,    \* how the last activation ended: m_lockIntegrationError
  before,    \* history: the disk as the attempt found it
  disturbed  \* history: someone else has changed the disk since

appVars     == <<phase, attempt, trial, report>>
processVars == <<auth, command, reply>>
clockVars   == <<deadline, budget, timers>>
historyVars == <<before, disturbed>>

vars == <<disk, stage, shell, appVars, processVars, clockVars, historyVars>>

(* Authorizing stands for the wait for pkexec; Staging and Staged are      *)
(* points within the one callback that follows it.  Closed: no application.*)
Waiting == {"Authorizing", "Rescanning", "Enabling", "Reloading", "Verifying"}
Phases  == {"Closed", "Idle", "Staging", "Staged"} \cup Waiting

Disks  == [pam : {"none", "ours", "foreign"}, plugin : Contents, enabled : BOOLEAN]
Shells == [up : BOOLEAN, restarting : BOOLEAN, live : Contents]
(* activated: m_lockPluginRoot is set; backup: m_lockPluginBackupRoot is.  *)
Trials == {t \in [activated : BOOLEAN, backup : BOOLEAN,
                   restarted : BOOLEAN, canRestart : BOOLEAN] :
             t.backup => t.activated}
Errors == {"none", "refused", "nothing_changed", "failed"}

NoTrial == [activated |-> FALSE, backup |-> FALSE,
            restarted |-> FALSE, canRestart |-> FALSE]
NoReport == [activated |-> FALSE, error |-> "none"]

-----------------------------------------------------------------------------
(* The plugin's directory.                                                 *)

(* lockIntegrationStateMatches()                                           *)
Matches(d) == d.pam = "ours" /\ d.plugin = "new" /\ d.enabled

(* stageAndActivateUserPlugin(), its last part: an exchange leaves the     *)
(* previous directory under the name of the staged one.                    *)
Exchanged == /\ disk'  = [disk EXCEPT !.plugin = stage[attempt]]
             /\ stage' = [stage EXCEPT ![attempt] = disk.plugin]

Commit == /\ stage' = IF trial.backup THEN [stage EXCEPT ![attempt] = "none"] ELSE stage
          /\ UNCHANGED disk

\* Fault: what the exchange has moved away is not removed.
RestoreBackupFault ==
  IF disk.plugin # "none"
    THEN /\ disk'  = [disk EXCEPT !.plugin = stage[attempt]]
         /\ stage' = [stage EXCEPT ![attempt] = disk.plugin]
    ELSE UNCHANGED <<disk, stage>>

\* Fault: the backup is removed although the exchange has failed.
BackupLostFault ==
  /\ disk'  = IF disk.plugin # "none" THEN [disk EXCEPT !.plugin = stage[attempt]] ELSE disk
  /\ stage' = [stage EXCEPT ![attempt] = "none"]

(* An exchange with a directory that is gone fails and leaves the backup.  *)
RestoreBackup ==
  IF disk.plugin # "none"
    THEN /\ disk'  = [disk EXCEPT !.plugin = stage[attempt]]
         /\ stage' = [stage EXCEPT ![attempt] = "none"]
    ELSE UNCHANGED <<disk, stage>>

Rollback ==
  \/ /\ trial.activated /\ trial.backup
     /\ RestoreBackup
  \/ /\ trial.activated /\ ~trial.backup
     /\ disk' = [disk EXCEPT !.plugin = "none"]
     /\ UNCHANGED stage
  \/ /\ ~trial.activated
     /\ UNCHANGED <<disk, stage>>

(* abandonProcess(): pkexec can be killed until it has become root.        *)
AuthAbandoned ==
  auth' = [a \in Attempts |->
             IF a = attempt /\ auth[a] # "root" THEN "none" ELSE auth[a]]

(* Both paths and the commands are cleared; whether there was a restart    *)
(* matters to nobody any more.                                             *)
TrialOver == trial' = NoTrial

CommandsAbandoned == AuthAbandoned /\ command' = "none" /\ reply' = "none"

(* finishLockActivation(), without the commit or rollback that goes with   *)
(* it: the deadline and the commands end, and what is on the disk now      *)
(* decides what is reported.                                               *)
Finish(success, error) ==
  /\ phase' = "Idle"
  /\ deadline' = FALSE
  /\ budget' = "off"
  /\ CommandsAbandoned
  /\ TrialOver
  /\ LET activated == success /\ Matches(disk')
     IN  report' = [activated |-> activated,
                    error |-> IF activated THEN "none" ELSE error]
  /\ UNCHANGED <<attempt, timers>>

Fail(error) == Rollback /\ Finish(FALSE, error)

(* No process, timer or history variable other than those named.           *)
Keeps == UNCHANGED <<shell, historyVars>>

-----------------------------------------------------------------------------
Init ==
  /\ disk \in Disks
  /\ stage = [a \in Attempts |-> "none"]
  /\ shell \in {s \in Shells :
       /\ s.up /\ ~s.restarting
       /\ s.live \in {"none"} \cup (IF disk.enabled THEN {disk.plugin} ELSE {})}
  /\ phase = "Idle" /\ attempt = 0 /\ trial = NoTrial
  /\ auth = [a \in Attempts |-> "none"]
  /\ command = "none" /\ reply = "none"
  /\ deadline = FALSE /\ budget = "off" /\ timers = {}
  /\ report = NoReport
  /\ before = disk /\ disturbed = FALSE

(***************************************************************************)
(* The application.                                                        *)
(***************************************************************************)

(* enableLockIntegration(): a newer plugin, a foreign PAM file, and a      *)
(* missing pkexec end it at once.                                          *)
Begin ==
  /\ phase = "Idle" /\ attempt < MaxAttempts
  /\ attempt' = attempt + 1
  /\ trial' = NoTrial
  /\ before' = disk /\ disturbed' = FALSE
  /\ budget' = "off"
  /\ UNCHANGED <<disk, stage, shell, command, reply, timers>>

Refused == disk.plugin = "newer" \/ disk.pam = "foreign"

BeginRefused ==
  /\ Begin
  /\ Refused \/ (disk.pam = "none" /\ "tools" \in Faults)
  /\ report' = [activated |-> FALSE, error |-> "refused"]
  /\ UNCHANGED <<phase, auth, deadline>>

\* Fault: the error of the attempt before is not cleared.
BeginAuthorizedFault ==
  /\ Begin
  /\ ~Refused /\ disk.pam = "ours"
  /\ phase' = "Staging"
  /\ deadline' = TRUE
  /\ UNCHANGED <<auth, report>>

BeginAuthorized ==
  /\ Begin
  /\ ~Refused /\ disk.pam = "ours"
  /\ phase' = "Staging"
  /\ deadline' = TRUE /\ report' = NoReport
  /\ UNCHANGED auth

BeginAuthorizing ==
  /\ Begin
  /\ ~Refused /\ disk.pam = "none"
  /\ phase' = "Authorizing"
  /\ deadline' = TRUE
  /\ auth' = [auth EXCEPT ![attempt'] = "asking"]
  /\ report' = NoReport

(* The 10 second timer of pkexec.                                          *)
AuthTimeout ==
  /\ phase = "Authorizing" /\ auth[attempt] = "asking"
  /\ auth' = [auth EXCEPT ![attempt] = "exited"]
  /\ UNCHANGED <<disk, stage, appVars, command, reply, clockVars>> /\ Keeps

(* The end of pkexec: its exit code does not matter, the file does.        *)
AuthFinished ==
  /\ phase = "Authorizing" /\ auth[attempt] = "exited"
  /\ \/ /\ disk.pam = "ours"
        /\ auth' = [auth EXCEPT ![attempt] = "none"]
        /\ phase' = "Staging"
        /\ UNCHANGED <<disk, stage, attempt, trial, report, command, reply, clockVars>>
     \/ /\ disk.pam # "ours"
        /\ UNCHANGED <<disk, stage>>
        /\ Finish(FALSE, "nothing_changed")
  /\ Keeps

(* stageAndActivateUserPlugin(): the new directory is complete and checked *)
(* before it gets the plugin's name.                                       *)
Stage ==
  /\ phase = "Staging"
  /\ phase' = "Staged"
  /\ stage' = [stage EXCEPT ![attempt] = "new"]
  /\ UNCHANGED <<disk, attempt, trial, report, processVars, clockVars>> /\ Keeps

StageFails ==
  /\ phase \in {"Staging", "Staged"} /\ "stage" \in Faults
  /\ stage' = [stage EXCEPT ![attempt] = "none"]
  /\ UNCHANGED disk
  /\ Finish(FALSE, "failed")
  /\ Keeps

Activate ==
  /\ phase = "Staged"
  /\ Exchanged
  /\ \E canRestart \in {TRUE} \cup (IF "tools" \in Faults THEN {FALSE} ELSE {}) :
       trial' = [activated |-> TRUE, backup |-> disk.plugin # "none",
                 restarted |-> FALSE, canRestart |-> canRestart]
  /\ phase' = "Rescanning"
  /\ command' = "rescan"
  /\ UNCHANGED <<attempt, report, auth, reply, clockVars>> /\ Keeps

(* omarchy-shell or omarchy-plugin-enable is missing: the exchange is      *)
(* undone in the same callback.                                            *)
ActivateWithoutTools ==
  /\ phase = "Staged" /\ "tools" \in Faults
  /\ UNCHANGED disk
  /\ stage' = [stage EXCEPT ![attempt] = "none"]
  /\ Finish(FALSE, "failed")
  /\ Keeps

(* The rescan has no deadline of its own, and its result is not used.      *)
RescanFinished ==
  /\ phase = "Rescanning" /\ command = "rescan"
  /\ phase' = "Enabling"
  /\ command' = "enable"
  /\ UNCHANGED <<disk, stage, attempt, trial, report, auth, reply, clockVars>> /\ Keeps

StartVerification ==
  /\ phase' = "Verifying"
  /\ command' = "status" /\ reply' = "pending"

(* Ended, or killed after 1.5 seconds.                                     *)
EnableFinished ==
  /\ phase = "Enabling" /\ command = "enable"
  /\ StartVerification
  /\ UNCHANGED <<disk, stage, attempt, trial, report, auth, clockVars>> /\ Keeps

Answered(answer) == phase = "Verifying" /\ command = "status" /\ reply = answer

VerifiedReady ==
  /\ Answered("ready")
  /\ Commit
  /\ Finish(TRUE, "none")
  /\ Keeps

\* Fault: the deadline goes on while the shell restarts.
DeadlineAfterRestartFault == deadline

(* startLockShellRestart(): the shell owns the desktop, so no deadline may *)
(* end what waits for it.                                                  *)
DeadlineAfterRestart == FALSE

Restart ==
  /\ Answered("bad") /\ ~trial.restarted /\ trial.canRestart
  /\ phase' = "Reloading"
  /\ command' = "none" /\ reply' = "none"
  /\ trial' = [trial EXCEPT !.restarted = TRUE]
  /\ budget' = "running"
  /\ deadline' = DeadlineAfterRestart
  /\ timers' = timers \cup {"settle"}
  /\ shell' = [shell EXCEPT !.restarting = TRUE]
  /\ UNCHANGED <<disk, stage, attempt, report, auth, historyVars>>

RestartNotDispatched ==
  /\ Answered("bad") /\ ~trial.restarted /\ trial.canRestart
  /\ "tools" \in Faults
  /\ Fail("nothing_changed")
  /\ Keeps

NoFurtherRestart == trial.restarted \/ ~trial.canRestart

\* Fault: the restart is remembered, the time since it is not looked at.
MayAskAgainFault == budget # "off"

(* The subscriber is asked again for 30 seconds after a restart.           *)
MayAskAgain == budget = "running"

VerifyLater ==
  /\ Answered("bad") /\ NoFurtherRestart
  /\ MayAskAgain
  /\ command' = "none" /\ reply' = "none"
  /\ timers' = timers \cup {"retry"}
  /\ UNCHANGED <<disk, stage, appVars, auth, deadline, budget>> /\ Keeps

VerificationFails ==
  /\ Answered("bad") /\ NoFurtherRestart
  /\ ~MayAskAgain
  /\ Fail("failed")
  /\ Keeps

SettleTimer ==
  /\ "settle" \in timers
  /\ timers' = timers \ {"settle"}
  /\ \/ phase = "Reloading" /\ StartVerification
     \/ phase # "Reloading" /\ UNCHANGED <<phase, command, reply>>
  /\ UNCHANGED <<disk, stage, attempt, trial, report, auth, deadline, budget>> /\ Keeps

\* Fault: the timer asks for the deadline of the activation.
RetryTimerFault ==
  /\ "retry" \in timers
  /\ timers' = timers \ {"retry"}
  /\ \/ phase = "Verifying" /\ command = "none" /\ deadline /\ StartVerification
     \/ ~(phase = "Verifying" /\ command = "none" /\ deadline)
        /\ UNCHANGED <<phase, command, reply>>
  /\ UNCHANGED <<disk, stage, attempt, trial, report, auth, deadline, budget>> /\ Keeps

RetryTimer ==
  /\ "retry" \in timers
  /\ timers' = timers \ {"retry"}
  /\ \/ phase = "Verifying" /\ command = "none" /\ StartVerification
     \/ ~(phase = "Verifying" /\ command = "none") /\ UNCHANGED <<phase, command, reply>>
  /\ UNCHANGED <<disk, stage, attempt, trial, report, auth, deadline, budget>> /\ Keeps

(* The handler of m_lockActivationDeadline.                                *)
DeadlineReached ==
  /\ deadline /\ phase \in Waiting
  /\ Fail("nothing_changed")
  /\ Keeps

(* m_lockRestartVerificationElapsed has passed 30 seconds.                 *)
BudgetSpent ==
  /\ budget = "running"
  /\ budget' = "over"
  /\ UNCHANGED <<disk, stage, appVars, processVars, deadline, timers>> /\ Keeps

(* The window is closed, or the process ends: child processes are killed,  *)
(* and nothing is rolled back.                                             *)
Close ==
  /\ phase # "Closed" /\ "close" \in Faults
  /\ phase' = "Closed"
  /\ CommandsAbandoned
  /\ trial' = NoTrial /\ report' = NoReport
  /\ deadline' = FALSE /\ budget' = "off" /\ timers' = {}
  /\ UNCHANGED <<disk, stage, attempt>> /\ Keeps

Open ==
  /\ phase = "Closed"
  /\ phase' = "Idle"
  /\ UNCHANGED <<disk, stage, attempt, trial, report, processVars, clockVars>> /\ Keeps

(***************************************************************************)
(* The administrator's authorisation, and Omarchy Shell.                   *)
(***************************************************************************)

AuthAnswered(a) ==
  /\ auth[a] = "asking"
  /\ \E granted \in BOOLEAN :
       auth' = [auth EXCEPT ![a] = IF granted THEN "root" ELSE "exited"]
  /\ UNCHANGED <<disk, stage, appVars, command, reply, clockVars>> /\ Keeps

(* /usr/bin/install, as root.                                              *)
AuthInstalls(a) ==
  /\ auth[a] = "root"
  /\ auth' = [auth EXCEPT ![a] = IF a = attempt /\ phase = "Authorizing"
                                   THEN "exited" ELSE "none"]
  /\ \/ disk' = [disk EXCEPT !.pam = "ours"]
     \/ UNCHANGED disk
  /\ UNCHANGED <<stage, appVars, command, reply, clockVars>> /\ Keeps

PluginEnabled ==
  /\ command = "enable" /\ ~disk.enabled
  /\ disk' = [disk EXCEPT !.enabled = TRUE]
  /\ UNCHANGED <<stage, appVars, processVars, clockVars>> /\ Keeps

(* The shell loads the enabled directory when it is told to or sees it     *)
(* change, and until then runs what it has loaded before.                  *)
ShellLoads ==
  /\ shell.up
  /\ shell' = [shell EXCEPT !.live = IF disk.enabled THEN disk.plugin ELSE "none"]
  /\ UNCHANGED <<disk, stage, appVars, processVars, clockVars, historyVars>>

ShellStops ==
  /\ shell.up /\ shell.restarting
  /\ shell' = [shell EXCEPT !.up = FALSE, !.live = "none"]
  /\ UNCHANGED <<disk, stage, appVars, processVars, clockVars, historyVars>>

ShellStarts ==
  /\ ~shell.up
  /\ shell' = [shell EXCEPT !.up = TRUE, !.restarting = FALSE]
  /\ UNCHANGED <<disk, stage, appVars, processVars, clockVars, historyVars>>

(* `omarchy-shell face-id status': a running subscriber may find itself    *)
(* ready; no answer, or none in time, is a bad one.                        *)
StatusReplied ==
  /\ command = "status" /\ reply = "pending"
  /\ \/ shell.live # "none" /\ reply' = "ready"
     \/ reply' = "bad"
  /\ UNCHANGED <<disk, stage, appVars, auth, command, clockVars>> /\ Keeps

(* uninstall.sh, run from a terminal, takes the plugin and the PAM service.*)
Removed ==
  /\ "removed" \in Faults
  /\ \/ /\ disk.plugin # "none"
        /\ disk' = [disk EXCEPT !.plugin = "none", !.enabled = FALSE]
     \/ /\ disk.pam = "ours"
        /\ disk' = [disk EXCEPT !.pam = "none"]
  /\ disturbed' = TRUE
  /\ UNCHANGED <<stage, shell, appVars, processVars, clockVars, before>>

-----------------------------------------------------------------------------
Callback ==
  \/ AuthTimeout \/ AuthFinished
  \/ Stage \/ StageFails \/ Activate \/ ActivateWithoutTools
  \/ RescanFinished \/ EnableFinished
  \/ VerifiedReady \/ Restart \/ RestartNotDispatched
  \/ VerifyLater \/ VerificationFails
  \/ SettleTimer \/ RetryTimer

Application ==
  \/ BeginRefused \/ BeginAuthorized \/ BeginAuthorizing
  \/ Callback \/ DeadlineReached \/ BudgetSpent
  \/ Close \/ Open

Surroundings ==
  \/ \E a \in Attempts : AuthAnswered(a) \/ AuthInstalls(a)
  \/ PluginEnabled
  \/ ShellLoads \/ ShellStops \/ ShellStarts
  \/ StatusReplied
  \/ Removed

Next == Application \/ Surroundings

Spec == Init /\ [][Next]_vars

(* The event loop runs, its timers and kills take effect, and the status   *)
(* command ends or is killed.  Nothing is assumed of the administrator, of *)
(* a rescan, of the installation as root, or of the shell.                 *)
LiveSpec ==
  /\ Spec
  /\ WF_vars(Callback) /\ WF_vars(DeadlineReached) /\ WF_vars(BudgetSpent)
  /\ WF_vars(StatusReplied)

-----------------------------------------------------------------------------
(* Safety.                                                                 *)

Attempting == phase \notin {"Closed", "Idle"}

(* Every variable has its type (the declarations above and the members of  *)
(* app/GazeClient.h).                                                      *)
TypeOK ==
  /\ disk \in Disks /\ shell \in Shells
  /\ stage \in [Attempts -> Contents]
  /\ phase \in Phases
  /\ attempt \in 0..MaxAttempts
  /\ trial \in Trials
  /\ auth \in [Attempts -> {"none", "asking", "root", "exited"}]
  /\ command \in {"none", "rescan", "enable", "status"}
  /\ reply \in {"none", "pending", "ready", "bad"}
  /\ deadline \in BOOLEAN
  /\ budget \in {"off", "running", "over"}
  /\ timers \subseteq {"settle", "retry"}
  /\ report \in [activated : BOOLEAN, error : Errors]
  /\ before \in Disks /\ disturbed \in BOOLEAN

(* A 200 ms timer is pending only while the activation that set it waits   *)
(* for nothing else: no other activation, and no command of this one, can  *)
(* meet it.  (The timers of startLockShellRestart and                      *)
(* startLockShellVerification carry no attempt, only phase tests.)         *)
TimersAreCurrent ==
  /\ "settle" \in timers =>
       phase = "Reloading" /\ command = "none" /\ ~deadline
  /\ "retry" \in timers =>
       phase = "Verifying" /\ command = "none" /\ ~deadline
  /\ phase = "Reloading" => "settle" \in timers

(* Under its name, or in the transaction directory.                        *)
OnDisk(version) == disk.plugin = version \/ \E a \in Attempts : stage[a] = version

(* As long as the new plugin has not answered, the previous one is on the  *)
(* disk, under its name or in the transaction directory: whatever fails,   *)
(* even if the application is gone, and also by a rollback that finds the  *)
(* plugin uninstalled and cannot exchange it                               *)
(* (rollbackUserPluginActivation), it is not lost. Only the uninstaller    *)
(* itself may remove it. (A previous one of the version being installed    *)
(* cannot be told from it once somebody else has removed one of the two.)  *)
PreviousIsKept ==
  [][ before' = before /\ before.plugin # "none" /\ OnDisk(before.plugin) =>
        \/ OnDisk(before.plugin)' \/ VerifiedReady \/ Removed
        \/ disturbed /\ before.plugin = "new" ]_vars

(* An activation that ends without having accepted a ready answer leaves   *)
(* the plugin's directory as it was found and nothing in the transaction   *)
(* directory, unless someone else has changed it meanwhile                 *)
(* (tests/test_wizard_activation.sh: "restores the exact previous          *)
(* directory", assert_no_transaction_debris).                              *)
FailureRestores ==
  [][ Attempting /\ phase' = "Idle" /\ ~VerifiedReady /\ ~disturbed =>
        disk'.plugin = before.plugin /\ stage'[attempt] = "none" ]_vars

(* An activation that is under way has an end of its own ahead, which      *)
(* needs neither the administrator nor the shell: its deadline or, once    *)
(* the shell has been restarted and the deadline is gone, 30 seconds and a *)
(* timer or a status command that looks at them (startLockShellRestart     *)
(* stops the one, startLockShellVerification relies on the other).         *)
EndAhead ==
  Attempting =>
    IF trial.restarted
      THEN budget # "off" /\ (timers # {} \/ (command = "status" /\ reply # "none"))
      ELSE deadline

Outcome == INSTANCE ActivationOutcome WITH
  running   <- Attempting,
  activated <- report.activated,
  failed    <- report.error # "none"

(* One answer per attempt, whatever timers, commands and authorisations of *)
(* this one or an earlier one are still to come, and none between attempts *)
(* (finishLockActivation), as the window and the quiet upgrade rely on it. *)
ImplementsOutcome == Outcome!Spec

(* Every activation comes to an end while the application runs, however    *)
(* long the administrator, the rescan or the shell takes.                  *)
AttemptEnds == Attempting ~> ~Attempting

(* What is reported as active is the plugin that has just been installed.  *)
(* No run checks it: the code does not meet it (README.md, Deviations).    *)
ActiveIsTheNewOne ==
  [][ ~report.activated /\ report'.activated => shell.live = "new" ]_vars

(* "Face ID setup timed out. Nothing changed; try again." is said only     *)
(* when nothing has changed (GazeClient.cpp, the activation deadline).     *)
(* No run checks it: the code does not meet it (README.md, Deviations).    *)
NothingChangedIsTrue ==
  [][ Attempting /\ phase' = "Idle" /\ ~disturbed
        /\ report'.error = "nothing_changed" => disk' = before ]_vars
=============================================================================
