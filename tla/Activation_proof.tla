--------------------------- MODULE Activation_proof ---------------------------
(***************************************************************************)
(* Theorems about Activation, for every number of attempts and every set   *)
(* of faults: the types, that a pending timer belongs to the activation    *)
(* under way, that the previous plugin is never lost before the new one    *)
(* has answered, and that a failed activation restores it.                 *)
(***************************************************************************)
EXTENDS Activation, TLAPS

(* The types, in groups small enough for the provers.                      *)
DiskTypes    == /\ disk \in Disks /\ before \in Disks
                /\ stage \in [Attempts -> Contents]
ShellTypes   == shell \in Shells
TrialTypes   == /\ attempt \in 0..MaxAttempts /\ trial \in Trials
PhaseTypes   == /\ phase \in Phases
                /\ command \in {"none", "rescan", "enable", "status"}
                /\ reply \in {"none", "pending", "ready", "bad"}
                /\ budget \in {"off", "running", "over"}
                /\ timers \subseteq {"settle", "retry"}
AuthTypes    == auth \in [Attempts -> {"none", "asking", "root", "exited"}]
FlagTypes    == deadline \in BOOLEAN /\ disturbed \in BOOLEAN
ReportTypes  == report \in [activated : BOOLEAN, error : Errors]
AttemptBegun == phase \notin {"Closed", "Idle"} => attempt \in Attempts

(* TypeOK is inductive with the one fact that an activation has a number.  *)
Types == /\ DiskTypes /\ ShellTypes /\ TrialTypes /\ PhaseTypes
         /\ AuthTypes /\ FlagTypes /\ ReportTypes /\ AttemptBegun

LEMMA TypesAreTypeOK == Types => TypeOK
  BY DEF Types, TypeOK, DiskTypes, ShellTypes, TrialTypes, PhaseTypes,
         AuthTypes, FlagTypes, ReportTypes

-----------------------------------------------------------------------------
(* What each kind of end does to the disk.                                 *)

(* A rollback ends with directories under both names, or none.             *)
LEMMA RollbackTyped ==
  ASSUME Types, phase \in Waiting, Rollback
  PROVE  disk' \in Disks /\ stage' \in [Attempts -> Contents]
<1>1. attempt \in Attempts
  BY DEF Types, AttemptBegun, Waiting
<1>2. CASE trial.activated /\ trial.backup
  <2>1. RestoreBackup
    BY <1>2 DEF Rollback
  <2>2. CASE disk.plugin # "none"
    BY <1>1, <2>1, <2>2, SMTT(20) DEF Types, DiskTypes, Disks, Contents,
       Versions, RestoreBackup
  <2>3. CASE disk.plugin = "none"
    BY <2>1, <2>3 DEF Types, DiskTypes, RestoreBackup
  <2> QED BY <2>2, <2>3
<1>3. CASE trial.activated /\ ~trial.backup
  BY <1>3, SMTT(20) DEF Types, DiskTypes, Disks, Contents, Versions, Rollback
<1>4. CASE ~trial.activated
  BY <1>4 DEF Types, DiskTypes, Rollback
<1> QED BY <1>2, <1>3, <1>4

(* The end of an activation leaves nothing of it behind but its report.    *)
LEMMA FinishTyped ==
  ASSUME Types, NEW success \in BOOLEAN, NEW error \in Errors,
         Finish(success, error)
  PROVE  /\ TrialTypes' /\ PhaseTypes' /\ AuthTypes' /\ ReportTypes'
         /\ deadline' = FALSE /\ AttemptBegun'
<1>1. trial' \in Trials /\ attempt' \in 0..MaxAttempts
  BY DEF Types, TrialTypes, Trials, NoTrial, Finish, TrialOver
<1>2. PhaseTypes'
  BY DEF Types, PhaseTypes, Phases, Waiting, Finish, CommandsAbandoned
<1>3. AuthTypes'
  <2>1. auth' = [a \in Attempts |->
                  IF a = attempt /\ auth[a] # "root" THEN "none" ELSE auth[a]]
    BY DEF Finish, CommandsAbandoned, AuthAbandoned
  <2> QED BY <2>1 DEF Types, AuthTypes
<1>4. ReportTypes'
  <2>1. (success /\ Matches(disk')) \in BOOLEAN
    OBVIOUS
  <2>2. "none" \in Errors
    BY DEF Errors
  <2>3. report' = [activated |-> success /\ Matches(disk'),
                   error |-> IF success /\ Matches(disk') THEN "none" ELSE error]
    BY DEF Finish
  <2> QED BY <2>1, <2>2, <2>3 DEF ReportTypes
<1>5. deadline' = FALSE /\ AttemptBegun'
  BY DEF Finish, AttemptBegun
<1> QED BY <1>1, <1>2, <1>3, <1>4, <1>5 DEF TrialTypes

(* A step of the application keeps the types, unless it ends an activation.*)
LEMMA OrdinaryStepsTyped ==
  ASSUME Types, (\/ BeginRefused
          \/ BeginAuthorized
          \/ BeginAuthorizing
          \/ AuthTimeout
          \/ Stage
          \/ Activate
          \/ RescanFinished
          \/ EnableFinished
          \/ Restart
          \/ VerifyLater
          \/ SettleTimer
          \/ RetryTimer
          \/ BudgetSpent
          \/ Close
          \/ Open)
  PROVE  Types'
<1>1. CASE BeginRefused
  <2>1. DiskTypes'
    BY <1>1 DEF Types, DiskTypes, TrialTypes, AttemptBegun, ShellTypes,
         Shells, BeginRefused, Begin, Disks, Contents, Versions, Attempts,
         appVars, processVars, clockVars, historyVars
  <2>2. TrialTypes'
    BY <1>1, ActivationAssumption, SMTT(20) DEF Types, TrialTypes,
         AttemptBegun, PhaseTypes, Phases, Waiting, BeginRefused, Begin,
         Attempts, Trials, NoTrial, appVars, processVars, clockVars,
         historyVars
  <2>3. PhaseTypes'
    BY <1>1 DEF Types, PhaseTypes, BeginRefused, Begin, Phases, Waiting,
         appVars, processVars, clockVars, historyVars
  <2>4. deadline' \in BOOLEAN
    BY <1>1 DEF Types, FlagTypes, BeginRefused, Begin, appVars, processVars,
         clockVars, historyVars
  <2>5. disturbed' \in BOOLEAN
    BY <1>1 DEF Types, FlagTypes, BeginRefused, Begin, appVars, processVars,
         clockVars, historyVars
  <2>6. ReportTypes'
    BY <1>1 DEF Types, ReportTypes, BeginRefused, Begin, Errors, appVars,
         processVars, clockVars, historyVars
  <2>7. AttemptBegun'
    BY <1>1, ActivationAssumption, SMTT(20) DEF Types, AttemptBegun,
         TrialTypes, PhaseTypes, Phases, Waiting, BeginRefused, Begin,
         Attempts, appVars, processVars, clockVars, historyVars
  <2>8. ShellTypes' /\ AuthTypes'
    BY <1>1 DEF Types, ShellTypes, AuthTypes, BeginRefused, Begin, appVars,
         processVars, clockVars, historyVars
  <2> QED BY <2>1, <2>2, <2>3, <2>4, <2>5, <2>6, <2>7, <2>8 DEF Types, FlagTypes
<1>2. CASE BeginAuthorized
  <2>1. DiskTypes'
    BY <1>2 DEF Types, DiskTypes, TrialTypes, AttemptBegun, ShellTypes,
         Shells, BeginAuthorized, Begin, Disks, Contents, Versions, Attempts,
         appVars, processVars, clockVars, historyVars
  <2>2. TrialTypes'
    BY <1>2, ActivationAssumption, SMTT(20) DEF Types, TrialTypes,
         AttemptBegun, PhaseTypes, Phases, Waiting, BeginAuthorized, Begin,
         Attempts, Trials, NoTrial, appVars, processVars, clockVars,
         historyVars
  <2>3. PhaseTypes'
    BY <1>2 DEF Types, PhaseTypes, BeginAuthorized, Begin, Phases, Waiting,
         appVars, processVars, clockVars, historyVars
  <2>4. deadline' \in BOOLEAN
    BY <1>2 DEF Types, FlagTypes, BeginAuthorized, Begin, appVars,
         processVars, clockVars, historyVars
  <2>5. disturbed' \in BOOLEAN
    BY <1>2 DEF Types, FlagTypes, BeginAuthorized, Begin, appVars,
         processVars, clockVars, historyVars
  <2>6. AttemptBegun'
    BY <1>2, ActivationAssumption, SMTT(20) DEF Types, AttemptBegun,
         TrialTypes, PhaseTypes, Phases, Waiting, BeginAuthorized, Begin,
         Attempts, appVars, processVars, clockVars, historyVars
  <2>7. ShellTypes' /\ AuthTypes' /\ ReportTypes'
    BY <1>2 DEF NoReport, Errors, Types, ShellTypes, AuthTypes, ReportTypes, BeginAuthorized,
         Begin, appVars, processVars, clockVars, historyVars
  <2> QED BY <2>1, <2>2, <2>3, <2>4, <2>5, <2>6, <2>7 DEF Types, FlagTypes
<1>3. CASE BeginAuthorizing
  <2>1. DiskTypes'
    BY <1>3 DEF Types, DiskTypes, TrialTypes, AttemptBegun, ShellTypes,
         Shells, BeginAuthorizing, Begin, Disks, Contents, Versions, Attempts,
         appVars, processVars, clockVars, historyVars
  <2>2. TrialTypes'
    BY <1>3, ActivationAssumption, SMTT(20) DEF Types, TrialTypes,
         AttemptBegun, PhaseTypes, Phases, Waiting, BeginAuthorizing, Begin,
         Attempts, Trials, NoTrial, appVars, processVars, clockVars,
         historyVars
  <2>3. PhaseTypes'
    BY <1>3 DEF Types, PhaseTypes, BeginAuthorizing, Begin, Phases, Waiting,
         appVars, processVars, clockVars, historyVars
  <2>4. AuthTypes'
    BY <1>3 DEF Types, AuthTypes, TrialTypes, AttemptBegun, PhaseTypes,
         Phases, Waiting, BeginAuthorizing, Begin, Attempts, appVars,
         processVars, clockVars, historyVars
  <2>5. deadline' \in BOOLEAN
    BY <1>3 DEF Types, FlagTypes, BeginAuthorizing, Begin, appVars,
         processVars, clockVars, historyVars
  <2>6. disturbed' \in BOOLEAN
    BY <1>3 DEF Types, FlagTypes, BeginAuthorizing, Begin, appVars,
         processVars, clockVars, historyVars
  <2>7. AttemptBegun'
    BY <1>3, ActivationAssumption, SMTT(20) DEF Types, AttemptBegun,
         TrialTypes, PhaseTypes, Phases, Waiting, BeginAuthorizing, Begin,
         Attempts, appVars, processVars, clockVars, historyVars
  <2>8. ShellTypes' /\ ReportTypes'
    BY <1>3 DEF NoReport, Errors, Types, ShellTypes, ReportTypes, BeginAuthorizing, Begin,
         appVars, processVars, clockVars, historyVars
  <2> QED BY <2>1, <2>2, <2>3, <2>4, <2>5, <2>6, <2>7, <2>8 DEF Types, FlagTypes
<1>4. CASE AuthTimeout
  <2>1. AuthTypes'
    BY <1>4 DEF Types, AuthTypes, TrialTypes, AttemptBegun, PhaseTypes,
         Phases, Waiting, AuthTimeout, Keeps, Attempts, appVars, processVars,
         clockVars, historyVars
  <2>2. DiskTypes' /\ ShellTypes' /\ TrialTypes' /\ PhaseTypes' /\ FlagTypes' /\ ReportTypes' /\ AttemptBegun'
    BY <1>4 DEF Types, DiskTypes, ShellTypes, TrialTypes, PhaseTypes,
         FlagTypes, ReportTypes, AttemptBegun, AuthTimeout, Keeps, appVars,
         processVars, clockVars, historyVars
  <2> QED BY <2>1, <2>2 DEF Types
<1>5. CASE Stage
  <2>1. DiskTypes'
    BY <1>5 DEF Types, DiskTypes, TrialTypes, AttemptBegun, ShellTypes,
         Shells, Stage, Keeps, Disks, Contents, Versions, Attempts, appVars,
         processVars, clockVars, historyVars
  <2>2. PhaseTypes'
    BY <1>5 DEF Types, PhaseTypes, Stage, Keeps, Phases, Waiting, appVars,
         processVars, clockVars, historyVars
  <2>3. AttemptBegun'
    BY <1>5 DEF Types, AttemptBegun, TrialTypes, PhaseTypes, Phases, Waiting,
         Stage, Keeps, Attempts, appVars, processVars, clockVars, historyVars
  <2>4. ShellTypes' /\ TrialTypes' /\ AuthTypes' /\ FlagTypes' /\ ReportTypes'
    BY <1>5 DEF Types, ShellTypes, TrialTypes, AuthTypes, FlagTypes,
         ReportTypes, Stage, Keeps, appVars, processVars, clockVars,
         historyVars
  <2> QED BY <2>1, <2>2, <2>3, <2>4 DEF Types
<1>6. CASE Activate
  <2>1. PhaseTypes'
    BY <1>6 DEF Types, PhaseTypes, Activate, Exchanged, Keeps, Phases,
         Waiting, appVars, processVars, clockVars, historyVars
  <2>2. AttemptBegun'
    BY <1>6 DEF Types, AttemptBegun, TrialTypes, PhaseTypes, Phases, Waiting,
         Activate, Exchanged, Keeps, Attempts, appVars, processVars,
         clockVars, historyVars
  <2>3. DiskTypes'
    <3>1. stage[attempt] \in Contents /\ disk.plugin \in Contents /\ disk \in Disks
      BY <1>6 DEF Types, DiskTypes, Disks, AttemptBegun, Activate
    <3>2. disk' = [disk EXCEPT !.plugin = stage[attempt]]
      BY <1>6 DEF Activate, Exchanged
    <3>3. disk' \in Disks
      BY <3>1, <3>2 DEF Disks
    <3>4. stage' = [stage EXCEPT ![attempt] = disk.plugin]
      BY <1>6 DEF Activate, Exchanged
    <3>5. stage' \in [Attempts -> Contents]
      BY <3>1, <3>4 DEF Types, DiskTypes
    <3> QED BY <1>6, <3>3, <3>5 DEF Types, DiskTypes, Activate, Keeps, historyVars
  <2>4. TrialTypes'
    <3>1. PICK canRestart \in BOOLEAN :
            trial' = [activated |-> TRUE, backup |-> disk.plugin # "none",
                      restarted |-> FALSE, canRestart |-> canRestart]
      BY <1>6, Zenon DEF Activate
    <3>2. (disk.plugin # "none") \in BOOLEAN
      OBVIOUS
    <3>3. trial' \in [activated : BOOLEAN, backup : BOOLEAN,
                      restarted : BOOLEAN, canRestart : BOOLEAN]
      BY <3>1, <3>2
    <3>4. trial'.activated = TRUE
      BY <3>1
    <3> QED BY <1>6, <3>3, <3>4 DEF Types, TrialTypes, Trials, Activate
  <2>5. ShellTypes' /\ AuthTypes' /\ FlagTypes' /\ ReportTypes'
    BY <1>6 DEF Types, ShellTypes, AuthTypes, FlagTypes, ReportTypes,
         Activate, Exchanged, Keeps, appVars, processVars, clockVars,
         historyVars
  <2> QED BY <2>1, <2>2, <2>3, <2>4, <2>5 DEF Types
<1>7. CASE RescanFinished
  <2>1. PhaseTypes'
    BY <1>7 DEF Types, PhaseTypes, RescanFinished, Keeps, Phases, Waiting,
         appVars, processVars, clockVars, historyVars
  <2>2. AttemptBegun'
    BY <1>7 DEF Types, AttemptBegun, TrialTypes, PhaseTypes, Phases, Waiting,
         RescanFinished, Keeps, Attempts, appVars, processVars, clockVars,
         historyVars
  <2>3. DiskTypes' /\ ShellTypes' /\ TrialTypes' /\ AuthTypes' /\ FlagTypes' /\ ReportTypes'
    BY <1>7 DEF Types, DiskTypes, ShellTypes, TrialTypes, AuthTypes,
         FlagTypes, ReportTypes, RescanFinished, Keeps, appVars, processVars,
         clockVars, historyVars
  <2> QED BY <2>1, <2>2, <2>3 DEF Types
<1>8. CASE EnableFinished
  <2>1. PhaseTypes'
    BY <1>8 DEF Types, PhaseTypes, EnableFinished, StartVerification, Keeps,
         Phases, Waiting, appVars, processVars, clockVars, historyVars
  <2>2. AttemptBegun'
    BY <1>8 DEF Types, AttemptBegun, TrialTypes, PhaseTypes, Phases, Waiting,
         EnableFinished, StartVerification, Keeps, Attempts, appVars,
         processVars, clockVars, historyVars
  <2>3. DiskTypes' /\ ShellTypes' /\ TrialTypes' /\ AuthTypes' /\ FlagTypes' /\ ReportTypes'
    BY <1>8 DEF Types, DiskTypes, ShellTypes, TrialTypes, AuthTypes,
         FlagTypes, ReportTypes, EnableFinished, StartVerification, Keeps,
         appVars, processVars, clockVars, historyVars
  <2> QED BY <2>1, <2>2, <2>3 DEF Types
<1>9. CASE Restart
  <2>1. ShellTypes'
    BY <1>9 DEF Types, ShellTypes, Restart, Answered, DeadlineAfterRestart,
         Shells, Contents, Versions, appVars, processVars, clockVars,
         historyVars
  <2>2. TrialTypes'
    BY <1>9 DEF Types, TrialTypes, AttemptBegun, PhaseTypes, Phases, Waiting,
         Restart, Answered, DeadlineAfterRestart, Attempts, Trials, NoTrial,
         appVars, processVars, clockVars, historyVars
  <2>3. PhaseTypes'
    BY <1>9 DEF Types, PhaseTypes, Restart, Answered, DeadlineAfterRestart,
         Phases, Waiting, appVars, processVars, clockVars, historyVars
  <2>4. deadline' \in BOOLEAN
    BY <1>9 DEF Types, FlagTypes, Restart, Answered, DeadlineAfterRestart,
         appVars, processVars, clockVars, historyVars
  <2>5. disturbed' \in BOOLEAN
    BY <1>9 DEF Types, FlagTypes, Restart, Answered, DeadlineAfterRestart,
         appVars, processVars, clockVars, historyVars
  <2>6. AttemptBegun'
    BY <1>9 DEF Types, AttemptBegun, TrialTypes, PhaseTypes, Phases, Waiting,
         Restart, Answered, DeadlineAfterRestart, Attempts, appVars,
         processVars, clockVars, historyVars
  <2>7. DiskTypes' /\ AuthTypes' /\ ReportTypes'
    BY <1>9 DEF Types, DiskTypes, AuthTypes, ReportTypes, Restart, Answered,
         DeadlineAfterRestart, appVars, processVars, clockVars, historyVars
  <2> QED BY <2>1, <2>2, <2>3, <2>4, <2>5, <2>6, <2>7 DEF Types, FlagTypes
<1>10. CASE VerifyLater
  <2>1. PhaseTypes'
    BY <1>10 DEF Types, PhaseTypes, VerifyLater, Answered, Keeps, Phases,
         Waiting, appVars, processVars, clockVars, historyVars
  <2>2. DiskTypes' /\ ShellTypes' /\ TrialTypes' /\ AuthTypes' /\ FlagTypes' /\ ReportTypes' /\ AttemptBegun'
    BY <1>10 DEF Types, DiskTypes, ShellTypes, TrialTypes, AuthTypes,
         FlagTypes, ReportTypes, AttemptBegun, VerifyLater, Answered, Keeps,
         appVars, processVars, clockVars, historyVars
  <2> QED BY <2>1, <2>2 DEF Types
<1>11. CASE SettleTimer
  <2>1. PhaseTypes'
    BY <1>11 DEF Types, PhaseTypes, SettleTimer, StartVerification, Keeps,
         Phases, Waiting, appVars, processVars, clockVars, historyVars
  <2>2. AttemptBegun'
    BY <1>11 DEF Types, AttemptBegun, TrialTypes, PhaseTypes, Phases, Waiting,
         SettleTimer, StartVerification, Keeps, Attempts, appVars,
         processVars, clockVars, historyVars
  <2>3. DiskTypes' /\ ShellTypes' /\ TrialTypes' /\ AuthTypes' /\ FlagTypes' /\ ReportTypes'
    BY <1>11 DEF Types, DiskTypes, ShellTypes, TrialTypes, AuthTypes,
         FlagTypes, ReportTypes, SettleTimer, StartVerification, Keeps,
         appVars, processVars, clockVars, historyVars
  <2> QED BY <2>1, <2>2, <2>3 DEF Types
<1>12. CASE RetryTimer
  <2>1. PhaseTypes'
    BY <1>12 DEF Types, PhaseTypes, RetryTimer, StartVerification, Keeps,
         Phases, Waiting, appVars, processVars, clockVars, historyVars
  <2>2. AttemptBegun'
    BY <1>12 DEF Types, AttemptBegun, TrialTypes, PhaseTypes, Phases, Waiting,
         RetryTimer, StartVerification, Keeps, Attempts, appVars, processVars,
         clockVars, historyVars
  <2>3. DiskTypes' /\ ShellTypes' /\ TrialTypes' /\ AuthTypes' /\ FlagTypes' /\ ReportTypes'
    BY <1>12 DEF Types, DiskTypes, ShellTypes, TrialTypes, AuthTypes,
         FlagTypes, ReportTypes, RetryTimer, StartVerification, Keeps,
         appVars, processVars, clockVars, historyVars
  <2> QED BY <2>1, <2>2, <2>3 DEF Types
<1>13. CASE BudgetSpent
  <2>1. PhaseTypes'
    BY <1>13 DEF Types, PhaseTypes, BudgetSpent, Keeps, Phases, Waiting,
         appVars, processVars, clockVars, historyVars
  <2>2. DiskTypes' /\ ShellTypes' /\ TrialTypes' /\ AuthTypes' /\ FlagTypes' /\ ReportTypes' /\ AttemptBegun'
    BY <1>13 DEF Types, DiskTypes, ShellTypes, TrialTypes, AuthTypes,
         FlagTypes, ReportTypes, AttemptBegun, BudgetSpent, Keeps, appVars,
         processVars, clockVars, historyVars
  <2> QED BY <2>1, <2>2 DEF Types
<1>14. CASE Close
  <2>1. TrialTypes'
    BY <1>14 DEF Types, TrialTypes, AttemptBegun, PhaseTypes, Phases, Waiting,
         Close, CommandsAbandoned, AuthAbandoned, Keeps, Attempts, Trials,
         NoTrial, appVars, processVars, clockVars, historyVars
  <2>2. PhaseTypes'
    BY <1>14 DEF Types, PhaseTypes, Close, CommandsAbandoned, AuthAbandoned,
         Keeps, Phases, Waiting, appVars, processVars, clockVars, historyVars
  <2>3. AuthTypes'
    BY <1>14 DEF Types, AuthTypes, TrialTypes, AttemptBegun, PhaseTypes,
         Phases, Waiting, Close, CommandsAbandoned, AuthAbandoned, Keeps,
         Attempts, appVars, processVars, clockVars, historyVars
  <2>4. deadline' \in BOOLEAN
    BY <1>14 DEF Types, FlagTypes, Close, CommandsAbandoned, AuthAbandoned,
         Keeps, appVars, processVars, clockVars, historyVars
  <2>5. disturbed' \in BOOLEAN
    BY <1>14 DEF Types, FlagTypes, Close, CommandsAbandoned, AuthAbandoned,
         Keeps, appVars, processVars, clockVars, historyVars
  <2>6. AttemptBegun'
    BY <1>14 DEF Types, AttemptBegun, TrialTypes, PhaseTypes, Phases, Waiting,
         Close, CommandsAbandoned, AuthAbandoned, Keeps, Attempts, appVars,
         processVars, clockVars, historyVars
  <2>7. DiskTypes' /\ ShellTypes' /\ ReportTypes'
    BY <1>14 DEF NoReport, Errors, Types, DiskTypes, ShellTypes, ReportTypes, Close,
         CommandsAbandoned, AuthAbandoned, Keeps, appVars, processVars,
         clockVars, historyVars
  <2> QED BY <2>1, <2>2, <2>3, <2>4, <2>5, <2>6, <2>7 DEF Types, FlagTypes
<1>15. CASE Open
  <2>1. PhaseTypes'
    BY <1>15 DEF Types, PhaseTypes, Open, Keeps, Phases, Waiting, appVars,
         processVars, clockVars, historyVars
  <2>2. AttemptBegun'
    BY <1>15 DEF Types, AttemptBegun, TrialTypes, PhaseTypes, Phases, Waiting,
         Open, Keeps, Attempts, appVars, processVars, clockVars, historyVars
  <2>3. DiskTypes' /\ ShellTypes' /\ TrialTypes' /\ AuthTypes' /\ FlagTypes' /\ ReportTypes'
    BY <1>15 DEF Types, DiskTypes, ShellTypes, TrialTypes, AuthTypes,
         FlagTypes, ReportTypes, Open, Keeps, appVars, processVars, clockVars,
         historyVars
  <2> QED BY <2>1, <2>2, <2>3 DEF Types
<1> QED BY <1>1, <1>2, <1>3, <1>4, <1>5, <1>6, <1>7, <1>8, <1>9, <1>10, <1>11,
       <1>12, <1>13, <1>14, <1>15

(* So does a step of the administrator, the shell, or an uninstaller.       *)
LEMMA SurroundingsTyped ==
  ASSUME Types, NEW a \in Attempts,
         (\/ AuthAnswered(a)
          \/ AuthInstalls(a)
          \/ PluginEnabled
          \/ ShellLoads
          \/ ShellStops
          \/ ShellStarts
          \/ StatusReplied
          \/ Removed)
  PROVE  Types'
<1>1. CASE AuthAnswered(a)
  <2>1. AuthTypes'
    BY <1>1 DEF Types, AuthTypes, TrialTypes, AttemptBegun, PhaseTypes,
         Phases, Waiting, AuthAnswered, Keeps, Attempts, appVars, processVars,
         clockVars, historyVars
  <2>2. DiskTypes' /\ ShellTypes' /\ TrialTypes' /\ PhaseTypes' /\ FlagTypes' /\ ReportTypes' /\ AttemptBegun'
    BY <1>1 DEF Types, DiskTypes, ShellTypes, TrialTypes, PhaseTypes,
         FlagTypes, ReportTypes, AttemptBegun, AuthAnswered, Keeps, appVars,
         processVars, clockVars, historyVars
  <2> QED BY <2>1, <2>2 DEF Types
<1>2. CASE AuthInstalls(a)
  <2>1. DiskTypes'
    BY <1>2 DEF Types, DiskTypes, TrialTypes, AttemptBegun, ShellTypes,
         Shells, AuthInstalls, Keeps, Disks, Contents, Versions, Attempts,
         appVars, processVars, clockVars, historyVars
  <2>2. AuthTypes'
    BY <1>2 DEF Types, AuthTypes, TrialTypes, AttemptBegun, PhaseTypes,
         Phases, Waiting, AuthInstalls, Keeps, Attempts, appVars, processVars,
         clockVars, historyVars
  <2>3. ShellTypes' /\ TrialTypes' /\ PhaseTypes' /\ FlagTypes' /\ ReportTypes' /\ AttemptBegun'
    BY <1>2 DEF Types, ShellTypes, TrialTypes, PhaseTypes, FlagTypes,
         ReportTypes, AttemptBegun, AuthInstalls, Keeps, appVars, processVars,
         clockVars, historyVars
  <2> QED BY <2>1, <2>2, <2>3 DEF Types
<1>3. CASE PluginEnabled
  <2>1. DiskTypes'
    BY <1>3 DEF Types, DiskTypes, TrialTypes, AttemptBegun, ShellTypes,
         Shells, PluginEnabled, Keeps, Disks, Contents, Versions, Attempts,
         appVars, processVars, clockVars, historyVars
  <2>2. ShellTypes' /\ TrialTypes' /\ PhaseTypes' /\ AuthTypes' /\ FlagTypes' /\ ReportTypes' /\ AttemptBegun'
    BY <1>3 DEF Types, ShellTypes, TrialTypes, PhaseTypes, AuthTypes,
         FlagTypes, ReportTypes, AttemptBegun, PluginEnabled, Keeps, appVars,
         processVars, clockVars, historyVars
  <2> QED BY <2>1, <2>2 DEF Types
<1>4. CASE ShellLoads
  <2>1. ShellTypes'
    BY <1>4 DEF Types, ShellTypes, ShellLoads, Shells, Contents, Versions,
         DiskTypes, Disks, appVars, processVars, clockVars, historyVars
  <2>2. DiskTypes' /\ TrialTypes' /\ PhaseTypes' /\ AuthTypes' /\ FlagTypes' /\ ReportTypes' /\ AttemptBegun'
    BY <1>4 DEF Types, DiskTypes, TrialTypes, PhaseTypes, AuthTypes,
         FlagTypes, ReportTypes, AttemptBegun, ShellLoads, appVars,
         processVars, clockVars, historyVars
  <2> QED BY <2>1, <2>2 DEF Types
<1>5. CASE ShellStops
  <2>1. ShellTypes'
    BY <1>5 DEF Types, ShellTypes, ShellStops, Shells, Contents, Versions,
         appVars, processVars, clockVars, historyVars
  <2>2. DiskTypes' /\ TrialTypes' /\ PhaseTypes' /\ AuthTypes' /\ FlagTypes' /\ ReportTypes' /\ AttemptBegun'
    BY <1>5 DEF Types, DiskTypes, TrialTypes, PhaseTypes, AuthTypes,
         FlagTypes, ReportTypes, AttemptBegun, ShellStops, appVars,
         processVars, clockVars, historyVars
  <2> QED BY <2>1, <2>2 DEF Types
<1>6. CASE ShellStarts
  <2>1. ShellTypes'
    BY <1>6 DEF Types, ShellTypes, ShellStarts, Shells, Contents, Versions,
         appVars, processVars, clockVars, historyVars
  <2>2. DiskTypes' /\ TrialTypes' /\ PhaseTypes' /\ AuthTypes' /\ FlagTypes' /\ ReportTypes' /\ AttemptBegun'
    BY <1>6 DEF Types, DiskTypes, TrialTypes, PhaseTypes, AuthTypes,
         FlagTypes, ReportTypes, AttemptBegun, ShellStarts, appVars,
         processVars, clockVars, historyVars
  <2> QED BY <2>1, <2>2 DEF Types
<1>7. CASE StatusReplied
  <2>1. PhaseTypes'
    BY <1>7 DEF Types, PhaseTypes, StatusReplied, Keeps, Phases, Waiting,
         appVars, processVars, clockVars, historyVars
  <2>2. DiskTypes' /\ ShellTypes' /\ TrialTypes' /\ AuthTypes' /\ FlagTypes' /\ ReportTypes' /\ AttemptBegun'
    BY <1>7 DEF Types, DiskTypes, ShellTypes, TrialTypes, AuthTypes,
         FlagTypes, ReportTypes, AttemptBegun, StatusReplied, Keeps, appVars,
         processVars, clockVars, historyVars
  <2> QED BY <2>1, <2>2 DEF Types
<1>8. CASE Removed
  <2>1. DiskTypes'
    BY <1>8 DEF Types, DiskTypes, TrialTypes, AttemptBegun, ShellTypes,
         Shells, Removed, Disks, Contents, Versions, Attempts, appVars,
         processVars, clockVars, historyVars
  <2>2. deadline' \in BOOLEAN
    BY <1>8 DEF Types, FlagTypes, Removed, appVars, processVars, clockVars,
         historyVars
  <2>3. disturbed' \in BOOLEAN
    BY <1>8 DEF Types, FlagTypes, Removed, appVars, processVars, clockVars,
         historyVars
  <2>4. ShellTypes' /\ TrialTypes' /\ PhaseTypes' /\ AuthTypes' /\ ReportTypes' /\ AttemptBegun'
    BY <1>8 DEF Types, ShellTypes, TrialTypes, PhaseTypes, AuthTypes,
         ReportTypes, AttemptBegun, Removed, appVars, processVars, clockVars,
         historyVars
  <2> QED BY <2>1, <2>2, <2>3, <2>4 DEF Types, FlagTypes
<1> QED BY <1>1, <1>2, <1>3, <1>4, <1>5, <1>6, <1>7, <1>8

(* What is left to show of a step that ends an activation is the disk.     *)
LEMMA EndingTyped ==
  ASSUME Types, NEW success \in BOOLEAN, NEW error \in Errors,
         Finish(success, error), Keeps,
         disk' \in Disks, stage' \in [Attempts -> Contents]
  PROVE  Types'
<1>1. /\ TrialTypes' /\ PhaseTypes' /\ AuthTypes' /\ ReportTypes'
      /\ deadline' = FALSE /\ AttemptBegun'
  BY FinishTyped
<1>2. DiskTypes' /\ ShellTypes'
  BY DEF Types, DiskTypes, ShellTypes, Keeps, historyVars
<1>3. FlagTypes'
  BY <1>1, Zenon DEF Types, FlagTypes, Keeps, historyVars
<1> QED BY <1>1, <1>2, <1>3 DEF Types

(* The directory of the attempt under way is removed.                      *)
LEMMA StageClearedTyped ==
  ASSUME Types, stage' = [stage EXCEPT ![attempt] = "none"]
  PROVE  stage' \in [Attempts -> Contents]
  BY DEF Types, DiskTypes, Contents

(* A step that ends an activation keeps the types.                         *)
LEMMA EndingStepsTyped ==
  ASSUME Types,
         (\/ AuthFinished
          \/ StageFails
          \/ ActivateWithoutTools
          \/ VerifiedReady
          \/ RestartNotDispatched
          \/ VerificationFails
          \/ DeadlineReached)
  PROVE  Types'
<1>1. {"none", "nothing_changed", "failed"} \subseteq Errors
  BY DEF Errors
<1>2. disk \in Disks /\ stage \in [Attempts -> Contents]
  BY DEF Types, DiskTypes
<1>3. CASE AuthFinished
  <2>1. CASE disk.pam = "ours"
    <3>1. /\ auth' = [auth EXCEPT ![attempt] = "none"] /\ phase' = "Staging"
          /\ UNCHANGED <<disk, stage, attempt, trial, report, command, reply, clockVars>>
          /\ Keeps /\ phase = "Authorizing"
      BY <1>3, <2>1 DEF AuthFinished
    <3>2. DiskTypes' /\ ShellTypes' /\ TrialTypes' /\ ReportTypes'
      BY <3>1 DEF Types, DiskTypes, ShellTypes, TrialTypes, ReportTypes,
       Keeps, historyVars
    <3>3. AuthTypes'
      BY <3>1 DEF Types, AuthTypes
    <3>4. PhaseTypes'
      BY <3>1 DEF Types, PhaseTypes, Phases, clockVars
    <3>5. FlagTypes'
      BY <3>1, Zenon DEF Types, FlagTypes, Keeps, clockVars, historyVars
    <3>6. AttemptBegun'
      BY <3>1 DEF Types, AttemptBegun, TrialTypes
    <3> QED BY <3>2, <3>3, <3>4, <3>5, <3>6 DEF Types
  <2>2. CASE disk.pam # "ours"
    <3>1. Finish(FALSE, "nothing_changed") /\ Keeps /\ UNCHANGED <<disk, stage>>
      BY <1>3, <2>2 DEF AuthFinished
    <3> QED BY <1>1, <1>2, <3>1, EndingTyped
  <2> QED BY <2>1, <2>2
<1>4. CASE StageFails \/ ActivateWithoutTools
  <2>1. /\ Finish(FALSE, "failed") /\ Keeps /\ disk' = disk
        /\ stage' = [stage EXCEPT ![attempt] = "none"]
    BY <1>4 DEF StageFails, ActivateWithoutTools
  <2> QED BY <1>1, <1>2, <2>1, EndingTyped, StageClearedTyped
<1>5. CASE VerifiedReady
  <2>1. Finish(TRUE, "none") /\ Keeps /\ Commit
    BY <1>5 DEF VerifiedReady
  <2>2. disk' = disk /\ stage' \in [Attempts -> Contents]
    BY <1>2, <2>1, StageClearedTyped DEF Commit
  <2> QED BY <1>1, <1>2, <2>1, <2>2, EndingTyped
<1>6. CASE RestartNotDispatched \/ VerificationFails \/ DeadlineReached
  <2>1. PICK error \in Errors : Finish(FALSE, error) /\ Rollback
    BY <1>1, <1>6 DEF RestartNotDispatched, VerificationFails,
       DeadlineReached, Fail
  <2>2. phase \in Waiting /\ Keeps
    BY <1>6 DEF RestartNotDispatched, VerificationFails, DeadlineReached,
       Answered, Waiting
  <2> QED BY <2>1, <2>2, RollbackTyped, EndingTyped
<1> QED BY <1>3, <1>4, <1>5, <1>6

(***************************************************************************)
(* Type correctness, of every step and of the specification.               *)
(***************************************************************************)
LEMMA TypesInit == Init => Types
<1> SUFFICES ASSUME Init PROVE Types
  OBVIOUS
<1>1. DiskTypes
  BY DEF Init, DiskTypes, Contents
<1>2. ShellTypes
  BY DEF Init, ShellTypes
<1>3. TrialTypes
  BY ActivationAssumption DEF Init, TrialTypes, ActivationAssumption, Trials,
       NoTrial
<1>4. PhaseTypes
  BY DEF Init, PhaseTypes, Phases
<1>5. AuthTypes
  BY DEF Init, AuthTypes
<1>6. FlagTypes
  BY Zenon DEF Init, FlagTypes
<1>7. ReportTypes
  BY DEF NoReport, Init, ReportTypes, Errors
<1>8. AttemptBegun
  BY DEF Init, AttemptBegun
<1> QED BY <1>1, <1>2, <1>3, <1>4, <1>5, <1>6, <1>7, <1>8 DEF Types

LEMMA TypesStep == Types /\ [Next]_vars => Types'
<1> SUFFICES ASSUME Types, [Next]_vars PROVE Types'
  OBVIOUS
<1>1. CASE Application
  BY <1>1, OrdinaryStepsTyped, EndingStepsTyped DEF Application, Callback
<1>2. CASE Surroundings
  <2>1. CASE \E a \in Attempts : AuthAnswered(a) \/ AuthInstalls(a)
    BY <2>1, SurroundingsTyped
  <2>2. Attempts # {}
    BY ActivationAssumption DEF ActivationAssumption, Attempts
  <2> QED BY <1>2, <2>1, <2>2, SurroundingsTyped DEF Surroundings
<1>3. CASE UNCHANGED vars
  <2>1. DiskTypes' /\ ShellTypes' /\ TrialTypes'
    BY <1>3 DEF Types, DiskTypes, ShellTypes, TrialTypes, vars, appVars,
       historyVars
  <2>2. PhaseTypes' /\ AuthTypes' /\ ReportTypes' /\ AttemptBegun'
    BY <1>3 DEF Types, PhaseTypes, AuthTypes, ReportTypes, AttemptBegun, vars,
         appVars, processVars, clockVars
  <2>3. FlagTypes'
    BY <1>3, Zenon DEF Types, FlagTypes, vars, clockVars, historyVars
  <2> QED BY <2>1, <2>2, <2>3 DEF Types
<1> QED BY <1>1, <1>2, <1>3 DEF Next

LEMMA TypesHold == Spec => []Types
  BY TypesInit, TypesStep, PTL DEF Spec

(* Every variable keeps its type, whatever fails, for every number of      *)
(* activations (the members of app/GazeClient.h).                          *)
THEOREM TypeCorrect == Spec => []TypeOK
  BY TypesHold, TypesAreTypeOK, PTL

(***************************************************************************)
(* A pending timer belongs to what the application waits for.              *)
(***************************************************************************)

(* TimersAreCurrent is inductive with the fact that no deadline is armed   *)
(* once the shell has been restarted: a retry is only scheduled then.      *)
RestartEndsDeadline == budget # "off" => ~deadline

TimersInvariant == TimersAreCurrent /\ RestartEndsDeadline

LEMMA TimersStep == Types /\ TimersInvariant /\ [Next]_vars => TimersInvariant'
<1> SUFFICES ASSUME Types, TimersInvariant, [Next]_vars PROVE TimersInvariant'
  OBVIOUS
<1> USE DEF TimersInvariant, TimersAreCurrent, RestartEndsDeadline
<1>1. CASE BeginRefused
  BY <1>1 DEF BeginRefused, Begin
<1>2. CASE BeginAuthorized
  BY <1>2 DEF BeginAuthorized, Begin
<1>3. CASE BeginAuthorizing
  BY <1>3 DEF BeginAuthorizing, Begin
<1>4. CASE AuthTimeout
  BY <1>4 DEF AuthTimeout, clockVars, appVars
<1>5. CASE Stage
  BY <1>5 DEF Stage, clockVars, processVars
<1>6. CASE Activate
  BY <1>6 DEF Activate, clockVars
<1>7. CASE RescanFinished
  BY <1>7 DEF RescanFinished, clockVars
<1>8. CASE EnableFinished
  BY <1>8 DEF EnableFinished, StartVerification, clockVars
<1>9. CASE Restart
  BY <1>9 DEF Restart, Answered, DeadlineAfterRestart
<1>10. CASE VerifyLater
  BY <1>10 DEF VerifyLater, Answered, MayAskAgain, appVars
<1>11. CASE SettleTimer
  BY <1>11 DEF SettleTimer, StartVerification
<1>12. CASE RetryTimer
  BY <1>12 DEF RetryTimer, StartVerification
<1>13. CASE BudgetSpent
  BY <1>13 DEF BudgetSpent, appVars, processVars
<1>14. CASE Close
  BY <1>14 DEF Close
<1>15. CASE Open
  BY <1>15 DEF Open, processVars, clockVars
<1>16. CASE StageFails
  BY <1>16 DEF StageFails, Finish, CommandsAbandoned
<1>17. CASE ActivateWithoutTools
  BY <1>17 DEF ActivateWithoutTools, Finish, CommandsAbandoned
<1>18. CASE VerifiedReady
  BY <1>18 DEF VerifiedReady, Answered, Finish, CommandsAbandoned
<1>19. CASE RestartNotDispatched
  BY <1>19 DEF RestartNotDispatched, Answered, Fail, Finish, CommandsAbandoned
<1>20. CASE VerificationFails
  BY <1>20 DEF VerificationFails, Answered, Fail, Finish, CommandsAbandoned
<1>21. CASE DeadlineReached
  BY <1>21 DEF DeadlineReached, Fail, Finish, CommandsAbandoned, Waiting
<1>22. CASE AuthFinished
  <2>1. CASE disk.pam = "ours"
    BY <1>22, <2>1 DEF AuthFinished, clockVars
  <2>2. CASE disk.pam # "ours"
    BY <1>22, <2>2 DEF AuthFinished, Finish, CommandsAbandoned
  <2> QED BY <2>1, <2>2
<1>23. CASE Surroundings
  <2>1. UNCHANGED <<phase, command, clockVars>>
    BY <1>23 DEF Surroundings, AuthAnswered, AuthInstalls, PluginEnabled,
       ShellLoads,
       ShellStops, ShellStarts, StatusReplied, Removed, appVars, processVars
  <2> QED BY <2>1 DEF clockVars
<1>24. CASE UNCHANGED vars
  BY <1>24 DEF vars, appVars, processVars, clockVars
<1> QED BY <1>1, <1>2, <1>3, <1>4, <1>5, <1>6, <1>7, <1>8, <1>9, <1>10, <1>11,
       <1>12, <1>13, <1>14, <1>15, <1>16, <1>17, <1>18, <1>19, <1>20, <1>21,
       <1>22, <1>23, <1>24 DEF Next, Application, Callback

(* A 200 ms timer never meets another activation or another command than   *)
(* the one it was set for, whatever fails and however many activations     *)
(* there are (GazeClient.cpp: startLockShellRestart and                    *)
(* startLockShellVerification).                                            *)
THEOREM TimersStayCurrent == Spec => []TimersAreCurrent
<1>1. Init => TimersInvariant
  BY DEF Init, TimersInvariant, TimersAreCurrent, RestartEndsDeadline
<1>2. TimersInvariant => TimersAreCurrent
  BY DEF TimersInvariant
<1> QED BY <1>1, <1>2, TypesHold, TimersStep, PTL DEF Spec

(***************************************************************************)
(* What the directories are while an activation is under way.              *)
(***************************************************************************)

(* No attempt to come has a directory: names of transactions are fresh.    *)
FutureStagesEmpty == \A a \in Attempts : a > attempt => stage[a] = "none"

(* The attempt under way has one from Stage on.                            *)
StageFollowsPhase ==
  /\ phase \in {"Authorizing", "Staging"} => stage[attempt] = "none"
  /\ phase = "Staged" => stage[attempt] = "new"

(* m_lockPluginRoot is set from the exchange to the end.                   *)
TrialFollowsPhase ==
  trial.activated <=> phase \in {"Rescanning", "Enabling", "Reloading", "Verifying"}

(* Before the exchange the plugin is the previous one, and after it the    *)
(* previous one is what a rollback would bring back.                       *)
PreviousIsKnown ==
  ~disturbed =>
    /\ phase \in {"Authorizing", "Staging", "Staged"} => disk.plugin = before.plugin
    /\ trial.activated => /\ stage[attempt] = before.plugin
                          /\ trial.backup = (before.plugin # "none")
                          /\ disk.plugin # "none"

(* After the exchange the plugin's name is the new one's, also if somebody *)
(* else has changed it, who can only have removed it.                      *)
NewIsInPlace == trial.activated => disk.plugin \in {"new", "none"}

Directories == /\ FutureStagesEmpty /\ StageFollowsPhase
               /\ TrialFollowsPhase /\ PreviousIsKnown /\ NewIsInPlace

(* What Directories says does not depend on a step that changes none of    *)
(* these.                                                                  *)
LEMMA DirectoriesFrame ==
  ASSUME Types, Directories,
         UNCHANGED <<stage, phase, attempt, trial, before, disturbed>>,
         disk'.plugin = disk.plugin
  PROVE  Directories'
  BY DEF Directories, FutureStagesEmpty, StageFollowsPhase, TrialFollowsPhase,
     PreviousIsKnown, NewIsInPlace

(* Nor on one that goes from one phase after the exchange to another.      *)
LEMMA DirectoriesPhase ==
  ASSUME Types, Directories,
         UNCHANGED <<disk, stage, attempt, before, disturbed>>,
         trial'.activated = trial.activated, trial'.backup = trial.backup,
         phase \in {"Rescanning", "Enabling", "Reloading", "Verifying"},
         phase' \in {"Rescanning", "Enabling", "Reloading", "Verifying"}
  PROVE  Directories'
<1>1. FutureStagesEmpty'
  BY DEF Directories, FutureStagesEmpty
<1>2. StageFollowsPhase'
  BY DEF StageFollowsPhase
<1>3. TrialFollowsPhase'
  BY Zenon DEF Directories, TrialFollowsPhase
<1>4. PreviousIsKnown' /\ NewIsInPlace'
  BY DEF Directories, PreviousIsKnown, NewIsInPlace
<1> QED BY <1>1, <1>2, <1>3, <1>4 DEF Directories

(* Nor on the end of an activation, which leaves the stages to come alone. *)
LEMMA DirectoriesEnd ==
  ASSUME Types, Directories, attempt' = attempt, trial' = NoTrial,
         phase' \in {"Closed", "Idle"},
         \A a \in Attempts : a > attempt => stage'[a] = stage[a]
  PROVE  Directories'
<1>1. FutureStagesEmpty'
  BY DEF Directories, FutureStagesEmpty
<1>2. StageFollowsPhase'
  BY DEF StageFollowsPhase
<1>3. trial'.activated = FALSE
  BY DEF NoTrial
<1>4. TrialFollowsPhase'
  BY <1>3 DEF TrialFollowsPhase
<1>5. PreviousIsKnown' /\ NewIsInPlace'
  BY <1>3 DEF PreviousIsKnown, NewIsInPlace
<1> QED BY <1>1, <1>2, <1>4, <1>5 DEF Directories

(* Every end touches at most the directory of its own attempt.             *)
LEMMA EndingFrame ==
  ASSUME Types,
         (\/ AuthFinished /\ disk.pam # "ours"
          \/ StageFails \/ ActivateWithoutTools \/ VerifiedReady
          \/ RestartNotDispatched \/ VerificationFails \/ DeadlineReached)
  PROVE  /\ attempt' = attempt /\ trial' = NoTrial /\ phase' = "Idle"
         /\ \A a \in Attempts : a > attempt => stage'[a] = stage[a]
<1>1. /\ attempt' = attempt /\ trial' = NoTrial /\ phase' = "Idle"
  BY DEF AuthFinished, StageFails, ActivateWithoutTools, VerifiedReady,
     RestartNotDispatched, VerificationFails, DeadlineReached, Fail, Finish, TrialOver
<1>2. stage' = stage \/ stage' = [stage EXCEPT ![attempt] = "none"]
  BY DEF AuthFinished, StageFails, ActivateWithoutTools, VerifiedReady, Commit,
     RestartNotDispatched, VerificationFails, DeadlineReached, Fail, Rollback, RestoreBackup
<1>3. attempt \in Nat /\ stage \in [Attempts -> Contents] /\ Attempts \subseteq Nat
  BY ActivationAssumption DEF Types, TrialTypes, DiskTypes, Attempts, ActivationAssumption
<1>4. ASSUME NEW a \in Attempts, a > attempt PROVE stage'[a] = stage[a]
  BY <1>2, <1>3, <1>4
<1> QED BY <1>1, <1>4

LEMMA DirectoriesStep == Types /\ Directories /\ [Next]_vars => Directories'
<1> SUFFICES ASSUME Types, Directories, [Next]_vars PROVE Directories'
  OBVIOUS
<1> DEFINE after == {"Rescanning", "Enabling", "Reloading", "Verifying"}
<1>0. /\ attempt \in 0..MaxAttempts /\ trial \in Trials
      /\ stage \in [Attempts -> Contents] /\ Attempts = 1..MaxAttempts
      /\ MaxAttempts \in Nat /\ disk \in Disks
      /\ phase \notin {"Closed", "Idle"} => attempt \in Attempts
  BY ActivationAssumption DEF Types, TrialTypes, DiskTypes, AttemptBegun,
     ActivationAssumption, Attempts
<1>1. CASE BeginRefused \/ BeginAuthorized \/ BeginAuthorizing
  <2>1. /\ attempt' = attempt + 1 /\ trial' = NoTrial /\ before' = disk
        /\ UNCHANGED <<disk, stage>> /\ attempt < MaxAttempts
        /\ phase' \in {"Idle", "Staging", "Authorizing"}
    BY <1>1 DEF BeginRefused, BeginAuthorized, BeginAuthorizing, Begin
  <2>2. FutureStagesEmpty' /\ stage'[attempt'] = "none"
    BY <1>0, <2>1 DEF Directories, FutureStagesEmpty
  <2>3. StageFollowsPhase'
    BY <2>1, <2>2 DEF StageFollowsPhase
  <2>4. trial'.activated = FALSE
    BY <2>1 DEF NoTrial
  <2>5. TrialFollowsPhase' /\ PreviousIsKnown' /\ NewIsInPlace'
    BY <2>1, <2>4 DEF TrialFollowsPhase, PreviousIsKnown, NewIsInPlace
  <2> QED BY <2>2, <2>3, <2>5 DEF Directories
<1>2. CASE AuthFinished /\ disk.pam = "ours"
  <2>1. /\ phase = "Authorizing" /\ phase' = "Staging"
        /\ UNCHANGED <<disk, stage, attempt, trial, before, disturbed>>
    BY <1>2 DEF AuthFinished, Keeps, historyVars
  <2> QED BY <2>1 DEF Directories, FutureStagesEmpty, StageFollowsPhase,
         TrialFollowsPhase, PreviousIsKnown, NewIsInPlace
<1>3. CASE Stage
  <2>1. /\ phase = "Staging" /\ phase' = "Staged"
        /\ UNCHANGED <<disk, attempt, trial, before, disturbed>>
        /\ stage' = [stage EXCEPT ![attempt] = "new"] /\ attempt \in Attempts
    BY <1>0, <1>3 DEF Stage, Keeps, historyVars
  <2>2. FutureStagesEmpty' /\ stage'[attempt] = "new"
    BY <1>0, <2>1 DEF Directories, FutureStagesEmpty
  <2>3. StageFollowsPhase'
    BY <2>1, <2>2 DEF StageFollowsPhase
  <2>4. ~trial.activated
    BY <2>1 DEF Directories, TrialFollowsPhase
  <2>5. TrialFollowsPhase' /\ PreviousIsKnown' /\ NewIsInPlace'
    BY <2>1, <2>4 DEF Directories, TrialFollowsPhase, PreviousIsKnown, NewIsInPlace
  <2> QED BY <2>2, <2>3, <2>5 DEF Directories
<1>4. CASE Activate
  <2>1. /\ phase = "Staged" /\ phase' = "Rescanning"
        /\ UNCHANGED <<attempt, before, disturbed>> /\ attempt \in Attempts
        /\ stage' = [stage EXCEPT ![attempt] = disk.plugin]
        /\ disk' = [disk EXCEPT !.plugin = stage[attempt]]
    BY <1>0, <1>4 DEF Activate, Exchanged, Keeps, historyVars
  <2>2. PICK canRestart \in BOOLEAN :
          trial' = [activated |-> TRUE, backup |-> disk.plugin # "none",
                    restarted |-> FALSE, canRestart |-> canRestart]
    BY <1>4, Zenon DEF Activate
  <2>3. trial'.activated = TRUE /\ trial'.backup = (disk.plugin # "none")
    BY <2>2
  <2>4. FutureStagesEmpty' /\ stage'[attempt'] = disk.plugin
    BY <1>0, <2>1 DEF Directories, FutureStagesEmpty
  <2>5. disk'.plugin = "new"
    BY <1>0, <2>1 DEF Directories, StageFollowsPhase, Disks
  <2>6. StageFollowsPhase'
    BY <2>1 DEF StageFollowsPhase
  <2>7. TrialFollowsPhase'
    BY <2>1, <2>3 DEF TrialFollowsPhase
  <2>8. PreviousIsKnown'
    <3> SUFFICES ASSUME ~disturbed' PROVE
          /\ stage'[attempt'] = before'.plugin
          /\ trial'.backup = (before'.plugin # "none")
          /\ disk'.plugin # "none"
      BY <2>1 DEF PreviousIsKnown
    <3>1. disk.plugin = before.plugin
      BY <2>1 DEF Directories, PreviousIsKnown
    <3>2. before'.plugin = disk.plugin
      BY <2>1, <3>1
    <3>3. trial'.backup = (before'.plugin # "none")
      BY <2>3, <3>2, Zenon
    <3> QED BY <2>4, <2>5, <3>2, <3>3
  <2>9. NewIsInPlace'
    BY <2>5 DEF NewIsInPlace
  <2> QED BY <2>4, <2>6, <2>7, <2>8, <2>9 DEF Directories
<1>5. CASE RescanFinished \/ EnableFinished \/ Restart
  <2>1. /\ phase \in after /\ phase' \in after
        /\ UNCHANGED <<disk, stage, attempt, before, disturbed>>
    BY <1>5 DEF RescanFinished, EnableFinished, Restart, Answered, StartVerification,
       Keeps, historyVars
  <2>2. trial' = trial \/ trial' = [trial EXCEPT !.restarted = TRUE]
    BY <1>5 DEF RescanFinished, EnableFinished, Restart
  <2>3. trial'.activated = trial.activated /\ trial'.backup = trial.backup
    BY <1>0, <2>2 DEF Trials
  <2> QED BY <2>1, <2>3, DirectoriesPhase
<1>6. CASE SettleTimer \/ RetryTimer
  <2>1. UNCHANGED <<disk, stage, attempt, trial, before, disturbed>>
    BY <1>6 DEF SettleTimer, RetryTimer, Keeps, historyVars
  <2>2. CASE phase \in after
    <3>1. phase' \in after
      BY <1>6, <2>2 DEF SettleTimer, RetryTimer, StartVerification
    <3> QED BY <2>1, <2>2, <3>1, DirectoriesPhase
  <2>3. CASE phase \notin after
    <3>1. phase' = phase
      BY <1>6, <2>3 DEF SettleTimer, RetryTimer
    <3> QED BY <2>1, <3>1, DirectoriesFrame
  <2> QED BY <2>2, <2>3
<1>7. CASE AuthTimeout \/ VerifyLater \/ BudgetSpent
  <2>1. UNCHANGED <<disk, stage, phase, attempt, trial, before, disturbed>>
    BY <1>7 DEF AuthTimeout, VerifyLater, BudgetSpent, Keeps, appVars, historyVars
  <2> QED BY <2>1, DirectoriesFrame
<1>8. CASE Open
  <2>1. /\ phase = "Closed" /\ phase' = "Idle"
        /\ UNCHANGED <<disk, stage, attempt, trial, before, disturbed>>
    BY <1>8 DEF Open, Keeps, historyVars
  <2> QED BY <2>1 DEF Directories, FutureStagesEmpty, StageFollowsPhase,
         TrialFollowsPhase, PreviousIsKnown, NewIsInPlace
<1>9. CASE Close
  <2>1. UNCHANGED <<stage, attempt>> /\ trial' = NoTrial /\ phase' = "Closed"
    BY <1>9 DEF Close
  <2> QED BY <2>1, DirectoriesEnd
<1>10. CASE \/ AuthFinished /\ disk.pam # "ours"
            \/ StageFails \/ ActivateWithoutTools \/ VerifiedReady
            \/ RestartNotDispatched \/ VerificationFails \/ DeadlineReached
  BY <1>10, EndingFrame, DirectoriesEnd
<1>11. CASE Surroundings
  <2>1. UNCHANGED <<stage, phase, attempt, trial, before>>
    BY <1>11 DEF Surroundings, AuthAnswered, AuthInstalls, PluginEnabled, ShellLoads,
       ShellStops, ShellStarts, StatusReplied, Removed, appVars, Keeps, historyVars
  <2>2. CASE Removed
    <3>1. disturbed' = TRUE
      BY <2>2 DEF Removed
    <3>2. disk'.plugin \in {"none", disk.plugin}
      BY <1>0, <2>2 DEF Removed, Disks
    <3> QED BY <2>1, <3>1, <3>2 DEF Directories, FutureStagesEmpty, StageFollowsPhase,
           TrialFollowsPhase, PreviousIsKnown, NewIsInPlace
  <2>3. CASE ~Removed
    <3>1. disturbed' = disturbed
      BY <1>11, <2>3 DEF Surroundings, AuthAnswered, AuthInstalls, PluginEnabled,
         ShellLoads, ShellStops, ShellStarts, StatusReplied, Keeps, historyVars
    <3>2. \/ disk' = disk \/ disk' = [disk EXCEPT !.pam = "ours"]
          \/ disk' = [disk EXCEPT !.enabled = TRUE]
      BY <1>11, <2>3 DEF Surroundings, AuthAnswered, AuthInstalls, PluginEnabled,
         ShellLoads, ShellStops, ShellStarts, StatusReplied
    <3>3. disk'.plugin = disk.plugin
      BY <1>0, <3>2 DEF Disks
    <3> QED BY <2>1, <3>1, <3>3, DirectoriesFrame
  <2> QED BY <2>2, <2>3
<1>12. CASE UNCHANGED vars
  BY <1>12, DirectoriesFrame DEF vars, appVars, historyVars
<1> QED BY <1>1, <1>2, <1>3, <1>4, <1>5, <1>6, <1>7, <1>8, <1>9, <1>10, <1>11,
       <1>12, Zenon DEF Next, Application, Callback

LEMMA DirectoriesHold == Spec => []Directories
<1>1. ASSUME Init PROVE Directories
  <2>1. trial.activated = FALSE /\ phase = "Idle"
    BY <1>1 DEF Init, NoTrial
  <2>2. FutureStagesEmpty
    BY <1>1 DEF Init, FutureStagesEmpty
  <2> QED BY <2>1, <2>2 DEF Directories, StageFollowsPhase, TrialFollowsPhase,
         PreviousIsKnown, NewIsInPlace
<1> QED BY <1>1, TypesHold, DirectoriesStep, PTL DEF Spec

(***************************************************************************)
(* What a failure leaves behind, and what is kept until the new plugin has *)
(* answered.                                                               *)
(***************************************************************************)

(* A rollback of an undisturbed activation brings the plugin back that was *)
(* there, and removes what the exchange has put aside.                     *)
LEMMA RollbackRestores ==
  ASSUME Types, Directories, Rollback, phase \in Waiting, ~disturbed
  PROVE  disk'.plugin = before.plugin /\ stage'[attempt] = "none"
<1>1. /\ attempt \in Attempts /\ disk \in Disks
      /\ stage \in [Attempts -> Contents]
  BY DEF Types, AttemptBegun, DiskTypes, Waiting
<1>2. CASE ~trial.activated
  <2>1. phase = "Authorizing"
    BY <1>2 DEF Directories, TrialFollowsPhase, Waiting
  <2>2. disk' = disk /\ stage' = stage
    BY <1>2 DEF Rollback
  <2> QED BY <2>1, <2>2 DEF Directories, StageFollowsPhase, PreviousIsKnown
<1>3. CASE trial.activated
  <2>1. /\ stage[attempt] = before.plugin /\ disk.plugin # "none"
        /\ trial.backup = (before.plugin # "none")
    BY <1>3 DEF Directories, PreviousIsKnown
  <2>2. CASE trial.backup
    <3>1. /\ disk' = [disk EXCEPT !.plugin = stage[attempt]]
          /\ stage' = [stage EXCEPT ![attempt] = "none"]
      BY <1>3, <2>1, <2>2 DEF Rollback, RestoreBackup
    <3> QED BY <1>1, <2>1, <3>1 DEF Disks
  <2>3. CASE ~trial.backup
    <3>1. disk' = [disk EXCEPT !.plugin = "none"] /\ stage' = stage
      BY <1>3, <2>3 DEF Rollback
    <3>2. before.plugin = "none"
      BY <2>1, <2>3, Zenon
    <3> QED BY <1>1, <2>1, <3>1, <3>2 DEF Disks
  <2> QED BY <2>2, <2>3
<1> QED BY <1>2, <1>3

(* How an activation can end but by accepting a ready answer.              *)
LEMMA HowItFails ==
  ASSUME Types, [Next]_vars, Attempting, phase' = "Idle", ~VerifiedReady
  PROVE  \/ AuthFinished /\ disk.pam # "ours"
         \/ StageFails \/ ActivateWithoutTools
         \/ Rollback /\ phase \in Waiting
<1>1. CASE BeginRefused \/ BeginAuthorized \/ BeginAuthorizing \/ Open \/ Close
  BY <1>1 DEF BeginRefused, BeginAuthorized, BeginAuthorizing, Begin, Open, Close,
     Attempting
<1>2. CASE \/ Stage \/ Activate \/ RescanFinished \/ EnableFinished \/ Restart
           \/ SettleTimer \/ RetryTimer
  BY <1>2 DEF Stage, Activate, RescanFinished, EnableFinished, Restart,
     SettleTimer, RetryTimer, StartVerification, Attempting
<1>3. CASE AuthTimeout \/ VerifyLater \/ BudgetSpent \/ Surroundings \/ UNCHANGED vars
  BY <1>3 DEF AuthTimeout, VerifyLater, BudgetSpent, Surroundings, AuthAnswered,
     AuthInstalls, PluginEnabled, ShellLoads, ShellStops, ShellStarts, StatusReplied,
     Removed, appVars, vars, Attempting
<1>4. CASE RestartNotDispatched \/ VerificationFails \/ DeadlineReached
  BY <1>4 DEF RestartNotDispatched, VerificationFails, DeadlineReached, Fail, Answered,
     Waiting
<1>5. CASE AuthFinished
  BY <1>5 DEF AuthFinished
<1> QED BY <1>1, <1>2, <1>3, <1>4, <1>5, Zenon DEF Next, Application, Callback

LEMMA FailureRestoresStep ==
  ASSUME Types, Directories, [Next]_vars, Attempting, phase' = "Idle",
         ~VerifiedReady, ~disturbed
  PROVE  disk'.plugin = before.plugin /\ stage'[attempt] = "none"
<1>1. CASE AuthFinished /\ disk.pam # "ours"
  <2>1. phase = "Authorizing" /\ UNCHANGED <<disk, stage>>
    BY <1>1 DEF AuthFinished
  <2> QED BY <2>1 DEF Directories, StageFollowsPhase, PreviousIsKnown
<1>2. CASE StageFails \/ ActivateWithoutTools
  <2>1. /\ phase \in {"Staging", "Staged"} /\ disk' = disk
        /\ stage' = [stage EXCEPT ![attempt] = "none"]
    BY <1>2 DEF StageFails, ActivateWithoutTools
  <2>2. attempt \in Attempts /\ stage \in [Attempts -> Contents]
    BY DEF Types, DiskTypes, AttemptBegun, Attempting
  <2> QED BY <2>1, <2>2 DEF Directories, PreviousIsKnown
<1>3. CASE Rollback /\ phase \in Waiting
  BY <1>3, RollbackRestores
<1> QED BY <1>1, <1>2, <1>3, HowItFails

(* An activation that fails, for whatever reason and at whatever point,    *)
(* leaves the plugin's directory as it was and nothing of its own          *)
(* (GazeClient.cpp: rollbackUserPluginActivation, finishLockActivation).   *)
THEOREM FailureAlwaysRestores == Spec => FailureRestores
<1>1. Types /\ Directories /\ [Next]_vars =>
        [ Attempting /\ phase' = "Idle" /\ ~VerifiedReady /\ ~disturbed =>
            disk'.plugin = before.plugin /\ stage'[attempt] = "none" ]_vars
  BY FailureRestoresStep
<1> QED BY <1>1, TypesHold, DirectoriesHold, PTL DEF Spec, FailureRestores

-----------------------------------------------------------------------------
(* A rollback keeps every version but the new one, whatever is in the      *)
(* place of the plugin.                                                    *)
LEMMA RollbackKeeps ==
  ASSUME Types, Directories, Rollback, phase \in Waiting,
         NEW version, version \notin {"none", "new"}, OnDisk(version)
  PROVE  disk'.plugin = version \/ \E a \in Attempts : stage'[a] = version
<1>1. /\ attempt \in Attempts /\ disk \in Disks
      /\ stage \in [Attempts -> Contents]
  BY DEF Types, AttemptBegun, DiskTypes, Waiting
<1>2. CASE disk' = disk /\ stage' = stage
  BY <1>2 DEF OnDisk
<1>3. CASE trial.activated
  <2>1. disk.plugin # version
    BY <1>3 DEF Directories, NewIsInPlace
  <2>2. PICK a \in Attempts : stage[a] = version
    BY <2>1 DEF OnDisk
  <2>3. CASE trial.backup /\ disk.plugin # "none"
    <3>1. /\ disk' = [disk EXCEPT !.plugin = stage[attempt]]
          /\ stage' = [stage EXCEPT ![attempt] = "none"]
      BY <1>3, <2>3 DEF Rollback, RestoreBackup
    <3>2. CASE a = attempt
      BY <1>1, <2>2, <3>1, <3>2 DEF Disks
    <3>3. CASE a # attempt
      <4>1. stage'[a] = version
        BY <1>1, <2>2, <3>1, <3>3
      <4> QED BY <4>1
    <3> QED BY <3>2, <3>3
  <2>4. CASE trial.backup /\ disk.plugin = "none"
    BY <1>2, <1>3, <2>4 DEF Rollback, RestoreBackup
  <2>5. CASE ~trial.backup
    BY <1>3, <2>2, <2>5 DEF Rollback
  <2> QED BY <2>3, <2>4, <2>5
<1>4. CASE ~trial.activated
  BY <1>2, <1>4 DEF Rollback
<1> QED BY <1>3, <1>4

LEMMA PreviousIsKeptStep ==
  ASSUME Types, Directories, [Next]_vars, before' = before,
         before.plugin # "none", OnDisk(before.plugin),
         ~(disturbed /\ before.plugin = "new"), ~Removed, ~VerifiedReady
  PROVE  disk'.plugin = before.plugin \/ \E a \in Attempts : stage'[a] = before.plugin
<1> DEFINE goal == disk'.plugin = before.plugin \/ \E a \in Attempts : stage'[a] = before.plugin
<1> SUFFICES goal
  OBVIOUS
<1>0. disk \in Disks /\ stage \in [Attempts -> Contents]
  BY DEF Types, DiskTypes
<1>1. CASE disk'.plugin = disk.plugin /\ stage' = stage
  BY <1>1 DEF OnDisk
<1>2. CASE Stage
  <2>1. /\ disk' = disk /\ stage[attempt] = "none"
        /\ stage' = [stage EXCEPT ![attempt] = "new"]
    BY <1>2 DEF Stage, Directories, StageFollowsPhase
  <2>2. CASE disk.plugin = before.plugin
    BY <2>1, <2>2
  <2>3. CASE \E a \in Attempts : stage[a] = before.plugin
    <3>1. PICK a \in Attempts : stage[a] = before.plugin
      BY <2>3
    <3>2. stage'[a] = before.plugin
      BY <1>0, <2>1, <3>1
    <3> QED BY <3>1, <3>2
  <2> QED BY <2>2, <2>3 DEF OnDisk
<1>3. CASE Activate
  <2>1. /\ disk' = [disk EXCEPT !.plugin = stage[attempt]]
        /\ stage' = [stage EXCEPT ![attempt] = disk.plugin]
        /\ attempt \in Attempts
    BY <1>3 DEF Activate, Exchanged, Types, AttemptBegun
  <2>2. disk'.plugin = stage[attempt] /\ stage'[attempt] = disk.plugin
    BY <1>0, <2>1 DEF Disks
  <2>3. CASE disk.plugin = before.plugin
    BY <2>1, <2>2, <2>3
  <2>4. CASE \E a \in Attempts : stage[a] = before.plugin
    <3>1. PICK a \in Attempts : stage[a] = before.plugin
      BY <2>4
    <3>2. CASE a = attempt
      BY <2>2, <3>1, <3>2
    <3>3. CASE a # attempt
      <4>1. stage'[a] = before.plugin
        BY <1>0, <2>1, <3>1, <3>3
      <4> QED BY <4>1
    <3> QED BY <3>2, <3>3
  <2> QED BY <2>3, <2>4 DEF OnDisk
<1>4. CASE \/ StageFails \/ ActivateWithoutTools \/ RestartNotDispatched
           \/ VerificationFails \/ DeadlineReached
  <2>1. phase' = "Idle" /\ Attempting
    BY <1>4 DEF StageFails, ActivateWithoutTools, RestartNotDispatched, VerificationFails,
       DeadlineReached, Fail, Finish, Answered, Waiting, Attempting
  <2>2. CASE ~disturbed
    BY <2>1, <2>2, FailureRestoresStep
  <2>3. CASE before.plugin # "new" /\ (StageFails \/ ActivateWithoutTools)
    <3>1. /\ phase \in {"Staging", "Staged"} /\ disk' = disk
          /\ stage' = [stage EXCEPT ![attempt] = "none"]
      BY <2>3 DEF StageFails, ActivateWithoutTools
    <3>2. stage[attempt] \in {"none", "new"}
      BY <3>1 DEF Directories, StageFollowsPhase
    <3>3. CASE disk.plugin = before.plugin
      BY <3>1, <3>3
    <3>4. ASSUME NEW a \in Attempts, stage[a] = before.plugin PROVE goal
      <4>1. stage'[a] = before.plugin
        BY <1>0, <2>3, <3>1, <3>2, <3>4
      <4> QED BY <4>1
    <3> QED BY <3>3, <3>4 DEF OnDisk
  <2>4. CASE before.plugin # "new" /\ ~(StageFails \/ ActivateWithoutTools)
    <3>1. Rollback /\ phase \in Waiting
      BY <1>4, <2>4 DEF RestartNotDispatched, VerificationFails, DeadlineReached, Fail,
         Answered, Waiting
    <3> QED BY <2>4, <3>1, RollbackKeeps
  <2> QED BY <2>2, <2>3, <2>4
<1>5. CASE BeginRefused \/ BeginAuthorized \/ BeginAuthorizing
  BY <1>1, <1>5 DEF BeginRefused, BeginAuthorized, BeginAuthorizing, Begin
<1>6. CASE \/ AuthTimeout \/ AuthFinished \/ RescanFinished \/ EnableFinished
           \/ Restart \/ VerifyLater \/ SettleTimer \/ RetryTimer \/ BudgetSpent
           \/ Close \/ Open \/ UNCHANGED vars
  <2>1. disk' = disk /\ stage' = stage
    BY <1>6 DEF AuthTimeout, AuthFinished, RescanFinished, EnableFinished, Restart,
       VerifyLater, SettleTimer, RetryTimer, BudgetSpent, Close, Open, vars
  <2> QED BY <1>1, <2>1
<1>8. CASE Surroundings
  <2>2. \/ disk' = disk \/ disk' = [disk EXCEPT !.pam = "ours"]
        \/ disk' = [disk EXCEPT !.enabled = TRUE]
    BY <1>8 DEF Surroundings, AuthAnswered, AuthInstalls, PluginEnabled,
       ShellLoads, ShellStops, ShellStarts, StatusReplied
  <2>3. stage' = stage
    BY <1>8 DEF Surroundings, AuthAnswered, AuthInstalls, PluginEnabled,
       ShellLoads, ShellStops, ShellStarts, StatusReplied, Removed
  <2>4. disk'.plugin = disk.plugin
    BY <1>0, <2>2 DEF Disks
  <2> QED BY <1>1, <2>3, <2>4
<1> QED BY <1>2, <1>3, <1>4, <1>5, <1>6, <1>8, Zenon DEF Next, Application,
       Callback

(* Until the new plugin has answered, the previous one is never lost: not  *)
(* by a failure, not by a rollback, be it of a plugin that was uninstalled *)
(* meanwhile, not by an application that is closed, in any of any number   *)
(* of activations.                                                         *)
THEOREM PreviousIsAlwaysKept == Spec => PreviousIsKept
<1>1. ASSUME Types, Directories, [Next]_vars
      PROVE  [ before' = before /\ before.plugin # "none" /\ OnDisk(before.plugin) =>
                 \/ OnDisk(before.plugin)' \/ VerifiedReady \/ Removed
                 \/ disturbed /\ before.plugin = "new" ]_vars
  <2> SUFFICES ASSUME before' = before, before.plugin # "none", OnDisk(before.plugin),
                      ~VerifiedReady, ~Removed, ~(disturbed /\ before.plugin = "new")
               PROVE  OnDisk(before.plugin)'
    OBVIOUS
  <2>1. disk'.plugin = before.plugin \/ \E a \in Attempts : stage'[a] = before.plugin
    BY <1>1, PreviousIsKeptStep
  <2> QED BY <2>1 DEF OnDisk
<1> QED BY <1>1, TypesHold, DirectoriesHold, PTL DEF Spec, PreviousIsKept

-----------------------------------------------------------------------------
(***************************************************************************)
(* Every activation has an end ahead.                                      *)
(***************************************************************************)

(* The budget of 30 seconds runs from the restart of the shell on, after   *)
(* which the activation waits for the shell only.                          *)
RestartIsBudgeted ==
  Attempting =>
    /\ trial.restarted <=> budget # "off"
    /\ trial.restarted => phase \in {"Reloading", "Verifying"}
    /\ phase = "Reloading" => trial.restarted
    /\ ~trial.restarted => deadline

VerifyingAsks ==
  phase = "Verifying" =>
    \/ command = "status" /\ reply # "none"
    \/ command = "none" /\ "retry" \in timers /\ trial.restarted

EndInvariant == RestartIsBudgeted /\ VerifyingAsks

LEMMA EndStep ==
  ASSUME Types, TimersInvariant, EndInvariant, [Next]_vars
  PROVE  EndInvariant'
<1> USE DEF EndInvariant, RestartIsBudgeted, VerifyingAsks, Attempting
<1>1. CASE BeginRefused
  BY <1>1 DEF BeginRefused, Begin
<1>2. CASE BeginAuthorized \/ BeginAuthorizing
  BY <1>2 DEF BeginAuthorized, BeginAuthorizing, Begin, NoTrial
<1>3. CASE AuthTimeout
  BY <1>3 DEF AuthTimeout, clockVars, appVars
<1>4. CASE Stage
  BY <1>4 DEF Stage, clockVars, processVars
<1>5. CASE Activate
  <2>1. trial'.restarted = FALSE
    BY <1>5 DEF Activate
  <2> QED
    BY <1>5, <2>1 DEF Activate, clockVars
<1>6. CASE RescanFinished \/ EnableFinished
  BY <1>6 DEF RescanFinished, EnableFinished, StartVerification, clockVars
<1>7. CASE Restart
  <2>1. trial'.restarted = TRUE
    BY <1>7 DEF Restart, Types, TrialTypes, Trials
  <2> QED
    BY <1>7, <2>1 DEF Restart, Answered
<1>8. CASE VerifyLater
  BY <1>8 DEF VerifyLater, Answered, MayAskAgain, appVars
<1>9. CASE SettleTimer
  BY <1>9 DEF SettleTimer, StartVerification, TimersInvariant, TimersAreCurrent
<1>10. CASE RetryTimer
  BY <1>10 DEF RetryTimer, StartVerification, TimersInvariant, TimersAreCurrent
<1>11. CASE BudgetSpent
  BY <1>11 DEF BudgetSpent, appVars, processVars
<1>12. CASE Close \/ Open
  BY <1>12 DEF Close, Open
<1>13. CASE AuthFinished /\ disk.pam = "ours"
  BY <1>13 DEF AuthFinished, clockVars
<1>14. CASE \/ AuthFinished /\ disk.pam # "ours"
            \/ StageFails \/ ActivateWithoutTools \/ VerifiedReady
            \/ RestartNotDispatched \/ VerificationFails \/ DeadlineReached
  BY <1>14, EndingFrame
<1>15. CASE Surroundings
  <2>1. /\ UNCHANGED <<phase, command, trial, clockVars>>
        /\ reply' = reply \/ (command = "status" /\ reply' # "none")
    BY <1>15 DEF Surroundings, AuthAnswered, AuthInstalls, PluginEnabled, ShellLoads,
       ShellStops, ShellStarts, StatusReplied, Removed, appVars, processVars
  <2> QED
    BY <2>1 DEF clockVars
<1>16. CASE UNCHANGED vars
  BY <1>16 DEF vars, appVars, processVars, clockVars
<1> QED
  BY <1>1, <1>2, <1>3, <1>4, <1>5, <1>6, <1>7, <1>8, <1>9, <1>10, <1>11, <1>12, <1>13,
     <1>14, <1>15, <1>16, Zenon DEF Next, Application, Callback

(* No activation waits for the administrator, for a rescan or for the      *)
(* shell alone: its deadline is armed or, after the restart that stops it, *)
(* the budget and a timer or a status command are (GazeClient.cpp:         *)
(* startLockShellRestart, startLockShellVerification).                     *)
THEOREM EndIsAhead == Spec => []EndAhead
<1>1. Init => TimersInvariant /\ EndInvariant
  BY DEF Init, TimersInvariant, TimersAreCurrent, RestartEndsDeadline, EndInvariant,
     RestartIsBudgeted, VerifyingAsks, Attempting
<1>2. TimersInvariant /\ EndInvariant => EndAhead
  BY DEF TimersInvariant, TimersAreCurrent, EndInvariant, RestartIsBudgeted, VerifyingAsks,
     EndAhead, Attempting
<1> QED
  BY <1>1, <1>2, TypesHold, TimersStep, EndStep, PTL DEF Spec

(***************************************************************************)
(* What the window and the quiet upgrade see of an activation.             *)
(***************************************************************************)

LEMMA FinishOutcome ==
  ASSUME NEW success \in BOOLEAN, NEW error, success => error = "none",
         Attempting, Finish(success, error)
  PROVE  Outcome!Finish
<1>1. phase' = "Idle" /\ report'.activated = (success /\ Matches(disk'))
  BY DEF Finish
<1>2. report'.activated => report'.error = "none"
  BY DEF Finish
<1> QED
  BY <1>1, <1>2, Zenon DEF Outcome!Finish, Attempting

LEMMA OutcomeStep ==
  ASSUME Types, TimersInvariant, [Next]_vars
  PROVE  [Outcome!Next]_(Outcome!outcomeVars)
<1>0. ASSUME (Attempting' <=> Attempting), report' = report
      PROVE  [Outcome!Next]_(Outcome!outcomeVars)
  BY <1>0, Zenon DEF Outcome!outcomeVars, Attempting
<1>1. CASE BeginRefused \/ BeginAuthorized \/ BeginAuthorizing
  <2>1. /\ ~Attempting /\ report'.activated = FALSE
        /\ (report'.error # "none") <=> ~Attempting'
    BY <1>1 DEF BeginRefused, BeginAuthorized, BeginAuthorizing, Begin, NoReport, Attempting
  <2>2. Attempting' \in BOOLEAN
    BY DEF Attempting
  <2>3. ~report.activated'
    BY <2>1
  <2>4. (report.error # "none")' <=> ~Attempting'
    BY <2>1
  <2>5. Outcome!Enable
    BY <2>1, <2>2, <2>3, <2>4 DEF Outcome!Enable
  <2> QED
    BY <2>5, Zenon DEF Outcome!Next
<1>2. CASE \/ AuthTimeout \/ Stage \/ Activate \/ RescanFinished \/ EnableFinished
           \/ Restart \/ VerifyLater \/ BudgetSpent \/ SettleTimer \/ RetryTimer
           \/ AuthFinished /\ disk.pam = "ours"
  <2>1. (Attempting' <=> Attempting) /\ report' = report
    BY <1>2 DEF AuthTimeout, Stage, Activate, RescanFinished, EnableFinished, Restart,
       VerifyLater, BudgetSpent, SettleTimer, RetryTimer, AuthFinished, StartVerification,
       Answered, appVars, Attempting
  <2> QED
    BY <1>0, <2>1
<1>3. CASE Close
  <2>1. ~Attempting' /\ report'.activated = FALSE /\ report'.error = "none"
    BY <1>3 DEF Close, NoReport, Attempting
  <2> QED
    BY <2>1, Zenon DEF Outcome!Next, Outcome!Close
<1>4. CASE Open
  <2>1. (Attempting' <=> Attempting) /\ report' = report
    BY <1>4 DEF Open, Attempting
  <2> QED
    BY <1>0, <2>1
<1>5. CASE \/ AuthFinished /\ disk.pam # "ours"
           \/ StageFails \/ ActivateWithoutTools \/ VerifiedReady
           \/ RestartNotDispatched \/ VerificationFails \/ DeadlineReached
  <2>1. Attempting
    BY <1>5 DEF AuthFinished, StageFails, ActivateWithoutTools, VerifiedReady,
       RestartNotDispatched, VerificationFails, DeadlineReached, Answered, Waiting, Attempting
  <2>2. \/ \E error : Finish(FALSE, error)
        \/ Finish(TRUE, "none")
    BY <1>5, Zenon DEF AuthFinished, StageFails, ActivateWithoutTools, VerifiedReady,
       RestartNotDispatched, VerificationFails, DeadlineReached, Fail
  <2>3. Outcome!Finish
    BY <2>1, <2>2, FinishOutcome
  <2> QED
    BY <2>3, Zenon DEF Outcome!Next
<1>6. CASE Surroundings
  <2>1. phase' = phase /\ report' = report
    BY <1>6 DEF Surroundings, AuthAnswered, AuthInstalls, PluginEnabled, ShellLoads,
       ShellStops, ShellStarts, StatusReplied, Removed, appVars
  <2> QED
    BY <1>0, <2>1 DEF Attempting
<1>7. CASE UNCHANGED vars
  BY <1>0, <1>7 DEF vars, appVars, Attempting
<1> QED
  BY <1>1, <1>2, <1>3, <1>4, <1>5, <1>6, <1>7, Zenon DEF Next, Application, Callback

(* Whoever enables the lock integration is refused at once or gets one     *)
(* answer, and between attempts the answer stays (GazeClient.cpp:          *)
(* enableLockIntegration, finishLockActivation).                           *)
THEOREM OutcomeImplemented == Spec => ImplementsOutcome
<1>1. Init => Outcome!Init
  BY DEF Init, NoReport, Outcome!Init, Attempting
<1>2. Init => TimersInvariant
  BY DEF Init, TimersInvariant, TimersAreCurrent, RestartEndsDeadline
<1> QED
  BY <1>1, <1>2, TypesHold, TimersStep, OutcomeStep, PTL
     DEF Spec, ImplementsOutcome, Outcome!Spec
=============================================================================
