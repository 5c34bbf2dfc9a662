---------------------------- MODULE LockSubscriber_proof ----------------------------
(***************************************************************************)
(* Proofs about LockSubscriber for every value of its constants: types,    *)
(* "only a verified face unlocks", "a password excludes the face", "stale  *)
(* results are ignored" and the refinement of FaceUnlockContract.          *)
(*                                                                         *)
(* FaceUnlockIsVerified is not inductive: a step from an unreachable state *)
(* that shows "success" without a verified face would break it.  SafetyInv *)
(* adds the reasons why that state is unreachable.                         *)
(***************************************************************************)
EXTENDS LockSubscriber, TLAPS

(* The subscriber's idea of an attempt and PAM's are the same.             *)
AttemptMatches ==
  /\ authenticating <=> facePam = "active"
  /\ authenticating <=> attemptGeneration # NoGeneration

(* Without its service the subscriber shows nothing, so it cannot unlock.  *)
DetachedIsUnavailable == ~Compatible => status = "unavailable"

(* An attempt that runs under a compatible lock belongs to this period.    *)
AttemptIsOwn ==
  Compatible /\ locked /\ authenticating => attemptFresh /\ ~passwordActive

SuccessIsVerified == status = "success" => locked /\ verified /\ ~passwordActive

(* While a lock period is on, nobody has ended it.                         *)
PeriodIsOpen == locked => unlockedBy = "nobody"

SafetyInv ==
  /\ AttemptMatches
  /\ DetachedIsUnavailable
  /\ AttemptIsOwn
  /\ SuccessIsVerified
  /\ PeriodIsOpen
  /\ FaceUnlockIsVerified

-----------------------------------------------------------------------------
(* Types of what the shared parts of actions set.                          *)

PamStates     == {"idle", "active", "aborting"}
WatcherStates == {"stopped", "running", "terminating"}

RestartTypes ==
  /\ lockGeneration' \in Nat /\ attemptGeneration' \in Generations
  /\ status' \in Statuses /\ presenceGeneration' \in Generations
  /\ timers' \subseteq Timers
  /\ facePam' \in PamStates /\ watcher' \in WatcherStates

(* Aborting the attempt leaves its generation and the conversation typed.  *)
LEMMA AbortTypes ==
  ASSUME facePam \in PamStates, AbortAttempt
  PROVE  attemptGeneration' \in Generations /\ facePam' \in PamStates
BY DEF AbortAttempt, ForgetAttempt, Aborted, Generations, PamStates

(* So does stopping the presence watcher for its own variables.            *)
LEMMA StopTypes ==
  ASSUME watcher \in WatcherStates, StopPresenceWatcher
  PROVE  presenceGeneration' \in Generations /\ watcher' \in WatcherStates
BY DEF StopPresenceWatcher, Terminated, Generations, WatcherStates

(* A lock generation that begins resets everything to values of its type.  *)
LEMMA BeginTypes ==
  ASSUME ValuesOK, NEW configured, NEW times \in Nat, BeginLockGeneration(configured, times)
  PROVE  RestartTypes
BY AbortTypes, StopTypes
   DEF BeginLockGeneration, ValuesOK, Timers, Statuses, RestartTypes, PamStates, WatcherStates

(* So does a lock generation that ends.                                    *)
LEMMA EndTypes ==
  ASSUME ValuesOK, EndLockGeneration
  PROVE  RestartTypes
BY AbortTypes, StopTypes
   DEF EndLockGeneration, ValuesOK, Timers, Statuses, RestartTypes, PamStates, WatcherStates

(* Going to sleep, in any presence mode and from any timer, keeps types.   *)
LEMMA SleepTypes ==
  ASSUME ValuesOK, NEW mode \in Modes, NEW fired, Sleep(mode, fired)
  PROVE  /\ status' \in Statuses /\ timers' \subseteq Timers
         /\ presenceGeneration' \in Generations /\ watcher' \in WatcherStates
BY StopTypes DEF Sleep, SleepTimers, ValuesOK, Modes, Timers, Statuses, WatcherStates

-----------------------------------------------------------------------------
(* Every step keeps the flags Boolean.                                     *)
LEMMA FlagsStep == FlagsOK /\ [Next]_vars => FlagsOK'
<1> SUFFICES ASSUME FlagsOK, [Next]_vars
             PROVE  FlagsOK'
  OBVIOUS
<1> USE DEF FlagsOK, hostVars, configVars, attemptVars, presenceVars, historyVars
<1>1. CASE LockScreen
  BY <1>1, Zenon DEF LockScreen, BeginLockGeneration, StopPresenceWatcher,
     AbortAttempt, ForgetAttempt
<1>2. CASE UnlockOtherwise
  BY <1>2, Zenon DEF UnlockOtherwise, EndLockGeneration, StopPresenceWatcher,
     AbortAttempt, ForgetAttempt
<1>3. CASE PasswordStarts
  BY <1>3, Zenon DEF PasswordStarts, StopPresenceWatcher, AbortAttempt, ForgetAttempt
<1>4. CASE PasswordEnds
  BY <1>4, Zenon DEF PasswordEnds, Sleep, StopPresenceWatcher
<1>5. ASSUME NEW next \in Services, ResolveService(next)
      PROVE  FlagsOK'
  BY <1>5, Zenon DEF ResolveService, BeginLockGeneration, StopPresenceWatcher,
     AbortAttempt, ForgetAttempt
<1>6. ASSUME NEW next \in Services, ShellChanged(next)
      PROVE  FlagsOK'
  BY <1>6, Zenon DEF ShellChanged, BeginLockGeneration, StopPresenceWatcher,
     AbortAttempt, ForgetAttempt
<1>7. CASE PamConfigLoaded
  BY <1>7, Zenon DEF PamConfigLoaded, BeginLockGeneration, StopPresenceWatcher,
     AbortAttempt, ForgetAttempt
<1>8. CASE PamConfigLoadFailed
  BY <1>8, Zenon DEF PamConfigLoadFailed, AbortAttempt, ForgetAttempt
<1>9. ASSUME NEW mode \in Modes, LoadUserConfig(mode)
      PROVE  FlagsOK'
  BY <1>9, Zenon DEF LoadUserConfig, Sleep, StopPresenceWatcher
<1>10. ASSUME NEW timer \in Timers, AttemptTimerFires(timer)
      PROVE  FlagsOK'
  BY <1>10, Zenon DEF AttemptTimerFires, StartAttempt, ForgetAttempt, Sleep,
     StopPresenceWatcher
<1>11. CASE RejectionHoldFires
  BY <1>11, Zenon DEF RejectionHoldFires, EnterSleeping, Sleep, StopPresenceWatcher
<1>12. CASE PresenceStartFires
  BY <1>12, Zenon DEF PresenceStartFires
<1>13. CASE SuccessUnlockFires
  BY <1>13, Zenon DEF SuccessUnlockFires, EndLockGeneration, StopPresenceWatcher,
     AbortAttempt, ForgetAttempt
<1>14. CASE PostUnlockWakeFires
  BY <1>14, Zenon DEF PostUnlockWakeFires
<1>15. CASE InputIdle
  BY <1>15, Zenon DEF InputIdle
<1>16. CASE InputActivity
  BY <1>16, Zenon DEF InputActivity, WakeFromPresence
<1>17. ASSUME NEW result \in Results, PamCompletes(result)
      PROVE  FlagsOK'
  BY <1>17, Zenon DEF PamCompletes, ApplyResult, ForgetAttempt, EnterSleeping, Sleep,
     StopPresenceWatcher
<1>18. CASE PamErrors
  BY <1>18, Zenon DEF PamErrors, ForgetAttempt, EnterSleeping, Sleep,
     StopPresenceWatcher
<1>19. ASSUME NEW sawMotion \in BOOLEAN, WatcherExits(sawMotion)
      PROVE  FlagsOK'
  BY <1>19, Zenon DEF WatcherExits, WakeFromPresence
<1>20. CASE UNCHANGED vars
  BY <1>20, Zenon DEF vars
<1>21. QED
  BY <1>1, <1>2, <1>3, <1>4, <1>5, <1>6, <1>7, <1>8, <1>9, <1>10, <1>11, <1>12, <1>13,
     <1>14, <1>15, <1>16, <1>17, <1>18, <1>19, <1>20 DEF Next

(* Every step keeps the other variables within their types.                *)
LEMMA ValuesStep == ValuesOK /\ [Next]_vars => ValuesOK'
<1> SUFFICES ASSUME ValuesOK, [Next]_vars
             PROVE  ValuesOK'
  OBVIOUS
<1> USE DEF ValuesOK, RestartTypes, PamStates, WatcherStates, hostVars, configVars,
            attemptVars, presenceVars, historyVars
<1>1. CASE LockScreen
  BY <1>1, BeginTypes DEF LockScreen
<1>2. CASE UnlockOtherwise
  BY <1>2, EndTypes DEF UnlockOtherwise
<1>3. CASE PasswordStarts
  BY <1>3, AbortTypes, StopTypes DEF PasswordStarts, Statuses, Timers
<1>4. CASE PasswordEnds
  BY <1>4, SleepTypes DEF PasswordEnds
<1>5. ASSUME NEW next \in Services, ResolveService(next)
      PROVE  ValuesOK'
  BY <1>5, BeginTypes DEF ResolveService, Statuses
<1>6. ASSUME NEW next \in Services, ShellChanged(next)
      PROVE  ValuesOK'
  BY <1>6, BeginTypes DEF ShellChanged, Statuses
<1>7. CASE PamConfigLoaded
  BY <1>7, BeginTypes DEF PamConfigLoaded
<1>8. CASE PamConfigLoadFailed
  BY <1>8, AbortTypes DEF PamConfigLoadFailed, Statuses
<1>9. ASSUME NEW mode \in Modes, LoadUserConfig(mode)
      PROVE  ValuesOK'
  BY <1>9, SleepTypes DEF LoadUserConfig
<1>10. ASSUME NEW timer \in Timers, AttemptTimerFires(timer)
      PROVE  ValuesOK'
  BY <1>10, SleepTypes, StopTypes DEF AttemptTimerFires, StartAttempt, ForgetAttempt, Generations, Statuses,
     Timers
<1>11. CASE RejectionHoldFires
  BY <1>11, SleepTypes DEF RejectionHoldFires, EnterSleeping
<1>12. CASE PresenceStartFires
  BY <1>12 DEF PresenceStartFires, Generations
<1>13. CASE SuccessUnlockFires
  BY <1>13, EndTypes DEF SuccessUnlockFires
<1>14. CASE PostUnlockWakeFires
  BY <1>14 DEF PostUnlockWakeFires
<1>15. CASE InputIdle
  BY <1>15 DEF InputIdle
<1>16. CASE InputActivity
  BY <1>16 DEF InputActivity, WakeFromPresence, Generations, Statuses, Timers
<1>17. ASSUME NEW result \in Results, PamCompletes(result)
      PROVE  ValuesOK'
  BY <1>17, SleepTypes DEF PamCompletes, ApplyResult, CompletedGeneration, ForgetAttempt,
     EnterSleeping, Generations, Statuses, Timers
<1>18. CASE PamErrors
  BY <1>18, SleepTypes DEF PamErrors, ForgetAttempt, EnterSleeping, Generations
<1>19. ASSUME NEW sawMotion \in BOOLEAN, WatcherExits(sawMotion)
      PROVE  ValuesOK'
  BY <1>19 DEF WatcherExits, WakeFromPresence, Generations, Statuses, Timers
<1>20. CASE UNCHANGED vars
  BY <1>20 DEF vars
<1>21. QED
  BY <1>1, <1>2, <1>3, <1>4, <1>5, <1>6, <1>7, <1>8, <1>9, <1>10, <1>11, <1>12, <1>13,
     <1>14, <1>15, <1>16, <1>17, <1>18, <1>19, <1>20 DEF Next

(* Every variable keeps its type, for every bound and whatever the         *)
(* conversations, the processes and the watched files do.                  *)
THEOREM TypeCorrect == Spec => []TypeOK
<1>1. Init => FlagsOK
  BY DEF Init, FlagsOK
<1>2. Init => ValuesOK
  BY DEF Init, ValuesOK, Services, Modes, Statuses, Timers, Generations, NoGeneration
<1>3. QED
  BY <1>1, <1>2, FlagsStep, ValuesStep, PTL DEF Spec, TypeOK

-----------------------------------------------------------------------------
(* Every step keeps the inductive invariant.                               *)
LEMMA SafetyStep == TypeOK /\ SafetyInv /\ [Next]_vars => SafetyInv'
<1> SUFFICES ASSUME TypeOK, SafetyInv, [Next]_vars
             PROVE  SafetyInv'
  OBVIOUS
<1> USE DEF TypeOK, FlagsOK, ValuesOK, SafetyInv, AttemptMatches, DetachedIsUnavailable,
            AttemptIsOwn, SuccessIsVerified, PeriodIsOpen, FaceUnlockIsVerified,
            Compatible, Ready, NoGeneration, Generations, hostVars, configVars,
            attemptVars, presenceVars, historyVars
<1>1. CASE LockScreen
  BY <1>1, SMT DEF LockScreen, BeginLockGeneration, AbortAttempt, ForgetAttempt,
     Aborted
<1>2. CASE UnlockOtherwise
  BY <1>2, SMT DEF UnlockOtherwise, EndLockGeneration, AbortAttempt, ForgetAttempt,
     Aborted
<1>3. CASE PasswordStarts
  BY <1>3, SMT DEF PasswordStarts, AbortAttempt, ForgetAttempt, Aborted
<1>4. CASE PasswordEnds
  BY <1>4, SMT DEF PasswordEnds, Sleep
<1>5. ASSUME NEW next \in Services, ResolveService(next)
      PROVE  SafetyInv'
  BY <1>5, SMT DEF ResolveService, BeginLockGeneration, AbortAttempt, ForgetAttempt,
     Aborted
<1>6. ASSUME NEW next \in Services, ShellChanged(next)
      PROVE  SafetyInv'
  BY <1>6, SMT DEF ShellChanged, BeginLockGeneration, AbortAttempt, ForgetAttempt,
     Aborted
<1>7. CASE PamConfigLoaded
  BY <1>7, SMT DEF PamConfigLoaded, BeginLockGeneration, AbortAttempt, ForgetAttempt,
     Aborted
<1>8. CASE PamConfigLoadFailed
  BY <1>8, SMT DEF PamConfigLoadFailed, AbortAttempt, ForgetAttempt, Aborted
<1>9. ASSUME NEW mode \in Modes, LoadUserConfig(mode)
      PROVE  SafetyInv'
  BY <1>9, SMT DEF LoadUserConfig, Sleep
<1>10. ASSUME NEW timer \in Timers, AttemptTimerFires(timer)
      PROVE  SafetyInv'
  BY <1>10, SMT DEF AttemptTimerFires, StartAttempt, CanStartAttempt, ForgetAttempt,
     Sleep
<1>11. CASE RejectionHoldFires
  BY <1>11, SMT DEF RejectionHoldFires, EnterSleeping, Sleep
<1>12. CASE PresenceStartFires
  BY <1>12, SMT DEF PresenceStartFires
<1>13. CASE SuccessUnlockFires
  BY <1>13, SMT DEF SuccessUnlockFires, CanFinishUnlock, EndLockGeneration,
     AbortAttempt, ForgetAttempt, Aborted
<1>14. CASE PostUnlockWakeFires
  BY <1>14, SMT DEF PostUnlockWakeFires
<1>15. CASE InputIdle
  BY <1>15, SMT DEF InputIdle
<1>16. CASE InputActivity
  BY <1>16, SMT DEF InputActivity, InputMonitorEnabled, WakeFromPresence
<1>17. ASSUME NEW result \in Results, PamCompletes(result)
      PROVE  SafetyInv'
  BY <1>17, SMT DEF PamCompletes, ApplyResult, AcceptsAttemptResult,
     CompletedGeneration, StateAfterAttempt, Results, ForgetAttempt, EnterSleeping,
     Sleep
<1>18. CASE PamErrors
  BY <1>18, SMT DEF PamErrors, CompletedGeneration, ForgetAttempt, EnterSleeping,
     Sleep
<1>19. ASSUME NEW sawMotion \in BOOLEAN, WatcherExits(sawMotion)
      PROVE  SafetyInv'
  BY <1>19, SMT DEF WatcherExits, WakeFromPresence
<1>20. CASE UNCHANGED vars
  BY <1>20, SMT DEF vars
<1>21. QED
  BY <1>1, <1>2, <1>3, <1>4, <1>5, <1>6, <1>7, <1>8, <1>9, <1>10, <1>11, <1>12, <1>13,
     <1>14, <1>15, <1>16, <1>17, <1>18, <1>19, <1>20 DEF Next

(* The inductive invariant holds in every reachable state.                 *)
THEOREM SafetyCorrect == Spec => []SafetyInv
<1>1. Init => SafetyInv
  BY DEF Init, SafetyInv, AttemptMatches, DetachedIsUnavailable, AttemptIsOwn,
         SuccessIsVerified, PeriodIsOpen, FaceUnlockIsVerified, Compatible
<1>2. QED
  BY <1>1, SafetyStep, TypeCorrect, PTL DEF Spec

(* A lock period that ends by face had a successful face conversation of   *)
(* its own, with no password after it: for any number of lock periods and  *)
(* generations, and also when aborted conversations report late.           *)
THEOREM FaceUnlockVerified == Spec => []FaceUnlockIsVerified
<1>1. SafetyInv => FaceUnlockIsVerified
  BY DEF SafetyInv
<1>2. QED
  BY <1>1, SafetyCorrect, PTL

(* No face conversation runs while a password is being verified.           *)
THEOREM PasswordExcludes == Spec => []PasswordExcludesFace
<1>1. SafetyInv => PasswordExcludesFace
  BY DEF SafetyInv, PasswordExcludesFace, AttemptIsOwn, AttemptMatches, Ready
<1>2. QED
  BY <1>1, SafetyCorrect, PTL

(* A result of an aborted conversation changes nothing: its generation was *)
(* reset, so it equals no lock generation.                                 *)
THEOREM StaleIgnored == Spec => StaleResultsIgnored
<1> DEFINE Late == facePam = "aborting"
                     /\ (PamErrors \/ \E result \in Results : PamCompletes(result))
<1>1. TypeOK /\ SafetyInv /\ Late => UNCHANGED <<status, timers, expectedGeneration>>
  <2> SUFFICES ASSUME TypeOK, SafetyInv, Late
               PROVE  UNCHANGED <<status, timers, expectedGeneration>>
    OBVIOUS
  <2>1. attemptGeneration # lockGeneration
    BY DEF TypeOK, ValuesOK, SafetyInv, AttemptMatches, NoGeneration
  <2>2. CASE PamErrors
    BY <2>1, <2>2 DEF PamErrors, CompletedGeneration
  <2>3. ASSUME NEW result \in Results, PamCompletes(result)
        PROVE  UNCHANGED <<status, timers, expectedGeneration>>
    BY <2>1, <2>3 DEF PamCompletes, ApplyResult, AcceptsAttemptResult, CompletedGeneration
  <2>4. QED
    BY <2>2, <2>3
<1>2. QED
  BY <1>1, TypeCorrect, SafetyCorrect, PTL DEF StaleResultsIgnored, Spec

-----------------------------------------------------------------------------
(* Every step is a step of the contract or changes nothing it speaks of.   *)
LEMMA ContractStep == TypeOK /\ SafetyInv /\ [Next]_vars => [Contract!Next]_(Contract!contractVars)
<1> SUFFICES ASSUME TypeOK, SafetyInv, [Next]_vars
             PROVE  [Contract!Next]_(Contract!contractVars)
  OBVIOUS
<1> USE DEF Contract!Next, hostVars, historyVars
<1>1. CASE LockScreen
  BY <1>1, Zenon DEF LockScreen, Contract!BeginPeriod
<1>2. CASE UnlockOtherwise
  BY <1>2, Zenon DEF UnlockOtherwise, Contract!UnlockByOther
<1>3. CASE PasswordStarts
  BY <1>3, Zenon DEF PasswordStarts, Contract!BeginPassword
<1>4. CASE PasswordEnds
  BY <1>4, Zenon DEF PasswordEnds, Contract!EndPassword
<1>5. ASSUME NEW next \in Services, ResolveService(next)
      PROVE  [Contract!Next]_(Contract!contractVars)
  BY <1>5, Zenon DEF ResolveService, Contract!contractVars
<1>6. ASSUME NEW next \in Services, ShellChanged(next)
      PROVE  [Contract!Next]_(Contract!contractVars)
  BY <1>6, Zenon DEF ShellChanged, Contract!contractVars
<1>7. CASE PamConfigLoaded
  BY <1>7, Zenon DEF PamConfigLoaded, Contract!contractVars
<1>8. CASE PamConfigLoadFailed
  BY <1>8, Zenon DEF PamConfigLoadFailed, Contract!contractVars
<1>9. ASSUME NEW mode \in Modes, LoadUserConfig(mode)
      PROVE  [Contract!Next]_(Contract!contractVars)
  BY <1>9, Zenon DEF LoadUserConfig, Contract!contractVars
<1>10. ASSUME NEW timer \in Timers, AttemptTimerFires(timer)
      PROVE  [Contract!Next]_(Contract!contractVars)
  BY <1>10, Zenon DEF AttemptTimerFires, Contract!contractVars
<1>11. CASE RejectionHoldFires
  BY <1>11, Zenon DEF RejectionHoldFires, Contract!contractVars
<1>12. CASE PresenceStartFires
  BY <1>12, Zenon DEF PresenceStartFires, Contract!contractVars
<1>13. CASE SuccessUnlockFires
  BY <1>13, Zenon DEF SuccessUnlockFires, SafetyInv, SuccessIsVerified, CanFinishUnlock, Contract!UnlockByFace,
     Contract!contractVars
<1>14. CASE PostUnlockWakeFires
  BY <1>14, Zenon DEF PostUnlockWakeFires, Contract!contractVars
<1>15. CASE InputIdle
  BY <1>15, Zenon DEF InputIdle, Contract!contractVars
<1>16. CASE InputActivity
  BY <1>16, Zenon DEF InputActivity, Contract!contractVars
<1>17. ASSUME NEW result \in Results, PamCompletes(result)
      PROVE  [Contract!Next]_(Contract!contractVars)
  <2> DEFINE Recognised == /\ facePam = "active" /\ result = "success"
                           /\ attemptFresh /\ locked /\ ~passwordActive
  <2>1. UNCHANGED <<locked, passwordActive, unlockedBy>>
    BY <1>17, Zenon DEF PamCompletes
  <2>2. verified' = (verified \/ Recognised)
    BY <1>17, Zenon DEF PamCompletes
  <2>3. CASE Recognised
    BY <2>1, <2>2, <2>3, Zenon DEF Contract!RecogniseFace
  <2>4. CASE ~Recognised
    <3>1. verified' = verified
      BY <2>2, <2>4, Zenon DEF TypeOK, FlagsOK
    <3>2. QED
      BY <2>1, <3>1, Zenon DEF Contract!contractVars
  <2>5. QED
    BY <2>3, <2>4
<1>18. CASE PamErrors
  BY <1>18, Zenon DEF PamErrors, Contract!contractVars
<1>19. ASSUME NEW sawMotion \in BOOLEAN, WatcherExits(sawMotion)
      PROVE  [Contract!Next]_(Contract!contractVars)
  BY <1>19, Zenon DEF WatcherExits, Contract!contractVars
<1>20. CASE UNCHANGED vars
  BY <1>20, Zenon DEF vars, Contract!contractVars
<1>21. QED
  BY <1>1, <1>2, <1>3, <1>4, <1>5, <1>6, <1>7, <1>8, <1>9, <1>10, <1>11, <1>12, <1>13,
     <1>14, <1>15, <1>16, <1>17, <1>18, <1>19, <1>20 DEF Next

(* The subscriber implements the contract, with `verified` as the grant.   *)
THEOREM ContractImplemented == Spec => ImplementsContract
<1>1. Init => Contract!Init
  BY DEF Init, Contract!Init
<1>2. QED
  BY <1>1, ContractStep, TypeCorrect, SafetyCorrect, PTL
     DEF Spec, ImplementsContract, Contract!Spec

-----------------------------------------------------------------------------
(* Progress.  Where an aborted conversation ends at once and no generation *)
(* begins mid-password, each status of a lock period has its own timers,   *)
(* and only Standby has a watcher.                                         *)

TimersFit ==
  /\ "start" \in timers <=> status = "grace"
  /\ "retry" \in timers => status \in {"waiting", "unauthorized"}
  /\ "rejectionHold" \in timers => status = "unauthorized" /\ "retry" \notin timers
  /\ "presenceRelease" \in timers => status = "waking"

AttemptFits ==
  /\ authenticating <=> status = "checking"
  /\ authenticating => attemptGeneration = lockGeneration

OnlyStandbyWatches == watcher = "running" => status = "sleeping"

(* What each status waits for is under way (NothingStranded).              *)
EventAwaited ==
  /\ status = "grace"        => "start" \in timers
  /\ status = "waiting"      => "retry" \in timers
  /\ status = "unauthorized" => timers \cap {"retry", "rejectionHold"} # {}
  /\ status = "checking"     => authenticating /\ facePam = "active"
  /\ status = "success"      => /\ "successUnlock" \in timers
                               /\ expectedGeneration = lockGeneration
  /\ status = "waking"       => \/ "presenceRelease" \in timers
                               \/ (waitingForPresenceExit /\ watcher = "terminating")
  /\ status \notin {"unavailable", "idle", "password"}

Settled == TimersFit /\ AttemptFits /\ OnlyStandbyWatches /\ EventAwaited

(* While a password is verified nothing of the face attempt is under way.  *)
Quiet ==
  /\ status = "password"
  /\ timers \cap {"start", "retry", "rejectionHold", "presenceRelease"} = {}
  /\ ~authenticating /\ watcher # "running"

(* An attempt has the camera to itself, and has lost its service if it is  *)
(* not shown.                                                              *)
AttemptIsAlone ==
  authenticating =>
    watcher # "running" /\ ((Ready /\ ~passwordActive) \/ status = "unavailable")

ProgressInv ==
  /\ facePam # "aborting"
  /\ AttemptIsAlone
  /\ Ready /\ ~passwordActive => Settled
  /\ Ready /\ passwordActive => Quiet

(* An attempt that is aborted is over.                                     *)
LEMMA AbortIsOver ==
  ASSUME ~AbortLingers, ValuesOK, AbortAttempt
  PROVE  facePam' = "idle" /\ authenticating' = FALSE
BY SMT DEF AbortAttempt, ForgetAttempt, Aborted, ValuesOK

LEMMA StopsWatching ==
  ASSUME StopPresenceWatcher
  PROVE  watcher' # "running"
BY SMT DEF StopPresenceWatcher, Terminated

(* A generation that begins waits for its start timer and nothing else.    *)
LEMMA BeginSettles ==
  ASSUME ~AbortLingers, ValuesOK, NEW times, BeginLockGeneration(pamConfigured', times),
         ~passwordActive'
  PROVE  ProgressInv'
<1>1. /\ status' = IF pamConfigured' THEN "grace" ELSE "unavailable"
      /\ timers' = IF pamConfigured' THEN {"start"} ELSE {}
      /\ AbortAttempt /\ StopPresenceWatcher
  BY Zenon DEF BeginLockGeneration
<1>2. facePam' = "idle" /\ authenticating' = FALSE /\ watcher' # "running"
  BY <1>1, AbortIsOver, StopsWatching
<1> QED
  BY <1>1, <1>2, SMT DEF ProgressInv, AttemptIsAlone, Settled, TimersFit, AttemptFits,
     OnlyStandbyWatches, EventAwaited, Ready

(* When the lock is not shown nothing is asked but of an attempt.          *)
LEMMA AttemptOver ==
  ASSUME ~Ready', facePam' # "aborting", authenticating' = FALSE
  PROVE  ProgressInv'
BY SMT DEF ProgressInv, AttemptIsAlone

LEMMA ServiceLost ==
  ASSUME ProgressInv, ~Ready', UNCHANGED <<facePam, authenticating, watcher>>,
         status' = "unavailable" \/ (status' = status /\ ~Ready)
  PROVE  ProgressInv'
BY SMT DEF ProgressInv, AttemptIsAlone

(* Standby, or the pause of the continuous mode, waits for its own timer.  *)
LEMMA SleepSettles ==
  ASSUME ValuesOK, NEW mode \in Modes, NEW fired, Sleep(mode, fired),
         ~passwordActive', facePam' # "aborting", authenticating' = FALSE,
         "start" \notin timers \ fired, "presenceRelease" \notin timers \ fired
  PROVE  ProgressInv'
<1>1. /\ status' = IF mode = "continuous" THEN "waiting" ELSE "sleeping"
      /\ timers' = (timers \ (fired \cup {"retry", "rejectionHold", "presenceStart"}))
                     \cup SleepTimers(mode)
      /\ StopPresenceWatcher
  BY Zenon DEF Sleep
<1>2. watcher' # "running"
  BY <1>1, StopsWatching
<1>3. /\ mode = "continuous" => SleepTimers(mode) = {"retry"}
      /\ mode # "continuous" => SleepTimers(mode) \subseteq {"presenceStart"}
  BY SMT DEF SleepTimers, Modes
<1>4. /\ "start" \notin timers' /\ "presenceRelease" \notin timers' /\ "rejectionHold" \notin timers'
      /\ "retry" \in timers' <=> mode = "continuous"
  BY <1>1, <1>3, SMT
<1> QED
  BY <1>1, <1>2, <1>4, SMT DEF ProgressInv, AttemptIsAlone, Settled, TimersFit, AttemptFits,
     OnlyStandbyWatches, EventAwaited

LEMMA ProgressStep ==
  ASSUME ~AbortLingers, ~BeginsMidPassword,
         TypeOK, TypeOK', SafetyInv, SafetyInv', ProgressInv, [Next]_vars
  PROVE  ProgressInv'
<1>0. /\ FlagsOK /\ ValuesOK /\ FlagsOK' /\ ValuesOK'
      /\ authenticating <=> facePam = "active"
      /\ facePam # "aborting" /\ facePam \in {"idle", "active", "aborting"}
      /\ authenticating \in BOOLEAN /\ authenticating' \in BOOLEAN
  BY DEF TypeOK, FlagsOK, ValuesOK, SafetyInv, AttemptMatches, ProgressInv
<1> USE DEF hostVars, configVars, attemptVars, presenceVars, historyVars
<1>1. CASE LockScreen
  <2>1. CASE Compatible /\ BeginLockGeneration(pamConfigured, 1)
    <3>1. pamConfigured' = pamConfigured /\ passwordActive' = passwordActive /\ ~passwordActive
      BY <1>1, Zenon DEF LockScreen
    <3>2. BeginLockGeneration(pamConfigured', 1) /\ ~passwordActive'
      BY <2>1, <3>1, Zenon
    <3> QED
      BY <1>0, <3>2, BeginSettles
  <2>2. CASE ~Compatible
    <3>1. ~Ready /\ ~Ready' /\ UNCHANGED <<facePam, authenticating, watcher, status>>
      BY <1>1, <2>2, Zenon DEF LockScreen, Ready, Compatible
    <3> QED
      BY <3>1, ServiceLost, Zenon
  <2> QED
    BY <1>1, <2>1, <2>2, Zenon DEF LockScreen
<1>2. CASE UnlockOtherwise
  <2>1. locked' = FALSE /\ ~Ready'
    BY <1>2, Zenon DEF UnlockOtherwise, Ready
  <2>2. CASE EndLockGeneration
    BY <1>0, <2>1, <2>2, AbortIsOver, AttemptOver, SMT DEF EndLockGeneration
  <2>3. CASE ~Compatible
    <3>1. ~Ready /\ UNCHANGED <<facePam, authenticating, watcher, status>>
      BY <1>2, <2>3, Zenon DEF UnlockOtherwise, Ready
    <3> QED
      BY <2>1, <3>1, ServiceLost, Zenon
  <2> QED
    BY <1>2, <2>2, <2>3, Zenon DEF UnlockOtherwise
<1>3. CASE PasswordStarts
  <2>1. CASE Compatible
    <3>1. /\ AbortAttempt /\ StopPresenceWatcher
          /\ timers' = timers \cap {"postUnlockWake"} /\ passwordActive' = TRUE
          /\ status' = "password"
      BY <1>3, <2>1, Zenon DEF PasswordStarts
    <3>2. facePam' = "idle" /\ authenticating' = FALSE /\ watcher' # "running"
      BY <1>0, <3>1, AbortIsOver, StopsWatching
    <3> QED
      BY <3>1, <3>2, SMT DEF ProgressInv, AttemptIsAlone, Quiet
  <2>2. CASE ~Compatible
    <3>1. ~Ready /\ ~Ready' /\ UNCHANGED <<facePam, authenticating, watcher, status>>
      BY <1>3, <2>2, Zenon DEF PasswordStarts, Ready, Compatible
    <3> QED
      BY <3>1, ServiceLost, Zenon
  <2> QED
    BY <2>1, <2>2
<1>4. CASE PasswordEnds
  <2>1. /\ passwordActive /\ passwordActive' = FALSE
        /\ UNCHANGED <<service, locked, pamConfigured, presenceMode, authenticating, facePam>>
        /\ Ready' <=> Ready
    BY <1>4, Zenon DEF PasswordEnds, Ready, Compatible
  <2>2. CASE Ready /\ Sleep(presenceMode, {})
    <3>1. Quiet
      BY <2>1, <2>2 DEF ProgressInv
    <3>2. /\ "start" \notin timers \ {} /\ "presenceRelease" \notin timers \ {}
          /\ authenticating' = FALSE /\ facePam' # "aborting" /\ ~passwordActive'
      BY <1>0, <2>1, <3>1, SMT DEF Quiet
    <3>3. presenceMode \in Modes
      BY <1>0 DEF ValuesOK
    <3> QED
      BY <1>0, <2>2, <3>2, <3>3, SleepSettles, Zenon
  <2>3. CASE ~Ready /\ UNCHANGED <<status, presenceVars>>
    BY <2>1, <2>3, ServiceLost, Zenon
  <2> QED
    BY <1>4, <2>2, <2>3, Zenon DEF PasswordEnds
<1>5. ASSUME NEW next \in Services, ResolveService(next) \/ ShellChanged(next)
      PROVE  ProgressInv'
  <2>1. UNCHANGED <<locked, passwordActive, pamConfigured>> /\ service' = next
    BY <1>5, Zenon DEF ResolveService, ShellChanged
  <2>2. ASSUME NEW times, MayBegin, BeginLockGeneration(pamConfigured, times) PROVE ProgressInv'
    <3>1. BeginLockGeneration(pamConfigured', times) /\ ~passwordActive'
      BY <2>1, <2>2, Zenon DEF MayBegin
    <3> QED
      BY <1>0, <3>1, BeginSettles
  <2>3. ASSUME ~(next = "compatible" /\ locked), status' = "unavailable" \/ (status' = status /\ next = service),
               UNCHANGED <<authenticating, facePam, watcher>>
        PROVE  ProgressInv'
    <3>1. ~Ready' /\ (next = service => ~Ready)
      BY <2>1, <2>3, Zenon DEF Ready, Compatible
    <3> QED
      BY <2>3, <3>1, ServiceLost, Zenon
  <2> QED
    BY <1>5, <2>2, <2>3, Zenon DEF ResolveService, ShellChanged
<1>7. CASE PamConfigLoaded
  <2>1. UNCHANGED <<service, locked, passwordActive>> /\ pamConfigured' = TRUE
    BY <1>7, Zenon DEF PamConfigLoaded
  <2>2. CASE MayBegin /\ BeginLockGeneration(TRUE, 1)
    <3>1. BeginLockGeneration(pamConfigured', 1) /\ ~passwordActive'
      BY <2>1, <2>2, Zenon DEF MayBegin
    <3> QED
      BY <1>0, <3>1, BeginSettles
  <2>3. CASE ~(Compatible /\ locked) /\ UNCHANGED <<presenceVars, attemptVars, status>>
    <3>1. ~Ready' /\ ~Ready
      BY <2>1, <2>3, Zenon DEF Ready, Compatible
    <3> QED
      BY <2>3, <3>1, ServiceLost, Zenon
  <2> QED
    BY <1>7, <2>2, <2>3, Zenon DEF PamConfigLoaded
<1>8. CASE PamConfigLoadFailed
  <2>1. ~Ready' /\ AbortAttempt
    BY <1>8, Zenon DEF PamConfigLoadFailed, Ready
  <2> QED
    BY <1>0, <2>1, AbortIsOver, AttemptOver, SMT
<1>9. ASSUME NEW mode \in Modes, LoadUserConfig(mode)
      PROVE  ProgressInv'
  <2>1. /\ UNCHANGED <<hostVars, pamConfigured, lockGeneration, attemptVars, expectedGeneration>>
        /\ Ready' <=> Ready
    BY <1>9, Zenon DEF LoadUserConfig, Ready, Compatible
  <2>2. CASE Ready /\ status = "sleeping" /\ ~passwordActive /\ Sleep(mode, {})
    <3>1. Settled
      BY <2>2 DEF ProgressInv
    <3>2. /\ "start" \notin timers \ {} /\ "presenceRelease" \notin timers \ {}
          /\ authenticating' = FALSE /\ facePam' # "aborting" /\ ~passwordActive'
      BY <1>0, <2>1, <2>2, <3>1, SMT DEF Settled, TimersFit, AttemptFits
    <3> QED
      BY <1>0, <2>2, <3>2, SleepSettles, Zenon
  <2>3. CASE UNCHANGED <<status, presenceVars, timers>>
    BY <2>1, <2>3, SMT DEF ProgressInv, AttemptIsAlone, Settled, TimersFit, AttemptFits,
       OnlyStandbyWatches, EventAwaited, Quiet
  <2> QED
    BY <1>9, <2>2, <2>3, Zenon DEF LoadUserConfig, Ready
<1>10. ASSUME NEW timer \in Timers, AttemptTimerFires(timer)
      PROVE  ProgressInv'
  <2>1. /\ timer \in {"start", "retry", "presenceRelease"} /\ timer \in timers /\ StartAttempt(timer)
        /\ UNCHANGED <<hostVars, configVars, lockGeneration, expectedGeneration>>
        /\ Ready' <=> Ready
    BY <1>10, Zenon DEF AttemptTimerFires, Ready, Compatible
  <2>2. CASE ~(Ready /\ ~passwordActive)
    <3>1. timers' = timers \ {timer} /\ UNCHANGED <<attemptVars, presenceVars, status>>
      BY <2>1, <2>2, Zenon DEF StartAttempt, CanStartAttempt
    <3> QED
      BY <2>1, <2>2, <3>1, SMT DEF ProgressInv, AttemptIsAlone, Quiet
  <2>3. CASE Ready /\ ~passwordActive
    <3>1. Settled
      BY <2>3 DEF ProgressInv
    <3>2. status # "checking"
      BY <2>1, <3>1, SMT DEF Settled, TimersFit
    <3>3. authenticating = FALSE /\ facePam = "idle" /\ CanStartAttempt
      BY <1>0, <2>3, <3>1, <3>2, SMT DEF Settled, AttemptFits, CanStartAttempt
    <3>4. /\ "start" \in timers => timer = "start"
          /\ "presenceRelease" \in timers => timer = "presenceRelease"
          /\ "retry" \in timers => timer = "retry"
          /\ "rejectionHold" \in timers => FALSE
      BY <2>1, <3>1, SMT DEF Settled, TimersFit
    <3>5. CASE /\ authenticating' = TRUE /\ attemptGeneration' = lockGeneration /\ facePam' = "active"
               /\ status' = "checking" /\ StopPresenceWatcher
               /\ timers' = timers \ {timer, "presenceStart"}
      <4>1. watcher' # "running"
        BY <3>5, StopsWatching
      <4> QED
        BY <2>1, <2>3, <3>4, <3>5, <4>1, SMT DEF ProgressInv, AttemptIsAlone, Settled, TimersFit,
           AttemptFits, OnlyStandbyWatches, EventAwaited
    <3>6. CASE ForgetAttempt /\ Sleep(presenceMode, {timer}) /\ UNCHANGED facePam
      <4>1. /\ authenticating' = FALSE /\ presenceMode \in Modes
            /\ facePam' # "aborting" /\ ~passwordActive'
        BY <1>0, <2>1, <2>3, <3>6, SMT DEF ForgetAttempt, ValuesOK
      <4>2. "start" \notin timers \ {timer} /\ "presenceRelease" \notin timers \ {timer}
        BY <3>4
      <4> QED
        BY <1>0, <3>6, <4>1, <4>2, SleepSettles, Zenon
    <3> QED
      BY <2>1, <3>3, <3>5, <3>6, Zenon DEF StartAttempt
  <2> QED
    BY <2>2, <2>3
<1>11. CASE RejectionHoldFires
  <2>1. /\ "rejectionHold" \in timers /\ EnterSleeping({"rejectionHold"})
        /\ UNCHANGED <<hostVars, configVars, lockGeneration, attemptVars, expectedGeneration>>
        /\ Ready' <=> Ready
    BY <1>11, Zenon DEF RejectionHoldFires, Ready, Compatible
  <2>2. CASE Ready /\ ~passwordActive /\ Sleep(presenceMode, {"rejectionHold"})
    <3>1. Settled
      BY <2>2 DEF ProgressInv
    <3>2. /\ "start" \notin timers \ {"rejectionHold"}
          /\ "presenceRelease" \notin timers \ {"rejectionHold"}
          /\ authenticating' = FALSE /\ facePam' # "aborting" /\ ~passwordActive'
      BY <1>0, <2>1, <2>2, <3>1, SMT DEF Settled, TimersFit, AttemptFits
    <3>3. presenceMode \in Modes
      BY <1>0 DEF ValuesOK
    <3> QED
      BY <1>0, <2>2, <3>2, <3>3, SleepSettles, Zenon
  <2>3. CASE /\ ~(Ready /\ ~passwordActive)
             /\ timers' = timers \ {"rejectionHold"} /\ UNCHANGED <<status, presenceVars>>
    BY <2>1, <2>3, SMT DEF ProgressInv, AttemptIsAlone, Quiet
  <2> QED
    BY <2>1, <2>2, <2>3, Zenon DEF EnterSleeping
<1>12. CASE PresenceStartFires
  <2>1. /\ timers' = timers \ {"presenceStart"}
        /\ UNCHANGED <<hostVars, configVars, attemptVars, waitingForPresenceExit, lockGeneration,
                       status, expectedGeneration>>
        /\ watcher' = watcher \/ (status = "sleeping" /\ ~passwordActive)
        /\ Ready' <=> Ready
    BY <1>12, Zenon DEF PresenceStartFires, CanStartPresence, Ready, Compatible
  <2>2. authenticating => status # "sleeping"
    BY SMT DEF ProgressInv, AttemptIsAlone, Settled, AttemptFits
  <2> QED
    BY <2>1, <2>2, SMT DEF ProgressInv, AttemptIsAlone, Settled, TimersFit, AttemptFits,
       OnlyStandbyWatches, EventAwaited, Quiet
<1>13. CASE SuccessUnlockFires
  <2>1. CASE locked' = FALSE /\ EndLockGeneration
    BY <1>0, <2>1, AbortIsOver, AttemptOver, SMT DEF EndLockGeneration, Ready
  <2>2. CASE /\ ~(Compatible /\ CanFinishUnlock) /\ timers' = timers \ {"successUnlock"}
             /\ UNCHANGED <<locked, lockGeneration, presenceVars, attemptVars, status>>
    <3>1. UNCHANGED <<service, passwordActive, pamConfigured, expectedGeneration>> /\ (Ready' <=> Ready)
      BY <1>13, <2>2, Zenon DEF SuccessUnlockFires, Ready, Compatible
    <3>2. Ready /\ ~passwordActive /\ Settled => status # "success"
      BY <2>2, SMT DEF CanFinishUnlock, Ready, Settled, EventAwaited
    <3> QED
      BY <2>2, <3>1, <3>2, SMT DEF ProgressInv, AttemptIsAlone, Settled, TimersFit, AttemptFits,
         OnlyStandbyWatches, EventAwaited, Quiet
  <2> QED
    BY <1>13, <2>1, <2>2, Zenon DEF SuccessUnlockFires
<1>14. CASE PostUnlockWakeFires \/ InputIdle
  <2>1. /\ timers' = timers \/ timers' = timers \ {"postUnlockWake"}
        /\ UNCHANGED <<hostVars, configVars, attemptVars, presenceVars, lockGeneration, status,
                       expectedGeneration>>
        /\ Ready' <=> Ready
    <3>1. CASE PostUnlockWakeFires
      BY <3>1, Zenon DEF PostUnlockWakeFires, Ready, Compatible
    <3>2. CASE InputIdle
      BY <3>2, Zenon DEF InputIdle, Ready, Compatible
    <3> QED
      BY <1>14, <3>1, <3>2
  <2> QED
    BY <2>1, SMT DEF ProgressInv, AttemptIsAlone, Settled, TimersFit, AttemptFits,
       OnlyStandbyWatches, EventAwaited, Quiet
<1>16. CASE InputActivity
  <2>1. /\ Ready /\ status = "sleeping" /\ ~passwordActive /\ status' = "waking"
        /\ UNCHANGED <<hostVars, configVars, attemptVars, lockGeneration, expectedGeneration>>
        /\ Ready' <=> Ready
    BY <1>16, Zenon DEF InputActivity, InputMonitorEnabled, CanWake, WakeFromPresence, Ready, Compatible
  <2>2. \/ /\ waitingForPresenceExit' = TRUE /\ watcher' = "terminating"
           /\ timers' = timers \ {"presenceStart"}
        \/ /\ watcher = "stopped" /\ timers' = (timers \ {"presenceStart"}) \cup {"presenceRelease"}
           /\ UNCHANGED <<waitingForPresenceExit, watcher>>
    BY <1>16, Zenon DEF InputActivity
  <2>3. Settled
    BY <2>1 DEF ProgressInv
  <2> QED
    BY <1>0, <2>1, <2>2, <2>3, SMT DEF ProgressInv, AttemptIsAlone, Settled, TimersFit, AttemptFits,
       OnlyStandbyWatches, EventAwaited
<1>17. ASSUME NEW result \in Results, PamCompletes(result)
      PROVE  ProgressInv'
  <2>1. /\ facePam # "idle" /\ facePam' = "idle" /\ authenticating' = FALSE /\ ApplyResult(result)
        /\ UNCHANGED <<hostVars, configVars, lockGeneration>>
        /\ Ready' <=> Ready
    BY <1>17, Zenon DEF PamCompletes, ForgetAttempt, Ready, Compatible
  <2>2. CASE ~Ready
    <3>1. ~Ready' /\ authenticating' = FALSE
      BY <2>1, <2>2
    <3>2. facePam' # "aborting"
      BY <2>1, SMT
    <3> QED
      BY <3>1, <3>2, AttemptOver, Zenon
  <2>3. CASE Ready
    <3>1. /\ authenticating /\ ~passwordActive /\ Settled /\ status = "checking"
          /\ attemptGeneration = lockGeneration
      BY <1>0, <2>1, <2>3, SMT DEF ProgressInv, Quiet, Settled, AttemptFits
    <3>2. Compatible /\ AcceptsAttemptResult(CompletedGeneration)
      BY <2>3, <3>1, Zenon DEF Ready, AcceptsAttemptResult, CompletedGeneration
    <3>3. /\ timers \cap {"start", "retry", "rejectionHold", "presenceRelease"} = {}
          /\ watcher # "running"
      BY <3>1, SMT DEF Settled, TimersFit, OnlyStandbyWatches
    <3>4. CASE /\ status' = "success" /\ expectedGeneration' = CompletedGeneration
               /\ timers' = timers \cup {"successUnlock"} /\ UNCHANGED presenceVars
      BY <2>1, <2>3, <3>1, <3>3, <3>4, SMT DEF ProgressInv, AttemptIsAlone, Settled, TimersFit,
         AttemptFits, OnlyStandbyWatches, EventAwaited, CompletedGeneration
    <3>5. CASE /\ status' = "unauthorized" /\ UNCHANGED presenceVars
               /\ \/ timers' = timers \cup {"retry"}
                  \/ timers' = timers \cup {"rejectionHold"}
      BY <2>1, <2>3, <3>1, <3>3, <3>5, SMT DEF ProgressInv, AttemptIsAlone, Settled, TimersFit,
         AttemptFits, OnlyStandbyWatches, EventAwaited
    <3>6. CASE EnterSleeping({})
      <4>1. Sleep(presenceMode, {}) /\ presenceMode \in Modes
        BY <1>0, <2>3, <3>1, <3>6, Zenon DEF EnterSleeping, ValuesOK
      <4>2. /\ "start" \notin timers \ {} /\ "presenceRelease" \notin timers \ {}
            /\ facePam' # "aborting" /\ ~passwordActive'
        BY <2>1, <3>1, <3>3
      <4> QED
        BY <1>0, <2>1, <4>1, <4>2, SleepSettles, Zenon
    <3> QED
      BY <2>1, <3>2, <3>4, <3>5, <3>6, Zenon DEF ApplyResult
  <2> QED
    BY <2>2, <2>3
<1>18. CASE PamErrors
  <2>1. /\ facePam # "idle" /\ facePam' = "idle" /\ authenticating' = FALSE
        /\ UNCHANGED <<hostVars, configVars, lockGeneration>>
        /\ Ready' <=> Ready
        /\ CompletedGeneration = lockGeneration => EnterSleeping({})
    BY <1>18, Zenon DEF PamErrors, ForgetAttempt, Ready, Compatible
  <2>2. CASE ~Ready
    <3>1. ~Ready' /\ authenticating' = FALSE
      BY <2>1, <2>2
    <3>2. facePam' # "aborting"
      BY <2>1, SMT
    <3> QED
      BY <3>1, <3>2, AttemptOver, Zenon
  <2>3. CASE Ready
    <3>1. /\ authenticating /\ ~passwordActive /\ Settled /\ status = "checking"
          /\ attemptGeneration = lockGeneration
      BY <1>0, <2>1, <2>3, SMT DEF ProgressInv, Quiet, Settled, AttemptFits
    <3>2. Sleep(presenceMode, {}) /\ presenceMode \in Modes
      BY <1>0, <2>1, <2>3, <3>1, Zenon DEF CompletedGeneration, EnterSleeping, ValuesOK
    <3>3. /\ "start" \notin timers \ {} /\ "presenceRelease" \notin timers \ {}
          /\ facePam' # "aborting" /\ ~passwordActive'
      BY <2>1, <3>1, SMT DEF Settled, TimersFit
    <3> QED
      BY <1>0, <2>1, <3>2, <3>3, SleepSettles, Zenon
  <2> QED
    BY <2>2, <2>3
<1>19. ASSUME NEW sawMotion \in BOOLEAN, WatcherExits(sawMotion)
      PROVE  ProgressInv'
  <2>1. /\ watcher' = "stopped" /\ watcher' # "running"
        /\ UNCHANGED <<hostVars, configVars, attemptVars, lockGeneration, expectedGeneration>>
        /\ Ready' <=> Ready
    BY <1>19, Zenon DEF WatcherExits, Ready, Compatible
  <2>2. CASE /\ status = "waking" /\ status' = status /\ timers' = timers \cup {"presenceRelease"}
    BY <2>1, <2>2, SMT DEF ProgressInv, AttemptIsAlone, Settled, TimersFit, AttemptFits,
       OnlyStandbyWatches, EventAwaited, Quiet
  <2>3. CASE /\ status = "sleeping" /\ ~passwordActive /\ status' = "waking"
             /\ timers' = (timers \ {"presenceStart"}) \cup {"presenceRelease"}
    BY <2>1, <2>3, SMT DEF ProgressInv, AttemptIsAlone, Settled, TimersFit, AttemptFits,
       OnlyStandbyWatches, EventAwaited
  <2>4. CASE ~ExitEndsWait /\ UNCHANGED <<status, timers, waitingForPresenceExit>>
    BY <2>1, <2>4, SMT DEF ProgressInv, AttemptIsAlone, Settled, TimersFit, AttemptFits,
       OnlyStandbyWatches, EventAwaited, Quiet, ExitEndsWait
  <2> QED
    BY <1>19, <2>2, <2>3, <2>4, Zenon DEF WatcherExits, ExitEndsWait, CanWake, WakeFromPresence
<1>20. CASE UNCHANGED vars
  BY <1>20, SMT DEF vars, ProgressInv, AttemptIsAlone, Settled, TimersFit, AttemptFits,
     OnlyStandbyWatches, EventAwaited, Quiet, Ready, Compatible
<1> QED
  BY <1>1, <1>2, <1>3, <1>4, <1>5, <1>7, <1>8, <1>9, <1>10, <1>11, <1>12, <1>13,
     <1>14, <1>16, <1>17, <1>18, <1>19, <1>20, Zenon DEF Next

LEMMA ProgressInit == Init => ProgressInv
BY SMT DEF Init, ProgressInv, AttemptIsAlone, Ready, Compatible

(* Every status of a lock period waits for an event that is under way: the *)
(* stop() calls of the handlers never cancel the only one, for any number  *)
(* of lock periods and in all presence modes.                              *)
THEOREM NeverStranded ==
  ASSUME ~AbortLingers, ~BeginsMidPassword
  PROVE  Spec => []NothingStranded
<1>1. TypeOK /\ TypeOK' /\ SafetyInv /\ SafetyInv' /\ ProgressInv /\ [Next]_vars => ProgressInv'
  BY ProgressStep
<1>2. ProgressInv => NothingStranded
  BY Zenon DEF ProgressInv, Settled, EventAwaited, NothingStranded
<1> QED
  BY <1>1, <1>2, ProgressInit, TypeCorrect, SafetyCorrect, PTL DEF Spec

(* The watcher and the face conversation never have the camera together.   *)
THEOREM CameraHasOneUser ==
  ASSUME ~AbortLingers, ~BeginsMidPassword
  PROVE  Spec => []OneCameraUser
<1>1. TypeOK /\ TypeOK' /\ SafetyInv /\ SafetyInv' /\ ProgressInv /\ [Next]_vars => ProgressInv'
  BY ProgressStep
<1>2. SafetyInv /\ ProgressInv => OneCameraUser
  BY Zenon DEF SafetyInv, AttemptMatches, ProgressInv, AttemptIsAlone, OneCameraUser
<1> QED
  BY <1>1, <1>2, ProgressInit, TypeCorrect, SafetyCorrect, PTL DEF Spec
=============================================================================
