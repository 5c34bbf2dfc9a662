-------------------------- MODULE PresenceWatcher_proof --------------------------
(***************************************************************************)
(* Proofs about PresenceWatcher for any pictures, threshold and bounds:    *)
(* it wakes on motion only, and the log keeps its promises with it.        *)
(*                                                                         *)
(* The loop compares each picture with one before and counts; what it      *)
(* keeps (previous, receivedFrames, motionStreak) says what WakesOnMotion  *)
(* asks of all the pictures.                                               *)
(***************************************************************************)
EXTENDS PresenceWatcher, DiagnosticLog_proof

(* What the loop keeps of the pictures.                                    *)
LoopRemembers ==
  /\ receivedFrames = Len(seen)
  /\ previous = IF seen = <<>> THEN NoPicture ELSE seen[Len(seen)]
  /\ motionStreak = IF MotionAt(Len(seen)) THEN 1 ELSE 0
  /\ result = 3 /\ ~SeesMotion(Len(seen))

(* How a pipeline has ended.                                               *)
ResultIsMotion == result = 0 <=> SeesMotion(Len(seen))

SeenTypes == seen \in Seq(Pictures) /\ result \in {0, 3, 4, 5} /\ phase \in Phases

WatchInv ==
  /\ SeenTypes
  /\ phase = "watching" => LoopRemembers
  /\ phase \in {"leaving", "returned"} => ResultIsMotion
  /\ phase = "start" => seen = <<>> /\ result = 3
  /\ phase = "opening" => ResultIsMotion /\ result = 3
  /\ phase \in {"start", "opening", "returned", "exited", "killed"} => ~camera
  /\ phase = "exited" => /\ exitCode \in {0, 10} <=> result = 0
                         /\ exitCode = 10 => fallback

-----------------------------------------------------------------------------
(* Pictures.                                                               *)

LEMMA NothingSeen ==
  ASSUME seen = <<>>
  PROVE  Len(seen) = 0 /\ ~MotionAt(Len(seen)) /\ ~SeesMotion(Len(seen))
BY EmptySeq, SMT DEF MotionAt, SeesMotion, IgnoredWarmupFrames

LEMMA NothingSeenNext ==
  ASSUME Forgotten
  PROVE  /\ seen' = <<>> /\ Len(seen)' = 0
         /\ ~MotionAt(Len(seen))' /\ ~SeesMotion(Len(seen))'
BY EmptySeq, SMT DEF Forgotten, MotionAt, SeesMotion, IgnoredWarmupFrames

(* A picture more changes nothing for those before.                        *)
LEMMA PictureAdded ==
  ASSUME seen \in Seq(Pictures), NEW picture \in Pictures, seen' = Append(seen, picture)
  PROVE  /\ Len(seen) \in Nat /\ seen' \in Seq(Pictures) /\ seen' # <<>>
         /\ Len(seen)' = Len(seen) + 1
         /\ seen'[Len(seen) + 1] = picture
         /\ \A i \in 1..Len(seen) : MotionAt(i)' <=> MotionAt(i)
<1>1. /\ Len(seen) \in Nat /\ seen' \in Seq(Pictures) /\ seen' # <<>>
      /\ Len(seen)' = Len(seen) + 1
      /\ seen'[Len(seen) + 1] = picture
      /\ \A i \in 1..Len(seen) : seen'[i] = seen[i]
  BY AppendProperties, LenProperties
<1>2. ASSUME NEW i \in 1..Len(seen) PROVE MotionAt(i)' <=> MotionAt(i)
  <2>1. CASE i > 1
    <3>1. seen'[i] = seen[i] /\ seen'[i - 1] = seen[i - 1]
      BY <1>1, <2>1, SMT
    <3> QED
      BY <3>1, Zenon DEF MotionAt
  <2>2. CASE ~(i > 1)
    BY <2>2, Zenon DEF MotionAt
  <2> QED
    BY <2>1, <2>2
<1> QED
  BY <1>1, <1>2

LEMMA StreakIsMotion ==
  ASSUME SeenTypes, LoopRemembers, PresenceWatcherAssumption,
         NEW picture \in Pictures, seen' = Append(seen, picture)
  PROVE  /\ Streak(picture) >= 2 <=> SeesMotion(Len(seen))'
         /\ Streak(picture) < 2 =>
              Streak(picture) = IF MotionAt(Len(seen))' THEN 1 ELSE 0
<1>0. PICK n \in Nat : n = Len(seen)
  BY LenProperties DEF SeenTypes
<1> DEFINE m == MotionAt(n)
           mn == MotionAt(n + 1)'
<1>1. /\ n = Len(seen) /\ seen' # <<>> /\ Len(seen)' = n + 1 /\ seen'[n + 1] = picture
      /\ \A i \in 1..n : MotionAt(i)' <=> MotionAt(i)
  BY <1>0, PictureAdded DEF SeenTypes
<1>2. MotionAt(Len(seen))' <=> mn
  BY <1>1, Zenon DEF MotionAt
<1>3. SeesMotion(Len(seen))' <=> m /\ mn
  <2>1. SeesMotion(Len(seen))' <=> \E i \in 2..n + 1 : MotionAt(i - 1)' /\ MotionAt(i)'
    BY <1>1, Zenon DEF SeesMotion
  <2>2. ~\E i \in 2..n : MotionAt(i - 1) /\ MotionAt(i)
    BY <1>0, Zenon DEF LoopRemembers, SeesMotion
  <2>3. \A i \in 2..n : ~(MotionAt(i - 1)' /\ MotionAt(i)')
    <3> SUFFICES ASSUME NEW i \in 2..n PROVE ~(MotionAt(i - 1)' /\ MotionAt(i)')
      OBVIOUS
    <3>1. i \in 1..n /\ i - 1 \in 1..n
      BY <1>1, SMT
    <3> QED
      BY <1>1, <2>2, <3>1, Zenon
  <2>4. ~m \/ n \in 1..n
    BY <1>1, SMT DEF MotionAt, IgnoredWarmupFrames
  <2>5. m => (MotionAt(n)' <=> m)
    BY <1>1, <2>4, Zenon
  <2>6. ASSUME m, mn PROVE \E i \in 2..n + 1 : MotionAt(i - 1)' /\ MotionAt(i)'
    <3>1. n + 1 \in 2..n + 1 /\ (n + 1) - 1 = n
      BY <1>1, <2>4, <2>6, SMT
    <3> QED
      BY <2>5, <2>6, <3>1, Zenon
  <2>7. ASSUME NEW i \in 2..n + 1, MotionAt(i - 1)', MotionAt(i)' PROVE m /\ mn
    <3>1. i = n + 1 /\ i - 1 = n
      <4>1. i \notin 2..n
        BY <2>3, <2>7, Zenon
      <4> QED
        BY <1>1, <4>1, SMT
    <3>2. MotionAt(n)' /\ mn
      BY <2>7, <3>1, Zenon
    <3>3. n \in 1..n
      BY <1>1, <3>1, SMT
    <3> QED
      BY <1>1, <3>2, <3>3, Zenon
  <2> QED
    BY <2>1, <2>6, <2>7, Zenon
<1>4. mn <=> n >= IgnoredWarmupFrames /\ n > 0 /\ Differ(picture, seen[n])
  <2>1. CASE n > 0
    <3>1. seen'[n] = seen[n]
      BY <1>0, <2>1, AppendProperties, SMT DEF SeenTypes
    <3> QED
      BY <1>1, <2>1, <3>1, SMT DEF MotionAt, IgnoredWarmupFrames
  <2>2. CASE n = 0
    BY <2>2, SMT DEF MotionAt
  <2> QED
    BY <1>1, <2>1, <2>2, SMT
<1>5. previous = NoPicture <=> n = 0
  <2>1. seen = <<>> <=> n = 0
    BY <1>0, EmptySeq, SMT DEF SeenTypes
  <2>2. n > 0 => seen[n] \in Pictures
    BY <1>0, ElementOfSeq, SMT DEF SeenTypes
  <2> QED
    BY <1>1, <2>1, <2>2, SMT DEF LoopRemembers, PresenceWatcherAssumption
<1>6. n > 0 => previous = seen[n]
  BY <1>0, EmptySeq, SMT DEF LoopRemembers, SeenTypes
<1>7. receivedFrames = n /\ motionStreak = IF m THEN 1 ELSE 0
  BY <1>0, Zenon DEF LoopRemembers
<1>8. m => n > IgnoredWarmupFrames
  BY Zenon DEF MotionAt
<1>9. CASE n < IgnoredWarmupFrames \/ n = 0
  <2>1. Streak(picture) = motionStreak
    BY <1>1, <1>5, <1>7, <1>9, SMT DEF Streak, IgnoredWarmupFrames
  <2>2. ~m /\ ~mn
    BY <1>1, <1>4, <1>8, <1>9, SMT DEF IgnoredWarmupFrames
  <2>3. Streak(picture) = 0
    BY <1>7, <2>1, <2>2, Zenon
  <2> QED
    BY <1>2, <1>3, <2>2, <2>3, SMT
<1>10. CASE n >= IgnoredWarmupFrames /\ n > 0
  <2>1. Streak(picture) = IF Differ(picture, seen[n]) THEN motionStreak + 1 ELSE 0
    BY <1>1, <1>5, <1>6, <1>7, <1>10, SMT DEF Streak, IgnoredWarmupFrames
  <2>2. mn <=> Differ(picture, seen[n])
    BY <1>4, <1>10, Zenon
  <2>3. Streak(picture) = IF mn THEN (IF m THEN 2 ELSE 1) ELSE 0
    <3>1. CASE mn
      <4>1. Streak(picture) = motionStreak + 1
        BY <2>1, <2>2, <3>1, Zenon
      <4> QED
        BY <1>7, <3>1, <4>1, SMT
    <3>2. CASE ~mn
      BY <2>1, <2>2, <3>2, Zenon
    <3> QED
      BY <3>1, <3>2
  <2> QED
    BY <1>2, <1>3, <2>3, SMT
<1>11. n < IgnoredWarmupFrames \/ n = 0 \/ (n >= IgnoredWarmupFrames /\ n > 0)
  BY SMT DEF IgnoredWarmupFrames
<1> QED
  BY <1>9, <1>10, <1>11, Zenon

-----------------------------------------------------------------------------
(* The watcher's steps.                                                    *)

LEMMA WatchInit == Init => WatchInv
<1> SUFFICES ASSUME Init PROVE WatchInv
  OBVIOUS
<1>1. SeenTypes
  BY EmptySeq, SMT DEF Init, SeenTypes, Phases
<1> QED
  BY <1>1, SMT DEF Init, WatchInv

LEMMA FrameKeepsInv ==
  ASSUME PresenceWatcherAssumption, WatchInv, NEW picture \in Pictures, Frame(picture)
  PROVE  WatchInv'
<1>0. /\ SeenTypes /\ LoopRemembers /\ phase = "watching"
      /\ seen' = Append(seen, picture) /\ exitCode' = exitCode /\ camera' = camera
      /\ receivedFrames' = receivedFrames + 1 /\ motionStreak' = Streak(picture)
  BY Zenon DEF WatchInv, Frame, Polls, At
<1>1. /\ Len(seen) \in Nat /\ seen' \in Seq(Pictures) /\ seen' # <<>>
      /\ Len(seen)' = Len(seen) + 1 /\ seen'[Len(seen) + 1] = picture
  BY <1>0, PictureAdded DEF SeenTypes
<1>2. /\ Streak(picture) >= 2 <=> SeesMotion(Len(seen))'
      /\ Streak(picture) < 2 => Streak(picture) = IF MotionAt(Len(seen))' THEN 1 ELSE 0
  BY <1>0, StreakIsMotion, Zenon
<1>3. Streak(picture) \in Nat
  BY <1>0, SMT DEF Streak, LoopRemembers
<1>4. CASE Streak(picture) >= 2
  <2>1. result' = 0 /\ phase' = "leaving"
    BY <1>0, <1>4, SMT DEF Frame
  <2>2. SeenTypes'
    BY <1>1, <2>1, SMT DEF SeenTypes, Phases
  <2>3. ResultIsMotion'
    BY <1>2, <1>4, <2>1, Zenon DEF ResultIsMotion
  <2> QED
    BY <2>1, <2>2, <2>3, SMT DEF WatchInv
<1>5. CASE ~(Streak(picture) >= 2)
  <2>1. previous' = picture /\ result' = result /\ phase' = phase
    BY <1>0, <1>5, SMT DEF Frame
  <2>2. SeenTypes'
    BY <1>0, <1>1, <2>1, SMT DEF SeenTypes
  <2>3. LoopRemembers'
    <3>1. motionStreak' = (IF MotionAt(Len(seen))' THEN 1 ELSE 0) /\ ~SeesMotion(Len(seen))'
      BY <1>0, <1>2, <1>3, <1>5, SMT
    <3>2. receivedFrames' = Len(seen)'
      BY <1>0, <1>1, SMT DEF LoopRemembers
    <3>3. previous' = IF seen' = <<>> THEN NoPicture ELSE seen'[Len(seen)']
      BY <1>1, <2>1, Zenon
    <3> QED
      BY <1>0, <2>1, <3>1, <3>2, <3>3, Zenon DEF LoopRemembers
  <2> QED
    BY <1>0, <2>1, <2>2, <2>3, SMT DEF WatchInv
<1> QED
  BY <1>4, <1>5

LEMMA OpenKeepsInv == ASSUME WatchInv, OpenSource PROVE WatchInv'
<1>0. SeenTypes /\ ResultIsMotion /\ ~camera /\ result' = 3
  BY SMT DEF WatchInv, OpenSource, At
<1>1. CASE phase' = "returned" /\ UNCHANGED <<camera, loopVars, elapsed>>
  <2>1. seen' = seen /\ camera' = camera
    BY <1>1, Zenon DEF loopVars
  <2>2. SeesMotion(Len(seen))' <=> SeesMotion(Len(seen))
    BY <2>1, Zenon DEF SeesMotion, MotionAt
  <2>3. ~SeesMotion(Len(seen))
    BY SMT DEF WatchInv, OpenSource, At, ResultIsMotion
  <2>4. SeenTypes' /\ ResultIsMotion'
    BY <1>0, <1>1, <2>1, <2>2, <2>3, SMT DEF SeenTypes, Phases, ResultIsMotion
  <2> QED
    BY <1>0, <1>1, <2>1, <2>4, SMT DEF WatchInv
<1>2. CASE phase' = "watching" /\ Forgotten
  <2>1. seen' = <<>> /\ Len(seen)' = 0 /\ ~MotionAt(Len(seen))' /\ ~SeesMotion(Len(seen))'
    BY <1>2, NothingSeenNext, Zenon
  <2>2. SeenTypes'
    BY <1>0, <1>2, <2>1, EmptySeq, SMT DEF SeenTypes, Phases
  <2>3. LoopRemembers'
    <3>1. receivedFrames' = 0 /\ previous' = NoPicture /\ motionStreak' = 0
      BY <1>2, Zenon DEF Forgotten
    <3>2. motionStreak' = IF MotionAt(Len(seen))' THEN 1 ELSE 0
      BY <2>1, <3>1, SMT
    <3>3. previous' = IF seen' = <<>> THEN NoPicture ELSE seen'[Len(seen)']
      BY <2>1, <3>1, Zenon
    <3> QED
      BY <1>0, <2>1, <3>1, <3>2, <3>3, Zenon DEF LoopRemembers
  <2> QED
    BY <1>2, <2>2, <2>3, SMT DEF WatchInv
<1> QED
  BY <1>1, <1>2, Zenon DEF OpenSource

(* A step that adds no picture and begins no pipeline.                     *)
LEMMA SamePictures ==
  ASSUME seen' = seen
  PROVE  SeesMotion(Len(seen))' <=> SeesMotion(Len(seen))
BY Zenon DEF SeesMotion, MotionAt

LEMMA PollKeepsInv == ASSUME WatchInv, EmptyPoll \/ ShortFrame PROVE WatchInv'
<1>0. /\ SeenTypes /\ LoopRemembers /\ seen' = seen
      /\ receivedFrames' = receivedFrames /\ previous' = previous
      /\ motionStreak' = motionStreak
  BY Zenon DEF WatchInv, EmptyPoll, ShortFrame, Polls, At
<1>1. ~SeesMotion(Len(seen))'
  BY <1>0, SamePictures, Zenon DEF LoopRemembers
<1>2. CASE phase' = "leaving" /\ result' \in {3, 5}
  BY <1>0, <1>1, <1>2, SMT DEF WatchInv, SeenTypes, Phases, ResultIsMotion
<1>3. CASE phase' = "watching" /\ result' = result
  <2>1. LoopRemembers'
    BY <1>0, <1>1, <1>3, Zenon DEF LoopRemembers, MotionAt
  <2> QED
    <3>1. SeenTypes'
      BY <1>0, <1>3, SMT DEF SeenTypes, Phases
    <3> QED
      BY <1>3, <2>1, <3>1, SMT DEF WatchInv
<1> QED
  BY <1>0, <1>2, <1>3, SMT DEF EmptyPoll, ShortFrame, Polls, At, LoopRemembers

LEMMA LeaveKeepsInv == ASSUME WatchInv, Leave PROVE WatchInv'
<1>0. /\ SeenTypes /\ ResultIsMotion /\ seen' = seen /\ camera' = FALSE
      /\ phase' = "returned"
  BY SMT DEF WatchInv, Leave, At, LoopRemembers, ResultIsMotion, loopVars
<1>1. result' \in {0, 3, 4, 5} /\ (result' = 0 <=> result = 0)
  BY <1>0, SMT DEF Leave, SeenTypes
<1>2. ResultIsMotion'
  BY <1>0, <1>1, SamePictures, Zenon DEF ResultIsMotion
<1>3. SeenTypes'
  BY <1>0, <1>1, SMT DEF SeenTypes, Phases
<1> QED
  BY <1>0, <1>2, <1>3, SMT DEF WatchInv

LEMMA SameWatch ==
  ASSUME WatchInv, UNCHANGED <<phase, fallback, camera, loopVars, result, exitCode>>
  PROVE  WatchInv'
<1>1. SeenTypes' <=> SeenTypes
  BY Zenon DEF SeenTypes, loopVars
<1>2. LoopRemembers' <=> LoopRemembers
  BY Zenon DEF LoopRemembers, SeesMotion, MotionAt, loopVars
<1>3. ResultIsMotion' <=> ResultIsMotion
  BY Zenon DEF ResultIsMotion, SeesMotion, MotionAt, loopVars
<1> QED
  BY <1>1, <1>2, <1>3, Zenon DEF WatchInv, loopVars

LEMMA OtherStepsKeepInv ==
  ASSUME WatchInv, Start \/ FallBack \/ Return \/ KillWatcher \/ Elapses \/ LogSteps
  PROVE  WatchInv'
<1>1. CASE Start
  <2>1. seen' = seen /\ result' = result /\ camera' = camera /\ seen = <<>> /\ result = 3
        /\ ~camera /\ phase' \in {"returned", "opening"} /\ SeenTypes
    BY <1>1, SMT DEF Start, At, WatchInv, loopVars
  <2>2. ResultIsMotion'
    BY <2>1, NothingSeen, SamePictures, SMT DEF ResultIsMotion
  <2> QED
    BY <2>1, <2>2, SMT DEF WatchInv, SeenTypes, Phases
<1>2. CASE FallBack
  <2>1. seen' = seen /\ result' = result /\ camera' = camera /\ ~camera /\ result = 3
        /\ phase' = "opening" /\ ResultIsMotion /\ SeenTypes
    BY <1>2, SMT DEF FallBack, MayFallBack, At, WatchInv, loopVars
  <2>2. ResultIsMotion'
    BY <2>1, SamePictures, Zenon DEF ResultIsMotion
  <2> QED
    BY <2>1, <2>2, SMT DEF WatchInv, SeenTypes, Phases
<1>3. CASE Return
  <2>1. /\ seen' = <<>> /\ result' = result /\ camera' = camera /\ ~camera
        /\ phase' = "exited" /\ SeenTypes /\ fallback' = fallback
        /\ exitCode' = IF fallback /\ result = 0 THEN 10 ELSE result
    BY <1>3, SMT DEF Return, At, WatchInv, Forgotten, setVars
  <2>2. /\ exitCode' \in {0, 10} <=> result = 0
        /\ exitCode' = 10 => fallback
    BY <2>1, SMT DEF SeenTypes
  <2>3. SeenTypes'
    BY <2>1, EmptySeq, SMT DEF SeenTypes, Phases
  <2> QED
    BY <2>1, <2>2, <2>3, SMT DEF WatchInv
<1>4. CASE KillWatcher
  <2>1. seen' = <<>> /\ result' = result /\ camera' = FALSE /\ phase' = "killed" /\ SeenTypes
    BY <1>4, SMT DEF KillWatcher, WatchInv, Forgotten
  <2>2. SeenTypes'
    BY <2>1, EmptySeq, SMT DEF SeenTypes, Phases
  <2> QED
    BY <2>1, <2>2, SMT DEF WatchInv
<1>5. CASE Elapses \/ LogSteps
  <2>1. UNCHANGED <<phase, fallback, camera, loopVars, result, exitCode>>
    BY <1>5, Zenon DEF Elapses, LogSteps, watchVars, setVars
  <2> QED
    BY <2>1, SameWatch, Zenon
<1> QED
  BY <1>1, <1>2, <1>3, <1>4, <1>5, Zenon

LEMMA WatchStep == WatchInv /\ [Next]_vars => WatchInv'
<1>1. ASSUME WatchInv, Next PROVE WatchInv'
  BY <1>1, FrameKeepsInv, OpenKeepsInv, PollKeepsInv, LeaveKeepsInv, OtherStepsKeepInv,
     PresenceWatcherAssumption, Zenon DEF Next, WatcherStep
<1>2. ASSUME WatchInv, UNCHANGED vars PROVE WatchInv'
  BY <1>2, SameWatch, Zenon DEF vars, watchVars
<1> QED
  BY <1>1, <1>2

(* The lock screen is woken when, and only when, the camera has shown      *)
(* motion twice in a row; the camera is off when the watcher has ended     *)
(* (presence/main.cpp).                                                    *)
THEOREM MotionWakes == Spec => []WakesOnMotion
<1>1. WatchInv => WakesOnMotion
  BY SMT DEF WatchInv, WakesOnMotion, LoopRemembers, ResultIsMotion, SeenTypes, Phases, Ended
<1> QED
  BY <1>1, WatchInit, WatchStep, PTL DEF Spec

(* What the watcher does to the log is what any writer does.               *)
LEMMA StepIsLogStep == [Next]_vars => [LogNext]_logVars
<1> SUFFICES ASSUME [Next]_vars PROVE [LogNext]_logVars
  OBVIOUS
<1>1. Watcher \in Apps /\ Watcher \in Writers
  BY PresenceWatcherAssumption DEF Writers
<1>2. CASE UNCHANGED vars
  BY <1>2, Zenon DEF vars
<1>3. CASE WatcherStep
  <2>1. Record \/ UNCHANGED logVars
    BY <1>3, Zenon DEF WatcherStep, Start, OpenSource, EmptyPoll, Leave, FallBack, Return,
       ShortFrame, Frame
  <2> QED
    BY <1>1, <2>1, Zenon DEF Record, LogNext
<1>4. CASE Elapses \/ KillWatcher \/ LogSteps
  BY <1>1, <1>4, Zenon DEF Elapses, KillWatcher, LogSteps, LogNext
<1> QED
  BY <1>2, <1>3, <1>4, Zenon DEF Next

(* The watcher, which may be killed while it records, keeps the promises   *)
(* of the log (DiagnosticLog.cpp, presence/main.cpp): the files stay one   *)
(* history, in order.                                                      *)
THEOREM WatchedLogIsHistory == Spec => ImplementsHistory /\ []InOrder
<1>1. Init => LogInit
  BY Zenon DEF Init
<1>2. Spec => LogSpec
  BY <1>1, StepIsLogStep, PTL DEF Spec, LogSpec
<1> QED
  BY <1>2, LogImplementsHistory, RecordsAreInOrder
=============================================================================
