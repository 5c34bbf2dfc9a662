----------------------------- MODULE PresenceWatcher -----------------------------
(***************************************************************************)
(* The presence watcher (presence/main.cpp), which the lock subscriber     *)
(* starts on a sleeping lock screen and kills when it needs the camera:    *)
(* it ends with 0 or 10 when the camera has seen motion.  It records what  *)
(* it does in the diagnostic log and waits for the log's lock to do so.    *)
(*                                                                         *)
(* A picture is a level of brightness; two that differ by Threshold or     *)
(* more are what the two thresholds together call motion.  Reading the     *)
(* configuration and finding the device are choices.                       *)
(***************************************************************************)
EXTENDS DiagnosticLog

CONSTANTS
  Watcher,    \* its process
  Pictures,   \* the levels of brightness
  NoPicture,
  Threshold,
  MaxFrames,  \* bound: no further complete picture
  MaxEvents   \* bound: no further logger is started

ASSUME PresenceWatcherAssumption ==
  /\ Watcher \in Apps /\ Pictures \subseteq Nat /\ NoPicture \notin Pictures
  /\ Threshold \in Nat /\ MaxFrames \in Nat /\ MaxEvents \in Nat

VARIABLES
  phase,
  selection,     \* Gaze's RGB camera: the primary one, another, or none usable
  timed,         \* --timeout-ms is given
  fallback,      \* the first capture device is watched in place of the primary
  camera,        \* a pipeline runs
  previous, receivedFrames, motionStreak, emptyPolls, elapsed, result,
  exitCode,
  seen           \* history: the complete pictures of this pipeline

loopVars  == <<previous, receivedFrames, motionStreak, emptyPolls, seen>>
setVars   == <<selection, timed>>
watchVars == <<phase, setVars, fallback, camera, loopVars, elapsed, result, exitCode>>

vars == <<logVars, watchVars>>

Phases == {"start", "opening", "watching", "leaving", "returned", "exited", "killed"}
Ended  == {"exited", "killed"}

IgnoredWarmupFrames == 3

(* sourceFor(): what the configured camera is resolved to.                 *)
Selections == {"primary", "fixed", "none"}

(* Every variable stays within its type.                                   *)
TypeOK ==
  /\ LogTypeOK
  /\ phase \in Phases
  /\ selection \in Selections
  /\ timed \in BOOLEAN /\ fallback \in BOOLEAN /\ camera \in BOOLEAN /\ elapsed \in BOOLEAN
  /\ previous \in Pictures \cup {NoPicture} /\ seen \in Seq(Pictures)
  /\ receivedFrames \in Nat /\ motionStreak \in Nat /\ emptyPolls \in Nat
  /\ result \in {0, 3, 4, 5} /\ exitCode \in {0, 3, 4, 5, 10}

Init ==
  /\ LogInit
  /\ phase = "start"
  /\ selection \in Selections /\ timed \in BOOLEAN
  /\ fallback = FALSE /\ camera = FALSE
  /\ previous = NoPicture /\ seen = <<>>
  /\ receivedFrames = 0 /\ motionStreak = 0 /\ emptyPolls = 0
  /\ elapsed = FALSE /\ result = 3 /\ exitCode = 0

-----------------------------------------------------------------------------
(* The watcher is at a step of its own, and not within record().           *)
At(step) == phase = step /\ pc[Watcher] = "idle"

Record == Call(Watcher, 0)

(* A pipeline begins with nothing; what a process knows is lost with it.   *)
Forgotten ==
  /\ previous' = NoPicture /\ seen' = <<>> /\ elapsed' = FALSE
  /\ receivedFrames' = 0 /\ motionStreak' = 0 /\ emptyPolls' = 0

Start ==
  /\ At("start")
  /\ \/ selection = "none" /\ phase' = "returned" /\ Record
     \/ selection # "none" /\ phase' = "opening" /\ UNCHANGED logVars
  /\ UNCHANGED <<setVars, fallback, camera, loopVars, elapsed, result, exitCode>>

(* watchSource() up to its loop: the pipeline may not be created or may    *)
(* not start.  That it is created without the sink it names is left out.   *)
OpenSource ==
  /\ At("opening")
  /\ Record
  /\ result' = 3
  /\ \/ /\ phase' = "returned"
        /\ UNCHANGED <<camera, loopVars, elapsed>>
     \/ /\ phase' = "watching" /\ camera' = TRUE
        /\ Forgotten
  /\ UNCHANGED <<setVars, fallback, exitCode>>

Polls == At("watching") /\ ~elapsed

(* No sample in two seconds: the end of the stream, or a silent camera.    *)
EmptyPoll ==
  /\ Polls
  /\ emptyPolls' = emptyPolls + 1
  /\ \/ phase' = "leaving" /\ result' = 5
     \/ /\ phase' = IF emptyPolls + 1 >= 3 THEN "leaving" ELSE "watching"
        /\ UNCHANGED result
  /\ UNCHANGED <<logVars, setVars, fallback, camera, previous, receivedFrames, motionStreak,
                 seen, elapsed, exitCode>>

ShortFrame ==
  /\ Polls
  /\ emptyPolls' = 0
  /\ UNCHANGED <<logVars, phase, setVars, fallback, camera, previous, receivedFrames,
                 motionStreak, seen, elapsed, result, exitCode>>

Differ(a, b) == (IF a > b THEN a - b ELSE b - a) >= Threshold

\* Fault: the streak is kept over a picture without motion.
StreakFault(picture) ==
  IF previous = NoPicture \/ receivedFrames + 1 <= IgnoredWarmupFrames THEN motionStreak
  ELSE IF Differ(picture, previous) THEN motionStreak + 1 ELSE motionStreak

Streak(picture) ==
  IF previous = NoPicture \/ receivedFrames + 1 <= IgnoredWarmupFrames THEN motionStreak
  ELSE IF Differ(picture, previous) THEN motionStreak + 1 ELSE 0

(* motion_detected is recorded while the pipeline still runs.              *)
Frame(picture) ==
  /\ Polls /\ Len(seen) < MaxFrames
  /\ emptyPolls' = 0
  /\ seen' = Append(seen, picture)
  /\ receivedFrames' = receivedFrames + 1
  /\ motionStreak' = Streak(picture)
  /\ IF motionStreak' >= 2
       THEN result' = 0 /\ phase' = "leaving" /\ Record /\ UNCHANGED previous
       ELSE previous' = picture /\ UNCHANGED <<result, phase, logVars>>
  /\ UNCHANGED <<setVars, fallback, camera, elapsed, exitCode>>

Elapses ==
  /\ timed /\ ~elapsed /\ phase \in {"watching", "leaving"}
  /\ elapsed' = TRUE
  /\ UNCHANGED <<logVars, phase, setVars, fallback, camera, loopVars, result, exitCode>>

(* The rest of watchSource().                                              *)
Leave ==
  /\ At("leaving") \/ (At("watching") /\ elapsed)
  /\ result' = IF elapsed /\ result = 3 THEN 4 ELSE result
  /\ camera' = FALSE
  /\ phase' = "returned"
  /\ Record
  /\ UNCHANGED <<setVars, fallback, loopVars, elapsed, exitCode>>

MayFallBack == result = 3 /\ selection = "primary" /\ ~fallback

(* main(): firstCaptureNode() finds a device.                              *)
FallBack ==
  /\ At("returned") /\ MayFallBack
  /\ fallback' = TRUE /\ phase' = "opening"
  /\ Record
  /\ UNCHANGED <<setVars, camera, loopVars, elapsed, result, exitCode>>

(* main() returns; it has found no device if it might have fallen back.    *)
Return ==
  /\ At("returned")
  /\ exitCode' = IF fallback /\ result = 0 THEN 10 ELSE result
  /\ phase' = "exited"
  /\ Forgotten
  /\ UNCHANGED <<logVars, setVars, fallback, camera, result>>

(* The subscriber needs the camera, or the session ends.                   *)
KillWatcher ==
  /\ phase \notin Ended
  /\ Kill(Watcher)
  /\ phase' = "killed" /\ camera' = FALSE
  /\ Forgotten
  /\ UNCHANGED <<setVars, fallback, result, exitCode>>

WatcherStep ==
  \/ Start \/ OpenSource \/ EmptyPoll \/ Leave \/ FallBack \/ Return
  \/ ShortFrame \/ \E picture \in Pictures : Frame(picture)

(* The other writers of the log, and the log's part of the watcher.        *)
LogSteps ==
  /\ \/ \E w \in Writers : WriterStep(w)
     \/ \E l \in Loggers : begun < MaxEvents + sequence[Watcher] /\ LogEvent(l)
  /\ UNCHANGED watchVars

Next == WatcherStep \/ Elapses \/ KillWatcher \/ LogSteps

Spec == Init /\ [][Next]_vars

(* A poll takes two seconds at most, and a writer runs.  (That the lock is *)
(* given to those who wait in their order, as in DiagnosticLog, is only    *)
(* needed for more loggers than MaxEvents lets begin.)  The camera owes    *)
(* nothing, and time need not run out.                                     *)
LiveSpec ==
  /\ Spec
  /\ WF_vars(WatcherStep)
  /\ \A w \in Writers : WF_vars(WriterStep(w) /\ UNCHANGED watchVars)

-----------------------------------------------------------------------------
(* What motion is: in the pictures alone, and from the fourth on.          *)
MotionAt(i)    == i > IgnoredWarmupFrames /\ i > 1 /\ Differ(seen[i], seen[i - 1])
SeesMotion(n)  == \E i \in 2..n : MotionAt(i - 1) /\ MotionAt(i)

(* The watcher wakes the lock screen when, and only when, the camera has   *)
(* shown motion twice in a row, at the picture that completes it; what is  *)
(* empty or incomplete in between, the time limit, the change of the       *)
(* camera and the state of the log make no difference.  It ends with 10    *)
(* only after a fallback, and without the camera.                          *)
WakesOnMotion ==
  /\ phase = "watching" => ~SeesMotion(Len(seen))
  /\ camera \/ phase = "returned" => (result = 0 <=> SeesMotion(Len(seen)))
  /\ phase = "exited" =>
       /\ exitCode \in {0, 10} <=> result = 0
       /\ exitCode = 10 => fallback
  /\ phase \in Ended => ~camera

Sample == ShortFrame \/ \E picture \in Pictures : Frame(picture)

(* A watcher that gets no more pictures ends, for it has seen motion, or   *)
(* the stream has ended, or the camera is silent; the records it makes and *)
(* a second camera that it tries do not keep it.                           *)
WatchEnds == <>[][~Sample]_vars => <>(phase \in Ended)
=============================================================================
