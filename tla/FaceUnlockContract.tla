---------------------------- MODULE FaceUnlockContract ----------------------------
(***************************************************************************)
(* What the lock subscriber promises the lock screen, without timers,      *)
(* generations or processes (docs/2026-08-28-initial-build.md, "Implemented *)
(* lock integration"): a lock period ends by face only after a face attempt *)
(* of that period succeeded, and a password attempt revokes that success.  *)
(***************************************************************************)
VARIABLES
  locked,          \* a lock period is on
  passwordActive,  \* a password is being verified
  granted,         \* a face was recognised in the last lock period, and
                   \* no password was entered since
  unlockedBy       \* who ended the last lock period

contractVars == <<locked, passwordActive, granted, unlockedBy>>

Init ==
  /\ locked \in BOOLEAN /\ passwordActive = FALSE
  /\ granted = FALSE /\ unlockedBy = "nobody"

BeginPeriod ==
  /\ ~locked /\ locked' = TRUE
  /\ granted' = FALSE /\ unlockedBy' = "nobody"
  /\ UNCHANGED passwordActive

RecogniseFace ==
  /\ locked /\ ~passwordActive
  /\ granted' = TRUE
  /\ UNCHANGED <<locked, passwordActive, unlockedBy>>

BeginPassword ==
  /\ locked /\ passwordActive' = TRUE
  /\ granted' = FALSE
  /\ UNCHANGED <<locked, unlockedBy>>

EndPassword ==
  /\ passwordActive /\ passwordActive' = FALSE
  /\ UNCHANGED <<locked, granted, unlockedBy>>

UnlockByFace ==
  /\ locked /\ granted /\ ~passwordActive
  /\ locked' = FALSE /\ unlockedBy' = "face"
  /\ UNCHANGED <<passwordActive, granted>>

UnlockByOther ==
  /\ locked /\ locked' = FALSE /\ unlockedBy' = "other"
  /\ UNCHANGED <<passwordActive, granted>>

Next ==
  \/ BeginPeriod \/ RecogniseFace \/ BeginPassword \/ EndPassword
  \/ UnlockByFace \/ UnlockByOther

Spec == Init /\ [][Next]_contractVars
=============================================================================
