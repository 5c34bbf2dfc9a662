------------------------------ MODULE Enrollment ------------------------------
(***************************************************************************)
(* Enrolling a face (app/GazeClient.cpp: beginEnrollment, cancelEnrollment *)
(* and the handlers of replies, signals and timers).  The application      *)
(* claims the Gaze daemon, asks it to start a session, follows the session *)
(* by signals, may open a preview of its own beside it, and gives the      *)
(* claim back.                                                             *)
(*                                                                         *)
(* Gaze is external.  It takes calls in order; EnrollStart waits for the   *)
(* user's authorisation while other calls are taken; a session ends by     *)
(* itself or by EnrollStop.  Replies and signals reach the application in  *)
(* the order they were sent, when its event loop runs.                     *)
(***************************************************************************)
EXTENDS Readiness

CONSTANTS
  MaxGeneration,  \* bound: no enrolment begins at it
  MaxMail         \* bound: no status is sent with as many unread

(* "refused": a claim or a session is refused, or cannot be authorised;    *)
(* "timeout": EnrollStart is not answered in its 120 seconds; "gone": Gaze *)
(* goes away and comes back.                                               *)
EnrollmentFaults == {"refused", "timeout", "gone"}

ASSUME EnrollmentAssumption == MaxGeneration \in Nat /\ MaxMail \in Nat

VARIABLES
  gaze,           \* the claim, the session to be authorised, the session
  mail,           \* replies and signals on their way to the application
  awaited,        \* generations whose EnrollStart has not been answered
  generation,     \* m_enrollmentGeneration
  claimed, enrolling, complete,
  prompt,
  preview,        \* the application's own pipeline plays
  frame,          \* there is a picture to show
  previewTimers,  \* single shots of one second
  receipt,        \* the file that says that a face is enrolled
  (* history *)
  endedBy,        \* who has ended the last enrolment
  confirmed,      \* Gaze has answered that the session of this enrolment runs
  lapsed          \* the generation whose EnrollStart has timed out; bound: one

busVars     == <<gaze, mail, awaited>>
clientVars  == <<generation, claimed, enrolling, complete, prompt, receipt>>
previewVars == <<preview, frame, previewTimers>>
pastVars    == <<endedBy, confirmed, lapsed>>

enrollmentVars == <<busVars, clientVars, previewVars, pastVars>>

Endings == {"completed", "failed"}  \* camera-failed, db-failed
Prompts == {"none", "starting", "posing", "cancelled", "Enrollment cancelled"} \cup Endings

Reply(g, valid) == [kind |-> "reply", generation |-> g, valid |-> valid]
Status(done, word) == [kind |-> "status", done |-> done, prompt |-> word]

Mails == [kind : {"reply"}, generation : Nat, valid : BOOLEAN]
         \cup [kind : {"status"}, done : BOOLEAN, prompt : Prompts]
Calls == [call : {"EnrollStart"}, generation : Nat]
         \cup [call : {"EnrollStop", "Release"}]

(* Every variable stays within its type.                                   *)
EnrollmentTypeOK ==
  /\ machine \in Machines /\ known \in Machines /\ toGaze \in Seq(Calls)
  /\ gaze \in [claimed : BOOLEAN, pending : Nat, session : Nat]
  /\ mail \in Seq(Mails) /\ awaited \subseteq 1..generation
  /\ generation \in Nat /\ prompt \in Prompts
  /\ claimed \in BOOLEAN /\ enrolling \in BOOLEAN /\ complete \in BOOLEAN
  /\ receipt \in BOOLEAN /\ preview \in BOOLEAN /\ frame \in BOOLEAN
  /\ previewTimers \subseteq 1..generation
  /\ endedBy \in {"nobody", "user", "gaze", "error"}
  /\ confirmed \in BOOLEAN /\ lapsed \in Nat

-----------------------------------------------------------------------------
(* The application.                                                        *)

Stop    == [call |-> "EnrollStop"]
Release == [call |-> "Release"]

(* releaseClaim(): what it sends; the claim is forgotten in any case.      *)
ReleaseCalls == IF claimed /\ known.service THEN <<Release>> ELSE <<>>

\* Fault: the reply is awaited under the number of the enrolment before.
BeginEnrollmentFault ==
  /\ ~enrolling /\ generation < MaxGeneration
  /\ Refresh
  /\ \/ /\ ~machine.service \/ ~machine.parts \/ "refused" \in Faults
        /\ UNCHANGED <<machine, toGaze, enrollmentVars>>
     \/ /\ machine.service /\ machine.parts
        /\ gaze' = [gaze EXCEPT !.claimed = TRUE]
        /\ generation' = generation + 1
        /\ toGaze' = <<[call |-> "EnrollStart", generation |-> generation]>>
        /\ awaited' = awaited \cup {generation}
        /\ claimed' = TRUE /\ enrolling' = TRUE /\ complete' = FALSE
        /\ prompt' = "starting" /\ frame' = FALSE
        /\ endedBy' = "nobody" /\ confirmed' = FALSE
        /\ UNCHANGED <<machine, mail, receipt, preview, previewTimers, lapsed>>

(* beginEnrollment(): refresh() and Claim are waited for, EnrollStart not. *)
BeginEnrollment ==
  /\ ~enrolling /\ generation < MaxGeneration
  /\ Refresh
  /\ \/ /\ ~machine.service \/ ~machine.parts \/ "refused" \in Faults
        /\ UNCHANGED <<machine, toGaze, enrollmentVars>>
     \/ /\ machine.service /\ machine.parts
        /\ gaze' = [gaze EXCEPT !.claimed = TRUE]
        /\ generation' = generation + 1
        /\ toGaze' = <<[call |-> "EnrollStart", generation |-> generation + 1]>>
        /\ awaited' = awaited \cup {generation + 1}
        /\ claimed' = TRUE /\ enrolling' = TRUE /\ complete' = FALSE
        /\ prompt' = "starting" /\ frame' = FALSE
        /\ endedBy' = "nobody" /\ confirmed' = FALSE
        /\ UNCHANGED <<machine, mail, receipt, preview, previewTimers, lapsed>>

\* Fault: the claim is given back without the session being stopped.
CancelEnrollmentFault ==
  /\ generation' = generation + 1
  /\ toGaze' = Sent(ReleaseCalls)
  /\ claimed' = FALSE /\ enrolling' = FALSE
  /\ prompt' = "Enrollment cancelled"
  /\ preview' = FALSE /\ frame' = FALSE
  /\ endedBy' = "user" /\ confirmed' = FALSE
  /\ UNCHANGED <<machine, known, busVars, complete, receipt, previewTimers, lapsed>>

CancelEnrollment ==
  /\ generation' = generation + 1
  /\ toGaze' = Sent((IF known.service THEN <<Stop>> ELSE <<>>) \o ReleaseCalls)
  /\ claimed' = FALSE /\ enrolling' = FALSE
  /\ prompt' = "Enrollment cancelled"
  /\ preview' = FALSE /\ frame' = FALSE
  /\ endedBy' = "user" /\ confirmed' = FALSE
  /\ UNCHANGED <<machine, known, busVars, complete, receipt, previewTimers, lapsed>>

\* Fault: a late reply stops whatever session runs.
StaleReplyFault(g, valid) ==
  /\ g # generation
  /\ toGaze' = IF valid THEN Sent(<<Stop>>) ELSE toGaze
  /\ UNCHANGED <<clientVars, previewVars, endedBy, confirmed>>

(* The pending call's watcher: a reply of an enrolment that is over stops  *)
(* the session, unless another enrolment is under way.                     *)
StaleReply(g, valid) ==
  /\ g # generation
  /\ toGaze' = IF valid /\ ~enrolling THEN Sent(<<Stop>>) ELSE toGaze
  /\ UNCHANGED <<clientVars, previewVars, endedBy, confirmed>>

\* Fault: the claim is kept when the session cannot be started.
FailedReplyFault(g, valid) ==
  /\ g = generation /\ ~valid
  /\ enrolling' = FALSE /\ preview' = FALSE /\ endedBy' = "error"
  /\ UNCHANGED <<toGaze, claimed, generation, complete, prompt, receipt, frame, previewTimers, confirmed>>

FailedReply(g, valid) ==
  /\ g = generation /\ ~valid
  /\ toGaze' = Sent(ReleaseCalls)
  /\ claimed' = FALSE /\ enrolling' = FALSE
  /\ preview' = FALSE
  /\ endedBy' = IF enrolling THEN "error" ELSE endedBy
  /\ UNCHANGED <<generation, complete, prompt, receipt, frame, previewTimers, confirmed>>

StartedReply(g, valid) ==
  /\ g = generation /\ valid
  /\ previewTimers' = previewTimers \cup {g}
  /\ confirmed' = TRUE
  /\ UNCHANGED <<toGaze, clientVars, preview, frame, endedBy>>

(* An answer that comes after its call has timed out is dropped by Qt.     *)
ReplyArrives ==
  /\ mail # <<>> /\ Head(mail).kind = "reply"
  /\ mail' = Tail(mail)
  /\ awaited' = awaited \ {Head(mail).generation}
  /\ LET g == Head(mail).generation  valid == Head(mail).valid IN
       IF g \in awaited
         THEN StaleReply(g, valid) \/ FailedReply(g, valid) \/ StartedReply(g, valid)
         ELSE UNCHANGED <<toGaze, clientVars, previewVars, endedBy, confirmed>>
  /\ UNCHANGED <<machine, known, gaze, lapsed>>

(* startParallelPreview(): Gaze's configuration may forbid it, and the     *)
(* pipeline may fail.                                                      *)
StartParallelPreview == preview' \in BOOLEAN

\* Fault: the timer does not look at the enrolment it was started for.
PreviewTimerFiresFault(g) ==
  /\ g \in previewTimers
  /\ previewTimers' = previewTimers \ {g}
  /\ IF enrolling /\ ~frame THEN StartParallelPreview ELSE UNCHANGED preview
  /\ UNCHANGED <<readinessVars, busVars, clientVars, frame, pastVars>>

(* The single shot of a confirmed session.                                 *)
PreviewTimerFires(g) ==
  /\ g \in previewTimers
  /\ previewTimers' = previewTimers \ {g}
  /\ IF g = generation /\ enrolling /\ ~frame
       THEN StartParallelPreview
       ELSE UNCHANGED preview
  /\ UNCHANGED <<readinessVars, busVars, clientVars, frame, pastVars>>

(* onPreviewFrame(), onParallelPreviewFrame().  A picture of a session     *)
(* that is over may still be on its way.                                   *)
FrameArrives ==
  /\ generation # 0
  /\ frame' = TRUE
  /\ UNCHANGED <<readinessVars, busVars, clientVars, preview, previewTimers, pastVars>>

(* onEnrollStatus(): a status does not say whose session it is about.      *)
StatusArrives ==
  /\ mail # <<>> /\ Head(mail).kind = "status"
  /\ mail' = Tail(mail)
  /\ prompt' = Head(mail).prompt
  /\ \/ /\ ~Head(mail).done
        /\ UNCHANGED <<toGaze, claimed, enrolling, complete, receipt, preview, endedBy>>
     \/ /\ Head(mail).done
        /\ enrolling' = FALSE /\ claimed' = FALSE
        /\ complete' = (Head(mail).prompt = "completed")
        /\ receipt' = (receipt \/ Head(mail).prompt = "completed")
        /\ preview' = FALSE
        /\ toGaze' = Sent(ReleaseCalls)
        /\ endedBy' = IF enrolling THEN "gaze" ELSE endedBy
  /\ UNCHANGED <<machine, known, gaze, awaited, generation, frame, previewTimers,
                 confirmed, lapsed>>

(* QtDBus gives a call up after 120 seconds.                               *)
CallTimesOut(g) ==
  /\ "timeout" \in Faults /\ lapsed = 0
  /\ g \in awaited
  /\ mail' = Append(mail, Reply(g, FALSE))
  /\ lapsed' = g
  /\ UNCHANGED <<readinessVars, gaze, awaited, clientVars, previewVars, endedBy, confirmed>>

-----------------------------------------------------------------------------
(* Gaze.                                                                   *)

GazeTakes ==
  /\ machine.service /\ toGaze # <<>>
  /\ toGaze' = Tail(toGaze)
  /\ LET call == Head(toGaze) IN
       \/ /\ call.call = "EnrollStart"
          /\ \/ /\ gaze.pending = 0 /\ gaze.session = 0
                /\ gaze' = [gaze EXCEPT !.pending = call.generation]
                /\ UNCHANGED mail
             \/ /\ gaze.pending # 0 \/ gaze.session # 0
                /\ mail' = Append(mail, Reply(call.generation, FALSE))
                /\ UNCHANGED gaze
       \/ /\ call.call = "EnrollStop"
          /\ gaze' = [gaze EXCEPT !.session = 0]
          /\ mail' = IF gaze.session = 0 THEN mail
                     ELSE Append(mail, Status(TRUE, "cancelled"))
       \/ /\ call.call = "Release"
          /\ gaze' = [gaze EXCEPT !.claimed = FALSE]
          /\ UNCHANGED mail
  /\ UNCHANGED <<machine, known, awaited, clientVars, previewVars, pastVars>>

(* The user answers the authorisation prompt of EnrollStart.               *)
GazeAnswers ==
  /\ gaze.pending # 0
  /\ \/ /\ gaze' = [claimed |-> gaze.claimed, pending |-> 0, session |-> gaze.pending]
        /\ mail' = Append(mail, Reply(gaze.pending, TRUE))
     \/ /\ "refused" \in Faults
        /\ gaze' = [gaze EXCEPT !.pending = 0]
        /\ mail' = Append(mail, Reply(gaze.pending, FALSE))
  /\ UNCHANGED <<readinessVars, awaited, clientVars, previewVars, pastVars>>

GazePoses ==
  /\ gaze.session # 0 /\ Len(mail) < MaxMail
  /\ mail' = Append(mail, Status(FALSE, "posing"))
  /\ UNCHANGED <<readinessVars, gaze, awaited, clientVars, previewVars, pastVars>>

GazeEnds ==
  /\ gaze.session # 0
  /\ \E word \in Endings : mail' = Append(mail, Status(TRUE, word))
  /\ gaze' = [gaze EXCEPT !.session = 0]
  /\ UNCHANGED <<readinessVars, awaited, clientVars, previewVars, pastVars>>

(* The bus answers the calls that Gaze leaves unanswered.                  *)
Unanswered ==
  (IF gaze.pending # 0 THEN <<Reply(gaze.pending, FALSE)>> ELSE <<>>)
  \o (IF toGaze # <<>> /\ Head(toGaze).call = "EnrollStart"
        THEN <<Reply(Head(toGaze).generation, FALSE)>> ELSE <<>>)

GazeGoes ==
  /\ "gone" \in Faults /\ machine.service
  /\ machine' = [machine EXCEPT !.service = FALSE]
  /\ toGaze' = <<>>
  /\ gaze' = [claimed |-> FALSE, pending |-> 0, session |-> 0]
  /\ mail' = mail \o Unanswered
  /\ UNCHANGED <<known, awaited, clientVars, previewVars, pastVars>>

GazeComes ==
  /\ ~machine.service /\ machine.parts
  /\ machine' = [machine EXCEPT !.service = TRUE]
  /\ UNCHANGED <<known, toGaze, enrollmentVars>>

-----------------------------------------------------------------------------
(* The window (qml/Main.qml) looks at the machine, begins a scan when none *)
(* runs and cancels one that does.  Setup says when.                       *)

EnrollmentInit ==
  /\ machine \in Machines /\ (machine.service => machine.parts)
  /\ known = machine /\ toGaze = <<>>
  /\ gaze = [claimed |-> FALSE, pending |-> 0, session |-> 0]
  /\ mail = <<>> /\ awaited = {}
  /\ generation = 0 /\ prompt = "none"
  /\ claimed = FALSE /\ enrolling = FALSE /\ complete = FALSE
  /\ receipt \in BOOLEAN
  /\ preview = FALSE /\ frame = FALSE /\ previewTimers = {}
  /\ endedBy = "nobody" /\ confirmed = FALSE /\ lapsed = 0

Messages ==
  \/ ReplyArrives \/ StatusArrives \/ FrameArrives
  \/ \E g \in previewTimers : PreviewTimerFires(g)

Gaze ==
  \/ GazeTakes \/ GazeAnswers \/ GazePoses \/ GazeEnds \/ GazeGoes \/ GazeComes
  \/ \E g \in awaited : CallTimesOut(g)

EnrollmentNext ==
  \/ BeginEnrollment
  \/ enrolling /\ CancelEnrollment
  \/ Refresh /\ UNCHANGED <<machine, toGaze, enrollmentVars>>
  \/ Messages \/ Gaze

EnrollmentSpec == EnrollmentInit /\ [][EnrollmentNext]_<<readinessVars, enrollmentVars>>

-----------------------------------------------------------------------------
(* Safety.                                                                 *)

(* Whatever is refused, late or cancelled, a claim does not outlive its    *)
(* enrolment once Gaze has taken what was sent to it (releaseClaim).       *)
ClaimIsReleased == gaze.claimed /\ toGaze = <<>> => enrolling

Delivered == toGaze = <<>> /\ mail = <<>> /\ gaze.pending = 0

(* docs/2026-08-28-initial-build.md: closing or cancelling "stops the      *)
(* walkthrough and releases its Gaze claim": when all messages have        *)
(* arrived, Gaze runs no session after the user has cancelled, unless its  *)
(* EnrollStart had been given up for lost.                                 *)
CancelledIsStopped ==
  endedBy = "user" /\ Delivered =>
    ~gaze.claimed /\ (gaze.session = 0 \/ gaze.session = lapsed)

(* Nothing that is left of an earlier enrolment stops the session of the   *)
(* present one: no EnrollStop is on its way while the application believes *)
(* that it enrols (the watcher of EnrollStart).                            *)
StopSparesNewScan == enrolling => \A i \in DOMAIN toGaze : toGaze[i] # Stop

(* The optional preview opens the camera only during an enrolment whose    *)
(* own session Gaze has confirmed (CHANGELOG 0.3: "Let Gaze establish      *)
(* enrollment capture before attaching the optional local preview").       *)
PreviewAfterCapture == preview => enrolling /\ confirmed

(* An enrolment that a status of Gaze has ended is not one that Gaze still *)
(* runs or is about to (onEnrollStatus).                                   *)
(* No run checks it: the code does not meet it (README.md, Deviations).    *)
ScanEndsWithItsSession ==
  endedBy = "gaze" => generation \notin {gaze.session, gaze.pending}
=============================================================================
