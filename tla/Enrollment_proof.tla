--------------------------- MODULE Enrollment_proof ---------------------------
(***************************************************************************)
(* Proofs about Enrollment for any number of enrolments, of messages on    *)
(* their way, and any faults.                                              *)
(*                                                                         *)
(* Queues are looked at as sets of what is on its way.  The invariant says *)
(* who owns a claim, a session and a start: a claim that the application   *)
(* has forgotten has a Release behind it, a start that Gaze has not        *)
(* answered is awaited, and a session that the user has cancelled has an   *)
(* EnrollStop on its way or an answer that will cause one.                 *)
(***************************************************************************)
EXTENDS Enrollment, SequenceTheorems, TLAPS

Elems(s) == {s[i] : i \in 1..Len(s)}

OnTheWay == Elems(toGaze)
Unread   == Elems(mail)

IsStart(c) == c.call = "EnrollStart"

Starts  == {c \in OnTheWay : IsStart(c)}
Replies == {m \in Unread : m.kind = "reply"}

(* Types, in parts.                                                        *)
WorldTypes ==
  /\ machine \in Machines /\ known \in Machines /\ toGaze \in Seq(Calls)
  /\ gaze \in [claimed : BOOLEAN, pending : Nat, session : Nat]
  /\ mail \in Seq(Mails)
NumberTypes ==
  /\ generation \in Nat /\ awaited \subseteq 1..generation
  /\ previewTimers \subseteq 1..generation /\ lapsed \in Nat
ScreenTypes ==
  /\ prompt \in Prompts
  /\ claimed \in BOOLEAN /\ enrolling \in BOOLEAN /\ complete \in BOOLEAN
  /\ receipt \in BOOLEAN /\ preview \in BOOLEAN /\ frame \in BOOLEAN
  /\ endedBy \in {"nobody", "user", "gaze", "error"} /\ confirmed \in BOOLEAN

TypeInv == WorldTypes /\ NumberTypes /\ ScreenTypes

(* The application: a claim of its own is an enrolment of its own, the     *)
(* preview and its timer belong to one that is confirmed, and one that the *)
(* user has ended is not awaited under the present number.                 *)
ClaimIsEnrolment == claimed <=> enrolling
TimerIsConfirmed == enrolling /\ generation \in previewTimers => confirmed
UserHasEnded     == endedBy = "user" => ~enrolling /\ generation \notin awaited

ClientInv ==
  /\ ClaimIsEnrolment /\ TimerIsConfirmed /\ UserHasEnded /\ PreviewAfterCapture

(* Whatever Gaze has or is about to have, it has while it runs and the     *)
(* application knows.                                                      *)
InService ==
  gaze.claimed \/ gaze.pending # 0 \/ gaze.session # 0 \/ Starts # {} =>
    machine.service /\ known.service

NumbersAreOld ==
  /\ gaze.pending <= generation /\ gaze.session <= generation
  /\ \A c \in Starts : c.generation \in 1..generation
  /\ \A m \in Replies : m.generation \in 1..generation

(* A start that Gaze has not answered.                                     *)
Unsettled(g) == g = lapsed \/ (g \in awaited /\ \A m \in Replies : m.generation # g)

StartsAreAwaited ==
  /\ gaze.pending = 0 \/ gaze.session = 0
  /\ gaze.pending # 0 => Unsettled(gaze.pending)
  /\ \A c \in Starts : Unsettled(c.generation) /\ c.generation \notin {gaze.pending, gaze.session}

SessionIsConfirmed ==
  gaze.session \notin {0, lapsed} => \A m \in Replies : m.generation = gaze.session => m.valid

BusInv == InService /\ NumbersAreOld /\ StartsAreAwaited /\ SessionIsConfirmed

(* A start is sent when nothing else is on its way.                        *)
StartIsFirst == toGaze # <<>> => \A c \in Elems(Tail(toGaze)) : ~IsStart(c)

(* What is left of an enrolment that is over is given back and stopped.    *)
ClaimIsOnItsWay == gaze.claimed => enrolling \/ Release \in OnTheWay
StopIsStale     == enrolling => Stop \notin OnTheWay
StopIsOnItsWay ==
  endedBy = "user" /\ gaze.session \notin {0, lapsed} =>
    \/ Stop \in OnTheWay
    \/ gaze.session \in awaited /\ \E m \in Replies : m.generation = gaze.session

EnrollInv ==
  /\ TypeInv /\ ClientInv /\ BusInv /\ StartIsFirst
  /\ ClaimIsOnItsWay /\ StopIsStale /\ StopIsOnItsWay

-----------------------------------------------------------------------------
(* Queues.                                                                 *)

LEMMA ElementsAre ==
  ASSUME NEW S, NEW s \in Seq(S)
  PROVE  /\ Elems(s) \subseteq S
         /\ s = <<>> => Elems(s) = {}
BY SMT DEF Elems

LEMMA AppendElements ==
  ASSUME NEW S, NEW s \in Seq(S), NEW e \in S
  PROVE  Append(s, e) \in Seq(S) /\ Elems(Append(s, e)) = Elems(s) \cup {e}
<1>1. /\ Append(s, e) \in Seq(S) /\ Len(s) \in Nat /\ Len(Append(s, e)) = Len(s) + 1
      /\ \A i \in 1..Len(s) : Append(s, e)[i] = s[i]
      /\ Append(s, e)[Len(s) + 1] = e
  OBVIOUS
<1>2. 1..(Len(s) + 1) = 1..Len(s) \cup {Len(s) + 1}
  BY <1>1
<1> QED
  BY <1>1, <1>2, SMT DEF Elems

LEMMA ConcatElements ==
  ASSUME NEW S, NEW s \in Seq(S), NEW t \in Seq(S)
  PROVE  s \o t \in Seq(S) /\ Elems(s \o t) = Elems(s) \cup Elems(t)
<1>1. /\ s \o t \in Seq(S) /\ Len(s) \in Nat /\ Len(t) \in Nat
      /\ Len(s \o t) = Len(s) + Len(t)
      /\ \A i \in 1..Len(s) : (s \o t)[i] = s[i]
      /\ \A i \in 1..Len(t) : (s \o t)[Len(s) + i] = t[i]
  OBVIOUS
<1>2. ASSUME NEW i \in 1..(Len(s) + Len(t)), ~(i \in 1..Len(s))
      PROVE  i - Len(s) \in 1..Len(t) /\ Len(s) + (i - Len(s)) = i
  BY <1>1, <1>2
<1>3. Elems(s \o t) \subseteq Elems(s) \cup Elems(t)
  BY <1>1, <1>2, SMT DEF Elems
<1>4. Elems(s) \subseteq Elems(s \o t)
  <2> SUFFICES ASSUME NEW i \in 1..Len(s) PROVE s[i] \in Elems(s \o t)
    BY Zenon DEF Elems
  <2>1. i \in 1..Len(s \o t) /\ s[i] = (s \o t)[i]
    BY <1>1
  <2> QED
    BY <2>1, Zenon DEF Elems
<1>5. Elems(t) \subseteq Elems(s \o t)
  <2> SUFFICES ASSUME NEW i \in 1..Len(t) PROVE t[i] \in Elems(s \o t)
    BY Zenon DEF Elems
  <2>1. Len(s) + i \in 1..Len(s \o t) /\ t[i] = (s \o t)[Len(s) + i]
    BY <1>1
  <2> QED
    BY <2>1, Zenon DEF Elems
<1> QED
  BY <1>1, <1>3, <1>4, <1>5

LEMMA TailElements ==
  ASSUME NEW S, NEW s \in Seq(S), s # <<>>
  PROVE  /\ Head(s) \in S /\ Tail(s) \in Seq(S)
         /\ Elems(s) = {Head(s)} \cup Elems(Tail(s))
<1>1. /\ Head(s) \in S /\ Tail(s) \in Seq(S) /\ Len(s) \in Nat \ {0}
      /\ Len(Tail(s)) = Len(s) - 1 /\ Head(s) = s[1]
      /\ \A i \in 1..(Len(s) - 1) : Tail(s)[i] = s[i + 1]
  OBVIOUS
<1>2. ASSUME NEW i \in 1..Len(s), i # 1
      PROVE  i - 1 \in 1..(Len(s) - 1) /\ (i - 1) + 1 = i
  BY <1>1, <1>2
<1>3. Elems(s) \subseteq {Head(s)} \cup Elems(Tail(s))
  BY <1>1, <1>2, SMT DEF Elems
<1>4. {Head(s)} \cup Elems(Tail(s)) \subseteq Elems(s)
  BY <1>1, SMT DEF Elems
<1> QED
  BY <1>1, <1>3, <1>4

LEMMA TailOfConcat ==
  ASSUME NEW S, NEW s \in Seq(S), NEW t \in Seq(S), s \o t # <<>>
  PROVE  IF s = <<>> THEN Elems(Tail(s \o t)) \subseteq Elems(t)
         ELSE Elems(Tail(s \o t)) = Elems(Tail(s)) \cup Elems(t)
<1>1. CASE s = <<>>
  <2>1. s \o t = t
    BY <1>1
  <2> QED
    BY <1>1, <2>1, TailElements
<1>2. CASE s # <<>>
  <2>1. Tail(s) \in Seq(S) /\ Tail(s \o t) = Tail(s) \o t
    BY <1>2
  <2>2. \A u \in Seq(S) : Elems(u \o t) = Elems(u) \cup Elems(t)
    BY ConcatElements
  <2> QED
    BY <1>2, <2>1, <2>2
<1> QED
  BY <1>1, <1>2

(* Messages and calls.                                                     *)
LEMMA MailFields ==
  ASSUME NEW m \in Mails
  PROVE  /\ m.kind \in {"reply", "status"}
         /\ m.kind = "reply" => m.generation \in Nat /\ m.valid \in BOOLEAN
         /\ m.kind = "status" => m.done \in BOOLEAN /\ m.prompt \in Prompts
BY SMT DEF Mails

LEMMA ReplyFields ==
  ASSUME NEW g \in Nat, NEW valid \in BOOLEAN
  PROVE  /\ Reply(g, valid) \in Mails /\ Reply(g, valid).kind = "reply"
         /\ Reply(g, valid).generation = g /\ Reply(g, valid).valid = valid
BY SMT DEF Mails, Reply

LEMMA StatusFields ==
  ASSUME NEW done \in BOOLEAN, NEW word \in Prompts
  PROVE  Status(done, word) \in Mails /\ Status(done, word).kind = "status"
BY SMT DEF Mails, Status

LEMMA CallFields ==
  /\ Stop \in Calls /\ Release \in Calls /\ ~IsStart(Stop) /\ ~IsStart(Release) /\ Stop # Release
  /\ \A g \in Nat : [call |-> "EnrollStart", generation |-> g] \in Calls
  /\ \A c \in Calls :
       /\ c.call \in {"EnrollStart", "EnrollStop", "Release"}
       /\ c.call = "EnrollStop" => c = Stop
       /\ c.call = "Release" => c = Release
BY SMT DEF Calls, Stop, Release, IsStart

LEMMA StartFields == \A c \in Calls : c.call = "EnrollStart" => c.generation \in Nat
BY SMT DEF Calls

(* What the application sends when it ends something.                      *)
LEMMA Sending ==
  ASSUME toGaze \in Seq(Calls), NEW calls \in Seq({Stop, Release}), toGaze' = Sent(calls)
  PROVE  /\ toGaze' \in Seq(Calls)
         /\ OnTheWay \subseteq OnTheWay' /\ OnTheWay' \subseteq OnTheWay \cup Elems(calls)
         /\ machine.service => OnTheWay' = OnTheWay \cup Elems(calls)
         /\ StartIsFirst => StartIsFirst'
<1>1. calls \in Seq(Calls) /\ Elems(calls) \subseteq {Stop, Release}
  <2>1. {Stop, Release} \subseteq Calls
    BY CallFields
  <2> QED
    BY <2>1, ElementsAre, SeqMonotonic
<1>2. CASE toGaze' = toGaze \o calls
  <2>1. toGaze' \in Seq(Calls) /\ Elems(toGaze') = OnTheWay \cup Elems(calls)
    BY <1>1, <1>2, ConcatElements DEF OnTheWay
  <2>2. ASSUME StartIsFirst PROVE StartIsFirst'
    <3> SUFFICES ASSUME toGaze' # <<>>, NEW c \in Elems(Tail(toGaze')) PROVE ~IsStart(c)
      BY DEF StartIsFirst
    <3>1. \/ c \in Elems(calls)
          \/ toGaze # <<>> /\ c \in Elems(Tail(toGaze))
      BY <1>1, <1>2, TailOfConcat
    <3> QED
      BY <1>1, <2>2, <3>1, CallFields DEF StartIsFirst
  <2> QED
    BY <2>1, <2>2 DEF OnTheWay
<1>3. CASE toGaze' = toGaze /\ ~machine.service
  BY <1>3, SMT DEF OnTheWay, StartIsFirst
<1> QED
  BY <1>2, <1>3, Zenon DEF Sent

LEMMA ReleaseCallsAre ==
  /\ ReleaseCalls \in Seq({Stop, Release})
  /\ Elems(ReleaseCalls) = IF claimed /\ known.service THEN {Release} ELSE {}
  /\ <<>> \in Seq({Stop, Release}) /\ Elems(<<>>) = {}
  /\ <<Stop>> \in Seq({Stop, Release}) /\ Elems(<<Stop>>) = {Stop}
<1>1. ASSUME NEW e PROVE Elems(<<e>>) = {e}
  <2>1. Len(<<e>>) = 1 /\ <<e>>[1] = e /\ 1..1 = {1}
    OBVIOUS
  <2> QED
    BY <2>1, SMT DEF Elems
<1>2. Elems(<<>>) = {}
  BY SMT DEF Elems
<1>3. <<>> \in Seq({Stop, Release}) /\ <<Stop>> \in Seq({Stop, Release})
      /\ <<Release>> \in Seq({Stop, Release})
  OBVIOUS
<1> QED
  BY <1>1, <1>2, <1>3, Zenon DEF ReleaseCalls

LEMMA CancelCallsAre ==
  LET calls == (IF known.service THEN <<Stop>> ELSE <<>>) \o ReleaseCalls IN
    /\ calls \in Seq({Stop, Release})
    /\ Elems(calls) = (IF known.service THEN {Stop} ELSE {}) \cup Elems(ReleaseCalls)
<1> DEFINE stops == IF known.service THEN <<Stop>> ELSE <<>>
<1>1. /\ stops \in Seq({Stop, Release})
      /\ Elems(stops) = IF known.service THEN {Stop} ELSE {}
  BY ReleaseCallsAre, Zenon
<1>2. /\ stops \o ReleaseCalls \in Seq({Stop, Release})
      /\ Elems(stops \o ReleaseCalls) = Elems(stops) \cup Elems(ReleaseCalls)
  <2> HIDE DEF stops
  <2>1. \A s, t \in Seq({Stop, Release}) :
          s \o t \in Seq({Stop, Release}) /\ Elems(s \o t) = Elems(s) \cup Elems(t)
    BY ConcatElements
  <2> QED
    BY <1>1, <2>1, ReleaseCallsAre, Zenon
<1> QED
  BY <1>1, <1>2, Zenon

-----------------------------------------------------------------------------
(* Types.                                                                  *)

LEMMA TypesAreTypeOK == TypeInv => EnrollmentTypeOK
BY Zenon DEF TypeInv, WorldTypes, NumberTypes, ScreenTypes, EnrollmentTypeOK

LEMMA HeadOfMail ==
  ASSUME TypeInv, mail # <<>>
  PROVE  /\ Head(mail) \in Mails /\ Tail(mail) \in Seq(Mails) /\ Head(mail) \in Unread
         /\ Unread = {Head(mail)} \cup Elems(Tail(mail))
BY TailElements DEF TypeInv, WorldTypes, Unread

(* A message more, or one less.                                            *)
LEMMA Posting ==
  ASSUME TypeInv, NEW m \in Mails, mail' = Append(mail, m)
  PROVE  mail' \in Seq(Mails) /\ Unread' = Unread \cup {m}
<1>1. \A s \in Seq(Mails) : Append(s, m) \in Seq(Mails) /\ Elems(Append(s, m)) = Elems(s) \cup {m}
  BY AppendElements
<1> QED
  BY <1>1, Zenon DEF TypeInv, WorldTypes, Unread

LEMMA Reading ==
  ASSUME TypeInv, mail # <<>>, mail' = Tail(mail)
  PROVE  /\ mail' \in Seq(Mails) /\ Unread' \subseteq Unread
         /\ Unread = {Head(mail)} \cup Unread'
BY HeadOfMail, Zenon DEF Unread

LEMMA UnansweredAre ==
  ASSUME TypeInv
  PROVE  /\ Unanswered \in Seq(Mails)
         /\ \A m \in Elems(Unanswered) :
              \/ gaze.pending # 0 /\ m = Reply(gaze.pending, FALSE)
              \/ \E c \in OnTheWay : IsStart(c) /\ m = Reply(c.generation, FALSE)
<1> DEFINE first  == IF gaze.pending # 0 THEN <<Reply(gaze.pending, FALSE)>> ELSE <<>>
           second == IF toGaze # <<>> /\ Head(toGaze).call = "EnrollStart"
                       THEN <<Reply(Head(toGaze).generation, FALSE)>> ELSE <<>>
<1>1. \A m \in Mails : <<m>> \in Seq(Mails) /\ Elems(<<m>>) = {m}
  <2> TAKE m \in Mails
  <2>1. <<m>> \in Seq(Mails) /\ Len(<<m>>) = 1 /\ <<m>>[1] = m /\ 1..1 = {1}
    OBVIOUS
  <2> QED
    BY <2>1, SMT DEF Elems
<1>2. <<>> \in Seq(Mails) /\ Elems(<<>>) = {}
  <2>1. <<>> \in Seq(Mails)
    OBVIOUS
  <2> QED
    BY <2>1, ElementsAre, Zenon
<1>3. first \in Seq(Mails) /\ \A m \in Elems(first) : gaze.pending # 0 /\ m = Reply(gaze.pending, FALSE)
  <2>1. Reply(gaze.pending, FALSE) \in Mails
    BY ReplyFields DEF TypeInv, WorldTypes
  <2> QED
    BY <1>1, <1>2, <2>1, Zenon
<1>4. /\ second \in Seq(Mails)
      /\ \A m \in Elems(second) :
           \E c \in OnTheWay : IsStart(c) /\ m = Reply(c.generation, FALSE)
  <2>1. CASE toGaze # <<>> /\ Head(toGaze).call = "EnrollStart"
    <3>1. Head(toGaze) \in Calls /\ Head(toGaze) \in OnTheWay /\ IsStart(Head(toGaze))
      BY <2>1, TailElements DEF TypeInv, WorldTypes, OnTheWay, IsStart
    <3>2. Head(toGaze).generation \in Nat
      BY <3>1, StartFields, Zenon DEF IsStart
    <3>3. Reply(Head(toGaze).generation, FALSE) \in Mails
      BY <3>2, ReplyFields, Zenon
    <3> QED
      BY <1>1, <2>1, <3>1, <3>3, Zenon
  <2>2. CASE ~(toGaze # <<>> /\ Head(toGaze).call = "EnrollStart")
    BY <1>2, <2>2, Zenon
  <2> QED
    BY <2>1, <2>2
<1>5. /\ first \o second \in Seq(Mails)
      /\ Elems(first \o second) = Elems(first) \cup Elems(second)
  <2> HIDE DEF first, second
  <2> QED
    BY <1>3, <1>4, ConcatElements
<1>6. Unanswered = first \o second
  BY Zenon DEF Unanswered
<1> QED
  BY <1>3, <1>4, <1>5, <1>6, Zenon

(* The step's calls are of the application's kind, or Gaze takes one.      *)
LEMMA CallTypesStep == TypeInv /\ EnrollmentNext => toGaze' \in Seq(Calls)
<1> SUFFICES ASSUME TypeInv, EnrollmentNext PROVE toGaze' \in Seq(Calls)
  OBVIOUS
<1>0. toGaze \in Seq(Calls) /\ generation \in Nat
  BY DEF TypeInv, WorldTypes, NumberTypes
<1>1. CASE toGaze' = toGaze
  BY <1>0, <1>1
<1>2. ASSUME NEW calls \in Seq({Stop, Release}), toGaze' = Sent(calls) PROVE toGaze' \in Seq(Calls)
  BY <1>0, <1>2, Sending
<1>3. CASE BeginEnrollment
  <2>1. CASE toGaze' = <<[call |-> "EnrollStart", generation |-> generation + 1]>>
    <3>1. [call |-> "EnrollStart", generation |-> generation + 1] \in Calls
      BY <1>0, CallFields
    <3> QED
      BY <2>1, <3>1
  <2> QED
    BY <1>1, <1>3, <2>1, Zenon DEF BeginEnrollment
<1>4. CASE CancelEnrollment
  <2>1. (IF known.service THEN <<Stop>> ELSE <<>>) \o ReleaseCalls \in Seq({Stop, Release})
    BY CancelCallsAre
  <2> QED
    BY <1>2, <1>4, <2>1, Zenon DEF CancelEnrollment
<1>5. CASE ReplyArrives
  BY <1>1, <1>2, <1>5, ReleaseCallsAre, Zenon
     DEF ReplyArrives, StaleReply, FailedReply, StartedReply
<1>6. CASE StatusArrives
  BY <1>1, <1>2, <1>6, ReleaseCallsAre, Zenon DEF StatusArrives
<1>7. CASE GazeTakes
  BY <1>0, <1>7, TailElements DEF GazeTakes
<1>8. CASE GazeGoes
  BY <1>8, ElementsAre DEF GazeGoes
<1>9. CASE UNCHANGED readinessVars \/ UNCHANGED <<machine, toGaze, enrollmentVars>>
           \/ UNCHANGED <<known, toGaze, enrollmentVars>>
  BY <1>1, <1>9, Zenon DEF readinessVars
<1> QED
  BY <1>3, <1>4, <1>5, <1>6, <1>7, <1>8, <1>9, Zenon
     DEF EnrollmentNext, Messages, Gaze, FrameArrives, PreviewTimerFires, GazeAnswers,
         GazePoses, GazeEnds, GazeComes, CallTimesOut

LEMMA MailTypesStep == TypeInv /\ EnrollmentNext => mail' \in Seq(Mails)
<1> SUFFICES ASSUME TypeInv, EnrollmentNext PROVE mail' \in Seq(Mails)
  OBVIOUS
<1>0. /\ mail \in Seq(Mails) /\ gaze.pending \in Nat /\ awaited \subseteq Nat
      /\ toGaze \in Seq(Calls)
  BY SMT DEF TypeInv, WorldTypes, NumberTypes
<1>1. CASE mail' = mail
  BY <1>0, <1>1
<1>2. ASSUME NEW m \in Mails, mail' = Append(mail, m) PROVE mail' \in Seq(Mails)
  BY <1>2, Posting
<1>3. ASSUME mail # <<>>, mail' = Tail(mail) PROVE mail' \in Seq(Mails)
  BY <1>3, HeadOfMail
<1>4. Status(TRUE, "cancelled") \in Mails /\ Status(FALSE, "posing") \in Mails
      /\ \A word \in Endings : Status(TRUE, word) \in Mails
  BY StatusFields DEF Prompts, Endings
<1>5. \A g \in Nat : \A valid \in BOOLEAN : Reply(g, valid) \in Mails
  BY ReplyFields
<1>6. CASE GazeTakes
  <2>1. Head(toGaze) \in Calls
    BY <1>0, <1>6, TailElements DEF GazeTakes
  <2>2. IsStart(Head(toGaze)) => Reply(Head(toGaze).generation, FALSE) \in Mails
    BY <1>5, <2>1, StartFields, Zenon DEF IsStart
  <2> QED
    BY <1>1, <1>2, <1>4, <1>6, <2>2, Zenon DEF GazeTakes, IsStart
<1>7. CASE GazeGoes
  BY <1>0, <1>7, UnansweredAre, ConcatElements DEF GazeGoes
<1>8. CASE GazeAnswers \/ GazePoses \/ GazeEnds
  BY <1>0, <1>2, <1>4, <1>5, <1>8, Zenon DEF GazeAnswers, GazePoses, GazeEnds
<1>9. ASSUME NEW g \in awaited, CallTimesOut(g) PROVE mail' \in Seq(Mails)
  BY <1>0, <1>2, <1>5, <1>9, Zenon DEF CallTimesOut
<1>10. CASE ReplyArrives \/ StatusArrives
  BY <1>3, <1>10, Zenon DEF ReplyArrives, StatusArrives
<1> QED
  BY <1>1, <1>6, <1>7, <1>8, <1>9, <1>10, Zenon
     DEF EnrollmentNext, Messages, Gaze, FrameArrives, PreviewTimerFires, GazeComes,
         BeginEnrollment, CancelEnrollment, enrollmentVars, busVars

LEMMA WorldTypesStep == TypeInv /\ EnrollmentNext => WorldTypes'
<1> DEFINE Claims == [claimed : BOOLEAN, pending : Nat, session : Nat]
<1> SUFFICES ASSUME TypeInv, EnrollmentNext
             PROVE  machine' \in Machines /\ known' \in Machines /\ gaze' \in Claims
  BY CallTypesStep, MailTypesStep DEF WorldTypes
<1>0. machine \in Machines /\ known \in Machines /\ gaze \in Claims /\ generation \in Nat
  BY DEF TypeInv, WorldTypes, NumberTypes
<1>00. ASSUME gaze' \in {[gaze EXCEPT !.claimed = TRUE], [gaze EXCEPT !.claimed = FALSE],
                        [gaze EXCEPT !.pending = 0], [gaze EXCEPT !.session = 0],
                        [claimed |-> gaze.claimed, pending |-> 0, session |-> gaze.pending],
                        gaze}
       PROVE  gaze' \in Claims
  <2>1. \A b \in BOOLEAN : [gaze EXCEPT !.claimed = b] \in Claims
    BY <1>0, SMT
  <2>2. \A n \in Nat : [gaze EXCEPT !.pending = n] \in Claims /\ [gaze EXCEPT !.session = n] \in Claims
    BY <1>0, SMT
  <2>3. [claimed |-> gaze.claimed, pending |-> 0, session |-> gaze.pending] \in Claims
    BY <1>0, SMT
  <2>4. 0 \in Nat
    OBVIOUS
  <2> HIDE DEF Claims
  <2> QED
    BY <1>0, <1>00, <2>1, <2>2, <2>3, <2>4, Zenon
<1>1. CASE BeginEnrollment
  BY <1>0, <1>00, <1>1, Zenon DEF BeginEnrollment, Refresh, enrollmentVars, busVars
<1>2. CASE CancelEnrollment
  BY <1>0, <1>2, Zenon DEF CancelEnrollment, busVars, CancelEnrollment
<1>3. CASE Refresh /\ UNCHANGED <<machine, toGaze, enrollmentVars>>
  BY <1>0, <1>3, Zenon DEF Refresh, enrollmentVars, busVars
<1>4. CASE ReplyArrives \/ StatusArrives
  BY <1>0, <1>4, Zenon DEF ReplyArrives, StatusArrives
<1>5. CASE FrameArrives \/ \E g \in previewTimers : PreviewTimerFires(g)
  BY <1>0, <1>5, Zenon DEF FrameArrives, PreviewTimerFires, readinessVars, busVars
<1>6. CASE GazeTakes
  <2>1. Head(toGaze) \in Calls
    BY <1>6, TailElements DEF GazeTakes, TypeInv, WorldTypes
  <2>2. Head(toGaze).call = "EnrollStart" => Head(toGaze).generation \in Nat
    BY <2>1, StartFields, Zenon
  <2>3. \A n \in Nat : [gaze EXCEPT !.pending = n] \in Claims
    BY <1>0, SMT
  <2> HIDE DEF Claims
  <2> QED
    BY <1>0, <1>00, <1>6, <2>2, <2>3, Zenon DEF GazeTakes
<1>7. CASE GazeAnswers
  BY <1>0, <1>00, <1>7, Zenon DEF GazeAnswers, readinessVars
<1>8. CASE GazePoses \/ GazeEnds
  BY <1>0, <1>00, <1>8, Zenon DEF GazePoses, GazeEnds, readinessVars
<1>9. CASE GazeGoes \/ GazeComes
  <2>1. \A b \in BOOLEAN : [machine EXCEPT !.service = b] \in Machines
    BY <1>0, SMT DEF Machines
  <2>2. [claimed |-> FALSE, pending |-> 0, session |-> 0] \in Claims
    BY SMT
  <2> HIDE DEF Claims
  <2> QED
    BY <1>0, <1>9, <2>1, <2>2, Zenon DEF GazeGoes, GazeComes, enrollmentVars, busVars
<1>10. ASSUME NEW g \in awaited, CallTimesOut(g)
       PROVE  machine' \in Machines /\ known' \in Machines /\ gaze' \in Claims
  BY <1>0, <1>10, Zenon DEF CallTimesOut, readinessVars
<1> HIDE DEF Claims
<1> QED
  BY <1>1, <1>2, <1>3, <1>4, <1>5, <1>6, <1>7, <1>8, <1>9, <1>10, Zenon
     DEF EnrollmentNext, Messages, Gaze

(* What the application keeps; Gaze's own steps leave it alone.            *)
GazeStep ==
  GazeTakes \/ GazeAnswers \/ GazePoses \/ GazeEnds \/ GazeGoes \/ GazeComes
LookStep == Refresh /\ UNCHANGED <<machine, toGaze, enrollmentVars>>

LEMMA GazeKeepsClient ==
  GazeStep \/ LookStep => UNCHANGED <<awaited, clientVars, previewVars, pastVars>>
BY Zenon DEF GazeStep, LookStep, GazeTakes, GazeAnswers, GazePoses, GazeEnds, GazeGoes,
             GazeComes, enrollmentVars, busVars, clientVars, previewVars, pastVars

LEMMA StepsAre ==
  ASSUME EnrollmentNext
  PROVE  \/ BeginEnrollment \/ (enrolling /\ CancelEnrollment) \/ LookStep \/ GazeStep
         \/ ReplyArrives \/ StatusArrives \/ FrameArrives
         \/ \E g \in previewTimers : PreviewTimerFires(g)
         \/ \E g \in awaited : CallTimesOut(g)
BY Zenon DEF EnrollmentNext, Messages, Gaze, GazeStep, LookStep

LEMMA NumberTypesStep == TypeInv /\ EnrollmentNext => NumberTypes'
<1> SUFFICES ASSUME TypeInv, EnrollmentNext PROVE NumberTypes'
  OBVIOUS
<1>0. /\ generation \in Nat /\ awaited \subseteq 1..generation
      /\ previewTimers \subseteq 1..generation /\ lapsed \in Nat
  BY DEF TypeInv, NumberTypes
<1>1. CASE BeginEnrollment \/ CancelEnrollment
  <2>1. /\ lapsed' = lapsed /\ previewTimers' = previewTimers
        /\ \/ generation' = generation /\ awaited' = awaited
           \/ generation' = generation + 1 /\ awaited' = awaited
           \/ generation' = generation + 1 /\ awaited' = awaited \cup {generation + 1}
    BY <1>1, Zenon DEF BeginEnrollment, CancelEnrollment, enrollmentVars, busVars, clientVars,
                       previewVars, pastVars
  <2>2. /\ generation + 1 \in Nat /\ 1..generation \subseteq 1..(generation + 1)
        /\ generation + 1 \in 1..(generation + 1)
    BY <1>0
  <2> QED
    BY <1>0, <2>1, <2>2, Zenon DEF NumberTypes
<1>2. CASE ReplyArrives
  <2>1. /\ lapsed' = lapsed /\ generation' = generation
        /\ \E g : /\ awaited' = awaited \ {g}
                 /\ \/ previewTimers' = previewTimers
                    \/ g \in awaited /\ previewTimers' = previewTimers \cup {g}
    BY <1>2, Zenon DEF ReplyArrives, StaleReply, FailedReply, StartedReply, clientVars, previewVars
  <2> QED
    BY <1>0, <2>1, Zenon DEF NumberTypes
<1>3. CASE StatusArrives \/ FrameArrives
  BY <1>0, <1>3, Zenon DEF StatusArrives, FrameArrives, NumberTypes, busVars, clientVars, pastVars
<1>4. ASSUME NEW g \in previewTimers, PreviewTimerFires(g) PROVE NumberTypes'
  BY <1>0, <1>4, SMT DEF PreviewTimerFires, NumberTypes, busVars, clientVars, pastVars
<1>5. ASSUME NEW g \in awaited, CallTimesOut(g) PROVE NumberTypes'
  BY <1>0, <1>5, SMT DEF CallTimesOut, NumberTypes, clientVars, previewVars
<1>6. ASSUME UNCHANGED <<awaited, clientVars, previewVars, pastVars>> PROVE NumberTypes'
  BY <1>0, <1>6, Zenon DEF NumberTypes, clientVars, previewVars, pastVars
<1> QED
  BY <1>1, <1>2, <1>3, <1>4, <1>5, <1>6, GazeKeepsClient, StepsAre, Zenon

LEMMA ScreenTypesStep == TypeInv /\ EnrollmentNext => ScreenTypes'
<1> SUFFICES ASSUME TypeInv, EnrollmentNext PROVE ScreenTypes'
  OBVIOUS
<1>0. ScreenTypes
  BY DEF TypeInv
<1>1. CASE BeginEnrollment
  BY <1>0, <1>1, Zenon DEF BeginEnrollment, ScreenTypes, Prompts, enrollmentVars, clientVars,
                           previewVars, pastVars
<1>2. CASE CancelEnrollment
  BY <1>0, <1>2, Zenon DEF CancelEnrollment, ScreenTypes, Prompts
<1>3. CASE ReplyArrives
  BY <1>0, <1>3, Zenon DEF ReplyArrives, StaleReply, FailedReply, StartedReply, ScreenTypes,
                           clientVars, previewVars
<1>4. CASE StatusArrives
  <2>1. Head(mail).prompt \in Prompts
    BY <1>4, HeadOfMail, MailFields, Zenon DEF StatusArrives
  <2> QED
    BY <1>0, <1>4, <2>1, Zenon DEF StatusArrives, ScreenTypes
<1>5. CASE FrameArrives
  BY <1>0, <1>5, Zenon DEF FrameArrives, ScreenTypes, clientVars, pastVars
<1>6. ASSUME NEW g \in previewTimers, PreviewTimerFires(g) PROVE ScreenTypes'
  BY <1>0, <1>6, Zenon DEF PreviewTimerFires, StartParallelPreview, ScreenTypes, clientVars, pastVars
<1>7. ASSUME NEW g \in awaited, CallTimesOut(g) PROVE ScreenTypes'
  BY <1>0, <1>7, Zenon DEF CallTimesOut, ScreenTypes, clientVars, previewVars
<1>8. ASSUME UNCHANGED <<awaited, clientVars, previewVars, pastVars>> PROVE ScreenTypes'
  BY <1>0, <1>8, Zenon DEF ScreenTypes, clientVars, previewVars, pastVars
<1> QED
  BY <1>1, <1>2, <1>3, <1>4, <1>5, <1>6, <1>7, <1>8, GazeKeepsClient, StepsAre, Zenon

LEMMA TypeStep == TypeInv /\ EnrollmentNext => TypeInv'
BY WorldTypesStep, NumberTypesStep, ScreenTypesStep DEF TypeInv

-----------------------------------------------------------------------------
(* The application's own state.                                            *)

LEMMA ClientStep == TypeInv /\ ClientInv /\ EnrollmentNext => ClientInv'
<1> SUFFICES ASSUME TypeInv, ClientInv, EnrollmentNext PROVE ClientInv'
  OBVIOUS
<1> USE DEF ClientInv, ClaimIsEnrolment, TimerIsConfirmed, UserHasEnded, PreviewAfterCapture
<1>0. /\ generation + 1 \notin previewTimers /\ generation + 1 \notin awaited
      /\ claimed \in BOOLEAN /\ enrolling \in BOOLEAN /\ preview \in BOOLEAN
  BY SMT DEF TypeInv, NumberTypes, ScreenTypes
<1>00. "nobody" # "user" /\ "gaze" # "user" /\ "error" # "user"
  OBVIOUS
<1>1. CASE BeginEnrollment
  <2>1. CASE UNCHANGED <<machine, toGaze, enrollmentVars>>
    BY <2>1, Zenon DEF enrollmentVars, busVars, clientVars, previewVars, pastVars
  <2>2. CASE /\ generation' = generation + 1
             /\ claimed' = TRUE /\ enrolling' = TRUE /\ endedBy' = "nobody"
             /\ preview' = preview /\ previewTimers' = previewTimers
    <3>1. ~preview /\ generation' \notin previewTimers'
      BY <1>0, <1>1, <2>2, Zenon DEF BeginEnrollment
    <3> QED
      BY <1>00, <2>2, <3>1, Zenon
  <2> QED
    BY <1>1, <2>1, <2>2, Zenon DEF BeginEnrollment
<1>2. CASE CancelEnrollment
  BY <1>0, <1>2, Zenon DEF CancelEnrollment, busVars
<1>3. CASE ReplyArrives
  <2> DEFINE g == Head(mail).generation
             valid == Head(mail).valid
  <2>1. awaited' = awaited \ {g}
    BY <1>3, Zenon DEF ReplyArrives
  <2>2. CASE UNCHANGED <<clientVars, previewVars, endedBy, confirmed>>
    BY <2>1, <2>2, Zenon DEF clientVars, previewVars
  <2>3. CASE FailedReply(g, valid)
    BY <1>00, <2>1, <2>3, Zenon DEF FailedReply
  <2>4. CASE StartedReply(g, valid)
    BY <2>1, <2>4, Zenon DEF StartedReply, clientVars
  <2> QED
    BY <1>3, <2>2, <2>3, <2>4, Zenon DEF ReplyArrives, StaleReply
<1>4. CASE StatusArrives
  <2>1. UNCHANGED <<generation, awaited, previewTimers, confirmed>>
    BY <1>4, Zenon DEF StatusArrives
  <2>2. \/ UNCHANGED <<claimed, enrolling, preview, endedBy>>
        \/ claimed' = FALSE /\ enrolling' = FALSE /\ preview' = FALSE
           /\ (endedBy' = "gaze" \/ endedBy' = endedBy)
    BY <1>4, Zenon DEF StatusArrives
  <2>3. endedBy' = "user" => endedBy = "user"
    BY <1>00, <2>2, Zenon
  <2>4. UserHasEnded'
    BY <2>1, <2>2, <2>3, Zenon
  <2>5. CASE UNCHANGED <<claimed, enrolling, preview, endedBy>>
    BY <2>1, <2>4, <2>5, Zenon
  <2>6. CASE claimed' = FALSE /\ enrolling' = FALSE /\ preview' = FALSE
    BY <2>4, <2>6, Zenon
  <2> QED
    BY <2>2, <2>5, <2>6
<1>5. CASE FrameArrives
  BY <1>5, Zenon DEF FrameArrives, busVars, clientVars, pastVars
<1>6. ASSUME NEW g \in previewTimers, PreviewTimerFires(g) PROVE ClientInv'
  BY <1>6, Zenon DEF PreviewTimerFires, StartParallelPreview, busVars, clientVars, pastVars
<1>7. ASSUME NEW g \in awaited, CallTimesOut(g) PROVE ClientInv'
  BY <1>7, Zenon DEF CallTimesOut, clientVars, previewVars
<1>8. ASSUME UNCHANGED <<awaited, clientVars, previewVars, pastVars>> PROVE ClientInv'
  BY <1>8, Zenon DEF clientVars, previewVars, pastVars
<1> QED
  BY <1>1, <1>2, <1>3, <1>4, <1>5, <1>6, <1>7, <1>8, GazeKeepsClient, StepsAre, Zenon

-----------------------------------------------------------------------------
(* What the steps do to the queues.                                        *)

LEMMA PostingReply ==
  ASSUME TypeInv, NEW g \in Nat, NEW valid \in BOOLEAN, mail' = Append(mail, Reply(g, valid))
  PROVE  Replies' = Replies \cup {Reply(g, valid)}
<1>1. Reply(g, valid) \in Mails /\ Reply(g, valid).kind = "reply"
  BY ReplyFields
<1>2. Unread' = Unread \cup {Reply(g, valid)}
  BY <1>1, Posting
<1> QED
  BY <1>1, <1>2, Zenon DEF Replies

LEMMA PostingStatus ==
  ASSUME TypeInv, NEW done \in BOOLEAN, NEW word \in Prompts, mail' = Append(mail, Status(done, word))
  PROVE  Replies' = Replies
<1>1. Status(done, word) \in Mails /\ Status(done, word).kind = "status"
  BY StatusFields
<1>2. Unread' = Unread \cup {Status(done, word)}
  BY <1>1, Posting
<1>3. "status" # "reply"
  OBVIOUS
<1> QED
  BY <1>1, <1>2, <1>3, Zenon DEF Replies

LEMMA ReadingStatus ==
  ASSUME TypeInv, StatusArrives
  PROVE  Replies' = Replies
<1>1. Unread' \subseteq Unread /\ Unread = {Head(mail)} \cup Unread' /\ Head(mail).kind = "status"
  BY Reading DEF StatusArrives
<1>2. "status" # "reply"
  OBVIOUS
<1> QED
  BY <1>1, <1>2, Zenon DEF Replies

LEMMA ReadingReply ==
  ASSUME TypeInv, ReplyArrives
  PROVE  /\ Head(mail) \in Replies /\ Replies = {Head(mail)} \cup Replies'
         /\ Head(mail).generation \in Nat /\ Head(mail).valid \in BOOLEAN
<1>1. Unread' \subseteq Unread /\ Unread = {Head(mail)} \cup Unread' /\ Head(mail).kind = "reply"
  BY Reading DEF ReplyArrives
<1>2. Head(mail) \in Mails
  BY HeadOfMail DEF ReplyArrives
<1> QED
  BY <1>1, <1>2, MailFields, Zenon DEF Replies

(* What the application sends is no start.                                 *)
LEMMA SendingNoStart ==
  ASSUME TypeInv, NEW calls \in Seq({Stop, Release}), toGaze' = Sent(calls)
  PROVE  Starts' = Starts
<1>1. OnTheWay \subseteq OnTheWay' /\ OnTheWay' \subseteq OnTheWay \cup Elems(calls)
  BY Sending DEF TypeInv, WorldTypes
<1>2. Elems(calls) \subseteq {Stop, Release}
  BY ElementsAre
<1> QED
  BY <1>1, <1>2, CallFields, Zenon DEF Starts

LEMMA SameCalls ==
  ASSUME toGaze' = toGaze
  PROVE  OnTheWay' = OnTheWay /\ Starts' = Starts /\ (StartIsFirst <=> StartIsFirst')
BY Zenon DEF OnTheWay, Starts, StartIsFirst

LEMMA SameMail ==
  ASSUME mail' = mail
  PROVE  Unread' = Unread /\ Replies' = Replies
BY Zenon DEF Unread, Replies

(* Cancelling, and the handlers of messages.                               *)
LEMMA ApplicationSends ==
  ASSUME TypeInv, CancelEnrollment \/ ReplyArrives \/ StatusArrives
  PROVE  /\ toGaze' = toGaze \/ \E calls \in Seq({Stop, Release}) : toGaze' = Sent(calls)
         /\ Starts' = Starts /\ OnTheWay \subseteq OnTheWay'
         /\ StartIsFirst => StartIsFirst'
         /\ UNCHANGED <<machine, known, gaze, lapsed>>
<1>1. toGaze' = toGaze \/ \E calls \in Seq({Stop, Release}) : toGaze' = Sent(calls)
  <2>1. CASE CancelEnrollment
    <3>1. (IF known.service THEN <<Stop>> ELSE <<>>) \o ReleaseCalls \in Seq({Stop, Release})
      BY CancelCallsAre
    <3> QED
      BY <2>1, <3>1, Zenon DEF CancelEnrollment
  <2>2. CASE ReplyArrives \/ StatusArrives
    BY <2>2, ReleaseCallsAre, Zenon
       DEF ReplyArrives, StatusArrives, StaleReply, FailedReply, StartedReply
  <2> QED
    BY <2>1, <2>2
<1>2. toGaze \in Seq(Calls)
  BY DEF TypeInv, WorldTypes
<1>3. Starts' = Starts /\ OnTheWay \subseteq OnTheWay' /\ (StartIsFirst => StartIsFirst')
  BY <1>1, <1>2, Sending, SendingNoStart, SameCalls
<1>4. UNCHANGED <<machine, known, gaze, lapsed>>
  BY Zenon DEF CancelEnrollment, ReplyArrives, StatusArrives, busVars
<1> QED
  BY <1>1, <1>3, <1>4

(* Gaze takes a call.                                                      *)
LEMMA Taking ==
  ASSUME TypeInv, StartIsFirst, GazeTakes
  PROVE  /\ Head(toGaze) \in OnTheWay /\ Head(toGaze) \in Calls
         /\ OnTheWay = {Head(toGaze)} \cup OnTheWay' /\ Starts' = {} /\ StartIsFirst'
<1>1. toGaze \in Seq(Calls) /\ toGaze # <<>> /\ toGaze' = Tail(toGaze)
  BY Zenon DEF GazeTakes, TypeInv, WorldTypes
<1>2. /\ Head(toGaze) \in Calls /\ Tail(toGaze) \in Seq(Calls)
      /\ OnTheWay = {Head(toGaze)} \cup OnTheWay'
  BY <1>1, TailElements DEF OnTheWay
<1>3. \A c \in OnTheWay' : ~IsStart(c)
  BY <1>1, Zenon DEF OnTheWay, StartIsFirst
<1>4. StartIsFirst'
  <2> SUFFICES ASSUME toGaze' # <<>>, NEW c \in Elems(Tail(toGaze')) PROVE ~IsStart(c)
    BY Zenon DEF StartIsFirst
  <2>1. c \in OnTheWay'
    BY <1>1, <1>2, TailElements DEF OnTheWay
  <2> QED
    BY <1>3, <2>1
<1> QED
  BY <1>2, <1>3, <1>4, Zenon DEF Starts

-----------------------------------------------------------------------------
(* The two ends of the bus.                                                *)

(* Reading replies, sending what is no start, and a new number change      *)
(* nothing: whoever is no longer awaited has been answered.                *)
LEMMA BusKept ==
  ASSUME TypeInv, BusInv,
         Starts' = Starts, Replies' \subseteq Replies, gaze' = gaze, lapsed' = lapsed,
         machine' = machine, known' = known,
         generation' \in {generation, generation + 1},
         \A g \in awaited : g \in awaited' \/ \E m \in Replies : m.generation = g
  PROVE  BusInv'
<1>0. generation \in Nat /\ 1..generation \subseteq 1..generation' /\ generation <= generation'
  BY SMT DEF TypeInv, NumberTypes
<1>1. InService'
  BY Zenon DEF BusInv, InService
<1>2. NumbersAreOld'
  <2>1. gaze.pending \in Nat /\ gaze.session \in Nat
    BY SMT DEF TypeInv, WorldTypes
  <2>2. gaze'.pending <= generation' /\ gaze'.session <= generation'
    BY <1>0, <2>1, SMT DEF BusInv, NumbersAreOld
  <2>3. (\A c \in Starts : c.generation \in 1..generation) /\ (\A m \in Replies : m.generation \in 1..generation)
    BY Zenon DEF BusInv, NumbersAreOld
  <2> QED
    BY <1>0, <2>2, <2>3, Zenon DEF NumbersAreOld
<1>3. ASSUME NEW g, Unsettled(g) PROVE Unsettled(g)'
  BY <1>3, Zenon DEF Unsettled
<1>4. StartsAreAwaited'
  BY <1>3, Zenon DEF BusInv, StartsAreAwaited
<1>5. SessionIsConfirmed'
  BY Zenon DEF BusInv, SessionIsConfirmed
<1> QED
  BY <1>1, <1>2, <1>4, <1>5 DEF BusInv

LEMMA BusBegins ==
  ASSUME TypeInv, BusInv, BeginEnrollment, generation' # generation
  PROVE  /\ BusInv' /\ StartIsFirst'
         /\ gaze'.session = gaze.session /\ enrolling' = TRUE /\ endedBy' = "nobody"
         /\ OnTheWay' = {[call |-> "EnrollStart", generation |-> generation + 1]}
<1>0. PICK g : g = generation + 1
  OBVIOUS
<1> DEFINE start == [call |-> "EnrollStart", generation |-> g]
<1>1. /\ generation' = g /\ awaited' = awaited \cup {g} /\ toGaze' = <<start>> /\ toGaze = <<>>
      /\ known' = machine /\ machine' = machine /\ machine.service
      /\ gaze' = [gaze EXCEPT !.claimed = TRUE] /\ mail' = mail /\ lapsed' = lapsed
      /\ enrolling' = TRUE /\ endedBy' = "nobody"
  BY <1>0, Zenon DEF BeginEnrollment, Refresh, Synchronous, enrollmentVars, clientVars
<1>2. /\ generation \in Nat /\ g \in Nat /\ gaze.pending \in Nat /\ gaze.session \in Nat
      /\ gaze'.pending = gaze.pending /\ gaze'.session = gaze.session
      /\ machine \in Machines
  BY <1>0, <1>1, SMT DEF TypeInv, WorldTypes, NumberTypes
<1>3. /\ start.call = "EnrollStart" /\ start.generation = g /\ start \in Calls
  BY <1>2, CallFields
<1>4. OnTheWay' = {start} /\ Starts' = {start} /\ StartIsFirst'
  <2>1. Elems(<<start>>) = {start} /\ Elems(Tail(<<start>>)) = {}
    <3> HIDE DEF start
    <3>1. <<start>> \in Seq({start}) /\ <<start>> # <<>> /\ Len(<<start>>) = 1 /\ <<start>>[1] = start
          /\ Len(Tail(<<start>>)) = 0 /\ 1..1 = {1} /\ 1..0 = {}
      OBVIOUS
    <3> QED
      BY <3>1, SMT DEF Elems
  <2> QED
    BY <1>1, <1>3, <2>1, Zenon DEF OnTheWay, Starts, IsStart, StartIsFirst
<1>5. Replies' = Replies /\ \A m \in Replies : m.generation \in 1..generation
  BY <1>1, SameMail DEF BusInv, NumbersAreOld
<1>6. InService'
  BY <1>1, Zenon DEF InService
<1>7. NumbersAreOld'
  <2>1. gaze.pending <= generation /\ gaze.session <= generation
    BY DEF BusInv, NumbersAreOld
  <2>2. gaze.pending <= g /\ gaze.session <= g /\ g \in 1..g /\ 1..generation \subseteq 1..g
    BY <1>0, <1>2, <2>1
  <2> QED
    BY <1>1, <1>2, <1>3, <1>4, <1>5, <2>2, Zenon DEF NumbersAreOld
<1>8. StartsAreAwaited'
  <2>1. /\ g \notin {gaze.pending, gaze.session} /\ \A m \in Replies : m.generation # g
    BY <1>0, <1>2, <1>5, SMT DEF BusInv, NumbersAreOld
  <2>2. Unsettled(g)'
    BY <1>1, <1>5, <2>1, Zenon DEF Unsettled
  <2>3. \A h : Unsettled(h) => Unsettled(h)'
    BY <1>1, <1>5, Zenon DEF Unsettled
  <2>4. gaze.pending = 0 \/ gaze.session = 0
    BY DEF BusInv, StartsAreAwaited
  <2> QED
    BY <1>2, <1>3, <1>4, <2>1, <2>2, <2>3, <2>4, Zenon DEF StartsAreAwaited, BusInv
<1>9. SessionIsConfirmed'
  BY <1>1, <1>2, <1>5, Zenon DEF SessionIsConfirmed, BusInv
<1> QED
  BY <1>0, <1>1, <1>2, <1>4, <1>6, <1>7, <1>8, <1>9, Zenon DEF BusInv

LEMMA BusTakes ==
  ASSUME TypeInv, BusInv, StartIsFirst, GazeTakes
  PROVE  BusInv'
<1>0. PICK c : c = Head(toGaze)
  OBVIOUS
<1>1. /\ c \in OnTheWay /\ c \in Calls /\ Starts' = {} /\ OnTheWay = {c} \cup OnTheWay'
  BY <1>0, Taking
<1>2. /\ UNCHANGED <<machine, known, generation, awaited, lapsed>>
      /\ machine.service
  BY Zenon DEF GazeTakes, clientVars, pastVars
<1>3. /\ gaze \in [claimed : BOOLEAN, pending : Nat, session : Nat] /\ generation \in Nat
  BY DEF TypeInv, WorldTypes, NumberTypes
<1>4. CASE c.call = "EnrollStart"
  <2>1. /\ c \in Starts /\ c.generation \in 1..generation
        /\ Unsettled(c.generation) /\ c.generation \notin {gaze.pending, gaze.session}
        /\ machine.service /\ known.service
    BY <1>1, <1>4, Zenon DEF Starts, IsStart, BusInv, InService, NumbersAreOld, StartsAreAwaited
  <2>2. c.generation # 0 /\ c.generation \in Nat /\ c.generation <= generation
    BY <1>3, <2>1
  <2>3. CASE gaze.pending = 0 /\ gaze.session = 0 /\ gaze' = [gaze EXCEPT !.pending = c.generation]
             /\ mail' = mail
    <3>1. gaze'.pending = c.generation /\ gaze'.session = 0 /\ Replies' = Replies
      BY <1>3, <2>3, SameMail
    <3>2. Unsettled(c.generation)'
      BY <1>2, <2>1, <3>1, Zenon DEF Unsettled
    <3>3. 0 <= generation
      BY <1>3
    <3> QED
      BY <1>1, <1>2, <2>1, <2>2, <3>1, <3>2, <3>3, Zenon
         DEF BusInv, InService, NumbersAreOld, StartsAreAwaited, SessionIsConfirmed
  <2>4. CASE gaze' = gaze /\ mail' = Append(mail, Reply(c.generation, FALSE))
    <3>1. Replies' = Replies \cup {Reply(c.generation, FALSE)}
      BY <2>2, <2>4, PostingReply
    <3>2. Reply(c.generation, FALSE).generation = c.generation
      BY <2>2, ReplyFields
    <3>3. ASSUME NEW h, Unsettled(h), h # c.generation PROVE Unsettled(h)'
      BY <1>2, <3>1, <3>2, <3>3, Zenon DEF Unsettled
    <3> QED
      BY <1>1, <1>2, <2>1, <2>4, <3>1, <3>2, <3>3, Zenon
         DEF BusInv, InService, NumbersAreOld, StartsAreAwaited, SessionIsConfirmed
  <2> QED
    BY <1>0, <1>4, <2>3, <2>4, Zenon DEF GazeTakes
<1>5. CASE c.call # "EnrollStart"
  <2>1. \/ /\ gaze' = [gaze EXCEPT !.session = 0]
           /\ mail' = mail \/ mail' = Append(mail, Status(TRUE, "cancelled"))
        \/ gaze' = [gaze EXCEPT !.claimed = FALSE] /\ mail' = mail
    BY <1>0, <1>5, Zenon DEF GazeTakes
  <2>2. Replies' = Replies
    <3>1. "cancelled" \in Prompts
      BY DEF Prompts
    <3> QED
      BY <2>1, <3>1, PostingStatus, SameMail
  <2>3. /\ gaze'.pending = gaze.pending /\ gaze'.session \in {gaze.session, 0}
        /\ gaze'.claimed => gaze.claimed
    <3>1. \A x \in [claimed : BOOLEAN, pending : Nat, session : Nat] :
            /\ [x EXCEPT !.session = 0].pending = x.pending /\ [x EXCEPT !.session = 0].session = 0
            /\ [x EXCEPT !.session = 0].claimed = x.claimed
            /\ [x EXCEPT !.claimed = FALSE].pending = x.pending
            /\ [x EXCEPT !.claimed = FALSE].session = x.session
            /\ [x EXCEPT !.claimed = FALSE].claimed = FALSE
      BY SMT
    <3> QED
      BY <1>3, <2>1, <3>1, Zenon
  <2>4. InService'
    BY <1>1, <1>2, <2>3, Zenon DEF BusInv, InService
  <2>5. NumbersAreOld'
    <3>1. 0 <= generation
      BY <1>3
    <3> QED
      BY <1>1, <1>2, <2>2, <2>3, <3>1, Zenon DEF BusInv, NumbersAreOld
  <2>6. StartsAreAwaited'
    BY <1>1, <1>2, <2>2, <2>3, Zenon DEF BusInv, StartsAreAwaited, Unsettled
  <2>7. SessionIsConfirmed'
    BY <1>1, <1>2, <2>2, <2>3, Zenon DEF BusInv, SessionIsConfirmed
  <2> QED
    BY <2>4, <2>5, <2>6, <2>7 DEF BusInv
<1> QED
  BY <1>4, <1>5

LEMMA BusAnswers ==
  ASSUME TypeInv, BusInv, GazeAnswers
  PROVE  BusInv'
<1>0. PICK p : p = gaze.pending
  OBVIOUS
<1>1. /\ UNCHANGED <<machine, known, generation, awaited, lapsed>>
      /\ Starts' = Starts /\ p # 0
  BY <1>0, SameCalls, Zenon DEF GazeAnswers, readinessVars, clientVars, pastVars
<1>2. /\ gaze \in [claimed : BOOLEAN, pending : Nat, session : Nat] /\ generation \in Nat
      /\ p \in Nat /\ awaited \subseteq 1..generation
  BY <1>0 DEF TypeInv, WorldTypes, NumberTypes
<1>3. /\ gaze.session = 0 /\ Unsettled(p) /\ p <= generation
      /\ machine.service /\ known.service
  BY <1>0, <1>1, Zenon DEF BusInv, InService, NumbersAreOld, StartsAreAwaited
<1>4. PICK valid \in BOOLEAN :
        /\ mail' = Append(mail, Reply(p, valid))
        /\ gaze'.pending = 0 /\ gaze'.session = IF valid THEN p ELSE 0
        /\ gaze'.claimed = gaze.claimed
  <2>1. CASE gaze' = [claimed |-> gaze.claimed, pending |-> 0, session |-> gaze.pending]
             /\ mail' = Append(mail, Reply(gaze.pending, TRUE))
    <3>1. gaze'.pending = 0 /\ gaze'.session = p /\ gaze'.claimed = gaze.claimed
      BY <1>0, <2>1
    <3> QED
      BY <1>0, <2>1, <3>1, Zenon
  <2>2. CASE gaze' = [gaze EXCEPT !.pending = 0] /\ mail' = Append(mail, Reply(gaze.pending, FALSE))
    <3>1. gaze'.pending = 0 /\ gaze'.session = 0 /\ gaze'.claimed = gaze.claimed
      BY <1>2, <1>3, <2>2
    <3> QED
      BY <1>0, <2>2, <3>1, Zenon
  <2> QED
    BY <2>1, <2>2, Zenon DEF GazeAnswers
<1>5. /\ Replies' = Replies \cup {Reply(p, valid)}
      /\ Reply(p, valid).generation = p /\ Reply(p, valid).valid = valid
  BY <1>2, <1>4, PostingReply, ReplyFields
<1>6. gaze'.session \in {0, p} /\ (gaze'.session # 0 => valid)
  BY <1>1, <1>4
<1>7. InService'
  BY <1>1, <1>3, Zenon DEF BusInv, InService
<1>8. NumbersAreOld'
  <2>1. 0 <= generation /\ p \in 1..generation
    BY <1>1, <1>2, <1>3
  <2> QED
    BY <1>1, <1>3, <1>4, <1>5, <1>6, <2>1, Zenon DEF BusInv, NumbersAreOld
<1>9. StartsAreAwaited'
  <2>1. ASSUME NEW h, Unsettled(h), h # p PROVE Unsettled(h)'
    BY <1>1, <1>5, <2>1, Zenon DEF Unsettled
  <2>2. \A c \in Starts : Unsettled(c.generation) /\ c.generation # p /\ c.generation # 0
    BY <1>0, <1>2, SMT DEF BusInv, StartsAreAwaited, NumbersAreOld
  <2> QED
    BY <1>1, <1>4, <1>6, <2>1, <2>2, Zenon DEF StartsAreAwaited
<1>10. SessionIsConfirmed'
  BY <1>1, <1>3, <1>5, <1>6, Zenon DEF SessionIsConfirmed, Unsettled
<1> QED
  BY <1>7, <1>8, <1>9, <1>10 DEF BusInv

LEMMA BusGoes ==
  ASSUME TypeInv, BusInv, GazeEnds \/ GazeGoes
  PROVE  BusInv'
<1>1. UNCHANGED <<known, generation, awaited, lapsed>>
  BY Zenon DEF GazeEnds, GazeGoes, readinessVars, clientVars, pastVars
<1>2. generation \in Nat /\ 0 <= generation /\ mail \in Seq(Mails)
      /\ gaze \in [claimed : BOOLEAN, pending : Nat, session : Nat]
  BY DEF TypeInv, WorldTypes, NumberTypes
<1>3. CASE GazeEnds
  <2>1. /\ Starts' = Starts /\ machine' = machine
        /\ gaze' = [gaze EXCEPT !.session = 0] /\ gaze.session # 0
    BY <1>3, SameCalls, Zenon DEF GazeEnds, readinessVars
  <2>2. Replies' = Replies
    <3>1. Endings \subseteq Prompts
      BY DEF Endings, Prompts
    <3> QED
      BY <1>3, <3>1, PostingStatus DEF GazeEnds
  <2>3. gaze'.session = 0 /\ gaze'.pending = gaze.pending /\ gaze'.claimed = gaze.claimed
    BY <1>2, <2>1
  <2>4. \A c \in Starts : c.generation # 0
    BY <1>2, SMT DEF BusInv, NumbersAreOld
  <2>5. gaze.pending = 0
    BY <2>1 DEF BusInv, StartsAreAwaited
  <2> QED
    BY <1>1, <1>2, <2>1, <2>2, <2>3, <2>4, <2>5, Zenon
       DEF BusInv, InService, NumbersAreOld, StartsAreAwaited, Unsettled, SessionIsConfirmed
<1>4. CASE GazeGoes
  <2>1. /\ toGaze' = <<>> /\ gaze' = [claimed |-> FALSE, pending |-> 0, session |-> 0]
        /\ mail' = mail \o Unanswered
    BY <1>4, Zenon DEF GazeGoes
  <2>2. gaze'.claimed = FALSE /\ gaze'.session = 0 /\ gaze'.pending = 0
    BY <2>1
  <2>3. Starts' = {}
    <3>1. <<>> \in Seq(Calls)
      OBVIOUS
    <3>2. Elems(<<>>) = {}
      BY <3>1, ElementsAre, Zenon
    <3> QED
      BY <2>1, <3>2, Zenon DEF Starts, OnTheWay
  <2>4. Unanswered \in Seq(Mails) /\ Unread' = Unread \cup Elems(Unanswered)
    BY <1>2, <2>1, UnansweredAre, ConcatElements DEF Unread
  <2>5. \A m \in Elems(Unanswered) : m.generation \in 1..generation
    <3>1. \A c \in Starts : c.generation \in Nat /\ c.generation \in 1..generation
      BY <1>2, SMT DEF BusInv, NumbersAreOld
    <3>2. gaze.pending \in Nat /\ (gaze.pending # 0 => gaze.pending \in 1..generation)
      BY <1>2, SMT DEF BusInv, NumbersAreOld
    <3>3. ASSUME NEW n, n \in Nat, n \in 1..generation
          PROVE  Reply(n, FALSE).generation \in 1..generation
      BY <3>3, ReplyFields
    <3>4. ASSUME NEW m \in Elems(Unanswered) PROVE m.generation \in 1..generation
      <4>1. \/ gaze.pending # 0 /\ m = Reply(gaze.pending, FALSE)
            \/ \E c \in Starts : m = Reply(c.generation, FALSE)
        BY UnansweredAre, Zenon DEF Starts
      <4> QED
        BY <3>1, <3>2, <3>3, <4>1, Zenon
    <3> QED
      BY <3>4, Zenon
  <2>6. \A m \in Replies' : m.generation \in 1..generation
    BY <2>4, <2>5, Zenon DEF Replies, BusInv, NumbersAreOld
  <2> QED
    BY <1>1, <1>2, <2>2, <2>3, <2>6, Zenon
       DEF BusInv, InService, NumbersAreOld, StartsAreAwaited, SessionIsConfirmed
<1> QED
  BY <1>3, <1>4

LEMMA BusLapses ==
  ASSUME TypeInv, BusInv, NEW g \in awaited, CallTimesOut(g)
  PROVE  BusInv' /\ (StartIsFirst <=> StartIsFirst')
<1>1. /\ UNCHANGED <<machine, known, gaze, generation, awaited>> /\ toGaze' = toGaze
      /\ lapsed = 0 /\ lapsed' = g /\ mail' = Append(mail, Reply(g, FALSE))
  BY Zenon DEF CallTimesOut, readinessVars, clientVars
<1>2. generation \in Nat /\ g \in 1..generation /\ g \in Nat
  BY SMT DEF TypeInv, NumberTypes
<1>3. /\ Replies' = Replies \cup {Reply(g, FALSE)} /\ Reply(g, FALSE).generation = g
      /\ Starts' = Starts /\ (StartIsFirst <=> StartIsFirst')
  BY <1>1, <1>2, PostingReply, ReplyFields, SameCalls
<1>4. InService'
  BY <1>1, <1>3, Zenon DEF BusInv, InService
<1>5. NumbersAreOld'
  BY <1>1, <1>2, <1>3, Zenon DEF BusInv, NumbersAreOld
<1>6. StartsAreAwaited'
  <2>1. ASSUME NEW h, h # 0, Unsettled(h) PROVE Unsettled(h)'
    BY <1>1, <1>3, <2>1, Zenon DEF Unsettled
  <2>2. \A c \in Starts : c.generation # 0
    BY <1>2, SMT DEF BusInv, NumbersAreOld
  <2> QED
    BY <1>1, <1>3, <2>1, <2>2, Zenon DEF BusInv, StartsAreAwaited
<1>7. SessionIsConfirmed'
  BY <1>1, <1>3, Zenon DEF BusInv, SessionIsConfirmed
<1> QED
  BY <1>3, <1>4, <1>5, <1>6, <1>7, Zenon DEF BusInv

LEMMA BusStep ==
  TypeInv /\ BusInv /\ StartIsFirst /\ EnrollmentNext => BusInv' /\ StartIsFirst'
<1> SUFFICES ASSUME TypeInv, BusInv, StartIsFirst, EnrollmentNext PROVE BusInv' /\ StartIsFirst'
  OBVIOUS
<1>0. generation \in {generation, generation + 1} /\ generation + 1 \in {generation, generation + 1}
  OBVIOUS
<1>1. CASE BeginEnrollment \/ LookStep
  <2>1. CASE generation' # generation
    <3>1. BeginEnrollment
      BY <1>1, <2>1, Zenon DEF LookStep, enrollmentVars, clientVars
    <3> QED
      BY <2>1, <3>1, BusBegins
  <2>2. CASE generation' = generation
    <3>1. /\ toGaze = <<>> /\ toGaze' = toGaze /\ mail' = mail /\ known' = machine
          /\ UNCHANGED <<machine, gaze, awaited, lapsed>>
      <4>1. generation + 1 # generation
        BY SMT DEF TypeInv, NumberTypes
      <4> QED
        BY <1>1, <2>2, <4>1, Zenon
           DEF BeginEnrollment, LookStep, Refresh, Synchronous, enrollmentVars, busVars, pastVars
    <3>2. Starts' = Starts /\ Replies' = Replies /\ StartIsFirst'
      BY <3>1, SameCalls, SameMail
    <3>3. InService'
      BY <3>1, <3>2, Zenon DEF BusInv, InService
    <3>4. \A h : Unsettled(h) => Unsettled(h)'
      BY <3>1, <3>2, Zenon DEF Unsettled
    <3> QED
      BY <2>2, <3>1, <3>2, <3>3, <3>4, Zenon
         DEF BusInv, NumbersAreOld, StartsAreAwaited, SessionIsConfirmed
  <2> QED
    BY <2>1, <2>2
<1>2. CASE CancelEnrollment
  <2>1. /\ generation' = generation + 1 /\ awaited' = awaited /\ mail' = mail
    BY <1>2, Zenon DEF CancelEnrollment, busVars
  <2> QED
    BY <1>0, <1>2, <2>1, ApplicationSends, SameMail, BusKept
<1>3. CASE ReplyArrives
  <2>1. awaited' = awaited \ {Head(mail).generation} /\ generation' = generation
    BY <1>3, Zenon DEF ReplyArrives, StaleReply, FailedReply, StartedReply, clientVars
  <2>2. Head(mail) \in Replies /\ Replies' \subseteq Replies
    BY <1>3, ReadingReply
  <2>3. \A g \in awaited : g \in awaited' \/ \E m \in Replies : m.generation = g
    BY <2>1, <2>2, Zenon
  <2> QED
    BY <1>0, <1>3, <2>1, <2>2, <2>3, ApplicationSends, BusKept
<1>4. CASE StatusArrives
  <2>1. awaited' = awaited /\ generation' = generation
    BY <1>4, Zenon DEF StatusArrives
  <2> QED
    BY <1>0, <1>4, <2>1, ReadingStatus, ApplicationSends, BusKept
<1>5. ASSUME UNCHANGED <<readinessVars, busVars, generation, lapsed>> PROVE BusInv' /\ StartIsFirst'
  <2>1. /\ UNCHANGED <<machine, known, gaze, awaited, lapsed>>
        /\ toGaze' = toGaze /\ mail' = mail /\ generation' = generation
    BY <1>5, Zenon DEF readinessVars, busVars
  <2> QED
    BY <1>0, <2>1, SameCalls, SameMail, BusKept
<1>6. CASE FrameArrives \/ \E g \in previewTimers : PreviewTimerFires(g)
  BY <1>5, <1>6, Zenon DEF FrameArrives, PreviewTimerFires, clientVars, pastVars
<1>7. CASE GazeTakes
  BY <1>7, BusTakes, Taking
<1>8. CASE GazeAnswers \/ GazeEnds
  <2>1. toGaze' = toGaze
    BY <1>8, Zenon DEF GazeAnswers, GazeEnds, readinessVars
  <2> QED
    BY <1>8, <2>1, BusAnswers, BusGoes, SameCalls
<1>9. CASE GazeGoes
  <2>1. toGaze' = <<>>
    BY <1>9, Zenon DEF GazeGoes
  <2> QED
    BY <1>9, <2>1, BusGoes DEF StartIsFirst
<1>10. CASE GazePoses
  <2>1. /\ UNCHANGED <<machine, known, gaze, awaited, lapsed>>
        /\ toGaze' = toGaze /\ mail' = Append(mail, Status(FALSE, "posing")) /\ generation' = generation
    BY <1>10, Zenon DEF GazePoses, readinessVars, clientVars, pastVars
  <2>2. Replies' = Replies
    <3>1. "posing" \in Prompts
      BY DEF Prompts
    <3> QED
      BY <2>1, <3>1, PostingStatus
  <2> QED
    BY <1>0, <2>1, <2>2, SameCalls, BusKept
<1>11. CASE GazeComes
  <2>1. /\ UNCHANGED <<known, gaze, awaited, generation, lapsed>>
        /\ toGaze' = toGaze /\ mail' = mail /\ machine' = [machine EXCEPT !.service = TRUE]
    BY <1>11, Zenon DEF GazeComes, enrollmentVars, busVars, clientVars, pastVars
  <2>2. Starts' = Starts /\ Replies' = Replies /\ StartIsFirst'
    BY <2>1, SameCalls, SameMail
  <2>3. machine'.service
    BY <2>1, SMT DEF TypeInv, WorldTypes, Machines
  <2>4. InService'
    BY <2>1, <2>2, <2>3, Zenon DEF BusInv, InService
  <2>5. \A h : Unsettled(h) => Unsettled(h)'
    BY <2>1, <2>2, Zenon DEF Unsettled
  <2> QED
    BY <2>1, <2>2, <2>4, <2>5, Zenon
       DEF BusInv, NumbersAreOld, StartsAreAwaited, SessionIsConfirmed
<1>12. ASSUME NEW g \in awaited, CallTimesOut(g) PROVE BusInv' /\ StartIsFirst'
  BY <1>12, BusLapses
<1> QED
  BY <1>1, <1>2, <1>3, <1>4, <1>6, <1>7, <1>8, <1>9, <1>10, <1>11, <1>12, StepsAre, Zenon DEF GazeStep

-----------------------------------------------------------------------------
(* Claims and stops.                                                       *)

LEMMA StopStaleStep ==
  EnrollInv /\ EnrollmentNext => StopIsStale'
<1> SUFFICES ASSUME EnrollInv, EnrollmentNext PROVE StopIsStale'
  OBVIOUS
<1>0. TypeInv /\ StopIsStale /\ BusInv /\ StartIsFirst
  BY DEF EnrollInv
<1>1. ASSUME enrolling' = enrolling, toGaze' = toGaze PROVE StopIsStale'
  BY <1>0, <1>1, SameCalls, Zenon DEF StopIsStale
<1>2. CASE BeginEnrollment \/ LookStep
  <2>1. CASE generation' # generation
    <3>1. BeginEnrollment
      BY <1>2, <2>1, Zenon DEF LookStep, enrollmentVars, clientVars
    <3>2. OnTheWay' = {[call |-> "EnrollStart", generation |-> generation + 1]}
      BY <1>0, <2>1, <3>1, BusBegins
    <3>3. Stop # [call |-> "EnrollStart", generation |-> generation + 1]
      BY DEF Stop
    <3> QED
      BY <3>2, <3>3, Zenon DEF StopIsStale
  <2>2. CASE generation' = generation
    <3>1. generation + 1 # generation
      BY <1>0, SMT DEF TypeInv, NumberTypes
    <3> QED
      BY <1>1, <1>2, <2>2, <3>1, Zenon
         DEF BeginEnrollment, LookStep, enrollmentVars, clientVars
  <2> QED
    BY <2>1, <2>2
<1>3. CASE CancelEnrollment
  BY <1>3, Zenon DEF CancelEnrollment, StopIsStale
<1>4. CASE ReplyArrives
  BY <1>1, <1>4, Zenon
     DEF ReplyArrives, StaleReply, FailedReply, StartedReply, clientVars, StopIsStale
<1>5. CASE StatusArrives
  BY <1>1, <1>5, Zenon DEF StatusArrives, StopIsStale
<1>6. CASE FrameArrives \/ (\E g \in previewTimers : PreviewTimerFires(g))
           \/ \E g \in awaited : CallTimesOut(g)
  BY <1>1, <1>6, Zenon DEF FrameArrives, PreviewTimerFires, CallTimesOut, readinessVars, clientVars
<1>7. CASE GazeTakes
  <2>1. OnTheWay' \subseteq OnTheWay /\ enrolling' = enrolling
    BY <1>0, <1>7, Taking, Zenon DEF GazeTakes, clientVars
  <2> QED
    BY <1>0, <2>1, Zenon DEF StopIsStale
<1>8. CASE GazeGoes
  <2>1. <<>> \in Seq(Calls)
    OBVIOUS
  <2>2. Elems(<<>>) = {}
    BY <2>1, ElementsAre, Zenon
  <2> QED
    BY <1>8, <2>2, Zenon DEF GazeGoes, StopIsStale, OnTheWay
<1>9. CASE GazeAnswers \/ GazePoses \/ GazeEnds \/ GazeComes
  BY <1>1, <1>9, Zenon DEF GazeAnswers, GazePoses, GazeEnds, GazeComes, readinessVars,
                           enrollmentVars, clientVars
<1> QED
  BY <1>2, <1>3, <1>4, <1>5, <1>6, <1>7, <1>8, <1>9, StepsAre, Zenon DEF GazeStep

LEMMA ReleaseIsSent ==
  ASSUME EnrollInv, gaze.claimed, toGaze' = Sent(ReleaseCalls)
  PROVE  Release \in OnTheWay'
<1>1. machine.service /\ known.service
  BY Zenon DEF EnrollInv, BusInv, InService
<1>2. OnTheWay' = OnTheWay \cup Elems(ReleaseCalls)
  BY <1>1, Sending, ReleaseCallsAre DEF EnrollInv, TypeInv, WorldTypes
<1>3. enrolling => Release \in Elems(ReleaseCalls)
  BY <1>1, ReleaseCallsAre, Zenon DEF EnrollInv, ClientInv, ClaimIsEnrolment
<1> QED
  BY <1>2, <1>3, Zenon DEF EnrollInv, ClaimIsOnItsWay

LEMMA CancelIsSent ==
  ASSUME EnrollInv, CancelEnrollment
  PROVE  /\ gaze.claimed => Release \in OnTheWay'
         /\ gaze.session # 0 => Stop \in OnTheWay'
<1> DEFINE calls == (IF known.service THEN <<Stop>> ELSE <<>>) \o ReleaseCalls
<1>1. calls \in Seq({Stop, Release}) /\ toGaze' = Sent(calls)
      /\ Elems(calls) = (IF known.service THEN {Stop} ELSE {}) \cup Elems(ReleaseCalls)
  BY CancelCallsAre, Zenon DEF CancelEnrollment
<1>2. gaze.claimed \/ gaze.session # 0 => machine.service /\ known.service
  BY Zenon DEF EnrollInv, BusInv, InService
<1>3. machine.service => OnTheWay' = OnTheWay \cup Elems(calls)
  <2> HIDE DEF calls
  <2> QED
    BY <1>1, Sending DEF EnrollInv, TypeInv, WorldTypes
<1>4. gaze.claimed /\ enrolling => Release \in Elems(ReleaseCalls)
  BY <1>2, ReleaseCallsAre, Zenon DEF EnrollInv, ClientInv, ClaimIsEnrolment
<1> QED
  BY <1>1, <1>2, <1>3, <1>4, Zenon DEF EnrollInv, ClaimIsOnItsWay

LEMMA ClaimStep ==
  EnrollInv /\ EnrollmentNext => ClaimIsOnItsWay'
<1> SUFFICES ASSUME EnrollInv, EnrollmentNext PROVE ClaimIsOnItsWay'
  OBVIOUS
<1>0. TypeInv /\ ClaimIsOnItsWay /\ BusInv /\ StartIsFirst
  BY DEF EnrollInv
<1>1. ASSUME enrolling' = enrolling, toGaze' = toGaze, gaze'.claimed = gaze.claimed
      PROVE  ClaimIsOnItsWay'
  BY <1>0, <1>1, SameCalls, Zenon DEF ClaimIsOnItsWay
<1>2. CASE BeginEnrollment \/ LookStep
  BY <1>1, <1>2, Zenon DEF BeginEnrollment, LookStep, enrollmentVars, busVars, clientVars, ClaimIsOnItsWay
<1>3. CASE CancelEnrollment
  BY <1>3, CancelIsSent, Zenon DEF CancelEnrollment, busVars, ClaimIsOnItsWay
<1>4. CASE ReplyArrives \/ StatusArrives
  <2>1. OnTheWay \subseteq OnTheWay' /\ gaze' = gaze
    BY <1>0, <1>4, ApplicationSends
  <2>2. enrolling' = enrolling \/ toGaze' = Sent(ReleaseCalls)
    BY <1>4, Zenon DEF ReplyArrives, StatusArrives, StaleReply, FailedReply, StartedReply, clientVars
  <2> QED
    BY <1>0, <2>1, <2>2, ReleaseIsSent, Zenon DEF ClaimIsOnItsWay
<1>5. CASE FrameArrives \/ (\E g \in previewTimers : PreviewTimerFires(g))
           \/ \E g \in awaited : CallTimesOut(g)
  BY <1>1, <1>5, Zenon DEF FrameArrives, PreviewTimerFires, CallTimesOut, readinessVars, clientVars, busVars
<1>6. /\ gaze \in [claimed : BOOLEAN, pending : Nat, session : Nat]
      /\ \A x \in [claimed : BOOLEAN, pending : Nat, session : Nat] :
           /\ [x EXCEPT !.session = 0].claimed = x.claimed
           /\ [x EXCEPT !.pending = 0].claimed = x.claimed
           /\ [x EXCEPT !.claimed = FALSE].claimed = FALSE
           /\ \A n : [x EXCEPT !.pending = n].claimed = x.claimed
           /\ \A n : [claimed |-> x.claimed, pending |-> 0, session |-> n].claimed = x.claimed
  BY <1>0, SMT DEF TypeInv, WorldTypes
<1>7. CASE GazeTakes
  <2>1. /\ Head(toGaze) \in OnTheWay /\ Head(toGaze) \in Calls
        /\ OnTheWay = {Head(toGaze)} \cup OnTheWay' /\ enrolling' = enrolling
    BY <1>0, <1>7, Taking, Zenon DEF GazeTakes, clientVars
  <2>2. Head(toGaze) = Release => gaze'.claimed = FALSE
    <3>1. Release.call = "Release" /\ "Release" # "EnrollStart" /\ "Release" # "EnrollStop"
      BY DEF Release
    <3> QED
      BY <1>6, <1>7, <3>1, Zenon DEF GazeTakes
  <2>3. Head(toGaze) # Release => gaze'.claimed = gaze.claimed
    BY <1>6, <1>7, <2>1, CallFields, Zenon DEF GazeTakes
  <2> QED
    BY <1>0, <2>1, <2>2, <2>3, Zenon DEF ClaimIsOnItsWay
<1>8. CASE GazeGoes
  <2>1. gaze'.claimed = FALSE
    BY <1>8 DEF GazeGoes
  <2> QED
    BY <2>1, Zenon DEF ClaimIsOnItsWay
<1>9. CASE GazeAnswers \/ GazePoses \/ GazeEnds \/ GazeComes
  BY <1>1, <1>6, <1>9, Zenon DEF GazeAnswers, GazePoses, GazeEnds, GazeComes, readinessVars,
                           enrollmentVars, busVars, clientVars
<1> QED
  BY <1>2, <1>3, <1>4, <1>5, <1>7, <1>8, <1>9, StepsAre, Zenon DEF GazeStep

LEMMA StopStep ==
  EnrollInv /\ EnrollmentNext => StopIsOnItsWay'
<1> SUFFICES ASSUME EnrollInv, EnrollmentNext, endedBy' = "user", gaze'.session \notin {0, lapsed'}
             PROVE  \/ (Stop \in OnTheWay)'
                    \/ gaze'.session \in awaited' /\ \E m \in Replies' : m.generation = gaze'.session
  BY Zenon DEF StopIsOnItsWay
<1> DEFINE Goal == \/ (Stop \in OnTheWay)'
                   \/ gaze'.session \in awaited' /\ \E m \in Replies' : m.generation = gaze'.session
<1>0. TypeInv /\ ClientInv /\ BusInv /\ StartIsFirst /\ StopIsOnItsWay
  BY DEF EnrollInv
<1>1. ASSUME endedBy' = endedBy, OnTheWay \subseteq OnTheWay', Replies \subseteq Replies',
             UNCHANGED <<awaited, lapsed>>, gaze'.session = gaze.session
      PROVE  Goal
  BY <1>0, <1>1, Zenon DEF StopIsOnItsWay
<1>2. ASSUME UNCHANGED <<toGaze, mail, gaze, awaited, lapsed, endedBy>> PROVE Goal
  BY <1>1, <1>2, SameCalls, SameMail, Zenon
<1>3. CASE BeginEnrollment \/ LookStep
  <2>1. endedBy' # "nobody"
    BY SMT
  <2> QED
    BY <1>2, <1>3, <2>1, Zenon
       DEF BeginEnrollment, LookStep, enrollmentVars, busVars, pastVars
<1>4. CASE CancelEnrollment
  <2>1. gaze' = gaze
    BY <1>4, Zenon DEF CancelEnrollment, busVars
  <2> QED
    BY <1>4, <2>1, CancelIsSent, Zenon
<1>5. CASE ReplyArrives
  <2>0. PICK h : h = Head(mail)
    OBVIOUS
  <2>1. /\ OnTheWay \subseteq OnTheWay' /\ UNCHANGED <<machine, known, gaze, lapsed>>
        /\ h \in Replies /\ Replies = {h} \cup Replies' /\ h.valid \in BOOLEAN
    BY <1>0, <1>5, <2>0, ApplicationSends, ReadingReply
  <2>2. endedBy = "user" /\ awaited' = awaited \ {h.generation}
    <3>1. "error" # "user"
      OBVIOUS
    <3> QED
      BY <1>5, <2>0, <3>1, Zenon DEF ReplyArrives, StaleReply, FailedReply, StartedReply
  <2>3. ~enrolling /\ generation \notin awaited
    BY <1>0, <2>2, Zenon DEF ClientInv, UserHasEnded
  <2>4. CASE Stop \in OnTheWay
    BY <2>1, <2>4
  <2>5. CASE gaze.session \in awaited /\ \E m \in Replies : m.generation = gaze.session
    <3>1. CASE h.generation # gaze.session
      BY <2>1, <2>2, <2>5, <3>1, Zenon
    <3>2. CASE h.generation = gaze.session
      <4>1. h.valid /\ machine.service
        BY <1>0, <2>1, <3>2, Zenon DEF BusInv, SessionIsConfirmed, InService
      <4>2. h.generation \in awaited /\ h.generation # generation
        BY <2>3, <2>5, <3>2
      <4>3. toGaze' = Sent(<<Stop>>)
        BY <1>5, <2>0, <2>3, <4>1, <4>2, Zenon DEF ReplyArrives, StaleReply, FailedReply, StartedReply
      <4>4. OnTheWay' = OnTheWay \cup {Stop}
        BY <1>0, <4>1, <4>3, Sending, ReleaseCallsAre DEF TypeInv, WorldTypes
      <4> QED
        BY <4>4
    <3> QED
      BY <3>1, <3>2
  <2> QED
    BY <1>0, <2>1, <2>2, <2>4, <2>5, Zenon DEF StopIsOnItsWay
<1>6. CASE StatusArrives
  <2>1. endedBy' = endedBy /\ awaited' = awaited
    <3>1. "gaze" # "user"
      OBVIOUS
    <3> QED
      BY <1>6, <3>1, Zenon DEF StatusArrives
  <2>2. OnTheWay \subseteq OnTheWay' /\ UNCHANGED <<gaze, lapsed>> /\ Replies' = Replies
    BY <1>0, <1>6, ApplicationSends, ReadingStatus
  <2> QED
    BY <1>1, <2>1, <2>2
<1>7. CASE FrameArrives \/ \E g \in previewTimers : PreviewTimerFires(g)
  BY <1>2, <1>7, Zenon DEF FrameArrives, PreviewTimerFires, readinessVars, busVars, pastVars
<1>8. ASSUME NEW g \in awaited, CallTimesOut(g) PROVE Goal
  <2>1. /\ UNCHANGED <<gaze, awaited, endedBy>> /\ toGaze' = toGaze /\ lapsed = 0
        /\ mail' = Append(mail, Reply(g, FALSE)) /\ g \in Nat
    BY <1>0, <1>8, SMT DEF CallTimesOut, readinessVars, TypeInv, NumberTypes
  <2>2. Replies \subseteq Replies' /\ OnTheWay' = OnTheWay
    BY <1>0, <2>1, PostingReply, SameCalls
  <2> QED
    BY <1>0, <2>1, <2>2, Zenon DEF StopIsOnItsWay
<1>9. gaze \in [claimed : BOOLEAN, pending : Nat, session : Nat]
  BY <1>0 DEF TypeInv, WorldTypes
<1>10. CASE GazeTakes
  <2>0. UNCHANGED <<awaited, lapsed, endedBy>>
    BY <1>10, Zenon DEF GazeTakes, pastVars
  <2>1. /\ Head(toGaze) \in OnTheWay /\ Head(toGaze) \in Calls
        /\ OnTheWay = {Head(toGaze)} \cup OnTheWay'
    BY <1>0, <1>10, Taking
  <2>2. CASE Head(toGaze).call = "EnrollStart"
    <3>1. Head(toGaze).generation \in Nat /\ Head(toGaze) # Stop
      BY <2>1, <2>2, StartFields, CallFields DEF IsStart
    <3>2. CASE gaze.session = 0 /\ gaze' = [gaze EXCEPT !.pending = Head(toGaze).generation]
      <4>1. gaze'.session = 0
        BY <1>9, <3>2
      <4> QED
        BY <4>1
    <3>3. CASE gaze' = gaze /\ mail' = Append(mail, Reply(Head(toGaze).generation, FALSE))
      <4>1. Replies \subseteq Replies'
        BY <1>0, <3>1, <3>3, PostingReply
      <4> QED
        BY <1>0, <2>0, <2>1, <3>1, <3>3, <4>1, Zenon DEF StopIsOnItsWay
    <3> QED
      BY <1>10, <2>2, <3>2, <3>3, Zenon DEF GazeTakes
  <2>3. CASE Head(toGaze).call = "EnrollStop"
    <3>1. gaze' = [gaze EXCEPT !.session = 0]
      <4>1. "EnrollStop" # "EnrollStart" /\ "EnrollStop" # "Release"
        OBVIOUS
      <4> QED
        BY <1>10, <2>3, <4>1, Zenon DEF GazeTakes
    <3>2. gaze'.session = 0
      BY <1>9, <3>1
    <3> QED
      BY <3>2
  <2>4. CASE Head(toGaze).call = "Release"
    <3>1. gaze' = [gaze EXCEPT !.claimed = FALSE] /\ mail' = mail
      <4>1. "Release" # "EnrollStart" /\ "EnrollStop" # "Release"
        OBVIOUS
      <4> QED
        BY <1>10, <2>4, <4>1, Zenon DEF GazeTakes
    <3>2. gaze'.session = gaze.session /\ Replies' = Replies
      BY <1>9, <3>1, SameMail
    <3>3. Head(toGaze) # Stop
      BY <2>1, <2>4, CallFields
    <3> QED
      BY <1>0, <2>0, <2>1, <3>2, <3>3, Zenon DEF StopIsOnItsWay
  <2> QED
    BY <2>1, <2>2, <2>3, <2>4, CallFields
<1>11. CASE GazeAnswers
  <2>1. UNCHANGED <<awaited, lapsed, endedBy>> /\ gaze.pending # 0
    BY <1>11, Zenon DEF GazeAnswers, pastVars
  <2>2. gaze.session = 0 /\ Unsettled(gaze.pending)
    BY <1>0, <2>1, Zenon DEF BusInv, StartsAreAwaited
  <2>3. CASE gaze' = [claimed |-> gaze.claimed, pending |-> 0, session |-> gaze.pending]
             /\ mail' = Append(mail, Reply(gaze.pending, TRUE))
    <3>1. gaze'.session = gaze.pending /\ gaze.pending \in Nat
      BY <1>9, <2>3
    <3>2. Reply(gaze.pending, TRUE) \in Replies' /\ Reply(gaze.pending, TRUE).generation = gaze.pending
      BY <1>0, <2>3, <3>1, PostingReply, ReplyFields
    <3>3. gaze.pending \in awaited
      BY <2>1, <2>2, <3>1, Zenon DEF Unsettled
    <3> QED
      BY <2>1, <3>1, <3>2, <3>3, Zenon
  <2>4. CASE gaze' = [gaze EXCEPT !.pending = 0]
    <3>1. gaze'.session = 0
      BY <1>9, <2>2, <2>4
    <3> QED
      BY <3>1
  <2> QED
    BY <1>11, <2>3, <2>4, Zenon DEF GazeAnswers
<1>12. CASE GazePoses
  <2>1. /\ UNCHANGED <<gaze, awaited, lapsed, endedBy>> /\ toGaze' = toGaze
        /\ mail' = Append(mail, Status(FALSE, "posing")) /\ "posing" \in Prompts
    BY <1>12, Zenon DEF GazePoses, readinessVars, pastVars, Prompts
  <2>2. Replies' = Replies /\ OnTheWay' = OnTheWay
    BY <1>0, <2>1, PostingStatus, SameCalls
  <2> QED
    BY <1>1, <2>1, <2>2
<1>13. CASE GazeEnds \/ GazeGoes
  <2>1. \/ gaze' = [gaze EXCEPT !.session = 0]
        \/ gaze' = [claimed |-> FALSE, pending |-> 0, session |-> 0]
    BY <1>13, Zenon DEF GazeEnds, GazeGoes
  <2>2. gaze'.session = 0
    BY <1>9, <2>1
  <2> QED
    BY <2>2
<1>14. CASE GazeComes
  BY <1>2, <1>14, Zenon DEF GazeComes, enrollmentVars, busVars, pastVars
<1> QED
  BY <1>3, <1>4, <1>5, <1>6, <1>7, <1>8, <1>10, <1>11, <1>12, <1>13, <1>14, StepsAre, Zenon DEF GazeStep

-----------------------------------------------------------------------------
(* The invariant, and what follows from it.                                *)

LEMMA EnrollInvInit == EnrollmentInit => EnrollInv
<1> SUFFICES ASSUME EnrollmentInit PROVE EnrollInv
  OBVIOUS
<1>1. /\ machine \in Machines /\ known \in Machines /\ toGaze = <<>> /\ mail = <<>>
      /\ gaze = [claimed |-> FALSE, pending |-> 0, session |-> 0]
      /\ awaited = {} /\ generation = 0 /\ prompt = "none"
      /\ claimed = FALSE /\ enrolling = FALSE /\ complete = FALSE /\ receipt \in BOOLEAN
      /\ preview = FALSE /\ frame = FALSE /\ previewTimers = {}
      /\ endedBy = "nobody" /\ confirmed = FALSE /\ lapsed = 0
  BY Zenon DEF EnrollmentInit
<1>2. gaze.claimed = FALSE /\ gaze.pending = 0 /\ gaze.session = 0
      /\ gaze \in [claimed : BOOLEAN, pending : Nat, session : Nat]
  BY <1>1
<1>3. <<>> \in Seq(Calls) /\ <<>> \in Seq(Mails)
  OBVIOUS
<1>4. Starts = {} /\ Replies = {} /\ OnTheWay = {}
  BY <1>1, <1>3, ElementsAre, Zenon DEF Starts, Replies, OnTheWay, Unread
<1>5. TypeInv
  <2>1. WorldTypes
    BY <1>1, <1>2, <1>3, Zenon DEF WorldTypes
  <2>2. NumberTypes
    BY <1>1, SMT DEF NumberTypes
  <2>3. ScreenTypes
    BY <1>1, Zenon DEF ScreenTypes, Prompts
  <2> QED
    BY <2>1, <2>2, <2>3 DEF TypeInv
<1>6. ClientInv
  BY <1>1, Zenon DEF ClientInv, ClaimIsEnrolment, TimerIsConfirmed, UserHasEnded, PreviewAfterCapture
<1>7. 0 <= generation
  BY <1>1
<1>8. BusInv /\ StartIsFirst
  BY <1>1, <1>2, <1>4, <1>7, Zenon
     DEF BusInv, StartIsFirst, InService, NumbersAreOld, StartsAreAwaited, SessionIsConfirmed
<1>9. ClaimIsOnItsWay /\ StopIsStale /\ StopIsOnItsWay
  BY <1>2, <1>4, Zenon DEF ClaimIsOnItsWay, StopIsStale, StopIsOnItsWay
<1> QED
  BY <1>5, <1>6, <1>8, <1>9 DEF EnrollInv

LEMMA EnrollInvStep ==
  EnrollInv /\ [EnrollmentNext]_<<readinessVars, enrollmentVars>> => EnrollInv'
<1>1. EnrollInv /\ EnrollmentNext => EnrollInv'
  BY TypeStep, ClientStep, BusStep, StopStaleStep, ClaimStep, StopStep DEF EnrollInv
<1>2. ASSUME EnrollInv, UNCHANGED <<readinessVars, enrollmentVars>> PROVE EnrollInv'
  <2>1. /\ UNCHANGED <<machine, known, gaze, awaited, generation, claimed, enrolling, complete,
                       prompt, receipt, preview, frame, previewTimers, endedBy, confirmed, lapsed>>
        /\ toGaze' = toGaze /\ mail' = mail
    BY <1>2, Zenon DEF readinessVars, enrollmentVars, busVars, clientVars, previewVars, pastVars
  <2>2. OnTheWay' = OnTheWay /\ Starts' = Starts /\ Replies' = Replies
        /\ (StartIsFirst <=> StartIsFirst')
    BY <2>1, SameCalls, SameMail
  <2>3. TypeInv'
    BY <1>2, <2>1, Zenon DEF EnrollInv, TypeInv, WorldTypes, NumberTypes, ScreenTypes
  <2>4. ClientInv'
    BY <1>2, <2>1, Zenon DEF EnrollInv, ClientInv, ClaimIsEnrolment, TimerIsConfirmed, UserHasEnded,
                             PreviewAfterCapture
  <2>5. BusInv'
    BY <1>2, <2>1, <2>2, Zenon DEF EnrollInv, BusInv, InService, NumbersAreOld, StartsAreAwaited,
                                   Unsettled, SessionIsConfirmed
  <2>6. ClaimIsOnItsWay' /\ StopIsStale' /\ StopIsOnItsWay'
    BY <1>2, <2>1, <2>2, Zenon DEF EnrollInv, ClaimIsOnItsWay, StopIsStale, StopIsOnItsWay
  <2> QED
    BY <1>2, <2>2, <2>3, <2>4, <2>5, <2>6 DEF EnrollInv
<1> QED
  BY <1>1, <1>2

(* What the invariant says of the properties.                              *)
LEMMA ClaimFollows == EnrollInv => ClaimIsReleased
<1>1. <<>> \in Seq(Calls)
  OBVIOUS
<1>2. toGaze = <<>> => OnTheWay = {}
  BY <1>1, ElementsAre, Zenon DEF OnTheWay
<1> QED
  BY <1>2, Zenon DEF EnrollInv, ClaimIsOnItsWay, ClaimIsReleased

LEMMA StopFollows == EnrollInv => CancelledIsStopped
<1> SUFFICES ASSUME EnrollInv, endedBy = "user", Delivered
             PROVE  ~gaze.claimed /\ (gaze.session = 0 \/ gaze.session = lapsed)
  BY Zenon DEF CancelledIsStopped
<1>1. <<>> \in Seq(Calls) /\ <<>> \in Seq(Mails)
  OBVIOUS
<1>2. OnTheWay = {} /\ Replies = {}
  BY <1>1, ElementsAre, Zenon DEF OnTheWay, Unread, Replies, Delivered
<1> QED
  BY <1>2, Zenon DEF EnrollInv, ClientInv, UserHasEnded, ClaimIsOnItsWay, StopIsOnItsWay

LEMMA SparingFollows == EnrollInv => StopSparesNewScan
<1> SUFFICES ASSUME EnrollInv, enrolling, NEW i \in DOMAIN toGaze PROVE toGaze[i] # Stop
  BY Zenon DEF StopSparesNewScan
<1>1. DOMAIN toGaze = 1..Len(toGaze)
  BY LenProperties DEF EnrollInv, TypeInv, WorldTypes
<1>2. toGaze[i] \in OnTheWay
  BY <1>1, Zenon DEF OnTheWay, Elems
<1> QED
  BY <1>2, Zenon DEF EnrollInv, StopIsStale

LEMMA PreviewFollows == EnrollInv => PreviewAfterCapture
BY Zenon DEF EnrollInv, ClientInv

(* Who owns a claim, a session and a start, at every step.                 *)
THEOREM EnrollmentInvariant == EnrollmentSpec => []EnrollInv
BY EnrollInvInit, EnrollInvStep, PTL DEF EnrollmentSpec

(* Every variable stays within its type: the application, Gaze and the     *)
(* messages between them, whatever is refused, late or gone.               *)
THEOREM TypeCorrect == EnrollmentSpec => []EnrollmentTypeOK
<1>1. EnrollInv => EnrollmentTypeOK
  BY TypesAreTypeOK DEF EnrollInv
<1> QED
  BY <1>1, EnrollmentInvariant, PTL

(* A claim does not outlive its enrolment: releaseClaim() is reached       *)
(* however beginEnrollment's session ends.                                 *)
THEOREM ClaimsAreReleased == EnrollmentSpec => []ClaimIsReleased
BY ClaimFollows, EnrollmentInvariant, PTL

(* What the user has cancelled is stopped, however late Gaze answers: by   *)
(* cancelEnrollment() or by the watcher of EnrollStart.                    *)
THEOREM CancellationStops == EnrollmentSpec => []CancelledIsStopped
BY StopFollows, EnrollmentInvariant, PTL

(* No leftover of an earlier enrolment stops the present session: a late   *)
(* reply sends EnrollStop only when nothing is enrolled.                   *)
THEOREM NewScansAreSpared == EnrollmentSpec => []StopSparesNewScan
BY SparingFollows, EnrollmentInvariant, PTL

(* The preview opens the camera only beside a session of this enrolment    *)
(* that Gaze has confirmed (the single shot after EnrollStart's reply).    *)
THEOREM PreviewFollowsCapture == EnrollmentSpec => []PreviewAfterCapture
BY PreviewFollows, EnrollmentInvariant, PTL
=============================================================================
