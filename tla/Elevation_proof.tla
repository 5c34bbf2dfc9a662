---------------------------- MODULE Elevation_proof ----------------------------
(***************************************************************************)
(* Proofs about Elevation for every set of requests, every bound and every *)
(* set of faults: types, grants and cancellations that rest on the user    *)
(* and the verifier, single flight, no orphans, and the refinement of      *)
(* ConsentDecision.                                                        *)
(*                                                                         *)
(* What a request came to depends on an exit status, that on a verifier    *)
(* and a queue, and those on the user: no property about sudo is inductive *)
(* without the chain in between, which SafetyInv spells out.               *)
(***************************************************************************)
EXTENDS Elevation, TLAPS

(* A coordinator holds the lock from its start to its end, and sudo waits  *)
(* exactly while it has a coordinator, whose question is then spent.       *)
CoordinatorMatches(r) ==
  /\ pc[r] \in Locked <=> lock = r
  /\ pc[r] # "none" <=> sudo[r] = "asking"
  /\ sudo[r] = "asking" => marker[r] = "attempted"
  /\ marker[r] # "none" => sudo[r] # "idle"

(* The children live only under a coordinator that will still end them.    *)
ChildrenMatch(r) ==
  /\ prompt[r] # "none" => pc[r] \in Locked \ {"unlock"}
  /\ verifier[r] # "none" => pc[r] \in {"loop", "reap", "verdict", "epilogue"}

(* The prompt's queue holds nothing but what the user said.                *)
QueueIsTheUsers(r) ==
  \A i \in 1 .. Len(toCoordinator[r]) : toCoordinator[r][i] \in said[r] \cup {"ready"}

(* Every stage of an answer rests on what the user and Gaze did.           *)
AnswerIsFounded(r) ==
  /\ verifier[r] # "none" => "approve" \in said[r]
  /\ verifier[r] = "verified" => r \in recognised
  /\ outcome[r] = "approved" \/ sudo[r] = "granted" => "approve" \in said[r] /\ r \in recognised
  /\ outcome[r] = "declined" \/ marker[r] = "declined" \/ sudo[r] = "cancelled" => Objected(r)

SafetyInv ==
  \A r \in Requests :
    CoordinatorMatches(r) /\ ChildrenMatch(r) /\ QueueIsTheUsers(r) /\ AnswerIsFounded(r)

-----------------------------------------------------------------------------

(* The types of what a coordinator that dies, and one that handles a       *)
(* response, leave behind.                                                 *)
LocalsTyped ==
  /\ pc' \in [Requests -> Labels]
  /\ phase' \in [Requests -> {"waiting", "deciding", "checking"}]
  /\ outcome' \in [Requests -> {"approved", "declined", "unavailable"}]
  /\ expired' \in [Requests -> BOOLEAN]

ChildrenTyped ==
  /\ verifier' \in [Requests -> {"none", "running", "verified", "failed"}]
  /\ toPrompt' \in [Requests -> Seq(Tokens)]

(* A dying coordinator leaves typed values.                                *)
LEMMA DiesTypes ==
  ASSUME TypeOK, NEW r \in Requests, NEW label \in Labels, CoordinatorDies(r, label)
  PROVE  /\ LocalsTyped /\ ChildrenTyped
         /\ lock' \in Requests \cup {NoRequest}
         /\ signalled' \in [Requests -> BOOLEAN]
         /\ hup' \in [Requests -> BOOLEAN]
         /\ prompt' \in [Requests -> {"none", "opening", "exited"} \cup Shown]
         /\ toCoordinator' \in [Requests -> Seq(Responses \cup {"ready"})]
<1> USE DEF TypeOK, CoordinatorDies
<1>1. LocalsTyped
  BY DEF LocalsTyped, CoordinatorTypeOK, GoTo, LocalsEnd
<1>2. ChildrenTyped
  BY DEF ChildrenTyped, ChildrenTypeOK
<1>3. /\ lock' \in Requests \cup {NoRequest}
      /\ signalled' \in [Requests -> BOOLEAN]
      /\ hup' \in [Requests -> BOOLEAN]
  BY DEF CoordinatorTypeOK, LocalsEnd
<1>4. /\ prompt' \in [Requests -> {"none", "opening", "exited"} \cup Shown]
      /\ toCoordinator' \in [Requests -> Seq(Responses \cup {"ready"})]
  BY DEF ChildrenTypeOK
<1>5. QED
  BY <1>1, <1>2, <1>3, <1>4

(* Handling a response leaves typed values.                                *)
LEMMA HandleTypes ==
  ASSUME TypeOK, NEW r \in Requests, NEW message, HandleResponse(r, message)
  PROVE  LocalsTyped /\ ChildrenTyped
<1> USE DEF TypeOK, CoordinatorTypeOK, ChildrenTypeOK, LocalsTyped, ChildrenTyped, GoTo,
            SetPhase, Decides, Labels, Locked, Tokens
<1>1. CASE AcceptReady(r, message)
  BY <1>1, SMT DEF AcceptReady
<1>2. CASE AcceptApproval(r, message)
  <2>1. [toPrompt EXCEPT ![r] = Append(@, "checking")] \in [Requests -> Seq(Tokens)]
    BY SMT
  <2>2. toPrompt' \in [Requests -> Seq(Tokens)]
    BY <1>2, <2>1 DEF AcceptApproval
  <2> DEFINE Runs  == /\ verifier' = [verifier EXCEPT ![r] = "running"]
                      /\ SetPhase(r, "checking") /\ GoTo(r, "reap")
             Fails == GoTo(r, "epilogue") /\ UNCHANGED <<verifier, phase, expired>>
  <2>3. (Runs \/ Fails) /\ UNCHANGED outcome
    BY <1>2, Zenon DEF AcceptApproval
  <2>4. CASE Runs
    BY <2>2, <2>3, <2>4, SMT
  <2>5. CASE Fails
    BY <2>2, <2>3, <2>5, SMT
  <2>6. QED
    BY <2>3, <2>4, <2>5
<1>3. CASE AcceptRefusal(r, message)
  BY <1>3, SMT DEF AcceptRefusal
<1>4. CASE AcceptCancel(r, message)
  BY <1>4, SMT DEF AcceptCancel
<1>5. CASE GiveUp(r, message)
  BY <1>5, SMT DEF GiveUp
<1>6. QED
  BY <1>1, <1>2, <1>3, <1>4, <1>5 DEF HandleResponse


(* Every step keeps the types of the PAM module's variables.               *)
LEMMA PamTypeOKStep == TypeOK /\ [Next]_vars => PamTypeOK'
<1> SUFFICES ASSUME TypeOK, [Next]_vars
             PROVE  PamTypeOK'
  OBVIOUS
<1> USE ElevationAssumption DEF pamVars, loopVars, channelVars, userVars, Locked,
            Labels, SudoStates, Shown, Responses, Tokens, TypeOK, PamTypeOK
<1>1. ASSUME NEW r \in Requests, Authenticate(r)
      PROVE  PamTypeOK'
  BY <1>1, SMT DEF Authenticate, SpendQuestion, Becomes, GoTo, DeclinedResult
<1>2. ASSUME NEW r \in Requests, PamReadsAnswer(r)
      PROVE  PamTypeOK'
  BY <1>2, SMT DEF PamReadsAnswer, Becomes, GoTo, DeclinedResult
<1>3. ASSUME NEW r \in Requests, PamGivesUp(r)
      PROVE  PamTypeOK'
  BY <1>3, SMT DEF PamGivesUp, CoordinatorDies, LocalsEnd, Becomes, GoTo
<1>4. ASSUME NEW r \in Requests, SudoEnds(r)
      PROVE  PamTypeOK'
  BY <1>4, SMT DEF SudoEnds, CoordinatorDies, LocalsEnd, Becomes, GoTo
<1>5. ASSUME NEW r \in Requests, CoordinatorCrashes(r)
      PROVE  PamTypeOK'
  BY <1>5, SMT DEF CoordinatorCrashes, CoordinatorDies, LocalsEnd, GoTo
<1>6. ASSUME NEW r \in Requests, Start(r)
      PROVE  PamTypeOK'
  BY <1>6, SMT DEF Start, LockFree, GoTo
<1>7. ASSUME NEW r \in Requests, Poll(r)
      PROVE  PamTypeOK'
  BY <1>7, SMT DEF Poll, HandleResponse, SetPhase, Decides, GoTo, PromptOpen,
     ApprovalArrives, RefusalArrives
<1>8. ASSUME NEW r \in Requests, Reap(r)
      PROVE  PamTypeOK'
  BY <1>8, SMT DEF Reap, CoordinatorDies, LocalsEnd, GoTo
<1>9. ASSUME NEW r \in Requests, Verdict(r)
      PROVE  PamTypeOK'
  BY <1>9, SMT DEF Verdict, Decides, GoTo, Matched, PromptOpen
<1>10. ASSUME NEW r \in Requests, Hold(r)
      PROVE  PamTypeOK'
  BY <1>10, SMT DEF Hold, GoTo
<1>11. ASSUME NEW r \in Requests, Epilogue(r)
      PROVE  PamTypeOK'
  BY <1>11, SMT DEF Epilogue, GoTo
<1>12. ASSUME NEW r \in Requests, Linger(r)
      PROVE  PamTypeOK'
  BY <1>12, SMT DEF Linger, GoTo
<1>13. ASSUME NEW r \in Requests, Close(r)
      PROVE  PamTypeOK'
  BY <1>13, SMT DEF Close, GoTo
<1>14. ASSUME NEW r \in Requests, Unlock(r)
      PROVE  PamTypeOK'
  BY <1>14, SMT DEF Unlock, LocalsEnd, GoTo
<1>15. ASSUME NEW r \in Requests, Expire(r)
      PROVE  PamTypeOK'
  BY <1>15, SMT DEF Expire
<1>16. ASSUME NEW r \in Requests, Interrupt(r)
      PROVE  PamTypeOK'
  BY <1>16, SMT DEF Interrupt
<1>17. ASSUME NEW r \in Requests, PromptReady(r)
      PROVE  PamTypeOK'
  BY <1>17, SMT DEF PromptReady
<1>18. ASSUME NEW r \in Requests, UserDecides(r)
      PROVE  PamTypeOK'
  BY <1>18, SMT DEF UserDecides, Respond
<1>19. ASSUME NEW r \in Requests, UserCancels(r)
      PROVE  PamTypeOK'
  BY <1>19, SMT DEF UserCancels, Respond
<1>20. ASSUME NEW r \in Requests, PromptExits(r)
      PROVE  PamTypeOK'
  BY <1>20, SMT DEF PromptExits, PromptOpen
<1>21. ASSUME NEW r \in Requests, PromptReceives(r)
      PROVE  PamTypeOK'
  BY <1>21, SMT DEF PromptReceives
<1>22. ASSUME NEW r \in Requests, NEW matched \in BOOLEAN, VerifierExits(r, matched)
      PROVE  PamTypeOK'
  BY <1>22, SMT DEF VerifierExits
<1>23. CASE UNCHANGED vars
  BY <1>23 DEF vars
<1> HIDE DEF pamVars, loopVars, channelVars, userVars, Locked, Labels, SudoStates,
            Shown, Responses, Tokens, TypeOK, PamTypeOK
<1>24. QED
  BY <1>1, <1>2, <1>3, <1>4, <1>5, <1>6, <1>7, <1>8, <1>9, <1>10, <1>11, <1>12,
     <1>13, <1>14, <1>15, <1>16, <1>17, <1>18, <1>19, <1>20, <1>21, <1>22,
     <1>23 DEF Next

(* Every step keeps the types of the coordinator's variables.              *)
LEMMA CoordinatorTypeOKStep == TypeOK /\ [Next]_vars => CoordinatorTypeOK'
<1> SUFFICES ASSUME TypeOK, [Next]_vars
             PROVE  CoordinatorTypeOK'
  OBVIOUS
<1> USE ElevationAssumption DEF pamVars, loopVars, channelVars, userVars, Locked,
            Labels, SudoStates, Shown, Responses, Tokens, TypeOK, CoordinatorTypeOK
<1>1. ASSUME NEW r \in Requests, Authenticate(r)
      PROVE  CoordinatorTypeOK'
  BY <1>1, SMT DEF Authenticate, SpendQuestion, Becomes, GoTo, DeclinedResult
<1>2. ASSUME NEW r \in Requests, PamReadsAnswer(r)
      PROVE  CoordinatorTypeOK'
  BY <1>2, SMT DEF PamReadsAnswer, Becomes, GoTo, DeclinedResult
<1>3. ASSUME NEW r \in Requests, PamGivesUp(r)
      PROVE  CoordinatorTypeOK'
  BY <1>3, SMT DEF PamGivesUp, CoordinatorDies, LocalsEnd, Becomes, GoTo
<1>4. ASSUME NEW r \in Requests, SudoEnds(r)
      PROVE  CoordinatorTypeOK'
  BY <1>4, SMT DEF SudoEnds, CoordinatorDies, LocalsEnd, Becomes, GoTo
<1>5. ASSUME NEW r \in Requests, CoordinatorCrashes(r)
      PROVE  CoordinatorTypeOK'
  BY <1>5, SMT DEF CoordinatorCrashes, CoordinatorDies, LocalsEnd, GoTo
<1>6. ASSUME NEW r \in Requests, Start(r)
      PROVE  CoordinatorTypeOK'
  BY <1>6, SMT DEF Start, LockFree, GoTo
<1>7. ASSUME NEW r \in Requests, Poll(r)
      PROVE  CoordinatorTypeOK'
  BY <1>7, HandleTypes DEF Poll, GoTo, LocalsTyped, PromptOpen
<1>8. ASSUME NEW r \in Requests, Reap(r)
      PROVE  CoordinatorTypeOK'
  BY <1>8, DiesTypes DEF Reap, GoTo, LocalsTyped
<1>9. ASSUME NEW r \in Requests, Verdict(r)
      PROVE  CoordinatorTypeOK'
  BY <1>9, SMT DEF Verdict, Decides, GoTo, Matched, PromptOpen
<1>10. ASSUME NEW r \in Requests, Hold(r)
      PROVE  CoordinatorTypeOK'
  BY <1>10, SMT DEF Hold, GoTo
<1>11. ASSUME NEW r \in Requests, Epilogue(r)
      PROVE  CoordinatorTypeOK'
  BY <1>11, SMT DEF Epilogue, GoTo
<1>12. ASSUME NEW r \in Requests, Linger(r)
      PROVE  CoordinatorTypeOK'
  BY <1>12, SMT DEF Linger, GoTo
<1>13. ASSUME NEW r \in Requests, Close(r)
      PROVE  CoordinatorTypeOK'
  BY <1>13, SMT DEF Close, GoTo
<1>14. ASSUME NEW r \in Requests, Unlock(r)
      PROVE  CoordinatorTypeOK'
  BY <1>14, SMT DEF Unlock, LocalsEnd, GoTo
<1>15. ASSUME NEW r \in Requests, Expire(r)
      PROVE  CoordinatorTypeOK'
  BY <1>15, SMT DEF Expire
<1>16. ASSUME NEW r \in Requests, Interrupt(r)
      PROVE  CoordinatorTypeOK'
  BY <1>16, SMT DEF Interrupt
<1>17. ASSUME NEW r \in Requests, PromptReady(r)
      PROVE  CoordinatorTypeOK'
  BY <1>17, SMT DEF PromptReady
<1>18. ASSUME NEW r \in Requests, UserDecides(r)
      PROVE  CoordinatorTypeOK'
  BY <1>18, SMT DEF UserDecides, Respond
<1>19. ASSUME NEW r \in Requests, UserCancels(r)
      PROVE  CoordinatorTypeOK'
  BY <1>19, SMT DEF UserCancels, Respond
<1>20. ASSUME NEW r \in Requests, PromptExits(r)
      PROVE  CoordinatorTypeOK'
  BY <1>20, SMT DEF PromptExits, PromptOpen
<1>21. ASSUME NEW r \in Requests, PromptReceives(r)
      PROVE  CoordinatorTypeOK'
  BY <1>21, SMT DEF PromptReceives
<1>22. ASSUME NEW r \in Requests, NEW matched \in BOOLEAN, VerifierExits(r, matched)
      PROVE  CoordinatorTypeOK'
  BY <1>22, SMT DEF VerifierExits
<1>23. CASE UNCHANGED vars
  BY <1>23 DEF vars
<1> HIDE DEF pamVars, loopVars, channelVars, userVars, Locked, Labels, SudoStates,
            Shown, Responses, Tokens, TypeOK, CoordinatorTypeOK
<1>24. QED
  BY <1>1, <1>2, <1>3, <1>4, <1>5, <1>6, <1>7, <1>8, <1>9, <1>10, <1>11, <1>12,
     <1>13, <1>14, <1>15, <1>16, <1>17, <1>18, <1>19, <1>20, <1>21, <1>22,
     <1>23 DEF Next

(* Every step keeps the types of the children's and the user's variables.  *)
LEMMA ChildrenTypeOKStep == TypeOK /\ [Next]_vars => ChildrenTypeOK'
<1> SUFFICES ASSUME TypeOK, [Next]_vars
             PROVE  ChildrenTypeOK'
  OBVIOUS
<1> USE ElevationAssumption DEF pamVars, loopVars, channelVars, userVars, Locked,
            Labels, SudoStates, Shown, Responses, Tokens, TypeOK, ChildrenTypeOK
<1>1. ASSUME NEW r \in Requests, Authenticate(r)
      PROVE  ChildrenTypeOK'
  BY <1>1, SMT DEF Authenticate, SpendQuestion, Becomes, GoTo, DeclinedResult
<1>2. ASSUME NEW r \in Requests, PamReadsAnswer(r)
      PROVE  ChildrenTypeOK'
  BY <1>2, SMT DEF PamReadsAnswer, Becomes, GoTo, DeclinedResult
<1>3. ASSUME NEW r \in Requests, PamGivesUp(r)
      PROVE  ChildrenTypeOK'
  BY <1>3, SMT DEF PamGivesUp, CoordinatorDies, LocalsEnd, Becomes, GoTo
<1>4. ASSUME NEW r \in Requests, SudoEnds(r)
      PROVE  ChildrenTypeOK'
  BY <1>4, SMT DEF SudoEnds, CoordinatorDies, LocalsEnd, Becomes, GoTo
<1>5. ASSUME NEW r \in Requests, CoordinatorCrashes(r)
      PROVE  ChildrenTypeOK'
  BY <1>5, SMT DEF CoordinatorCrashes, CoordinatorDies, LocalsEnd, GoTo
<1>6. ASSUME NEW r \in Requests, Start(r)
      PROVE  ChildrenTypeOK'
  <2>1. CASE LockFree /\ lock' = r
    BY <1>6, <2>1, SMT DEF Start, GoTo
  <2>2. CASE ~LockFree \/ lock' = lock
    BY <1>6, <2>2, SMT DEF Start, GoTo
  <2>3. QED
    BY <1>6, <2>1, <2>2 DEF Start
<1>7. ASSUME NEW r \in Requests, Poll(r)
      PROVE  ChildrenTypeOK'
  <2>1. toCoordinator' \in [Requests -> Seq(Responses \cup {"ready"})]
    <3>1. CASE toCoordinator[r] # <<>>
      <4>1. [toCoordinator EXCEPT ![r] = Tail(@)]
              \in [Requests -> Seq(Responses \cup {"ready"})]
        BY <3>1, SMT
      <4>2. QED
        BY <1>7, <4>1 DEF Poll
    <3>2. CASE toCoordinator[r] = <<>>
      BY <1>7, <3>2 DEF Poll
    <3>3. QED
      BY <3>1, <3>2
  <2>2. QED
    BY <1>7, <2>1, HandleTypes DEF Poll, ChildrenTyped
<1>8. ASSUME NEW r \in Requests, Reap(r)
      PROVE  ChildrenTypeOK'
  BY <1>8, DiesTypes DEF Reap, GoTo, ChildrenTyped
<1>9. ASSUME NEW r \in Requests, Verdict(r)
      PROVE  ChildrenTypeOK'
  <2> DEFINE token == IF Matched(r) THEN "success" ELSE "fallback"
  <2>1. token \in Tokens
    OBVIOUS
  <2> HIDE DEF token
  <2>2. [toPrompt EXCEPT ![r] = Append(@, token)] \in [Requests -> Seq(Tokens)]
    BY <2>1
  <2>3. toPrompt' \in [Requests -> Seq(Tokens)]
    BY <1>9, <2>2 DEF Verdict, token
  <2>4. QED
    BY <1>9, <2>3 DEF Verdict
<1>10. ASSUME NEW r \in Requests, Hold(r)
      PROVE  ChildrenTypeOK'
  BY <1>10, SMT DEF Hold, GoTo
<1>11. ASSUME NEW r \in Requests, Epilogue(r)
      PROVE  ChildrenTypeOK'
  <2>1. [toPrompt EXCEPT ![r] = Append(@, "fallback")] \in [Requests -> Seq(Tokens)]
    BY SMT
  <2>2. toPrompt' \in [Requests -> Seq(Tokens)]
    BY <1>11, <2>1 DEF Epilogue
  <2>3. QED
    BY <1>11, <2>2 DEF Epilogue
<1>12. ASSUME NEW r \in Requests, Linger(r)
      PROVE  ChildrenTypeOK'
  BY <1>12, SMT DEF Linger, GoTo
<1>13. ASSUME NEW r \in Requests, Close(r)
      PROVE  ChildrenTypeOK'
  BY <1>13, SMT DEF Close, GoTo
<1>14. ASSUME NEW r \in Requests, Unlock(r)
      PROVE  ChildrenTypeOK'
  BY <1>14, SMT DEF Unlock, LocalsEnd, GoTo
<1>15. ASSUME NEW r \in Requests, Expire(r)
      PROVE  ChildrenTypeOK'
  BY <1>15, SMT DEF Expire
<1>16. ASSUME NEW r \in Requests, Interrupt(r)
      PROVE  ChildrenTypeOK'
  BY <1>16, SMT DEF Interrupt
<1>17. ASSUME NEW r \in Requests, PromptReady(r)
      PROVE  ChildrenTypeOK'
  BY <1>17, SMT DEF PromptReady
<1>18. ASSUME NEW r \in Requests, UserDecides(r)
      PROVE  ChildrenTypeOK'
  BY <1>18, SMT DEF UserDecides, Respond
<1>19. ASSUME NEW r \in Requests, UserCancels(r)
      PROVE  ChildrenTypeOK'
  BY <1>19, SMT DEF UserCancels, Respond
<1>20. ASSUME NEW r \in Requests, PromptExits(r)
      PROVE  ChildrenTypeOK'
  BY <1>20, SMT DEF PromptExits, PromptOpen
<1>21. ASSUME NEW r \in Requests, PromptReceives(r)
      PROVE  ChildrenTypeOK'
  BY <1>21, SMT DEF PromptReceives
<1>22. ASSUME NEW r \in Requests, NEW matched \in BOOLEAN, VerifierExits(r, matched)
      PROVE  ChildrenTypeOK'
  BY <1>22, SMT DEF VerifierExits
<1>23. CASE UNCHANGED vars
  BY <1>23 DEF vars
<1> HIDE DEF pamVars, loopVars, channelVars, userVars, Locked, Labels, SudoStates,
            Shown, Responses, Tokens, TypeOK, ChildrenTypeOK
<1>24. QED
  BY <1>1, <1>2, <1>3, <1>4, <1>5, <1>6, <1>7, <1>8, <1>9, <1>10, <1>11, <1>12,
     <1>13, <1>14, <1>15, <1>16, <1>17, <1>18, <1>19, <1>20, <1>21, <1>22,
     <1>23 DEF Next

-----------------------------------------------------------------------------
(* Every step keeps sudo, coordinator and lock in agreement.               *)
LEMMA MatchStep ==
  TypeOK /\ SafetyInv /\ [Next]_vars => \A q \in Requests : CoordinatorMatches(q)'
<1> SUFFICES ASSUME TypeOK, SafetyInv, [Next]_vars, NEW q \in Requests
             PROVE  CoordinatorMatches(q)'
  OBVIOUS
<1>0. \A s \in Requests : CoordinatorMatches(s)
  BY DEF SafetyInv
<1> USE ElevationAssumption DEF pamVars, loopVars, channelVars, userVars, Locked,
            TypeOK, PamTypeOK, CoordinatorTypeOK, ChildrenTypeOK, Labels, Shown,
            CoordinatorMatches
<1>1. ASSUME NEW r \in Requests, Authenticate(r)
      PROVE  CoordinatorMatches(q)'
  BY <1>0, <1>1, SMT DEF Authenticate, SpendQuestion, Becomes, GoTo, DeclinedResult
<1>2. ASSUME NEW r \in Requests, PamReadsAnswer(r)
      PROVE  CoordinatorMatches(q)'
  BY <1>0, <1>2, SMT DEF PamReadsAnswer, Becomes, GoTo, DeclinedResult
<1>3. ASSUME NEW r \in Requests, PamGivesUp(r)
      PROVE  CoordinatorMatches(q)'
  BY <1>0, <1>3, SMT DEF PamGivesUp, CoordinatorDies, LocalsEnd, Becomes, GoTo
<1>4. ASSUME NEW r \in Requests, SudoEnds(r)
      PROVE  CoordinatorMatches(q)'
  BY <1>0, <1>4, SMT DEF SudoEnds, CoordinatorDies, LocalsEnd, Becomes, GoTo
<1>5. ASSUME NEW r \in Requests, CoordinatorCrashes(r)
      PROVE  CoordinatorMatches(q)'
  BY <1>0, <1>5, SMT DEF CoordinatorCrashes, CoordinatorDies, LocalsEnd, GoTo
<1>6. ASSUME NEW r \in Requests, Start(r)
      PROVE  CoordinatorMatches(q)'
  BY <1>0, <1>6, SMT DEF Start, LockFree, GoTo
<1>7. ASSUME NEW r \in Requests, Poll(r)
      PROVE  CoordinatorMatches(q)'
  BY <1>0, <1>7, SMT DEF Poll, HandleResponse, SetPhase, Decides, GoTo, PromptOpen,
     ApprovalArrives, RefusalArrives, AcceptReady, AcceptApproval,
     AcceptRefusal, AcceptCancel, GiveUp
<1>8. ASSUME NEW r \in Requests, Reap(r)
      PROVE  CoordinatorMatches(q)'
  BY <1>0, <1>8, SMT DEF Reap, CoordinatorDies, LocalsEnd, GoTo
<1>9. ASSUME NEW r \in Requests, Verdict(r)
      PROVE  CoordinatorMatches(q)'
  BY <1>0, <1>9, SMT DEF Verdict, Decides, GoTo, Matched, PromptOpen
<1>10. ASSUME NEW r \in Requests, Hold(r)
      PROVE  CoordinatorMatches(q)'
  BY <1>0, <1>10, SMT DEF Hold, GoTo
<1>11. ASSUME NEW r \in Requests, Epilogue(r)
      PROVE  CoordinatorMatches(q)'
  BY <1>0, <1>11, SMT DEF Epilogue, GoTo
<1>12. ASSUME NEW r \in Requests, Linger(r)
      PROVE  CoordinatorMatches(q)'
  BY <1>0, <1>12, SMT DEF Linger, GoTo
<1>13. ASSUME NEW r \in Requests, Close(r)
      PROVE  CoordinatorMatches(q)'
  BY <1>0, <1>13, SMT DEF Close, GoTo
<1>14. ASSUME NEW r \in Requests, Unlock(r)
      PROVE  CoordinatorMatches(q)'
  BY <1>0, <1>14, SMT DEF Unlock, LocalsEnd, GoTo
<1>15. ASSUME NEW r \in Requests, Expire(r)
      PROVE  CoordinatorMatches(q)'
  BY <1>0, <1>15, SMT DEF Expire
<1>16. ASSUME NEW r \in Requests, Interrupt(r)
      PROVE  CoordinatorMatches(q)'
  BY <1>0, <1>16, SMT DEF Interrupt
<1>17. ASSUME NEW r \in Requests, PromptReady(r)
      PROVE  CoordinatorMatches(q)'
  BY <1>0, <1>17, SMT DEF PromptReady
<1>18. ASSUME NEW r \in Requests, UserDecides(r)
      PROVE  CoordinatorMatches(q)'
  BY <1>0, <1>18, SMT DEF UserDecides, Respond
<1>19. ASSUME NEW r \in Requests, UserCancels(r)
      PROVE  CoordinatorMatches(q)'
  BY <1>0, <1>19, SMT DEF UserCancels, Respond
<1>20. ASSUME NEW r \in Requests, PromptExits(r)
      PROVE  CoordinatorMatches(q)'
  BY <1>0, <1>20, SMT DEF PromptExits, PromptOpen
<1>21. ASSUME NEW r \in Requests, PromptReceives(r)
      PROVE  CoordinatorMatches(q)'
  BY <1>0, <1>21, SMT DEF PromptReceives
<1>22. ASSUME NEW r \in Requests, NEW matched \in BOOLEAN, VerifierExits(r, matched)
      PROVE  CoordinatorMatches(q)'
  BY <1>0, <1>22, SMT DEF VerifierExits
<1>23. CASE UNCHANGED vars
  BY <1>0, <1>23 DEF vars
<1> HIDE DEF pamVars, loopVars, channelVars, userVars, Locked, TypeOK, PamTypeOK,
            CoordinatorTypeOK, ChildrenTypeOK, Labels, Shown, CoordinatorMatches
<1>24. QED
  BY <1>1, <1>2, <1>3, <1>4, <1>5, <1>6, <1>7, <1>8, <1>9, <1>10, <1>11, <1>12, <1>13,
     <1>14, <1>15, <1>16, <1>17, <1>18, <1>19, <1>20, <1>21, <1>22, <1>23 DEF Next

(* Every step keeps the children under a coordinator.                      *)
LEMMA ChildrenStep ==
  TypeOK /\ SafetyInv /\ [Next]_vars => \A q \in Requests : ChildrenMatch(q)'
<1> SUFFICES ASSUME TypeOK, SafetyInv, [Next]_vars, NEW q \in Requests
             PROVE  ChildrenMatch(q)'
  OBVIOUS
<1>0. \A s \in Requests : CoordinatorMatches(s) /\ ChildrenMatch(s)
  BY DEF SafetyInv
<1> USE ElevationAssumption DEF pamVars, loopVars, channelVars, userVars, Locked,
            TypeOK, PamTypeOK, CoordinatorTypeOK, ChildrenTypeOK, Labels, Shown,
            CoordinatorMatches, ChildrenMatch
<1>1. ASSUME NEW r \in Requests, Authenticate(r)
      PROVE  ChildrenMatch(q)'
  BY <1>0, <1>1, SMT DEF Authenticate, SpendQuestion, Becomes, GoTo, DeclinedResult
<1>2. ASSUME NEW r \in Requests, PamReadsAnswer(r)
      PROVE  ChildrenMatch(q)'
  BY <1>0, <1>2, SMT DEF PamReadsAnswer, Becomes, GoTo, DeclinedResult
<1>3. ASSUME NEW r \in Requests, PamGivesUp(r)
      PROVE  ChildrenMatch(q)'
  BY <1>0, <1>3, SMT DEF PamGivesUp, CoordinatorDies, LocalsEnd, Becomes, GoTo
<1>4. ASSUME NEW r \in Requests, SudoEnds(r)
      PROVE  ChildrenMatch(q)'
  BY <1>0, <1>4, SMT DEF SudoEnds, CoordinatorDies, LocalsEnd, Becomes, GoTo
<1>5. ASSUME NEW r \in Requests, CoordinatorCrashes(r)
      PROVE  ChildrenMatch(q)'
  BY <1>0, <1>5, SMT DEF CoordinatorCrashes, CoordinatorDies, LocalsEnd, GoTo
<1>6. ASSUME NEW r \in Requests, Start(r)
      PROVE  ChildrenMatch(q)'
  <2>1. CASE lock' = r /\ GoTo(r, "loop") /\ LockFree
    BY <1>0, <1>6, <2>1, SMT DEF Start, GoTo, LockFree
  <2>2. CASE GoTo(r, "exited") /\ UNCHANGED <<lock, prompt>>
    BY <1>0, <1>6, <2>2, SMT DEF Start, GoTo
  <2>3. QED
    BY <1>6, <2>1, <2>2, Zenon DEF Start
<1>7. ASSUME NEW r \in Requests, Poll(r)
      PROVE  ChildrenMatch(q)'
  BY <1>0, <1>7, SMT DEF Poll, HandleResponse, SetPhase, Decides, GoTo, PromptOpen,
     ApprovalArrives, RefusalArrives, AcceptReady, AcceptApproval,
     AcceptRefusal, AcceptCancel, GiveUp
<1>8. ASSUME NEW r \in Requests, Reap(r)
      PROVE  ChildrenMatch(q)'
  <2>1. CASE CoordinatorDies(r, "exited")
    BY <1>0, <1>8, <2>1, SMT DEF CoordinatorDies, LocalsEnd, GoTo
  <2>2. CASE GoTo(r, "verdict") /\ UNCHANGED <<lock, loopVars, prompt, verifier, channelVars>>
    BY <1>0, <1>8, <2>2, SMT DEF Reap, GoTo
  <2>3. QED
    BY <1>8, <2>1, <2>2, Zenon DEF Reap
<1>9. ASSUME NEW r \in Requests, Verdict(r)
      PROVE  ChildrenMatch(q)'
  BY <1>0, <1>9, SMT DEF Verdict, Decides, GoTo, Matched, PromptOpen
<1>10. ASSUME NEW r \in Requests, Hold(r)
      PROVE  ChildrenMatch(q)'
  BY <1>0, <1>10, SMT DEF Hold, GoTo
<1>11. ASSUME NEW r \in Requests, Epilogue(r)
      PROVE  ChildrenMatch(q)'
  BY <1>0, <1>11, SMT DEF Epilogue, GoTo
<1>12. ASSUME NEW r \in Requests, Linger(r)
      PROVE  ChildrenMatch(q)'
  BY <1>0, <1>12, SMT DEF Linger, GoTo
<1>13. ASSUME NEW r \in Requests, Close(r)
      PROVE  ChildrenMatch(q)'
  BY <1>0, <1>13, SMT DEF Close, GoTo
<1>14. ASSUME NEW r \in Requests, Unlock(r)
      PROVE  ChildrenMatch(q)'
  BY <1>0, <1>14, SMT DEF Unlock, LocalsEnd, GoTo
<1>15. ASSUME NEW r \in Requests, Expire(r)
      PROVE  ChildrenMatch(q)'
  BY <1>0, <1>15, SMT DEF Expire
<1>16. ASSUME NEW r \in Requests, Interrupt(r)
      PROVE  ChildrenMatch(q)'
  BY <1>0, <1>16, SMT DEF Interrupt
<1>17. ASSUME NEW r \in Requests, PromptReady(r)
      PROVE  ChildrenMatch(q)'
  BY <1>0, <1>17, SMT DEF PromptReady
<1>18. ASSUME NEW r \in Requests, UserDecides(r)
      PROVE  ChildrenMatch(q)'
  BY <1>0, <1>18, SMT DEF UserDecides, Respond
<1>19. ASSUME NEW r \in Requests, UserCancels(r)
      PROVE  ChildrenMatch(q)'
  BY <1>0, <1>19, SMT DEF UserCancels, Respond
<1>20. ASSUME NEW r \in Requests, PromptExits(r)
      PROVE  ChildrenMatch(q)'
  BY <1>0, <1>20, SMT DEF PromptExits, PromptOpen
<1>21. ASSUME NEW r \in Requests, PromptReceives(r)
      PROVE  ChildrenMatch(q)'
  BY <1>0, <1>21, SMT DEF PromptReceives
<1>22. ASSUME NEW r \in Requests, NEW matched \in BOOLEAN, VerifierExits(r, matched)
      PROVE  ChildrenMatch(q)'
  BY <1>0, <1>22, SMT DEF VerifierExits
<1>23. CASE UNCHANGED vars
  BY <1>0, <1>23 DEF vars
<1> HIDE DEF pamVars, loopVars, channelVars, userVars, Locked, TypeOK, PamTypeOK,
            CoordinatorTypeOK, ChildrenTypeOK, Labels, Shown, CoordinatorMatches,
            ChildrenMatch
<1>24. QED
  BY <1>1, <1>2, <1>3, <1>4, <1>5, <1>6, <1>7, <1>8, <1>9, <1>10, <1>11, <1>12, <1>13,
     <1>14, <1>15, <1>16, <1>17, <1>18, <1>19, <1>20, <1>21, <1>22, <1>23 DEF Next

(* Every step keeps the queue within what the user said.                   *)
LEMMA QueueStep ==
  TypeOK /\ SafetyInv /\ [Next]_vars => \A q \in Requests : QueueIsTheUsers(q)'
<1> SUFFICES ASSUME TypeOK, SafetyInv, [Next]_vars, NEW q \in Requests
             PROVE  QueueIsTheUsers(q)'
  OBVIOUS
<1>0. \A s \in Requests : QueueIsTheUsers(s)
  BY DEF SafetyInv
<1> USE ElevationAssumption DEF pamVars, loopVars, channelVars, userVars, Locked,
            TypeOK, PamTypeOK, CoordinatorTypeOK, ChildrenTypeOK, Labels, Shown,
            QueueIsTheUsers
<1>1. ASSUME NEW r \in Requests, Authenticate(r)
      PROVE  QueueIsTheUsers(q)'
  BY <1>0, <1>1, SMT DEF Authenticate, SpendQuestion, Becomes, GoTo, DeclinedResult
<1>2. ASSUME NEW r \in Requests, PamReadsAnswer(r)
      PROVE  QueueIsTheUsers(q)'
  BY <1>0, <1>2, SMT DEF PamReadsAnswer, Becomes, GoTo, DeclinedResult
<1>3. ASSUME NEW r \in Requests, PamGivesUp(r)
      PROVE  QueueIsTheUsers(q)'
  BY <1>0, <1>3, SMT DEF PamGivesUp, CoordinatorDies, LocalsEnd, Becomes, GoTo
<1>4. ASSUME NEW r \in Requests, SudoEnds(r)
      PROVE  QueueIsTheUsers(q)'
  BY <1>0, <1>4, SMT DEF SudoEnds, CoordinatorDies, LocalsEnd, Becomes, GoTo
<1>5. ASSUME NEW r \in Requests, CoordinatorCrashes(r)
      PROVE  QueueIsTheUsers(q)'
  BY <1>0, <1>5, SMT DEF CoordinatorCrashes, CoordinatorDies, LocalsEnd, GoTo
<1>6. ASSUME NEW r \in Requests, Start(r)
      PROVE  QueueIsTheUsers(q)'
  BY <1>0, <1>6, SMT DEF Start, LockFree, GoTo
<1>7. ASSUME NEW r \in Requests, Poll(r)
      PROVE  QueueIsTheUsers(q)'
  <2>1. said' = said
    BY <1>7 DEF Poll
  <2>2. CASE toCoordinator[r] # <<>> /\ toCoordinator' = [toCoordinator EXCEPT ![r] = Tail(@)]
    <3>1. \A i \in 1 .. Len(Tail(toCoordinator[r])) :
            Tail(toCoordinator[r])[i] \in said[r] \cup {"ready"}
      BY <1>0, <2>2, SMT
    <3>2. QED
      BY <1>0, <2>1, <2>2, <3>1, SMT
  <2>3. CASE toCoordinator' = toCoordinator
    BY <1>0, <2>1, <2>3, SMT
  <2>4. QED
    BY <1>7, <2>2, <2>3, Zenon DEF Poll
<1>8. ASSUME NEW r \in Requests, Reap(r)
      PROVE  QueueIsTheUsers(q)'
  <2>1. CASE toCoordinator' = toCoordinator
    BY <1>0, <1>8, <2>1, SMT DEF Reap
  <2>2. CASE CoordinatorDies(r, "exited")
    BY <1>0, <1>8, <2>2, SMT DEF Reap, CoordinatorDies
  <2>3. QED
    BY <1>8, <2>1, <2>2, Zenon DEF Reap
<1>9. ASSUME NEW r \in Requests, Verdict(r)
      PROVE  QueueIsTheUsers(q)'
  BY <1>0, <1>9, SMT DEF Verdict, Decides, GoTo, Matched, PromptOpen
<1>10. ASSUME NEW r \in Requests, Hold(r)
      PROVE  QueueIsTheUsers(q)'
  BY <1>0, <1>10, SMT DEF Hold, GoTo
<1>11. ASSUME NEW r \in Requests, Epilogue(r)
      PROVE  QueueIsTheUsers(q)'
  BY <1>0, <1>11, SMT DEF Epilogue, GoTo
<1>12. ASSUME NEW r \in Requests, Linger(r)
      PROVE  QueueIsTheUsers(q)'
  BY <1>0, <1>12, SMT DEF Linger, GoTo
<1>13. ASSUME NEW r \in Requests, Close(r)
      PROVE  QueueIsTheUsers(q)'
  BY <1>0, <1>13, SMT DEF Close, GoTo
<1>14. ASSUME NEW r \in Requests, Unlock(r)
      PROVE  QueueIsTheUsers(q)'
  BY <1>0, <1>14, SMT DEF Unlock, LocalsEnd, GoTo
<1>15. ASSUME NEW r \in Requests, Expire(r)
      PROVE  QueueIsTheUsers(q)'
  BY <1>0, <1>15, SMT DEF Expire
<1>16. ASSUME NEW r \in Requests, Interrupt(r)
      PROVE  QueueIsTheUsers(q)'
  BY <1>0, <1>16, SMT DEF Interrupt
<1>17. ASSUME NEW r \in Requests, PromptReady(r)
      PROVE  QueueIsTheUsers(q)'
  BY <1>0, <1>17, SMT DEF PromptReady
<1>18. ASSUME NEW r \in Requests, UserDecides(r)
      PROVE  QueueIsTheUsers(q)'
  BY <1>0, <1>18, SMT DEF UserDecides, Respond
<1>19. ASSUME NEW r \in Requests, UserCancels(r)
      PROVE  QueueIsTheUsers(q)'
  BY <1>0, <1>19, SMT DEF UserCancels, Respond
<1>20. ASSUME NEW r \in Requests, PromptExits(r)
      PROVE  QueueIsTheUsers(q)'
  BY <1>0, <1>20, SMT DEF PromptExits, PromptOpen
<1>21. ASSUME NEW r \in Requests, PromptReceives(r)
      PROVE  QueueIsTheUsers(q)'
  BY <1>0, <1>21, SMT DEF PromptReceives
<1>22. ASSUME NEW r \in Requests, NEW matched \in BOOLEAN, VerifierExits(r, matched)
      PROVE  QueueIsTheUsers(q)'
  BY <1>0, <1>22, SMT DEF VerifierExits
<1>23. CASE UNCHANGED vars
  BY <1>0, <1>23 DEF vars
<1> HIDE DEF pamVars, loopVars, channelVars, userVars, Locked, TypeOK, PamTypeOK,
            CoordinatorTypeOK, ChildrenTypeOK, Labels, Shown, QueueIsTheUsers
<1>24. QED
  BY <1>1, <1>2, <1>3, <1>4, <1>5, <1>6, <1>7, <1>8, <1>9, <1>10, <1>11, <1>12, <1>13,
     <1>14, <1>15, <1>16, <1>17, <1>18, <1>19, <1>20, <1>21, <1>22, <1>23 DEF Next

(* Every step keeps answers founded.                                       *)
LEMMA FoundedStep ==
  TypeOK /\ SafetyInv /\ [Next]_vars => \A q \in Requests : AnswerIsFounded(q)'
<1> SUFFICES ASSUME TypeOK, SafetyInv, [Next]_vars, NEW q \in Requests
             PROVE  AnswerIsFounded(q)'
  OBVIOUS
<1>0. \A s \in Requests : CoordinatorMatches(s) /\ QueueIsTheUsers(s) /\ AnswerIsFounded(s)
  BY DEF SafetyInv
<1> USE ElevationAssumption DEF pamVars, loopVars, channelVars, userVars, Locked,
            TypeOK, PamTypeOK, CoordinatorTypeOK, ChildrenTypeOK, Labels, Shown,
            CoordinatorMatches, QueueIsTheUsers, AnswerIsFounded, Objected
<1>1. ASSUME NEW r \in Requests, Authenticate(r)
      PROVE  AnswerIsFounded(q)'
  BY <1>0, <1>1, SMT DEF Authenticate, SpendQuestion, Becomes, GoTo, DeclinedResult
<1>2. ASSUME NEW r \in Requests, PamReadsAnswer(r)
      PROVE  AnswerIsFounded(q)'
  BY <1>0, <1>2, SMT DEF PamReadsAnswer, Becomes, GoTo, DeclinedResult
<1>3. ASSUME NEW r \in Requests, PamGivesUp(r)
      PROVE  AnswerIsFounded(q)'
  BY <1>0, <1>3, SMT DEF PamGivesUp, CoordinatorDies, LocalsEnd, Becomes, GoTo
<1>4. ASSUME NEW r \in Requests, SudoEnds(r)
      PROVE  AnswerIsFounded(q)'
  BY <1>0, <1>4, SMT DEF SudoEnds, CoordinatorDies, LocalsEnd, Becomes, GoTo
<1>5. ASSUME NEW r \in Requests, CoordinatorCrashes(r)
      PROVE  AnswerIsFounded(q)'
  BY <1>0, <1>5, SMT DEF CoordinatorCrashes, CoordinatorDies, LocalsEnd, GoTo
<1>6. ASSUME NEW r \in Requests, Start(r)
      PROVE  AnswerIsFounded(q)'
  BY <1>0, <1>6, SMT DEF Start, LockFree, GoTo
<1>7. ASSUME NEW r \in Requests, Poll(r)
      PROVE  AnswerIsFounded(q)'
  BY <1>0, <1>7, SMT DEF Poll, HandleResponse, SetPhase, Decides, GoTo, PromptOpen,
     ApprovalArrives, RefusalArrives, AcceptReady, AcceptApproval,
     AcceptRefusal, AcceptCancel, GiveUp
<1>8. ASSUME NEW r \in Requests, Reap(r)
      PROVE  AnswerIsFounded(q)'
  BY <1>0, <1>8, SMT DEF Reap, CoordinatorDies, LocalsEnd, GoTo
<1>9. ASSUME NEW r \in Requests, Verdict(r)
      PROVE  AnswerIsFounded(q)'
  BY <1>0, <1>9, SMT DEF Verdict, Decides, GoTo, Matched, PromptOpen
<1>10. ASSUME NEW r \in Requests, Hold(r)
      PROVE  AnswerIsFounded(q)'
  BY <1>0, <1>10, SMT DEF Hold, GoTo
<1>11. ASSUME NEW r \in Requests, Epilogue(r)
      PROVE  AnswerIsFounded(q)'
  BY <1>0, <1>11, SMT DEF Epilogue, GoTo
<1>12. ASSUME NEW r \in Requests, Linger(r)
      PROVE  AnswerIsFounded(q)'
  BY <1>0, <1>12, SMT DEF Linger, GoTo
<1>13. ASSUME NEW r \in Requests, Close(r)
      PROVE  AnswerIsFounded(q)'
  BY <1>0, <1>13, SMT DEF Close, GoTo
<1>14. ASSUME NEW r \in Requests, Unlock(r)
      PROVE  AnswerIsFounded(q)'
  BY <1>0, <1>14, SMT DEF Unlock, LocalsEnd, GoTo
<1>15. ASSUME NEW r \in Requests, Expire(r)
      PROVE  AnswerIsFounded(q)'
  BY <1>0, <1>15, SMT DEF Expire
<1>16. ASSUME NEW r \in Requests, Interrupt(r)
      PROVE  AnswerIsFounded(q)'
  BY <1>0, <1>16, SMT DEF Interrupt
<1>17. ASSUME NEW r \in Requests, PromptReady(r)
      PROVE  AnswerIsFounded(q)'
  BY <1>0, <1>17, SMT DEF PromptReady
<1>18. ASSUME NEW r \in Requests, UserDecides(r)
      PROVE  AnswerIsFounded(q)'
  BY <1>0, <1>18, SMT DEF UserDecides, Respond
<1>19. ASSUME NEW r \in Requests, UserCancels(r)
      PROVE  AnswerIsFounded(q)'
  BY <1>0, <1>19, SMT DEF UserCancels, Respond
<1>20. ASSUME NEW r \in Requests, PromptExits(r)
      PROVE  AnswerIsFounded(q)'
  BY <1>0, <1>20, SMT DEF PromptExits, PromptOpen
<1>21. ASSUME NEW r \in Requests, PromptReceives(r)
      PROVE  AnswerIsFounded(q)'
  BY <1>0, <1>21, SMT DEF PromptReceives
<1>22. ASSUME NEW r \in Requests, NEW matched \in BOOLEAN, VerifierExits(r, matched)
      PROVE  AnswerIsFounded(q)'
  BY <1>0, <1>22, SMT DEF VerifierExits
<1>23. CASE UNCHANGED vars
  BY <1>0, <1>23 DEF vars
<1> HIDE DEF pamVars, loopVars, channelVars, userVars, Locked, TypeOK, PamTypeOK,
            CoordinatorTypeOK, ChildrenTypeOK, Labels, Shown, CoordinatorMatches,
            QueueIsTheUsers, AnswerIsFounded, Objected
<1>24. QED
  BY <1>1, <1>2, <1>3, <1>4, <1>5, <1>6, <1>7, <1>8, <1>9, <1>10, <1>11, <1>12, <1>13,
     <1>14, <1>15, <1>16, <1>17, <1>18, <1>19, <1>20, <1>21, <1>22, <1>23 DEF Next

-----------------------------------------------------------------------------
(* How the contract's variables follow the model's.                        *)

Spent      == {q \in Requests : marker[q] # "none"}
Consents   == {q \in Requests : "approve" \in said[q]}
Objections == {q \in Requests : Objected(q)}

(* What the contract speaks of is unchanged if these four variables are.   *)
LEMMA DecisionStutters ==
  UNCHANGED <<sudo, marker, said, recognised>> => UNCHANGED Decision!decisionVars
BY DEF Decision!decisionVars, DecisionOf, Objected

(* A request that gets its answer is decided.                              *)
LEMMA DecisionMoves ==
  ASSUME TypeOK, NEW r \in Requests, NEW next, next \notin {"idle", "asking"},
         Becomes(r, next)
  PROVE  Decision!Decided(r, next)
BY DEF Decision!Decided, DecisionOf, Becomes, TypeOK, PamTypeOK

(* Remembering a decline spends no further question.                       *)
LEMMA SpentStays ==
  ASSUME TypeOK, NEW r \in Requests, marker[r] # "none",
         marker' = [marker EXCEPT ![r] = "declined"]
  PROVE  UNCHANGED Spent
BY DEF TypeOK, PamTypeOK, Spent

(* Spending the question of a request adds it to the spent ones.           *)
LEMMA SpentGrows ==
  ASSUME TypeOK, NEW r \in Requests, SpendQuestion(r)
  PROVE  Spent' = Spent \cup {r}
BY DEF TypeOK, PamTypeOK, SpendQuestion, Spent

(* A response is a consent or an objection, never both.                    *)
LEMMA RespondMaps ==
  ASSUME TypeOK, NEW r \in Requests, NEW message \in Responses, Respond(r, message)
  PROVE  /\ message = "approve" => Consents' = Consents \cup {r} /\ UNCHANGED Objections
         /\ message # "approve" => Objections' = Objections \cup {r} /\ UNCHANGED Consents
<1>1. said' = [said EXCEPT ![r] = said[r] \cup {message}]
  BY DEF Respond
<1>2. \A q \in Requests : said'[q] = IF q = r THEN said[r] \cup {message} ELSE said[q]
  BY <1>1 DEF TypeOK, ChildrenTypeOK
<1>3. QED
  BY <1>2 DEF Consents, Objections, Objected, Responses

(* Every step is a step of the contract or changes nothing it speaks of.   *)
LEMMA DecisionStep ==
  TypeOK /\ SafetyInv /\ [Next]_vars => [Decision!Next]_(Decision!decisionVars)
<1> SUFFICES ASSUME TypeOK, SafetyInv, [Next]_vars
             PROVE  [Decision!Next]_(Decision!decisionVars)
  OBVIOUS
<1> USE DEF pamVars, userVars

<1>1. ASSUME NEW r \in Requests, Authenticate(r)
      PROVE  [Decision!Next]_(Decision!decisionVars)
  <2>0. CoordinatorMatches(r) /\ AnswerIsFounded(r)
    BY DEF SafetyInv
  <2>1. CASE marker[r] = "declined" /\ Becomes(r, "cancelled") /\ UNCHANGED marker
    <3>1. Decision!Cancel(r)
      BY <1>1, <2>0, <2>1, DecisionMoves DEF Decision!Cancel, Authenticate, DecisionOf,
         CoordinatorMatches, AnswerIsFounded, Objected
    <3>2. QED
      BY <3>1 DEF Decision!Next
  <2>2. CASE Becomes(r, "password") /\ (UNCHANGED marker \/ SpendQuestion(r))
    <3>1. Spent' \in {Spent, Spent \cup {r}}
      BY <2>2, SpentGrows DEF Spent
    <3>2. Decision!FallBack(r)
      BY <1>1, <2>2, <3>1, DecisionMoves DEF Decision!FallBack, Authenticate, DecisionOf,
         Spent, Objected
    <3>3. QED
      BY <3>2 DEF Decision!Next
  <2>3. CASE marker[r] = "none" /\ SpendQuestion(r) /\ Becomes(r, "asking")
    <3>1. Decision!Decided(r, "asked")
      BY <2>3 DEF Decision!Decided, DecisionOf, Becomes, TypeOK, PamTypeOK
    <3>2. Decision!Ask(r)
      BY <1>1, <2>3, <3>1, SpentGrows DEF Decision!Ask, Authenticate, DecisionOf, Spent,
         Objected
    <3>3. QED
      BY <3>2 DEF Decision!Next
  <2>4. QED
    BY <1>1, <2>1, <2>2, <2>3, Zenon DEF Authenticate, DeclinedResult
<1>2. ASSUME NEW r \in Requests, PamReadsAnswer(r)
      PROVE  [Decision!Next]_(Decision!decisionVars)
  <2>0. CoordinatorMatches(r) /\ AnswerIsFounded(r)
    BY DEF SafetyInv
  <2>1. CASE outcome[r] = "approved" /\ Becomes(r, "granted") /\ UNCHANGED marker
    <3>1. Decision!Grant(r)
      BY <1>2, <2>0, <2>1, DecisionMoves DEF Decision!Grant, PamReadsAnswer, DecisionOf,
         AnswerIsFounded, Objected
    <3>2. QED
      BY <3>1 DEF Decision!Next
  <2>2. CASE /\ outcome[r] = "declined" /\ marker' = [marker EXCEPT ![r] = "declined"]
             /\ Becomes(r, DeclinedResult)
    <3>1. UNCHANGED Spent
      BY <1>2, <2>0, <2>2, SpentStays DEF PamReadsAnswer, CoordinatorMatches
    <3>2. CASE DeclinedResult = "cancelled"
      <4>1. Decision!Cancel(r)
        BY <1>2, <2>0, <2>2, <3>1, <3>2, DecisionMoves DEF Decision!Cancel,
     PamReadsAnswer,
           DecisionOf, AnswerIsFounded, Objected, Spent
      <4>2. QED
        BY <4>1 DEF Decision!Next
    <3>3. CASE DeclinedResult = "password"
      <4>1. Decision!FallBack(r)
        BY <1>2, <2>2, <3>1, <3>3, DecisionMoves DEF Decision!FallBack, PamReadsAnswer,
           DecisionOf, Objected, Spent
      <4>2. QED
        BY <4>1 DEF Decision!Next
    <3>4. QED
      BY <3>2, <3>3 DEF DeclinedResult
  <2>3. CASE Becomes(r, "password") /\ UNCHANGED marker
    <3>1. Decision!FallBack(r)
      BY <1>2, <2>3, DecisionMoves DEF Decision!FallBack, PamReadsAnswer, DecisionOf,
     Objected
    <3>2. QED
      BY <3>1 DEF Decision!Next
  <2>4. QED
    BY <1>2, <2>1, <2>2, <2>3, Zenon DEF PamReadsAnswer
<1>3. ASSUME NEW r \in Requests, PamGivesUp(r)
      PROVE  [Decision!Next]_(Decision!decisionVars)
  <2>1. Decision!FallBack(r)
    BY <1>3, DecisionMoves DEF Decision!FallBack, PamGivesUp, DecisionOf, Objected
  <2>2. QED
    BY <2>1 DEF Decision!Next
<1>4. ASSUME NEW r \in Requests, SudoEnds(r)
      PROVE  [Decision!Next]_(Decision!decisionVars)
  <2>1. Decision!End(r)
    BY <1>4, DecisionMoves DEF Decision!End, SudoEnds, DecisionOf, Objected
  <2>2. QED
    BY <2>1 DEF Decision!Next
<1>5. ASSUME NEW r \in Requests, CoordinatorCrashes(r)
      PROVE  [Decision!Next]_(Decision!decisionVars)
  BY <1>5, DecisionStutters DEF CoordinatorCrashes
<1>6. ASSUME NEW r \in Requests, Start(r)
      PROVE  [Decision!Next]_(Decision!decisionVars)
  BY <1>6, DecisionStutters DEF Start
<1>7. ASSUME NEW r \in Requests, Poll(r)
      PROVE  [Decision!Next]_(Decision!decisionVars)
  BY <1>7, DecisionStutters DEF Poll
<1>8. ASSUME NEW r \in Requests, Reap(r)
      PROVE  [Decision!Next]_(Decision!decisionVars)
  BY <1>8, DecisionStutters DEF Reap
<1>9. ASSUME NEW r \in Requests, Verdict(r)
      PROVE  [Decision!Next]_(Decision!decisionVars)
  BY <1>9, DecisionStutters DEF Verdict
<1>10. ASSUME NEW r \in Requests, Hold(r)
      PROVE  [Decision!Next]_(Decision!decisionVars)
  BY <1>10, DecisionStutters DEF Hold
<1>11. ASSUME NEW r \in Requests, Epilogue(r)
      PROVE  [Decision!Next]_(Decision!decisionVars)
  BY <1>11, DecisionStutters DEF Epilogue
<1>12. ASSUME NEW r \in Requests, Linger(r)
      PROVE  [Decision!Next]_(Decision!decisionVars)
  BY <1>12, DecisionStutters DEF Linger
<1>13. ASSUME NEW r \in Requests, Close(r)
      PROVE  [Decision!Next]_(Decision!decisionVars)
  BY <1>13, DecisionStutters DEF Close
<1>14. ASSUME NEW r \in Requests, Unlock(r)
      PROVE  [Decision!Next]_(Decision!decisionVars)
  BY <1>14, DecisionStutters DEF Unlock
<1>15. ASSUME NEW r \in Requests, Expire(r)
      PROVE  [Decision!Next]_(Decision!decisionVars)
  BY <1>15, DecisionStutters DEF Expire
<1>16. ASSUME NEW r \in Requests, Interrupt(r)
      PROVE  [Decision!Next]_(Decision!decisionVars)
  BY <1>16, DecisionStutters DEF Interrupt
<1>17. ASSUME NEW r \in Requests, PromptReady(r)
      PROVE  [Decision!Next]_(Decision!decisionVars)
  BY <1>17, DecisionStutters DEF PromptReady
<1>18. ASSUME NEW r \in Requests, UserDecides(r)
      PROVE  [Decision!Next]_(Decision!decisionVars)
  <2>0. CoordinatorMatches(r) /\ AnswerIsFounded(r)
    BY DEF SafetyInv
  <2>1. sudo[r] = "asking"
    BY <1>18, <2>0 DEF SafetyInv, ChildrenMatch, CoordinatorMatches, UserDecides, Locked
  <2>2. CASE Respond(r, "approve")
    <3>1. Decision!Consent(r)
      BY <2>1, <2>2, RespondMaps DEF Decision!Consent, Respond, DecisionOf, Responses,
         Consents, Objections
    <3>2. QED
      BY <3>1 DEF Decision!Next
  <2>3. CASE Respond(r, "deny")
    <3>1. Decision!Object(r)
      BY <2>1, <2>3, RespondMaps DEF Decision!Object, Respond, DecisionOf, Responses,
         Consents, Objections
    <3>2. QED
      BY <3>1 DEF Decision!Next
  <2>4. QED
    BY <1>18, <2>2, <2>3 DEF UserDecides
<1>19. ASSUME NEW r \in Requests, UserCancels(r)
      PROVE  [Decision!Next]_(Decision!decisionVars)
  <2>0. CoordinatorMatches(r) /\ AnswerIsFounded(r)
    BY DEF SafetyInv
  <2>1. sudo[r] = "asking"
    BY <1>19, <2>0 DEF SafetyInv, ChildrenMatch, CoordinatorMatches, UserCancels, Locked
  <2>2. Decision!Object(r)
    BY <1>19, <2>1, RespondMaps DEF UserCancels, Decision!Object, Respond, DecisionOf,
       Responses, Consents, Objections
  <2>3. QED
    BY <2>2 DEF Decision!Next
<1>20. ASSUME NEW r \in Requests, PromptExits(r)
      PROVE  [Decision!Next]_(Decision!decisionVars)
  BY <1>20, DecisionStutters DEF PromptExits
<1>21. ASSUME NEW r \in Requests, PromptReceives(r)
      PROVE  [Decision!Next]_(Decision!decisionVars)
  BY <1>21, DecisionStutters DEF PromptReceives
<1>22. ASSUME NEW r \in Requests, NEW matched \in BOOLEAN, VerifierExits(r, matched)
      PROVE  [Decision!Next]_(Decision!decisionVars)
  <2>0. CoordinatorMatches(r) /\ AnswerIsFounded(r)
    BY DEF SafetyInv
  <2>1. sudo[r] = "asking" /\ "approve" \in said[r]
    BY <1>22, <2>0 DEF SafetyInv, ChildrenMatch, CoordinatorMatches, AnswerIsFounded,
       VerifierExits, Locked
  <2>2. CASE matched
    <3>1. Decision!Match(r)
      BY <1>22, <2>1, <2>2 DEF VerifierExits, Decision!Match, DecisionOf, Objected
    <3>2. QED
      BY <3>1 DEF Decision!Next
  <2>3. CASE ~matched
    BY <1>22, <2>3, DecisionStutters DEF VerifierExits
  <2>4. QED
    BY <2>2, <2>3
<1>23. CASE UNCHANGED vars
  BY <1>23, DecisionStutters DEF vars
<1>24. QED
  BY <1>1, <1>2, <1>3, <1>4, <1>5, <1>6, <1>7, <1>8, <1>9, <1>10, <1>11, <1>12,
     <1>13, <1>14, <1>15, <1>16, <1>17, <1>18, <1>19, <1>20, <1>21, <1>22,
     <1>23 DEF Next

-----------------------------------------------------------------------------
(* Every variable keeps its type.                                          *)
THEOREM TypeCorrect == Spec => []TypeOK
<1>1. Init => TypeOK
  BY DEF Init, TypeOK, PamTypeOK, CoordinatorTypeOK, ChildrenTypeOK, SudoStates, Labels,
         Locked, Shown, Responses, Tokens
<1>2. TypeOK /\ [Next]_vars => TypeOK'
  BY PamTypeOKStep, CoordinatorTypeOKStep, ChildrenTypeOKStep DEF TypeOK
<1>3. QED
  BY <1>1, <1>2, PTL DEF Spec

(* The inductive invariant holds in every reachable state.                 *)
THEOREM SafetyCorrect == Spec => []SafetyInv
<1>1. Init => SafetyInv
  <2> SUFFICES ASSUME Init, NEW q \in Requests
               PROVE  /\ CoordinatorMatches(q) /\ ChildrenMatch(q)
                      /\ QueueIsTheUsers(q) /\ AnswerIsFounded(q)
    BY DEF SafetyInv
  <2>1. CoordinatorMatches(q) /\ ChildrenMatch(q)
    BY ElevationAssumption DEF Init, CoordinatorMatches, ChildrenMatch, Locked
  <2>2. QueueIsTheUsers(q)
    BY DEF Init, QueueIsTheUsers
  <2>3. AnswerIsFounded(q)
    BY DEF Init, AnswerIsFounded, Objected
  <2>4. QED
    BY <2>1, <2>2, <2>3
<1>2. TypeOK /\ SafetyInv /\ [Next]_vars => SafetyInv'
  <2> SUFFICES ASSUME TypeOK, SafetyInv, [Next]_vars, NEW q \in Requests
               PROVE  /\ CoordinatorMatches(q)' /\ ChildrenMatch(q)'
                      /\ QueueIsTheUsers(q)' /\ AnswerIsFounded(q)'
    BY DEF SafetyInv
  <2>1. QED
    BY MatchStep, ChildrenStep, QueueStep, FoundedStep
<1>3. QED
  BY <1>1, <1>2, TypeCorrect, PTL DEF Spec

(* A granted request was approved by the user and then recognised, for any *)
(* number of concurrent requests and whatever fails.                       *)
THEOREM GrantFounded == Spec => []GrantIsConsentedAndVerified
<1>1. SafetyInv => GrantIsConsentedAndVerified
  BY DEF SafetyInv, AnswerIsFounded, GrantIsConsentedAndVerified
<1>2. QED
  BY <1>1, SafetyCorrect, PTL

(* No verifier runs without the user's approval.                           *)
THEOREM CameraNeedsConsent == Spec => []FaceCheckNeedsConsent
<1>1. SafetyInv => FaceCheckNeedsConsent
  BY DEF SafetyInv, AnswerIsFounded, ChildrenMatch, FaceCheckNeedsConsent, Locked
<1>2. QED
  BY <1>1, SafetyCorrect, PTL

(* A cancelled command was declined or cancelled by the user.              *)
THEOREM CancellationFounded == Spec => []CancellationIsTheUsers
<1>1. SafetyInv => CancellationIsTheUsers
  BY DEF SafetyInv, AnswerIsFounded, CancellationIsTheUsers, Objected
<1>2. QED
  BY <1>1, SafetyCorrect, PTL

(* At most one request has a window or a verifier: both need the lock.     *)
THEOREM SingleFlight == Spec => []OneRequestAtATime
<1>1. SafetyInv => OneRequestAtATime
  <2> SUFFICES ASSUME SafetyInv, NEW r \in Requests, NEW s \in Requests,
                      prompt[r] # "none" \/ verifier[r] # "none",
                      prompt[s] # "none" \/ verifier[s] # "none"
               PROVE  r = s
    BY DEF OneRequestAtATime
  <2>1. lock = r /\ lock = s
    BY DEF SafetyInv, CoordinatorMatches, ChildrenMatch, Locked
  <2>2. QED
    BY <2>1
<1>2. QED
  BY <1>1, SafetyCorrect, PTL

(* Window, verifier and lock are gone when sudo stops waiting.             *)
THEOREM OrphanFree == Spec => []NoOrphans
<1>1. SafetyInv => NoOrphans
  BY DEF SafetyInv, CoordinatorMatches, ChildrenMatch, NoOrphans, Locked
<1>2. QED
  BY <1>1, SafetyCorrect, PTL

(* Elevation implements the contract of a sudo approval.                   *)
THEOREM DecisionImplemented == Spec => ImplementsDecision
<1>1. Init => Decision!Init
  BY DEF Init, Decision!Init, DecisionOf, Objected
<1>2. QED
  BY <1>1, DecisionStep, TypeCorrect, SafetyCorrect, PTL
     DEF Spec, ImplementsDecision, Decision!Spec
=============================================================================
