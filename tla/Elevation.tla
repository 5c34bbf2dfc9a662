-------------------------------- MODULE Elevation --------------------------------
(***************************************************************************)
(* Approval of sudo requests by face (elevation/): the PAM module in each  *)
(* sudo process (pam_consent.c), the root coordinator it forks (main.cpp,  *)
(* requestConsent), and the two children of the coordinator, the prompt    *)
(* window (runPrompt, ConsentPrompt.qml) and the verifier (runVerifier).   *)
(*                                                                         *)
(* Several sudo processes run at once; a file lock lets one coordinator    *)
(* past its start.  The coordinator polls a socket pair it shares with the *)
(* prompt and waits for its children in a loop: its steps between two      *)
(* system calls that look at another process are one action each.  Clocks  *)
(* are abstracted: a deadline may expire at any time after it is set.      *)
(***************************************************************************)
EXTENDS Naturals, Sequences

CONSTANTS
  Requests,          \* sudo processes, one PAM transaction each
  NoRequest,
  MaxTries,          \* bound: password tries of one sudo process
  MaxQueue,          \* bound: responses waiting on the socket
  Faults,            \* what may go wrong in a run
  InterruptBlocked   \* sudo blocks SIGINT and its conversation reports it

(* System calls or gates that fail, processes that die, signals to the      *)
(* coordinator, its deadlines, the PAM module's patience and a window that  *)
(* is closed.                                                               *)
FaultKinds == {"call", "crash", "signal", "deadline", "overdue", "close"}

ASSUME ElevationAssumption ==
  /\ NoRequest \notin Requests
  /\ MaxTries \in Nat /\ MaxQueue \in Nat
  /\ Faults \subseteq FaultKinds
  /\ InterruptBlocked \in BOOLEAN

VARIABLES
  (* the PAM module and its sudo process *)
  sudo,        \* what the request is doing or has come to
  marker,      \* the PAM transaction's remembered state
  tries,
  (* the coordinator *)
  pc,          \* where its process is; "none" without one
  lock,        \* the request whose coordinator holds the single-flight lock
  phase, outcome,
  expired,     \* the phase's deadline has passed
  signalled,   \* coordinatorSignal
  hup,         \* the last poll() saw the prompt's end closed
  (* its children and the socket pair *)
  prompt, verifier,
  toCoordinator, toPrompt,
  (* history *)
  said,        \* the user's responses to the prompt
  recognised   \* requests whose verifier has succeeded

pamVars     == <<sudo, marker, tries>>
loopVars    == <<phase, outcome, expired, signalled, hup>>
channelVars == <<toCoordinator, toPrompt>>
userVars    == <<said, recognised>>

vars == <<pamVars, pc, lock, loopVars, prompt, verifier, channelVars, userVars>>

SudoStates == {"idle", "asking", "granted", "cancelled", "password", "ended"}
Locked     == {"loop", "reap", "verdict", "hold", "epilogue", "linger", "close", "unlock"}
Labels     == {"none", "start", "exited"} \cup Locked
Shown      == {"deciding", "checking", "success", "fallback"}
Responses  == {"approve", "deny", "cancel"}
Tokens     == {"checking", "success", "fallback"}

PamTypeOK ==
  /\ sudo \in [Requests -> SudoStates]
  /\ marker \in [Requests -> {"none", "attempted", "declined"}]
  /\ tries \in [Requests -> Nat]

CoordinatorTypeOK ==
  /\ pc \in [Requests -> Labels]
  /\ lock \in Requests \cup {NoRequest}
  /\ phase \in [Requests -> {"waiting", "deciding", "checking"}]
  /\ outcome \in [Requests -> {"approved", "declined", "unavailable"}]
  /\ expired \in [Requests -> BOOLEAN]
  /\ signalled \in [Requests -> BOOLEAN]
  /\ hup \in [Requests -> BOOLEAN]

ChildrenTypeOK ==
  /\ prompt \in [Requests -> {"none", "opening", "exited"} \cup Shown]
  /\ verifier \in [Requests -> {"none", "running", "verified", "failed"}]
  /\ toCoordinator \in [Requests -> Seq(Responses \cup {"ready"})]
  /\ toPrompt \in [Requests -> Seq(Tokens)]
  /\ said \in [Requests -> SUBSET Responses]
  /\ recognised \subseteq Requests

(* Every variable stays within its type: no answer, phase or message is    *)
(* ever one that its reader does not know.                                 *)
TypeOK == PamTypeOK /\ CoordinatorTypeOK /\ ChildrenTypeOK

-----------------------------------------------------------------------------
GoTo(r, label)   == pc' = [pc EXCEPT ![r] = label]
Becomes(r, next) == sudo' = [sudo EXCEPT ![r] = next]

PromptOpen(r) == prompt[r] \notin {"none", "exited"}

(* What declined_result() and the PAM line "auth_err=die default=ignore"   *)
(* make of a declined request.                                             *)
DeclinedResult == IF InterruptBlocked THEN "cancelled" ELSE "password"

Init ==
  /\ sudo = [r \in Requests |-> "idle"]
  /\ marker = [r \in Requests |-> "none"]
  /\ tries = [r \in Requests |-> 0]
  /\ pc = [r \in Requests |-> "none"]
  /\ lock = NoRequest
  /\ phase = [r \in Requests |-> "waiting"]
  /\ outcome = [r \in Requests |-> "unavailable"]
  /\ expired = [r \in Requests |-> FALSE]
  /\ signalled = [r \in Requests |-> FALSE]
  /\ hup = [r \in Requests |-> FALSE]
  /\ prompt = [r \in Requests |-> "none"]
  /\ verifier = [r \in Requests |-> "none"]
  /\ toCoordinator = [r \in Requests |-> <<>>]
  /\ toPrompt = [r \in Requests |-> <<>>]
  /\ said = [r \in Requests |-> {}]
  /\ recognised = {}

-----------------------------------------------------------------------------
(* A coordinator's local variables are gone with its process.              *)
LocalsEnd(r) ==
  /\ phase' = [phase EXCEPT ![r] = "waiting"]
  /\ expired' = [expired EXCEPT ![r] = FALSE]
  /\ signalled' = [signalled EXCEPT ![r] = FALSE]
  /\ hup' = [hup EXCEPT ![r] = FALSE]

(* The end of a coordinator by any way but its own return: its children    *)
(* are killed with it (PR_SET_PDEATHSIG) and its lock is released.         *)
CoordinatorDies(r, label) ==
  /\ GoTo(r, label)
  /\ LocalsEnd(r)
  /\ outcome' = [outcome EXCEPT ![r] = "unavailable"]
  /\ lock' = IF lock = r THEN NoRequest ELSE lock
  /\ prompt' = [prompt EXCEPT ![r] = "none"]
  /\ verifier' = [verifier EXCEPT ![r] = "none"]
  /\ toCoordinator' = [toCoordinator EXCEPT ![r] = <<>>]
  /\ toPrompt' = [toPrompt EXCEPT ![r] = <<>>]

-----------------------------------------------------------------------------
(* The PAM module.                                                         *)

\* Fault: the transaction is marked once an answer has come.
SpendQuestionFault(r) == UNCHANGED marker

(* The transaction's question is spent before the coordinator is forked.   *)
SpendQuestion(r) == marker' = [marker EXCEPT ![r] = "attempted"]

(* sudo authenticates, for the first time or after a wrong password.       *)
Authenticate(r) ==
  /\ \/ sudo[r] = "idle"
     \/ sudo[r] = "password" /\ tries[r] < MaxTries
  /\ tries' = [tries EXCEPT ![r] = @ + 1]
  /\ \/ /\ marker[r] = "declined"
        /\ Becomes(r, DeclinedResult)
        /\ UNCHANGED <<marker, pc>>
     \/ /\ marker[r] # "declined"  \* asked before, or not a local session
        /\ Becomes(r, "password")
        /\ UNCHANGED <<marker, pc>>
     \/ /\ marker[r] = "none" /\ "call" \in Faults
        /\ SpendQuestion(r)
        /\ Becomes(r, "password")
        /\ UNCHANGED pc
     \/ /\ marker[r] = "none"
        /\ SpendQuestion(r)
        /\ Becomes(r, "asking") /\ GoTo(r, "start")
  /\ UNCHANGED <<lock, loopVars, prompt, verifier, channelVars, userVars>>

(* wait_for_helper() sees the coordinator's exit status.                   *)
PamReadsAnswer(r) ==
  /\ sudo[r] = "asking" /\ pc[r] = "exited"
  /\ GoTo(r, "none")
  /\ outcome' = [outcome EXCEPT ![r] = "unavailable"]
  /\ \/ /\ outcome[r] = "approved"
        /\ Becomes(r, "granted")
        /\ UNCHANGED marker
     \/ /\ outcome[r] = "declined"
        /\ marker' = [marker EXCEPT ![r] = "declined"]
        /\ Becomes(r, DeclinedResult)
     \/ /\ outcome[r] = "unavailable"
        /\ Becomes(r, "password")
        /\ UNCHANGED marker
  /\ UNCHANGED <<tries, lock, phase, expired, signalled, hup, prompt, verifier, channelVars, userVars>>

(* wait_for_helper() has waited 80 seconds: SIGKILL.                       *)
PamGivesUp(r) ==
  /\ "overdue" \in Faults
  /\ sudo[r] = "asking"
  /\ CoordinatorDies(r, "none")
  /\ Becomes(r, "password")
  /\ UNCHANGED <<marker, tries, userVars>>

(* The password is accepted or given up, or sudo itself is killed.         *)
SudoEnds(r) ==
  /\ \/ sudo[r] = "password"
     \/ sudo[r] = "asking" /\ "crash" \in Faults
  /\ CoordinatorDies(r, "none")
  /\ Becomes(r, "ended")
  /\ UNCHANGED <<marker, tries, userVars>>

CoordinatorCrashes(r) ==
  /\ "crash" \in Faults
  /\ pc[r] \in Locked \cup {"start"}
  /\ CoordinatorDies(r, "exited")
  /\ UNCHANGED <<pamVars, userVars>>

-----------------------------------------------------------------------------
(* The coordinator, requestConsent().                                      *)

SetPhase(r, next) ==
  /\ phase' = [phase EXCEPT ![r] = next]
  /\ expired' = [expired EXCEPT ![r] = FALSE]

Decides(r, result) == outcome' = [outcome EXCEPT ![r] = result]

\* Fault: the lock is shared.
LockFreeFault == TRUE

LockFree == lock = NoRequest

(* The gates, the lock, the socket pair and the prompt; any of them may    *)
(* refuse, and then the coordinator returns Unavailable.                   *)
Start(r) ==
  /\ pc[r] = "start"
  /\ \/ /\ LockFree
        /\ lock' = r
        /\ GoTo(r, "loop")
        /\ prompt' = [prompt EXCEPT ![r] = "opening"]
     \/ /\ \/ ~LockFree
           \/ "call" \in Faults  \* or a gate: account, desktop endpoint
        /\ GoTo(r, "exited")
        /\ UNCHANGED <<lock, prompt>>
  /\ UNCHANGED <<pamVars, loopVars, verifier, channelVars, userVars>>

(* One response of the prompt, in the order it was sent.                   *)
AcceptReady(r, message) ==
  /\ phase[r] = "waiting" /\ message = "ready"
  /\ SetPhase(r, "deciding")  \* no deadline in production
  /\ GoTo(r, "reap")
  /\ UNCHANGED <<outcome, verifier, toPrompt>>

\* Fault: the camera is warmed up as soon as the window is ready.
ApprovalArrivesFault(r, message) ==
  phase[r] \in {"waiting", "deciding"} /\ message \in {"ready", "approve"}

ApprovalArrives(r, message) == phase[r] = "deciding" /\ message = "approve"

AcceptApproval(r, message) ==
  /\ ApprovalArrives(r, message) /\ PromptOpen(r)
  /\ toPrompt' = [toPrompt EXCEPT ![r] = Append(@, "checking")]
  /\ \/ /\ verifier' = [verifier EXCEPT ![r] = "running"]
        /\ SetPhase(r, "checking")
        /\ GoTo(r, "reap")
     \/ /\ "call" \in Faults
        /\ GoTo(r, "epilogue")
        /\ UNCHANGED <<verifier, phase, expired>>
  /\ UNCHANGED outcome

\* Fault: whatever is not an approval is a refusal.
RefusalArrivesFault(r, message) == phase[r] \in {"waiting", "deciding"} /\ message # "approve"

RefusalArrives(r, message) == phase[r] = "deciding" /\ message = "deny"

AcceptRefusal(r, message) ==
  /\ RefusalArrives(r, message)
  /\ Decides(r, "declined") /\ GoTo(r, "epilogue")
  /\ UNCHANGED <<phase, expired, verifier, toPrompt>>

AcceptCancel(r, message) ==
  /\ phase[r] = "checking" /\ message = "cancel"
  /\ verifier' = [verifier EXCEPT ![r] = "none"]
  /\ Decides(r, "declined") /\ GoTo(r, "epilogue")
  /\ UNCHANGED <<phase, expired, toPrompt>>

(* Any other response, or a prompt that cannot be told "checking".         *)
GiveUp(r, message) ==
  /\ \/ phase[r] = "waiting" /\ message # "ready"
     \/ phase[r] = "deciding" /\ message \notin {"approve", "deny"}
     \/ phase[r] = "deciding" /\ message = "approve" /\ ~PromptOpen(r)
     \/ phase[r] = "checking" /\ message # "cancel"
  /\ GoTo(r, "epilogue")
  /\ UNCHANGED <<phase, expired, outcome, verifier, toPrompt>>

HandleResponse(r, message) ==
  \/ AcceptReady(r, message) \/ AcceptApproval(r, message)
  \/ AcceptRefusal(r, message) \/ AcceptCancel(r, message)
  \/ GiveUp(r, message)

(* The top of the loop: the signal and the deadline, then poll() and       *)
(* recv().  Without a response a closed socket reads as an empty token.    *)
Poll(r) ==
  /\ pc[r] = "loop"
  /\ \/ /\ \/ signalled[r] \/ expired[r]
           \/ "call" \in Faults
        /\ GoTo(r, "epilogue")
        /\ UNCHANGED <<phase, outcome, expired, hup, verifier, channelVars>>
     \/ /\ ~signalled[r] /\ ~expired[r]
        /\ hup' = [hup EXCEPT ![r] = ~PromptOpen(r)]
        /\ \/ /\ toCoordinator[r] # <<>>
              /\ toCoordinator' = [toCoordinator EXCEPT ![r] = Tail(@)]
              /\ HandleResponse(r, Head(toCoordinator[r]))
           \/ /\ toCoordinator[r] = <<>>
              /\ GoTo(r, IF PromptOpen(r) THEN "reap" ELSE "epilogue")
              /\ UNCHANGED <<phase, outcome, expired, verifier, channelVars>>
  /\ UNCHANGED <<pamVars, lock, signalled, prompt, userVars>>

(* childExited(prompt): the window is gone, so is the question.            *)
Reap(r) ==
  /\ pc[r] = "reap"
  /\ \/ prompt[r] = "exited" /\ CoordinatorDies(r, "exited")
     \/ /\ prompt[r] # "exited"
        /\ GoTo(r, "verdict")
        /\ UNCHANGED <<lock, loopVars, prompt, verifier, channelVars>>
  /\ UNCHANGED <<pamVars, userVars>>

\* Fault: any exit of the verifier counts as a match.
MatchedFault(r) == verifier[r] # "running"

Matched(r) == verifier[r] = "verified"

(* childExited(verifier), else the loop goes on unless poll() saw a hangup. *)
Verdict(r) ==
  /\ pc[r] = "verdict"
  /\ \/ /\ phase[r] = "checking" /\ verifier[r] \in {"verified", "failed"}
        /\ verifier' = [verifier EXCEPT ![r] = "none"]
        /\ toPrompt' = IF PromptOpen(r)
                       THEN [toPrompt EXCEPT ![r] =
                               Append(@, IF Matched(r) THEN "success" ELSE "fallback")]
                       ELSE toPrompt
        /\ Decides(r, IF Matched(r) /\ PromptOpen(r) THEN "approved" ELSE "unavailable")
        /\ GoTo(r, "hold")
     \/ /\ ~(phase[r] = "checking" /\ verifier[r] \in {"verified", "failed"})
        /\ GoTo(r, IF hup[r] THEN "epilogue" ELSE "loop")
        /\ UNCHANGED <<verifier, toPrompt, outcome>>
  /\ UNCHANGED <<pamVars, lock, phase, expired, signalled, hup, prompt, toCoordinator, userVars>>

(* The prompt shows the result for a moment.                               *)
Hold(r) ==
  /\ pc[r] = "hold"
  /\ GoTo(r, "epilogue")
  /\ UNCHANGED <<pamVars, lock, loopVars, prompt, verifier, channelVars, userVars>>

Epilogue(r) ==
  /\ pc[r] = "epilogue"
  /\ verifier' = [verifier EXCEPT ![r] = "none"]
  /\ \/ /\ verifier[r] # "none" /\ phase[r] = "checking"
        /\ toPrompt' = [toPrompt EXCEPT ![r] = Append(@, "fallback")]
        /\ GoTo(r, "linger")
     \/ /\ ~(verifier[r] # "none" /\ phase[r] = "checking")
        /\ GoTo(r, "close")
        /\ UNCHANGED toPrompt
  /\ UNCHANGED <<pamVars, lock, loopVars, prompt, toCoordinator, userVars>>

Linger(r) ==
  /\ pc[r] = "linger"
  /\ GoTo(r, "close")
  /\ UNCHANGED <<pamVars, lock, loopVars, prompt, verifier, channelVars, userVars>>

\* Fault: the socket is closed, but the prompt is left to notice it.
CloseFault(r) ==
  /\ pc[r] = "close"
  /\ GoTo(r, "unlock")
  /\ UNCHANGED <<pamVars, lock, loopVars, prompt, verifier, channelVars, userVars>>

(* The socket is closed and terminatePrompt() waits the prompt out.        *)
Close(r) ==
  /\ pc[r] = "close"
  /\ prompt' = [prompt EXCEPT ![r] = "none"]
  /\ toCoordinator' = [toCoordinator EXCEPT ![r] = <<>>]
  /\ toPrompt' = [toPrompt EXCEPT ![r] = <<>>]
  /\ GoTo(r, "unlock")
  /\ UNCHANGED <<pamVars, lock, loopVars, verifier, userVars>>

Unlock(r) ==
  /\ pc[r] = "unlock"
  /\ lock' = NoRequest
  /\ LocalsEnd(r)
  /\ GoTo(r, "exited")
  /\ UNCHANGED <<pamVars, outcome, prompt, verifier, channelVars, userVars>>

\* Fault: only the wait for the window has a deadline.
DeadlineActiveFault(r) == phase[r] = "waiting"

DeadlineActive(r) == phase[r] \in {"waiting", "checking"}

Expire(r) ==
  /\ "deadline" \in Faults
  /\ pc[r] \in Locked /\ DeadlineActive(r) /\ ~expired[r]
  /\ expired' = [expired EXCEPT ![r] = TRUE]
  /\ UNCHANGED <<pamVars, pc, lock, phase, outcome, signalled, hup, prompt, verifier,
                 channelVars, userVars>>

Interrupt(r) ==
  /\ "signal" \in Faults
  /\ pc[r] \in Locked /\ ~signalled[r]
  /\ signalled' = [signalled EXCEPT ![r] = TRUE]
  /\ UNCHANGED <<pamVars, pc, lock, phase, outcome, expired, hup, prompt, verifier,
                 channelVars, userVars>>

-----------------------------------------------------------------------------
(* The prompt and the verifier.                                            *)

Respond(r, message) ==
  /\ Len(toCoordinator[r]) < MaxQueue
  /\ toCoordinator' = [toCoordinator EXCEPT ![r] = Append(@, message)]
  /\ said' = [said EXCEPT ![r] = @ \cup {message}]
  /\ UNCHANGED <<pamVars, pc, lock, loopVars, prompt, verifier, toPrompt, recognised>>

(* The window is up: the bridge says so before it takes any input.         *)
PromptReady(r) ==
  /\ prompt[r] = "opening"
  /\ prompt' = [prompt EXCEPT ![r] = "deciding"]
  /\ toCoordinator' = [toCoordinator EXCEPT ![r] = Append(@, "ready")]
  /\ UNCHANGED <<pamVars, pc, lock, loopVars, verifier, toPrompt, userVars>>

(* Buttons and keys; a response does not change what the window shows.     *)
UserDecides(r) ==
  /\ prompt[r] = "deciding"
  /\ \E message \in {"approve", "deny"} : Respond(r, message)

UserCancels(r) ==
  /\ prompt[r] = "checking"
  /\ Respond(r, "cancel")

(* The window is closed, or the prompt dies.                               *)
PromptExits(r) ==
  /\ PromptOpen(r)
  /\ "crash" \in Faults \/ (prompt[r] \in Shown /\ "close" \in Faults)
  /\ prompt' = [prompt EXCEPT ![r] = "exited"]
  /\ UNCHANGED <<pamVars, pc, lock, loopVars, verifier, channelVars, userVars>>

PromptReceives(r) ==
  /\ prompt[r] \in Shown /\ toPrompt[r] # <<>>
  /\ prompt' = [prompt EXCEPT ![r] = Head(toPrompt[r])]
  /\ toPrompt' = [toPrompt EXCEPT ![r] = Tail(@)]
  /\ UNCHANGED <<pamVars, pc, lock, loopVars, verifier, toCoordinator, userVars>>

(* Gaze answers; anything but PAM success is a failure, a crash included.  *)
VerifierExits(r, matched) ==
  /\ verifier[r] = "running"
  /\ verifier' = [verifier EXCEPT ![r] = IF matched THEN "verified" ELSE "failed"]
  /\ recognised' = IF matched THEN recognised \cup {r} ELSE recognised
  /\ UNCHANGED <<pamVars, pc, lock, loopVars, prompt, channelVars, said>>

-----------------------------------------------------------------------------
CoordinatorStep(r) ==
  \/ Start(r) \/ Poll(r) \/ Reap(r) \/ Verdict(r) \/ Hold(r)
  \/ Epilogue(r) \/ Linger(r) \/ Close(r) \/ Unlock(r)

Next ==
  \E r \in Requests :
    \/ Authenticate(r) \/ PamReadsAnswer(r) \/ PamGivesUp(r) \/ SudoEnds(r)
    \/ CoordinatorCrashes(r)
    \/ Start(r) \/ Poll(r) \/ Reap(r) \/ Verdict(r) \/ Hold(r)
    \/ Epilogue(r) \/ Linger(r) \/ Close(r) \/ Unlock(r)
    \/ Expire(r) \/ Interrupt(r)
    \/ PromptReady(r) \/ UserDecides(r) \/ UserCancels(r)
    \/ PromptExits(r) \/ PromptReceives(r)
    \/ \E matched \in BOOLEAN : VerifierExits(r, matched)

Spec == Init /\ [][Next]_vars

(* The coordinator and the PAM module run, and clocks advance.  Nothing is *)
(* asked of the user, the prompt or the verifier.                          *)
LiveSpec ==
  /\ Spec
  /\ \A r \in Requests :
       WF_vars(CoordinatorStep(r)) /\ WF_vars(PamReadsAnswer(r)) /\ WF_vars(Expire(r))

-----------------------------------------------------------------------------
(* Safety.                                                                 *)

(* A sudo request is granted only if the user approved it in its own       *)
(* window and Gaze then recognised the face for it (requestConsent,        *)
(* pam_sm_authenticate): no order of late messages, deadlines, signals and *)
(* crashes turns anything else into exit status 0.                         *)
GrantIsConsentedAndVerified ==
  \A r \in Requests : sudo[r] = "granted" => "approve" \in said[r] /\ r \in recognised

(* The camera is not used without consent: a verifier runs only after the  *)
(* user's approval reached the coordinator that asked for it.              *)
FaceCheckNeedsConsent ==
  \A r \in Requests : verifier[r] # "none" => "approve" \in said[r] /\ pc[r] \in Locked

(* Only the user cancels a command: a closed window, a failure, a signal   *)
(* or a deadline leads to the password (CHANGELOG 0.7.70).                 *)
CancellationIsTheUsers ==
  \A r \in Requests : sudo[r] = "cancelled" => said[r] \cap {"deny", "cancel"} # {}

(* Single flight: at most one request has a window or a verifier, also     *)
(* while a coordinator ends or has been killed.                            *)
OneRequestAtATime ==
  \A r, s \in Requests :
    /\ prompt[r] # "none" \/ verifier[r] # "none"
    /\ prompt[s] # "none" \/ verifier[s] # "none"
    => r = s

(* No window and no verifier outlive the request they belong to.           *)
NoOrphans ==
  \A r \in Requests :
    sudo[r] # "asking" => prompt[r] = "none" /\ verifier[r] = "none" /\ lock # r

(* README.md: "Decline cancels the command."  No run checks it: the code   *)
(* does not meet it (README.md of this directory, Deviations).             *)
DeclineCancels == \A r \in Requests : sudo[r] = "password" => "deny" \notin said[r]

(* CHANGELOG 0.7.70: the request "remains visible until the user approves, *)
(* declines, closes it, or sudo itself ends".  No run checks it: the code  *)
(* does not meet it (README.md of this directory, Deviations).             *)
RequestStaysVisible ==
  [][\A r \in Requests :
       prompt[r] = "deciding" /\ said[r] = {} /\ prompt'[r] # "deciding"
         => prompt'[r] = "exited" \/ sudo'[r] = "ended"]_vars

-----------------------------------------------------------------------------
(* Liveness.                                                               *)

(* Without a bound of its own a request waits for the user only: whenever  *)
(* it waits, it comes back to be answered, or to an open window that       *)
(* awaits a decision.                                                      *)
OnlyTheUserIsAwaited ==
  \A r \in Requests :
    []<>(sudo[r] = "asking" => phase[r] = "deciding" /\ PromptOpen(r))

DecisionOf(r) == IF sudo[r] = "idle" THEN "fresh"
                 ELSE IF sudo[r] = "asking" THEN "asked" ELSE sudo[r]

Objected(r) == said[r] \cap {"deny", "cancel"} # {}

Decision == INSTANCE ConsentDecision WITH
  decision   <- [r \in Requests |-> DecisionOf(r)],
  spent      <- {r \in Requests : marker[r] # "none"},
  consents   <- {r \in Requests : "approve" \in said[r]},
  objections <- {r \in Requests : Objected(r)},
  matches    <- recognised

(* Each request is asked at most once and answered for the stated reasons. *)
ImplementsDecision == Decision!Spec
=============================================================================
