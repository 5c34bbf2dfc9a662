---------------------------- MODULE ConsentDecision ----------------------------
(***************************************************************************)
(* What the sudo approval promises each sudo request, without processes,   *)
(* messages or locks (README.md, "sudo"; docs/2026-08-28-initial-build.md: *)
(* "Only explicit approval followed by current Gaze PAM success can        *)
(* authorize sudo"): at most one question per request, and an answer that  *)
(* is a grant, a cancellation or the password, for the stated reasons.     *)
(***************************************************************************)
CONSTANT Requests

VARIABLES
  decision,    \* per request: what has become of it
  spent,       \* requests whose one question is used up
  consents,    \* requests the user has approved
  objections,  \* requests the user has declined or cancelled
  matches      \* requests whose face was recognised

decisionVars == <<decision, spent, consents, objections, matches>>

Decided(r, next) == decision' = [decision EXCEPT ![r] = next]

Init ==
  /\ decision = [r \in Requests |-> "fresh"]
  /\ spent = {} /\ consents = {} /\ objections = {} /\ matches = {}

Ask(r) ==
  /\ decision[r] \in {"fresh", "password"} /\ r \notin spent
  /\ Decided(r, "asked")
  /\ spent' = spent \cup {r}
  /\ UNCHANGED <<consents, objections, matches>>

Consent(r) ==
  /\ decision[r] = "asked"
  /\ consents' = consents \cup {r}
  /\ UNCHANGED <<decision, spent, objections, matches>>

Object(r) ==
  /\ decision[r] = "asked"
  /\ objections' = objections \cup {r}
  /\ UNCHANGED <<decision, spent, consents, matches>>

Match(r) ==
  /\ decision[r] = "asked" /\ r \in consents
  /\ matches' = matches \cup {r}
  /\ UNCHANGED <<decision, spent, consents, objections>>

Grant(r) ==
  /\ decision[r] = "asked" /\ r \in consents /\ r \in matches
  /\ Decided(r, "granted")
  /\ UNCHANGED <<spent, consents, objections, matches>>

Cancel(r) ==
  /\ decision[r] \in {"asked", "password"} /\ r \in objections
  /\ Decided(r, "cancelled")
  /\ UNCHANGED <<spent, consents, objections, matches>>

(* The password stack takes over, also when the question was spent but     *)
(* could not be asked.                                                     *)
FallBack(r) ==
  /\ decision[r] \in {"fresh", "asked", "password"} /\ Decided(r, "password")
  /\ spent' \in {spent, spent \cup {r}}
  /\ UNCHANGED <<consents, objections, matches>>

End(r) ==
  /\ decision[r] \in {"asked", "password"} /\ Decided(r, "ended")
  /\ UNCHANGED <<spent, consents, objections, matches>>

Next ==
  \E r \in Requests :
    \/ Ask(r) \/ Consent(r) \/ Object(r) \/ Match(r)
    \/ Grant(r) \/ Cancel(r) \/ FallBack(r) \/ End(r)

Spec == Init /\ [][Next]_decisionVars
=============================================================================
