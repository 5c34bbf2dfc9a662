--------------------------- MODULE ActivationOutcome ---------------------------
(***************************************************************************)
(* What the activation of the lock integration looks like to the window    *)
(* and to the quiet upgrade (app/GazeClient.h: lockIntegrationInstalling,  *)
(* -Active, -Installed, -Error), without processes, timers or files: who   *)
(* enables it is refused at once or gets one answer later, and nothing but *)
(* a new attempt changes an answer that was given.                         *)
(***************************************************************************)
VARIABLES
  running,    \* an activation is under way
  activated,  \* the last one has succeeded
  failed      \* the last one has an error to show

outcomeVars == <<running, activated, failed>>

Init == ~running /\ ~activated /\ ~failed

Enable ==
  /\ ~running
  /\ running' \in BOOLEAN
  /\ ~activated' /\ (failed' <=> ~running')

(* An attempt may end with neither: see README.md, Deviations.             *)
Finish ==
  /\ running /\ ~running'
  /\ ~(activated' /\ failed')

(* The application is closed, and knows nothing when it is opened again.   *)
Close == ~running' /\ ~activated' /\ ~failed'

Next == Enable \/ Finish \/ Close

Spec == Init /\ [][Next]_outcomeVars
=============================================================================
