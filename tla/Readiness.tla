------------------------------ MODULE Readiness ------------------------------
(***************************************************************************)
(* What the setup application knows of the machine (app/GazeClient.cpp,    *)
(* refresh): the facts it depends on, which change without its doing, and  *)
(* its copy of them from the last refresh().                               *)
(*                                                                         *)
(* refresh() asks Gaze on the system bus and waits for the answer.  Calls  *)
(* of one connection are taken in order, so it returns after Gaze has      *)
(* taken all that was sent before.  Whether a camera is free is left out.  *)
(***************************************************************************)
EXTENDS Naturals, Sequences

CONSTANT Faults  \* what may go wrong in a run

VARIABLES
  machine,  \* Gaze's service runs; its packages and the integration are there
  known,    \* m_serviceAvailable, m_installed and ..., m_systemIntegrationReady
  toGaze    \* calls sent and not yet taken, in order

readinessVars == <<machine, known, toGaze>>

Machines == [service : BOOLEAN, parts : BOOLEAN, integration : BOOLEAN]

(* Everything the wizard needs (Main.qml, systemReady).                    *)
Ready(facts) == facts.service /\ facts.parts /\ facts.integration

(* A blocking call can return.                                             *)
Synchronous == toGaze = <<>>

(* refresh()                                                               *)
Refresh == Synchronous /\ known' = machine

(* A call that is not waited for; the bus drops it when nobody is there.   *)
Sent(calls) == IF machine.service THEN toGaze \o calls ELSE toGaze
=============================================================================
