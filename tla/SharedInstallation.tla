-------------------------- MODULE SharedInstallation --------------------------
(***************************************************************************)
(* What an install and an uninstall promise the users of a machine,        *)
(* without files, receipts, locks or rollbacks (README.md, "Uninstall"):   *)
(* each takes place completely or not at all, the first install brings the *)
(* shared parts of Face ID and the last uninstall takes them away.  A      *)
(* command that is killed may leave some of them, and the next install     *)
(* completes them.                                                         *)
(***************************************************************************)
CONSTANTS
  Users,
  Unregistered  \* stands in the registry for users of an older installation

VARIABLES
  registered,   \* who is in the registry
  parts,        \* which shared parts are there: "all", "none" or "some"
  damaged       \* a command was killed, and none has been completed since

installationVars == <<registered, parts, damaged>>

(* An installation older than the registry is not in it.                   *)
Init == registered = {} /\ parts \in {"all", "none"} /\ damaged = FALSE

Install(u) ==
  /\ \/ registered' = registered \cup {u}
     \/ /\ registered = {} /\ parts # "none"
        /\ registered' = {u, Unregistered}
  /\ parts' = "all" /\ damaged' = FALSE

Remove(u) ==
  /\ u \in registered /\ registered' = registered \ {u}
  /\ parts' = IF registered' = {} THEN "none" ELSE parts
  /\ UNCHANGED damaged

Kill(u) ==
  /\ registered' \ {u, Unregistered} = registered \ {u, Unregistered}
  /\ parts' \in {"all", "none", "some"} /\ damaged' = TRUE

Next == \E u \in Users : Install(u) \/ Remove(u) \/ Kill(u)

Spec == Init /\ [][Next]_installationVars
=============================================================================
