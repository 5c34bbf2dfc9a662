----------------------------- MODULE SystemTransaction -----------------------------
(***************************************************************************)
(* The system integration shared by all users of a machine: the privileged *)
(* installer (scripts/install-gaze-arch.sh) and the uninstaller            *)
(* (scripts/uninstall.sh).  Each runs a part as the user, which reads the  *)
(* receipts and plans, and a part as root, which changes the files of the  *)
(* machine one at a time under a file lock and rolls back when it fails.   *)
(*                                                                         *)
(* Files are contents on a disk that survives everything; a command's      *)
(* plan, snapshot and position are lost when it is killed.  Hashes, modes  *)
(* and temporary files are left out: a file is replaced by one rename.     *)
(***************************************************************************)
EXTENDS Naturals, Sequences

CONSTANTS
  Users,       \* user ids
  Nobody,
  Faults,      \* what may go wrong in a run
  Overlap,     \* may commands of several users overlap?
  Replaceable  \* artifacts another package may put its own file over

(* A step fails, a command is killed, it is killed while it rolls back, and *)
(* a rollback cannot copy a file back.                                     *)
FaultKinds == {"fail", "crash", "tear", "lose"}

(* What the hook in sudo's PAM file needs to be there.                     *)
Artifacts   == {"elevation", "consent", "verifier", "face"}
Receipts    == {"receipt", "gazeReceipt"}
SharedPaths == Artifacts \cup Receipts \cup {"sudo", "lockPam"}
Entries     == Users \cup {"legacy"}  \* the files of the user registry
Paths       == SharedPaths \cup Entries

ASSUME SystemTransactionAssumption ==
  /\ Users \cap (SharedPaths \cup {"legacy", "entry"}) = {}
  /\ Nobody \notin Users
  /\ Faults \subseteq FaultKinds
  /\ Overlap \in BOOLEAN
  /\ Replaceable \subseteq Artifacts

VARIABLES
  (* the machine *)
  disk,         \* the content of every path
  registryDir,  \* the registry's directory exists
  gaze,         \* the Gaze package is installed
  lock,         \* the user whose root part holds install.lock
  (* the command of each user *)
  pc,           \* where it is
  plan,         \* what its user part has found out and decided
  at,           \* the position of its root part in its list of files
  copying,      \* a rollback has removed a file and not yet copied it back
  backup,       \* the snapshot of its transaction
  (* history *)
  legacyStart, hadGaze, original,  \* how the machine was found (see GazeLeft)
  interrupted   \* a command was killed: never, since the last install, before it

machineVars == <<disk, registryDir, gaze>>
rootVars    == <<at, copying, backup>>
foundVars   == <<legacyStart, hadGaze, original>>
pastVars    == <<foundVars, interrupted>>

vars == <<machineVars, lock, pc, plan, rootVars, pastVars>>

(* sudo's PAM file has its password rule, and Face ID's hook or the line    *)
(* the Gaze package adds.                                                  *)
SudoContents == {"absent", "plain", "gaze", "hook"}
FileContents == {"absent", "managed", "foreign", "added", "replaced"}
ReceiptContents == {"absent", "added", "replaced"}
Disks == {d \in [Paths -> SudoContents \cup FileContents] :
            d["sudo"] \in SudoContents /\ d["receipt"] \in ReceiptContents}

Labels == {"idle", "reading", "asking", "blocked", "active", "undoing",
           "failed", "packages", "tidy"}
InRoot == {"active", "undoing"}

(* integration: the receipt's word on sudo; ownsGaze: Gaze is, or is about  *)
(* to be, Face ID's; last: no other registered user; legacy: users of an    *)
(* unregistered installation may remain.                                   *)
Plans == [kind : {"none", "install", "remove"},
          integration : {"none", "added", "replaced"},
          ownsGaze : BOOLEAN, last : BOOLEAN, legacy : BOOLEAN]

NoPlan == [kind |-> "none", integration |-> "none",
           ownsGaze |-> FALSE, last |-> FALSE, legacy |-> FALSE]

NoSnapshot == [p \in Paths |-> "absent"]

(* Every variable stays within its type.                                   *)
TypeOK ==
  /\ disk \in Disks
  /\ registryDir \in BOOLEAN /\ gaze \in BOOLEAN
  /\ lock \in Users \cup {Nobody}
  /\ pc \in [Users -> Labels]
  /\ plan \in [Users -> Plans]
  /\ at \in [Users -> Nat]
  /\ copying \in [Users -> BOOLEAN]
  /\ backup \in [Users -> Disks]
  /\ legacyStart \in BOOLEAN /\ hadGaze \in BOOLEAN
  /\ original \in {"plain", "gaze"}
  /\ interrupted \in {"never", "since", "before"}

-----------------------------------------------------------------------------
(* The order in which each root part handles its files; "entry" is the     *)
(* registry entry of the user who runs the command.                        *)

\* Fault: the hook is exposed before the files it refers to.
InstallOrderFault ==
  <<"elevation", "consent", "sudo", "verifier", "face",
    "receipt", "entry", "legacy", "gazeReceipt">>

InstallOrder ==
  <<"elevation", "consent", "verifier", "face",
    "receipt", "entry", "legacy", "gazeReceipt", "sudo">>

RemovalOrder(last) ==
  IF last THEN <<"sudo", "face", "verifier", "elevation", "consent",
                 "receipt", "lockPam", "gazeReceipt", "entry">>
  ELSE <<"entry">>

\* Fault: the registry is not part of the snapshot.
UndoOrderFault(kind, last) ==
  IF kind = "remove" /\ ~last THEN <<"entry">>
  ELSE <<"sudo", "face", "verifier", "elevation", "consent", "receipt", "gazeReceipt">>

(* The paths of the snapshot, in the order a rollback restores them.       *)
UndoOrder(kind, last) ==
  CASE kind = "install" ->
         <<"sudo", "face", "verifier", "elevation", "consent", "receipt",
           "entry", "legacy", "gazeReceipt">>
    [] kind = "remove" /\ last ->
         <<"entry", "sudo", "face", "verifier", "elevation", "consent",
           "receipt", "gazeReceipt", "lockPam">>
    [] OTHER -> <<"entry">>

Order(u) == IF plan[u].kind = "install" THEN InstallOrder ELSE RemovalOrder(plan[u].last)

UndoOf(u) == UndoOrder(plan[u].kind, plan[u].last)

PathOf(u, name) == IF name = "entry" THEN u ELSE name

-----------------------------------------------------------------------------
Registered(u) == disk[u] = "managed"

\* Fault: the mark of an unregistered installation is not counted.
OthersRemainFault(u) == \E e \in Users \ {u} : disk[e] # "absent"

(* find "$user_registry_dir": any other entry, known or not.               *)
OthersRemain(u) == \E e \in Entries \ {u} : disk[e] # "absent"

HookFilesPresent == \A p \in Artifacts : disk[p] # "absent"

(* A machine Face ID has not touched, or an installation older than the    *)
(* user registry.                                                          *)
Init ==
  /\ legacyStart \in BOOLEAN /\ hadGaze \in BOOLEAN
  /\ original \in {"plain", "gaze"}
  /\ original = "gaze" => hadGaze
  /\ legacyStart => hadGaze
  /\ disk = [p \in Paths |->
               IF p = "sudo" THEN (IF legacyStart THEN "hook" ELSE original)
               ELSE IF legacyStart /\ p \in Artifacts \cup {"lockPam"} THEN "managed"
               ELSE IF legacyStart /\ p = "receipt"
                    THEN (IF original = "gaze" THEN "replaced" ELSE "added")
               ELSE "absent"]
  /\ registryDir = FALSE
  /\ gaze = hadGaze
  /\ lock = Nobody
  /\ pc = [u \in Users |-> "idle"]
  /\ plan = [u \in Users |-> NoPlan]
  /\ at = [u \in Users |-> 0]
  /\ copying = [u \in Users |-> FALSE]
  /\ backup = [u \in Users |-> NoSnapshot]
  /\ interrupted = "never"

-----------------------------------------------------------------------------
GoTo(u, label) == pc' = [pc EXCEPT ![u] = label]
Write(path, content) == disk' = [disk EXCEPT ![path] = content]

MayBegin(u) == pc[u] = "idle" /\ (Overlap \/ \A v \in Users : pc[v] = "idle")

(* The end of u's command, as its process sees it.                         *)
CommandEnds(u) ==
  /\ GoTo(u, "idle")
  /\ plan' = [plan EXCEPT ![u] = NoPlan]

(* The end of u's root part: its lock, snapshot and position are gone.     *)
RootEnds(u) ==
  /\ lock' = IF lock = u THEN Nobody ELSE lock
  /\ at' = [at EXCEPT ![u] = 0]
  /\ copying' = [copying EXCEPT ![u] = FALSE]
  /\ backup' = [backup EXCEPT ![u] = NoSnapshot]

-----------------------------------------------------------------------------
(* The user parts.                                                         *)

(* install: the Gaze package first.  Its scriptlet may add a line to sudo  *)
(* (external, and not while a transaction is under way).                   *)
BeginInstall(u) ==
  /\ MayBegin(u)
  /\ GoTo(u, "reading")
  /\ plan' = [plan EXCEPT ![u] =
                [kind |-> "install", integration |-> "none", ownsGaze |-> ~gaze,
                 last |-> FALSE, legacy |-> FALSE]]
  /\ gaze' = TRUE
  /\ \/ UNCHANGED disk
     \/ ~gaze /\ lock = Nobody /\ disk["sudo"] = "plain" /\ Write("sudo", "gaze")
  /\ UNCHANGED <<registryDir, lock, rootVars, pastVars>>

(* install: an existing receipt decides, else the line of a Gaze package   *)
(* that is not Face ID's.                                                  *)
ReadReceipts(u) ==
  /\ pc[u] = "reading"
  /\ GoTo(u, "asking")
  /\ LET managed  == plan[u].ownsGaze \/ disk["gazeReceipt"] = "managed"
         replaces == disk["sudo"] = "gaze" /\ ~managed
     IN plan' = [plan EXCEPT ![u].integration =
                   IF disk["receipt"] # "absent" THEN disk["receipt"]
                   ELSE IF replaces THEN "replaced" ELSE "added"]
  /\ UNCHANGED <<machineVars, lock, rootVars, pastVars>>

(* uninstall: without a registration nothing that is shared changes.       *)
BeginRemove(u) ==
  /\ MayBegin(u) /\ Registered(u)
  /\ disk["face"] # "foreign" /\ disk["verifier"] # "foreign"
  /\ GoTo(u, "asking")
  /\ plan' = [plan EXCEPT ![u] =
                [kind |-> "remove",
                 integration |-> IF disk["receipt"] = "absent" THEN "none" ELSE disk["receipt"],
                 ownsGaze |-> disk["gazeReceipt"] = "managed",
                 last |-> ~OthersRemain(u),
                 legacy |-> FALSE]]
  /\ UNCHANGED <<machineVars, lock, rootVars, pastVars>>

(* What root_remove checks again before it takes the lock.                 *)
StillPlanned(u) ==
  plan[u].kind = "remove" => Registered(u) /\ (plan[u].last => ~OthersRemain(u))

(* sudo asks for the password and may be refused.                          *)
EnterRoot(u) ==
  /\ pc[u] = "asking"
  /\ \/ StillPlanned(u) /\ GoTo(u, "blocked")
     \/ ~StillPlanned(u) /\ GoTo(u, "failed")
     \/ "fail" \in Faults /\ GoTo(u, "failed")
  /\ UNCHANGED <<machineVars, lock, plan, rootVars, pastVars>>

GazeRemoved == gaze' = FALSE /\ UNCHANGED foundVars

(* The removal of the Gaze package fails and leaves it without a receipt:  *)
(* from then on it is as if it had been found, with its line in sudo.      *)
GazeLeft ==
  /\ "fail" \in Faults /\ gaze
  /\ hadGaze' = TRUE
  /\ original' = IF disk["sudo"] = "gaze" THEN "gaze" ELSE "plain"
  /\ UNCHANGED <<gaze, legacyStart>>

(* install's finish(): a Gaze package it has added is dropped again.       *)
FinishFailed(u) ==
  /\ pc[u] = "failed"
  /\ IF plan[u].kind = "install" /\ plan[u].ownsGaze THEN GazeRemoved \/ GazeLeft
                                                     ELSE UNCHANGED <<gaze, foundVars>>
  /\ CommandEnds(u)
  /\ UNCHANGED <<disk, registryDir, lock, rootVars, interrupted>>

(* uninstall by the last user: the package goes, then empty directories.   *)
(* Where the package cannot be removed the command ends (set -e).          *)
RemovePackages(u) ==
  /\ pc[u] = "packages"
  /\ \/ /\ IF plan[u].ownsGaze THEN GazeRemoved ELSE UNCHANGED <<gaze, foundVars>>
        /\ GoTo(u, "tidy")
        /\ UNCHANGED plan
     \/ /\ plan[u].ownsGaze /\ GazeLeft
        /\ CommandEnds(u)
  /\ UNCHANGED <<disk, registryDir, lock, rootVars, interrupted>>

(* rmdir || true: a directory that is not empty, or cannot be removed,     *)
(* stays.                                                                  *)
RemoveDirectories(u) ==
  /\ pc[u] = "tidy"
  /\ \E tidied \in {TRUE, "fail" \notin Faults} :
       registryDir' = (registryDir /\ (~tidied \/ \E e \in Entries : disk[e] # "absent"))
  /\ CommandEnds(u)
  /\ UNCHANGED <<disk, gaze, lock, rootVars, pastVars>>

-----------------------------------------------------------------------------
(* The root parts.                                                         *)

(* What each refuses to work on.                                           *)
Acceptable(u) ==
  /\ plan[u].kind = "install" =>
       /\ disk["sudo"] # "absent"
       /\ \A p \in Artifacts : disk[p] # "foreign"
  /\ plan[u].kind = "remove" /\ plan[u].last =>
       /\ disk["sudo"] # "absent"
       /\ plan[u].integration # "none"
       /\ disk["face"] = "managed" /\ disk["verifier"] = "managed"
       /\ disk["lockPam"] = "managed"

(* flock, the snapshot, and the checks, whose failure is a rollback.       *)
Lock(u) ==
  /\ pc[u] = "blocked" /\ lock = Nobody
  /\ \/ /\ lock' = u
        /\ GoTo(u, IF Acceptable(u) THEN "active" ELSE "undoing")
        /\ backup' = [backup EXCEPT ![u] = disk]
        /\ at' = [at EXCEPT ![u] = 1]
        /\ plan' = [plan EXCEPT ![u].legacy =
                      /\ plan[u].kind = "install" /\ ~registryDir
                      /\ disk["receipt"] # "absent" \/ disk["sudo"] = "hook"]
     \/ /\ "fail" \in Faults  \* no snapshot: nothing to roll back
        /\ GoTo(u, "failed")
        /\ UNCHANGED <<lock, plan, backup, at>>
  /\ UNCHANGED <<machineVars, copying, pastVars>>

(* install: what each file becomes.                                        *)
InstalledContent(u, name) ==
  CASE name = "sudo"    -> "hook"
    [] name = "receipt" -> plan[u].integration
    [] OTHER            -> "managed"

\* Fault: a Gaze package that was there before is claimed too.
AppliesFault(u, name) == name = "legacy" => plan[u].legacy

Applies(u, name) ==
  /\ name = "legacy" => plan[u].legacy
  /\ name = "gazeReceipt" => plan[u].ownsGaze

(* The registry's directory is made with the entry and is in no snapshot.  *)
InstallNext(u) ==
  LET name == InstallOrder[at[u]]
  IN /\ pc[u] = "active" /\ plan[u].kind = "install" /\ at[u] <= Len(InstallOrder)
     /\ IF Applies(u, name) THEN Write(PathOf(u, name), InstalledContent(u, name))
                            ELSE UNCHANGED disk
     /\ registryDir' = (registryDir \/ name = "entry")
     /\ at' = [at EXCEPT ![u] = @ + 1]
     /\ UNCHANGED <<gaze, lock, pc, plan, copying, backup, pastVars>>

\* Fault: sudo gets the receipt's word.
SudoRestoredFault(u) == plan[u].integration

(* uninstall: sudo without the hook, with the Gaze line if it was there    *)
(* before and Gaze stays.                                                  *)
SudoRestored(u) ==
  IF plan[u].integration = "replaced" /\ ~plan[u].ownsGaze THEN "gaze"
  ELSE IF disk["sudo"] = "hook" THEN "plain" ELSE disk["sudo"]

RemovedContent(u, name) == IF name = "sudo" THEN SudoRestored(u) ELSE "absent"

RemoveNext(u) ==
  LET name == RemovalOrder(plan[u].last)[at[u]]
  IN /\ pc[u] = "active" /\ plan[u].kind = "remove" /\ at[u] <= Len(RemovalOrder(plan[u].last))
     /\ IF Applies(u, name) THEN Write(PathOf(u, name), RemovedContent(u, name))
                            ELSE UNCHANGED disk
     /\ at' = [at EXCEPT ![u] = @ + 1]
     /\ UNCHANGED <<registryDir, gaze, lock, pc, plan, copying, backup, pastVars>>

(* install validates what it has written, and the transaction is over.     *)
Valid(u) ==
  plan[u].kind = "install" =>
    disk["sudo"] = "hook" /\ Registered(u) /\ \A p \in Artifacts \ {"face"} : disk[p] = "managed"

Commit(u) ==
  /\ pc[u] = "active" /\ at[u] > Len(Order(u)) /\ Valid(u)
  /\ RootEnds(u)
  /\ \/ plan[u].kind = "remove" /\ plan[u].last /\ GoTo(u, "packages") /\ UNCHANGED plan
     \/ ~(plan[u].kind = "remove" /\ plan[u].last) /\ CommandEnds(u)
  /\ interrupted' = IF plan[u].kind = "install" /\ interrupted = "since" THEN "before"
                    ELSE interrupted
  /\ UNCHANGED <<machineVars, foundVars>>

Fail(u) ==
  /\ pc[u] = "active"
  /\ \/ "fail" \in Faults
     \/ at[u] > Len(Order(u)) /\ ~Valid(u)
  /\ GoTo(u, "undoing")
  /\ at' = [at EXCEPT ![u] = 1]
  /\ UNCHANGED <<machineVars, lock, plan, copying, backup, pastVars>>

\* Fault: a rollback leaves a file that was not there before.
UndoRemoveFault(u) ==
  LET path == PathOf(u, UndoOf(u)[at[u]])
  IN /\ pc[u] = "undoing" /\ at[u] <= Len(UndoOf(u)) /\ ~copying[u]
     /\ IF backup[u][path] = "absent"
        THEN at' = [at EXCEPT ![u] = @ + 1] /\ UNCHANGED <<disk, copying>>
        ELSE Write(path, "absent") /\ copying' = [copying EXCEPT ![u] = TRUE] /\ UNCHANGED at
     /\ UNCHANGED <<registryDir, gaze, lock, pc, plan, backup, pastVars>>

(* rollback(): each path is removed, then copied back if it was there.     *)
UndoRemove(u) ==
  LET path == PathOf(u, UndoOf(u)[at[u]])
  IN /\ pc[u] = "undoing" /\ at[u] <= Len(UndoOf(u)) /\ ~copying[u]
     /\ Write(path, "absent")
     /\ \/ /\ backup[u][path] = "absent"
           /\ at' = [at EXCEPT ![u] = @ + 1]
           /\ UNCHANGED copying
        \/ /\ backup[u][path] # "absent"
           /\ copying' = [copying EXCEPT ![u] = TRUE]
           /\ UNCHANGED at
     /\ UNCHANGED <<registryDir, gaze, lock, pc, plan, backup, pastVars>>

(* A copy that fails (cp || true) leaves the path absent.                  *)
UndoCopy(u) ==
  LET path == PathOf(u, UndoOf(u)[at[u]])
  IN /\ pc[u] = "undoing" /\ at[u] <= Len(UndoOf(u)) /\ copying[u]
     /\ \E copied \in {TRUE, "lose" \notin Faults} :
          Write(path, IF copied THEN backup[u][path] ELSE "absent")
     /\ at' = [at EXCEPT ![u] = @ + 1]
     /\ copying' = [copying EXCEPT ![u] = FALSE]
     /\ UNCHANGED <<registryDir, gaze, lock, pc, plan, backup, pastVars>>

\* Fault: the process that rolled back lingers with the lock.
LeaveUndoFault(u) ==
  /\ pc[u] = "undoing" /\ at[u] > Len(UndoOf(u))
  /\ GoTo(u, "failed")
  /\ UNCHANGED <<machineVars, lock, plan, rootVars, pastVars>>

LeaveUndo(u) ==
  /\ pc[u] = "undoing" /\ at[u] > Len(UndoOf(u))
  /\ RootEnds(u)
  /\ GoTo(u, "failed")
  /\ UNCHANGED <<machineVars, plan, pastVars>>

(* SIGKILL or power loss: no trap runs, and nothing finishes the work      *)
(* later.                                                                  *)
Crash(u) ==
  /\ "crash" \in Faults
  /\ pc[u] # "idle"
  /\ pc[u] = "undoing" => "tear" \in Faults
  /\ RootEnds(u)
  /\ CommandEnds(u)
  /\ interrupted' = "since"
  /\ UNCHANGED <<machineVars, foundVars>>

-----------------------------------------------------------------------------
(* The rest of the machine.                                                *)

(* The setup application installs the lock screen's PAM service.           *)
LockPamInstalled(u) ==
  /\ Registered(u) /\ disk["lockPam"] = "absent"
  /\ Write("lockPam", "managed")
  /\ UNCHANGED <<registryDir, gaze, lock, pc, plan, rootVars, pastVars>>

(* uninstall-lock-integration.sh removes it.                               *)
LockPamRemoved ==
  /\ disk["lockPam"] = "managed"
  /\ Write("lockPam", "absent")
  /\ UNCHANGED <<registryDir, gaze, lock, pc, plan, rootVars, pastVars>>

(* Another package puts its own file in the place of an artifact.          *)
Replaced(path) ==
  /\ \A u \in Users : pc[u] = "idle"
  /\ disk[path] = "managed"
  /\ Write(path, "foreign")
  /\ UNCHANGED <<registryDir, gaze, lock, pc, plan, rootVars, pastVars>>

CommandStep(u) ==
  \/ ReadReceipts(u) \/ EnterRoot(u) \/ Lock(u)
  \/ InstallNext(u) \/ RemoveNext(u) \/ Commit(u)
  \/ UndoRemove(u) \/ UndoCopy(u) \/ LeaveUndo(u)
  \/ FinishFailed(u) \/ RemovePackages(u) \/ RemoveDirectories(u)

Next ==
  \/ \E u \in Users :
       \/ BeginInstall(u) \/ ReadReceipts(u) \/ BeginRemove(u) \/ EnterRoot(u)
       \/ Lock(u) \/ InstallNext(u) \/ RemoveNext(u) \/ Commit(u) \/ Fail(u)
       \/ UndoRemove(u) \/ UndoCopy(u) \/ LeaveUndo(u)
       \/ FinishFailed(u) \/ RemovePackages(u) \/ RemoveDirectories(u)
       \/ Crash(u) \/ LockPamInstalled(u)
  \/ LockPamRemoved
  \/ \E path \in Replaceable : Replaced(path)

Spec == Init /\ [][Next]_vars

(* A command that was started runs, and its user answers sudo's password   *)
(* prompt one way or the other (EnterRoot); a lock that is freed again and *)
(* again is got at last.  Nobody has to start one.                         *)
LiveSpec ==
  Spec /\ \A u \in Users : WF_vars(CommandStep(u)) /\ SF_vars(Lock(u))

-----------------------------------------------------------------------------
(* Safety.                                                                 *)

Quiet       == \A u \in Users : pc[u] = "idle"
RollingBack == \E u \in Users : pc[u] = "undoing"

(* sudo's PAM file exists, and so does every file its hook refers to.      *)
Usable(files) ==
  /\ files["sudo"] # "absent"
  /\ files["sudo"] = "hook" => \A p \in Artifacts : files[p] # "absent"

(* sudo can always be used: its PAM file exists, and every file its hook   *)
(* refers to exists, at every step of every overlapping install and        *)
(* uninstall and after a crash at any of them, except within a rollback    *)
(* ("Expose the hook last", install-gaze-arch.sh:206; "removes the sudo    *)
(* hook before any referenced helper", uninstall.sh:279).                  *)
SudoUsable == ~RollingBack => Usable(disk)

(* docs/2026-08-28-initial-build.md: "Validation and rollback preserve the *)
(* original password stack": whatever has happened, sudo's PAM file is     *)
(* there when no command runs.                                             *)
(* No run checks it: the code does not meet it (README.md, Deviations).    *)
PasswordStackPreserved == Quiet => disk["sudo"] # "absent"

(* A rollback restores all that the transaction has changed, wherever it   *)
(* failed: the disk is as it was when the lock was taken.  (The lock       *)
(* screen's PAM service has a second writer that takes no lock.  A copy    *)
(* that fails is the fault "lose", which no run has: README.md.)           *)
RollbackRestores ==
  [][\A u \in Users :
       pc[u] = "undoing" /\ pc'[u] # "undoing"
         => \A p \in Paths \ {"lockPam"} : disk'[p] = backup[u][p]]_vars

(* When no command runs, a registered user has every shared component:     *)
(* each install and uninstall takes place completely or not at all.        *)
RegisteredIsServed ==
  Quiet /\ interrupted # "since" /\ (\E e \in Entries : disk[e] # "absent") =>
    disk["sudo"] = "hook" /\ HookFilesPresent /\ disk["receipt"] # "absent" /\ gaze

(* When no command runs and nobody is registered, the machine is as it was *)
(* found: no component, no receipt, the Gaze package and its sudo line as  *)
(* they were.  One exception is left ("Failure here leaves an unused       *)
(* package behind", uninstall.sh:285): a Gaze whose removal has failed     *)
(* stays, with what sudo held then (GazeLeft).                             *)
CleanAfterLast ==
  Quiet /\ interrupted = "never" /\ ~legacyStart /\ (\A e \in Entries : disk[e] = "absent") =>
    /\ disk["sudo"] \in {"plain", "gaze"}
    /\ \A p \in Artifacts \cup Receipts : disk[p] = "absent"
    /\ gaze = hadGaze
    /\ hadGaze => disk["sudo"] = original

(* The components of an installation older than the registry are kept:     *)
(* whoever uses it may not be registered.  (A rollback in progress is      *)
(* looked at in RollbackRestores.)                                         *)
LegacyIsKept ==
  legacyStart /\ ~RollingBack => disk["sudo"] = "hook" /\ HookFilesPresent /\ gaze

(* test_uninstall_script.sh: "Another registered user keeps every shared   *)
(* system component and package."                                          *)
OtherUsersKeepComponents ==
  \A u \in Users : pc[u] = "idle" /\ Registered(u) => HookFilesPresent /\ gaze

(* An uninstall without any failure is carried out (README.md, Uninstall). *)
(* No run checks it: the code does not meet it (README.md, Deviations).    *)
UninstallIsNotRefused ==
  [][\A u \in Users : pc[u] = "blocked" /\ plan[u].kind = "remove" => pc'[u] # "undoing"]_vars

(* CHANGELOG 0.7.32: foreign system files are never overwritten or removed *)
(* (a rollback copies them back).                                          *)
(* No run checks it: the code does not meet it (README.md, Deviations).    *)
ForeignFilesStay ==
  [][\A p \in Artifacts :
       disk[p] = "foreign" /\ ~RollingBack => disk'[p] = "foreign"]_vars

(* Which of the shared parts are there.                                    *)
Complete(files) ==
  files["sudo"] = "hook" /\ files["receipt"] # "absent" /\ \A p \in Artifacts : files[p] # "absent"

Clear(files) == files["sudo"] # "hook" /\ \A p \in Artifacts \cup Receipts : files[p] = "absent"

PartsOf(files) == IF Complete(files) THEN "all" ELSE IF Clear(files) THEN "none" ELSE "some"

(* A root part has done nothing until it commits.                          *)
Settled == IF lock = Nobody THEN disk ELSE backup[lock]

RegistryOf(files) == {e \in Entries : files[e] # "absent"}

Installation == INSTANCE SharedInstallation WITH
  Unregistered <- "legacy",
  registered   <- RegistryOf(Settled),
  parts        <- PartsOf(Settled),
  damaged      <- interrupted = "since"

(* Seen by its users, each install and uninstall is one step: it takes     *)
(* place completely or, if it fails anywhere, not at all, and only one     *)
(* that is killed leaves something between (root_integrate, root_remove and *)
(* their rollback).                                                        *)
ImplementsInstallation == Installation!Spec

(* Every install and uninstall that is started comes to an end, whatever   *)
(* the commands of other users do and although install.lock is waited for  *)
(* without a limit (flock, uninstall.sh:85, install-gaze-arch.sh:103).     *)
EveryCommandEnds == \A u \in Users : pc[u] # "idle" ~> pc[u] = "idle"
=============================================================================
